--------------------------- MODULE Consolidator ---------------------------
(***************************************************************************)
(* The threads of md_core around the queues: the ingress thread that       *)
(* pushes and rings the doorbell, the consolidator thread that drains,     *)
(* spins and at last sleeps on a condition variable, and the main thread   *)
(* that stops both.  A queue is reduced to its length and a message to a   *)
(* unit; what a drained message does is the subject of Core.               *)
(*                                                                         *)
(* consumer_waiting_ is stored with release order and the queue cursors    *)
(* are then loaded with acquire order, which does not order the store      *)
(* before the loads.  storeBuffer says whether the build lets the store    *)
(* linger (x86-64, two plain moves) or not (AArch64, STLR before LDAR).    *)
(* Mutex operations are full barriers on both.                             *)
(***************************************************************************)
EXTENDS Naturals

CONSTANTS
  MaxVenues,      \* kMaxVenues
  Capacity,       \* kProviderQueueCapacity
  SpinLimit,      \* kConsolidatorSpinLimit
  MaxDrained,     \* bound: the count of a pass saturates here
  StoreBuffers    \* the values of storeBuffer to look at

ASSUME ConsolidatorAssumption ==
  /\ MaxVenues \in Nat \ {0}
  /\ Capacity \in Nat \ {0}
  /\ SpinLimit \in Nat
  /\ MaxDrained \in Nat \ {0}
  /\ StoreBuffers \subseteq BOOLEAN

VARIABLES
  storeBuffer,     \* fixed: a store may be seen late
  timeoutOn,       \* fixed: the 50 ms timeout of the wait may fire
  venueCount,      \* venue_registry_.size()
  pending,         \* the length of every queue
  ingress,         \* where the ingress thread is
  running,         \* running_
  stopper,         \* where the main thread is in its shutdown
  consumer,        \* where the consolidator thread is
  index, count,    \* the locals of DrainOnce and of HasPending
  drained,         \* messages drained by this pass
  idleSpins,       \* idle_spins
  waiting,         \* consumer_waiting_ as the ingress thread sees it
  buffered,        \* its store of true is still in the store buffer
  signalled,       \* a notify has reached the waiting consolidator
  timedOut         \* this wait_for has run into its timeout

buildVars == <<storeBuffer, timeoutOn>>
ingressVars == <<venueCount, pending, ingress>>
loopVars == <<index, count, drained, idleSpins>>
bellVars == <<waiting, buffered, signalled, timedOut>>
vars == <<buildVars, ingressVars, running, stopper, consumer, loopVars, bellVars>>

Slot == 0 .. MaxVenues - 1

TypeOK ==
  /\ storeBuffer \in BOOLEAN
  /\ timeoutOn \in BOOLEAN
  /\ venueCount \in 0 .. MaxVenues
  /\ pending \in [Slot -> 0 .. Capacity]
  /\ ingress \in {"run", "ring", "notify", "stopped"}
  /\ running \in BOOLEAN
  /\ stopper \in {"off", "stop", "notify", "join", "done"}
  /\ consumer \in {"loop", "drain", "idle", "arm", "predicate", "pending",
                   "waiting", "disarm", "final", "done"}
  /\ index \in 0 .. MaxVenues
  /\ count \in 0 .. MaxVenues
  /\ drained \in 0 .. MaxDrained
  /\ idleSpins \in 0 .. SpinLimit
  /\ waiting \in BOOLEAN
  /\ buffered \in BOOLEAN
  /\ signalled \in BOOLEAN
  /\ timedOut \in BOOLEAN

\* Where stores are seen at once the timeout may also be left out, which shows
\* what the doorbell does without it.
Init ==
  /\ storeBuffer \in StoreBuffers
  /\ timeoutOn \in BOOLEAN
  /\ storeBuffer => timeoutOn
  /\ venueCount = 0
  /\ pending = [s \in Slot |-> 0]
  /\ ingress = "run"
  /\ running = TRUE
  /\ stopper = "off"
  /\ consumer = "loop"
  /\ index = 0 /\ count = 0 /\ drained = 0 /\ idleSpins = 0
  /\ waiting = FALSE /\ buffered = FALSE /\ signalled = FALSE /\ timedOut = FALSE

\* The consolidator holds doorbell_mutex_; the other threads hold it for no
\* longer than one step.
MutexHeld == consumer \in {"arm", "predicate", "pending", "disarm"}

---------------------------------------------------------------------------
(* The ingress thread.                                                      *)

Register ==
  /\ ingress = "run"
  /\ venueCount < MaxVenues
  /\ venueCount' = venueCount + 1
  /\ UNCHANGED <<pending, ingress, running, stopper, consumer, loopVars, bellVars>>

\* A successful TryEnqueueBounded; a refused one changes nothing here.
Push(s) ==
  /\ ingress = "run"
  /\ s < venueCount
  /\ pending[s] < Capacity
  /\ pending' = [pending EXCEPT ![s] = @ + 1]
  /\ ingress' = "ring"
  /\ UNCHANGED <<venueCount, running, stopper, consumer, loopVars, bellVars>>

\* Mutant: a doorbell that is never rung.
MutantRingDoorbell ==
  /\ ingress = "ring"
  /\ ingress' = "run"
  /\ UNCHANGED <<venueCount, pending, running, stopper, consumer, loopVars, bellVars>>

\* RingDoorbell: nothing to do unless the consolidator says it is waiting.
RingDoorbell ==
  /\ ingress = "ring"
  /\ ingress' = IF waiting THEN "notify" ELSE "run"
  /\ UNCHANGED <<venueCount, pending, running, stopper, consumer, loopVars, bellVars>>

Signal == signalled' = (signalled \/ consumer = "waiting")

\* Mutant: the notify does not wait for the mutex.
MutantNotifyOne ==
  /\ ingress = "notify"
  /\ Signal
  /\ ingress' = "run"
  /\ UNCHANGED <<venueCount, pending, running, stopper, consumer, loopVars,
                 waiting, buffered, timedOut>>

NotifyOne ==
  /\ ingress = "notify"
  /\ ~MutexHeld
  /\ Signal
  /\ ingress' = "run"
  /\ UNCHANGED <<venueCount, pending, running, stopper, consumer, loopVars,
                 waiting, buffered, timedOut>>

---------------------------------------------------------------------------
(* The main thread: the ingress is stopped and joined first, then Core.     *)

StopIngress ==
  /\ stopper = "off"
  /\ ingress = "run"
  /\ ingress' = "stopped"
  /\ stopper' = "stop"
  /\ UNCHANGED <<venueCount, pending, running, consumer, loopVars, bellVars>>

StopCore ==
  /\ stopper = "stop"
  /\ running' = FALSE
  /\ stopper' = "notify"
  /\ UNCHANGED <<ingressVars, consumer, loopVars, bellVars>>

\* Mutant: Stop does not notify.
MutantNotifyAll ==
  /\ stopper = "notify"
  /\ stopper' = "join"
  /\ UNCHANGED <<ingressVars, running, consumer, loopVars, bellVars>>

NotifyAll ==
  /\ stopper = "notify"
  /\ ~MutexHeld
  /\ Signal
  /\ stopper' = "join"
  /\ UNCHANGED <<ingressVars, running, consumer, loopVars, waiting, buffered, timedOut>>

Join ==
  /\ stopper = "join"
  /\ consumer = "done"
  /\ stopper' = "done"
  /\ UNCHANGED <<ingressVars, running, consumer, loopVars, bellVars>>

---------------------------------------------------------------------------
(* The consolidator thread: ConsolidatorLoop.                               *)

StartPass(where) ==
  /\ consumer' = where
  /\ index' = 0
  /\ count' = venueCount
  /\ drained' = 0

\* Mutant: no final pass after the loop.
MutantNoFinalPass ==
  /\ consumer = "loop"
  /\ StartPass(IF running THEN "drain" ELSE "done")
  /\ UNCHANGED <<ingressVars, running, stopper, idleSpins, bellVars>>

TestRunning ==
  /\ consumer = "loop"
  /\ StartPass(IF running THEN "drain" ELSE "final")
  /\ UNCHANGED <<ingressVars, running, stopper, idleSpins, bellVars>>

\* One message of the slot at hand: a queue is emptied before the next one.
DrainMessage ==
  /\ consumer \in {"drain", "final"}
  /\ index < count
  /\ pending[index] > 0
  /\ pending' = [pending EXCEPT ![index] = @ - 1]
  /\ drained' = IF drained < MaxDrained THEN drained + 1 ELSE drained
  /\ UNCHANGED <<venueCount, ingress, running, stopper, consumer, index, count,
                 idleSpins, bellVars>>

DrainNextSlot ==
  /\ consumer \in {"drain", "final"}
  /\ index < count
  /\ pending[index] = 0
  /\ index' = index + 1
  /\ UNCHANGED <<ingressVars, running, stopper, consumer, count, drained, idleSpins, bellVars>>

EndPass ==
  /\ consumer = "drain"
  /\ index = count
  /\ consumer' = IF drained > 0 THEN "loop" ELSE "idle"
  /\ idleSpins' = IF drained > 0 THEN 0 ELSE idleSpins
  /\ UNCHANGED <<ingressVars, running, stopper, index, count, drained, bellVars>>

Spin ==
  /\ consumer = "idle"
  /\ idleSpins < SpinLimit
  /\ idleSpins' = idleSpins + 1
  /\ consumer' = "loop"
  /\ UNCHANGED <<ingressVars, running, stopper, index, count, drained, bellVars>>

LockDoorbell ==
  /\ consumer = "idle"
  /\ idleSpins = SpinLimit
  /\ consumer' = "arm"
  /\ UNCHANGED <<ingressVars, running, stopper, loopVars, bellVars>>

\* The store to consumer_waiting_, and the start of wait_for.
Arm ==
  /\ consumer = "arm"
  /\ buffered' = storeBuffer
  /\ waiting' = ~storeBuffer
  /\ timedOut' = FALSE
  /\ consumer' = "predicate"
  /\ UNCHANGED <<ingressVars, running, stopper, loopVars, signalled>>

Flush ==
  /\ buffered
  /\ buffered' = FALSE
  /\ waiting' = TRUE
  /\ UNCHANGED <<ingressVars, running, stopper, consumer, loopVars, signalled, timedOut>>

\* The predicate of the wait: stopped, or HasPending finds a queue that is not
\* empty.
TestStopped ==
  /\ consumer = "predicate"
  /\ StartPass(IF running THEN "pending" ELSE "disarm")
  /\ UNCHANGED <<ingressVars, running, stopper, idleSpins, bellVars>>

FindPending ==
  /\ consumer = "pending"
  /\ index < count
  /\ pending[index] > 0
  /\ consumer' = "disarm"
  /\ UNCHANGED <<ingressVars, running, stopper, loopVars, bellVars>>

PendingNextSlot ==
  /\ consumer = "pending"
  /\ index < count
  /\ pending[index] = 0
  /\ index' = index + 1
  /\ UNCHANGED <<ingressVars, running, stopper, consumer, count, drained, idleSpins, bellVars>>

\* Nothing to do: the wait releases the mutex, or returns after its timeout.
FindNothing ==
  /\ consumer = "pending"
  /\ index = count
  /\ consumer' = IF timedOut THEN "disarm" ELSE "waiting"
  /\ waiting' = (waiting \/ buffered)
  /\ buffered' = FALSE
  /\ signalled' = FALSE
  /\ UNCHANGED <<ingressVars, running, stopper, loopVars, timedOut>>

Wake ==
  /\ consumer = "waiting"
  /\ signalled
  /\ consumer' = "predicate"
  /\ UNCHANGED <<ingressVars, running, stopper, loopVars, bellVars>>

Timeout ==
  /\ timeoutOn
  /\ consumer = "waiting"
  /\ timedOut' = TRUE
  /\ consumer' = "predicate"
  /\ UNCHANGED <<ingressVars, running, stopper, loopVars, waiting, buffered, signalled>>

\* The flag is lowered, the spin count reset and the mutex released.
Disarm ==
  /\ consumer = "disarm"
  /\ consumer' = "loop"
  /\ waiting' = FALSE /\ buffered' = FALSE
  /\ idleSpins' = 0
  /\ UNCHANGED <<ingressVars, running, stopper, index, count, drained, signalled, timedOut>>

EndFinalPass ==
  /\ consumer = "final"
  /\ index = count
  /\ consumer' = "done"
  /\ UNCHANGED <<ingressVars, running, stopper, loopVars, bellVars>>

---------------------------------------------------------------------------
Ingress == Register \/ (\E s \in Slot : Push(s)) \/ RingDoorbell \/ NotifyOne
Main == StopIngress \/ StopCore \/ NotifyAll \/ Join
Loop ==
  \/ TestRunning \/ DrainMessage \/ DrainNextSlot \/ EndPass \/ Spin \/ LockDoorbell
  \/ Arm \/ TestStopped \/ FindPending \/ PendingNextSlot \/ FindNothing \/ Wake \/ Timeout
  \/ Disarm \/ EndFinalPass

Next == (Ingress \/ Main \/ Loop \/ Flush) /\ UNCHANGED buildVars

\* Every thread that can run is scheduled and a store reaches memory; nobody
\* has to push another message or to begin a shutdown.
Spec ==
  /\ Init /\ [][Next]_vars
  /\ WF_vars((RingDoorbell \/ NotifyOne) /\ UNCHANGED buildVars)
  /\ WF_vars((StopCore \/ NotifyAll \/ Join) /\ UNCHANGED buildVars)
  /\ WF_vars(Loop /\ UNCHANGED buildVars)
  /\ WF_vars(Flush /\ UNCHANGED buildVars)

---------------------------------------------------------------------------
(* Properties.                                                              *)

\* Where stores are seen at once: while the consolidator sleeps un-notified, a
\* message it has not drained or a stop it has not seen has a thread on its way
\* to notify it.  No wakeup is lost between the predicate and the wait
\* (ConsolidatorLoop, RingDoorbell, Stop).
NoMissedWakeup ==
  ~storeBuffer /\ consumer = "waiting" /\ ~signalled =>
    /\ (\E s \in Slot : pending[s] > 0) => ingress \in {"ring", "notify"}
    /\ ~running => stopper = "notify"

\* Once the consolidator has ended, every message handed over has been drained:
\* the ingress is stopped first, and the final pass reads the slot count again.
NothingLeftBehind ==
  consumer = "done" => \A s \in Slot : pending[s] = 0

\* The consolidator is at the queue of the slot.
Serving(s) == consumer \in {"drain", "final"} /\ index = s /\ s < count

\* What is in a queue is taken out of it, message after message, whatever the
\* doorbell, a sleep or a shutdown do in between: a queue keeps what it holds only
\* if the consolidator stays for ever with the queue of another slot, and then that
\* one is refilled for ever (DrainOnce, ConsolidatorLoop).
MessagesDrained ==
  \A s \in Slot :
    \/ []<>(pending[s] = 0)
    \/ []<><<pending'[s] < pending[s]>>_vars
    \/ \E t \in Slot \ {s} : <>[]Serving(t) /\ []<><<Push(t)>>_vars

\* Core::Stop comes back: the join never waits for a consolidator that sleeps.
StopReturns == stopper = "stop" ~> stopper = "done"

\* A pass drains no more than the queues can hold: the capacity bounds how long
\* a busy venue can keep the consolidator from a quiet one (DrainOnce).
PassIsBounded == drained <= count * Capacity
===========================================================================
