------------------------ MODULE ConsolidatorProofs ------------------------
(***************************************************************************)
(* Proofs about the threads of md_core, for every number of venues, every  *)
(* queue capacity, spin limit and number of messages.                      *)
(***************************************************************************)
EXTENDS Consolidator, TLAPS

\* The abbreviations that every leaf has to see through.
USE DEF Slot, vars, buildVars, ingressVars, loopVars, bellVars

\* Every step keeps the types.
LEMMA NextType == TypeOK /\ [Next]_vars => TypeOK'
  <1> SUFFICES ASSUME TypeOK, [Next]_vars PROVE TypeOK'
    OBVIOUS
  <1>0. UNCHANGED buildVars
    BY DEF Next
  <1> USE <1>0, ConsolidatorAssumption DEF TypeOK
  <1>1. CASE UNCHANGED vars
    BY <1>1
  <1>2. CASE Register
    BY <1>2 DEF Register
  <1>3. ASSUME NEW s \in Slot, Push(s) PROVE TypeOK'
    BY <1>3 DEF Push
  <1>4. CASE RingDoorbell
    BY <1>4 DEF RingDoorbell
  <1>5. CASE NotifyOne
    BY <1>5 DEF NotifyOne, Signal
  <1>6. CASE Main
    <2>1. signalled' \in BOOLEAN /\ running' \in BOOLEAN
      BY <1>6, Zenon DEF Main, StopIngress, StopCore, NotifyAll, Join, Signal
    <2> QED
      BY <1>6, <2>1, SMTT(30) DEF Main, StopIngress, StopCore, NotifyAll, Join
  <1>7. CASE TestRunning
    BY <1>7 DEF TestRunning, StartPass
  <1>8. CASE DrainMessage
    BY <1>8 DEF DrainMessage
  <1>9. CASE DrainNextSlot \/ PendingNextSlot
    <2>1. index' \in 0 .. MaxVenues
      BY <1>9 DEF DrainNextSlot, PendingNextSlot
    <2> QED
      BY <1>9, <2>1, SMTT(30) DEF DrainNextSlot, PendingNextSlot
  <1>10. CASE EndPass \/ Spin \/ LockDoorbell \/ EndFinalPass
    <2>1. idleSpins' \in 0 .. SpinLimit
      BY <1>10 DEF EndPass, Spin, LockDoorbell, EndFinalPass
    <2> QED
      BY <1>10, <2>1, SMTT(30) DEF EndPass, Spin, LockDoorbell, EndFinalPass
  <1>11. CASE Arm
    <2>1. waiting' \in BOOLEAN /\ buffered' \in BOOLEAN
      BY <1>11, Zenon DEF Arm
    <2> QED
      BY <1>11, <2>1 DEF Arm
  <1>14. CASE Flush \/ Wake \/ Timeout
    <2>1. waiting' \in BOOLEAN /\ buffered' \in BOOLEAN /\ timedOut' \in BOOLEAN
      BY <1>14, Zenon DEF Flush, Wake, Timeout
    <2> QED
      BY <1>14, <2>1, SMTT(30) DEF Flush, Wake, Timeout
  <1>15. CASE Disarm
    <2>1. idleSpins' \in 0 .. SpinLimit
      BY <1>15 DEF Disarm
    <2> QED
      BY <1>15, <2>1 DEF Disarm
  <1>12. CASE TestStopped
    BY <1>12 DEF TestStopped, StartPass
  <1>13. CASE FindPending \/ FindNothing
    <2>1. waiting' \in BOOLEAN /\ buffered' \in BOOLEAN /\ signalled' \in BOOLEAN
      BY <1>13, Zenon DEF FindPending, FindNothing
    <2> QED
      BY <1>13, <2>1, SMTT(30) DEF FindPending, FindNothing
  <1> QED
    BY <1>1, <1>2, <1>3, <1>4, <1>5, <1>6, <1>7, <1>8, <1>9, <1>10, <1>11, <1>12, <1>13, <1>14, <1>15
       DEF Next, Ingress, Loop

\* The initial state has them.
LEMMA InitType == Init => TypeOK
  <1> SUFFICES ASSUME Init PROVE TypeOK
    OBVIOUS
  <1>1. /\ venueCount \in 0 .. MaxVenues /\ index \in 0 .. MaxVenues /\ count \in 0 .. MaxVenues
        /\ drained \in 0 .. MaxDrained
        /\ idleSpins \in 0 .. SpinLimit
    BY ConsolidatorAssumption DEF Init
  <1>2. pending \in [Slot -> 0 .. Capacity]
    BY ConsolidatorAssumption DEF Init
  <1>3. storeBuffer \in BOOLEAN /\ timeoutOn \in BOOLEAN
    BY ConsolidatorAssumption, Zenon DEF Init, ConsolidatorAssumption
  <1> QED
    BY <1>1, <1>2, <1>3 DEF Init, TypeOK

\* The threads of md_core keep to their states and the queues to their size.
THEOREM TypeCorrect == Spec => []TypeOK
  BY InitType, NextType, PTL DEF Spec

---------------------------------------------------------------------------
(* No wakeup is missed when stores are not delayed.                         *)

\* A message is only ever in a queue whose slot has been handed out.
SlotsHandedOut == \A s \in Slot : pending[s] > 0 => s < venueCount

\* From the store to consumer_waiting_ to the end of the wait, the ingress
\* thread sees the flag.
FlagVisible == ~storeBuffer /\ consumer \in {"predicate", "pending", "waiting"} => waiting

\* While HasPending walks the queues, a message in a queue it has passed, or
\* does not know of, came after the flag: its sender is on its way.
PassedQueues ==
  ~storeBuffer /\ consumer = "pending" =>
    /\ \A s \in Slot : pending[s] > 0 /\ (s < index \/ s >= count)
                         => ingress \in {"ring", "notify"}
    /\ ~running => stopper = "notify"

WakeInv == TypeOK /\ SlotsHandedOut /\ FlagVisible /\ PassedQueues /\ NoMissedWakeup

\* Every step keeps WakeInv.
LEMMA NextWake == WakeInv /\ [Next]_vars => WakeInv'
  <1> SUFFICES ASSUME WakeInv, [Next]_vars
               PROVE  SlotsHandedOut' /\ FlagVisible' /\ PassedQueues' /\ NoMissedWakeup'
    BY NextType DEF WakeInv
  <1>0. UNCHANGED buildVars
    BY DEF Next
  <1> USE <1>0, ConsolidatorAssumption DEF WakeInv, TypeOK, SlotsHandedOut, FlagVisible, PassedQueues,
          NoMissedWakeup
  <1>1. CASE UNCHANGED vars
    BY <1>1
  <1>2. CASE Register
    BY <1>2 DEF Register
  <1>3. ASSUME NEW s \in Slot, Push(s)
        PROVE  SlotsHandedOut' /\ FlagVisible' /\ PassedQueues' /\ NoMissedWakeup'
    BY <1>3 DEF Push
  <1>4. CASE RingDoorbell
    BY <1>4 DEF RingDoorbell
  <1>5. CASE NotifyOne
    BY <1>5 DEF NotifyOne, Signal, MutexHeld
  <1>6. CASE Main
    BY <1>6 DEF Main, StopIngress, StopCore, NotifyAll, Join, Signal, MutexHeld
  <1>7. CASE TestRunning
    BY <1>7 DEF TestRunning, StartPass
  <1>8. CASE DrainMessage
    BY <1>8 DEF DrainMessage
  <1>9. CASE DrainNextSlot
    BY <1>9 DEF DrainNextSlot
  <1>10. CASE PendingNextSlot
    BY <1>10 DEF PendingNextSlot
  <1>11. CASE EndPass \/ Spin \/ LockDoorbell \/ EndFinalPass \/ Disarm \/ FindPending
    BY <1>11 DEF EndPass, Spin, LockDoorbell, EndFinalPass, Disarm, FindPending
  <1>12. CASE Arm
    BY <1>12 DEF Arm
  <1>13. CASE Flush \/ Wake \/ Timeout
    BY <1>13 DEF Flush, Wake, Timeout
  <1>14. CASE TestStopped
    BY <1>14 DEF TestStopped, StartPass
  <1>15. CASE FindNothing
    <2>2. FlagVisible'
      BY <1>15, Zenon DEF FindNothing
    <2>3. SlotsHandedOut' /\ PassedQueues'
      BY <1>15 DEF FindNothing
    <2>4. NoMissedWakeup'
      BY <1>15 DEF FindNothing
    <2> QED
      BY <2>2, <2>3, <2>4
  <1> QED
    BY <1>1, <1>2, <1>3, <1>4, <1>5, <1>6, <1>7, <1>8, <1>9, <1>10, <1>11, <1>12, <1>13,
       <1>14, <1>15 DEF Next, Ingress, Loop

\* With stores that are seen at once, the doorbell needs no timeout: see
\* NoMissedWakeup.
THEOREM WakeupNotMissed == Spec => []NoMissedWakeup
  <1>1. Init => WakeInv
    <2>1. Init => TypeOK
      BY InitType
    <2> QED
      BY <2>1 DEF Init, WakeInv, SlotsHandedOut, FlagVisible, PassedQueues, NoMissedWakeup
  <1>2. WakeInv => NoMissedWakeup
    BY DEF WakeInv
  <1> QED
    BY <1>1, <1>2, NextWake, PTL DEF Spec

---------------------------------------------------------------------------
(* Nothing is left in a queue.                                              *)

\* Core is stopped only after the ingress thread is gone.
IngressGone ==
  /\ stopper # "off" => ingress = "stopped"
  /\ ~running => stopper # "off"
  /\ consumer \in {"final", "done"} => ~running

\* The final pass knows every slot, and has emptied those behind it.
FinalPass ==
  consumer \in {"final", "done"} =>
    count = venueCount /\ \A s \in Slot : s < index => pending[s] = 0

DrainInv ==
  /\ TypeOK /\ SlotsHandedOut /\ IngressGone /\ FinalPass
  /\ consumer = "done" => index = count

\* Every step keeps DrainInv.
LEMMA NextDrain == DrainInv /\ [Next]_vars => DrainInv'
  <1> SUFFICES ASSUME DrainInv, [Next]_vars
               PROVE  SlotsHandedOut' /\ IngressGone' /\ FinalPass'
                        /\ (consumer = "done" => index = count)'
    BY NextType DEF DrainInv
  <1>0. UNCHANGED buildVars
    BY DEF Next
  <1> USE <1>0, ConsolidatorAssumption DEF DrainInv, TypeOK, SlotsHandedOut, IngressGone, FinalPass
  <1>1. CASE UNCHANGED vars
    BY <1>1
  <1>2. CASE Register
    BY <1>2 DEF Register
  <1>3. ASSUME NEW s \in Slot, Push(s)
        PROVE  SlotsHandedOut' /\ IngressGone' /\ FinalPass'
                 /\ (consumer = "done" => index = count)'
    BY <1>3 DEF Push
  <1>4. CASE RingDoorbell \/ NotifyOne
    BY <1>4 DEF RingDoorbell, NotifyOne
  <1>5. CASE Main
    BY <1>5 DEF Main, StopIngress, StopCore, NotifyAll, Join
  <1>6. CASE TestRunning
    BY <1>6 DEF TestRunning, StartPass
  <1>7. CASE DrainMessage
    BY <1>7 DEF DrainMessage
  <1>8. CASE DrainNextSlot
    BY <1>8 DEF DrainNextSlot
  <1>9. CASE PendingNextSlot \/ EndPass \/ Spin \/ LockDoorbell \/ EndFinalPass \/ Disarm
             \/ FindPending
    BY <1>9, SMTT(30) DEF PendingNextSlot, EndPass, Spin, LockDoorbell, EndFinalPass, Disarm,
       FindPending
  <1>10. CASE Arm \/ Flush \/ Wake \/ Timeout \/ FindNothing
    BY <1>10 DEF Arm, Flush, Wake, Timeout, FindNothing
  <1>11. CASE TestStopped
    BY <1>11 DEF TestStopped, StartPass
  <1> QED
    BY <1>1, <1>2, <1>3, <1>4, <1>5, <1>6, <1>7, <1>8, <1>9, <1>10, <1>11
       DEF Next, Ingress, Loop

\* The final pass drains all that was handed over: see NothingLeftBehind.
THEOREM ShutdownDrains == Spec => []NothingLeftBehind
  <1>1. Init => DrainInv
    <2>1. Init => TypeOK
      BY InitType
    <2> QED
      BY <2>1 DEF Init, DrainInv, SlotsHandedOut, IngressGone, FinalPass
  <1>2. DrainInv => NothingLeftBehind
    BY DEF DrainInv, TypeOK, SlotsHandedOut, FinalPass, NothingLeftBehind
  <1> QED
    BY <1>1, <1>2, NextDrain, PTL DEF Spec
===========================================================================
