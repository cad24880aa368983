---------------------------- MODULE SpscQueue ----------------------------
(***************************************************************************)
(* The ring buffer between the ingress thread and the consolidator thread, *)
(* one memory access per step.  head_ belongs to the producer and tail_ to *)
(* the consumer; both count up forever in a word of Wrap values and are    *)
(* reduced to a cell only when one is addressed.  A release store makes    *)
(* the thread's earlier writes visible with it, so a step-by-step          *)
(* interleaving is what the acquire and release accesses allow.  A cell    *)
(* that was moved from is left with no usable content (Husk).              *)
(*                                                                         *)
(* The producer's side includes the retries of TryEnqueueBounded.          *)
(***************************************************************************)
EXTENDS Naturals, Sequences

CONSTANTS
  Message,    \* the messages a caller may offer
  Capacity,   \* kProviderQueueCapacity
  Wrap,       \* the number of values of std::size_t
  Attempts,   \* kEnqueueSpinAttempts
  Husk,       \* what a move leaves behind
  Nothing     \* no call has finished yet

ASSUME SpscQueueAssumption ==
  /\ Capacity \in Nat \ {0}
  /\ Wrap \in Nat
  /\ Wrap % Capacity = 0
  /\ Wrap > Capacity + 1
  /\ Attempts \in Nat \ {0}
  /\ Husk \notin Message

VARIABLES
  head, tail,   \* head_, tail_
  buffer,       \* buffer_
  producer,     \* where the producer is in its call
  offered,      \* the message its caller wants sent
  message,      \* its own object, which a push moves from
  attempt,      \* failed attempts of this call
  outcome,      \* what its last finished call returned
  consumer,     \* where the consumer is in its call
  value,        \* what it has read
  received      \* what its last successful call returned

producerVars == <<producer, offered, message, attempt, outcome>>
consumerVars == <<consumer, value, received>>
vars == <<head, tail, buffer, producerVars, consumerVars>>

Cell(cursor) == cursor % Capacity          \* cursor & kMask
Distance(from, to) == (to + Wrap - from) % Wrap
Advance(cursor) == (cursor + 1) % Wrap

TypeOK ==
  /\ head \in 0 .. Wrap - 1
  /\ tail \in 0 .. Wrap - 1
  /\ buffer \in [0 .. Capacity - 1 -> Message \cup {Husk}]
  /\ producer \in {"idle", "check", "write", "publish"}
  /\ offered \in Message \cup {Nothing}
  /\ message \in Message \cup {Husk, Nothing}
  /\ attempt \in 0 .. Attempts - 1
  /\ outcome \in {Nothing} \cup [message : Message, ok : BOOLEAN]
  /\ consumer \in {"idle", "read", "release"}
  /\ value \in Message \cup {Husk, Nothing}
  /\ received \in Message \cup {Husk, Nothing}

Init ==
  /\ head = 0 /\ tail = 0
  /\ buffer = [c \in 0 .. Capacity - 1 |-> Husk]
  /\ producer = "idle" /\ offered = Nothing /\ message = Nothing
  /\ attempt = 0 /\ outcome = Nothing
  /\ consumer = "idle" /\ value = Nothing /\ received = Nothing

--------------------------------------------------------------------------
(* The producer: TryEnqueueBounded around TryPush.                         *)

Offer(m) ==
  /\ producer = "idle"
  /\ producer' = "check"
  /\ offered' = m /\ message' = m /\ attempt' = 0
  /\ UNCHANGED <<head, tail, buffer, outcome, consumerVars>>

\* Mutant: one message too many.
MutantRoom == Distance(tail, Advance(head)) <= Capacity + 1

Room == Distance(tail, Advance(head)) <= Capacity

FindRoom ==
  /\ producer = "check"
  /\ Room
  /\ producer' = "write"
  /\ UNCHANGED <<head, tail, buffer, offered, message, attempt, outcome, consumerVars>>

\* Mutant: a failed attempt has already moved from the message.
MutantRetry ==
  /\ producer = "check"
  /\ ~Room
  /\ attempt < Attempts - 1
  /\ attempt' = attempt + 1
  /\ message' = Husk
  /\ UNCHANGED <<head, tail, buffer, producer, offered, outcome, consumerVars>>

\* A failed attempt leaves the message as it was.
Retry ==
  /\ producer = "check"
  /\ ~Room
  /\ attempt < Attempts - 1
  /\ attempt' = attempt + 1
  /\ UNCHANGED <<head, tail, buffer, producer, offered, message, outcome, consumerVars>>

GiveUp ==
  /\ producer = "check"
  /\ ~Room
  /\ attempt = Attempts - 1
  /\ producer' = "idle"
  /\ outcome' = [message |-> offered, ok |-> FALSE]
  /\ UNCHANGED <<head, tail, buffer, offered, message, attempt, consumerVars>>

WriteCell ==
  /\ producer = "write"
  /\ producer' = "publish"
  /\ buffer' = [buffer EXCEPT ![Cell(head)] = message]
  /\ message' = Husk
  /\ UNCHANGED <<head, tail, offered, attempt, outcome, consumerVars>>

PublishHead ==
  /\ producer = "publish"
  /\ producer' = "idle"
  /\ head' = Advance(head)
  /\ outcome' = [message |-> offered, ok |-> TRUE]
  /\ UNCHANGED <<tail, buffer, offered, message, attempt, consumerVars>>

--------------------------------------------------------------------------
(* The consumer: TryPop.                                                   *)

FindItem ==
  /\ consumer = "idle"
  /\ tail # head
  /\ consumer' = "read"
  /\ UNCHANGED <<head, tail, buffer, producerVars, value, received>>

ReadCell ==
  /\ consumer = "read"
  /\ consumer' = "release"
  /\ value' = buffer[Cell(tail)]
  /\ buffer' = [buffer EXCEPT ![Cell(tail)] = Husk]
  /\ UNCHANGED <<head, tail, producerVars, received>>

ReleaseTail ==
  /\ consumer = "release"
  /\ consumer' = "idle"
  /\ tail' = Advance(tail)
  /\ received' = value
  /\ UNCHANGED <<head, buffer, producerVars, value>>

Next ==
  \/ \E m \in Message : Offer(m)
  \/ FindRoom \/ Retry \/ GiveUp \/ WriteCell \/ PublishHead
  \/ FindItem \/ ReadCell \/ ReleaseTail

Spec == Init /\ [][Next]_vars

--------------------------------------------------------------------------
(* Properties.                                                             *)

\* The two threads never touch the same cell at the same time: the producer's
\* room check and the consumer's emptiness check keep their accesses apart,
\* also when the cursors wrap and when the ring is full.
NoDataRace ==
  ~(producer = "write" /\ consumer = "read" /\ Cell(head) = Cell(tail))

\* What is in the ring for a reader who sees only whole calls: from tail_ to
\* head_, the first one possibly already in the consumer's hand.
Items ==
  [k \in 1 .. Distance(tail, head) |->
     IF k = 1 /\ consumer = "release" THEN value ELSE buffer[Cell(tail + k - 1)]]

\* Whatever the interleaving, the two threads see a bounded first-in first-out
\* queue: nothing is lost, duplicated, reordered or delivered as a husk, and a
\* call refused after its retries left no trace.
Fifo == INSTANCE BoundedFifo WITH items <- Items
FifoSpec == Fifo!Spec
==========================================================================
