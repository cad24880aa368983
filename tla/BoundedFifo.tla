--------------------------- MODULE BoundedFifo ---------------------------
(***************************************************************************)
(* What a provider queue promises its two threads: a first-in first-out    *)
(* buffer of at most Capacity messages.  A push the producer was told had  *)
(* succeeded is in the buffer, a refused one is not, and what the consumer *)
(* gets is the oldest message, whole and once.                             *)
(***************************************************************************)
EXTENDS Naturals, Sequences

CONSTANTS Message, Capacity, Nothing

VARIABLES
  items,     \* the messages handed over and not yet taken
  outcome,   \* what the producer's last finished call returned
  received   \* what the consumer's last finished call returned

vars == <<items, outcome, received>>

Init ==
  /\ items = <<>>
  /\ outcome = Nothing
  /\ received = Nothing

Push(m) ==
  /\ Len(items) < Capacity
  /\ items' = Append(items, m)
  /\ outcome' = [message |-> m, ok |-> TRUE]
  /\ UNCHANGED received

Refuse(m) ==
  /\ Len(items) = Capacity
  /\ outcome' = [message |-> m, ok |-> FALSE]
  /\ UNCHANGED <<items, received>>

Pop ==
  /\ items # <<>>
  /\ items' = Tail(items)
  /\ received' = Head(items)
  /\ UNCHANGED outcome

Next ==
  \/ \E m \in Message : Push(m)
  \/ \E m \in Message : Refuse(m)
  \/ Pop

Spec == Init /\ [][Next]_vars
==========================================================================
