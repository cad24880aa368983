------------------------------ MODULE MCCore ------------------------------
(***************************************************************************)
(* A small instance of Core for TLC.  The depth stream and the quote stream  *)
(* of an instrument meet in no variable but the queues and the registered    *)
(* venues, so a behaviour keeps to one of three scenarios, drawn at its      *)
(* start: two venues and the depth of one instrument, two venues and its     *)
(* quotes, or one venue with both streams of two instruments and of a        *)
(* foreign one.  The state space is their sum and not their product.  With   *)
(* the quotes only one venue at a time has a message waiting: Core reads the *)
(* same sequences of messages either way.                                    *)
(***************************************************************************)
EXTENDS Core, TLC

CONSTANTS First,       \* the instrument of the first two scenarios
          HealthSet    \* the verdicts a provider may push in them

VARIABLE scenario
MCvars == <<vars, scenario>>

\* Deltas and snapshots that name one level; the snapshot of an empty book.  The
\* other instruments get one of each.
MCUpdate(i, isSnapshot, levels) ==
  [kind |-> "update", instrument |-> i, isSnapshot |-> isSnapshot, levels |-> levels]
MCLevels(l, qty) == [m \in Level |-> IF m = l THEN qty ELSE NotSent]
MCEmpty == [l \in Level |-> NotSent]
MCUpdateInput ==
  {MCUpdate(First, isSnapshot, MCLevels(l, qty)) :
     isSnapshot \in BOOLEAN, l \in Level, qty \in Quantity \ {0}}
    \cup {MCUpdate(First, FALSE, MCLevels(l, 0)) : l \in Level}
    \cup {MCUpdate(i, TRUE, MCLevels(l, 1)) : i \in (Instrument \cup {Foreign}) \ {First}, l \in Level}
    \cup {MCUpdate(i, TRUE, MCEmpty) : i \in Instrument \ {First}}

\* A quote has both sides or neither.  Core never compares the two, so that they
\* may as well have the same price.
MCQuote(price, qty) == [side \in Side |-> [price |-> price, qty |-> qty]]
MCQuoteInput ==
  [kind : {"quote"}, instrument : {First},
   quote : {EmptyQuote} \cup {MCQuote(price, qty) : price \in 1 .. MaxPrice, qty \in Quantity \ {0}}]
    \cup [kind : {"quote"}, instrument : (Instrument \cup {Foreign}) \ {First}, quote : {MCQuote(1, 1)}]

MCHealthInput == [kind : {"health"}, stream : Stream, health : HealthSet]

\* What a scenario leaves out.
OfStream(m, stream) ==
  \/ m.kind = "health" /\ m.stream = stream
  \/ m.kind = "update" /\ stream = "kDepth"
  \/ m.kind = "quote" /\ stream = "kBbo"
Narrow(m) == \* one instrument
  m.kind \in {"update", "quote"} => m.instrument = First
Small(m) == \* one verdict, one price
  /\ m.kind = "health" => m.health = "kLive"
  /\ m.kind = "quote" => m.quote \in {EmptyQuote, MCQuote(1, 1)}
Inside(m) ==
  CASE scenario = "depth" -> Narrow(m) /\ ~OfStream(m, "kBbo")
    [] scenario = "quotes" -> Narrow(m) /\ ~OfStream(m, "kDepth")
    [] scenario = "both" -> Small(m)

MCInit == Init /\ scenario \in {"depth", "quotes", "both"}
MCNext ==
  /\ Next
  /\ UNCHANGED scenario
  /\ scenario = "both" => venueCount' <= 1
  /\ scenario = "quotes" => \A r, s \in Slot : r # s => queues'[r] = <<>> \/ queues'[s] = <<>>
  /\ \A s \in Slot : queues'[s] # <<>> => Inside(Head(queues'[s]))
MCSpec == MCInit /\ [][MCNext]_MCvars

===========================================================================
