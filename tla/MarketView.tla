---------------------------- MODULE MarketView ----------------------------
(***************************************************************************)
(* What the consolidator promises its subscribers, with no incremental     *)
(* state at all: every accepted depth update publishes the full merge of   *)
(* the admitted venue books as they then stand, and every accepted quote   *)
(* publishes the full scan of the admitted quotes.  This is the "eager     *)
(* full merge" that the incremental consolidated book and the incremental  *)
(* BBO of Core replaced and must be indistinguishable from.                *)
(***************************************************************************)
EXTENDS MarketData

VARIABLES
  venueBooks,    \* [Instrument -> [Slot -> FlatOrderBook or NoBook]]
  venueQuotes,   \* [Instrument -> [Slot -> BboQuote]]
  depthHealth,   \* [Slot -> VenueHealth]
  bboHealth,     \* [Slot -> VenueHealth]
  bookOut,       \* the book the last book_callback_ of an instrument saw
  bboOut         \* the BBO the last bbo_callback_ of an instrument saw

vars == <<venueBooks, venueQuotes, depthHealth, bboHealth, bookOut, bboOut>>

Init ==
  /\ venueBooks = [i \in Instrument |-> [s \in Slot |-> NoBook]]
  /\ venueQuotes = [i \in Instrument |-> [s \in Slot |-> EmptyQuote]]
  /\ depthHealth = [s \in Slot |-> "kNoData"]
  /\ bboHealth = [s \in Slot |-> "kNoData"]
  /\ bookOut = [i \in Instrument |-> [l \in Level |-> [s \in Slot |-> 0]]]
  /\ bboOut = [i \in Instrument |-> [side \in Side |-> EmptyLevel]]

PublishUpdate(i, s, u) ==
  /\ venueBooks[i][s] # NoBook
  /\ venueBooks' = [venueBooks EXCEPT ![i][s] = ApplyUpdate(@, u)]
  /\ bookOut' = [bookOut EXCEPT ![i] = MergeBooks(venueBooks'[i], depthHealth)]
  /\ UNCHANGED <<venueQuotes, depthHealth, bboHealth, bboOut>>

PublishQuote(i, s, quote) ==
  /\ venueQuotes' = [venueQuotes EXCEPT ![i][s] = quote]
  /\ bboOut' = [bboOut EXCEPT ![i] = ComputeBBOFromQuotes(venueQuotes'[i], bboHealth)]
  /\ UNCHANGED <<venueBooks, depthHealth, bboHealth, bookOut>>

SetHealth(s, health) ==
  /\ \/ depthHealth' = [depthHealth EXCEPT ![s] = health] /\ UNCHANGED bboHealth
     \/ bboHealth' = [bboHealth EXCEPT ![s] = health] /\ UNCHANGED depthHealth
  /\ UNCHANGED <<venueBooks, venueQuotes, bookOut, bboOut>>

\* A venue that joins keeps a book it already has and starts empty otherwise.
Join(s) ==
  /\ venueBooks' = [i \in Instrument |->
       [venueBooks[i] EXCEPT ![s] = IF @ = NoBook THEN EmptyBook ELSE @]]
  /\ UNCHANGED <<venueQuotes, depthHealth, bboHealth, bookOut, bboOut>>

\* A venue that leaves takes its books, its quotes and its verdicts with it.
Leave(s) ==
  /\ venueBooks' = [i \in Instrument |-> [venueBooks[i] EXCEPT ![s] = NoBook]]
  /\ venueQuotes' = [i \in Instrument |-> [venueQuotes[i] EXCEPT ![s] = EmptyQuote]]
  /\ depthHealth' = [depthHealth EXCEPT ![s] = "kNoData"]
  /\ bboHealth' = [bboHealth EXCEPT ![s] = "kNoData"]
  /\ UNCHANGED <<bookOut, bboOut>>

Next ==
  \E s \in Slot :
    \/ \E i \in Instrument, u \in BookUpdate : PublishUpdate(i, s, u)
    \/ \E i \in Instrument, quote \in BboQuote : PublishQuote(i, s, quote)
    \/ \E health \in VenueHealth : SetHealth(s, health)
    \/ Join(s)
    \/ Leave(s)

Spec == Init /\ [][Next]_vars
===========================================================================
