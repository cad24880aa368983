---------------------------- MODULE MarketData ----------------------------
(***************************************************************************)
(* The data of md_core and the pure functions over it: venue books, fast   *)
(* quotes, health verdicts, the messages of a venue's queue, the k-way     *)
(* merge (MergeBooks) and the scan for the best quote (ScanBestBid/Ask).   *)
(*                                                                         *)
(* A depth book is a function from Level to a quantity, 0 meaning that the *)
(* book has no such level.  A Level stands for one (side, price) pair: the *)
(* merge treats every price of either side in the same way and the order   *)
(* of the levels does not matter to it.  The merged book keeps the         *)
(* attribution of every level, a quantity per slot, 0 meaning that the     *)
(* slot does not contribute.                                               *)
(***************************************************************************)
EXTENDS Integers

CONSTANTS
  Instrument,  \* the instruments Core was initialised with
  Foreign,     \* an instrument Core does not know
  MaxVenues,   \* kMaxVenues: capacity of every per-venue array
  Level,       \* the (side, price) pairs of a depth book
  MaxQty,      \* largest quantity of a level or a quote
  MaxPrice,    \* largest price of a quote
  NoBook       \* a null FlatOrderBook pointer

ASSUME MarketDataAssumption ==
  /\ Foreign \notin Instrument
  /\ MaxVenues \in Nat \ {0}
  /\ MaxQty \in Nat
  /\ MaxPrice \in Nat
  /\ NoBook \notin [Level -> 0 .. MaxQty]

Slot == 0 .. MaxVenues - 1
Quantity == 0 .. MaxQty
Price == 1 .. MaxPrice
NoPrice == 0                       \* "venue has sent no quote yet"
Side == {"bid", "ask"}
Stream == {"kDepth", "kBbo"}
VenueHealth == {"kNoData", "kLive", "kDisconnected", "kResyncing", "kStale"}

FlatOrderBook == [Level -> Quantity]
EmptyBook == [l \in Level |-> 0]
Book == [Level -> [Slot -> Quantity]]
BboQuote == [Side -> [price : Price \cup {NoPrice}, qty : Quantity]]
EmptyQuote == [side \in Side |-> [price |-> NoPrice, qty |-> 0]]
PriceAndVenues == [price : Price \cup {NoPrice}, venues : SUBSET (Slot \X Quantity)]
EmptyLevel == [price |-> NoPrice, venues |-> {}]

---------------------------------------------------------------------------
(* The messages of a venue's queue (provider_message.h).                    *)

NotSent == -1                      \* the update says nothing about this level

BookUpdate ==
  [kind : {"update"}, instrument : Instrument \cup {Foreign},
   isSnapshot : BOOLEAN, levels : [Level -> Quantity \cup {NotSent}]]
QuoteMessage ==
  [kind : {"quote"}, instrument : Instrument \cup {Foreign}, quote : BboQuote]
VenueHealthEvent ==
  [kind : {"health"}, stream : Stream, health : VenueHealth]
VenueRegistration == [kind |-> "registration"]
VenueDisconnect == [kind |-> "disconnect"]

ProviderMessage ==
  BookUpdate \cup QuoteMessage \cup VenueHealthEvent
    \cup {VenueRegistration, VenueDisconnect}

---------------------------------------------------------------------------
(* Depth.                                                                   *)

\* An allow-list: only a live venue contributes.
IsAdmissible(health) == health = "kLive"

\* Mutant: the levels the update does not name are not looked at.
MutantApplyUpdate(book, update) == update.levels

\* A snapshot clears the book first; a delta leaves the levels it does not
\* name alone.  A quantity is absolute and 0 removes the level.
ApplyUpdate(book, update) ==
  [l \in Level |->
     CASE update.levels[l] # NotSent -> update.levels[l]
       [] update.levels[l] = NotSent /\ update.isSnapshot -> 0
       [] update.levels[l] = NotSent /\ ~update.isSnapshot -> book[l]]

\* The levels for which applying a delta emits a LevelChange: a repeated
\* quantity and the removal of an absent level emit none.
ChangedLevels(book, update) ==
  {l \in Level : update.levels[l] \notin {NotSent, book[l]}}

\* The rebuild path, and the definition of what Core publishes: every admitted
\* venue that has a book contributes its quantity to every level.
MergeBooks(books, health) ==
  [l \in Level |->
     [s \in Slot |->
        IF books[s] # NoBook /\ IsAdmissible(health[s]) THEN books[s][l] ELSE 0]]

---------------------------------------------------------------------------
(* Best bid and best offer.                                                 *)

Better(side, p, q) == IF side = "bid" THEN p > q ELSE p < q

\* The slots the scan does not skip.
Candidates(side, quotes, health) ==
  {s \in Slot : quotes[s][side].price # NoPrice /\ IsAdmissible(health[s])}

BestPrice(side, quotes, health) ==
  LET C == Candidates(side, quotes, health)
  IN  CHOOSE p \in {quotes[s][side].price : s \in C} :
        \A s \in C : ~Better(side, quotes[s][side].price, p)

\* One side's full scan: the best price, and everyone who quotes it.
ScanBest(side, quotes, health) ==
  LET C == Candidates(side, quotes, health)
      best == BestPrice(side, quotes, health)
  IN  IF C = {} THEN EmptyLevel
      ELSE [price  |-> best,
            venues |-> {<<s, quotes[s][side].qty>> :
                          s \in {t \in C : quotes[t][side].price = best}}]

ComputeBBOFromQuotes(quotes, health) ==
  [side \in Side |-> ScanBest(side, quotes, health)]
===========================================================================
