------------------------------- MODULE Depth -------------------------------
(***************************************************************************)
(* The way of a depth update from the provider's sink to the consolidated   *)
(* book, with the arrays that Core's module takes as functions: the frame   *)
(* it travels in (Codec), the sorted vectors of FlatOrderBook that a delta  *)
(* is merged into in place, the list of changes it reports, and State,      *)
(* which repairs its own vector of merged levels from that list or rebuilds *)
(* it with MergeBooks.                                                      *)
(*                                                                         *)
(* Bids and asks are two independent vectors that differ in their order     *)
(* only, so a behaviour keeps to one of them, drawn at its start.  All      *)
(* venues are admitted here; who is, and the queues, are the matter of      *)
(* Core.                                                                    *)
(***************************************************************************)
EXTENDS Codec, FiniteSets, FiniteSetsExt

CONSTANTS
  MaxVenues,       \* kMaxVenues, the venues here
  PricesOf,        \* the prices each venue quotes
  Quantity,        \* quantities, 0 removes a level
  Unsorted,        \* the venues that send their levels in any order
  Leftover,        \* what decode_update_ may hold when it is used again
  OtherMessage,    \* messages of the other types
  Nothing          \* no message

Slot == 0 .. MaxVenues - 1
Price == UNION {PricesOf[s] : s \in Slot}

ASSUME DepthAssumption ==
  /\ MaxVenues \in 1 .. Byte - 1
  /\ DOMAIN PricesOf = Slot /\ Price \subseteq Nat /\ IsFiniteSet(Price)
  /\ Quantity \subseteq Nat /\ 0 \in Quantity
  /\ Leftover \subseteq BookUpdate /\ OtherMessage \subseteq OtherMessages
  /\ Nothing \notin Messages
  /\ NameCapacity \in Nat \ {0}

VARIABLES
  side,          \* fixed: bids or asks
  market,        \* the books of the venues themselves
  message,       \* the message under way, Nothing if none
  frame,         \* its frame
  slot,          \* the venue whose connection it is on
  books,         \* venue_books_: one side of each FlatOrderBook
  state,         \* State::book_, the same side
  needsRebuild   \* State::needs_rebuild_

wireVars == <<message, frame, slot>>
bookVars == <<books, state, needsRebuild>>
vars == <<side, market, wireVars, bookVars>>

Init ==
  /\ side \in {"bids", "asks"}
  /\ market = [s \in Slot |-> [p \in PricesOf[s] |-> 0]]
  /\ message = Nothing
  /\ frame = <<>>
  /\ slot = 0
  /\ books = [s \in Slot |-> <<>>]
  /\ state = <<>>
  /\ needsRebuild = TRUE

\* storage_less: a book ends with its best price.
StorageLess(p, q) == IF side = "bids" THEN p < q ELSE p > q
\* The consolidated book begins with it.
Better(p, q) == StorageLess(q, p)

Level(price, qty) == [price |-> price, qty |-> qty]

---------------------------------------------------------------------------
(* The sink: a message is encoded into a frame.                             *)

Encode(m) ==
  CASE m.type = "kHello" -> EncodeHello(m.body)
    [] m.type = "kGoodbye" -> EncodeGoodbye(m.body)
    [] m.type = "kBookUpdate" -> EncodeBookUpdate(m.body)
    [] m.type = "kBboQuote" -> EncodeBboQuote(m.body)
    [] m.type = "kHealth" -> EncodeHealth(m.body)

Send(s, m) ==
  /\ message' = m
  /\ frame' = Encode(m)
  /\ slot' = s
  /\ UNCHANGED <<side, bookVars>>

\* The orders in which a venue names prices, each at most once: best first, or any.
Orders(s) ==
  {order \in SetToAllKPermutations(PricesOf[s]) :
     s \in Unsorted \/ \A n \in 2 .. Len(order) : Better(order[n - 1], order[n])}

Update(s, isSnapshot, levels) ==
  [instrument |-> [symbol |-> s, market |-> 1], seq |-> 7,
   prevSeq |-> IF isSnapshot THEN -1 ELSE 6, isSnapshot |-> isSnapshot,
   bids |-> IF side = "bids" THEN levels ELSE <<>>,
   asks |-> IF side = "asks" THEN levels ELSE <<>>]

\* What a venue's book is after an update that names the prices in qty.
After(book, isSnapshot, qty) ==
  [p \in DOMAIN book |-> IF p \in DOMAIN qty THEN qty[p] ELSE IF isSnapshot THEN 0 ELSE book[p]]

SendUpdate(s, isSnapshot) ==
  /\ message = Nothing
  /\ \E order \in Orders(s) :
       \E qty \in [Range(order) -> IF isSnapshot THEN Quantity \ {0} ELSE Quantity] :
         LET levels == [n \in DOMAIN order |-> Level(order[n], qty[order[n]])]
         IN  /\ Send(s, [type |-> "kBookUpdate", body |-> Update(s, isSnapshot, levels)])
             /\ market' = [market EXCEPT ![s] = After(@, isSnapshot, qty)]

SendOther(s) ==
  /\ message = Nothing
  /\ \E m \in OtherMessage : Send(s, m)
  /\ UNCHANGED market

---------------------------------------------------------------------------
(* FlatOrderBook::ApplySide.                                                *)

InOrder(levels) ==
  \A n \in 2 .. Len(levels) : ~StorageLess(levels[n].price, levels[n - 1].price)

\* std::sort: some rearrangement that is in order.
Sorted(levels) ==
  CHOOSE sorted \in {[n \in DOMAIN levels |-> levels[p[n]]] : p \in Bijection(DOMAIN levels, DOMAIN levels)} :
    InOrder(sorted)

\* Mutant: what is not in order is taken to be in reverse order.
MutantResolved(levels) == IF InOrder(levels) THEN levels ELSE Reverse(levels)

\* The delta in storage order: as it is, read backwards, or sorted.
Resolved(levels) ==
  IF InOrder(levels) THEN levels
  ELSE IF InOrder(Reverse(levels)) THEN Reverse(levels)
  ELSE Sorted(levels)

Change(price, old, new) == [price |-> price, old |-> old, new |-> new]

\* A round of the walk from the best price down: i levels of the book and j of the
\* delta are still to be seen.  Quantities are written at once, what enters and
\* what leaves is counted, and the walk ends with the delta.
WalkRound(w, delta) ==
  LET new == delta[w.j]
      old == w.levels[w.i]
  IN  IF w.j = 0 THEN w
      ELSE IF w.i = 0 \/ StorageLess(old.price, new.price) THEN
        [w EXCEPT !.j = @ - 1,
                  !.inserts = IF new.qty = 0 THEN @ ELSE @ + 1,
                  !.changes = IF new.qty = 0 THEN @ ELSE Append(@, Change(new.price, 0, new.qty))]
      ELSE IF StorageLess(new.price, old.price) THEN [w EXCEPT !.i = @ - 1]
      ELSE
        [w EXCEPT !.i = @ - 1, !.j = @ - 1,
                  !.erases = IF new.qty = 0 THEN @ + 1 ELSE @,
                  !.levels[w.i].qty = IF new.qty = 0 THEN @ ELSE new.qty,
                  !.changes = IF new.qty = old.qty THEN @
                              ELSE Append(@, Change(new.price, old.qty, new.qty))]

\* Every round leaves the book or the delta shorter.
Walk(levels, delta) ==
  LET rounds == Len(levels) + Len(delta)
      w[n \in 0 .. rounds] ==
        IF n = 0
        THEN [levels |-> levels, i |-> Len(levels), j |-> Len(delta),
              inserts |-> 0, erases |-> 0, changes |-> <<>>]
        ELSE WalkRound(w[n - 1], delta)
  IN  w[rounds]

\* What the delta leaves of a level it names.
Kept(level) == IF level.qty = 0 THEN <<>> ELSE <<level>>

\* A round of Relocate's merge, forwards: read levels of the book and j of the
\* delta are behind it.
MergeRound(m, levels, delta) ==
  LET old == levels[m.read + 1]
      new == delta[m.j + 1]
  IN  IF m.read = Len(levels) /\ m.j = Len(delta) THEN m
      ELSE IF m.j = Len(delta) \/ (m.read < Len(levels) /\ StorageLess(old.price, new.price)) THEN
        [m EXCEPT !.read = @ + 1, !.merged = Append(@, old)]
      ELSE IF m.read = Len(levels) \/ StorageLess(new.price, old.price) THEN
        [m EXCEPT !.j = @ + 1, !.merged = @ \o Kept(new)]
      ELSE
        [m EXCEPT !.read = @ + 1, !.j = @ + 1, !.merged = @ \o Kept(new)]

Merged(levels, deepest, delta) ==
  LET rounds == Len(levels) + Len(delta)
      m[n \in 0 .. rounds] ==
        IF n = 0 THEN [read |-> deepest, j |-> 0, merged |-> <<>>]
        ELSE MergeRound(m[n - 1], levels, delta)
  IN  m[rounds].merged

Relocate(levels, deepest, delta) == SubSeq(levels, 1, deepest) \o Merged(levels, deepest, delta)

\* Mutant: a delta that takes as many levels out as it brings in is not relocated.
MutantApplySide(levels, sent) ==
  LET delta == Resolved(sent)
      w == Walk(levels, delta)
  IN  [levels |-> IF w.inserts = w.erases THEN w.levels ELSE Relocate(w.levels, w.i, delta),
       changes |-> w.changes]

ApplySide(levels, sent) ==
  LET delta == Resolved(sent)
      w == Walk(levels, delta)
  IN  [levels |-> IF w.inserts = 0 /\ w.erases = 0 THEN w.levels
                  ELSE Relocate(w.levels, w.i, delta),
       changes |-> w.changes]

---------------------------------------------------------------------------
(* State: the merged levels, best first, each with its venues by slot.      *)

Contribution(s, qty) == [slot |-> s, qty |-> qty]

Sum(numbers) ==
  LET sum[n \in 0 .. Len(numbers)] == IF n = 0 THEN 0 ELSE sum[n - 1] + numbers[n]
  IN  sum[Len(numbers)]
Total(venues) == Sum([n \in DOMAIN venues |-> venues[n].qty])

MergedLevel(price, venues) == [price |-> price, venues |-> venues, qty |-> Total(venues)]

\* LowerBoundByRank: the first level that does not rank ahead of the price.
LowerBoundByRank(levels, price) ==
  Min({n \in 1 .. Len(levels) + 1 : n = Len(levels) + 1 \/ ~Better(levels[n].price, price)})

\* FindVenue: 0 if the venue is not at the level.
FindVenue(level, s) == SelectInSeq(level.venues, LAMBDA v : v.slot = s)

\* A venue leaves a level, and takes it along if it was the last one.
Withdrawn(levels, index, at) ==
  IF Len(levels[index].venues) = 1 THEN RemoveAt(levels, index)
  ELSE [levels EXCEPT ![index].venues = RemoveAt(@, at),
                      ![index].qty = @ - levels[index].venues[at].qty]

\* Mutant: a venue that joins a level comes last.
MutantJoined(level, s, qty) ==
  [level EXCEPT !.venues = Append(@, Contribution(s, qty)), !.qty = @ + qty]

\* A venue joins a level, in the order of the slots.
Joined(level, s, qty) ==
  LET venues == level.venues
      place == Min({n \in 1 .. Len(venues) + 1 : n = Len(venues) + 1 \/ venues[n].slot >= s})
  IN  [level EXCEPT !.venues = InsertAt(@, place, Contribution(s, qty)), !.qty = @ + qty]

Replaced(level, at, qty) ==
  [level EXCEPT !.qty = @ - level.venues[at].qty + qty, !.venues[at].qty = qty]

ApplyOneChange(levels, s, change) ==
  LET index == LowerBoundByRank(levels, change.price)
      present == index <= Len(levels) /\ levels[index].price = change.price
      at == FindVenue(levels[index], s)
  IN  IF ~present THEN
        IF change.new = 0 THEN levels
        ELSE InsertAt(levels, index, MergedLevel(change.price, <<Contribution(s, change.new)>>))
      ELSE IF change.new = 0 THEN
        IF at = 0 THEN levels ELSE Withdrawn(levels, index, at)
      ELSE
        [levels EXCEPT ![index] = IF at # 0 THEN Replaced(@, at, change.new)
                                  ELSE Joined(@, s, change.new)]

ApplyDepthDelta(levels, s, changes) ==
  LET l[n \in 0 .. Len(changes)] ==
        IF n = 0 THEN levels ELSE ApplyOneChange(l[n - 1], s, changes[n])
  IN  l[Len(changes)]

\* The venues whose iterator is not at its end: left[s] levels of the book of s are
\* still to be merged, and a book ends with its best level.
Active(left) == {s \in Slot : left[s] > 0}

BestHead(from, left) ==
  CHOOSE p \in {from[s][left[s]].price : s \in Active(left)} :
    \A s \in Active(left) : ~Better(from[s][left[s]].price, p)
HasPrice(from, left, s, best) == s \in Active(left) /\ from[s][left[s]].price = best
BestVenues(from, left, best) ==
  LET venues[n \in 0 .. MaxVenues] ==
        IF n = 0 THEN <<>>
        ELSE IF HasPrice(from, left, n - 1, best)
        THEN Append(venues[n - 1], Contribution(n - 1, from[n - 1][left[n - 1]].qty))
        ELSE venues[n - 1]
  IN  venues[MaxVenues]

\* A level of MergeBooks: the best price of the heads, and all venues that have it, by
\* slot.
MergeBooksRound(m, from) ==
  LET best == BestHead(from, m.left)
  IN  IF Active(m.left) = {} THEN m
      ELSE [left |-> [s \in Slot |-> IF HasPrice(from, m.left, s, best) THEN m.left[s] - 1
                                      ELSE m.left[s]],
            out |-> Append(m.out, MergedLevel(best, BestVenues(from, m.left, best)))]

MergeBooks(from) ==
  LET rounds == Sum([n \in 1 .. MaxVenues |-> Len(from[n - 1])])
      m[n \in 0 .. rounds] ==
        IF n = 0 THEN [left |-> [s \in Slot |-> Len(from[s])], out |-> <<>>]
        ELSE MergeBooksRound(m[n - 1], from)
  IN  m[rounds].out

---------------------------------------------------------------------------
(* md_core: HandlePayload, and ProcessUpdate for an update.                 *)

\* FlatOrderBook::ApplyUpdate: a snapshot clears the side first.
ApplyUpdate(s, update) ==
  ApplySide(IF update.isSnapshot THEN <<>> ELSE books[s],
            IF side = "bids" THEN update.bids ELSE update.asks)

\* The changes of a snapshot are not complete (last_changes_complete).
ProcessUpdate(s, update) ==
  LET applied == ApplyUpdate(s, update)
  IN  /\ books' = [books EXCEPT ![s] = applied.levels]
      /\ state' = IF update.isSnapshot \/ needsRebuild THEN MergeBooks(books')
                  ELSE ApplyDepthDelta(state, s, applied.changes)
      /\ needsRebuild' = FALSE

Received ==
  /\ DecodeHeader(frame)
  /\ message' = Nothing
  /\ frame' = <<>>
  /\ UNCHANGED <<side, market, slot>>

ReceiveUpdate ==
  /\ Received
  /\ frame[1].msgType = "kBookUpdate"
  /\ \E out \in Leftover :
       /\ DecodeBookUpdate(frame, out).ok
       /\ ProcessUpdate(slot, DecodeBookUpdate(frame, out).out)

\* The other messages concern no depth book.
ReceiveOther ==
  /\ Received
  /\ frame[1].msgType # "kBookUpdate"
  /\ UNCHANGED bookVars

Next ==
  \/ \E s \in Slot, isSnapshot \in BOOLEAN : SendUpdate(s, isSnapshot)
  \/ \E s \in Slot : SendOther(s)
  \/ ReceiveUpdate
  \/ ReceiveOther

Spec == Init /\ [][Next]_vars

---------------------------------------------------------------------------
(* Properties.                                                              *)

\* The decoders, by message type.
Decode(type, buf) ==
  CASE type = "kHello" -> DecodeHello(buf, Nothing)
    [] type = "kGoodbye" -> DecodeGoodbye(buf, Nothing)
    [] type = "kBboQuote" -> DecodeBboQuote(buf, Nothing)
    [] type = "kHealth" -> DecodeHealth(buf, Nothing)

\* Every field of every message arrives as it was sent, in a frame that names its
\* type; an update does whatever the reused BookUpdate held before (wire_codec).
MessagesRoundTrip ==
  message # Nothing =>
    /\ frame[1].msgType = message.type
    /\ IF message.type = "kBookUpdate"
       THEN \A out \in Leftover : DecodeBookUpdate(frame, out) = Decoded(message.body)
       ELSE Decode(message.type, frame) = Decoded(message.body)

\* A frame that ends early is refused and never read as a smaller message, and no
\* frame is read as one of another type (ReadPod, ReadBytes, msg_type).
NothingIsMisread ==
  message # Nothing => \A buf \in Prefixes(frame) : \A type \in WireMsgType :
    (buf # frame \/ type # message.type) =>
      IF type = "kBookUpdate" THEN \A out \in Leftover : ~DecodeBookUpdate(buf, out).ok
      ELSE ~Decode(type, buf).ok

\* The prices of a vector are in strict order.
Ordered(levels, Ahead(_, _)) ==
  \A m, n \in DOMAIN levels : m < n => Ahead(levels[m].price, levels[n].price)

\* The vector of a venue is its book: in storage order, each price once, nothing
\* lost or left over, however a delta inserts, replaces and removes (ApplySide,
\* Relocate).
BookIsExact ==
  message = Nothing =>
    \A s \in Slot :
      /\ Ordered(books[s], StorageLess)
      /\ Range(books[s]) = {Level(p, market[s][p]) : p \in {p \in PricesOf[s] : market[s][p] # 0}}

\* Who quotes a price.
Quoting(p) == {s \in Slot : p \in PricesOf[s] /\ market[s][p] # 0}

\* The consolidated vector that is repaired change by change is what a merge of
\* the venues' own books gives: best price first, no price missing, with every
\* total and every attribution in the order of the slots (ApplyOneChange against
\* MergeBooks).
StateIsExact ==
  message = Nothing /\ ~needsRebuild =>
    /\ Ordered(state, Better)
    /\ {state[n].price : n \in DOMAIN state} = {p \in Price : Quoting(p) # {}}
    /\ \A n \in DOMAIN state :
         LET level == state[n]
         IN  /\ Range(level.venues) = {Contribution(s, market[s][level.price]) : s \in Quoting(level.price)}
             /\ \A k, l \in DOMAIN level.venues : k < l => level.venues[k].slot < level.venues[l].slot
             /\ level.qty = Total(level.venues)

\* The quantity at a price, 0 if there is no level.
QtyAt(levels, p) ==
  LET n == SelectInSeq(levels, LAMBDA l : l.price = p)
  IN  IF n = 0 THEN 0 ELSE levels[n].qty

\* The changes a delta reports are the transition of the venue's book, the whole
\* of it and nothing else, best price first (last_bid_changes).
ChangesAreTheTransition ==
  message # Nothing /\ message.type = "kBookUpdate" /\ ~message.body.isSnapshot =>
    LET changes == ApplyUpdate(slot, message.body).changes
    IN  /\ Ordered(changes, Better)
        /\ Range(changes) = {Change(p, QtyAt(books[slot], p), market[slot][p]) :
                               p \in {p \in PricesOf[slot] : QtyAt(books[slot], p) # market[slot][p]}}
============================================================================
