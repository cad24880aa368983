------------------------------- MODULE Bands -------------------------------
(***************************************************************************)
(* The bands that PublishBook derives from the consolidated book: how far a *)
(* client has to sweep a side to fill a notional (volume bands), and how    *)
(* much lies within some basis points of the best price (price bands).      *)
(*                                                                         *)
(* All thresholds of a session are answered in one walk down a side that    *)
(* never rewinds, and sessions that asked for the same thresholds share one *)
(* answer.  The reference definitions at the end answer each threshold by   *)
(* itself, from sums over the levels.                                       *)
(*                                                                         *)
(* Prices and quantities are scaled integers; a product of the two is exact *)
(* (128 bits).  The factor of a price band is computed in 32 bits.          *)
(***************************************************************************)
EXTENDS Naturals, Sequences, SequencesExt, FiniteSets, FiniteSetsExt, TLC

CONSTANTS
  Session,        \* the sessions of the instrument
  BookInput,      \* the consolidated books Core may publish
  RequestInput,   \* the thresholds clients may ask for (at least one band feed)
  Scale,          \* kScaleFactor
  Base,           \* 10000: the basis points of the whole
  Word,           \* the number of values of uint32_t
  MaxDepth,       \* kDefaultMaxDepth
  DefaultNotionalBands, DefaultBpsBands,   \* kDefault*Bands
  None            \* no subscription, no such feed, no message

ASSUME BandsAssumption ==
  /\ {Scale, Base, Word, MaxDepth} \subseteq Nat \ {0}
  /\ Base < Word
  /\ DefaultNotionalBands # <<>> /\ DefaultBpsBands # <<>>

VARIABLES
  request,        \* what the client of a session asked for
  subscription,   \* Subscription::notional_bands and bps_bands
  book,           \* the book that is being published
  memo,           \* volume_memo and price_memo of this PublishBook
  todo,           \* the sessions it has not come to yet
  sent            \* the bands it has pushed to a session

vars == <<request, subscription, book, memo, todo, sent>>

Feed == {"volume", "price"}

Init ==
  /\ request = [s \in Session |-> None]
  /\ subscription = [s \in Session |-> None]
  /\ book = None
  /\ memo = [f \in Feed |-> {}]
  /\ todo = {}
  /\ sent = [s \in Session |-> None]

---------------------------------------------------------------------------
(* Walking a side.                                                          *)

Value(level) == level.price * level.qty
Vwap(notional, qty) == IF qty = 0 THEN 0 ELSE notional \div qty

\* i levels are behind the walk, and their totals.
Start == [i |-> 0, qty |-> 0, notional |-> 0]
Here(side, walk) == side[walk.i + 1]
Consume(side, walk) ==
  [i |-> walk.i + 1,
   qty |-> walk.qty + Here(side, walk).qty,
   notional |-> walk.notional + Value(Here(side, walk))]

NotionalFill ==
  [vwap |-> 0, worst_price |-> 0, filled_qty |-> 0, filled_notional |-> 0,
   level_count |-> 0, insufficient_depth |-> FALSE]

\* The level that straddles the target is consumed in part.
FillAtCrossing(side, walk, raw) ==
  LET level == Here(side, walk)
      needed == (raw - walk.notional) \div level.price
      partial == Min({needed, level.qty})
      filled == walk.notional + level.price * partial
  IN  [vwap |-> Vwap(filled, walk.qty + partial),
       worst_price |-> level.price,
       filled_qty |-> walk.qty + partial,
       filled_notional |-> filled \div Scale,
       level_count |-> walk.i + 1,
       insufficient_depth |-> FALSE]

\* The side ran out before the target.
FillExhausted(side, walk) ==
  [vwap |-> Vwap(walk.notional, walk.qty),
   worst_price |-> Last(side).price,
   filled_qty |-> walk.qty,
   filled_notional |-> walk.notional \div Scale,
   level_count |-> Len(side),
   insufficient_depth |-> TRUE]

Crosses(side, walk, raw) ==
  walk.i < Len(side) /\ walk.notional + Value(Here(side, walk)) >= raw

RECURSIVE Sweep(_, _, _)
Sweep(side, walk, raw) ==
  IF walk.i = Len(side) \/ Crosses(side, walk, raw)
  THEN walk
  ELSE Sweep(side, Consume(side, walk), raw)

\* Mutant: the level that the target before this one crossed is consumed.
MutantNotionalBand(side, walk, target) ==
  LET raw == target * Scale
      end == Sweep(side, walk, raw)
  IN  CASE side = <<>> ->
             [walk |-> walk,
              fill |-> [NotionalFill EXCEPT !.insufficient_depth = raw > 0]]
        [] side # <<>> /\ raw = 0 -> [walk |-> walk, fill |-> NotionalFill]
        [] OTHER ->
             IF Crosses(side, end, raw)
             THEN [walk |-> Consume(side, end), fill |-> FillAtCrossing(side, end, raw)]
             ELSE [walk |-> end, fill |-> FillExhausted(side, end)]

\* One target, from where the walk stands.  The crossing level is not consumed:
\* a wider target must still see it whole.
NotionalBand(side, walk, target) ==
  LET raw == target * Scale
      end == Sweep(side, walk, raw)
  IN  CASE side = <<>> ->
             [walk |-> walk,
              fill |-> [NotionalFill EXCEPT !.insufficient_depth = raw > 0]]
        [] side # <<>> /\ raw = 0 -> [walk |-> walk, fill |-> NotionalFill]
        [] OTHER ->
             [walk |-> end,
              fill |-> IF Crosses(side, end, raw) THEN FillAtCrossing(side, end, raw)
                                                  ELSE FillExhausted(side, end)]

FillToNotional(side, target) == NotionalBand(side, Start, target).fill

FillToNotionalBands(side, targets) ==
  FoldLeft(LAMBDA acc, target :
             LET band == NotionalBand(side, acc.walk, target)
             IN  [walk |-> band.walk, out |-> Append(acc.out, band.fill)],
           [walk |-> Start, out |-> <<>>], targets).out

---------------------------------------------------------------------------
(* Price bands.                                                             *)

BpsFill ==
  [vwap |-> 0, limit_price |-> 0, cum_qty |-> 0, cum_notional |-> 0,
   level_count |-> 0, insufficient_depth |-> FALSE]

\* A bid band of more than the whole is clamped; an ask band is not.
LimitPrice(side, bps, isBid) ==
  LET factor == IF isBid THEN Base - Min({bps, Base}) ELSE (Base + bps) % Word
  IN  (Head(side).price * factor) \div Base

Inside(level, limit, isBid) == IF isBid THEN level.price >= limit ELSE level.price <= limit

RECURSIVE SweepInside(_, _, _, _)
SweepInside(side, walk, limit, isBid) ==
  IF walk.i = Len(side) \/ ~Inside(Here(side, walk), limit, isBid)
  THEN walk
  ELSE SweepInside(side, Consume(side, walk), limit, isBid)

\* The totals of a walk that went nowhere are those of no fill at all.
BpsBand(side, walk, bps, isBid) ==
  LET limit == LimitPrice(side, bps, isBid)
      end == SweepInside(side, walk, limit, isBid)
  IN  [walk |-> end,
       fill |-> [vwap |-> Vwap(end.notional, end.qty),
                 limit_price |-> limit,
                 cum_qty |-> end.qty,
                 cum_notional |-> end.notional \div Scale,
                 level_count |-> end.i,
                 insufficient_depth |-> end.i = Len(side)]]

FillToBps(side, bps, isBid) ==
  IF side = <<>> THEN BpsFill ELSE BpsBand(side, Start, bps, isBid).fill

FillToBpsBands(side, bands, isBid) ==
  IF side = <<>>
  THEN [k \in DOMAIN bands |-> BpsFill]
  ELSE FoldLeft(LAMBDA acc, bps :
                  LET band == BpsBand(side, acc.walk, bps, isBid)
                  IN  [walk |-> band.walk, out |-> Append(acc.out, band.fill)],
                [walk |-> Start, out |-> <<>>], bands).out

---------------------------------------------------------------------------
(* The service.                                                             *)

Sorted(bands, default) == SortSeq(IF bands = <<>> THEN default ELSE bands, <)

\* A feed is asked for by its presence; an empty list means the defaults.
Thresholds(bands, default) == IF bands = None THEN None ELSE Sorted(bands, default)

Subscribe(s, wanted) ==
  /\ book = None
  /\ subscription[s] = None
  /\ request' = [request EXCEPT ![s] = wanted]
  /\ subscription' = [subscription EXCEPT ![s] =
       [volume |-> Thresholds(wanted.volume, DefaultNotionalBands),
        price |-> Thresholds(wanted.price, DefaultBpsBands)]]
  /\ UNCHANGED <<book, memo, todo, sent>>

Capped(side) == SubSeq(side, 1, Min({Len(side), MaxDepth}))

\* PublishBook takes sessions_mutex_ and has an empty memo.
BeginPublish(published) ==
  /\ book = None
  /\ {s \in Session : subscription[s] # None} # {}
  /\ book' = [bids |-> Capped(published.bids), asks |-> Capped(published.asks)]
  /\ todo' = {s \in Session : subscription[s] # None}
  /\ UNCHANGED <<request, subscription, memo, sent>>

Best(side) == IF side = <<>> THEN 0 ELSE Head(side).price

\* volume_message and price_message: found in the memo, or worked out.
Message(feed, thresholds) ==
  LET hits == {m \in memo[feed] : m.thresholds = thresholds}
  IN  IF hits # {} THEN (CHOOSE m \in hits : TRUE)
      ELSE IF feed = "volume"
      THEN [thresholds |-> thresholds,
            best_bid |-> Best(book.bids), best_ask |-> Best(book.asks),
            bids |-> FillToNotionalBands(book.bids, thresholds),
            asks |-> FillToNotionalBands(book.asks, thresholds)]
      ELSE [thresholds |-> thresholds,
            bids |-> FillToBpsBands(book.bids, thresholds, TRUE),
            asks |-> FillToBpsBands(book.asks, thresholds, FALSE)]

\* One session's turn, in the order of an unordered_map: the feeds it wants, each
\* from its memo.  Sequence number and channel are those of Sessions.
Serve(s) ==
  LET wanted == {f \in Feed : subscription[s][f] # None}
      message == [f \in wanted |-> Message(f, subscription[s][f])]
  IN  /\ s \in todo
      /\ todo' = todo \ {s}
      /\ memo' = [f \in Feed |-> IF f \in wanted THEN memo[f] \cup {message[f]} ELSE memo[f]]
      /\ sent' = [sent EXCEPT ![s] = message]
      /\ UNCHANGED <<request, subscription, book>>

\* Mutant: the memo outlives the publication.
MutantEndPublish ==
  /\ book # None
  /\ todo = {}
  /\ book' = None
  /\ sent' = [s \in Session |-> None]
  /\ UNCHANGED <<request, subscription, memo, todo>>

\* The memo is a local of PublishBook.  What was sent is not looked at any more.
EndPublish ==
  /\ book # None
  /\ todo = {}
  /\ book' = None
  /\ memo' = [f \in Feed |-> {}]
  /\ sent' = [s \in Session |-> None]
  /\ UNCHANGED <<request, subscription, todo>>

Next ==
  \/ \E s \in Session, wanted \in RequestInput : Subscribe(s, wanted)
  \/ \E published \in BookInput : BeginPublish(published)
  \/ \E s \in Session : Serve(s)
  \/ EndPublish

Spec == Init /\ [][Next]_vars

---------------------------------------------------------------------------
(* What a band is, threshold by threshold.                                  *)

QtyOf(side, levels) == MapThenSumSet(LAMBDA n : side[n].qty, levels)
NotionalOf(side, levels) == MapThenSumSet(LAMBDA n : Value(side[n]), levels)

\* The fewest levels that are worth the target, and of the last of them the most
\* that does not exceed it; all levels if the side is not worth that much.
NotionalReference(side, target) ==
  LET raw == target * Scale
      enough == {n \in 0 .. Len(side) : NotionalOf(side, 1 .. n) >= raw}
      count == IF enough = {} THEN Len(side) ELSE Min(enough)
      price == IF count = 0 THEN 0 ELSE side[count].price
      before == 1 .. count - 1
      last == IF count = 0 THEN 0
              ELSE Max({q \in 0 .. side[count].qty :
                          NotionalOf(side, before) + q * price <= raw})
      filled == NotionalOf(side, before) + last * price
      qty == QtyOf(side, before) + last
  IN  [vwap |-> Vwap(filled, qty),
       worst_price |-> price,
       filled_qty |-> qty,
       filled_notional |-> filled \div Scale,
       level_count |-> count,
       insufficient_depth |-> enough = {}]

\* The levels within the limit, wherever they are; the side is known to be
\* complete only if a level lies beyond the limit.
BpsReference(side, bps, isBid) ==
  LET top == Head(side).price
      limit == (top * (IF isBid THEN Max({Base - bps, 0}) ELSE Base + bps)) \div Base
      within == {n \in DOMAIN side : IF isBid THEN side[n].price >= limit
                                              ELSE side[n].price <= limit}
      qty == QtyOf(side, within)
      notional == NotionalOf(side, within)
  IN  [vwap |-> Vwap(notional, qty),
       limit_price |-> limit,
       cum_qty |-> qty,
       cum_notional |-> notional \div Scale,
       level_count |-> Cardinality(within),
       insufficient_depth |-> within = DOMAIN side]

---------------------------------------------------------------------------
(* Properties.                                                              *)

Bands == Seq(Nat) \ {<<>>}

\* Every subscription has thresholds for the feeds it wants, and a message an
\* answer per threshold and side.
TypeOK ==
  /\ \A s \in Session : subscription[s] # None =>
       /\ DOMAIN subscription[s] = Feed
       /\ \A f \in Feed : subscription[s][f] = None \/ subscription[s][f] \in Bands
  /\ todo \subseteq {s \in Session : subscription[s] # None}
  /\ \A s \in Session : sent[s] # None =>
       \A f \in DOMAIN sent[s] :
         /\ sent[s][f].thresholds = subscription[s][f]
         /\ DOMAIN sent[s][f].bids = DOMAIN subscription[s][f]
         /\ DOMAIN sent[s][f].asks = DOMAIN subscription[s][f]

\* The thresholds a client named, or the defaults.
Asked(bands, default) == ToSet(IF bands = <<>> THEN default ELSE bands)

\* Where the message of a session answers a threshold.
Places(s, feed, threshold) ==
  {k \in DOMAIN sent[s][feed].thresholds : sent[s][feed].thresholds[k] = threshold}

Wants(feed) == {s \in Session : sent[s] # None /\ feed \in DOMAIN sent[s]}

\* Whatever its client asked for, in whatever order and together with whatever
\* others, a volume band is what sweeping the book for that notional alone
\* gives: the batched walk, the sorting and the memo change no answer
\* (FillToNotionalBands, Subscribe, PublishBook).
VolumeBandsCorrect ==
  \A s \in Wants("volume") :
    \A t \in Asked(request[s].volume, DefaultNotionalBands) :
      /\ Places(s, "volume", t) # {}
      /\ \A k \in Places(s, "volume", t), side \in {"bids", "asks"} :
           /\ sent[s].volume[side][k] = NotionalReference(book[side], t)
           /\ sent[s].volume[side][k] = FillToNotional(book[side], t)

\* The same for price bands, on a side that is not empty (FillToBpsBands).
PriceBandsCorrect ==
  \A s \in Wants("price") :
    \A t \in Asked(request[s].price, DefaultBpsBands) :
      /\ Places(s, "price", t) # {}
      /\ \A k \in Places(s, "price", t), side \in {"bids", "asks"} :
           /\ book[side] # <<>> =>
                sent[s].price[side][k] = BpsReference(book[side], t, side = "bids")
           /\ sent[s].price[side][k] = FillToBps(book[side], t, side = "bids")
===========================================================================
