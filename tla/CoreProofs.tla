---------------------------- MODULE CoreProofs ----------------------------
(***************************************************************************)
(* Proofs about Core, for every set of instruments and levels, every       *)
(* number of venues, every queue capacity and every set of inputs; and     *)
(* about md_core as its providers see it (Ingress), for every set of        *)
(* connections and every number of frames: the ingress thread drives Core   *)
(* the way Core's own specification allows, venues never share a slot, and  *)
(* as long as no queue has been full and no venue has a second connection,  *)
(* a venue is active exactly while it is connected.                         *)
(***************************************************************************)
EXTENDS Ingress, TLAPS, WellFoundedInduction

---------------------------------------------------------------------------
(* Types of the operators.                                                  *)

\* Applying an update to a book of the right type makes another.
LEMMA ApplyUpdateType ==
  ASSUME NEW book \in FlatOrderBook, NEW u \in BookUpdate
  PROVE  ApplyUpdate(book, u) \in FlatOrderBook
  <1>1. u.levels \in [Level -> Quantity \cup {NotSent}] /\ u.isSnapshot \in BOOLEAN
    BY DEF BookUpdate
  <1>2. ASSUME NEW l \in Level
        PROVE  (CASE u.levels[l] # NotSent -> u.levels[l]
                  [] u.levels[l] = NotSent /\ u.isSnapshot -> 0
                  [] u.levels[l] = NotSent /\ ~u.isSnapshot -> book[l]) \in Quantity
    <2>1. 0 \in Quantity /\ book[l] \in Quantity
      BY MarketDataAssumption DEF Quantity, FlatOrderBook
    <2>2. CASE u.levels[l] # NotSent
      BY <1>1, <2>2
    <2>3. CASE u.levels[l] = NotSent /\ u.isSnapshot
      BY <2>1, <2>3
    <2>4. CASE u.levels[l] = NotSent /\ ~u.isSnapshot
      BY <2>1, <2>4
    <2> QED
      BY <1>1, <2>2, <2>3, <2>4
  <1> QED
    BY <1>2 DEF ApplyUpdate, FlatOrderBook

\* The merge of any venue books is a consolidated book.
LEMMA MergeBooksType ==
  ASSUME NEW books \in [Slot -> FlatOrderBook \cup {NoBook}], NEW health
  PROVE  MergeBooks(books, health) \in Book
  <1>1. 0 \in Quantity
    BY MarketDataAssumption DEF Quantity
  <1>2. \A s \in Slot, l \in Level : books[s] # NoBook => books[s][l] \in Quantity
    BY DEF FlatOrderBook
  <1> QED
    BY <1>1, <1>2 DEF MergeBooks, Book

\* A set of numbers up to MaxPrice has a smallest and a largest member.
LEMMA Extremes ==
  ASSUME NEW P, P \subseteq Price, P # {}
  PROVE  /\ \E p \in P : \A q \in P : p <= q
         /\ \E p \in P : \A q \in P : p >= q
  <1> DEFINE R == {ss \in Nat \X Nat : ss[1] < ss[2]}
             D == {MaxPrice - p : p \in P}
  <1>1. \A p \in P : p \in Nat /\ p <= MaxPrice /\ MaxPrice \in Nat
    BY MarketDataAssumption DEF Price
  <1>2. IsWellFoundedOn(R, Nat)
    BY NatLessThanWellFounded DEF OpToRel
  <1>3. \A q, p \in Nat : <<q, p>> \notin R => p <= q
    OBVIOUS
  <1> HIDE DEF R
  <1>4. PICK low \in P : \A q \in P : <<q, low>> \notin R
    <2>1. P \subseteq Nat
      BY <1>1
    <2> QED
      BY <2>1, <1>2, WFMin
  <1>5. \A q \in P : low <= q
    BY <1>1, <1>3, <1>4
  <1>6. PICK d \in D : \A e \in D : <<e, d>> \notin R
    <2>1. D \subseteq Nat
      BY <1>1
    <2>2. D # {}
      BY <1>1
    <2> HIDE DEF D
    <2> QED
      BY <2>1, <2>2, <1>2, WFMin
  <1>7. PICK high \in P : d = MaxPrice - high
    BY <1>6
  <1>8. ASSUME NEW q \in P
        PROVE  high >= q
    <2>1. <<MaxPrice - q, MaxPrice - high>> \notin R
      BY <1>6, <1>7
    <2>2. MaxPrice - q \in Nat /\ MaxPrice - high \in Nat
      BY <1>1
    <2>3. MaxPrice - high <= MaxPrice - q
      BY <2>1, <2>2, <1>3
    <2> QED
      BY <2>3, <1>1
  <1> QED
    BY <1>5, <1>8

---------------------------------------------------------------------------
(* The best price.                                                          *)

\* p is the price that one side's scan of the quotes finds.
IsBest(side, quotes, health, p) ==
  /\ \E s \in Candidates(side, quotes, health) : quotes[s][side].price = p
  /\ \A s \in Candidates(side, quotes, health) : ~Better(side, quotes[s][side].price, p)

\* The slots that quote price p on a side, with their quantities.
At(side, quotes, health, p) ==
  {<<s, quotes[s][side].qty>> :
     s \in {t \in Candidates(side, quotes, health) : quotes[t][side].price = p}}

\* A quote's price is a price or absent, its quantity is a quantity.
LEMMA QuoteType ==
  ASSUME NEW quotes \in [Slot -> BboQuote], NEW side \in Side, NEW s \in Slot
  PROVE  /\ quotes[s][side].price \in Price \cup {NoPrice}
         /\ quotes[s][side].qty \in Quantity
  BY DEF BboQuote

\* If anybody quotes a price, a best price exists, and it is unique.
LEMMA BestPriceIsBest ==
  ASSUME NEW side \in Side, NEW quotes \in [Slot -> BboQuote], NEW health,
         Candidates(side, quotes, health) # {}
  PROVE  /\ BestPrice(side, quotes, health) \in Price
         /\ IsBest(side, quotes, health, BestPrice(side, quotes, health))
  <1> DEFINE C == Candidates(side, quotes, health)
             P == {quotes[s][side].price : s \in C}
  <1>1. \A s \in C : s \in Slot /\ quotes[s][side].price \in Price
    BY QuoteType DEF Candidates
  <1>2. P \subseteq Price /\ P # {}
    BY <1>1
  <1>3. PICK p \in P : \A q \in P : ~Better(side, q, p)
    <2> HIDE DEF P
    <2>0. \A q \in P : q \in Nat
      BY <1>2, MarketDataAssumption DEF Price
    <2>1. CASE side = "bid"
      <3>1. PICK p \in P : \A q \in P : p >= q
        BY <1>2, Extremes
      <3> QED
        BY <2>0, <2>1, <3>1 DEF Better
    <2>2. CASE side = "ask"
      <3>1. PICK p \in P : \A q \in P : p <= q
        BY <1>2, Extremes
      <3> QED
        BY <2>0, <2>2, <3>1 DEF Better
    <2> QED
      BY <2>1, <2>2 DEF Side
  <1>4. \A s \in C : ~Better(side, quotes[s][side].price, p)
    BY <1>3
  <1> DEFINE best == CHOOSE b \in P : \A s \in C : ~Better(side, quotes[s][side].price, b)
  <1>5. best \in P /\ \A s \in C : ~Better(side, quotes[s][side].price, best)
    <2> HIDE DEF P, C
    <2> QED
      BY <1>3, <1>4
  <1>6. best = BestPrice(side, quotes, health)
    BY DEF BestPrice
  <1> QED
    BY <1>2, <1>5, <1>6 DEF IsBest

\* There is only one best price, so a scan returns the level at it.
LEMMA BestPriceUnique ==
  ASSUME NEW side \in Side, NEW quotes \in [Slot -> BboQuote], NEW health,
         NEW p, IsBest(side, quotes, health, p)
  PROVE  ScanBest(side, quotes, health) =
           [price |-> p, venues |-> At(side, quotes, health, p)]
  <1> DEFINE C == Candidates(side, quotes, health)
             best == BestPrice(side, quotes, health)
  <1>1. C # {}
    BY DEF IsBest
  <1>2. IsBest(side, quotes, health, best)
    BY <1>1, BestPriceIsBest
  <1>3. PICK s \in C : quotes[s][side].price = p
    BY DEF IsBest
  <1>4. PICK t \in C : quotes[t][side].price = best
    BY <1>2 DEF IsBest
  <1>5. p \in Int /\ best \in Int
    BY <1>3, <1>4, QuoteType, MarketDataAssumption DEF Candidates, Price, NoPrice
  <1>6. ~Better(side, best, p) /\ ~Better(side, p, best)
    BY <1>2, <1>3, <1>4 DEF IsBest
  <1>7. p = best
    BY <1>5, <1>6 DEF Better
  <1> QED
    BY <1>1, <1>7 DEF ScanBest, At

\* What one side's scan returns has the type of a consolidated level.
LEMMA ScanBestType ==
  ASSUME NEW side \in Side, NEW quotes \in [Slot -> BboQuote], NEW health
  PROVE  ScanBest(side, quotes, health) \in PriceAndVenues
  <1> DEFINE C == Candidates(side, quotes, health)
  <1>1. CASE C = {}
    BY <1>1 DEF ScanBest, EmptyLevel, PriceAndVenues
  <1>2. CASE C # {}
    <2>1. BestPrice(side, quotes, health) \in Price
      BY <1>2, BestPriceIsBest
    <2>2. \A s \in C : s \in Slot /\ quotes[s][side].qty \in Quantity
      BY QuoteType DEF Candidates
    <2> QED
      BY <1>2, <2>1, <2>2 DEF ScanBest, PriceAndVenues
  <1> QED
    BY <1>1, <1>2

\* One side of UpdateBBOWithQuote does what a full scan does: if the running
\* level was what a scan of the old quotes finds, then folding the new quote
\* of slot s in gives what a scan of the new quotes finds.
LEMMA UpdateSideIsRescan ==
  ASSUME NEW side \in Side, NEW old \in [Slot -> BboQuote], NEW health,
         NEW s \in Slot, NEW quote \in BboQuote, NEW new,
         new = [old EXCEPT ![s] = quote]
  PROVE  UpdateBBOSide(side, ScanBest(side, old, health), s, new, health)
           = ScanBest(side, new, health)
  <1> DEFINE C == Candidates(side, old, health)
             D == Candidates(side, new, health)
             level == ScanBest(side, old, health)
             price == IF IsAdmissible(health[s]) THEN new[s][side].price ELSE NoPrice
             own == <<s, new[s][side].qty>>
             others == {v \in level.venues : v[1] # s}
             result == UpdateBBOSide(side, level, s, new, health)
  <1>1. new \in [Slot -> BboQuote] /\ \A t \in Slot : t # s => new[t] = old[t]
    OBVIOUS
  <1>2. \A t : t # s => (t \in C <=> t \in D)
    BY <1>1 DEF Candidates
  <1>3. s \in D <=> price # NoPrice
    BY DEF Candidates
  <1>4. price # NoPrice => price = new[s][side].price
    OBVIOUS
  <1>5. \A t \in C \cup D : t \in Slot
    BY DEF Candidates
  <1>6. \A t \in Slot : new[t][side].price \in Int /\ old[t][side].price \in Int
    <2>1. \A t \in Slot : /\ new[t][side].price \in Price \cup {NoPrice}
                          /\ old[t][side].price \in Price \cup {NoPrice}
      BY <1>1, QuoteType
    <2>2. Price \cup {NoPrice} \subseteq Int
      BY MarketDataAssumption DEF Price, NoPrice
    <2> QED
      BY <2>1, <2>2
  <1>7. C = {} => level = EmptyLevel
    BY DEF ScanBest
  <1>8. C # {} => /\ level.price \in Price
                  /\ IsBest(side, old, health, level.price)
                  /\ level.venues = At(side, old, health, level.price)
    <2> SUFFICES ASSUME C # {}
                 PROVE  /\ level.price \in Price
                        /\ IsBest(side, old, health, level.price)
                        /\ level.venues = At(side, old, health, level.price)
      OBVIOUS
    <2>1. level.price = BestPrice(side, old, health)
      BY DEF ScanBest
    <2>2. level.price \in Price /\ IsBest(side, old, health, level.price)
      BY <2>1, BestPriceIsBest
    <2> QED
      BY <2>2, BestPriceUnique
  <1>9. price \in Int /\ level.price \in Int
    BY <1>6, <1>7, <1>8, MarketDataAssumption DEF Price, NoPrice, EmptyLevel
  <1>10. result =
           CASE price # NoPrice /\ (level.price = NoPrice \/ Better(side, price, level.price))
                  -> [price |-> price, venues |-> {own}]
             [] price # NoPrice /\ price = level.price
                  -> [price |-> price, venues |-> others \cup {own}]
             [] OTHER
                  -> IF others = {} /\ level.venues # {}
                     THEN ScanBest(side, new, health)
                     ELSE [level EXCEPT !.venues = others]
    BY DEF UpdateBBOSide
  <1>11. /\ C # {} => /\ level.price # NoPrice
                      /\ \E t \in C : old[t][side].price = level.price
                      /\ \A t \in C : ~Better(side, old[t][side].price, level.price)
                      /\ level.venues = {<<t, old[t][side].qty>> :
                           t \in {u \in C : old[u][side].price = level.price}}
         /\ \A p : IsBest(side, new, health, p) <=>
                     /\ \E t \in D : new[t][side].price = p
                     /\ \A t \in D : ~Better(side, new[t][side].price, p)
    BY <1>8, MarketDataAssumption DEF IsBest, At, Price, NoPrice
  <1>12. [level EXCEPT !.venues = others] = [price |-> level.price, venues |-> others]
    <2>1. level \in PriceAndVenues
      BY ScanBestType
    <2> HIDE DEF level, others
    <2> QED
      BY <2>1 DEF PriceAndVenues
  <1>13. D = {} => ScanBest(side, new, health) = EmptyLevel
    BY DEF ScanBest
  <1>14. \A p : IsBest(side, new, health, p) =>
                  ScanBest(side, new, health) = [price |-> p, venues |-> At(side, new, health, p)]
    BY <1>1, BestPriceUnique
  <1> HIDE DEF C, D, level, price, result
  <1>15. \A t \in D : t # s => t \in C /\ t \in Slot /\ new[t] = old[t]
    BY <1>1, <1>2, <1>5
  <1>16. CASE price # NoPrice /\ (level.price = NoPrice \/ Better(side, price, level.price))
    <2>0. ~(price # NoPrice /\ price = level.price)
      BY <1>9, <1>16 DEF Better
    <2>1. result = [price |-> price, venues |-> {own}]
      BY <1>10, <1>16, <2>0
    <2>2. ASSUME NEW t \in D, t # s
          PROVE  Better(side, price, new[t][side].price)
      <3>1. t \in C /\ t \in Slot /\ new[t] = old[t]
        BY <1>15, <2>2
      <3>2. level.price # NoPrice /\ ~Better(side, old[t][side].price, level.price)
        BY <1>11, <3>1
      <3> QED
        BY <1>6, <1>9, <1>16, <3>1, <3>2 DEF Better
    <2>3. ASSUME NEW t \in D
          PROVE  ~Better(side, new[t][side].price, price)
      <3>1. t \in Slot
        BY <1>5
      <3>2. CASE t = s
        BY <1>4, <1>9, <1>16, <3>2 DEF Better
      <3>3. CASE t # s
        BY <2>2, <1>6, <1>9, <3>1, <3>3 DEF Better
      <3> QED
        BY <3>2, <3>3
    <2>4. IsBest(side, new, health, price)
      BY <2>3, <1>3, <1>4, <1>11, <1>16
    <2>5. ASSUME NEW t \in D
          PROVE  new[t][side].price = price <=> t = s
      <3>1. ~Better(side, price, price)
        BY <1>9 DEF Better
      <3> QED
        BY <2>2, <3>1, <1>4, <1>16
    <2>6. At(side, new, health, price) = {own}
      <3>1. {u \in D : new[u][side].price = price} = {s}
        BY <2>5, <1>3, <1>16
      <3>2. At(side, new, health, price) =
              {<<t, new[t][side].qty>> : t \in {u \in D : new[u][side].price = price}}
        BY DEF At, D
      <3> QED
        BY <3>1, <3>2
    <2> QED
      BY <2>1, <2>4, <2>6, <1>14 DEF result, level
  <1>17. CASE price # NoPrice /\ price = level.price
    <2>1. C # {}
      BY <1>7, <1>17 DEF EmptyLevel
    <2>2. ~Better(side, price, level.price)
      BY <1>9, <1>17 DEF Better
    <2>3. result = [price |-> price, venues |-> others \cup {own}]
      BY <1>10, <1>17, <2>2
    <2>4. IsBest(side, new, health, price)
      <3>1. \A t \in D : ~Better(side, new[t][side].price, price)
        BY <2>1, <2>2, <1>4, <1>11, <1>15, <1>17
      <3>2. s \in D /\ new[s][side].price = price
        BY <1>3, <1>4, <1>17
      <3> QED
        BY <3>1, <3>2 DEF IsBest, D
    <2>5. ASSUME NEW v
          PROVE  v \in At(side, new, health, price) <=> v \in others \cup {own}
      <3>1. v \in At(side, new, health, price) <=>
              \E t \in D : new[t][side].price = price /\ v = <<t, new[t][side].qty>>
        BY DEF At, D
      <3>2. v \in others <=>
              \E t \in C : t # s /\ old[t][side].price = price /\ v = <<t, old[t][side].qty>>
        BY <2>1, <1>11, <1>17
      <3>3. s \in D /\ new[s][side].price = price
        BY <1>3, <1>4, <1>17
      <3> QED
        <4>1. ASSUME NEW t \in D, new[t][side].price = price, v = <<t, new[t][side].qty>>
              PROVE  v \in others \cup {own}
          BY <4>1, <3>2, <1>15
        <4>2. ASSUME NEW t \in C, t # s, old[t][side].price = price, v = <<t, old[t][side].qty>>
              PROVE  v \in At(side, new, health, price)
          <5>1. t \in D /\ new[t] = old[t]
            BY <4>2, <1>2, <1>15
          <5> QED
            BY <4>2, <5>1, <3>1
        <4> QED
          BY <4>1, <4>2, <3>1, <3>2, <3>3
    <2>6. At(side, new, health, price) = others \cup {own}
      BY <2>5
    <2> QED
      BY <2>3, <2>4, <2>6, <1>14 DEF result, level
  <1>18. CASE /\ ~(price # NoPrice /\ (level.price = NoPrice \/ Better(side, price, level.price)))
              /\ ~(price # NoPrice /\ price = level.price)
    <2>1. result = IF others = {} /\ level.venues # {}
                   THEN ScanBest(side, new, health)
                   ELSE [level EXCEPT !.venues = others]
      BY <1>10, <1>18
    <2>2. CASE others = {} /\ level.venues # {}
      BY <2>1, <2>2 DEF result, level
    <2>3. CASE level.venues = {}
      <3>1. C = {}
        <4>1. SUFFICES ASSUME C # {} PROVE FALSE
          OBVIOUS
        <4>2. PICK t \in C : old[t][side].price = level.price
          BY <4>1, <1>11
        <4>3. <<t, old[t][side].qty>> \in level.venues
          BY <4>1, <4>2, <1>11
        <4> QED
          BY <4>3, <2>3
      <3>2. level = EmptyLevel /\ others = {}
        BY <3>1, <1>7, <2>3
      <3>3. price = NoPrice
        BY <3>2, <1>18 DEF EmptyLevel
      <3>4. D = {}
        BY <3>1, <3>3, <1>3, <1>15
      <3>5. result = EmptyLevel
        BY <2>1, <2>3, <3>2, <1>12 DEF EmptyLevel
      <3> QED
        BY <3>4, <3>5, <1>13 DEF result, level
    <2>4. CASE others # {}
      <3>1. C # {}
        BY <2>4, <1>7 DEF EmptyLevel
      <3>2. PICK t \in C : t # s /\ old[t][side].price = level.price
        BY <3>1, <2>4, <1>11
      <3>3. t \in D /\ new[t][side].price = level.price
        BY <3>2, <1>2, <1>15
      <3>4. \A u \in D : ~Better(side, new[u][side].price, level.price)
        BY <3>1, <1>3, <1>4, <1>11, <1>15, <1>18
      <3>5. IsBest(side, new, health, level.price)
        BY <3>3, <3>4, <1>11
      <3>6. ASSUME NEW v
            PROVE  v \in At(side, new, health, level.price) <=> v \in others
        <4>1. v \in At(side, new, health, level.price) <=>
                \E u \in D : new[u][side].price = level.price /\ v = <<u, new[u][side].qty>>
          BY DEF At, D
        <4>2. v \in others <=>
                \E u \in C : /\ u # s /\ old[u][side].price = level.price
                             /\ v = <<u, old[u][side].qty>>
          BY <3>1, <1>11
        <4>3. s \notin D \/ new[s][side].price # level.price
          BY <1>3, <1>4, <1>18
        <4> QED
          <5>1. ASSUME NEW u \in D, new[u][side].price = level.price, v = <<u, new[u][side].qty>>
                PROVE  v \in others
            <6>1. u # s
              BY <5>1, <4>3
            <6> QED
              BY <5>1, <6>1, <4>2, <1>15
          <5>2. ASSUME NEW u \in C, u # s, old[u][side].price = level.price,
                       v = <<u, old[u][side].qty>>
                PROVE  v \in At(side, new, health, level.price)
            <6>1. u \in D /\ new[u] = old[u]
              BY <5>2, <1>2, <1>15
            <6> QED
              BY <5>2, <6>1, <4>1
          <5> QED
            BY <5>1, <5>2, <4>1, <4>2
      <3>7. At(side, new, health, level.price) = others
        BY <3>6
      <3> QED
        BY <2>1, <2>4, <3>5, <3>7, <1>12, <1>14 DEF result, level
    <2> QED
      BY <2>2, <2>3, <2>4
  <1> QED
    BY <1>16, <1>17, <1>18

\* And so the whole BBO.
LEMMA UpdateIsRescan ==
  ASSUME NEW old \in [Slot -> BboQuote], NEW health, NEW s \in Slot,
         NEW quote \in BboQuote
  PROVE  UpdateBBOWithQuote(ComputeBBOFromQuotes(old, health), s,
                            [old EXCEPT ![s] = quote], health)
           = ComputeBBOFromQuotes([old EXCEPT ![s] = quote], health)
  <1> DEFINE new == [old EXCEPT ![s] = quote]
  <1>0. new = [old EXCEPT ![s] = quote]
    OBVIOUS
  <1> HIDE DEF new
  <1>1. \A side \in Side :
          UpdateBBOSide(side, ScanBest(side, old, health), s, new, health)
            = ScanBest(side, new, health)
    BY <1>0, UpdateSideIsRescan
  <1> QED
    BY <1>0, <1>1 DEF UpdateBBOWithQuote, ComputeBBOFromQuotes

\* Folding a quote in keeps the type of a consolidated level.
LEMMA UpdateBBOSideType ==
  ASSUME NEW side \in Side, NEW level \in PriceAndVenues, NEW s \in Slot,
         NEW quotes \in [Slot -> BboQuote], NEW health
  PROVE  UpdateBBOSide(side, level, s, quotes, health) \in PriceAndVenues
  <1> DEFINE price == IF IsAdmissible(health[s]) THEN quotes[s][side].price ELSE NoPrice
             own == <<s, quotes[s][side].qty>>
             others == {v \in level.venues : v[1] # s}
             First == price # NoPrice /\ (level.price = NoPrice \/ Better(side, price, level.price))
             Second == price # NoPrice /\ price = level.price
  <1>1. price \in Price \cup {NoPrice} /\ own \in Slot \X Quantity
    BY QuoteType
  <1>2. level.price \in Price \cup {NoPrice} /\ others \in SUBSET (Slot \X Quantity)
    BY DEF PriceAndVenues
  <1>3. ScanBest(side, quotes, health) \in PriceAndVenues
    BY ScanBestType
  <1>4. [price |-> price, venues |-> {own}] \in PriceAndVenues
    BY <1>1 DEF PriceAndVenues
  <1>5. [price |-> price, venues |-> others \cup {own}] \in PriceAndVenues
    BY <1>1, <1>2 DEF PriceAndVenues
  <1>6. [level EXCEPT !.venues = others] \in PriceAndVenues
    BY <1>2 DEF PriceAndVenues
  <1>7. UpdateBBOSide(side, level, s, quotes, health) =
          CASE First -> [price |-> price, venues |-> {own}]
            [] Second -> [price |-> price, venues |-> others \cup {own}]
            [] OTHER -> IF others = {} /\ level.venues # {}
                        THEN ScanBest(side, quotes, health)
                        ELSE [level EXCEPT !.venues = others]
    BY DEF UpdateBBOSide
  <1> HIDE DEF price, own, others, First, Second
  <1>8. CASE First
    BY <1>3, <1>4, <1>5, <1>6, <1>7, <1>8
  <1>9. CASE ~First /\ Second
    BY <1>3, <1>4, <1>5, <1>6, <1>7, <1>9
  <1>10. CASE ~First /\ ~Second
    BY <1>3, <1>4, <1>5, <1>6, <1>7, <1>10
  <1> QED
    BY <1>8, <1>9, <1>10

---------------------------------------------------------------------------
(* The queues.                                                              *)

\* A pop takes a message of its kind from the slot at hand.
LEMMA PopType ==
  ASSUME TypeOK, NEW kind, Pop(kind)
  PROVE  /\ index \in Slot
         /\ Front \in ProviderMessage /\ Front.kind = kind
         /\ queues' \in [Slot -> Seq(ProviderMessage)]
  <1>1. index \in Slot
    BY MarketDataAssumption DEF TypeOK, Pop, Slot
  <1>2. queues[index] \in Seq(ProviderMessage) /\ queues[index] # <<>>
    BY <1>1 DEF TypeOK, Pop
  <1>3. Head(queues[index]) \in ProviderMessage /\ Tail(queues[index]) \in Seq(ProviderMessage)
    BY <1>2
  <1> QED
    BY <1>1, <1>3 DEF TypeOK, Pop, Front

\* The kind of a message tells which message it is.
LEMMA MessageKind ==
  ASSUME NEW m \in ProviderMessage
  PROVE  /\ m.kind = "update" => m \in BookUpdate
         /\ m.kind = "quote" => m \in QuoteMessage
         /\ m.kind = "health" => m \in VenueHealthEvent
  BY DEF ProviderMessage, BookUpdate, QuoteMessage, VenueHealthEvent,
         VenueRegistration, VenueDisconnect

\* Whatever the ingress does, the queues keep their type.
LEMMA EnqueueType ==
  ASSUME TypeOK, NEW s \in Slot, Enqueue(s)
  PROVE  queues' \in [Slot -> Seq(ProviderMessage)] /\ venueCount' = venueCount
  <1>1. ASSUME NEW m \in ProviderMessage, TryEnqueueBounded(s, m)
        PROVE  queues' \in [Slot -> Seq(ProviderMessage)] /\ venueCount' = venueCount
    <2>1. Append(queues[s], m) \in Seq(ProviderMessage)
      BY <1>1 DEF TypeOK
    <2> QED
      BY <1>1, <2>1 DEF TypeOK, TryEnqueueBounded
  <1>2. ASSUME NoteOverflow(s)
        PROVE  queues' \in [Slot -> Seq(ProviderMessage)] /\ venueCount' = venueCount
    BY <1>2 DEF TypeOK, NoteOverflow, queueVars
  <1>3. /\ UpdateInput \subseteq ProviderMessage
        /\ QuoteInput \subseteq ProviderMessage
        /\ HealthInput \subseteq ProviderMessage
        /\ VenueRegistration \in ProviderMessage
        /\ VenueDisconnect \in ProviderMessage
    BY CoreAssumption DEF ProviderMessage
  <1> QED
    BY <1>1, <1>2, <1>3 DEF Enqueue, EnqueueUpdate, EnqueueQuote, EnqueueHealth,
       EnqueueRegistration, EnqueueDisconnect

---------------------------------------------------------------------------
(* Type correctness.                                                        *)

\* What an accepted update does to the venue's book, and what its front
\* message is.
LEMMA AcceptUpdateType ==
  ASSUME TypeOK, NEW i \in Instrument, AcceptUpdate(i)
  PROVE  /\ index \in Slot
         /\ Front \in BookUpdate
         /\ venueBooks[i][index] \in FlatOrderBook
         /\ ApplyUpdate(venueBooks[i][index], Front) \in FlatOrderBook
         /\ venueBooks' \in [Instrument -> [Slot -> FlatOrderBook \cup {NoBook}]]
         /\ queues' \in [Slot -> Seq(ProviderMessage)]
  <1>1. index \in Slot /\ Front \in BookUpdate /\ queues' \in [Slot -> Seq(ProviderMessage)]
    BY PopType, MessageKind DEF AcceptUpdate
  <1>2. venueBooks[i][index] \in FlatOrderBook
    BY <1>1 DEF TypeOK, AcceptUpdate
  <1>3. ApplyUpdate(venueBooks[i][index], Front) \in FlatOrderBook
    BY <1>1, <1>2, ApplyUpdateType
  <1>4. venueBooks' = [venueBooks EXCEPT ![i][index] = ApplyUpdate(venueBooks[i][index], Front)]
    BY <1>1 DEF TypeOK, AcceptUpdate
  <1>5. venueBooks' \in [Instrument -> [Slot -> FlatOrderBook \cup {NoBook}]]
    BY <1>1, <1>3, <1>4 DEF TypeOK
  <1> QED
    BY <1>1, <1>2, <1>3, <1>5

\* The same for an accepted quote.
LEMMA AcceptQuoteType ==
  ASSUME TypeOK, NEW i \in Instrument, AcceptQuote(i)
  PROVE  /\ index \in Slot
         /\ Front.quote \in BboQuote
         /\ venueQuotes' \in [Instrument -> [Slot -> BboQuote]]
         /\ venueQuotes'[i] = [venueQuotes[i] EXCEPT ![index] = Front.quote]
         /\ queues' \in [Slot -> Seq(ProviderMessage)]
  <1>1. index \in Slot /\ Front \in QuoteMessage /\ queues' \in [Slot -> Seq(ProviderMessage)]
    BY PopType, MessageKind DEF AcceptQuote
  <1>2. Front.quote \in BboQuote
    BY <1>1 DEF QuoteMessage
  <1> QED
    BY <1>1, <1>2 DEF TypeOK, AcceptQuote

\* The initial state has the right type.
LEMMA InitType == Init => TypeOK
  <1> SUFFICES ASSUME Init PROVE TypeOK
    OBVIOUS
  <1>1. 0 \in Quantity /\ EmptyQuote \in BboQuote /\ EmptyLevel \in PriceAndVenues
    BY MarketDataAssumption DEF Quantity, EmptyQuote, BboQuote, EmptyLevel, PriceAndVenues
  <1>2. [l \in Level |-> [s \in Slot |-> 0]] \in Book
    BY <1>1 DEF Book
  <1>3. queues \in [Slot -> Seq(ProviderMessage)]
    BY DEF Init
  <1>4. /\ venueCount \in 0 .. MaxVenues
        /\ index \in 0 .. MaxVenues
        /\ count \in 0 .. MaxVenues
    BY MarketDataAssumption DEF Init
  <1>5. /\ depthHealth \in [Slot -> VenueHealth]
        /\ bboHealth \in [Slot -> VenueHealth]
    BY DEF Init, VenueHealth
  <1> QED
    BY <1>1, <1>2, <1>3, <1>4, <1>5 DEF Init, TypeOK

\* Every step of the ingress and of the consolidator keeps the types.
LEMMA NextType == TypeOK /\ [Next]_vars => TypeOK'
  <1> SUFFICES ASSUME TypeOK, [Next]_vars PROVE TypeOK'
    OBVIOUS
  <1>1. CASE UNCHANGED vars
    BY <1>1 DEF TypeOK, vars, queueVars, drainVars, depthVars, bboVars
  <1>2. CASE RegisterVenueName
    <2>1. venueCount' \in 0 .. MaxVenues
      BY <1>2, MarketDataAssumption DEF RegisterVenueName, TypeOK
    <2> QED
      BY <1>2, <2>1 DEF RegisterVenueName, TypeOK, drainVars, depthVars, bboVars
  <1>3. ASSUME NEW s \in Slot, Enqueue(s)
        PROVE  TypeOK'
    <2>1. queues' \in [Slot -> Seq(ProviderMessage)] /\ venueCount' = venueCount
      BY <1>3, EnqueueType
    <2> QED
      BY <1>3, <2>1 DEF Enqueue, TypeOK, drainVars, depthVars, bboVars
  <1>4. CASE BeginPass
    <2>1. index' \in 0 .. MaxVenues
      BY <1>4, MarketDataAssumption DEF BeginPass
    <2> QED
      BY <1>4, <2>1 DEF BeginPass, TypeOK, queueVars, depthVars, bboVars
  <1>5. CASE NextSlot
    <2>1. index' \in 0 .. MaxVenues
      BY <1>5, MarketDataAssumption DEF NextSlot, TypeOK
    <2> QED
      BY <1>5, <2>1 DEF NextSlot, TypeOK, queueVars, depthVars, bboVars
  <1>6. ASSUME NEW kind, Pop(kind), UNCHANGED <<activeVenues, depthVars, bboVars>>
        PROVE  TypeOK'
    <2>1. queues' \in [Slot -> Seq(ProviderMessage)]
      BY <1>6, PopType
    <2> QED
      BY <1>6, <2>1 DEF Pop, TypeOK, drainVars, depthVars, bboVars
  <1>7. ASSUME NEW i \in Instrument, AcceptUpdate(i), PublishBook(i),
               consolidatedState' \in [Instrument -> Book],
               needsRebuild' \in [Instrument -> BOOLEAN]
        PROVE  TypeOK'
    <2>1. bookOut' \in [Instrument -> Book]
      BY <1>7 DEF TypeOK, PublishBook
    <2> QED
      BY <1>7, <2>1, AcceptUpdateType DEF AcceptUpdate, Pop, TypeOK, drainVars, bboVars
  <1>8. ASSUME NEW i \in Instrument, ProcessUpdateRebuild(i)
        PROVE  TypeOK'
    <2>1. AcceptUpdate(i) /\ PublishBook(i)
      BY <1>8 DEF ProcessUpdateRebuild
    <2>2. MergeBooks(venueBooks'[i], depthHealth) \in Book
      BY <2>1, AcceptUpdateType, MergeBooksType
    <2> QED
      BY <1>7, <1>8, <2>1, <2>2 DEF ProcessUpdateRebuild, TypeOK
  <1>9. ASSUME NEW i \in Instrument, ProcessUpdateRepair(i)
        PROVE  TypeOK'
    <2>1. AcceptUpdate(i) /\ PublishBook(i)
      BY <1>9 DEF ProcessUpdateRepair
    <2> DEFINE changed == ChangedLevels(venueBooks[i][index], Front)
    <2>2. \A l \in changed : l \in Level /\ Front.levels[l] \in Quantity
      BY <2>1, AcceptUpdateType DEF ChangedLevels, BookUpdate
    <2> HIDE DEF changed
    <2>3. ApplyDepthDelta(consolidatedState[i], index, Front, changed) \in Book
      BY <2>1, <2>2, AcceptUpdateType DEF ApplyDepthDelta, Book, TypeOK
    <2> QED
      BY <1>7, <1>9, <2>1, <2>3 DEF ProcessUpdateRepair, TypeOK, changed
  <1>10. ASSUME NEW i \in Instrument, ProcessUpdateExcluded(i)
         PROVE  TypeOK'
    BY <1>7, <1>10 DEF ProcessUpdateExcluded, TypeOK
  <1>11. ASSUME NEW i \in Instrument, AcceptQuote(i), PublishBbo(i),
                consolidatedBbo' \in [Instrument -> [Side -> PriceAndVenues]],
                rescanDue' \in [Instrument -> BOOLEAN]
         PROVE  TypeOK'
    <2>1. bboOut' \in [Instrument -> [Side -> PriceAndVenues]]
      BY <1>11 DEF TypeOK, PublishBbo
    <2> QED
      BY <1>11, <2>1, AcceptQuoteType DEF AcceptQuote, Pop, TypeOK, drainVars, depthVars
  <1>12. ASSUME NEW i \in Instrument, ProcessQuoteRescan(i)
         PROVE  TypeOK'
    <2>1. AcceptQuote(i) /\ PublishBbo(i)
      BY <1>12 DEF ProcessQuoteRescan
    <2>2. venueQuotes'[i] \in [Slot -> BboQuote]
      BY <2>1, AcceptQuoteType
    <2>3. ComputeBBOFromQuotes(venueQuotes'[i], bboHealth) \in [Side -> PriceAndVenues]
      BY <2>2, ScanBestType DEF ComputeBBOFromQuotes
    <2>4. /\ consolidatedBbo' \in [Instrument -> [Side -> PriceAndVenues]]
          /\ rescanDue' \in [Instrument -> BOOLEAN]
      BY <1>12, <2>3, SMTT(30) DEF ProcessQuoteRescan, TypeOK
    <2> QED
      BY <1>11, <2>1, <2>4
  <1>13. ASSUME NEW i \in Instrument, ProcessQuoteUpdate(i)
         PROVE  TypeOK'
    <2>1. AcceptQuote(i) /\ PublishBbo(i)
      BY <1>13 DEF ProcessQuoteUpdate
    <2>2. venueQuotes'[i] \in [Slot -> BboQuote] /\ index \in Slot
      BY <2>1, AcceptQuoteType
    <2>3. UpdateBBOWithQuote(consolidatedBbo[i], index, venueQuotes'[i], bboHealth)
            \in [Side -> PriceAndVenues]
      <3>1. consolidatedBbo[i] \in [Side -> PriceAndVenues]
        BY DEF TypeOK
      <3>2. ASSUME NEW side \in Side
            PROVE  UpdateBBOSide(side, consolidatedBbo[i][side], index, venueQuotes'[i], bboHealth)
                     \in PriceAndVenues
        <4>1. consolidatedBbo[i][side] \in PriceAndVenues
          BY <3>1
        <4> QED
          BY <2>2, <4>1, UpdateBBOSideType
      <3> QED
        BY <3>2 DEF UpdateBBOWithQuote
    <2>4. /\ consolidatedBbo' \in [Instrument -> [Side -> PriceAndVenues]]
          /\ rescanDue' \in [Instrument -> BOOLEAN]
      BY <1>13, <2>3, SMTT(30) DEF ProcessQuoteUpdate, TypeOK
    <2> QED
      BY <1>11, <2>1, <2>4
  <1>14. CASE ProcessDepthHealth
    <2>1. /\ index \in Slot /\ Front \in VenueHealthEvent
          /\ queues' \in [Slot -> Seq(ProviderMessage)]
      BY <1>14, PopType, MessageKind DEF ProcessDepthHealth
    <2>2. Front.health \in VenueHealth
      BY <2>1 DEF VenueHealthEvent
    <2> QED
      BY <1>14, <2>1, <2>2 DEF ProcessDepthHealth, Pop, MarkAllForRebuild, TypeOK,
         drainVars, bboVars
  <1>15. CASE ProcessBboHealth
    <2>1. /\ index \in Slot /\ Front \in VenueHealthEvent
          /\ queues' \in [Slot -> Seq(ProviderMessage)]
      BY <1>15, PopType, MessageKind DEF ProcessBboHealth
    <2>2. Front.health \in VenueHealth
      BY <2>1 DEF VenueHealthEvent
    <2> QED
      BY <1>15, <2>1, <2>2 DEF ProcessBboHealth, Pop, BumpBboHealthVersion, TypeOK,
         drainVars, depthVars
  <1>16. CASE ProcessRegistration
    <2>1. index \in Slot /\ queues' \in [Slot -> Seq(ProviderMessage)]
      BY <1>16, PopType DEF ProcessRegistration
    <2>2. EmptyBook \in FlatOrderBook
      BY MarketDataAssumption DEF EmptyBook, FlatOrderBook, Quantity
    <2>3. venueBooks' \in [Instrument -> [Slot -> FlatOrderBook \cup {NoBook}]]
      BY <1>16, <2>1, <2>2 DEF ProcessRegistration, TypeOK
    <2> QED
      BY <1>16, <2>1, <2>3 DEF ProcessRegistration, Pop, MarkAllForRebuild, TypeOK,
         drainVars, bboVars
  <1>17. CASE RemoveVenue
    <2>1. index \in Slot /\ queues' \in [Slot -> Seq(ProviderMessage)]
      BY <1>17, PopType DEF RemoveVenue
    <2>2. EmptyQuote \in BboQuote
      BY MarketDataAssumption DEF EmptyQuote, BboQuote, Quantity
    <2>3. venueQuotes' \in [Instrument -> [Slot -> BboQuote]]
      BY <1>17, <2>1, <2>2 DEF RemoveVenue, TypeOK
    <2>4. venueBooks' \in [Instrument -> [Slot -> FlatOrderBook \cup {NoBook}]]
      BY <1>17, <2>1 DEF RemoveVenue, TypeOK
    <2>5. depthHealth' \in [Slot -> VenueHealth] /\ bboHealth' \in [Slot -> VenueHealth]
      BY <1>17, <2>1 DEF RemoveVenue, TypeOK, VenueHealth
    <2> QED
      BY <1>17, <2>1, <2>3, <2>4, <2>5 DEF RemoveVenue, Pop, MarkAllForRebuild,
         BumpBboHealthVersion, TypeOK, drainVars
  <1>18. CASE DropUpdate \/ DropQuote \/ ProcessHealthUnchanged \/ RemoveInactive
    BY <1>6, <1>18 DEF DropUpdate, DropQuote, ProcessHealthUnchanged, RemoveInactive
  <1> QED
    BY <1>1, <1>2, <1>3, <1>4, <1>5, <1>8, <1>9, <1>10, <1>12, <1>13, <1>14, <1>15,
       <1>16, <1>17, <1>18 DEF Next, Drain

\* Every variable of Core keeps its type: a queue holds provider messages, a
\* venue's book is a book or absent, what is published is a consolidated book
\* or BBO.
THEOREM TypeCorrect == Spec => []TypeOK
  BY InitType, NextType, PTL DEF Spec

---------------------------------------------------------------------------
(* The incremental book.                                                    *)

\* Folding the LevelChanges of a delta of an admitted venue into the merge
\* gives the merge with that venue's new book.
LEMMA DeltaIsRebuild ==
  ASSUME NEW books \in [Slot -> FlatOrderBook \cup {NoBook}], NEW health,
         NEW s \in Slot, books[s] \in FlatOrderBook, books[s] # NoBook,
         IsAdmissible(health[s]), NEW u \in BookUpdate, ~u.isSnapshot
  PROVE  ApplyDepthDelta(MergeBooks(books, health), s, u, ChangedLevels(books[s], u))
           = MergeBooks([books EXCEPT ![s] = ApplyUpdate(books[s], u)], health)
  <1> DEFINE new == [books EXCEPT ![s] = ApplyUpdate(books[s], u)]
             old == MergeBooks(books, health)
  <1>1. ApplyUpdate(books[s], u) \in FlatOrderBook /\ ApplyUpdate(books[s], u) # NoBook
    BY ApplyUpdateType, MarketDataAssumption DEF FlatOrderBook, Quantity
  <1>2. old \in Book /\ MergeBooks(new, health) \in Book
    <2>1. new \in [Slot -> FlatOrderBook \cup {NoBook}]
      BY <1>1
    <2> QED
      BY <2>1, MergeBooksType
  <1>3. ASSUME NEW l \in Level
        PROVE  (IF l \in ChangedLevels(books[s], u)
                THEN [old[l] EXCEPT ![s] = u.levels[l]] ELSE old[l])
                 = MergeBooks(new, health)[l]
    <2>1. \A t \in Slot : MergeBooks(new, health)[l][t] =
            IF new[t] # NoBook /\ IsAdmissible(health[t]) THEN new[t][l] ELSE 0
      BY DEF MergeBooks
    <2>2. \A t \in Slot : old[l][t] =
            IF books[t] # NoBook /\ IsAdmissible(health[t]) THEN books[t][l] ELSE 0
      BY DEF MergeBooks
    <2>3. new[s] = ApplyUpdate(books[s], u) /\ \A t \in Slot : t # s => new[t] = books[t]
      OBVIOUS
    <2>4. old[l] \in [Slot -> Quantity] /\ MergeBooks(new, health)[l] \in [Slot -> Quantity]
      BY <1>2 DEF Book
    <2>5. new[s][l] = IF l \in ChangedLevels(books[s], u) THEN u.levels[l] ELSE books[s][l]
      BY <2>3 DEF ApplyUpdate, ChangedLevels, BookUpdate
    <2> HIDE DEF new, old
    <2>6. MergeBooks(new, health)[l][s] = new[s][l] /\ old[l][s] = books[s][l]
      BY <1>1, <2>1, <2>2, <2>3
    <2>7. \A t \in Slot : t # s => MergeBooks(new, health)[l][t] = old[l][t]
      BY <2>1, <2>2, <2>3
    <2> QED
      BY <2>4, <2>5, <2>6, <2>7
  <1>4. DOMAIN MergeBooks(new, health) = Level
    BY DEF MergeBooks
  <1> HIDE DEF new, old
  <1>5. ApplyDepthDelta(old, s, u, ChangedLevels(books[s], u)) = MergeBooks(new, health)
    BY <1>2, <1>3, <1>4 DEF ApplyDepthDelta, Book
  <1> QED
    BY <1>5 DEF new, old

\* A venue that is not admitted may change its book without changing the merge.
LEMMA ExcludedDoesNotMatter ==
  ASSUME NEW books \in [Slot -> FlatOrderBook \cup {NoBook}], NEW health,
         NEW s \in Slot, ~IsAdmissible(health[s]), NEW book
  PROVE  MergeBooks([books EXCEPT ![s] = book], health) = MergeBooks(books, health)
  BY DEF MergeBooks

\* Every step keeps the consolidated book equal to a rebuild or has a rebuild
\* latched.
LEMMA NextBookMatches ==
  TypeOK /\ BookMatchesRebuild /\ [Next]_vars => BookMatchesRebuild'
  <1> SUFFICES ASSUME TypeOK, BookMatchesRebuild, [Next]_vars PROVE BookMatchesRebuild'
    OBVIOUS
  <1>1. ASSUME UNCHANGED <<venueBooks, depthHealth, needsRebuild, consolidatedState>>
        PROVE  BookMatchesRebuild'
    BY <1>1 DEF BookMatchesRebuild
  <1>2. ASSUME MarkAllForRebuild
        PROVE  BookMatchesRebuild'
    BY <1>2 DEF BookMatchesRebuild, MarkAllForRebuild
  <1>3. ASSUME NEW i \in Instrument, AcceptUpdate(i),
               \A j \in Instrument : j # i => /\ needsRebuild'[j] = needsRebuild[j]
                                              /\ consolidatedState'[j] = consolidatedState[j],
               ~needsRebuild'[i] => consolidatedState'[i] = MergeBooks(venueBooks'[i], depthHealth)
        PROVE  BookMatchesRebuild'
    <2>1. \A j \in Instrument : j # i => venueBooks'[j] = venueBooks[j]
      BY <1>3 DEF AcceptUpdate, TypeOK
    <2>2. depthHealth' = depthHealth
      BY <1>3 DEF AcceptUpdate
    <2> QED
      BY <1>3, <2>1, <2>2 DEF BookMatchesRebuild
  <1>4. ASSUME NEW i \in Instrument, AcceptUpdate(i)
        PROVE  /\ venueBooks[i] \in [Slot -> FlatOrderBook \cup {NoBook}]
               /\ venueBooks'[i] =
                    [venueBooks[i] EXCEPT ![index] = ApplyUpdate(venueBooks[i][index], Front)]
    BY <1>4, AcceptUpdateType DEF AcceptUpdate, TypeOK
  <1>5. ASSUME NEW i \in Instrument, ProcessUpdateRebuild(i)
        PROVE  BookMatchesRebuild'
    BY <1>3, <1>5 DEF ProcessUpdateRebuild, TypeOK
  <1>6. ASSUME NEW i \in Instrument, ProcessUpdateRepair(i)
        PROVE  BookMatchesRebuild'
    <2>1. AcceptUpdate(i) /\ ~needsRebuild[i] /\ ~Front.isSnapshot
      BY <1>6 DEF ProcessUpdateRepair
    <2>2. consolidatedState[i] = MergeBooks(venueBooks[i], depthHealth)
      BY <2>1 DEF BookMatchesRebuild
    <2>3. consolidatedState'[i] = ApplyDepthDelta(MergeBooks(venueBooks[i], depthHealth), index,
                                    Front, ChangedLevels(venueBooks[i][index], Front))
      BY <1>6, <2>2 DEF ProcessUpdateRepair, TypeOK
    <2>4. /\ index \in Slot /\ Front \in BookUpdate
          /\ venueBooks[i][index] \in FlatOrderBook /\ venueBooks[i][index] # NoBook
          /\ IsAdmissible(depthHealth[index])
      BY <1>6, <2>1, AcceptUpdateType DEF ProcessUpdateRepair, AcceptUpdate
    <2>5. consolidatedState'[i] = MergeBooks(venueBooks'[i], depthHealth)
      <3>1. venueBooks[i] \in [Slot -> FlatOrderBook \cup {NoBook}]
        BY DEF TypeOK
      <3>2. ApplyDepthDelta(MergeBooks(venueBooks[i], depthHealth), index,
                            Front, ChangedLevels(venueBooks[i][index], Front))
              = MergeBooks([venueBooks[i] EXCEPT ![index] =
                              ApplyUpdate(venueBooks[i][index], Front)], depthHealth)
        BY <2>1, <2>4, <3>1, DeltaIsRebuild
      <3> QED
        BY <1>4, <2>1, <2>3, <3>2
    <2>6. \A j \in Instrument : j # i => consolidatedState'[j] = consolidatedState[j]
      BY <1>6 DEF ProcessUpdateRepair, TypeOK
    <2> QED
      BY <1>3, <1>6, <2>1, <2>5, <2>6 DEF ProcessUpdateRepair
  <1>7. ASSUME NEW i \in Instrument, ProcessUpdateExcluded(i)
        PROVE  BookMatchesRebuild'
    <2>1. AcceptUpdate(i) /\ ~needsRebuild[i] /\ ~IsAdmissible(depthHealth[index])
      BY <1>7 DEF ProcessUpdateExcluded
    <2>2. consolidatedState'[i] = MergeBooks(venueBooks[i], depthHealth)
      BY <1>7, <2>1 DEF ProcessUpdateExcluded, BookMatchesRebuild
    <2>3. consolidatedState'[i] = MergeBooks(venueBooks'[i], depthHealth)
      <3>1. venueBooks[i] \in [Slot -> FlatOrderBook \cup {NoBook}] /\ index \in Slot
        BY <2>1, AcceptUpdateType DEF TypeOK
      <3>2. MergeBooks([venueBooks[i] EXCEPT ![index] =
                          ApplyUpdate(venueBooks[i][index], Front)], depthHealth)
              = MergeBooks(venueBooks[i], depthHealth)
        BY <2>1, <3>1, ExcludedDoesNotMatter
      <3> QED
        BY <1>4, <2>1, <2>2, <3>2
    <2> QED
      BY <1>3, <1>7, <2>1, <2>3 DEF ProcessUpdateExcluded
  <1>8. CASE ProcessDepthHealth \/ ProcessRegistration \/ RemoveVenue
    BY <1>2, <1>8 DEF ProcessDepthHealth, ProcessRegistration, RemoveVenue
  <1>9. ASSUME NEW i \in Instrument, ProcessQuoteRescan(i) \/ ProcessQuoteUpdate(i)
        PROVE  BookMatchesRebuild'
    BY <1>1, <1>9 DEF ProcessQuoteRescan, ProcessQuoteUpdate, AcceptQuote, depthVars
  <1>10. CASE \/ UNCHANGED vars \/ RegisterVenueName \/ BeginPass \/ NextSlot
              \/ DropUpdate \/ DropQuote \/ ProcessHealthUnchanged \/ ProcessBboHealth
              \/ RemoveInactive
    BY <1>1, <1>10 DEF vars, RegisterVenueName, BeginPass, NextSlot, DropUpdate, DropQuote,
       ProcessHealthUnchanged, ProcessBboHealth, RemoveInactive, depthVars
  <1>11. ASSUME NEW s \in Slot, Enqueue(s)
         PROVE  BookMatchesRebuild'
    BY <1>1, <1>11 DEF Enqueue, depthVars
  <1> QED
    BY <1>5, <1>6, <1>7, <1>8, <1>9, <1>10, <1>11 DEF Next, Drain

\* Incremental repair equals rebuild, for every history: see BookMatchesRebuild.
THEOREM BookCorrect == Spec => []BookMatchesRebuild
  <1>1. Init => BookMatchesRebuild
    BY DEF Init, BookMatchesRebuild
  <1> QED
    BY <1>1, TypeCorrect, NextBookMatches, PTL DEF Spec

---------------------------------------------------------------------------
(* The incremental BBO.                                                     *)

\* Every step keeps the BBO equal to a rescan or has a rescan due.
LEMMA NextBboMatches ==
  TypeOK /\ BboMatchesRescan /\ [Next]_vars => BboMatchesRescan'
  <1> SUFFICES ASSUME TypeOK, BboMatchesRescan, [Next]_vars PROVE BboMatchesRescan'
    OBVIOUS
  <1>1. ASSUME UNCHANGED <<venueQuotes, bboHealth, rescanDue, consolidatedBbo>>
        PROVE  BboMatchesRescan'
    BY <1>1 DEF BboMatchesRescan
  <1>2. ASSUME BumpBboHealthVersion
        PROVE  BboMatchesRescan'
    BY <1>2 DEF BboMatchesRescan, BumpBboHealthVersion
  <1>3. ASSUME NEW i \in Instrument, AcceptQuote(i),
               \A j \in Instrument : j # i => /\ rescanDue'[j] = rescanDue[j]
                                              /\ consolidatedBbo'[j] = consolidatedBbo[j],
               consolidatedBbo'[i] = ComputeBBOFromQuotes(venueQuotes'[i], bboHealth)
        PROVE  BboMatchesRescan'
    <2>1. \A j \in Instrument : j # i => venueQuotes'[j] = venueQuotes[j]
      BY <1>3 DEF AcceptQuote, TypeOK
    <2>2. bboHealth' = bboHealth
      BY <1>3 DEF AcceptQuote
    <2> QED
      BY <1>3, <2>1, <2>2 DEF BboMatchesRescan
  <1>4. ASSUME NEW i \in Instrument, ProcessQuoteRescan(i)
        PROVE  BboMatchesRescan'
    BY <1>3, <1>4 DEF ProcessQuoteRescan, TypeOK
  <1>5. ASSUME NEW i \in Instrument, ProcessQuoteUpdate(i)
        PROVE  BboMatchesRescan'
    <2>1. AcceptQuote(i) /\ ~rescanDue[i] /\ UNCHANGED rescanDue
      BY <1>5 DEF ProcessQuoteUpdate
    <2>2. consolidatedBbo[i] = ComputeBBOFromQuotes(venueQuotes[i], bboHealth)
      BY <2>1 DEF BboMatchesRescan
    <2>3. consolidatedBbo'[i] =
            UpdateBBOWithQuote(ComputeBBOFromQuotes(venueQuotes[i], bboHealth), index,
                               venueQuotes'[i], bboHealth)
      BY <1>5, <2>2 DEF ProcessQuoteUpdate, TypeOK
    <2>4. /\ index \in Slot /\ Front.quote \in BboQuote
          /\ venueQuotes[i] \in [Slot -> BboQuote]
          /\ venueQuotes'[i] = [venueQuotes[i] EXCEPT ![index] = Front.quote]
      BY <2>1, AcceptQuoteType DEF TypeOK
    <2>5. UpdateBBOWithQuote(ComputeBBOFromQuotes(venueQuotes[i], bboHealth), index,
                             [venueQuotes[i] EXCEPT ![index] = Front.quote], bboHealth)
            = ComputeBBOFromQuotes([venueQuotes[i] EXCEPT ![index] = Front.quote], bboHealth)
      BY <2>4, UpdateIsRescan
    <2>6. \A j \in Instrument : j # i => consolidatedBbo'[j] = consolidatedBbo[j]
      BY <1>5 DEF ProcessQuoteUpdate, TypeOK
    <2> QED
      BY <1>3, <2>1, <2>3, <2>4, <2>5, <2>6
  <1>6. CASE ProcessBboHealth \/ RemoveVenue
    BY <1>2, <1>6 DEF ProcessBboHealth, RemoveVenue
  <1>7. ASSUME NEW i \in Instrument,
               ProcessUpdateRebuild(i) \/ ProcessUpdateRepair(i) \/ ProcessUpdateExcluded(i)
        PROVE  BboMatchesRescan'
    BY <1>1, <1>7 DEF ProcessUpdateRebuild, ProcessUpdateRepair, ProcessUpdateExcluded,
       AcceptUpdate, bboVars
  <1>8. CASE \/ UNCHANGED vars \/ RegisterVenueName \/ BeginPass \/ NextSlot
             \/ DropUpdate \/ DropQuote \/ ProcessHealthUnchanged \/ ProcessDepthHealth
             \/ ProcessRegistration \/ RemoveInactive
    BY <1>1, <1>8 DEF vars, RegisterVenueName, BeginPass, NextSlot, DropUpdate, DropQuote,
       ProcessHealthUnchanged, ProcessDepthHealth, ProcessRegistration, RemoveInactive, bboVars
  <1>9. ASSUME NEW s \in Slot, Enqueue(s)
        PROVE  BboMatchesRescan'
    BY <1>1, <1>9 DEF Enqueue, bboVars
  <1> QED
    BY <1>4, <1>5, <1>6, <1>7, <1>8, <1>9 DEF Next, Drain

\* Incremental BBO equals full rescan, for every history: see BboMatchesRescan.
THEOREM BboCorrect == Spec => []BboMatchesRescan
  <1>1. ASSUME Init
        PROVE  BboMatchesRescan
    <2>1. \A i \in Instrument, side \in Side :
            Candidates(side, venueQuotes[i], bboHealth) = {}
      BY <1>1 DEF Init, Candidates, IsAdmissible
    <2> QED
      BY <1>1, <2>1 DEF Init, BboMatchesRescan, ComputeBBOFromQuotes, ScanBest
  <1> QED
    BY <1>1, TypeCorrect, NextBboMatches, PTL DEF Spec

---------------------------------------------------------------------------
(* Venues come and go whole.                                                *)

\* A slot has its books exactly while its venue is active: see BookIffActive.
THEOREM VenuesCorrect == Spec => []BookIffActive
  <1>1. Init => BookIffActive
    BY DEF Init, BookIffActive
  <1>2. TypeOK /\ BookIffActive /\ [Next]_vars => BookIffActive'
    <2> SUFFICES ASSUME TypeOK, BookIffActive, [Next]_vars PROVE BookIffActive'
      OBVIOUS
    <2>1. ASSUME UNCHANGED <<venueBooks, activeVenues>>
          PROVE  BookIffActive'
      BY <2>1 DEF BookIffActive
    <2>2. ASSUME NEW i \in Instrument, AcceptUpdate(i)
          PROVE  BookIffActive'
      <3>1. ApplyUpdate(venueBooks[i][index], Front) # NoBook
        BY <2>2, AcceptUpdateType, MarketDataAssumption DEF FlatOrderBook, Quantity
      <3>2. \A j \in Instrument, s \in Slot :
              venueBooks'[j][s] # NoBook <=> venueBooks[j][s] # NoBook
        BY <2>2, <3>1, AcceptUpdateType DEF AcceptUpdate, TypeOK
      <3> QED
        BY <2>2, <3>2 DEF AcceptUpdate, BookIffActive
    <2>3. CASE ProcessRegistration
      <3>1. EmptyBook # NoBook
        BY MarketDataAssumption DEF EmptyBook
      <3>2. index \in Slot
        BY <2>3, PopType DEF ProcessRegistration
      <3> QED
        BY <2>3, <3>1, <3>2 DEF ProcessRegistration, BookIffActive, TypeOK
    <2>4. CASE RemoveVenue
      <3>1. index \in Slot
        BY <2>4, PopType DEF RemoveVenue
      <3> QED
        BY <2>4, <3>1 DEF RemoveVenue, BookIffActive, TypeOK
    <2>5. ASSUME NEW i \in Instrument,
                 ProcessUpdateRebuild(i) \/ ProcessUpdateRepair(i) \/ ProcessUpdateExcluded(i)
          PROVE  BookIffActive'
      BY <2>2, <2>5 DEF ProcessUpdateRebuild, ProcessUpdateRepair, ProcessUpdateExcluded
    <2>6. ASSUME NEW i \in Instrument, ProcessQuoteRescan(i) \/ ProcessQuoteUpdate(i)
          PROVE  BookIffActive'
      BY <2>1, <2>6 DEF ProcessQuoteRescan, ProcessQuoteUpdate, AcceptQuote, depthVars
    <2>7. CASE \/ UNCHANGED vars \/ RegisterVenueName \/ BeginPass \/ NextSlot
               \/ DropUpdate \/ DropQuote \/ ProcessHealthUnchanged \/ ProcessDepthHealth
               \/ ProcessBboHealth \/ RemoveInactive
      BY <2>1, <2>7 DEF vars, RegisterVenueName, BeginPass, NextSlot, DropUpdate, DropQuote,
         ProcessHealthUnchanged, ProcessDepthHealth, ProcessBboHealth, RemoveInactive, depthVars
    <2>8. ASSUME NEW s \in Slot, Enqueue(s)
          PROVE  BookIffActive'
      BY <2>1, <2>8 DEF Enqueue, depthVars
    <2> QED
      BY <2>3, <2>4, <2>5, <2>6, <2>7, <2>8 DEF Next, Drain
  <1> QED
    BY <1>1, <1>2, TypeCorrect, PTL DEF Spec

---------------------------------------------------------------------------
(* The refinement.                                                          *)

\* MarketView works on the data of MarketData.
LEMMA ViewSets ==
  /\ View!Slot = Slot
  /\ View!BookUpdate = BookUpdate
  /\ View!BboQuote = BboQuote
  /\ View!VenueHealth = VenueHealth
  /\ View!Side = Side
  /\ View!EmptyBook = EmptyBook
  /\ View!EmptyQuote = EmptyQuote
  /\ View!EmptyLevel = EmptyLevel
  BY DEF View!Slot, View!BookUpdate, View!BboQuote, View!VenueHealth, View!Side,
     View!EmptyBook, View!EmptyQuote, View!EmptyLevel, View!Quantity, View!Price,
     View!NoPrice, View!NotSent, Slot, BookUpdate, BboQuote, VenueHealth, Side, EmptyBook,
     EmptyQuote, EmptyLevel, Quantity, Price, NoPrice, NotSent

\* MarketView merges depth as Core's rebuild does.
LEMMA ViewDepth ==
  /\ \A book, u : View!ApplyUpdate(book, u) = ApplyUpdate(book, u)
  /\ \A books, health : View!MergeBooks(books, health) = MergeBooks(books, health)
  BY DEF View!ApplyUpdate, ApplyUpdate, View!MergeBooks, MergeBooks, View!IsAdmissible,
     IsAdmissible, View!Slot, Slot, View!NotSent, NotSent

\* MarketView scans quotes as Core's rescan does.
LEMMA ViewBbo ==
  ASSUME NEW quotes, NEW health
  PROVE  View!ComputeBBOFromQuotes(quotes, health) = ComputeBBOFromQuotes(quotes, health)
  <1>1. \A side, p, q : View!Better(side, p, q) = Better(side, p, q)
    BY DEF View!Better, Better
  <1>2. \A side : View!Candidates(side, quotes, health) = Candidates(side, quotes, health)
    BY DEF View!Candidates, Candidates, View!IsAdmissible, IsAdmissible, View!Slot, Slot,
       View!NoPrice, NoPrice
  <1>3. ASSUME NEW side
        PROVE  View!BestPrice(side, quotes, health) = BestPrice(side, quotes, health)
    BY <1>1, <1>2 DEF View!BestPrice, BestPrice
  <1>4. ASSUME NEW side
        PROVE  View!ScanBest(side, quotes, health) = ScanBest(side, quotes, health)
    <2> DEFINE C == Candidates(side, quotes, health)
               best == BestPrice(side, quotes, health)
               found == [price |-> best,
                         venues |-> {<<s, quotes[s][side].qty>> :
                                       s \in {t \in C : quotes[t][side].price = best}}]
    <2>1. View!Candidates(side, quotes, health) = C /\ View!BestPrice(side, quotes, health) = best
      BY <1>2, <1>3
    <2> HIDE DEF C, best
    <2>2. ScanBest(side, quotes, health) = IF C = {} THEN EmptyLevel ELSE found
      BY DEF ScanBest, C, best
    <2>3. View!ScanBest(side, quotes, health) = IF C = {} THEN EmptyLevel ELSE found
      BY <2>1, ViewSets DEF View!ScanBest
    <2> QED
      BY <2>2, <2>3
  <1> QED
    BY <1>4 DEF View!ComputeBBOFromQuotes, ComputeBBOFromQuotes, View!Side, Side

\* Every step of Core is a step of MarketView or leaves its variables alone.
LEMMA NextView ==
  TypeOK /\ BookMatchesRebuild /\ BboMatchesRescan
    /\ BookMatchesRebuild' /\ BboMatchesRescan' /\ [Next]_vars
    => [View!Next]_(View!vars)
  <1> SUFFICES ASSUME TypeOK, BookMatchesRebuild, BboMatchesRescan,
                      BookMatchesRebuild', BboMatchesRescan', [Next]_vars
               PROVE  [View!Next]_(View!vars)
    OBVIOUS
  <1>1. ASSUME UNCHANGED depthVars, UNCHANGED bboVars
        PROVE  UNCHANGED View!vars
    BY <1>1 DEF View!vars, depthVars, bboVars
  <1>2. ASSUME NEW i \in Instrument, AcceptUpdate(i), PublishBook(i), ~needsRebuild'[i]
        PROVE  View!Next
    <2>1. index \in Slot /\ Front \in BookUpdate
      BY <1>2, AcceptUpdateType
    <2>2. consolidatedState'[i] = MergeBooks(venueBooks'[i], depthHealth)
      BY <1>2 DEF BookMatchesRebuild, AcceptUpdate
    <2>3. View!PublishUpdate(i, index, Front)
      BY <1>2, <2>2, ViewDepth DEF View!PublishUpdate, AcceptUpdate, PublishBook, bboVars
    <2> QED
      BY <2>1, <2>3, ViewSets DEF View!Next
  <1>3. ASSUME NEW i \in Instrument, AcceptQuote(i), PublishBbo(i), ~rescanDue'[i]
        PROVE  View!Next
    <2>1. index \in Slot /\ Front.quote \in BboQuote
      BY <1>3, AcceptQuoteType
    <2>2. consolidatedBbo'[i] = ComputeBBOFromQuotes(venueQuotes'[i], bboHealth)
      BY <1>3 DEF BboMatchesRescan, AcceptQuote
    <2>3. View!PublishQuote(i, index, Front.quote)
      BY <1>3, <2>2, ViewBbo DEF View!PublishQuote, AcceptQuote, PublishBbo, depthVars
    <2> QED
      BY <2>1, <2>3, ViewSets DEF View!Next
  <1>4. ASSUME NEW i \in Instrument,
               ProcessUpdateRebuild(i) \/ ProcessUpdateRepair(i) \/ ProcessUpdateExcluded(i)
        PROVE  View!Next
    BY <1>2, <1>4 DEF ProcessUpdateRebuild, ProcessUpdateRepair, ProcessUpdateExcluded, TypeOK
  <1>5. ASSUME NEW i \in Instrument, ProcessQuoteRescan(i) \/ ProcessQuoteUpdate(i)
        PROVE  View!Next
    BY <1>3, <1>5 DEF ProcessQuoteRescan, ProcessQuoteUpdate, TypeOK
  <1>6. CASE ProcessDepthHealth \/ ProcessBboHealth
    <2>1. index \in Slot /\ Front.health \in VenueHealth
      BY <1>6, PopType, MessageKind DEF ProcessDepthHealth, ProcessBboHealth, VenueHealthEvent
    <2>2. View!SetHealth(index, Front.health)
      BY <1>6 DEF View!SetHealth, ProcessDepthHealth, ProcessBboHealth, depthVars, bboVars
    <2> QED
      BY <2>1, <2>2, ViewSets DEF View!Next
  <1>7. CASE ProcessRegistration
    <2>1. index \in Slot
      BY <1>7, PopType DEF ProcessRegistration
    <2>2. View!Join(index)
      BY <1>7, ViewSets DEF View!Join, ProcessRegistration, bboVars
    <2> QED
      BY <2>1, <2>2, ViewSets DEF View!Next
  <1>8. CASE RemoveVenue
    <2>1. index \in Slot
      BY <1>8, PopType DEF RemoveVenue
    <2>2. View!Leave(index)
      BY <1>8, ViewSets DEF View!Leave, RemoveVenue
    <2> QED
      BY <2>1, <2>2, ViewSets DEF View!Next
  <1>9. CASE \/ UNCHANGED vars \/ RegisterVenueName \/ BeginPass \/ NextSlot
             \/ DropUpdate \/ DropQuote \/ ProcessHealthUnchanged \/ RemoveInactive
    BY <1>1, <1>9 DEF vars, RegisterVenueName, BeginPass, NextSlot, DropUpdate, DropQuote,
       ProcessHealthUnchanged, RemoveInactive
  <1>10. ASSUME NEW s \in Slot, Enqueue(s)
         PROVE  UNCHANGED View!vars
    BY <1>1, <1>10 DEF Enqueue
  <1> QED
    BY <1>4, <1>5, <1>6, <1>7, <1>8, <1>9, <1>10 DEF Next, Drain

\* Core, with its queues, its latches and its incremental state, implements the
\* consolidator that merges and rescans everything at every publication: what
\* the callbacks receive is what MarketView allows.
THEOREM CoreImplementsView == Spec => ViewSpec
  <1>1. Init => View!Init
    BY ViewSets DEF Init, View!Init
  <1> QED
    BY <1>1, TypeCorrect, BookCorrect, BboCorrect, NextView, PTL DEF Spec, ViewSpec, View!Spec

---------------------------------------------------------------------------
(* md_core as its providers see it.                                         *)

---------------------------------------------------------------------------
(* Bindings.                                                                *)

\* A connection is bound to a slot that was handed out, and the one whose
\* kHello is half handled is bound.
BindInv ==
  /\ IngressTypeOK
  /\ SlotsAreDistinct
  /\ \A c \in Connection : identityToSlot[c] # None => identityToSlot[c] < venueCount
  /\ greeting # None => identityToSlot[greeting] # None

\* The numbers and names of the constants.
LEMMA Constants ==
  /\ MaxVenues \in Nat /\ MaxVenues > 0 /\ MaxFrames \in Nat
  /\ None \notin Slot /\ None \notin Connection
  /\ QueueCapacity \in Nat
  BY MarketDataAssumption, IngressAssumption, CoreAssumption

\* The initial state.
LEMMA BindInit == IngressInit => Init /\ BindInv
  <1> SUFFICES ASSUME IngressInit
               PROVE  Init /\ BindInv
    OBVIOUS
  <1>1. Init /\ TypeOK
    BY InitType DEF IngressInit
  <1>2. venueCount = 0
    BY <1>1 DEF Init
  <1>3. IngressTypeOK
    BY <1>1, Constants DEF IngressInit, IngressTypeOK
  <1>4. SlotsAreDistinct
    BY <1>2 DEF IngressInit, SlotsAreDistinct
  <1> QED
    BY <1>1, <1>3, <1>4 DEF IngressInit, BindInv

\* A kHello that is accepted hands out the next slot or finds the venue's own.
LEMMA Accepted ==
  ASSUME BindInv, NEW c \in Connection, NEW instrument, AcceptHello(c, instrument)
  PROVE  /\ [RegisterVenueName]_vars
         /\ BindInv'
  <1> DEFINE name == VenueOf[c]
  <1>1. /\ name \in Venue /\ greeting' = c
        /\ identityToSlot' = [identityToSlot EXCEPT ![c] = registry'[name]]
        /\ link' = [link EXCEPT ![c] = "open"] /\ frames < MaxFrames /\ frames' = frames + 1
    BY DEF AcceptHello, Receive
  <1>2. /\ TypeOK /\ venueCount \in 0 .. MaxVenues /\ registry \in [Venue -> Slot \cup {None}]
        /\ identityToSlot \in [Connection -> Slot \cup {None}]
        /\ link \in [Connection -> {"new", "open", "gone"}] /\ frames \in 0 .. MaxFrames
    BY DEF BindInv, IngressTypeOK, TypeOK
  <1>3. /\ link' \in [Connection -> {"new", "open", "gone"}]
        /\ frames' \in 0 .. MaxFrames
    BY <1>1, <1>2, Constants
  <1> HIDE DEF name
  <1>4. CASE /\ registry[name] = None
             /\ RegisterVenueName
             /\ registry' = [registry EXCEPT ![name] = venueCount]
    <2>1. TypeOK'
      BY <1>2, <1>4, NextType DEF Next
    <2>2. venueCount \in Slot /\ venueCount' = venueCount + 1 /\ venueCount # None
      BY <1>2, <1>4, Constants DEF RegisterVenueName, Slot
    <2>3. /\ registry' \in [Venue -> Slot \cup {None}] /\ registry'[name] = venueCount
          /\ identityToSlot' \in [Connection -> Slot \cup {None}]
          /\ identityToSlot'[c] = venueCount
          /\ \A v \in Venue : v # name => registry'[v] = registry[v]
          /\ \A d \in Connection : d # c => identityToSlot'[d] = identityToSlot[d]
      BY <1>1, <1>2, <1>4, <2>2
    <2>4. /\ \A v, w \in Venue : v # w /\ registry[v] # None => registry[v] # registry[w]
          /\ {registry[v] : v \in Venue} \ {None} = 0 .. venueCount - 1
      BY DEF BindInv, SlotsAreDistinct
    <2>5. \A v \in Venue : registry[v] # None => registry[v] \in 0 .. venueCount - 1
      BY <2>4
    <2>6. \A v, w \in Venue : v # w /\ registry'[v] # None => registry'[v] # registry'[w]
      <3>1. \A v \in Venue : registry[v] # venueCount
        BY <2>5, <2>2, <1>2
      <3> QED
        BY <3>1, <2>2, <2>3, <2>4
    <2>7. {registry'[v] : v \in Venue} \ {None} = 0 .. venueCount' - 1
      <3>1. \A v \in Venue : registry'[v] # None => registry'[v] \in 0 .. venueCount
        BY <2>3, <2>5, <1>2
      <3>2. \A n \in 0 .. venueCount : \E v \in Venue : registry'[v] = n
        <4>1. \A n \in 0 .. venueCount - 1 : \E v \in Venue : registry[v] = n
          BY <2>4
        <4>2. \A n \in 0 .. venueCount - 1 : \E v \in Venue : registry'[v] = n
          <5>1. \A n \in 0 .. venueCount - 1 : n # None
            BY <1>2, Constants DEF Slot
          <5> QED
            BY <4>1, <5>1, <2>3, <1>4
        <4> QED
          BY <4>2, <2>3, <1>1, <1>2
      <3>3. \A n \in 0 .. venueCount : n # None
        BY <2>2, <1>2, Constants DEF Slot
      <3>4. venueCount' - 1 = venueCount
        BY <2>2, <1>2
      <3> QED
        BY <3>1, <3>2, <3>3, <3>4
    <2>8. SlotsAreDistinct'
      BY <2>6, <2>7 DEF SlotsAreDistinct
    <2>9. \A d \in Connection : identityToSlot'[d] # None => identityToSlot'[d] < venueCount'
      BY <2>2, <2>3, <1>2 DEF BindInv, Slot
    <2> QED
      BY <1>1, <1>3, <1>4, <2>1, <2>2, <2>3, <2>8, <2>9 DEF BindInv, IngressTypeOK
  <1>5. CASE registry[name] # None /\ UNCHANGED <<vars, registry>>
    <2>1. registry[name] \in 0 .. venueCount - 1
      BY <1>1, <1>5 DEF BindInv, SlotsAreDistinct
    <2>2. TypeOK' /\ SlotsAreDistinct' /\ venueCount' = venueCount
      BY <1>2, <1>5, NextType DEF BindInv, SlotsAreDistinct, vars, queueVars
    <2>3. /\ identityToSlot' \in [Connection -> Slot \cup {None}]
          /\ identityToSlot'[c] = registry[name]
          /\ \A d \in Connection : d # c => identityToSlot'[d] = identityToSlot[d]
      BY <1>1, <1>2, <1>5
    <2>4. \A d \in Connection : identityToSlot'[d] # None => identityToSlot'[d] < venueCount'
      BY <2>1, <2>2, <2>3, <1>2 DEF BindInv
    <2> QED
      BY <1>1, <1>2, <1>3, <1>5, <2>2, <2>3, <2>4 DEF BindInv, IngressTypeOK
  <1> QED
    BY <1>4, <1>5 DEF AcceptHello, name

\* What any other step of the ingress thread does: it hands at most one message
\* to the slot of a bound connection, and hands out no slot.
LEMMA Others ==
  ASSUME BindInv, NEW c \in Connection,
         \/ \E instrument : RefuseHello(c, instrument)
         \/ DropEarly(c) \/ HandleData(c) \/ HandleGoodbye(c) \/ HandleNotify(c)
  PROVE  /\ [\E s \in Slot : Enqueue(s)]_vars
         /\ BindInv'
  <1>1. /\ TypeOK /\ venueCount \in 0 .. MaxVenues /\ registry \in [Venue -> Slot \cup {None}]
        /\ identityToSlot \in [Connection -> Slot \cup {None}]
        /\ link \in [Connection -> {"new", "open", "gone"}] /\ frames \in 0 .. MaxFrames
    BY DEF BindInv, IngressTypeOK, TypeOK
  <1>2. /\ greeting = None /\ greeting' = None /\ registry' = registry
        /\ \E state \in {"open", "gone"} : link' = [link EXCEPT ![c] = state]
        /\ frames < MaxFrames /\ frames' = frames + 1
        /\ identityToSlot' = identityToSlot \/ identityToSlot' = [identityToSlot EXCEPT ![c] = None]
    BY DEF RefuseHello, DropEarly, HandleData, HandleGoodbye, HandleNotify, Receive, bindVars
  <1>3. /\ link' \in [Connection -> {"new", "open", "gone"}]
        /\ frames' \in 0 .. MaxFrames
        /\ identityToSlot' \in [Connection -> Slot \cup {None}]
    BY <1>1, <1>2, Constants
  <1>4. ASSUME identityToSlot[c] # None
        PROVE  identityToSlot[c] \in Slot /\ identityToSlot[c] < venueCount
    BY <1>1, <1>4 DEF BindInv
  <1>5. [\E s \in Slot : Enqueue(s)]_vars /\ venueCount' = venueCount
    <2>1. CASE (\E instrument : RefuseHello(c, instrument)) \/ DropEarly(c) \/ HandleGoodbye(c)
      BY <2>1 DEF RefuseHello, DropEarly, HandleGoodbye, vars, queueVars
    <2>2. CASE HandleData(c)
      <3>1. Enqueue(identityToSlot[c])
        BY <2>2, <1>4 DEF HandleData, Enqueue, coreVars
      <3> QED
        BY <2>2, <3>1, <1>1, <1>4, EnqueueType DEF HandleData
    <2>3. CASE HandleNotify(c)
      <3>1. CASE identityToSlot[c] = None
        BY <2>3, <3>1 DEF HandleNotify, coreVars, vars, queueVars
      <3>2. CASE identityToSlot[c] # None
        <4>1. Enqueue(identityToSlot[c])
          BY <2>3, <3>2, <1>4 DEF HandleNotify, Enqueue, coreVars
        <4> QED
          BY <3>2, <4>1, <1>1, <1>4, EnqueueType
      <3> QED
        BY <3>1, <3>2
    <2> QED
      BY <2>1, <2>2, <2>3
  <1>6. TypeOK'
    BY <1>1, <1>5, NextType DEF Next
  <1>7. SlotsAreDistinct'
    BY <1>2, <1>5 DEF BindInv, SlotsAreDistinct
  <1>8. \A d \in Connection : identityToSlot'[d] # None => identityToSlot'[d] < venueCount'
    BY <1>1, <1>2, <1>5 DEF BindInv
  <1> QED
    BY <1>1, <1>2, <1>3, <1>5, <1>6, <1>7, <1>8 DEF BindInv, IngressTypeOK

\* The second half of a kHello.
LEMMA Finished ==
  ASSUME BindInv, FinishHello
  PROVE  /\ \E s \in Slot : Enqueue(s)
         /\ BindInv'
  <1>1. /\ TypeOK /\ greeting \in Connection
        /\ identityToSlot \in [Connection -> Slot \cup {None}]
    BY DEF BindInv, IngressTypeOK, FinishHello
  <1>2. identityToSlot[greeting] \in Slot /\ identityToSlot[greeting] < venueCount
    BY <1>1 DEF BindInv, FinishHello
  <1>3. Enqueue(identityToSlot[greeting])
    BY <1>2 DEF FinishHello, Enqueue, coreVars
  <1>4. TypeOK' /\ venueCount' = venueCount
    BY <1>1, <1>2, <1>3, NextType, EnqueueType DEF Next
  <1> QED
    BY <1>2, <1>3, <1>4 DEF BindInv, IngressTypeOK, SlotsAreDistinct, FinishHello

\* The consolidator touches no binding and hands out no slot.
LEMMA Drained ==
  ASSUME BindInv, Consolidate
  PROVE  Drain /\ BindInv' /\ venueCount' = venueCount
  <1>1. TypeOK /\ Drain
    BY DEF BindInv, IngressTypeOK, Consolidate
  <1>2. TypeOK'
    BY <1>1, NextType DEF Next
  <1>3. venueCount' = venueCount
    BY <1>1 DEF Drain, BeginPass, NextSlot, DropUpdate, ProcessUpdateRebuild, ProcessUpdateRepair,
       ProcessUpdateExcluded, DropQuote, ProcessQuoteRescan, ProcessQuoteUpdate,
       ProcessHealthUnchanged, ProcessDepthHealth, ProcessBboHealth, ProcessRegistration,
       RemoveInactive, RemoveVenue, AcceptUpdate, AcceptQuote, Pop, queueVars
  <1> QED
    BY <1>1, <1>2, <1>3 DEF BindInv, IngressTypeOK, SlotsAreDistinct, Consolidate, bindVars

\* Every step of the composition is a step of Core, or none.
LEMMA BindStep == BindInv /\ [IngressNext]_ingressVars => [Next]_vars /\ BindInv'
  <1> SUFFICES ASSUME BindInv, [IngressNext]_ingressVars
               PROVE  [Next]_vars /\ BindInv'
    OBVIOUS
  <1>1. CASE UNCHANGED ingressVars
    <2>1. UNCHANGED vars /\ UNCHANGED <<link, frames, registry, identityToSlot, greeting>>
      BY <1>1 DEF ingressVars, bindVars
    <2>2. TypeOK' /\ venueCount' = venueCount
      BY <2>1, NextType DEF BindInv, IngressTypeOK, vars, queueVars
    <2> QED
      BY <2>1, <2>2 DEF BindInv, IngressTypeOK, SlotsAreDistinct
  <1>2. ASSUME NEW c \in Connection, Handle(c)
        PROVE  [Next]_vars /\ BindInv'
    <2>1. ASSUME NEW instrument, AcceptHello(c, instrument)
          PROVE  [Next]_vars /\ BindInv'
      BY <2>1, Accepted DEF Next
    <2>2. ASSUME \/ \E instrument : RefuseHello(c, instrument)
                 \/ DropEarly(c) \/ HandleData(c) \/ HandleGoodbye(c) \/ HandleNotify(c)
          PROVE  [Next]_vars /\ BindInv'
      BY <2>2, Others DEF Next
    <2> QED
      BY <1>2, <2>1, <2>2 DEF Handle
  <1>3. CASE FinishHello
    BY <1>3, Finished DEF Next
  <1>4. CASE Consolidate
    BY <1>4, Drained DEF Next
  <1> QED
    BY <1>1, <1>2, <1>3, <1>4 DEF IngressNext

\* The bindings are sound at every moment (ZmqCoreIngress::HandlePayload).
THEOREM BindInvHolds == IngressSpec => []BindInv
  BY BindInit, BindStep, PTL DEF IngressSpec

\* Whatever the providers send and in whatever order, two venues never share a
\* slot, and every slot that was handed out has a name (VenueRegistry::Register).
THEOREM SlotsAreDistinctHolds == IngressSpec => []SlotsAreDistinct
  <1>1. BindInv => SlotsAreDistinct
    BY DEF BindInv
  <1> QED
    BY <1>1, BindInvHolds, PTL

\* md_core with its ingress thread implements Core's own specification: no
\* message ever reaches a slot that the registry has not issued.
THEOREM IngressDrivesCore == IngressSpec => CoreSpec
  BY BindInit, BindStep, PTL DEF IngressSpec, CoreSpec, Spec

\* So what subscribers of md_core see is the market view of Core's abstract
\* specification, whatever providers connect, restart and disconnect: every
\* published book is the merge, every published BBO the best of the moment.
THEOREM IngressImplementsView ==
  IngressSpec => ViewSpec /\ []BookMatchesRebuild /\ []BboMatchesRescan /\ []BookIffActive
  BY IngressDrivesCore, CoreImplementsView, BookCorrect, BboCorrect, VenuesCorrect, PTL DEF CoreSpec

---------------------------------------------------------------------------
(* Registration and removal.                                                *)

\* A connection is bound to the slot, and Core has been or is being told.
Enrolled(s) == \E c \in Connection : identityToSlot[c] = s /\ greeting # c

\* Core holds neither a verdict nor a quote of the slot.
Clean(s) ==
  /\ depthHealth[s] = "kNoData" /\ bboHealth[s] = "kNoData"
  /\ \A i \in Instrument : venueQuotes[i][s] = EmptyQuote

\* What the queue of a slot holds: connections of the venue one after the other,
\* each from its registration to its disconnect.  The first message is one of a
\* connection that Core has registered already, unless it is a registration; the
\* last connection has no disconnect as long as it is bound.
QueueInv(s, q) ==
  /\ q # <<>> => (q[1].kind = "registration" <=> s \notin activeVenues)
  /\ \A i \in 2 .. Len(q) : q[i].kind = "registration" <=> q[i - 1].kind = "disconnect"
  /\ Enrolled(s) <=> IF q = <<>> THEN s \in activeVenues ELSE q[Len(q)].kind # "disconnect"
  /\ s >= venueCount => q = <<>>
  /\ s \notin activeVenues => Clean(s)

VenueInv ==
  /\ Alone
  /\ \A c \in Connection : link[c] = "new" => identityToSlot[c] = None
  /\ \A s \in Slot : QueueInv(s, queues[s])

\* A slot whose state a step leaves alone.
LEMMA Kept ==
  ASSUME NEW s \in Slot, QueueInv(s, queues[s]), queues'[s] = queues[s],
         s \in activeVenues' <=> s \in activeVenues,
         Enrolled(s)' <=> Enrolled(s),
         venueCount \in Nat, venueCount' \in Nat, venueCount <= venueCount',
         Clean(s) => Clean(s)'
  PROVE  QueueInv(s, queues[s])'
  <1>1. s \in Nat
    BY Constants DEF Slot
  <1> QED
    BY <1>1 DEF QueueInv

\* Appending to a queue, and dropping its head.
LEMMA Longer ==
  ASSUME NEW q \in Seq(ProviderMessage), NEW m \in ProviderMessage
  PROVE  /\ Append(q, m) \in Seq(ProviderMessage) /\ Len(q) \in Nat
         /\ Append(q, m) # <<>>
         /\ Len(Append(q, m)) = Len(q) + 1
         /\ \A i \in 1 .. Len(q) : Append(q, m)[i] = q[i]
         /\ Append(q, m)[Len(q) + 1] = m
         /\ q # <<>> => Append(q, m)[1] = q[1]
         /\ q = <<>> => Append(q, m)[1] = m /\ Len(q) = 0
  OBVIOUS

LEMMA Shorter ==
  ASSUME NEW q \in Seq(ProviderMessage), q # <<>>
  PROVE  /\ Tail(q) \in Seq(ProviderMessage) /\ Len(q) \in Nat /\ Len(q) > 0
         /\ Len(Tail(q)) = Len(q) - 1
         /\ \A i \in 1 .. Len(q) - 1 : Tail(q)[i] = q[i + 1]
         /\ Head(q) = q[1]
         /\ Len(q) = 1 <=> Tail(q) = <<>>
  <1>1. /\ Tail(q) \in Seq(ProviderMessage) /\ Len(q) \in Nat /\ Len(q) > 0
        /\ Len(Tail(q)) = Len(q) - 1
        /\ \A i \in 1 .. Len(q) - 1 : Tail(q)[i] = q[i + 1]
        /\ Head(q) = q[1]
    OBVIOUS
  <1>2. \A t \in Seq(ProviderMessage) : Len(t) = 0 <=> t = <<>>
    OBVIOUS
  <1>3. Len(Tail(q)) = 0 <=> Tail(q) = <<>>
    BY <1>1, <1>2
  <1> QED
    BY <1>1, <1>3

\* A message that is handed to a slot: a registration exactly if nobody is
\* enrolled for it, and nobody is after a disconnect.
LEMMA Handed ==
  ASSUME NEW s \in Slot, NEW m \in ProviderMessage,
         queues[s] \in Seq(ProviderMessage), QueueInv(s, queues[s]),
         queues'[s] = Append(queues[s], m),
         m.kind = "registration" <=> ~Enrolled(s),
         Enrolled(s)' <=> m.kind # "disconnect",
         venueCount' \in Nat, s < venueCount',
         activeVenues' = activeVenues, Clean(s)' <=> Clean(s)
  PROVE  QueueInv(s, queues[s])'
  <1>1. PICK q, r : q = queues[s] /\ r = queues'[s]
    OBVIOUS
  <1>2. /\ r # <<>> /\ Len(r) = Len(q) + 1 /\ Len(q) \in Nat
        /\ \A i \in 1 .. Len(q) : r[i] = q[i]
        /\ r[Len(q) + 1] = m
        /\ q # <<>> => r[1] = q[1]
        /\ q = <<>> => r[1] = m /\ Len(q) = 0
    BY <1>1, Longer
  <1>3. QueueInv(s, q)
    BY <1>1
  <1>4. r[1].kind = "registration" <=> s \notin activeVenues
    BY <1>2, <1>3 DEF QueueInv
  <1>5. ASSUME NEW i \in 2 .. Len(r)
        PROVE  r[i].kind = "registration" <=> r[i - 1].kind = "disconnect"
    <2>1. CASE i \in 2 .. Len(q)
      <3>1. i \in 1 .. Len(q) /\ i - 1 \in 1 .. Len(q)
        BY <2>1, <1>2
      <3>2. r[i] = q[i] /\ r[i - 1] = q[i - 1]
        BY <3>1, <1>2
      <3> QED
        BY <2>1, <3>2, <1>3 DEF QueueInv
    <2>2. CASE i = Len(q) + 1
      <3>1. i - 1 = Len(q) /\ Len(q) \in 1 .. Len(q) /\ Len(q) # 0
        BY <2>2, <1>2
      <3>2. r[i] = m /\ r[i - 1] = q[Len(q)] /\ q # <<>>
        BY <2>2, <3>1, <1>2
      <3> QED
        BY <3>2, <1>3 DEF QueueInv
    <2> QED
      BY <2>1, <2>2, <1>2
  <1>6. Enrolled(s)' <=> r[Len(r)].kind # "disconnect"
    BY <1>2
  <1>7. ~(s >= venueCount')
    BY Constants DEF Slot
  <1>8. s \notin activeVenues' => Clean(s)'
    BY <1>3 DEF QueueInv
  <1> QED
    BY <1>1, <1>2, <1>4, <1>5, <1>6, <1>7, <1>8 DEF QueueInv

\* A kHello that is accepted: of a new venue, or of one whose earlier connection
\* is over.
LEMMA AcceptedVenue ==
  ASSUME BindInv, VenueInv, Orderly, NEW c \in Connection, NEW instrument, AcceptHello(c, instrument)
  PROVE  VenueInv'
  <1> DEFINE name == VenueOf[c]
             n == registry'[name]
  <1>0. /\ venueCount \in 0 .. MaxVenues /\ registry \in [Venue -> Slot \cup {None}]
        /\ identityToSlot \in [Connection -> Slot \cup {None}]
        /\ link \in [Connection -> {"new", "open", "gone"}]
    BY DEF BindInv, IngressTypeOK, TypeOK
  <1>1. /\ name \in Venue /\ link[c] = "new" /\ greeting = None /\ greeting' = c
        /\ identityToSlot' = [identityToSlot EXCEPT ![c] = n]
        /\ link' = [link EXCEPT ![c] = "open"]
    BY DEF AcceptHello, Receive
  <1>2. identityToSlot[c] = None
    BY <1>1 DEF VenueInv
  <1>3. /\ n # None
        /\ venueCount' \in Nat /\ venueCount <= venueCount'
        /\ UNCHANGED <<queues, activeVenues, depthHealth, bboHealth, venueQuotes>>
    <2>1. CASE RegisterVenueName /\ registry' = [registry EXCEPT ![name] = venueCount]
      BY <2>1, <1>0, <1>1, Constants DEF RegisterVenueName, Slot, depthVars, bboVars
    <2>2. CASE registry[name] # None /\ UNCHANGED <<vars, registry>>
      BY <2>2, <1>0, Constants DEF vars, queueVars, depthVars, bboVars
    <2> QED
      BY <2>1, <2>2 DEF AcceptHello
  <1> HIDE DEF name, n
  <1>4. \A d \in Connection : d # c => identityToSlot[d] # n /\ identityToSlot'[d] = identityToSlot[d]
    BY <1>0, <1>1, <1>3 DEF Orderly, Alone
  <1>5. \A d \in Connection : link'[d] = "new" => identityToSlot'[d] = None
    BY <1>0, <1>1 DEF VenueInv
  <1>6. ASSUME NEW s \in Slot
        PROVE  QueueInv(s, queues[s])'
    <2>1. Enrolled(s)' <=> Enrolled(s)
      <3>1. ~(identityToSlot[c] = s) /\ greeting' = c /\ greeting \notin Connection
        BY <1>1, <1>2, Constants
      <3> QED
        BY <3>1, <1>4 DEF Enrolled
    <2>2. Clean(s) => Clean(s)'
      BY <1>3 DEF Clean
    <2>3. QueueInv(s, queues[s])
      BY DEF VenueInv
    <2> QED
      BY <2>1, <2>2, <2>3, <1>0, <1>3, Constants, Kept
  <1> QED
    BY <1>5, <1>6 DEF VenueInv, Orderly

\* The second half of a kHello: the registration is handed over.
LEMMA FinishedVenue ==
  ASSUME BindInv, VenueInv, Orderly, FinishHello
  PROVE  VenueInv'
  <1> DEFINE g == greeting
             n == identityToSlot[greeting]
  <1>0. /\ venueCount \in 0 .. MaxVenues /\ queues \in [Slot -> Seq(ProviderMessage)]
        /\ identityToSlot \in [Connection -> Slot \cup {None}]
    BY DEF BindInv, IngressTypeOK, TypeOK
  <1>1. /\ g \in Connection /\ n \in Slot /\ n < venueCount /\ greeting' = None /\ None \notin Connection
    BY <1>0, Constants DEF BindInv, IngressTypeOK, FinishHello
  <1>2. /\ queues' = [queues EXCEPT ![n] = Append(queues[n], VenueRegistration)]
        /\ venueCount' = venueCount
    BY DEF FinishHello, EnqueueRegistration, TryEnqueueBounded, NoteOverflow, queueVars, Orderly, Told
  <1>3. /\ UNCHANGED <<activeVenues, depthHealth, bboHealth, venueQuotes>>
        /\ UNCHANGED <<link, registry, identityToSlot>>
    BY DEF FinishHello, coreVars, depthVars, bboVars
  <1>4. \A d \in Connection : identityToSlot[d] = n => d = g
    BY <1>1, Constants DEF VenueInv, Alone
  <1> HIDE DEF g, n
  <1>5. ASSUME NEW s \in Slot
        PROVE  QueueInv(s, queues[s])'
    <2>0. QueueInv(s, queues[s]) /\ queues[s] \in Seq(ProviderMessage)
      BY <1>0 DEF VenueInv
    <2>1. Clean(s) <=> Clean(s)'
      BY <1>3 DEF Clean
    <2>2. CASE s = n
      <3>1. ~Enrolled(s) /\ Enrolled(s)'
        BY <1>1, <1>3, <1>4, <2>2 DEF Enrolled, g, n
      <3>2. queues'[s] = Append(queues[s], VenueRegistration) /\ s < venueCount' /\ venueCount' \in Nat
        BY <1>0, <1>1, <1>2, <2>2
      <3>3. VenueRegistration \in ProviderMessage /\ VenueRegistration.kind = "registration"
        BY DEF ProviderMessage, VenueRegistration
      <3> QED
        BY <2>0, <2>1, <3>1, <3>2, <3>3, <1>3, Handed
    <2>3. CASE s # n
      <3>1. Enrolled(s)' <=> Enrolled(s)
        BY <2>3, <1>1, <1>3 DEF Enrolled, g, n
      <3>2. queues'[s] = queues[s]
        BY <2>3, <1>0, <1>2
      <3> QED
        BY <2>0, <2>1, <3>1, <3>2, <1>0, <1>2, <1>3, Constants, Kept
    <2> QED
      BY <2>2, <2>3
  <1> QED
    BY <1>3, <1>5 DEF VenueInv, Orderly

\* Frames that change neither a binding nor Core, data that meets a full queue
\* among them.
LEMMA IgnoredVenue ==
  ASSUME BindInv, VenueInv, Orderly, NEW c \in Connection,
         link' = [link EXCEPT ![c] = "open"],
         UNCHANGED <<identityToSlot, greeting>>,
         UNCHANGED <<venueCount, queues, activeVenues, depthHealth, bboHealth, venueQuotes>>
  PROVE  VenueInv'
  <1>1. link \in [Connection -> {"new", "open", "gone"}] /\ venueCount \in Nat
    BY Constants DEF BindInv, IngressTypeOK, TypeOK
  <1>2. \A d \in Connection : link'[d] = "new" => identityToSlot'[d] = None
    <2>1. \A d \in Connection : link'[d] = "new" => link[d] = "new"
      BY <1>1
    <2> QED
      BY <2>1 DEF VenueInv
  <1>3. ASSUME NEW s \in Slot
        PROVE  QueueInv(s, queues[s])'
    <2>1. (Enrolled(s)' <=> Enrolled(s)) /\ (Clean(s)' <=> Clean(s)) /\ QueueInv(s, queues[s])
      BY DEF Enrolled, Clean, VenueInv
    <2> QED
      BY <2>1, <1>1, Kept
  <1> QED
    BY <1>2, <1>3 DEF VenueInv, Orderly

\* Data of a connection that is enrolled.
LEMMA DataVenue ==
  ASSUME BindInv, VenueInv, Orderly, NEW c \in Connection, HandleData(c)
  PROVE  VenueInv'
  <1> DEFINE n == identityToSlot[c]
  <1>0. /\ venueCount \in 0 .. MaxVenues /\ queues \in [Slot -> Seq(ProviderMessage)]
        /\ identityToSlot \in [Connection -> Slot \cup {None}]
        /\ link \in [Connection -> {"new", "open", "gone"}]
    BY DEF BindInv, IngressTypeOK, TypeOK
  <1>1. /\ n \in Slot /\ n < venueCount /\ greeting = None /\ None \notin Connection
    BY <1>0, Constants DEF BindInv, HandleData, Receive
  <1>2. /\ UNCHANGED <<activeVenues, depthHealth, bboHealth, venueQuotes>>
        /\ UNCHANGED <<registry, identityToSlot, greeting>>
        /\ link' = [link EXCEPT ![c] = "open"]
    BY DEF HandleData, Receive, coreVars, depthVars, bboVars, bindVars
  <1>3. CASE NoteOverflow(n)
    <2>1. queues' = queues /\ venueCount' = venueCount
      BY <1>3 DEF NoteOverflow, queueVars
    <2> QED
      BY <2>1, <1>2, IgnoredVenue
  <1>4. ASSUME NEW m \in UpdateInput \cup QuoteInput \cup HealthInput, TryEnqueueBounded(n, m)
        PROVE  VenueInv'
    <2>1. m \in ProviderMessage /\ m.kind \notin {"registration", "disconnect"}
      BY CoreAssumption DEF ProviderMessage, BookUpdate, QuoteMessage, VenueHealthEvent
    <2>2. /\ queues' = [queues EXCEPT ![n] = Append(queues[n], m)]
          /\ venueCount' = venueCount
      BY <1>4 DEF TryEnqueueBounded
    <2>3. \A d \in Connection : link'[d] = "new" => identityToSlot'[d] = None
      <3>1. \A d \in Connection : link'[d] = "new" => link[d] = "new"
        BY <1>0, <1>2
      <3> QED
        BY <1>2, <3>1 DEF VenueInv
    <2>4. n \in Slot /\ Enrolled(n)
      BY <1>1 DEF Enrolled
    <2> HIDE DEF n
    <2>5. ASSUME NEW s \in Slot
          PROVE  QueueInv(s, queues[s])'
      <3>0. QueueInv(s, queues[s]) /\ queues[s] \in Seq(ProviderMessage)
        BY <1>0 DEF VenueInv
      <3>1. (Enrolled(s)' <=> Enrolled(s)) /\ (Clean(s)' <=> Clean(s))
        BY <1>2 DEF Enrolled, Clean
      <3>2. CASE s = n
        <4>1. queues'[s] = Append(queues[s], m) /\ s < venueCount' /\ venueCount' \in Nat
          BY <3>2, <1>0, <1>1, <2>2
        <4> QED
          BY <3>0, <3>1, <3>2, <4>1, <2>1, <2>4, <1>2, Handed
      <3>3. CASE s # n
        <4>1. queues'[s] = queues[s]
          BY <3>3, <1>0, <2>2
        <4> QED
          BY <3>0, <3>1, <4>1, <1>0, <1>2, <2>2, Constants, Kept
      <3> QED
        BY <3>2, <3>3
    <2> QED
      BY <2>3, <2>5 DEF VenueInv, Orderly
  <1>5. NoteOverflow(n) \/ \E m \in UpdateInput \cup QuoteInput \cup HealthInput : TryEnqueueBounded(n, m)
    BY DEF HandleData, EnqueueUpdate, EnqueueQuote, EnqueueHealth
  <1> QED
    BY <1>3, <1>4, <1>5

\* The end of a connection: the disconnect is handed over.
LEMMA NotifiedVenue ==
  ASSUME BindInv, VenueInv, Orderly, NEW c \in Connection, HandleNotify(c)
  PROVE  VenueInv'
  <1> DEFINE n == identityToSlot[c]
  <1>0. /\ venueCount \in 0 .. MaxVenues /\ queues \in [Slot -> Seq(ProviderMessage)]
        /\ identityToSlot \in [Connection -> Slot \cup {None}]
        /\ link \in [Connection -> {"new", "open", "gone"}]
    BY DEF BindInv, IngressTypeOK, TypeOK
  <1>1. /\ UNCHANGED <<activeVenues, depthHealth, bboHealth, venueQuotes>>
        /\ UNCHANGED <<registry, greeting>> /\ greeting = None /\ None \notin Connection
        /\ link' = [link EXCEPT ![c] = "gone"]
        /\ identityToSlot' = [identityToSlot EXCEPT ![c] = None]
    BY Constants DEF HandleNotify, Receive, coreVars, depthVars, bboVars
  <1>2. \A d \in Connection : link'[d] = "new" => identityToSlot'[d] = None
    BY <1>0, <1>1 DEF VenueInv
  <1>3. ASSUME NEW s \in Slot, s # n
        PROVE  /\ Enrolled(s)' <=> Enrolled(s)
               /\ Clean(s)' <=> Clean(s)
    <2>1. s # None
      BY Constants
    <2> QED
      BY <1>0, <1>1, <1>3, <2>1 DEF Enrolled, Clean
  <1>4. CASE n = None
    <2>1. queues' = queues /\ venueCount' = venueCount
      BY <1>4 DEF HandleNotify, queueVars
    <2>2. ASSUME NEW s \in Slot
          PROVE  QueueInv(s, queues[s])'
      <3>1. s # n /\ QueueInv(s, queues[s])
        BY <1>4, Constants DEF VenueInv
      <3> QED
        BY <1>0, <1>1, <1>3, <2>1, <3>1, Constants, Kept
    <2> QED
      BY <1>2, <2>2 DEF VenueInv, Orderly
  <1>5. CASE n # None
    <2>1. n \in Slot /\ n < venueCount
      BY <1>0, <1>5 DEF BindInv
    <2>2. Told
      BY <1>0, <1>1, <1>5 DEF Orderly
    <2>3. /\ queues' = [queues EXCEPT ![n] = Append(queues[n], VenueDisconnect)]
          /\ venueCount' = venueCount
      BY <1>5, <2>2 DEF HandleNotify, EnqueueDisconnect, TryEnqueueBounded, NoteOverflow, queueVars, Told
    <2>4. \A d \in Connection : identityToSlot[d] = n => d = c
      BY <1>5 DEF VenueInv, Alone
    <2>5. Enrolled(n)
      BY <1>1 DEF Enrolled
    <2> HIDE DEF n
    <2>6. ASSUME NEW s \in Slot
          PROVE  QueueInv(s, queues[s])'
      <3>0. QueueInv(s, queues[s]) /\ queues[s] \in Seq(ProviderMessage)
        BY <1>0 DEF VenueInv
      <3>1. CASE s = n
        <4>1. queues'[s] = Append(queues[s], VenueDisconnect) /\ s < venueCount' /\ venueCount' \in Nat
          BY <3>1, <1>0, <2>1, <2>3
        <4>2. Enrolled(s) /\ ~Enrolled(s)'
          <5>1. \A d \in Connection : identityToSlot'[d] # s
            BY <3>1, <1>0, <1>1, <1>5, <2>4
          <5> QED
            BY <2>5, <3>1, <5>1 DEF Enrolled
        <4>3. VenueDisconnect \in ProviderMessage /\ VenueDisconnect.kind = "disconnect"
          BY DEF ProviderMessage, VenueDisconnect
        <4>4. Clean(s)' <=> Clean(s)
          BY <1>1 DEF Clean
        <4> QED
          BY <3>0, <4>1, <4>2, <4>3, <4>4, <1>1, Handed
      <3>2. CASE s # n
        <4>1. queues'[s] = queues[s]
          BY <3>2, <1>0, <2>3
        <4>2. (Enrolled(s)' <=> Enrolled(s)) /\ (Clean(s)' <=> Clean(s))
          BY <3>2, <1>3 DEF n
        <4> QED
          BY <3>0, <4>1, <4>2, <1>0, <1>1, <2>3, Constants, Kept
      <3> QED
        BY <3>1, <3>2
    <2> QED
      BY <1>2, <2>6 DEF VenueInv, Orderly
  <1> QED
    BY <1>4, <1>5

\* What a step of the consolidator does to the queues and the venues: nothing,
\* or it takes the first message of a slot and leaves the other slots alone.
LEMMA DrainEffect ==
  ASSUME TypeOK, Drain
  PROVE  \/ /\ queues' = queues /\ activeVenues' = activeVenues
            /\ \A s \in Slot : Clean(s)' <=> Clean(s)
         \/ /\ index \in Slot /\ queues[index] # <<>>
            /\ queues' = [queues EXCEPT ![index] = Tail(queues[index])]
            /\ \A s \in Slot \ {index} :
                 (s \in activeVenues' <=> s \in activeVenues) /\ (Clean(s)' <=> Clean(s))
            /\ \/ /\ Head(queues[index]).kind \notin {"registration", "disconnect"}
                  /\ activeVenues' = activeVenues
               \/ /\ Head(queues[index]).kind = "registration"
                  /\ index \in activeVenues'
               \/ /\ Head(queues[index]).kind = "disconnect"
                  /\ index \in activeVenues /\ index \notin activeVenues' /\ \A s \in {index} : Clean(s)'
               \/ /\ Head(queues[index]).kind = "disconnect"
                  /\ index \notin activeVenues
  <1> DEFINE Popped == /\ index \in Slot /\ queues[index] # <<>>
                       /\ queues' = [queues EXCEPT ![index] = Tail(queues[index])]
             Elsewhere == \A s \in Slot \ {index} :
               (s \in activeVenues' <=> s \in activeVenues) /\ (Clean(s)' <=> Clean(s))
  <1>1. ASSUME NEW kind, Pop(kind)
        PROVE  Popped /\ Head(queues[index]).kind = kind
    BY <1>1, PopType DEF Pop, Front
  <1>2. /\ activeVenues \subseteq Slot
        /\ depthHealth \in [Slot -> VenueHealth] /\ bboHealth \in [Slot -> VenueHealth]
        /\ venueQuotes \in [Instrument -> [Slot -> BboQuote]]
    BY DEF TypeOK
  <1>3. CASE BeginPass \/ NextSlot
    BY <1>3 DEF BeginPass, NextSlot, queueVars, depthVars, bboVars, Clean
  <1>4. CASE DropUpdate \/ DropQuote \/ ProcessHealthUnchanged
    <2>1. Popped /\ Head(queues[index]).kind \in {"update", "quote", "health"}
      BY <1>1, <1>4 DEF DropUpdate, DropQuote, ProcessHealthUnchanged
    <2>2. UNCHANGED <<activeVenues, depthHealth, bboHealth, venueQuotes>>
      BY <1>4 DEF DropUpdate, DropQuote, ProcessHealthUnchanged, depthVars, bboVars
    <2> QED
      BY <2>1, <2>2 DEF Clean
  <1>5. ASSUME NEW i \in Instrument,
               ProcessUpdateRebuild(i) \/ ProcessUpdateRepair(i) \/ ProcessUpdateExcluded(i)
        PROVE  /\ Popped /\ Elsewhere /\ activeVenues' = activeVenues
               /\ Head(queues[index]).kind = "update"
    <2>1. Popped /\ Head(queues[index]).kind = "update"
      BY <1>1, <1>5 DEF ProcessUpdateRebuild, ProcessUpdateRepair, ProcessUpdateExcluded, AcceptUpdate
    <2>2. UNCHANGED <<activeVenues, depthHealth, bboHealth, venueQuotes>>
      BY <1>5 DEF ProcessUpdateRebuild, ProcessUpdateRepair, ProcessUpdateExcluded, AcceptUpdate, bboVars
    <2> QED
      BY <2>1, <2>2 DEF Clean
  <1>6. ASSUME NEW i \in Instrument, ProcessQuoteRescan(i) \/ ProcessQuoteUpdate(i)
        PROVE  /\ Popped /\ Elsewhere /\ activeVenues' = activeVenues
               /\ Head(queues[index]).kind = "quote"
    <2>1. Popped /\ Head(queues[index]).kind = "quote"
      BY <1>1, <1>6 DEF ProcessQuoteRescan, ProcessQuoteUpdate, AcceptQuote
    <2>2. /\ UNCHANGED <<activeVenues, depthHealth, bboHealth>>
          /\ venueQuotes' = [venueQuotes EXCEPT ![i][index] = Front.quote]
      BY <1>6 DEF ProcessQuoteRescan, ProcessQuoteUpdate, AcceptQuote, depthVars
    <2>3. \A s \in Slot \ {index}, j \in Instrument : venueQuotes'[j][s] = venueQuotes[j][s]
      BY <1>2, <2>2
    <2> QED
      BY <2>1, <2>2, <2>3 DEF Clean
  <1>7. CASE ProcessDepthHealth \/ ProcessBboHealth
    <2>1. Popped /\ Head(queues[index]).kind = "health"
      BY <1>1, <1>7 DEF ProcessDepthHealth, ProcessBboHealth
    <2>2. /\ UNCHANGED <<activeVenues, venueQuotes>>
          /\ \A s \in Slot \ {index} : depthHealth'[s] = depthHealth[s] /\ bboHealth'[s] = bboHealth[s]
      BY <1>2, <1>7 DEF ProcessDepthHealth, ProcessBboHealth, depthVars, bboVars
    <2> QED
      BY <2>1, <2>2 DEF Clean
  <1>8. CASE ProcessRegistration
    <2>1. Popped /\ Head(queues[index]).kind = "registration"
      BY <1>1, <1>8 DEF ProcessRegistration
    <2>2. UNCHANGED <<depthHealth, bboHealth, venueQuotes>> /\ activeVenues' = activeVenues \cup {index}
      BY <1>8 DEF ProcessRegistration, bboVars
    <2> QED
      BY <2>1, <2>2 DEF Clean
  <1>9. CASE RemoveInactive
    <2>1. Popped /\ Head(queues[index]).kind = "disconnect" /\ index \notin activeVenues
      BY <1>1, <1>9 DEF RemoveInactive
    <2>2. UNCHANGED <<activeVenues, depthHealth, bboHealth, venueQuotes>>
      BY <1>9 DEF RemoveInactive, depthVars, bboVars
    <2> QED
      BY <2>1, <2>2 DEF Clean
  <1>10. CASE RemoveVenue
    <2>1. Popped /\ Head(queues[index]).kind = "disconnect" /\ index \in activeVenues
      BY <1>1, <1>10 DEF RemoveVenue
    <2>2. /\ activeVenues' = activeVenues \ {index}
          /\ venueQuotes' = [i \in Instrument |-> [venueQuotes[i] EXCEPT ![index] = EmptyQuote]]
          /\ depthHealth' = [depthHealth EXCEPT ![index] = "kNoData"]
          /\ bboHealth' = [bboHealth EXCEPT ![index] = "kNoData"]
      BY <1>10 DEF RemoveVenue
    <2>3. \A s \in Slot \ {index}, i \in Instrument : venueQuotes'[i][s] = venueQuotes[i][s]
      BY <1>2, <2>2
    <2>4. \A i \in Instrument : venueQuotes'[i][index] = EmptyQuote
      BY <1>2, <2>1, <2>2
    <2>5. ASSUME NEW s \in {index}
          PROVE  Clean(s)'
      BY <1>2, <2>1, <2>2, <2>4 DEF Clean
    <2>6. Elsewhere
      BY <1>2, <2>2, <2>3 DEF Clean
    <2> QED
      BY <2>1, <2>2, <2>5, <2>6
  <1> QED
    BY <1>3, <1>4, <1>5, <1>6, <1>7, <1>8, <1>9, <1>10 DEF Drain

\* A step of the consolidator.
LEMMA DrainedVenue ==
  ASSUME BindInv, VenueInv, Orderly, Consolidate
  PROVE  VenueInv'
  <1>0. /\ TypeOK /\ Drain /\ venueCount \in Nat /\ venueCount' = venueCount
        /\ queues \in [Slot -> Seq(ProviderMessage)]
        /\ UNCHANGED <<link, registry, identityToSlot, greeting>>
    BY Drained, Constants DEF BindInv, IngressTypeOK, TypeOK, Consolidate, bindVars
  <1>1. Alone' /\ \A c \in Connection : link'[c] = "new" => identityToSlot'[c] = None
    BY <1>0 DEF VenueInv, Orderly
  <1>2. ASSUME NEW s \in Slot
        PROVE  (Enrolled(s)' <=> Enrolled(s)) /\ QueueInv(s, queues[s])
    BY <1>0 DEF Enrolled, VenueInv
  <1>3. CASE /\ queues' = queues /\ activeVenues' = activeVenues
             /\ \A s \in Slot : Clean(s)' <=> Clean(s)
    <2>1. ASSUME NEW s \in Slot
          PROVE  QueueInv(s, queues[s])'
      BY <1>0, <1>2, <1>3, Kept
    <2> QED
      BY <1>1, <2>1 DEF VenueInv
  <1>4. CASE /\ index \in Slot /\ queues[index] # <<>>
             /\ queues' = [queues EXCEPT ![index] = Tail(queues[index])]
             /\ \A s \in Slot \ {index} :
                  (s \in activeVenues' <=> s \in activeVenues) /\ (Clean(s)' <=> Clean(s))
             /\ \/ /\ Head(queues[index]).kind \notin {"registration", "disconnect"}
                   /\ activeVenues' = activeVenues
                \/ /\ Head(queues[index]).kind = "registration"
                   /\ index \in activeVenues'
                \/ /\ Head(queues[index]).kind = "disconnect"
                   /\ index \in activeVenues /\ index \notin activeVenues' /\ \A s \in {index} : Clean(s)'
                \/ /\ Head(queues[index]).kind = "disconnect"
                   /\ index \notin activeVenues
    <2>1. ASSUME NEW s \in Slot, s # index
          PROVE  QueueInv(s, queues[s])'
      <3>1. queues'[s] = queues[s]
        BY <1>0, <1>4, <2>1
      <3> QED
        BY <3>1, <1>0, <1>2, <1>4, <2>1, Kept
    <2>2. ASSUME NEW s \in Slot, s = index
          PROVE  QueueInv(s, queues[s])'
      <3>1. PICK q, r : q = queues[s] /\ r = queues'[s]
        OBVIOUS
      <3>2. /\ q \in Seq(ProviderMessage) /\ q # <<>> /\ r = Tail(q) /\ QueueInv(s, q)
        BY <1>0, <1>2, <1>4, <2>2, <3>1
      <3>3. /\ r \in Seq(ProviderMessage) /\ Len(q) \in Nat /\ Len(q) > 0
            /\ Len(r) = Len(q) - 1
            /\ \A i \in 1 .. Len(q) - 1 : r[i] = q[i + 1]
            /\ Head(q) = q[1]
            /\ Len(q) = 1 <=> r = <<>>
        BY <3>2, Shorter
      <3>4. s \in activeVenues' <=> q[1].kind # "disconnect"
        <4>1. q[1].kind = "registration" <=> s \notin activeVenues
          BY <3>2 DEF QueueInv
        <4> QED
          BY <4>1, <3>1, <3>3, <1>4, <2>2
      <3>5. r # <<>> => (r[1].kind = "registration" <=> s \notin activeVenues')
        <4>1. SUFFICES ASSUME r # <<>>
                       PROVE  r[1].kind = "registration" <=> q[1].kind = "disconnect"
          BY <3>4
        <4>2. 1 \in 1 .. Len(q) - 1 /\ 2 \in 2 .. Len(q)
          BY <4>1, <3>3
        <4>3. r[1] = q[2] /\ (q[2].kind = "registration" <=> q[1].kind = "disconnect")
          BY <4>2, <3>2, <3>3 DEF QueueInv
        <4> QED
          BY <4>3
      <3>6. ASSUME NEW i \in 2 .. Len(r)
            PROVE  r[i].kind = "registration" <=> r[i - 1].kind = "disconnect"
        <4>1. /\ i \in 1 .. Len(q) - 1 /\ i - 1 \in 1 .. Len(q) - 1
              /\ (i - 1) + 1 = i /\ (i + 1) - 1 = i /\ i + 1 \in 2 .. Len(q)
          BY <3>3
        <4>2. r[i] = q[i + 1] /\ r[i - 1] = q[i]
          BY <4>1, <3>3
        <4> QED
          BY <4>1, <4>2, <3>2 DEF QueueInv
      <3>7. Enrolled(s) <=> IF r = <<>> THEN s \in activeVenues' ELSE r[Len(r)].kind # "disconnect"
        <4>1. Enrolled(s) <=> q[Len(q)].kind # "disconnect"
          BY <3>2 DEF QueueInv
        <4>2. CASE r = <<>>
          BY <4>1, <4>2, <3>3, <3>4
        <4>3. CASE r # <<>>
          <5>1. Len(r) \in 1 .. Len(q) - 1 /\ Len(r) + 1 = Len(q)
            BY <4>3, <3>3
          <5>2. r[Len(r)] = q[Len(q)]
            BY <5>1, <3>3
          <5> QED
            BY <4>1, <4>3, <5>2
        <4> QED
          BY <4>2, <4>3
      <3>8. ~(s >= venueCount')
        BY <3>2, <1>0 DEF QueueInv
      <3>9. s \notin activeVenues' => Clean(s)'
        <4>1. SUFFICES ASSUME s \notin activeVenues'
                       PROVE  Clean(s)'
          OBVIOUS
        <4>2. q[1].kind = "disconnect" /\ s \in activeVenues
          BY <4>1, <3>2, <3>4 DEF QueueInv
        <4> QED
          BY <4>2, <3>1, <3>3, <1>4, <2>2
      <3> QED
        BY <1>2, <3>1, <3>5, <3>6, <3>7, <3>8, <3>9 DEF QueueInv
    <2> QED
      BY <1>1, <2>1, <2>2 DEF VenueInv
  <1> QED
    BY <1>0, <1>3, <1>4, DrainEffect

\* Every step of an orderly environment keeps it.
LEMMA VenueStep == BindInv /\ VenueInv /\ [IngressNext /\ Orderly]_ingressVars => VenueInv'
  <1> SUFFICES ASSUME BindInv, VenueInv, [IngressNext /\ Orderly]_ingressVars
               PROVE  VenueInv'
    OBVIOUS
  <1>1. CASE UNCHANGED ingressVars
    BY <1>1 DEF ingressVars, bindVars, vars, queueVars, depthVars, bboVars, VenueInv, Alone,
       QueueInv, Enrolled, Clean
  <1>2. ASSUME Orderly, NEW c \in Connection, Handle(c)
        PROVE  VenueInv'
    <2>1. ASSUME (\E instrument : RefuseHello(c, instrument)) \/ DropEarly(c) \/ HandleGoodbye(c)
          PROVE  VenueInv'
      BY <1>2, <2>1, IgnoredVenue DEF RefuseHello, DropEarly, HandleGoodbye, Receive, bindVars,
         vars, queueVars, depthVars, bboVars
    <2> QED
      BY <1>2, <2>1, AcceptedVenue, DataVenue, NotifiedVenue DEF Handle
  <1>3. ASSUME Orderly, FinishHello
        PROVE  VenueInv'
    BY <1>3, FinishedVenue
  <1>4. ASSUME Orderly, Consolidate
        PROVE  VenueInv'
    BY <1>4, DrainedVenue
  <1> QED
    BY <1>1, <1>2, <1>3, <1>4 DEF IngressNext

\* Venues come, go and come back on new connections, in any number and however
\* far the consolidator is behind, and full queues swallow data: as long as the
\* end of a connection is noticed before its successor's kHello and neither a
\* registration nor a disconnect is refused, every queue holds the connections
\* of its venue one after the other and Core's state fits what is still queued.
THEOREM VenueInvHolds == OrderlySpec => []VenueInv
  <1>1. IngressInit => VenueInv
    <2> SUFFICES ASSUME IngressInit
                 PROVE  VenueInv
      OBVIOUS
    <2>1. Alone /\ \A c \in Connection : link[c] = "new" => identityToSlot[c] = None
      BY DEF IngressInit, Alone
    <2>2. ASSUME NEW s \in Slot
          PROVE  QueueInv(s, queues[s])
      <3>1. queues[s] = <<>> /\ Len(queues[s]) = 0 /\ activeVenues = {} /\ Clean(s)
        BY DEF IngressInit, Init, Clean
      <3>2. ~Enrolled(s)
        BY Constants DEF IngressInit, Enrolled
      <3> QED
        BY <3>1, <3>2 DEF QueueInv
    <2> QED
      BY <2>1, <2>2 DEF VenueInv
  <1>2. IngressInit => BindInv
    BY BindInit
  <1>3. BindInv /\ [IngressNext /\ Orderly]_ingressVars => BindInv'
    BY BindStep
  <1> QED
    BY <1>1, <1>2, <1>3, VenueStep, PTL DEF OrderlySpec

\* A connection is what makes its venue active: once a slot's queue has been
\* drained its venue is active exactly if a connection is bound to it, however
\* often venues reconnect and whatever data full queues swallowed, for every
\* number of venues, connections and frames and every capacity.  A kHello that
\* overtakes the end of its predecessor (IngressRestart.cfg) or a refused
\* disconnect (IngressOverflow.cfg) breaks it.
THEOREM BoundIffActiveHolds == OrderlySpec => []BoundIffActive
  <1>1. VenueInv => BoundIffActive
    <2> SUFFICES ASSUME VenueInv, NEW s \in Slot, queues[s] = <<>>, greeting = None
                 PROVE  s \in activeVenues <=> \E c \in Connection : identityToSlot[c] = s
      BY DEF BoundIffActive
    <2>1. Enrolled(s) <=> \E c \in Connection : identityToSlot[c] = s
      BY Constants DEF Enrolled
    <2>2. QueueInv(s, queues[s])
      BY DEF VenueInv
    <2> QED
      BY <2>1, <2>2 DEF QueueInv
  <1> QED
    BY <1>1, VenueInvHolds, PTL

\* Under the same conditions Core keeps no quote and no verdict of a venue that
\* is gone, neither for a rescan or rebuild to admit nor for the venue's next
\* connection to inherit (RemoveVenue, ProcessQuote, ProcessHealth).  A kHello
\* that overtakes the end of its predecessor breaks it (IngressLate.cfg).
THEOREM NothingOfTheGoneHolds == OrderlySpec => []NothingOfTheGone
  <1>1. VenueInv => NothingOfTheGone
    BY DEF VenueInv, QueueInv, Clean, NothingOfTheGone
  <1> QED
    BY <1>1, VenueInvHolds, PTL

===========================================================================
