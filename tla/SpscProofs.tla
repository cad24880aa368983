---------------------------- MODULE SpscProofs ----------------------------
(***************************************************************************)
(* Proofs about the provider queue, for every capacity, word size, number  *)
(* of attempts and set of messages: its two threads never touch one cell   *)
(* at the same time, and together they implement a bounded first-in        *)
(* first-out queue.                                                        *)
(***************************************************************************)
EXTENDS SpscQueue, Integers, TLAPS

USE DEF vars, producerVars, consumerVars

---------------------------------------------------------------------------
(* Cursor arithmetic: after these lemmas no proof looks inside Cell,        *)
(* Distance or Advance again.                                               *)

\* A division's remainder is determined by any way of writing the number as
\* a multiple and a rest.
LEMMA ModUnique ==
  ASSUME NEW b \in Nat \ {0}, NEW x \in Nat, NEW q \in Nat, NEW r \in 0 .. b - 1, x = (b * q) + r
  PROVE  x % b = r
  BY SMT

\* Every number is a multiple and a rest.
LEMMA ModExists ==
  ASSUME NEW b \in Nat \ {0}, NEW x \in Nat
  PROVE  /\ x % b \in 0 .. b - 1
         /\ \E q \in Nat : x = (b * q) + (x % b)
  <1>1. x % b \in 0 .. b - 1
    BY SMT
  <1>2. x \div b \in Nat /\ x = (b * (x \div b)) + (x % b)
    BY SMT
  <1> QED
    BY <1>1, <1>2

\* Adding a multiple leaves the remainder alone.
LEMMA ModShift ==
  ASSUME NEW b \in Nat \ {0}, NEW x \in Nat, NEW m \in Nat
  PROVE  (x + (b * m)) % b = x % b
  <1>1. PICK q \in Nat : x = (b * q) + (x % b)
    BY ModExists
  <1>2. x + (b * m) = (b * (q + m)) + (x % b)
    BY <1>1
  <1>3. q + m \in Nat /\ x + (b * m) \in Nat /\ x % b \in 0 .. b - 1
    BY ModExists
  <1> QED
    BY <1>2, <1>3, ModUnique

Cursor == 0 .. Wrap - 1

\* How far apart two cursors are, with and without a wrap between them.
LEMMA DistanceIs ==
  ASSUME NEW from \in Cursor, NEW to \in Cursor
  PROVE  Distance(from, to) = IF from <= to THEN to - from ELSE (to + Wrap) - from
  <1> USE SpscQueueAssumption DEF Cursor
  <1>1. CASE from <= to
    <2>1. (to + Wrap) - from = (Wrap * 1) + (to - from) /\ to - from \in 0 .. Wrap - 1
      BY <1>1
    <2> QED
      BY <1>1, <2>1, ModUnique DEF Distance
  <1>2. CASE from > to
    <2>1. (to + Wrap) - from = (Wrap * 0) + ((to + Wrap) - from) /\ (to + Wrap) - from \in 0 .. Wrap - 1
      BY <1>2
    <2> QED
      BY <1>2, <2>1, ModUnique DEF Distance
  <1> QED
    BY <1>1, <1>2

\* The cursor after this one.
LEMMA AdvanceIs ==
  ASSUME NEW cursor \in Cursor
  PROVE  /\ Advance(cursor) \in Cursor
         /\ Advance(cursor) = IF cursor + 1 = Wrap THEN 0 ELSE cursor + 1
  BY SpscQueueAssumption DEF Advance, Cursor

\* A cursor and the cursor one wrap later address the same cell, because the
\* capacity divides the word.
LEMMA CellWraps ==
  ASSUME NEW x \in Nat
  PROVE  Cell(x + Wrap) = Cell(x)
  <1>1. PICK m \in Nat : Wrap = (Capacity * m) + (Wrap % Capacity)
    BY ModExists, SpscQueueAssumption
  <1>2. Wrap = Capacity * m
    BY <1>1, SpscQueueAssumption
  <1> QED
    BY <1>2, ModShift, SpscQueueAssumption DEF Cell

\* Two cursors less than a ring apart address two cells.
LEMMA CellsApart ==
  ASSUME NEW x \in Nat, NEW y \in Nat, x < y, y < x + Capacity
  PROVE  Cell(x) # Cell(y)
  <1> USE SpscQueueAssumption
  <1>0. SUFFICES ASSUME Cell(x) = Cell(y) PROVE FALSE
    OBVIOUS
  <1>1. PICK p \in Nat : x = (Capacity * p) + Cell(x)
    BY ModExists DEF Cell
  <1>2. PICK q \in Nat : y = (Capacity * q) + Cell(y)
    BY ModExists DEF Cell
  <1>3. Cell(x) \in Nat
    BY ModExists DEF Cell
  <1>4. y - x = Capacity * (q - p)
    BY <1>0, <1>1, <1>2, <1>3
  <1>5. CASE q - p >= 1
    <2>1. Capacity * (q - p) >= Capacity
      BY <1>5
    <2> QED
      BY <2>1, <1>4
  <1>6. CASE q - p <= 0
    <2>1. Capacity * (q - p) <= 0
      BY <1>6
    <2> QED
      BY <2>1, <1>4
  <1> QED
    BY <1>5, <1>6

\* Every cursor addresses a cell of the ring.
LEMMA CellType ==
  ASSUME NEW x \in Nat
  PROVE  Cell(x) \in 0 .. Capacity - 1
  BY ModExists, SpscQueueAssumption DEF Cell

\* What the proofs use of the arithmetic while the ring holds what it may: the
\* producer's cell is the one after the last item, the items have cells of
\* their own, and a step of a cursor changes the distance by one.
LEMMA Ring ==
  ASSUME NEW h \in Cursor, NEW t \in Cursor, Distance(t, h) <= Capacity
  PROVE  /\ Distance(t, h) \in 0 .. Capacity
         /\ Distance(t, h) = 0 <=> t = h
         /\ Cell(h) = Cell(t + Distance(t, h))
         /\ Distance(t, Advance(h)) = Distance(t, h) + 1
         /\ t # h => Distance(Advance(t), h) = Distance(t, h) - 1
         /\ \A k \in Nat : Cell(Advance(t) + k) = Cell(t + (k + 1))
  <1> USE SpscQueueAssumption DEF Cursor
  <1> DEFINE d == Distance(t, h)
  <1>1. d = IF t <= h THEN h - t ELSE (h + Wrap) - t
    BY DistanceIs
  <1>2. d \in 0 .. Capacity /\ (d = 0 <=> t = h)
    BY <1>1
  <1>3. Cell(h) = Cell(t + d)
    <2>1. CASE t <= h
      <3>1. t + d = h
        BY <1>1, <2>1
      <3> QED
        BY <3>1
    <2>2. CASE ~(t <= h)
      <3>1. t + d = h + Wrap
        BY <1>1, <2>2
      <3> QED
        BY <3>1, CellWraps
    <2> QED
      BY <2>1, <2>2
  <1>4. Distance(t, Advance(h)) = d + 1
    <2>1. /\ Advance(h) \in Cursor
          /\ Advance(h) = IF h + 1 = Wrap THEN 0 ELSE h + 1
      BY AdvanceIs
    <2>2. Distance(t, Advance(h)) = IF t <= Advance(h) THEN Advance(h) - t ELSE (Advance(h) + Wrap) - t
      BY <2>1, DistanceIs
    <2> QED
      BY <1>1, <2>1, <2>2
  <1>5. /\ Advance(t) \in Cursor
        /\ Advance(t) = IF t + 1 = Wrap THEN 0 ELSE t + 1
    BY AdvanceIs
  <1>6. ASSUME t # h PROVE Distance(Advance(t), h) = d - 1
    <2>1. Distance(Advance(t), h) = IF Advance(t) <= h THEN h - Advance(t) ELSE (h + Wrap) - Advance(t)
      BY <1>5, DistanceIs
    <2> QED
      BY <1>1, <1>5, <1>6, <2>1
  <1>7. ASSUME NEW k \in Nat PROVE Cell(Advance(t) + k) = Cell(t + (k + 1))
    <2>1. CASE t + 1 = Wrap
      <3>1. t + (k + 1) = k + Wrap /\ Advance(t) + k = k
        BY <1>5, <2>1
      <3> QED
        BY <3>1, CellWraps
    <2>2. CASE t + 1 # Wrap
      <3>1. t + (k + 1) = Advance(t) + k
        BY <1>5, <2>2
      <3> QED
        BY <3>1
    <2> QED
      BY <2>1, <2>2
  <1> QED
    BY <1>2, <1>3, <1>4, <1>6, <1>7

---------------------------------------------------------------------------
(* The invariant.                                                           *)

\* The ring is never overfull, and not full when the producer has found room:
\* only it can make the ring fuller.
NeverOverfull ==
  /\ Distance(tail, head) <= Capacity
  /\ producer \in {"write", "publish"} => Distance(tail, head) < Capacity

\* The ring is not empty when the consumer has found an item: only it can make
\* the ring emptier.
NotEmptied == consumer \in {"read", "release"} => tail # head

\* The message its caller wants sent is the producer's until it is in the cell
\* at head_, through every retry.
Carried ==
  /\ producer # "idle" => offered \in Message
  /\ producer \in {"check", "write"} => message = offered
  /\ producer = "publish" => buffer[Cell(head)] = offered

QueueInv == TypeOK /\ NeverOverfull /\ NotEmptied /\ Carried

\* While both threads are inside a call their cells differ, and so do the
\* producer's cell and the cell of every item.
LEMMA CellsOfTheThreads ==
  ASSUME QueueInv
  PROVE  /\ Cell(head) \in 0 .. Capacity - 1
         /\ Cell(tail) \in 0 .. Capacity - 1
         /\ \A k \in 1 .. Distance(tail, head) :
              /\ Cell(tail + k - 1) \in 0 .. Capacity - 1
              /\ k # 1 => Cell(tail + k - 1) # Cell(tail)
              /\ Distance(tail, head) < Capacity => Cell(tail + k - 1) # Cell(head)
  <1> USE SpscQueueAssumption DEF QueueInv, TypeOK, NeverOverfull, Cursor
  <1>1. /\ Distance(tail, head) \in 0 .. Capacity
        /\ Cell(head) = Cell(tail + Distance(tail, head))
    BY Ring
  <1>2. Cell(head) \in 0 .. Capacity - 1 /\ Cell(tail) \in 0 .. Capacity - 1
    BY CellType
  <1>3. ASSUME NEW k \in 1 .. Distance(tail, head)
        PROVE  /\ Cell(tail + k - 1) \in 0 .. Capacity - 1
               /\ k # 1 => Cell(tail + k - 1) # Cell(tail)
               /\ Distance(tail, head) < Capacity => Cell(tail + k - 1) # Cell(head)
    <2>1. tail + k - 1 \in Nat /\ tail + Distance(tail, head) \in Nat
      BY <1>1
    <2>2. Cell(tail + k - 1) \in 0 .. Capacity - 1
      BY <2>1, CellType
    <2>3. ASSUME k # 1 PROVE Cell(tail + k - 1) # Cell(tail)
      <3>1. tail < tail + k - 1 /\ tail + k - 1 < tail + Capacity
        BY <1>1, <2>3
      <3> QED
        BY <2>1, <3>1, CellsApart
    <2>4. ASSUME Distance(tail, head) < Capacity PROVE Cell(tail + k - 1) # Cell(head)
      <3>1. /\ tail + k - 1 < tail + Distance(tail, head)
            /\ tail + Distance(tail, head) < (tail + k - 1) + Capacity
        BY <1>1, <2>4
      <3> QED
        BY <1>1, <2>1, <3>1, CellsApart
    <2> QED
      BY <2>2, <2>3, <2>4
  <1> QED
    BY <1>2, <1>3

\* Every step keeps QueueInv.
LEMMA NextQueue == QueueInv /\ [Next]_vars => QueueInv'
  <1> SUFFICES ASSUME QueueInv, [Next]_vars PROVE QueueInv'
    OBVIOUS
  <1> USE SpscQueueAssumption DEF QueueInv, TypeOK, NeverOverfull, NotEmptied, Carried
  <1>0. head \in Cursor /\ tail \in Cursor
    BY DEF Cursor
  <1>1. /\ Distance(tail, head) \in 0 .. Capacity
        /\ Distance(tail, head) = 0 <=> tail = head
        /\ Distance(tail, Advance(head)) = Distance(tail, head) + 1
        /\ tail # head => Distance(Advance(tail), head) = Distance(tail, head) - 1
    BY <1>0, Ring
  <1>2. Cell(head) \in 0 .. Capacity - 1 /\ Cell(tail) \in 0 .. Capacity - 1
    BY CellsOfTheThreads
  <1>3. Advance(head) \in 0 .. Wrap - 1 /\ Advance(tail) \in 0 .. Wrap - 1
    BY <1>0, AdvanceIs DEF Cursor
  <1>4. CASE UNCHANGED vars
    BY <1>4 DEF Cell, Distance
  <1>5. ASSUME NEW m \in Message, Offer(m) PROVE QueueInv'
    BY <1>5 DEF Offer, Cell, Distance
  <1>6. CASE FindRoom
    <2>1. Distance(tail, head) < Capacity
      BY <1>1, <1>6 DEF FindRoom, Room
    <2> QED
      BY <1>6, <2>1 DEF FindRoom, Cell, Distance
  <1>7. CASE Retry
    BY <1>7 DEF Retry, Cell, Distance
  <1>8. CASE GiveUp
    BY <1>8 DEF GiveUp, Cell, Distance
  <1>9. CASE WriteCell
    <2>1. buffer' \in [0 .. Capacity - 1 -> Message \cup {Husk}] /\ buffer'[Cell(head)] = offered
      BY <1>2, <1>9 DEF WriteCell
    <2> QED
      BY <1>9, <2>1 DEF WriteCell, Cell, Distance
  <1>10. CASE PublishHead
    <2>1. Distance(tail, head)' = Distance(tail, head) + 1
      BY <1>1, <1>10 DEF PublishHead, Distance
    <2>2. (tail # head)'
      <3>1. Distance(tail, head)' = 0 <=> tail' = head'
        <4>1. head' \in Cursor /\ tail' \in Cursor /\ Distance(tail', head') <= Capacity
          BY <1>0, <1>1, <1>3, <1>10, <2>1 DEF PublishHead, Cursor, Distance
        <4> QED
          BY <4>1, Ring DEF Distance
      <3> QED
        BY <1>1, <2>1, <3>1
    <2>3. outcome' \in {Nothing} \cup [message : Message, ok : BOOLEAN]
      BY <1>10 DEF PublishHead
    <2> QED
      BY <1>1, <1>3, <1>10, <2>1, <2>2, <2>3, SMTT(30) DEF PublishHead
  <1>11. CASE FindItem
    BY <1>11 DEF FindItem, Cell, Distance
  <1>12. CASE ReadCell
    <2>1. buffer' \in [0 .. Capacity - 1 -> Message \cup {Husk}]
      BY <1>2, <1>12 DEF ReadCell
    <2>2. producer = "publish" => buffer'[Cell(head)] = offered
      <3>1. ASSUME producer = "publish" PROVE Cell(head) # Cell(tail)
        <4>1. 1 \in 1 .. Distance(tail, head) /\ Distance(tail, head) < Capacity /\ tail + 1 - 1 = tail
          BY <1>1, <1>12, <3>1 DEF ReadCell
        <4> QED
          BY <4>1, CellsOfTheThreads
      <3> QED
        BY <1>2, <1>12, <3>1 DEF ReadCell
    <2> QED
      BY <1>2, <1>12, <2>1, <2>2 DEF ReadCell, Cell, Distance
  <1>13. CASE ReleaseTail
    <2>1. Distance(tail, head)' = Distance(tail, head) - 1
      BY <1>1, <1>13 DEF ReleaseTail, Distance
    <2> QED
      BY <1>1, <1>3, <1>13, <2>1 DEF ReleaseTail, Cell
  <1> QED
    BY <1>4, <1>5, <1>6, <1>7, <1>8, <1>9, <1>10, <1>11, <1>12, <1>13 DEF Next

\* The empty queue satisfies it.
LEMMA InitQueue == Init => QueueInv
  <1> SUFFICES ASSUME Init PROVE QueueInv
    OBVIOUS
  <1> USE SpscQueueAssumption DEF Init
  <1>1. 0 \in Cursor /\ Distance(0, 0) = 0
    BY DistanceIs DEF Cursor
  <1> QED
    BY <1>1 DEF QueueInv, TypeOK, NeverOverfull, NotEmptied, Carried, Cursor

\* The queue keeps its invariant: at most Capacity items, whatever the calls and
\* however often the cursors have wrapped.
THEOREM QueueInvHolds == Spec => []QueueInv
  BY InitQueue, NextQueue, PTL DEF Spec

\* The producer's write and the consumer's read are never at one cell.
THEOREM NoDataRaceHolds == Spec => []NoDataRace
  <1>1. QueueInv => NoDataRace
    <2> SUFFICES ASSUME QueueInv, producer = "write", consumer = "read", Cell(head) = Cell(tail)
                 PROVE  FALSE
      BY DEF NoDataRace
    <2>1. /\ Distance(tail, head) \in 0 .. Capacity
          /\ Distance(tail, head) = 0 <=> tail = head
      BY Ring DEF QueueInv, TypeOK, NeverOverfull, Cursor
    <2>2. 1 \in 1 .. Distance(tail, head) /\ Distance(tail, head) < Capacity
      BY <2>1 DEF QueueInv, NeverOverfull, NotEmptied
    <2>3. tail + 1 - 1 = tail
      BY DEF QueueInv, TypeOK
    <2> QED
      BY <2>2, <2>3, CellsOfTheThreads
  <1> QED
    BY <1>1, QueueInvHolds, PTL

---------------------------------------------------------------------------
(* The two threads implement the bounded queue.                             *)

Stored == Message \cup {Husk, Nothing}

\* The item at place k.
ItemAt(k) == IF k = 1 /\ consumer = "release" THEN value ELSE buffer[Cell(tail + k - 1)]

\* What the ring holds is a sequence as long as the cursors are apart.
LEMMA ItemsAre ==
  QueueInv => /\ Items \in Seq(Stored)
              /\ Len(Items) = Distance(tail, head)
              /\ Distance(tail, head) \in 0 .. Capacity
              /\ \A k \in 1 .. Distance(tail, head) : Items[k] = ItemAt(k)
  <1> SUFFICES ASSUME QueueInv
               PROVE  /\ Items \in Seq(Stored)
                      /\ Len(Items) = Distance(tail, head)
                      /\ Distance(tail, head) \in 0 .. Capacity
                      /\ \A k \in 1 .. Distance(tail, head) : Items[k] = ItemAt(k)
    OBVIOUS
  <1>1. Distance(tail, head) \in 0 .. Capacity
    BY Ring DEF QueueInv, TypeOK, NeverOverfull, Cursor
  <1>2. ASSUME NEW k \in 1 .. Distance(tail, head)
        PROVE  ItemAt(k) \in Stored
    BY CellsOfTheThreads DEF QueueInv, TypeOK, Stored, ItemAt
  <1>3. Items = [k \in 1 .. Distance(tail, head) |-> ItemAt(k)]
    BY DEF Items, ItemAt
  <1>4. Items \in [1 .. Distance(tail, head) -> Stored]
    BY <1>2, <1>3
  <1> QED
    BY <1>1, <1>3, <1>4, SpscQueueAssumption

\* Every step of the two threads is a step of the bounded queue, or none.
LEMMA NextFifo == QueueInv /\ QueueInv' /\ [Next]_vars => [Fifo!Next]_(Fifo!vars)
  <1> SUFFICES ASSUME QueueInv, QueueInv', [Next]_vars PROVE [Fifo!Next]_(Fifo!vars)
    OBVIOUS
  <1> USE SpscQueueAssumption
  <1> DEFINE d == Distance(tail, head)
  <1>0. /\ Items \in Seq(Stored) /\ Len(Items) = d /\ d \in 0 .. Capacity
        /\ \A k \in 1 .. d : Items[k] = ItemAt(k)
    BY ItemsAre
  <1>1. /\ Items' \in Seq(Stored) /\ Len(Items') = d' /\ d' \in 0 .. Capacity
        /\ \A k \in 1 .. d' : Items'[k] = ItemAt(k)'
    <2>1. QueueInv' => (/\ Items \in Seq(Stored)
                        /\ Len(Items) = Distance(tail, head)
                        /\ Distance(tail, head) \in 0 .. Capacity
                        /\ \A k \in 1 .. Distance(tail, head) : Items[k] = ItemAt(k))'
      BY ItemsAre, PTL
    <2> QED
      BY <2>1 DEF Stored
  <1>2. /\ head \in Cursor /\ tail \in Cursor /\ d <= Capacity
        /\ d = 0 <=> tail = head
        /\ Cell(head) = Cell(tail + d)
        /\ Distance(tail, Advance(head)) = d + 1
        /\ tail # head => Distance(Advance(tail), head) = d - 1
        /\ \A k \in Nat : Cell(Advance(tail) + k) = Cell(tail + (k + 1))
    BY Ring DEF QueueInv, TypeOK, NeverOverfull, Cursor
  <1>3. /\ Cell(head) \in 0 .. Capacity - 1 /\ Cell(tail) \in 0 .. Capacity - 1
        /\ \A k \in 1 .. d :
              /\ Cell(tail + k - 1) \in 0 .. Capacity - 1
              /\ k # 1 => Cell(tail + k - 1) # Cell(tail)
              /\ d < Capacity => Cell(tail + k - 1) # Cell(head)
    BY CellsOfTheThreads
  <1>4. SUFFICES Fifo!Next \/ UNCHANGED <<Items, outcome, received>>
    BY DEF Fifo!vars
  <1>5. ASSUME d' = d, \A k \in 1 .. d : ItemAt(k)' = ItemAt(k)
        PROVE  Items' = Items
    BY <1>0, <1>1, <1>5
  <1>6. CASE UNCHANGED vars
    BY <1>6 DEF Items, Distance, Cell
  <1>7. CASE (\E m \in Message : Offer(m)) \/ FindRoom \/ Retry
    BY <1>7 DEF Offer, FindRoom, Retry, Items, Distance, Cell
  <1>8. CASE GiveUp
    <2>1. Items' = Items /\ received' = received
      BY <1>8 DEF GiveUp, Items, Distance, Cell
    <2>2. Len(Items) = Capacity
      BY <1>0, <1>2, <1>8 DEF GiveUp, Room
    <2>3. offered \in Message /\ outcome' = [message |-> offered, ok |-> FALSE]
      BY <1>8 DEF GiveUp, QueueInv, Carried
    <2> QED
      BY <2>1, <2>2, <2>3 DEF Fifo!Next, Fifo!Refuse
  <1>9. CASE WriteCell
    <2>1. d < Capacity /\ d' = d /\ UNCHANGED <<outcome, received>>
      BY <1>9 DEF WriteCell, QueueInv, NeverOverfull, Distance
    <2>2. ASSUME NEW k \in 1 .. d PROVE ItemAt(k)' = ItemAt(k)
      <3>1. buffer'[Cell(tail + k - 1)] = buffer[Cell(tail + k - 1)]
        BY <1>3, <1>9, <2>1 DEF WriteCell, QueueInv, TypeOK
      <3> QED
        BY <1>9, <3>1 DEF WriteCell, ItemAt, Cell
    <2> QED
      BY <1>5, <2>1, <2>2
  <1>10. CASE PublishHead
    <2>1. d < Capacity /\ d' = d + 1 /\ offered \in Message /\ buffer[Cell(head)] = offered
      BY <1>2, <1>10 DEF PublishHead, QueueInv, NeverOverfull, Carried, Distance
    <2>2. ASSUME NEW k \in 1 .. d PROVE Items'[k] = Items[k]
      <3>1. k \in 1 .. d'
        BY <1>0, <2>1
      <3>2. ItemAt(k)' = ItemAt(k)
        BY <1>10 DEF PublishHead, ItemAt, Cell
      <3> QED
        BY <1>0, <1>1, <3>1, <3>2
    <2>3. Items'[d + 1] = offered
      <3>1. PICK n \in Nat : n = d + 1
        BY <1>0
      <3>2. tail + n - 1 = tail + d /\ n \in 1 .. d'
        <4>1. tail \in Nat /\ d \in Nat
          BY <1>0, <1>2 DEF Cursor
        <4> QED
          BY <2>1, <3>1, <4>1
      <3>3. ~(n = 1 /\ consumer = "release")
        <4>1. n = 1 => tail = head
          BY <1>0, <1>2, <3>1
        <4> QED
          BY <4>1 DEF QueueInv, NotEmptied
      <3>4. ItemAt(n)' = buffer[Cell(tail + n - 1)]
        BY <1>10, <3>3 DEF PublishHead, ItemAt, Cell
      <3>5. Items'[n] = ItemAt(n)'
        BY <1>1, <3>2
      <3> QED
        BY <1>2, <2>1, <3>1, <3>2, <3>4, <3>5
    <2>4. Items' = Append(Items, offered)
      BY <1>0, <1>1, <2>1, <2>2, <2>3
    <2> QED
      BY <1>0, <1>10, <2>1, <2>4 DEF PublishHead, Fifo!Next, Fifo!Push
  <1>11. CASE FindItem
    BY <1>11 DEF FindItem, Items, Distance, Cell
  <1>12. CASE ReadCell
    <2>1. d' = d /\ UNCHANGED <<outcome, received>>
      BY <1>12 DEF ReadCell, Distance
    <2>2. ASSUME NEW k \in 1 .. d PROVE ItemAt(k)' = ItemAt(k)
      <3>1. CASE k = 1
        <4>1. tail + k - 1 = tail
          BY <1>2, <3>1 DEF Cursor
        <4> QED
          BY <1>12, <3>1, <4>1 DEF ReadCell, ItemAt, Cell
      <3>2. CASE k # 1
        <4>1. buffer'[Cell(tail + k - 1)] = buffer[Cell(tail + k - 1)]
          BY <1>3, <1>12, <3>2 DEF ReadCell, QueueInv, TypeOK
        <4> QED
          BY <1>12, <3>2, <4>1 DEF ReadCell, ItemAt, Cell
      <3> QED
        BY <3>1, <3>2
    <2> QED
      BY <1>5, <2>1, <2>2
  <1>13. CASE ReleaseTail
    <2>1. tail # head /\ d \in 1 .. Capacity /\ d' = d - 1
      BY <1>0, <1>2, <1>13 DEF ReleaseTail, QueueInv, NotEmptied, Distance
    <2>2. Items # <<>> /\ Head(Items) = value
      BY <1>0, <1>13, <2>1 DEF ReleaseTail, ItemAt
    <2>3. ASSUME NEW k \in 1 .. d' PROVE Items'[k] = Items[k + 1]
      <3>1. k + 1 \in 1 .. d /\ k - 1 \in Nat /\ k # 0
        BY <2>1
      <3>2. Cell(Advance(tail) + (k - 1)) = Cell(tail + ((k - 1) + 1))
        BY <1>2, <3>1
      <3>3. Advance(tail) + k - 1 = Advance(tail) + (k - 1) /\ tail + ((k - 1) + 1) = tail + (k + 1) - 1
        BY <1>2, <3>1, AdvanceIs DEF Cursor
      <3>4. ItemAt(k)' = buffer[Cell(Advance(tail) + k - 1)]
        BY <1>13 DEF ReleaseTail, ItemAt, Cell
      <3>5. ItemAt(k + 1) = buffer[Cell(tail + (k + 1) - 1)]
        BY <3>1 DEF ItemAt
      <3> QED
        BY <1>0, <1>1, <3>1, <3>2, <3>3, <3>4, <3>5
    <2>4. Items' = Tail(Items)
      BY <1>0, <1>1, <2>1, <2>2, <2>3
    <2> QED
      BY <1>13, <2>2, <2>4 DEF ReleaseTail, Fifo!Next, Fifo!Pop
  <1> QED
    BY <1>6, <1>7, <1>8, <1>9, <1>10, <1>11, <1>12, <1>13 DEF Next

\* The new queue is empty.
LEMMA InitFifo == Init => Fifo!Init
  <1> SUFFICES ASSUME Init PROVE Fifo!Init
    OBVIOUS
  <1>1. Distance(tail, head) = 0
    BY SpscQueueAssumption, DistanceIs DEF Init, Cursor
  <1>2. Items = <<>>
    BY <1>1 DEF Items
  <1> QED
    BY <1>2 DEF Init, Fifo!Init

\* Whatever the interleaving of its two threads, the ring is a bounded first-in
\* first-out queue.
THEOREM RingImplementsFifo == Spec => FifoSpec
  BY InitFifo, QueueInvHolds, NextFifo, PTL DEF Spec, FifoSpec, Fifo!Spec
===========================================================================
