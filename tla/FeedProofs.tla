---------------------------- MODULE FeedProofs ----------------------------
(***************************************************************************)
(* Proofs about BybitProvider and OKXProvider, for every number of sockets, *)
(* messages, restarts of the venue and reconnections.  Types and the       *)
(* contract size need nothing else.  That the book is exact, current and   *)
(* never taken back rests on ids that are not used again: a restart of the *)
(* venue may begin again at 1, but must not reach an id it has used before *)
(* (FeedReused.cfg shows a book that is no state of the venue's otherwise). *)
(***************************************************************************)
EXTENDS Feed, SequenceTheorems, WellFoundedInduction, TLAPS

USE DEF vars, venueVars, linkVars, runVars, depthVars

---------------------------------------------------------------------------
(* The history of the venue.                                                *)

\* Message q of m is the last one of stream s up to position p.
LastIn(m, s, p, q) ==
  q \in 1 .. p /\ m[q].stream = s /\ \A r \in q + 1 .. p : m[r].stream # s

\* Message p of m continues its stream: it follows the last one by the step of
\* the venue, or the venue has restarted and counts from 1 again.
Continues(m, p, again, step) ==
  \E q \in 1 .. p - 1 :
    /\ LastIn(m, m[p].stream, p - 1, q)
    /\ m[p].prev = m[q].id
    /\ m[p].id = m[q].id + step \/ (m[p].id = 1 /\ again > 0)

\* The ids of a stream rise, but for a restart.
Rises(m, p, q, again) ==
  \/ m[p].id < m[q].id
  \/ \E r \in p + 1 .. q : m[r].stream = m[p].stream /\ m[r].id = 1 /\ again > 0

\* What the venue has sent, having restarted as often as again says.
History(m, again, step) ==
  /\ m \in Seq(Message) /\ Len(m) \in Nat /\ Len(m) >= 2
  /\ m[1].stream = "depth" /\ m[1].id = FirstId /\ m[2].stream = "bbo"
  /\ \A p \in 1 .. Len(m) : m[p].id <= FirstId + 2 * p
  /\ \A p \in 3 .. Len(m) : Continues(m, p, again, step)
  /\ \A p, q \in 1 .. Len(m) : p < q /\ m[p].stream = m[q].stream => Rises(m, p, q, again)

\* The bounds are numbers.
LEMMA Bounds ==
  /\ FirstId \in Nat /\ MaxSent \in Nat /\ MaxSent >= 2
  /\ MaxRestarts \in Nat /\ MaxReconnects \in Nat
  BY FeedAssumption

\* A message and its parts.
LEMMA MessageParts ==
  ASSUME NEW m \in Seq(Message), NEW p \in 1 .. Len(m)
  PROVE  m[p] \in Message /\ m[p].stream \in Stream /\ m[p].id \in Nat /\ m[p].prev \in Nat
         /\ m[p].id \in Id
  <1>1. m[p] \in Message
    OBVIOUS
  <1>2. m[p].stream \in Stream /\ m[p].id \in Id /\ m[p].prev \in Id
    BY <1>1 DEF Message
  <1> QED
    BY <1>1, <1>2, Bounds DEF Id

\* There is a last message of either stream from the second position on ...
LEMMA LastExists ==
  ASSUME NEW m \in Seq(Message), Len(m) >= 2, m[1].stream = "depth", m[2].stream = "bbo",
         NEW s \in Stream, NEW p \in 2 .. Len(m)
  PROVE  \E q \in 1 .. p : LastIn(m, s, p, q)
  <1> DEFINE T == {p - q : q \in {r \in 1 .. p : m[r].stream = s}}
             R == {ss \in Nat \X Nat : ss[1] < ss[2]}
  <1>1. T \subseteq Nat /\ T # {}
    <2>1. \E r \in 1 .. p : m[r].stream = s
      BY DEF Stream
    <2> QED
      BY <2>1
  <1>2. IsWellFoundedOn(R, Nat)
    BY NatLessThanWellFounded DEF OpToRel
  <1>3. \A a, b \in Nat : <<a, b>> \notin R => b <= a
    OBVIOUS
  <1> HIDE DEF R
  <1>4. PICK d \in T : \A e \in T : <<e, d>> \notin R
    <2> HIDE DEF T
    <2> QED
      BY <1>1, <1>2, WFMin
  <1>5. PICK q \in 1 .. p : m[q].stream = s /\ d = p - q
    BY <1>4
  <1>6. ASSUME NEW r \in q + 1 .. p, m[r].stream = s
        PROVE  FALSE
    <2>1. p - r \in T /\ p - r \in Nat /\ d \in Nat
      BY <1>1, <1>6
    <2>2. d <= p - r
      BY <1>3, <1>4, <2>1
    <2> QED
      BY <1>5, <2>2
  <1> QED
    BY <1>5, <1>6 DEF LastIn

\* ... and only one.
LEMMA LastUnique ==
  ASSUME NEW m, NEW s, NEW p \in Nat, NEW q, NEW r, LastIn(m, s, p, q), LastIn(m, s, p, r)
  PROVE  q = r
  BY DEF LastIn

\* AsOf is that message.
LEMMA AsOfIs ==
  ASSUME NEW s, NEW p \in Nat, NEW q, LastIn(sent, s, p, q)
  PROVE  AsOf(s, p) = q
  <1>1. \E x \in 1 .. p : sent[x].stream = s /\ \A r \in x + 1 .. p : sent[r].stream # s
    BY DEF LastIn
  <1>2. /\ AsOf(s, p) \in 1 .. p /\ sent[AsOf(s, p)].stream = s
        /\ \A r \in AsOf(s, p) + 1 .. p : sent[r].stream # s
    BY <1>1, Zenon DEF AsOf
  <1> QED
    BY <1>2, LastUnique DEF LastIn

\* One more message of the venue.
LEMMA Longer ==
  ASSUME NEW m \in Seq(Message), NEW x \in Message
  PROVE  /\ Append(m, x) \in Seq(Message) /\ Len(m) \in Nat
         /\ Len(Append(m, x)) = Len(m) + 1
         /\ \A i \in 1 .. Len(m) : Append(m, x)[i] = m[i]
         /\ Append(m, x)[Len(m) + 1] = x
  OBVIOUS

\* A later state may only have a longer history.
Extends(m, n) == Len(m) <= Len(n) /\ \A i \in 1 .. Len(m) : n[i] = m[i]

\* Message x is one the venue can send next.
Follows(m, x, now, step) ==
  /\ x \in Message
  /\ \E q \in 1 .. Len(m) :
       /\ LastIn(m, x.stream, Len(m), q)
       /\ x.prev = m[q].id
       /\ x.id = m[q].id + step \/ (x.id = 1 /\ now > 0)

\* A message that follows a history makes a longer history.
LEMMA HistoryGrows ==
  ASSUME NEW m, NEW again \in Nat, NEW now \in Nat, again <= now, NEW step \in {1, 2},
         History(m, again, step), NEW x, Follows(m, x, now, step)
  PROVE  History(Append(m, x), now, step) /\ Extends(m, Append(m, x))
         /\ Len(Append(m, x)) = Len(m) + 1 /\ Append(m, x)[Len(m) + 1] = x
  <1> DEFINE L == Len(m)
             n == Append(m, x)
  <1>q. PICK q : /\ x \in Message /\ LastIn(m, x.stream, Len(m), q) /\ x.prev = m[q].id
                 /\ x.id = m[q].id + step \/ (x.id = 1 /\ now > 0)
    BY DEF Follows
  <1>0. m \in Seq(Message) /\ L \in Nat /\ L >= 2
    BY DEF History
  <1>1. n \in Seq(Message) /\ Len(n) = L + 1 /\ n[L + 1] = x /\ \A i \in 1 .. L : n[i] = m[i]
    BY <1>0, <1>q, Longer
  <1>2. q \in 1 .. L /\ m[q].stream = x.stream
    BY <1>q DEF LastIn
  <1>3. m[q].id \in Nat /\ x.id \in Nat
    <2>1. x.id \in Id
      BY <1>q DEF Message
    <2>2. x.id \in Nat
      BY <2>1, Bounds DEF Id
    <2> QED
      BY <1>0, <1>2, <2>2, MessageParts
  <1> HIDE DEF L, n
  <1>4. \A p \in 1 .. Len(n) : n[p].id <= FirstId + 2 * p
    <2>1. x.id <= FirstId + 2 * (L + 1)
      <3>1. m[q].id <= FirstId + 2 * q
        BY <1>2 DEF History, L
      <3> QED
        <4>1. CASE x.id = m[q].id + step
          <5>1. x.id <= m[q].id + 2
            BY <4>1, <1>3
          <5>2. FirstId \in Nat /\ q \in Nat /\ q <= L
            BY <1>0, <1>2, Bounds
          <5> QED
            BY <5>1, <5>2, <3>1, <1>0, <1>3
        <4>2. CASE x.id = 1
          BY <4>2, <1>0, Bounds
        <4> QED
          BY <4>1, <4>2, <1>q
    <2>2. ASSUME NEW p \in 1 .. Len(n)
          PROVE  n[p].id <= FirstId + 2 * p
      <3>1. CASE p = L + 1
        BY <3>1, <2>1, <1>1
      <3>2. CASE p # L + 1
        <4>1. p \in 1 .. L /\ n[p] = m[p]
          BY <3>2, <1>0, <1>1
        <4> QED
          BY <4>1 DEF History, L
      <3> QED
        BY <3>1, <3>2
    <2> QED
      BY <2>2
  <1>5. ASSUME NEW p \in 3 .. Len(n)
        PROVE  Continues(n, p, now, step)
    <2>1. CASE p = L + 1
      <3>1. LastIn(n, x.stream, L, q)
        BY <1>0, <1>1, <1>2, <1>q DEF LastIn, L
      <3>2. q \in 1 .. p - 1 /\ p - 1 = L /\ n[p] = x /\ n[q] = m[q]
        BY <2>1, <1>0, <1>1, <1>2
      <3> QED
        BY <3>1, <3>2, <1>q DEF Continues
    <2>2. CASE p # L + 1
      <3>1. p \in 3 .. L /\ p \in 1 .. L /\ n[p] = m[p]
        BY <2>2, <1>0, <1>1
      <3>2. PICK r \in 1 .. p - 1 :
              /\ LastIn(m, m[p].stream, p - 1, r)
              /\ m[p].prev = m[r].id
              /\ m[p].id = m[r].id + step \/ (m[p].id = 1 /\ again > 0)
        BY <3>1 DEF History, Continues, L
      <3>3. LastIn(n, n[p].stream, p - 1, r) /\ n[r] = m[r]
        <4>1. \A t \in 1 .. p - 1 : t \in 1 .. L /\ n[t] = m[t]
          BY <3>1, <1>0, <1>1
        <4>2. \A t \in r + 1 .. p - 1 : t \in 1 .. p - 1
          BY <3>1, <3>2, <1>0
        <4> QED
          BY <3>1, <3>2, <4>1, <4>2 DEF LastIn
      <3> QED
        BY <3>1, <3>2, <3>3 DEF Continues
    <2> QED
      BY <2>1, <2>2
  <1>6. ASSUME NEW p \in 1 .. Len(n), NEW r \in 1 .. Len(n), p < r, n[p].stream = n[r].stream
        PROVE  Rises(n, p, r, now)
    <2>1. ASSUME NEW t \in 1 .. L, p < t, m[p].stream = m[t].stream
          PROVE  \/ m[p].id < m[t].id
                 \/ \E u \in p + 1 .. t : n[u].stream = n[p].stream /\ n[u].id = 1 /\ now > 0
      <3>1. p \in 1 .. L /\ n[p] = m[p]
        BY <2>1, <1>0, <1>1
      <3>2. Rises(m, p, t, again)
        BY <2>1, <3>1 DEF History, L
      <3>3. \A u \in p + 1 .. t : u \in 1 .. L /\ n[u] = m[u]
        BY <2>1, <3>1, <1>0, <1>1
      <3>4. CASE m[p].id < m[t].id
        BY <3>4
      <3>5. CASE \E u \in p + 1 .. t : m[u].stream = m[p].stream /\ m[u].id = 1 /\ again > 0
        <4>1. now > 0
          BY <3>5
        <4> QED
          BY <3>1, <3>3, <3>5, <4>1
      <3> QED
        BY <3>2, <3>4, <3>5 DEF Rises
    <2>2. CASE r = L + 1
      <3>1. p \in 1 .. L /\ n[p] = m[p] /\ n[r] = x /\ m[p].stream = x.stream
        BY <1>6, <2>2, <1>0, <1>1
      <3>2. p <= q
        BY <3>1, <1>0, <1>2, <1>q DEF LastIn, L
      <3>3. m[p].id \in Nat
        BY <3>1, <1>0, MessageParts DEF L
      <3>4. CASE x.id = 1 /\ now > 0
        BY <3>4, <3>1, <1>6 DEF Rises
      <3>5. CASE x.id = m[q].id + step
        <4>1. m[q].id < x.id
          BY <3>5, <1>3
        <4>2. CASE p = q
          BY <4>1, <4>2, <3>1 DEF Rises
        <4>3. CASE p < q
          <5>1. \/ m[p].id < m[q].id
                \/ \E u \in p + 1 .. q : n[u].stream = n[p].stream /\ n[u].id = 1 /\ now > 0
            BY <2>1, <4>3, <3>1, <1>2
          <5>2. \A u \in p + 1 .. q : u \in p + 1 .. r
            BY <2>2, <1>2, <1>0
          <5> QED
            BY <5>1, <5>2, <4>1, <3>1, <3>3, <1>3 DEF Rises
        <4> QED
          BY <4>2, <4>3, <3>1, <3>2, <1>2
      <3> QED
        BY <3>4, <3>5, <1>q
    <2>3. CASE r # L + 1
      <3>1. r \in 1 .. L /\ p \in 1 .. L /\ n[r] = m[r] /\ n[p] = m[p]
        BY <1>6, <2>3, <1>0, <1>1
      <3> QED
        BY <3>1, <2>1, <1>6 DEF Rises
    <2> QED
      BY <2>2, <2>3
  <1>7. n[1].stream = "depth" /\ n[1].id = FirstId /\ n[2].stream = "bbo"
    BY <1>0, <1>1 DEF History
  <1>8. Len(n) \in Nat /\ Len(n) >= 2 /\ Len(m) <= Len(n)
    BY <1>0, <1>1 DEF L
  <1>9. History(n, now, step)
    BY <1>1, <1>4, <1>5, <1>6, <1>7, <1>8 DEF History
  <1>10. Extends(m, n)
    BY <1>1, <1>8 DEF Extends, L
  <1> QED
    BY <1>1, <1>9, <1>10 DEF L, n

---------------------------------------------------------------------------
(* Types, and what every state knows of the venue and of the sockets.       *)

\* The step of the venue's ids.
Stride == IF feed = "bybit" THEN 1 ELSE 2

Way == {"opening", "push", "repeat"}

TypeInv ==
  /\ TypeOK
  /\ History(sent, restarts, Stride)
  /\ worker # "stopped" => reconnectCount <= MaxReconnects
  /\ \A c \in Connection : link[c] = "open" => at[c] \in 2 .. Len(sent)
  /\ book # Wrong => book <= Len(sent)
  /\ quote <= Len(sent)

\* Either venue counts by one or by two.
LEMMA StrideType == Stride \in {1, 2}
  BY DEF Stride

\* The last message of a stream.
LEMMA NewestIs ==
  ASSUME TypeInv, NEW s \in Stream, NEW p \in 2 .. Len(sent)
  PROVE  /\ LastIn(sent, s, p, AsOf(s, p))
         /\ AsOf(s, p) \in 1 .. p /\ AsOf(s, p) \in 1 .. Len(sent)
         /\ sent[AsOf(s, p)].stream = s
         /\ sent[AsOf(s, p)].id \in Nat /\ sent[AsOf(s, p)].id \in Id
  <1>1. sent \in Seq(Message) /\ Len(sent) \in Nat /\ Len(sent) >= 2
        /\ sent[1].stream = "depth" /\ sent[2].stream = "bbo"
    BY DEF TypeInv, History
  <1>2. PICK q \in 1 .. p : LastIn(sent, s, p, q)
    BY <1>1, LastExists
  <1>3. AsOf(s, p) = q
    BY <1>1, <1>2, AsOfIs
  <1>4. q \in 1 .. Len(sent) /\ sent[q].stream = s
    BY <1>1, <1>2 DEF LastIn
  <1> QED
    BY <1>1, <1>2, <1>3, <1>4, MessageParts

\* The message that arrives is one the venue has sent.
LEMMA ArrivingIs ==
  ASSUME TypeInv, NEW c \in Connection, NEW s \in Stream, NEW way \in Way, Arrives(c, s, way),
         NEW p, p = Arriving(c, s, way)
  PROVE  /\ worker = "run" /\ link[c] = "open" /\ at[c] \in 2 .. Len(sent)
         /\ p \in 1 .. Len(sent) /\ sent[p].stream = s
         /\ sent[p].id \in Nat /\ sent[p].id \in Id /\ sent[p].prev \in Nat
         /\ way = "push" => p = at[c] + 1 /\ opening[c] = {}
         /\ way = "opening" => s \in opening[c]
         /\ way = "repeat" => opening[c] = {}
         /\ way # "push" => LastIn(sent, s, at[c], p) /\ p = AsOf(s, at[c])
  <1>1. worker = "run" /\ link[c] = "open" /\ at[c] \in 2 .. Len(sent)
    BY DEF TypeInv, Arrives
  <1>2. sent \in Seq(Message) /\ Len(sent) \in Nat
    BY DEF TypeInv, History
  <1>3. CASE way = "push"
    <2>1. p = at[c] + 1 /\ opening[c] = {} /\ at[c] < Len(sent) /\ sent[at[c] + 1].stream = s
      BY <1>3 DEF Arrives, Arriving
    <2>2. p \in 1 .. Len(sent)
      BY <1>1, <1>2, <2>1
    <2> QED
      BY <1>1, <1>2, <1>3, <2>1, <2>2, MessageParts
  <1>4. CASE way # "push"
    <2>1. p = AsOf(s, at[c]) /\ (way = "opening" => s \in opening[c])
            /\ (way = "repeat" => opening[c] = {})
      BY <1>4 DEF Arrives, Arriving, Way
    <2>2. LastIn(sent, s, at[c], p) /\ p \in 1 .. Len(sent) /\ sent[p].stream = s
      BY <1>1, <2>1, NewestIs
    <2> QED
      BY <1>1, <1>2, <1>4, <2>1, <2>2, MessageParts
  <1> QED
    BY <1>3, <1>4

\* What the delivery of a message does to the sockets.
LEMMA DeliveredIs ==
  ASSUME TypeInv, NEW c \in Connection, NEW s \in Stream, NEW way \in Way, Arrives(c, s, way),
         Delivered(c, s, way)
  PROVE  /\ link' = link
         /\ at' \in [Connection -> Position] /\ opening' \in [Connection -> SUBSET Stream]
         /\ at'[c] = (IF way = "push" THEN at[c] + 1 ELSE at[c])
         /\ opening'[c] = opening[c] \ {s}
         /\ \A d \in Connection : d # c => at'[d] = at[d] /\ opening'[d] = opening[d]
         /\ \A d \in Connection : link[d] = "open" => at'[d] \in 2 .. Len(sent)
  <1>1. /\ at' = [at EXCEPT ![c] = IF way = "push" THEN @ + 1 ELSE @]
        /\ opening' = [opening EXCEPT ![c] = @ \ {s}] /\ link' = link
    BY DEF Delivered
  <1>2. at \in [Connection -> Position] /\ opening \in [Connection -> SUBSET Stream]
        /\ Len(sent) \in Nat /\ Len(sent) <= MaxSent
    BY DEF TypeInv, TypeOK, History
  <1>3. at[c] \in 2 .. Len(sent) /\ (way = "push" => at[c] < Len(sent))
    BY DEF TypeInv, Arrives
  <1>4. (IF way = "push" THEN at[c] + 1 ELSE at[c]) \in 2 .. Len(sent)
    BY <1>2, <1>3
  <1>5. (IF way = "push" THEN at[c] + 1 ELSE at[c]) \in Position
    BY <1>2, <1>4, Bounds DEF Position
  <1>6. /\ at'[c] = (IF way = "push" THEN at[c] + 1 ELSE at[c])
        /\ opening'[c] = opening[c] \ {s}
        /\ \A d \in Connection : d # c => at'[d] = at[d] /\ opening'[d] = opening[d]
    BY <1>1, <1>2
  <1>7. at' \in [Connection -> Position]
    BY <1>1, <1>2, <1>5
  <1>8. opening' \in [Connection -> SUBSET Stream]
    BY <1>1, <1>2
  <1>9. ASSUME NEW d \in Connection, link[d] = "open"
        PROVE  at'[d] \in 2 .. Len(sent)
    <2>1. CASE d = c
      BY <2>1, <1>4, <1>6
    <2>2. CASE d # c
      BY <2>2, <1>6, <1>9 DEF TypeInv
    <2> QED
      BY <2>1, <2>2
  <1> QED
    BY <1>1, <1>6, <1>7, <1>8, <1>9

\* What the venue sends continues its history, and nothing else changes.
LEMMA VenueGrows ==
  ASSUME TypeInv, feed' = feed, VenueRestarts \/ \E s \in Stream : VenueSends(s)
  PROVE  /\ History(sent', restarts', Stride) /\ Extends(sent, sent') /\ Len(sent') <= MaxSent
         /\ Len(sent) < Len(sent')
         /\ restarts' \in 0 .. MaxRestarts
         /\ UNCHANGED <<linkVars, runVars, dedup, depthVars, quote>>
  <1>1. /\ History(sent, restarts, Stride) /\ sent \in Seq(Message)
        /\ Len(sent) \in Nat /\ Len(sent) >= 2 /\ Len(sent) <= MaxSent
        /\ restarts \in 0 .. MaxRestarts /\ restarts \in Nat
    BY Bounds DEF TypeInv, TypeOK, History
  <1>2. ASSUME NEW s \in Stream
        PROVE  /\ LastIn(sent, s, Len(sent), Newest(s))
               /\ Newest(s) \in 1 .. Len(sent) /\ sent[Newest(s)].id \in Id
               /\ sent[Newest(s)].id \in Nat
               /\ sent[Newest(s)].id <= FirstId + 2 * Newest(s)
    <2>1. /\ LastIn(sent, s, Len(sent), Newest(s))
          /\ Newest(s) \in 1 .. Len(sent) /\ sent[Newest(s)].id \in Id
          /\ sent[Newest(s)].id \in Nat
      BY <1>1, NewestIs DEF Newest
    <2> QED
      BY <1>1, <2>1 DEF History
  <1>3. ASSUME NEW s \in Stream, VenueSends(s)
        PROVE  /\ History(sent', restarts', Stride) /\ Extends(sent, sent')
               /\ Len(sent') <= MaxSent /\ Len(sent) < Len(sent')
               /\ restarts' \in 0 .. MaxRestarts
               /\ UNCHANGED <<linkVars, runVars, dedup, depthVars, quote>>
    <2> DEFINE last == sent[Newest(s)].id
               x == [stream |-> s, prev |-> last, id |-> last + Stride]
    <2>1. /\ Len(sent) < MaxSent /\ sent' = Append(sent, x) /\ restarts' = restarts
          /\ UNCHANGED <<linkVars, runVars, dedup, depthVars, quote>>
      BY <1>3 DEF VenueSends, Stride
    <2>2. last + Stride \in Id
      <3>1. last \in Nat /\ last <= FirstId + 2 * Newest(s) /\ Newest(s) \in 1 .. Len(sent)
        BY <1>2
      <3> HIDE DEF last
      <3>2. last + Stride \in Nat /\ last + Stride <= FirstId + 2 * MaxSent
        BY <1>1, <2>1, <3>1, StrideType, Bounds
      <3> QED
        BY <3>2, Bounds DEF Id
    <2>3. x \in Message /\ x.stream = s /\ x.prev = last /\ x.id = last + Stride
      BY <1>2, <2>2 DEF Message
    <2>a. Follows(sent, x, restarts, Stride) /\ restarts <= restarts
      BY <1>1, <1>2, <2>3 DEF Follows
    <2> HIDE DEF x, last
    <2>4. /\ History(sent', restarts, Stride) /\ Len(sent') = Len(sent) + 1
          /\ Extends(sent, sent')
      BY <1>1, <2>1, <2>a, StrideType, HistoryGrows
    <2> QED
      BY <1>1, <2>1, <2>4, Bounds
  <1>4. ASSUME VenueRestarts
        PROVE  /\ History(sent', restarts', Stride) /\ Extends(sent, sent')
               /\ Len(sent') <= MaxSent /\ Len(sent) < Len(sent')
               /\ restarts' \in 0 .. MaxRestarts
               /\ UNCHANGED <<linkVars, runVars, dedup, depthVars, quote>>
    <2> DEFINE x == [stream |-> "depth", id |-> 1, prev |-> sent[Newest("depth")].id]
               y == [stream |-> "bbo", id |-> 1, prev |-> sent[Newest("bbo")].id]
               m == Append(sent, x)
    <2>1. /\ Len(sent) + 2 <= MaxSent /\ restarts' = restarts + 1 /\ restarts < MaxRestarts
          /\ sent' = sent \o <<x, y>>
          /\ UNCHANGED <<linkVars, runVars, dedup, depthVars, quote>>
      BY <1>4 DEF VenueRestarts
    <2>2. {"depth", "bbo"} \subseteq Stream /\ 1 \in Id
      BY Bounds DEF Id, Stream
    <2>3. x \in Message /\ x.stream = "depth" /\ x.prev = sent[Newest("depth")].id /\ x.id = 1
      BY <1>2, <2>2 DEF Message
    <2>4. y \in Message /\ y.stream = "bbo" /\ y.prev = sent[Newest("bbo")].id /\ y.id = 1
      BY <1>2, <2>2 DEF Message
    <2>5. sent' = Append(m, y)
      <3> HIDE DEF x, y
      <3> QED
        BY <1>1, <2>1, <2>3, <2>4
    <2>6. restarts' \in Nat /\ restarts' > 0 /\ restarts <= restarts' /\ restarts' \in 0 .. MaxRestarts
      BY <1>1, <2>1, Bounds
    <2>a. Follows(sent, x, restarts', Stride)
      BY <1>2, <2>2, <2>3, <2>6 DEF Follows
    <2> HIDE DEF x, y
    <2>7. /\ History(m, restarts', Stride) /\ Len(m) = Len(sent) + 1 /\ m[Len(sent) + 1] = x
          /\ Extends(sent, m)
      BY <1>1, <2>6, <2>a, StrideType, HistoryGrows
    <2> HIDE DEF m
    <2>8. LastIn(m, "bbo", Len(m), Newest("bbo")) /\ m[Newest("bbo")] = sent[Newest("bbo")]
      <3>1. LastIn(sent, "bbo", Len(sent), Newest("bbo")) /\ Newest("bbo") \in 1 .. Len(sent)
        BY <1>2, <2>2
      <3> QED
        BY <1>1, <2>3, <2>7, <3>1 DEF LastIn, Extends
    <2>b. Follows(m, y, restarts', Stride) /\ restarts' <= restarts'
      BY <1>1, <1>2, <2>2, <2>4, <2>6, <2>7, <2>8 DEF Follows
    <2>9. /\ History(sent', restarts', Stride) /\ Len(sent') = Len(m) + 1
          /\ Extends(m, sent')
      BY <2>5, <2>6, <2>7, <2>b, StrideType, HistoryGrows
    <2> QED
      BY <1>1, <2>1, <2>6, <2>7, <2>9, Bounds DEF Extends
  <1> QED
    BY <1>3, <1>4

\* The two streams.
LEMMA StreamHas == "depth" \in Stream /\ "bbo" \in Stream
  BY DEF Stream

\* The fields the parsers set.
LEMMA ParsedIs ==
  ASSUME NEW way, NEW p
  PROVE  /\ Parsed(way, p).seq = sent[p].id
         /\ way = "opening" => Parsed(way, p).prev = -1
         /\ way = "push" => Parsed(way, p).prev = sent[p].prev
         /\ way = "repeat" => Parsed(way, p).prev = sent[p].id
         /\ Parsed(way, p).isSnapshot <=> (way = "opening" \/ (feed = "bybit" /\ sent[p].id = 1))
  BY DEF Parsed

\* Every message leaves the venue alone and keeps the types.
LEMMA MessageTypes ==
  ASSUME TypeInv, feed' = feed, NEW c \in Connection, NEW way \in Way, OnCombinedMessage(c, way)
  PROVE  TypeInv' /\ UNCHANGED venueVars /\ UNCHANGED sizeResolved
         /\ worker = "run" /\ worker' \in {"start", "run"}
         /\ (worker' = "start" => Live' = {})
  <1> USE StreamHas
  <1>0. /\ TypeOK /\ sent \in Seq(Message) /\ Len(sent) \in Nat /\ Len(sent) <= MaxSent
        /\ dedup \in [Stream -> [seen : BOOLEAN, last : Id]] /\ lastSeq \in Id /\ 0 \in Id
        /\ reconnectCount <= MaxReconnects \/ worker = "stopped"
        /\ book \in Position \cup {Wrong} /\ quote \in Position
    <2>1. 0 \in Id
      BY Bounds DEF Id
    <2>2. Len(sent) \in Nat /\ (reconnectCount <= MaxReconnects \/ worker = "stopped") /\ TypeOK
      BY DEF TypeInv, History
    <2> QED
      BY <2>1, <2>2 DEF TypeOK
  <1>1. ASSUME NEW s \in Stream, NEW id \in Id
        PROVE  [dedup EXCEPT ![s] = Rotated(id)] \in [Stream -> [seen : BOOLEAN, last : Id]]
    BY <1>0, <1>1 DEF Rotated
  <1>2. \A p \in 1 .. Len(sent) : p \in Position
    BY <1>0, Bounds DEF Position
  <1> DEFINE P == Arriving(c, "depth", way)
             U == Parsed(way, P)
  <1>3. ASSUME Arrives(c, "depth", way)
        PROVE  P \in 1 .. Len(sent) /\ U.seq \in Id /\ worker = "run"
    BY <1>3, ArrivingIs, ParsedIs
  <1>4. ASSUME NEW a, DepthArrives(c, way, U, a)
        PROVE  /\ Arrives(c, "depth", way)
               /\ dedup' \in [Stream -> [seen : BOOLEAN, last : Id]]
    <2>1. Arrives(c, "depth", way)
          /\ (dedup' = [dedup EXCEPT !["depth"] = Rotated(U.seq)] \/ dedup' = dedup)
      BY <1>4 DEF DepthArrives
    <2> QED
      BY <1>0, <1>1, <1>3, <2>1
  <1> HIDE DEF P, U
  <1>5. ASSUME DropDuplicate(c, way)
        PROVE  TypeInv' /\ UNCHANGED venueVars /\ UNCHANGED sizeResolved
               /\ worker = "run" /\ worker' \in {"start", "run"}
               /\ (worker' = "start" => Live' = {})
    <2>1. DepthArrives(c, way, U, FALSE) /\ Delivered(c, "depth", way)
          /\ UNCHANGED <<venueVars, runVars, depthVars, quote>>
      BY <1>5 DEF DropDuplicate, P, U
    <2>2. /\ Arrives(c, "depth", way)
          /\ dedup' \in [Stream -> [seen : BOOLEAN, last : Id]] /\ worker = "run"
      BY <1>3, <1>4, <2>1
    <2> QED
      BY <1>0, <2>1, <2>2, DeliveredIs DEF TypeInv, TypeOK, Stride
  <1>6. ASSUME TakeDepth(c, way)
        PROVE  TypeInv' /\ UNCHANGED venueVars /\ UNCHANGED sizeResolved
               /\ worker = "run" /\ worker' \in {"start", "run"}
               /\ (worker' = "start" => Live' = {})
    <2>1. /\ DepthArrives(c, way, U, TRUE) /\ Delivered(c, "depth", way)
          /\ UNCHANGED <<venueVars, runVars, quote>>
          /\ UNCHANGED depthVars \/ (lastSeq' = U.seq /\ Emit(U, P))
      BY <1>6 DEF TakeDepth, P, U
    <2>2. /\ Arrives(c, "depth", way)
          /\ dedup' \in [Stream -> [seen : BOOLEAN, last : Id]] /\ worker = "run"
          /\ P \in 1 .. Len(sent) /\ P \in Position /\ U.seq \in Id
      BY <1>2, <1>3, <1>4, <2>1
    <2>3. lastSeq' \in Id
      BY <1>0, <2>1, <2>2
    <2>4. book' \in {book, P, Wrong}
      BY <2>1 DEF Emit
    <2>5. book' \in Position \cup {Wrong} /\ (book' # Wrong => book' <= Len(sent))
      BY <1>0, <2>2, <2>4 DEF TypeInv
    <2> QED
      BY <1>0, <2>1, <2>2, <2>3, <2>5, DeliveredIs DEF TypeInv, TypeOK, Stride
  <1>7. ASSUME FindGap(c, way)
        PROVE  TypeInv' /\ UNCHANGED venueVars /\ UNCHANGED sizeResolved
               /\ worker = "run" /\ worker' \in {"start", "run"}
               /\ (worker' = "start" => Live' = {})
    <2>1. /\ DepthArrives(c, way, U, TRUE) /\ lastSeq' = 0 /\ RequestResync
          /\ UNCHANGED <<venueVars, reconnectCount, sizeResolved, book, quote>>
      BY <1>7 DEF FindGap, P, U
    <2>2. /\ Arrives(c, "depth", way)
          /\ dedup' \in [Stream -> [seen : BOOLEAN, last : Id]] /\ worker = "run"
      BY <1>3, <1>4, <2>1
    <2>3. /\ worker' = "start"
          /\ link' = [d \in Connection |-> "none"] /\ at' = [d \in Connection |-> 0]
          /\ opening' = [d \in Connection |-> {}]
      BY <2>1 DEF RequestResync
    <2>4. /\ link' \in [Connection -> {"none", "connecting", "open", "closed"}]
          /\ opening' \in [Connection -> SUBSET Stream] /\ Live' = {}
          /\ \A d \in Connection : link'[d] # "open"
      BY <2>3 DEF Live
    <2>5. at' \in [Connection -> Position]
      BY <2>3, Bounds DEF Position
    <2> QED
      BY <1>0, <2>1, <2>2, <2>3, <2>4, <2>5 DEF TypeInv, TypeOK, Stride
  <1>8. ASSUME OnBboMessage(c, way)
        PROVE  TypeInv' /\ UNCHANGED venueVars /\ UNCHANGED sizeResolved
               /\ worker = "run" /\ worker' \in {"start", "run"}
               /\ (worker' = "start" => Live' = {})
    <2> DEFINE B == Arriving(c, "bbo", way)
    <2>1. /\ Arrives(c, "bbo", way) /\ Delivered(c, "bbo", way)
          /\ UNCHANGED <<venueVars, runVars, depthVars>>
          /\ \/ dedup' = [dedup EXCEPT !["bbo"] = Rotated(sent[B].id)] /\ quote' = B
             \/ UNCHANGED <<dedup, quote>>
      BY <1>8 DEF OnBboMessage
    <2> HIDE DEF B
    <2>2. B \in 1 .. Len(sent) /\ B \in Position /\ sent[B].id \in Id /\ worker = "run"
      BY <1>2, <2>1, ArrivingIs DEF B
    <2>3. dedup' \in [Stream -> [seen : BOOLEAN, last : Id]]
      BY <1>0, <1>1, <2>1, <2>2
    <2>4. quote' \in Position /\ quote' <= Len(sent)
      BY <1>0, <2>1, <2>2 DEF TypeInv
    <2> QED
      BY <1>0, <2>1, <2>2, <2>3, <2>4, DeliveredIs DEF TypeInv, TypeOK, Stride
  <1> QED
    BY <1>5, <1>6, <1>7, <1>8 DEF OnCombinedMessage

\* The first two messages are a history.
LEMMA InitTypes == Init => TypeInv
  <1> SUFFICES ASSUME Init PROVE TypeInv
    OBVIOUS
  <1> DEFINE x == [stream |-> "depth", id |-> FirstId, prev |-> 0]
             y == [stream |-> "bbo", id |-> FirstId, prev |-> 0]
  <1>1. 0 \in Id /\ FirstId \in Id /\ 0 \in Position /\ 0 \in 0 .. MaxRestarts
        /\ 0 \in 0 .. MaxReconnects + 1 /\ FirstId \in Nat /\ 0 <= MaxReconnects /\ 2 <= MaxSent
    BY Bounds DEF Id, Position
  <1>2. x \in Message /\ y \in Message
    BY <1>1, StreamHas DEF Message
  <1>3. sent \in Seq(Message) /\ Len(sent) = 2 /\ sent[1] = x /\ sent[2] = y
    <2>1. sent = <<x, y>>
      BY DEF Init
    <2> HIDE DEF x, y
    <2> QED
      BY <1>2, <2>1
  <1>4. History(sent, restarts, Stride)
    BY <1>1, <1>3 DEF History
  <1>5. FreshDedup \in [Stream -> [seen : BOOLEAN, last : Id]]
    BY <1>1 DEF FreshDedup
  <1>6. TypeOK
    BY <1>1, <1>3, <1>5 DEF Init, TypeOK
  <1>7. \A c \in Connection : link[c] # "open"
    BY DEF Init
  <1> QED
    BY <1>1, <1>3, <1>4, <1>6, <1>7 DEF TypeInv, Init

\* Every handler keeps the types, and the venue its history.
LEMMA TypeStep == TypeInv /\ [Next]_vars => TypeInv'
  <1> SUFFICES ASSUME TypeInv, [Next]_vars PROVE TypeInv'
    OBVIOUS
  <1>0. /\ TypeOK /\ sent \in Seq(Message) /\ Len(sent) \in Nat /\ Len(sent) <= MaxSent /\ Len(sent) >= 2
        /\ reconnectCount \in Nat
        /\ link \in [Connection -> {"none", "connecting", "open", "closed"}]
        /\ at \in [Connection -> Position] /\ opening \in [Connection -> SUBSET Stream]
    <2>1. TypeOK /\ Len(sent) \in Nat /\ Len(sent) >= 2
      BY DEF TypeInv, History
    <2>2. reconnectCount \in Nat
      BY <2>1, Bounds DEF TypeOK
    <2> QED
      BY <2>1, <2>2 DEF TypeOK
  <1>1. CASE UNCHANGED vars
    BY <1>1 DEF TypeInv, TypeOK, Stride
  <1>2. ASSUME Next, VenueRestarts \/ \E s \in Stream : VenueSends(s) PROVE TypeInv'
    <2>1. /\ feed' = feed /\ History(sent', restarts', Stride) /\ Extends(sent, sent')
          /\ Len(sent') <= MaxSent /\ Len(sent) < Len(sent') /\ restarts' \in 0 .. MaxRestarts
          /\ UNCHANGED <<linkVars, runVars, dedup, depthVars, quote>>
      BY <1>2, VenueGrows DEF Next
    <2>2. sent' \in Seq(Message) /\ Len(sent') \in Nat /\ Stride' = Stride
      BY <2>1 DEF History, Stride
    <2>3. TypeOK'
      BY <2>1, <2>2 DEF TypeInv, TypeOK
    <2>4. \A c \in Connection : link'[c] = "open" => at'[c] \in 2 .. Len(sent')
      BY <1>0, <2>1, <2>2 DEF TypeInv
    <2>5. (book' # Wrong => book' <= Len(sent')) /\ quote' <= Len(sent')
      BY <1>0, <2>1, <2>2, Bounds DEF TypeInv, TypeOK, Position
    <2> QED
      BY <2>1, <2>2, <2>3, <2>4, <2>5 DEF TypeInv
  <1>3. ASSUME feed' = feed, StartRun PROVE TypeInv'
    <2>1. FreshDedup \in [Stream -> [seen : BOOLEAN, last : Id]]
      BY Bounds DEF FreshDedup, Id
    <2>2. sizeResolved' \in BOOLEAN
      BY <1>3 DEF StartRun
    <2>3. link' \in [Connection -> {"none", "connecting", "open", "closed"}]
          /\ \A c \in Connection : link'[c] # "open"
      BY <1>3 DEF StartRun
    <2> QED
      BY <1>3, <2>1, <2>2, <2>3 DEF TypeInv, TypeOK, StartRun, Stride
  <1>4. ASSUME feed' = feed, HandleReconnection, worker # "stopped",
               UNCHANGED <<venueVars, linkVars, sizeResolved, dedup, depthVars, quote>>
        PROVE  TypeInv'
    <2>1. reconnectCount <= MaxReconnects
      BY <1>4 DEF TypeInv
    <2>2. /\ reconnectCount' \in 0 .. MaxReconnects + 1 /\ worker' \in {"start", "run", "stopped"}
          /\ worker' # "stopped" => reconnectCount' <= MaxReconnects
      BY <1>0, <1>4, <2>1, Bounds DEF HandleReconnection
    <2> QED
      BY <1>4, <2>2 DEF TypeInv, TypeOK, Stride
  <1>5. ASSUME feed' = feed, NEW c \in Connection, OnHandshake(c) PROVE TypeInv'
    <2>1. Len(sent) \in Position
      BY <1>0, Bounds DEF Position
    <2>2. /\ link' \in [Connection -> {"none", "connecting", "open", "closed"}]
          /\ opening' \in [Connection -> SUBSET Stream]
      BY <1>0, <1>5 DEF OnHandshake
    <2>3. at' \in [Connection -> Position]
      BY <1>0, <1>5, <2>1 DEF OnHandshake
    <2>4. ASSUME NEW d \in Connection, link'[d] = "open" PROVE at'[d] \in 2 .. Len(sent)
      <3>1. CASE d = c
        BY <1>0, <1>5, <3>1 DEF OnHandshake
      <3>2. CASE d # c
        BY <1>0, <1>5, <2>4, <3>2 DEF OnHandshake, TypeInv
      <3> QED
        BY <3>1, <3>2
    <2> QED
      BY <1>5, <2>2, <2>3, <2>4 DEF TypeInv, TypeOK, OnHandshake, Stride
  <1>6. ASSUME feed' = feed, NEW c \in Connection, OnCombinedSessionClosed(c) PROVE TypeInv'
    <2>1. 0 \in Position
      BY Bounds DEF Position
    <2>2. /\ link' \in [Connection -> {"none", "connecting", "open", "closed"}]
          /\ opening' \in [Connection -> SUBSET Stream]
      BY <1>0, <1>6 DEF OnCombinedSessionClosed
    <2>3. at' \in [Connection -> Position]
      BY <1>0, <1>6, <2>1 DEF OnCombinedSessionClosed
    <2>4. ASSUME NEW d \in Connection, link'[d] = "open" PROVE at'[d] \in 2 .. Len(sent)
      BY <1>0, <1>6, <2>4 DEF OnCombinedSessionClosed, TypeInv
    <2> QED
      BY <1>6, <2>2, <2>3, <2>4 DEF TypeInv, TypeOK, OnCombinedSessionClosed, Stride
  <1> QED
    BY <1>1, <1>2, <1>3, <1>4, <1>5, <1>6, MessageTypes
    DEF Next, Step, RefuseToConnect, RunReturns, Way

\* Types, with the history of the venue: the ids stay within Id however it
\* restarts, the budget of handle_reconnection within MAX_RECONNECT_ATTEMPTS, and
\* a socket never runs ahead of the venue.
THEOREM TypeCorrect == Spec => []TypeInv
  BY InitTypes, TypeStep, PTL DEF Spec

---------------------------------------------------------------------------
(* The contract size of a swap.                                             *)

\* There are sockets only while ioc.run is running, and neither that nor a book
\* or a quote precedes the contract size.
ScaleInv ==
  /\ worker # "run" => Live = {}
  /\ feed = "okxSwap" /\ (worker = "run" \/ book # 0 \/ quote # 0) => sizeResolved

\* Only StartRun makes sockets, and it has the size.
LEMMA ScaleStep == TypeInv /\ ScaleInv /\ [Next]_vars => ScaleInv'
  <1> SUFFICES ASSUME TypeInv, ScaleInv, [Next]_vars PROVE ScaleInv'
    OBVIOUS
  <1>1. CASE UNCHANGED vars
    BY <1>1 DEF ScaleInv, Live
  <1>2. ASSUME feed' = feed, VenueRestarts \/ \E s \in Stream : VenueSends(s) PROVE ScaleInv'
    BY <1>2 DEF ScaleInv, Live, VenueRestarts, VenueSends
  <1>3. ASSUME feed' = feed, StartRun PROVE ScaleInv'
    BY <1>3 DEF ScaleInv, StartRun
  <1>4. ASSUME feed' = feed, RefuseToConnect \/ RunReturns PROVE ScaleInv'
    BY <1>4 DEF ScaleInv, Live, RefuseToConnect, RunReturns, HandleReconnection
  <1>5. ASSUME feed' = feed, NEW c \in Connection, OnHandshake(c) \/ OnCombinedSessionClosed(c)
        PROVE  ScaleInv'
    BY <1>5 DEF ScaleInv, OnHandshake, OnCombinedSessionClosed
  <1>6. ASSUME feed' = feed, NEW c \in Connection, NEW way \in Way, OnCombinedMessage(c, way)
        PROVE  ScaleInv'
    BY <1>6, MessageTypes DEF ScaleInv
  <1> QED
    BY <1>1, <1>2, <1>3, <1>4, <1>5, <1>6 DEF Next, Step, Way

\* ScaleIsKnown, for any number of sockets, restarts and resyncs: StartRun is the
\* only way to a socket, and OnReconnect has the size before it.
THEOREM ScaleIsKnownHolds == Spec => []ScaleIsKnown
  <1>1. Init => ScaleInv
    BY DEF Init, ScaleInv, Live
  <1>2. TypeInv /\ ScaleInv => ScaleIsKnown
    BY DEF ScaleInv, ScaleIsKnown
  <1> QED
    BY <1>1, <1>2, ScaleStep, TypeCorrect, PTL DEF Spec

---------------------------------------------------------------------------
(* The book.                                                                *)

\* No id of the depth stream is used twice, and none is just below the first one.
\* A venue that restarts once and does not count up to its old ids satisfies it,
\* and so does one that never restarts.
IdsDiffer ==
  \A p, q \in 1 .. Len(sent) : sent[p].stream = "depth" /\ sent[q].stream = "depth" =>
     /\ sent[p].id = sent[q].id => p = q
     /\ sent[p].id + 1 # FirstId

Seen == dedup["depth"].seen

Subscribed(c) == link[c] = "open" /\ "depth" \notin opening[c]

\* A socket all of whose depth messages are in the book.
Carrier(d) == Subscribed(d) /\ \A r \in book + 1 .. at[d] : sent[r].stream # "depth"

\* The sequence, the mark of the filter and the book belong together from the
\* first snapshot of a run on; before it, every socket is to deliver a state no
\* older than the book; and no socket was lost unless one has been carried.
RunInv ==
  /\ Seen => book # 0 /\ lastSeq = dedup["depth"].last /\ lastSeq = sent[book].id
  /\ \A c \in Connection : Subscribed(c) => Seen
  /\ ~Seen => \A c \in Connection : link[c] = "open" => book <= at[c]
  /\ Seen /\ (\A c \in Connection : link[c] # "closed") => \E d \in Connection : Carrier(d)

BookInv ==
  /\ book # Wrong
  /\ book # 0 => sent[book].stream = "depth"
  /\ worker = "run" => RunInv

\* A message of the depth stream after the first continues the one before it.
LEMMA DepthContinues ==
  ASSUME TypeInv, IdsDiffer, NEW p \in 1 .. Len(sent), sent[p].stream = "depth", p # 1
  PROVE  \E q \in 1 .. p - 1 :
           /\ LastIn(sent, "depth", p - 1, q) /\ AsOf("depth", p - 1) = q
           /\ q \in 1 .. Len(sent) /\ sent[q].stream = "depth" /\ sent[q].id \in Nat
           /\ sent[p].prev = sent[q].id /\ sent[p].id # sent[q].id
           /\ sent[p].id = sent[q].id + Stride \/ sent[p].id = 1
  <1>1. /\ sent \in Seq(Message) /\ Len(sent) \in Nat /\ sent[2].stream = "bbo"
        /\ \A r \in 3 .. Len(sent) : Continues(sent, r, restarts, Stride)
    BY DEF TypeInv, History
  <1>2. p \in 3 .. Len(sent)
    BY <1>1
  <1>3. PICK q \in 1 .. p - 1 :
          /\ LastIn(sent, "depth", p - 1, q) /\ sent[p].prev = sent[q].id
          /\ sent[p].id = sent[q].id + Stride \/ sent[p].id = 1
    BY <1>1, <1>2 DEF Continues
  <1>4. q \in 1 .. Len(sent) /\ sent[q].stream = "depth" /\ AsOf("depth", p - 1) = q
    BY <1>1, <1>2, <1>3, AsOfIs DEF LastIn
  <1>5. sent[q].id \in Nat
    BY <1>1, <1>4, MessageParts
  <1>6. sent[p].id # sent[q].id
    BY <1>4, <1>3 DEF IdsDiffer
  <1> QED
    BY <1>3, <1>4, <1>5, <1>6

\* The book while ioc.run is running: a position of the depth stream.
LEMMA BookIs ==
  ASSUME TypeInv, BookInv
  PROVE  /\ book \in Nat
         /\ book # 0 => book \in 1 .. Len(sent) /\ sent[book].stream = "depth" /\ sent[book].id \in Nat
  <1>1. book \in Position /\ book # Wrong /\ book <= Len(sent) /\ Len(sent) \in Nat /\ sent \in Seq(Message)
    BY DEF TypeInv, TypeOK, BookInv, History
  <1>2. book \in Nat
    BY <1>1, Bounds DEF Position
  <1>3. book # 0 => book \in 1 .. Len(sent)
    BY <1>1, <1>2
  <1>4. book # 0 => sent[book].stream = "depth"
    BY DEF BookInv
  <1> QED
    BY <1>1, <1>2, <1>3, <1>4, MessageParts

\* A message that passes the filter and leaves no gap is emitted, leads from the
\* book as it is to the next one, and takes it back only over a restart.
LEMMA Taken ==
  ASSUME TypeInv, IdsDiffer, BookInv, NEW c \in Connection, NEW way \in Way,
         Arrives(c, "depth", way),
         NEW p, p = Arriving(c, "depth", way), NEW u, u = Parsed(way, p),
         Accept(dedup["depth"], u.seq, VenueReset(u)), Continuity(u) # "kGap"
  PROVE  /\ Continuity(u) # "kIgnore"
         /\ u.isSnapshot \/ (p > 1 /\ book = AsOf("depth", p - 1))
         /\ p < book => \E r \in p .. book : sent[r].stream = "depth" /\ sent[r].id = 1
  <1> USE StreamHas
  <1>1. /\ worker = "run" /\ link[c] = "open" /\ at[c] \in 2 .. Len(sent)
        /\ p \in 1 .. Len(sent) /\ sent[p].stream = "depth"
        /\ sent[p].id \in Nat /\ sent[p].prev \in Nat
        /\ way = "push" => p = at[c] + 1 /\ opening[c] = {}
        /\ way = "repeat" => opening[c] = {}
        /\ way # "push" => LastIn(sent, "depth", at[c], p)
    BY ArrivingIs
  <1>2. /\ u.seq = sent[p].id
        /\ way = "opening" => u.prev = -1
        /\ way = "push" => u.prev = sent[p].prev
        /\ way = "repeat" => u.prev = sent[p].id
        /\ u.isSnapshot <=> (way = "opening" \/ (feed = "bybit" /\ sent[p].id = 1))
    BY ParsedIs
  <1>3. /\ RunInv /\ book \in Nat /\ Len(sent) \in Nat
        /\ book # 0 => book \in 1 .. Len(sent) /\ sent[book].stream = "depth" /\ sent[book].id \in Nat
    BY <1>1, BookIs DEF BookInv, TypeInv, History
  <1>4. CASE ~Seen
    <2>1. way = "opening"
      BY <1>1, <1>3, <1>4 DEF RunInv, Subscribed, Way
    <2>2. u.isSnapshot /\ Continuity(u) = "kReset"
      BY <1>2, <2>1 DEF Continuity
    <2>3. book <= p
      <3>1. book <= at[c] /\ LastIn(sent, "depth", at[c], p)
        BY <1>1, <1>3, <1>4, <2>1 DEF RunInv
      <3> QED
        BY <1>1, <1>3, <3>1 DEF LastIn
    <2> QED
      BY <1>1, <1>3, <2>2, <2>3
  <1>5. CASE Seen
    <2>1. book # 0 /\ lastSeq = dedup["depth"].last /\ lastSeq = sent[book].id
      BY <1>3, <1>5 DEF RunInv
    <2>2. IF VenueReset(u) THEN u.seq # lastSeq ELSE u.seq > lastSeq
      BY <1>5, <2>1 DEF Accept, Seen
    <2>3. VenueReset(u) => sent[p].id = 1
      <3>1. CASE feed = "bybit"
        BY <1>2, <3>1 DEF VenueReset
      <3>2. ASSUME feed # "bybit", VenueReset(u) PROVE sent[p].id = 1
        <4>1. u.prev > 0 /\ u.seq < u.prev
          BY <3>2 DEF VenueReset
        <4>2. way = "push" /\ p # 1 /\ sent[p].id < sent[p].prev
          BY <1>1, <1>2, <4>1 DEF Way
        <4> QED
          <5>1. PICK q \in 1 .. p - 1 :
                  /\ sent[q].id \in Nat /\ sent[p].prev = sent[q].id
                  /\ sent[p].id = sent[q].id + Stride \/ sent[p].id = 1
            BY <1>1, <4>2, DepthContinues
          <5> QED
            BY <1>1, <4>2, <5>1, StrideType
      <3> QED
        BY <3>1, <3>2
    <2>4. u.seq # lastSeq /\ sent[p].id # sent[book].id
      BY <1>1, <1>2, <1>3, <2>1, <2>2
    <2>5. ASSUME p < book
          PROVE  \E r \in p .. book : sent[r].stream = "depth" /\ sent[r].id = 1
      <3>1. CASE VenueReset(u)
        BY <1>1, <1>3, <2>3, <2>5, <3>1
      <3>2. CASE ~VenueReset(u)
        <4>1. Rises(sent, p, book, restarts)
          BY <1>1, <1>3, <2>1, <2>5 DEF TypeInv, History
        <4>2. ~(sent[p].id < sent[book].id)
          BY <1>1, <1>2, <1>3, <2>1, <2>2, <3>2
        <4>3. PICK r \in p + 1 .. book : sent[r].stream = sent[p].stream /\ sent[r].id = 1
          BY <4>1, <4>2 DEF Rises
        <4> QED
          BY <1>1, <1>3, <4>3
      <3> QED
        BY <3>1, <3>2
    <2>6. CASE u.isSnapshot
      BY <2>5, <2>6 DEF Continuity
    <2>7. CASE ~u.isSnapshot
      <3>1. CASE feed = "bybit"
        <4>1. u.seq = lastSeq + 1 /\ Continuity(u) = "kApply"
          BY <2>4, <2>7, <3>1 DEF Continuity
        <4>2. p # 1
          <5>1. p = 1 => sent[p].id = FirstId
            BY DEF TypeInv, History
          <5> QED
            BY <1>2, <1>3, <2>1, <4>1, <5>1 DEF IdsDiffer
        <4>3. PICK q \in 1 .. p - 1 :
                /\ AsOf("depth", p - 1) = q /\ q \in 1 .. Len(sent) /\ sent[q].stream = "depth"
                /\ sent[q].id \in Nat
                /\ sent[p].id = sent[q].id + Stride \/ sent[p].id = 1
          BY <1>1, <4>2, DepthContinues
        <4>4. sent[p].id = sent[q].id + 1 /\ sent[q].id = sent[book].id
          <5>1. sent[p].id # 1 /\ Stride = 1
            BY <1>2, <2>7, <3>1 DEF Stride
          <5>2. sent[p].id = sent[book].id + 1 /\ sent[book].id \in Nat
            BY <1>2, <1>3, <2>1, <4>1
          <5> QED
            BY <4>3, <5>1, <5>2
        <4>5. q = book
          BY <1>3, <2>1, <4>3, <4>4 DEF IdsDiffer
        <4> QED
          BY <1>1, <2>5, <4>1, <4>2, <4>3, <4>5
      <3>2. CASE feed # "bybit"
        <4>1. u.prev = lastSeq /\ u.seq # u.prev
          BY <2>4, <2>7, <3>2 DEF Continuity
        <4>2. way = "push" /\ p # 1
          BY <1>1, <1>2, <2>7, <3>2, <4>1 DEF Way
        <4>3. PICK q \in 1 .. p - 1 :
                /\ AsOf("depth", p - 1) = q /\ q \in 1 .. Len(sent) /\ sent[q].stream = "depth"
                /\ sent[p].prev = sent[q].id
          BY <1>1, <4>2, DepthContinues
        <4>4. q = book
          BY <1>2, <1>3, <2>1, <4>1, <4>2, <4>3 DEF IdsDiffer
        <4>5. Continuity(u) = "kApply"
          BY <2>7, <3>2, <4>1 DEF Continuity
        <4> QED
          BY <1>1, <2>5, <4>2, <4>3, <4>4, <4>5
      <3> QED
        BY <3>1, <3>2
    <2> QED
      BY <2>6, <2>7
  <1> QED
    BY <1>4, <1>5

\* What the filter drops from a socket that has been carried is in the book.
LEMMA Dropped ==
  ASSUME TypeInv, IdsDiffer, BookInv, NEW c \in Connection,
         Arrives(c, "depth", "push"),
         NEW p, p = Arriving(c, "depth", "push"), NEW u, u = Parsed("push", p),
         ~Accept(dedup["depth"], u.seq, VenueReset(u)), Carrier(c)
  PROVE  p <= book
  <1> USE StreamHas
  <1>1. /\ worker = "run" /\ at[c] \in 2 .. Len(sent)
        /\ p \in 1 .. Len(sent) /\ sent[p].stream = "depth"
        /\ sent[p].id \in Nat /\ sent[p].prev \in Nat /\ p = at[c] + 1
    BY ArrivingIs DEF Way
  <1>2. u.seq = sent[p].id /\ u.prev = sent[p].prev
    BY ParsedIs
  <1>3. /\ RunInv /\ book \in Nat /\ Len(sent) \in Nat
        /\ book # 0 => book \in 1 .. Len(sent) /\ sent[book].stream = "depth" /\ sent[book].id \in Nat
    BY <1>1, BookIs DEF BookInv, TypeInv, History
  <1>4. Seen /\ book # 0 /\ sent[book].id = dedup["depth"].last
    BY <1>3 DEF RunInv, Carrier
  <1>5. ~(IF VenueReset(u) THEN u.seq # sent[book].id ELSE u.seq > sent[book].id)
    BY <1>4 DEF Accept, Seen
  <1>6. CASE VenueReset(u)
    <2>1. sent[p].id = sent[book].id
      BY <1>2, <1>5, <1>6
    <2> QED
      BY <1>1, <1>3, <1>4, <2>1 DEF IdsDiffer
  <1>7. ASSUME ~VenueReset(u), book < p PROVE FALSE
    <2>1. sent[p].id <= sent[book].id
      BY <1>1, <1>2, <1>3, <1>4, <1>5, <1>7
    <2>2. PICK q \in 1 .. p - 1 :
            /\ LastIn(sent, "depth", p - 1, q) /\ AsOf("depth", p - 1) = q
            /\ sent[q].id \in Nat
            /\ sent[p].prev = sent[q].id /\ sent[p].id # sent[q].id
            /\ sent[p].id = sent[q].id + Stride \/ sent[p].id = 1
      <3>1. p # 1
        BY <1>1, <1>3
      <3> QED
        BY <1>1, <3>1, DepthContinues
    <2>3. q <= book
      BY <1>1, <1>3, <2>2 DEF Carrier, LastIn
    <2>4. q = book
      BY <1>1, <1>3, <1>4, <1>7, <2>2, <2>3 DEF LastIn
    <2>5. sent[p].id = 1 /\ sent[q].id > 1
      BY <1>1, <2>1, <2>2, <2>4, StrideType
    <2> QED
      BY <1>2, <1>7, <2>2, <2>5 DEF VenueReset
  <1> QED
    BY <1>1, <1>3, <1>6, <1>7

\* A message that passes the filter.
LEMMA TakeIs ==
  ASSUME TypeInv, IdsDiffer, BookInv, NEW c \in Connection, NEW way \in Way, TakeDepth(c, way)
  PROVE  \E p \in 1 .. Len(sent) :
           /\ Arrives(c, "depth", way) /\ Delivered(c, "depth", way)
           /\ p = Arriving(c, "depth", way) /\ sent[p].stream = "depth"
           /\ dedup' = [dedup EXCEPT !["depth"] = Rotated(sent[p].id)]
           /\ lastSeq' = sent[p].id /\ book' = p
           /\ p < book => \E r \in p .. book : sent[r].stream = "depth" /\ sent[r].id = 1
           /\ UNCHANGED <<venueVars, runVars, quote>>
  <1> DEFINE p == Arriving(c, "depth", way)
             u == Parsed(way, p)
  <1>1. /\ DepthArrives(c, way, u, TRUE) /\ Continuity(u) # "kGap" /\ Delivered(c, "depth", way)
        /\ IF Continuity(u) = "kIgnore" THEN UNCHANGED depthVars
           ELSE lastSeq' = u.seq /\ Emit(u, p)
        /\ UNCHANGED <<venueVars, runVars, quote>>
    BY DEF TakeDepth
  <1>2. /\ Arrives(c, "depth", way) /\ Accept(dedup["depth"], u.seq, VenueReset(u))
        /\ dedup' = [dedup EXCEPT !["depth"] = Rotated(u.seq)]
    BY <1>1, Zenon DEF DepthArrives
  <1>3. u.seq = sent[p].id /\ p \in 1 .. Len(sent) /\ sent[p].stream = "depth"
    BY <1>2, ArrivingIs, ParsedIs, StreamHas
  <1>4. /\ Continuity(u) # "kIgnore"
        /\ u.isSnapshot \/ (p > 1 /\ book = AsOf("depth", p - 1))
        /\ p < book => \E r \in p .. book : sent[r].stream = "depth" /\ sent[r].id = 1
    <2> HIDE DEF p, u
    <2>1. p = Arriving(c, "depth", way) /\ u = Parsed(way, p)
      BY DEF p, u
    <2> QED
      BY <1>1, <1>2, <2>1, Taken
  <1> HIDE DEF p, u
  <1>5. book' = p
    BY <1>1, <1>4 DEF Emit, BookInv
  <1>6. p = Arriving(c, "depth", way)
    BY DEF p
  <1> QED
    BY <1>1, <1>2, <1>3, <1>4, <1>5, <1>6

\* A message the filter drops.
LEMMA DropIs ==
  ASSUME TypeInv, IdsDiffer, BookInv, NEW c \in Connection, NEW way \in Way, DropDuplicate(c, way)
  PROVE  /\ Arrives(c, "depth", way) /\ Delivered(c, "depth", way) /\ Seen
         /\ way = "push" /\ Carrier(c) => at[c] + 1 <= book
         /\ UNCHANGED <<venueVars, runVars, dedup, depthVars, quote>>
  <1> DEFINE p == Arriving(c, "depth", way)
             u == Parsed(way, p)
  <1>1. /\ DepthArrives(c, way, u, FALSE) /\ Delivered(c, "depth", way)
        /\ UNCHANGED <<venueVars, runVars, depthVars, quote>>
    BY DEF DropDuplicate
  <1>2. /\ Arrives(c, "depth", way) /\ ~Accept(dedup["depth"], u.seq, VenueReset(u))
        /\ dedup' = dedup
    BY <1>1, Zenon DEF DepthArrives
  <1>3. Seen
    BY <1>2 DEF Accept, Seen
  <1>4. ASSUME way = "push", Carrier(c) PROVE at[c] + 1 <= book
    <2>1. p = at[c] + 1
      BY <1>4 DEF Arriving
    <2> HIDE DEF p, u
    <2>2. p = Arriving(c, "depth", way) /\ u = Parsed(way, p)
      BY DEF p, u
    <2> QED
      BY <1>2, <1>4, <2>1, <2>2, Dropped
  <1> QED
    BY <1>1, <1>2, <1>3, <1>4

\* Every handler keeps the sequence, the mark and the book together.
LEMMA BookStep ==
  TypeInv /\ IdsDiffer /\ BookInv /\ [Next]_vars => BookInv'
  <1> SUFFICES ASSUME TypeInv, IdsDiffer, BookInv, [Next]_vars PROVE BookInv'
    OBVIOUS
  <1> USE StreamHas
  <1>0. /\ book \in Nat /\ Len(sent) \in Nat /\ sent \in Seq(Message)
        /\ book # 0 => book \in 1 .. Len(sent) /\ sent[book].stream = "depth"
        /\ book <= Len(sent) /\ book # Wrong
        /\ \A d \in Connection : link[d] = "open" => at[d] \in 2 .. Len(sent)
        /\ \A d \in Connection : opening[d] \subseteq Stream
        /\ link \in [Connection -> {"none", "connecting", "open", "closed"}]
        /\ at \in [Connection -> Position] /\ opening \in [Connection -> SUBSET Stream]
        /\ dedup \in [Stream -> [seen : BOOLEAN, last : Id]]
    BY BookIs DEF TypeInv, TypeOK, History, BookInv
  <1>1. CASE UNCHANGED vars
    BY <1>1 DEF BookInv, RunInv, Seen, Subscribed, Carrier
  <1>2. ASSUME feed' = feed, VenueRestarts \/ \E s \in Stream : VenueSends(s) PROVE BookInv'
    <2>1. /\ Extends(sent, sent') /\ UNCHANGED <<linkVars, runVars, dedup, depthVars, quote>>
      BY <1>2, VenueGrows
    <2>2. \A i \in 1 .. Len(sent) : sent'[i] = sent[i]
      BY <2>1 DEF Extends
    <2>3. ASSUME RunInv PROVE RunInv'
      <3>1. ASSUME NEW d \in Connection, Carrier(d) PROVE Carrier(d)'
        BY <1>0, <2>1, <2>2, <3>1 DEF Carrier, Subscribed
      <3>2. Seen' = Seen /\ \A d \in Connection : Subscribed(d)' = Subscribed(d)
        BY <2>1 DEF Seen, Subscribed
      <3>3. book # 0 => sent'[book] = sent[book]
        BY <1>0, <2>2
      <3> QED
        BY <1>0, <2>1, <2>3, <3>1, <3>2, <3>3 DEF RunInv
    <2> QED
      BY <1>0, <2>1, <2>2, <2>3 DEF BookInv
  <1>3. ASSUME StartRun PROVE BookInv'
    <2>1. ~Seen' /\ (\A d \in Connection : link'[d] = "connecting")
          /\ UNCHANGED <<sent, book>>
      BY <1>3 DEF StartRun, Seen, FreshDedup
    <2>2. RunInv'
      BY <2>1 DEF RunInv, Subscribed
    <2> QED
      BY <2>1, <2>2 DEF BookInv
  <1>4. ASSUME RefuseToConnect \/ RunReturns PROVE BookInv'
    BY <1>4 DEF BookInv, RefuseToConnect, RunReturns, HandleReconnection
  <1>5. ASSUME NEW c \in Connection, OnHandshake(c) PROVE BookInv'
    <2>1. /\ RunInv /\ link[c] = "connecting" /\ UNCHANGED <<sent, dedup, depthVars>>
          /\ link'[c] = "open" /\ at'[c] = Len(sent) /\ opening'[c] = Stream
          /\ \A d \in Connection : d # c =>
               link'[d] = link[d] /\ at'[d] = at[d] /\ opening'[d] = opening[d]
      BY <1>0, <1>5 DEF OnHandshake, BookInv
    <2>2. Seen' = Seen /\ ~Subscribed(c)'
          /\ \A d \in Connection : d # c => Subscribed(d)' = Subscribed(d)
      BY <2>1 DEF Seen, Subscribed
    <2>3. ASSUME NEW d \in Connection, Carrier(d) PROVE Carrier(d)'
      BY <2>1, <2>2, <2>3 DEF Carrier, Subscribed
    <2>4. \A d \in Connection : link'[d] # "closed" => link[d] # "closed"
      BY <2>1
    <2>5. ASSUME ~Seen, NEW d \in Connection, link'[d] = "open" PROVE book <= at'[d]
      BY <1>0, <2>1, <2>5 DEF RunInv
    <2>6. RunInv'
      BY <2>1, <2>2, <2>3, <2>4, <2>5 DEF RunInv
    <2> QED
      BY <1>0, <2>1, <2>6 DEF BookInv
  <1>6. ASSUME NEW c \in Connection, OnCombinedSessionClosed(c) PROVE BookInv'
    <2>1. /\ RunInv /\ UNCHANGED <<sent, dedup, depthVars>> /\ link'[c] = "closed"
          /\ \A d \in Connection : d # c =>
               link'[d] = link[d] /\ at'[d] = at[d] /\ opening'[d] = opening[d]
      BY <1>0, <1>6 DEF OnCombinedSessionClosed, BookInv
    <2>2. RunInv'
      BY <2>1 DEF RunInv, Seen, Subscribed
    <2> QED
      BY <1>0, <2>1, <2>2 DEF BookInv
  <1>7. ASSUME NEW c \in Connection, NEW way \in Way, DropDuplicate(c, way) PROVE BookInv'
    <2>1. /\ Arrives(c, "depth", way) /\ Delivered(c, "depth", way) /\ Seen
          /\ way = "push" /\ Carrier(c) => at[c] + 1 <= book
          /\ UNCHANGED <<venueVars, runVars, dedup, depthVars, quote>>
      BY <1>7, DropIs
    <2>2. /\ link' = link /\ at'[c] = (IF way = "push" THEN at[c] + 1 ELSE at[c])
          /\ opening'[c] = opening[c] \ {"depth"}
          /\ \A d \in Connection : d # c => at'[d] = at[d] /\ opening'[d] = opening[d]
      BY <2>1, DeliveredIs
    <2>3. RunInv /\ Seen' /\ link[c] = "open" /\ at[c] \in Nat
      BY <1>0, <2>1, ArrivingIs DEF BookInv, Seen
    <2>4. ASSUME NEW d \in Connection, Carrier(d) PROVE Carrier(d)'
      <3>1. CASE d # c
        BY <2>1, <2>2, <2>4, <3>1 DEF Carrier, Subscribed
      <3>2. CASE d = c /\ way = "push"
        <4>1. at'[c] <= book /\ at'[c] \in Nat
          BY <2>1, <2>2, <2>3, <2>4, <3>2
        <4>2. Subscribed(c)'
          BY <2>2, <2>3 DEF Subscribed
        <4> QED
          BY <1>0, <2>1, <3>2, <4>1, <4>2 DEF Carrier
      <3>3. CASE d = c /\ way # "push"
        BY <2>1, <2>2, <2>4, <3>3 DEF Carrier, Subscribed
      <3> QED
        BY <3>1, <3>2, <3>3
    <2>5. RunInv'
      BY <2>1, <2>2, <2>3, <2>4 DEF RunInv
    <2> QED
      BY <1>0, <2>1, <2>5 DEF BookInv
  <1>8. ASSUME NEW c \in Connection, NEW way \in Way, TakeDepth(c, way) PROVE BookInv'
    <2>1. PICK p \in 1 .. Len(sent) :
            /\ Arrives(c, "depth", way) /\ Delivered(c, "depth", way)
            /\ p = Arriving(c, "depth", way) /\ sent[p].stream = "depth"
            /\ dedup' = [dedup EXCEPT !["depth"] = Rotated(sent[p].id)]
            /\ lastSeq' = sent[p].id /\ book' = p
            /\ UNCHANGED <<venueVars, runVars, quote>>
      BY <1>8, TakeIs
    <2>2. /\ link' = link /\ at'[c] = (IF way = "push" THEN at[c] + 1 ELSE at[c])
          /\ opening'[c] = opening[c] \ {"depth"}
      BY <2>1, DeliveredIs
    <2>3. /\ link[c] = "open" /\ at[c] \in Nat
          /\ way = "push" => p = at[c] + 1
          /\ way # "push" => LastIn(sent, "depth", at[c], p)
      BY <1>0, <2>1, ArrivingIs
    <2>4. Seen' /\ dedup'["depth"].last = sent[p].id
      BY <1>0, <2>1 DEF Seen, Rotated
    <2>5. \A r \in p + 1 .. at'[c] : sent[r].stream # "depth"
      BY <1>0, <2>2, <2>3 DEF LastIn
    <2>6. Carrier(c)'
      BY <2>1, <2>2, <2>3, <2>5 DEF Carrier, Subscribed
    <2>7. p # 0 /\ p # Wrong
      BY <1>0, Bounds, FeedAssumption
    <2>8. RunInv'
      BY <2>1, <2>4, <2>6, <2>7 DEF RunInv
    <2> QED
      BY <2>1, <2>7, <2>8 DEF BookInv
  <1>9. ASSUME NEW c \in Connection, NEW way \in Way, FindGap(c, way) PROVE BookInv'
    BY <1>9 DEF FindGap, RequestResync, BookInv
  <1>10. ASSUME NEW c \in Connection, NEW way \in Way, OnBboMessage(c, way) PROVE BookInv'
    <2>1. /\ Arrives(c, "bbo", way) /\ Delivered(c, "bbo", way)
          /\ UNCHANGED <<venueVars, runVars, depthVars>>
          /\ dedup'["depth"] = dedup["depth"]
      BY <1>0, <1>10 DEF OnBboMessage
    <2>2. /\ link' = link /\ at'[c] = (IF way = "push" THEN at[c] + 1 ELSE at[c])
          /\ opening'[c] = opening[c] \ {"bbo"}
          /\ \A d \in Connection : d # c => at'[d] = at[d] /\ opening'[d] = opening[d]
      BY <2>1, DeliveredIs
    <2>3. RunInv /\ Seen' = Seen /\ at[c] \in Nat
          /\ \A d \in Connection : Subscribed(d)' = Subscribed(d)
      <3>1. worker = "run" /\ at[c] \in Nat
        BY <1>0, <2>1, ArrivingIs
      <3>2. ASSUME NEW d \in Connection PROVE Subscribed(d)' = Subscribed(d)
        <4>1. link'[d] = link[d] /\ ("depth" \in opening'[d] <=> "depth" \in opening[d])
          BY <2>2
        <4> QED
          BY <4>1 DEF Subscribed
      <3>3. Seen' = Seen
        BY <2>1 DEF Seen
      <3> QED
        BY <3>1, <3>2, <3>3 DEF BookInv
    <2>4. way = "push" => sent[at[c] + 1].stream = "bbo"
      BY <2>1 DEF Arrives
    <2>5. ASSUME NEW d \in Connection, Carrier(d) PROVE Carrier(d)'
      <3>1. ASSUME NEW r \in book + 1 .. at'[d] PROVE sent[r].stream # "depth"
        <4>1. CASE d = c /\ way = "push" /\ r = at[c] + 1
          BY <2>4, <4>1
        <4>2. CASE ~(d = c /\ way = "push" /\ r = at[c] + 1)
          <5>1. at[d] \in Nat
            BY <1>0, <2>5 DEF Carrier, Subscribed
          <5>2. at'[d] = at[d] \/ (d = c /\ way = "push" /\ at'[d] = at[d] + 1)
            BY <2>2
          <5>3. r \in book + 1 .. at[d]
            BY <1>0, <3>1, <4>2, <5>1, <5>2
          <5> QED
            BY <2>5, <5>3 DEF Carrier
        <4> QED
          BY <4>1, <4>2
      <3> QED
        BY <2>1, <2>3, <2>5, <3>1 DEF Carrier
    <2>6. ASSUME ~Seen, NEW d \in Connection, link[d] = "open" PROVE book <= at'[d]
      BY <1>0, <2>2, <2>3, <2>6 DEF RunInv
    <2>7. RunInv'
      BY <2>1, <2>2, <2>3, <2>5, <2>6 DEF RunInv
    <2> QED
      BY <1>0, <2>1, <2>7 DEF BookInv
  <1> QED
    BY <1>1, <1>2, <1>3, <1>4, <1>5, <1>6, <1>7, <1>8, <1>9, <1>10
    DEF Next, Step, OnCombinedMessage, Way

\* The inductive invariant of the book.
LEMMA BookInvHolds == Spec /\ []IdsDiffer => [](TypeInv /\ BookInv)
  <1>1. Init => BookInv
    BY FeedAssumption DEF Init, BookInv
  <1> QED
    BY <1>1, BookStep, InitTypes, TypeStep, PTL DEF Spec

\* BookIsExact, for any number of sockets, however late each of them is and
\* wherever a resync or a restart of the venue falls.
THEOREM BookIsExactHolds == Spec /\ []IdsDiffer => []BookIsExact
  <1>1. BookInv => BookIsExact
    BY DEF BookInv, BookIsExact
  <1> QED
    BY <1>1, BookInvHolds, PTL

\* Only a message that passes the filter moves the book.
LEMMA BackStep ==
  ASSUME TypeInv, IdsDiffer, BookInv, [Next]_vars, book' < book
  PROVE  \E p \in book' .. book : sent[p].stream = "depth" /\ sent[p].id = 1
  <1>0. book \in Nat
    BY BookIs
  <1>1. book' # book
    BY <1>0
  <1>2. PICK c \in Connection : \E way \in Way : OnCombinedMessage(c, way)
    BY <1>1 DEF Next, Step, Way, VenueRestarts, VenueSends, StartRun, RefuseToConnect,
                RunReturns, OnHandshake, OnCombinedSessionClosed
  <1>3. PICK way \in Way : OnCombinedMessage(c, way)
    BY <1>2
  <1>4. TakeDepth(c, way)
    BY <1>1, <1>3 DEF OnCombinedMessage, DropDuplicate, FindGap, OnBboMessage
  <1> QED
    BY <1>4, TakeIs

\* NeverBack: a snapshot of a socket that opens late or lags is below the mark of
\* the filter, unless a restart of the venue lies between.
THEOREM NeverBackHolds == Spec /\ []IdsDiffer => NeverBack
  <1> DEFINE Back == book' < book => \E p \in book' .. book : sent[p].stream = "depth" /\ sent[p].id = 1
  <1>1. TypeInv /\ IdsDiffer /\ BookInv /\ [Next]_vars => [Back]_vars
    BY BackStep
  <1> QED
    BY <1>1, BookInvHolds, PTL DEF Spec, NeverBack

---------------------------------------------------------------------------
(* The quotes, as long as the venue does not restart.                       *)

\* A quote the filter has passed, and no later one on a socket that has begun.
QuoteInv ==
  restarts = 0 /\ worker = "run" =>
    /\ dedup["bbo"].seen =>
         quote # 0 /\ sent[quote].stream = "bbo" /\ sent[quote].id = dedup["bbo"].last
    /\ \A c \in Connection : link[c] = "open" /\ "bbo" \notin opening[c] =>
         dedup["bbo"].seen /\ \A r \in quote + 1 .. at[c] : sent[r].stream # "bbo"

\* Before a restart the ids of a stream rise.
LEMMA IdsRise ==
  ASSUME TypeInv, restarts = 0, NEW p \in 1 .. Len(sent), NEW q \in 1 .. Len(sent),
         sent[p].stream = sent[q].stream, sent[p].id <= sent[q].id
  PROVE  p <= q
  <1>1. Len(sent) \in Nat /\ sent \in Seq(Message)
    BY DEF TypeInv, History
  <1>2. sent[p].id \in Nat /\ sent[q].id \in Nat
    BY <1>1, MessageParts
  <1>3. q < p => Rises(sent, q, p, restarts)
    BY DEF TypeInv, History
  <1> QED
    BY <1>1, <1>2, <1>3 DEF Rises

\* Every handler keeps the quote and its mark together.
LEMMA QuoteStep == TypeInv /\ QuoteInv /\ [Next]_vars => QuoteInv'
  <1> SUFFICES ASSUME TypeInv, QuoteInv, [Next]_vars, restarts' = 0, worker' = "run"
               PROVE  QuoteInv'
    BY DEF QuoteInv
  <1> USE StreamHas
  <1> DEFINE Passed == dedup["bbo"].seen =>
               quote # 0 /\ sent[quote].stream = "bbo" /\ sent[quote].id = dedup["bbo"].last
             Begun(c) == link[c] = "open" /\ "bbo" \notin opening[c]
             Shown(c) == dedup["bbo"].seen /\ \A r \in quote + 1 .. at[c] : sent[r].stream # "bbo"
  <1>a. QuoteInv <=> (restarts = 0 /\ worker = "run" =>
                        Passed /\ \A c \in Connection : Begun(c) => Shown(c))
    BY DEF QuoteInv
  <1>b. QuoteInv' <=> (Passed' /\ \A c \in Connection : Begun(c)' => Shown(c)')
    BY DEF QuoteInv
  <1> HIDE DEF Passed, Begun, Shown
  <1>0. /\ Len(sent) \in Nat /\ sent \in Seq(Message) /\ restarts \in Nat
        /\ quote \in Nat /\ quote <= Len(sent)
        /\ \A d \in Connection : link[d] = "open" => at[d] \in 2 .. Len(sent)
        /\ link \in [Connection -> {"none", "connecting", "open", "closed"}]
        /\ at \in [Connection -> Position] /\ opening \in [Connection -> SUBSET Stream]
        /\ dedup \in [Stream -> [seen : BOOLEAN, last : Id]]
    BY Bounds DEF TypeInv, TypeOK, History, Position
  <1>1. CASE UNCHANGED vars
    BY <1>1 DEF QuoteInv
  <1>2. ASSUME feed' = feed, VenueRestarts \/ \E s \in Stream : VenueSends(s) PROVE QuoteInv'
    <2>1. /\ Extends(sent, sent') /\ UNCHANGED <<linkVars, runVars, dedup, depthVars, quote>>
      BY <1>2, VenueGrows
    <2>2. restarts = 0
      <3>1. CASE VenueRestarts
        <4>1. restarts' = restarts + 1
          BY <3>1 DEF VenueRestarts
        <4> QED
          BY <1>0, <4>1
      <3>2. CASE \E s \in Stream : VenueSends(s)
        BY <3>2 DEF VenueSends
      <3> QED
        BY <1>2, <3>1, <3>2
    <2>3. \A i \in 1 .. Len(sent) : sent'[i] = sent[i]
      BY <2>1 DEF Extends
    <2>4. Passed /\ \A c \in Connection : Begun(c) => Shown(c)
      BY <1>a, <2>1, <2>2
    <2>5. Passed'
      BY <1>0, <2>1, <2>3, <2>4 DEF Passed
    <2>6. ASSUME NEW c \in Connection, Begun(c)' PROVE Shown(c)'
      <3>1. Begun(c) /\ Shown(c) /\ at[c] \in 2 .. Len(sent)
        BY <1>0, <2>1, <2>4, <2>6 DEF Begun
      <3> QED
        BY <1>0, <2>1, <2>3, <3>1 DEF Shown
    <2> QED
      BY <1>b, <2>5, <2>6
  <1>3. ASSUME StartRun PROVE QuoteInv'
    <2>1. ~dedup'["bbo"].seen /\ \A d \in Connection : link'[d] = "connecting"
      BY <1>3 DEF StartRun, FreshDedup
    <2> QED
      BY <1>b, <2>1 DEF Passed, Begun
  <1>4. ASSUME RefuseToConnect \/ RunReturns PROVE QuoteInv'
    BY <1>4 DEF RefuseToConnect, RunReturns, HandleReconnection
  <1>5. ASSUME NEW c \in Connection, OnHandshake(c) \/ OnCombinedSessionClosed(c) PROVE QuoteInv'
    <2>1. /\ worker = "run" /\ UNCHANGED <<venueVars, dedup, quote>>
          /\ link'[c] = "closed" \/ opening'[c] = Stream
          /\ \A d \in Connection : d # c =>
               link'[d] = link[d] /\ at'[d] = at[d] /\ opening'[d] = opening[d]
      BY <1>0, <1>5 DEF OnHandshake, OnCombinedSessionClosed
    <2>2. Passed /\ \A d \in Connection : Begun(d) => Shown(d)
      BY <1>a, <2>1
    <2>3. Passed'
      BY <2>1, <2>2 DEF Passed
    <2>4. ~Begun(c)'
      BY <2>1 DEF Begun
    <2>5. ASSUME NEW d \in Connection, d # c, Begun(d)' PROVE Shown(d)'
      BY <2>1, <2>2, <2>5 DEF Begun, Shown
    <2> QED
      BY <1>b, <2>3, <2>4, <2>5
  <1>6. ASSUME NEW c \in Connection, NEW way \in Way, DropDuplicate(c, way) \/ TakeDepth(c, way)
        PROVE  QuoteInv'
    <2>1. /\ Arrives(c, "depth", way) /\ Delivered(c, "depth", way)
          /\ UNCHANGED <<venueVars, runVars, quote>> /\ dedup'["bbo"] = dedup["bbo"]
      BY <1>0, <1>6 DEF DropDuplicate, TakeDepth, DepthArrives
    <2>2. /\ link' = link /\ at'[c] = (IF way = "push" THEN at[c] + 1 ELSE at[c])
          /\ opening'[c] = opening[c] \ {"depth"}
          /\ \A d \in Connection : d # c => at'[d] = at[d] /\ opening'[d] = opening[d]
      BY <2>1, DeliveredIs
    <2>3. Passed /\ \A d \in Connection : Begun(d) => Shown(d)
      BY <1>a, <2>1
    <2>4. Passed'
      BY <2>1, <2>3 DEF Passed
    <2>5. way = "push" => sent[at[c] + 1].stream = "depth"
      BY <2>1 DEF Arrives
    <2>6. ASSUME NEW d \in Connection, Begun(d)' PROVE Shown(d)'
      <3>1. Begun(d) /\ Shown(d) /\ at[d] \in Nat
        <4>1. link'[d] = link[d] /\ ("bbo" \in opening'[d] <=> "bbo" \in opening[d])
          BY <2>2
        <4>2. Begun(d)
          BY <2>6, <4>1 DEF Begun
        <4> QED
          BY <1>0, <2>3, <4>2 DEF Begun
      <3>2. at'[d] = at[d] \/ (d = c /\ way = "push" /\ at'[d] = at[d] + 1)
        BY <2>2
      <3>3. ASSUME NEW r \in quote + 1 .. at'[d] PROVE sent[r].stream # "bbo"
        <4>1. CASE r \in quote + 1 .. at[d]
          BY <3>1, <4>1 DEF Shown
        <4>2. CASE r \notin quote + 1 .. at[d]
          <5>1. r = at[c] + 1 /\ way = "push"
            BY <1>0, <3>1, <3>2, <4>2
          <5> QED
            BY <2>5, <5>1
        <4> QED
          BY <4>1, <4>2
      <3> QED
        BY <2>1, <3>1, <3>3 DEF Shown
    <2> QED
      BY <1>b, <2>4, <2>6
  <1>7. ASSUME NEW c \in Connection, NEW way \in Way, FindGap(c, way) PROVE QuoteInv'
    BY <1>7 DEF FindGap, RequestResync
  <1>8. ASSUME NEW c \in Connection, NEW way \in Way, OnBboMessage(c, way) PROVE QuoteInv'
    <2> DEFINE p == Arriving(c, "bbo", way)
    <2>1. /\ Arrives(c, "bbo", way) /\ Delivered(c, "bbo", way)
          /\ UNCHANGED <<venueVars, runVars, depthVars>>
          /\ IF Accept(dedup["bbo"], sent[p].id, FALSE)
             THEN dedup' = [dedup EXCEPT !["bbo"] = Rotated(sent[p].id)] /\ quote' = p
             ELSE UNCHANGED <<dedup, quote>>
      BY <1>8 DEF OnBboMessage
    <2>2. /\ link' = link /\ at'[c] = (IF way = "push" THEN at[c] + 1 ELSE at[c])
          /\ opening'[c] = opening[c] \ {"bbo"}
          /\ \A d \in Connection : d # c => at'[d] = at[d] /\ opening'[d] = opening[d]
      BY <2>1, DeliveredIs
    <2>3. /\ link[c] = "open" /\ at[c] \in 2 .. Len(sent) /\ p \in 1 .. Len(sent)
          /\ sent[p].stream = "bbo" /\ sent[p].id \in Nat
          /\ way = "push" => p = at[c] + 1
          /\ way # "push" => LastIn(sent, "bbo", at[c], p)
      BY <2>1, ArrivingIs
    <2>4. restarts = 0 /\ Passed /\ \A d \in Connection : Begun(d) => Shown(d)
      BY <1>a, <2>1
    <2> HIDE DEF p
    <2>5. \A r \in p + 1 .. at'[c] : sent[r].stream # "bbo"
      BY <1>0, <2>2, <2>3 DEF LastIn
    <2>6. CASE Accept(dedup["bbo"], sent[p].id, FALSE)
      <3>1. dedup'["bbo"].seen /\ dedup'["bbo"].last = sent[p].id /\ quote' = p
        BY <1>0, <2>1, <2>6 DEF Rotated
      <3>2. Passed'
        BY <2>1, <2>3, <3>1 DEF Passed
      <3>3. ASSUME NEW d \in Connection, Begun(d)' PROVE Shown(d)'
        <4>1. CASE d = c
          BY <2>1, <2>5, <3>1, <4>1 DEF Shown
        <4>2. CASE d # c
          <5>1. Begun(d) /\ Shown(d) /\ at'[d] = at[d] /\ at[d] \in Nat
            BY <1>0, <2>2, <2>4, <3>3, <4>2 DEF Begun
          <5>2. dedup["bbo"].seen
            BY <5>1 DEF Shown
          <5>3. /\ quote \in 1 .. Len(sent) /\ sent[quote].stream = "bbo"
                /\ sent[quote].id < sent[p].id /\ sent[quote].id \in Nat
            <6>1. quote # 0 /\ sent[quote].stream = "bbo" /\ sent[quote].id = dedup["bbo"].last
              BY <2>4, <5>2 DEF Passed
            <6>2. sent[p].id > dedup["bbo"].last
              BY <2>6, <5>2 DEF Accept
            <6>3. quote \in 1 .. Len(sent)
              BY <1>0, <6>1
            <6>4. sent[quote].id \in Nat
              BY <1>0, <6>3, MessageParts
            <6> QED
              BY <2>3, <6>1, <6>2, <6>3, <6>4
          <5>4. quote <= p
            BY <2>3, <2>4, <5>3, IdsRise
          <5> QED
            BY <1>0, <2>1, <2>3, <3>1, <5>1, <5>4 DEF Shown
        <4> QED
          BY <4>1, <4>2
      <3> QED
        BY <1>b, <3>2, <3>3
    <2>7. CASE ~Accept(dedup["bbo"], sent[p].id, FALSE)
      <3>1. UNCHANGED <<dedup, quote>>
        BY <2>1, <2>7
      <3>2. dedup["bbo"].seen /\ ~(sent[p].id > dedup["bbo"].last)
        BY <2>7 DEF Accept
      <3>3. quote \in 1 .. Len(sent) /\ sent[quote].stream = "bbo" /\ sent[p].id <= sent[quote].id
        <4>1. quote # 0 /\ sent[quote].stream = "bbo" /\ sent[quote].id = dedup["bbo"].last
          BY <2>4, <3>2 DEF Passed
        <4>2. quote \in 1 .. Len(sent)
          BY <1>0, <4>1
        <4>3. sent[quote].id \in Nat
          BY <1>0, <4>2, MessageParts
        <4> QED
          BY <2>3, <3>2, <4>1, <4>2, <4>3
      <3>4. p <= quote
        BY <2>3, <2>4, <3>3, IdsRise
      <3>5. Passed'
        BY <2>1, <2>4, <3>1 DEF Passed
      <3>6. ASSUME NEW d \in Connection, Begun(d)' PROVE Shown(d)'
        <4>1. CASE d = c
          BY <1>0, <2>1, <2>3, <2>5, <3>1, <3>2, <3>4, <4>1 DEF Shown
        <4>2. CASE d # c
          BY <2>1, <2>2, <2>4, <3>1, <3>6, <4>2 DEF Begun, Shown
        <4> QED
          BY <4>1, <4>2
      <3> QED
        BY <1>b, <3>5, <3>6
    <2> QED
      BY <2>6, <2>7
  <1> QED
    BY <1>1, <1>2, <1>3, <1>4, <1>5, <1>6, <1>7, <1>8
    DEF Next, Step, OnCombinedMessage, Way

\* CurrentWhenDrained, for any number of sockets: once they have delivered all
\* they have, the one that carried the book last is at the end of the stream, and
\* so is the book; neither filter holds back what it should have passed.
THEOREM CurrentWhenDrainedHolds ==
  ASSUME Connection # {}
  PROVE  Spec /\ []IdsDiffer => []CurrentWhenDrained
  <1>1. Init => QuoteInv
    BY DEF Init, QuoteInv
  <1>2. TypeInv /\ BookInv /\ QuoteInv => CurrentWhenDrained
    <2> SUFFICES ASSUME TypeInv, BookInv, QuoteInv, Drained
                 PROVE  book = Newest("depth") /\ (restarts = 0 => quote = Newest("bbo"))
      BY DEF CurrentWhenDrained
    <2> USE StreamHas
    <2>1. /\ worker = "run" /\ Len(sent) \in 2 .. Len(sent) /\ Len(sent) \in Nat
          /\ \A c \in Connection : link[c] = "open" /\ opening[c] = {} /\ at[c] = Len(sent)
      BY DEF Drained, TypeInv, History
    <2>2. ASSUME NEW s \in Stream, NEW q \in 1 .. Len(sent), sent[q].stream = s,
                 \A r \in q + 1 .. Len(sent) : sent[r].stream # s
          PROVE  q = Newest(s)
      <3>1. LastIn(sent, s, Len(sent), q)
        BY <2>2 DEF LastIn
      <3> QED
        BY <2>1, <3>1, AsOfIs DEF Newest
    <2>3. PICK c \in Connection : TRUE
      OBVIOUS
    <2>4. book = Newest("depth")
      <3>1. RunInv /\ Seen
        BY <2>1, <2>3 DEF BookInv, RunInv, Subscribed
      <3>2. PICK d \in Connection : Carrier(d)
        BY <2>1, <3>1 DEF RunInv
      <3>3. book \in 1 .. Len(sent) /\ sent[book].stream = "depth"
        BY <3>1, BookIs DEF RunInv
      <3>4. \A r \in book + 1 .. Len(sent) : sent[r].stream # "depth"
        BY <2>1, <3>2 DEF Carrier
      <3> QED
        BY <2>2, <3>3, <3>4
    <2>5. ASSUME restarts = 0 PROVE quote = Newest("bbo")
      <3>1. /\ quote # 0 /\ sent[quote].stream = "bbo"
            /\ \A r \in quote + 1 .. Len(sent) : sent[r].stream # "bbo"
        BY <2>1, <2>3, <2>5 DEF QuoteInv
      <3>2. quote \in 1 .. Len(sent)
        BY <2>1, <3>1, Bounds DEF TypeInv, TypeOK, Position
      <3> QED
        BY <2>2, <3>1, <3>2
    <2> QED
      BY <2>4, <2>5
  <1> QED
    BY <1>1, <1>2, QuoteStep, BookInvHolds, PTL DEF Spec

---------------------------------------------------------------------------
(* When no id is used twice.                                                *)

\* The depth message at k begins the second numbering: ids from FirstId on are
\* before it, small ones from it on, and within either part they rise.
Numbering(k) ==
  /\ k \in 1 .. Len(sent) + 1
  /\ restarts = 0 => k = Len(sent) + 1
  /\ restarts > 0 => k <= Len(sent) /\ sent[k].stream = "depth"
  /\ \A p \in 1 .. Len(sent) : sent[p].stream = "depth" =>
       IF p < k THEN sent[p].id >= FirstId ELSE sent[p].id <= 2 * p
  /\ \A p, q \in 1 .. Len(sent) :
       /\ sent[p].stream = "depth" /\ sent[q].stream = "depth"
       /\ p < q /\ (p < k <=> q < k)
       => sent[p].id < sent[q].id

\* A message continues one numbering, a restart begins the second.
LEMMA NumberingStep ==
  ASSUME TypeInv, MaxRestarts <= 1, NEW k, Numbering(k), feed' = feed,
         VenueRestarts \/ \E s \in Stream : VenueSends(s)
  PROVE  \E j : Numbering(j)'
  <1> USE StreamHas
  <1> DEFINE L == Len(sent)
  <1>0. /\ sent \in Seq(Message) /\ L \in Nat /\ L >= 2 /\ L \in 2 .. L
        /\ restarts \in Nat /\ restarts <= MaxRestarts /\ k \in Nat
    BY Bounds DEF TypeInv, TypeOK, History, Numbering
  <1>1. \A p \in 1 .. L : sent[p].id \in Nat
    BY <1>0, MessageParts
  <1>2. \A p \in 1 .. L : sent'[p] = sent[p]
    BY VenueGrows DEF Extends
  <1>3. ASSUME VenueRestarts PROVE \E j : Numbering(j)'
    <2> DEFINE x == [stream |-> "depth", id |-> 1, prev |-> sent[Newest("depth")].id]
               y == [stream |-> "bbo", id |-> 1, prev |-> sent[Newest("bbo")].id]
    <2>1. sent' = sent \o <<x, y>> /\ restarts' = restarts + 1 /\ restarts < MaxRestarts
      BY <1>3 DEF VenueRestarts
    <2>2. Len(sent') = L + 2 /\ sent'[L + 1] = x /\ sent'[L + 2] = y
      <3> HIDE DEF x, y
      <3> QED
        BY <1>0, <2>1
    <2>3. restarts = 0 /\ restarts' = 1 /\ k = L + 1
      BY <1>0, <2>1, Bounds DEF Numbering
    <2>4. sent'[L + 1].stream = "depth" /\ sent'[L + 1].id = 1 /\ sent'[L + 2].stream = "bbo"
      BY <2>2
    <2> HIDE DEF x, y
    <2>5. ASSUME NEW p \in 1 .. L + 2, sent'[p].stream = "depth", p # L + 1
          PROVE  p \in 1 .. L /\ sent'[p] = sent[p]
      BY <1>0, <1>2, <2>4, <2>5
    <2>6. ASSUME NEW p \in 1 .. L + 2, sent'[p].stream = "depth"
          PROVE  IF p < L + 1 THEN sent'[p].id >= FirstId ELSE sent'[p].id <= 2 * p
      BY <1>0, <2>3, <2>4, <2>5, <2>6 DEF Numbering
    <2>7. ASSUME NEW p \in 1 .. L + 2, NEW q \in 1 .. L + 2, sent'[p].stream = "depth",
                 sent'[q].stream = "depth", p < q, p < L + 1 <=> q < L + 1
          PROVE  sent'[p].id < sent'[q].id
      <3>1. p # L + 1 /\ q # L + 1
        BY <1>0, <2>4, <2>7
      <3>2. p \in 1 .. L /\ sent'[p] = sent[p] /\ q \in 1 .. L /\ sent'[q] = sent[q]
        BY <2>5, <2>7, <3>1
      <3> QED
        BY <1>0, <2>3, <2>7, <3>2 DEF Numbering
    <2>8. \A z : z = L + 1 => Numbering(z)'
      BY <1>0, <2>2, <2>3, <2>4, <2>6, <2>7 DEF Numbering
    <2> QED
      BY <2>8
  <1>4. ASSUME NEW s \in Stream, VenueSends(s) PROVE \E j : Numbering(j)'
    <2> DEFINE x == [stream |-> s, prev |-> sent[Newest(s)].id, id |-> sent[Newest(s)].id + Stride]
               i == IF restarts = 0 THEN L + 2 ELSE k
    <2>1. sent' = Append(sent, x) /\ restarts' = restarts
      BY <1>4 DEF VenueSends, Stride
    <2>2. Len(sent') = L + 1 /\ sent'[L + 1] = x
      <3> HIDE DEF x
      <3> QED
        BY <1>0, <2>1
    <2>3. sent'[L + 1].stream = s /\ sent'[L + 1].id = sent[Newest(s)].id + Stride
      BY <2>2
    <2> HIDE DEF x
    <2>4. i \in 1 .. L + 2 /\ i \in Nat /\ (restarts > 0 => i = k /\ k \in 1 .. L /\ sent[k].stream = "depth")
          /\ (restarts = 0 => i = L + 2 /\ k = L + 1)
          /\ \A p \in 1 .. L : p < i <=> p < k
      BY <1>0 DEF Numbering
    <2> HIDE DEF i
    <2>5. ASSUME s = "depth"
          PROVE  \E n \in 1 .. L :
                   /\ sent[n].stream = "depth" /\ sent'[L + 1].id = sent[n].id + Stride
                   /\ \A p \in 1 .. L : sent[p].stream = "depth" => p <= n
                   /\ L + 1 < i <=> n < k
      <3>1. LastIn(sent, "depth", L, Newest("depth")) /\ Newest("depth") \in 1 .. L
            /\ sent[Newest("depth")].stream = "depth"
        BY <1>0, NewestIs DEF Newest
      <3>2. \A p \in 1 .. L : sent[p].stream = "depth" => p <= Newest("depth")
        BY <1>0, <3>1 DEF LastIn
      <3>3. L + 1 < i <=> Newest("depth") < k
        BY <1>0, <2>4, <3>1, <3>2
      <3> QED
        BY <2>3, <2>5, <3>1, <3>2, <3>3
    <2>6. ASSUME NEW p \in 1 .. L + 1, sent'[p].stream = "depth"
          PROVE  IF p < i THEN sent'[p].id >= FirstId ELSE sent'[p].id <= 2 * p
      <3>1. CASE p = L + 1
        <4>1. s = "depth"
          BY <2>3, <2>6, <3>1
        <4>2. PICK n \in 1 .. L :
                /\ sent[n].stream = "depth" /\ sent'[L + 1].id = sent[n].id + Stride
                /\ L + 1 < i <=> n < k
          BY <2>5, <4>1
        <4>3. IF n < k THEN sent[n].id >= FirstId ELSE sent[n].id <= 2 * n
          BY <4>2 DEF Numbering
        <4> QED
          BY <1>0, <1>1, <3>1, <4>2, <4>3, StrideType, Bounds
      <3>2. CASE p # L + 1
        <4>1. p \in 1 .. L /\ sent'[p] = sent[p] /\ (p < i <=> p < k)
          BY <1>0, <1>2, <2>4, <3>2
        <4> QED
          BY <2>6, <4>1 DEF Numbering
      <3> QED
        BY <3>1, <3>2
    <2>7. ASSUME NEW p \in 1 .. L + 1, NEW q \in 1 .. L + 1, sent'[p].stream = "depth",
                 sent'[q].stream = "depth", p < q, p < i <=> q < i
          PROVE  sent'[p].id < sent'[q].id
      <3>0. p \in 1 .. L /\ sent'[p] = sent[p] /\ (p < i <=> p < k)
        BY <1>0, <1>2, <2>4, <2>7
      <3>1. CASE q = L + 1
        <4>1. s = "depth"
          BY <2>3, <2>7, <3>1
        <4>2. PICK n \in 1 .. L :
                /\ sent[n].stream = "depth" /\ sent'[L + 1].id = sent[n].id + Stride
                /\ p <= n /\ (p < k <=> n < k)
          BY <2>5, <2>7, <3>0, <3>1, <4>1
        <4>3. p # n => sent[p].id < sent[n].id
          BY <1>0, <2>7, <3>0, <4>2 DEF Numbering
        <4> QED
          BY <1>1, <3>0, <3>1, <4>2, <4>3, StrideType
      <3>2. CASE q # L + 1
        <4>1. q \in 1 .. L /\ sent'[q] = sent[q] /\ (q < i <=> q < k)
          BY <1>0, <1>2, <2>4, <3>2
        <4> QED
          BY <2>7, <3>0, <4>1 DEF Numbering
      <3> QED
        BY <3>1, <3>2
    <2>8. /\ i \in 1 .. Len(sent') + 1
          /\ restarts' = 0 => i = Len(sent') + 1
          /\ restarts' > 0 => i <= Len(sent') /\ sent'[i].stream = "depth"
      <3>1. CASE restarts = 0
        BY <1>0, <2>1, <2>2, <2>4, <3>1
      <3>2. CASE restarts > 0
        BY <1>0, <1>2, <2>1, <2>2, <2>4, <3>2
      <3> QED
        BY <1>0, <3>1, <3>2
    <2>9. 1 .. Len(sent') = 1 .. L + 1
      BY <2>2
    <2>10. \A z : z = i => Numbering(z)'
      BY <2>6, <2>7, <2>8, <2>9 DEF Numbering
    <2> QED
      BY <2>10
  <1> QED
    BY <1>3, <1>4

\* A venue that does not restart, or restarts once and stays below its old ids,
\* never uses an id twice: what the theorems above ask for is what Bybit and OKX
\* do unless they restart again while the provider is running.
THEOREM IdsDifferHolds ==
  ASSUME MaxRestarts = 0 \/ (MaxRestarts = 1 /\ 2 * MaxSent + 1 < FirstId)
  PROVE  Spec => []IdsDiffer
  <1> DEFINE Numbered == \E k : Numbering(k)
  <1>1. Init => Numbered
    <2> SUFFICES ASSUME Init PROVE Numbering(3)
      OBVIOUS
    <2>1. /\ Len(sent) = 2 /\ restarts = 0 /\ sent[1].id = FirstId
          /\ sent[1].stream = "depth" /\ sent[2].stream = "bbo"
      BY DEF Init
    <2> QED
      BY <2>1, Bounds DEF Numbering
  <1>2. TypeInv /\ Numbered /\ [Next]_vars => Numbered'
    <2> SUFFICES ASSUME TypeInv, NEW k, Numbering(k), [Next]_vars PROVE Numbered'
      OBVIOUS
    <2>1. CASE UNCHANGED venueVars
      BY <2>1 DEF Numbering
    <2>2. CASE ~UNCHANGED venueVars
      <3>1. feed' = feed /\ (VenueRestarts \/ \E s \in Stream : VenueSends(s))
        BY <2>2 DEF Next, Step, StartRun, RefuseToConnect, RunReturns, OnHandshake,
           OnCombinedSessionClosed, OnCombinedMessage, DropDuplicate, TakeDepth, FindGap, OnBboMessage
      <3> QED
        BY <3>1, NumberingStep, Bounds
    <2> QED
      BY <2>1, <2>2
  <1>3. TypeInv /\ Numbered => IdsDiffer
    <2> SUFFICES ASSUME TypeInv, NEW k, Numbering(k),
                        NEW p \in 1 .. Len(sent), NEW q \in 1 .. Len(sent),
                        sent[p].stream = "depth", sent[q].stream = "depth"
                 PROVE  (sent[p].id = sent[q].id => p = q) /\ sent[p].id + 1 # FirstId
      BY DEF IdsDiffer
    <2>1. /\ Len(sent) \in Nat /\ Len(sent) <= MaxSent /\ k \in Nat
          /\ sent[p].id \in Nat /\ sent[q].id \in Nat /\ restarts \in Nat /\ restarts <= MaxRestarts
      BY Bounds, MessageParts DEF TypeInv, TypeOK, History, Numbering
    <2>2. /\ IF p < k THEN sent[p].id >= FirstId ELSE sent[p].id <= 2 * p
          /\ IF q < k THEN sent[q].id >= FirstId ELSE sent[q].id <= 2 * q
          /\ (p < k <=> q < k) /\ p < q => sent[p].id < sent[q].id
          /\ (p < k <=> q < k) /\ q < p => sent[q].id < sent[p].id
          /\ restarts = 0 => k = Len(sent) + 1
      BY DEF Numbering
    <2>3. CASE p < k /\ q < k
      <3>1. sent[p].id + 1 # FirstId
        BY <2>1, <2>2, <2>3, Bounds
      <3>2. sent[p].id = sent[q].id => ~(p < q) /\ ~(q < p)
        BY <2>1, <2>2, <2>3
      <3> QED
        BY <2>1, <3>1, <3>2
    <2>4. CASE ~(p < k /\ q < k)
      <3>1. 2 * MaxSent + 1 < FirstId
        BY <2>1, <2>2, <2>4
      <3> QED
        BY <2>1, <2>2, <2>4, <3>1, Bounds
    <2> QED
      BY <2>3, <2>4
  <1> HIDE DEF Numbered
  <1> QED
    BY <1>1, <1>2, <1>3, TypeCorrect, PTL DEF Spec

===========================================================================
