---------------------------- MODULE DepthProofs ---------------------------
(***************************************************************************)
(* Proofs about Depth, for every number of venues, every set of prices and  *)
(* quantities, updates of any length, and every order of the levels in      *)
(* them: the messages survive their frames and nothing else is accepted for *)
(* one; the vectors of FlatOrderBook and the changes they report are exact; *)
(* and so is the consolidated book that is merged from the former and       *)
(* repaired with the latter.                                                *)
(*                                                                         *)
(* The loops of the code are functions of the round in Depth.  What a loop  *)
(* computes is a set of states that a round does not leave; that the loop   *)
(* has a run at all is Loop, and induction over its rounds is Induct.       *)
(***************************************************************************)
EXTENDS Depth, FiniteSetTheorems, SequenceTheorems, WellFoundedInduction, TLAPS

---------------------------------------------------------------------------
(* Loops.                                                                   *)

\* A set of numbers that is not empty has a least one.
LEMMA Least ==
  ASSUME NEW T \in SUBSET Nat, T # {}
  PROVE  \E n \in T : \A m \in T : n <= m
  <1> DEFINE R == OpToRel(<, Nat)
  <1>1. IsWellFoundedOn(R, Nat)
    BY NatLessThanWellFounded
  <1> HIDE DEF R
  <1>2. PICK n \in T : \A m \in T : ~(<<m, n>> \in R)
    BY <1>1, WFMin
  <1>3. \A m \in T : ~(m < n)
    BY <1>2 DEF R, OpToRel
  <1> QED
    BY <1>3

\* What holds at 0 and of every next number holds of all.
LEMMA Induct ==
  ASSUME NEW N \in Nat, NEW T, 0 \in T, \A n \in 0 .. N - 1 : n \in T => n + 1 \in T
  PROVE  \A n \in 0 .. N : n \in T
  <1> DEFINE bad == {n \in 0 .. N : n \notin T}
  <1> SUFFICES ASSUME bad # {} PROVE FALSE
    OBVIOUS
  <1>0. bad \in SUBSET Nat /\ bad # {}
    OBVIOUS
  <1>1. PICK n \in bad : \A m \in bad : n <= m
    <2> HIDE DEF bad
    <2> QED
      BY <1>0, Least
  <1>2. n # 0 /\ n - 1 \in 0 .. N - 1
    BY <1>1
  <1>3. n - 1 \in T
    BY <1>1, <1>2
  <1> QED
    BY <1>1, <1>2, <1>3

\* The states a loop passes through in N rounds.
Rounds(S, x, f, N) ==
  {g \in [0 .. N -> S] : g = [n \in 0 .. N |-> IF n = 0 THEN x ELSE f[<<n, g[n - 1]>>]]}

\* A loop that keeps to a set has a run of every length.
LEMMA Loop ==
  ASSUME NEW S, NEW x \in S, NEW f \in [Nat \X S -> S], NEW N \in Nat
  PROVE  Rounds(S, x, f, N) # {}
  <1> DEFINE Run(M) == {g \in [0 .. M -> S] :
                          g = [n \in 0 .. M |-> IF n = 0 THEN x ELSE f[<<n, g[n - 1]>>]]}
             T == {M \in Nat : Run(M) # {}}
  <1>1. 0 \in T
    <2>1. [n \in 0 .. 0 |-> x] \in Run(0)
      OBVIOUS
    <2> QED
      BY <2>1
  <1>2. ASSUME NEW M \in 0 .. N - 1, M \in T
        PROVE  M + 1 \in T
    <2>1. PICK g \in [0 .. M -> S] :
                 g = [n \in 0 .. M |-> IF n = 0 THEN x ELSE f[<<n, g[n - 1]>>]]
      BY <1>2
    <2> DEFINE h == [n \in 0 .. M + 1 |-> IF n = M + 1 THEN f[<<M + 1, g[M]>>] ELSE g[n]]
    <2>2. h \in [0 .. M + 1 -> S]
      BY <2>1
    <2>3. ASSUME NEW n \in 0 .. M + 1
          PROVE  h[n] = IF n = 0 THEN x ELSE f[<<n, h[n - 1]>>]
      <3>1. CASE n = M + 1
        <4>1. h[n] = f[<<n, g[M]>>] /\ n # 0 /\ n - 1 = M /\ M \in 0 .. M + 1 /\ M # M + 1
          BY <3>1
        <4>2. h[M] = g[M]
          BY <4>1
        <4> QED
          BY <4>1, <4>2
      <3>2. CASE n # M + 1
        <4>1. n \in 0 .. M /\ (n # 0 => n - 1 \in 0 .. M)
          BY <3>2
        <4>2. h[n] = g[n] /\ (n # 0 => h[n - 1] = g[n - 1])
          BY <4>1
        <4>3. g[n] = IF n = 0 THEN x ELSE f[<<n, g[n - 1]>>]
          BY <2>1, <4>1
        <4> QED
          BY <4>1, <4>2, <4>3
      <3> QED
        BY <3>1, <3>2
    <2>4. h = [n \in 0 .. M + 1 |-> IF n = 0 THEN x ELSE f[<<n, h[n - 1]>>]]
      BY <2>2, <2>3
    <2>5. h \in Run(M + 1)
      BY <2>2, <2>4
    <2> HIDE DEF Run
    <2> QED
      BY <2>5
  <1> HIDE DEF Run, T
  <1>3. N \in T
    BY <1>1, <1>2, Induct
  <1> QED
    BY <1>3 DEF T, Run, Rounds

---------------------------------------------------------------------------
(* The frames.                                                              *)

\* The two parts of a key of 24 bits come back.
LEMMA Small ==
  ASSUME NEW n \in Nat \ {0}, NEW a \in 0 .. n - 1
  PROVE  a % n = a
  OBVIOUS

\* The numbers of 16 bits.
LEMMA Symbols == Byte * Byte \in Nat \ {0}
  BY DEF Byte

\* Two numbers in one, the lower below the base.
LEMMA Divided ==
  ASSUME NEW a \in Nat, NEW b \in 0 .. Byte - 1
  PROVE  (a * Byte + b) \div Byte = a /\ (a * Byte + b) % Byte = b
  BY DEF Byte

\* Packing a key and unpacking it.
LEMMA Packing ==
  ASSUME NEW a \in 0 .. Byte * Byte - 1, NEW b \in 0 .. Byte - 1
  PROVE  ((a * Byte + b) \div Byte) % (Byte * Byte) = a /\ (a * Byte + b) % Byte = b
  <1>1. a \in Nat
    BY Symbols
  <1>2. (a * Byte + b) \div Byte = a /\ (a * Byte + b) % Byte = b
    BY <1>1, Divided
  <1>3. a % (Byte * Byte) = a
    BY Symbols, Small
  <1> QED
    BY <1>2, <1>3, Zenon

\* A key comes back as it was.
LEMMA KeyReturns ==
  ASSUME NEW key \in Key
  PROVE  InstrumentKey(Packed(key)) = key
  <1> DEFINE a == key.symbol
             b == key.market
  <1>1. a \in 0 .. Byte * Byte - 1 /\ b \in 0 .. Byte - 1 /\ key = [symbol |-> a, market |-> b]
    BY DEF Key
  <1>2. Packed(key) = a * Byte + b
    BY Zenon DEF Packed
  <1> HIDE DEF a, b
  <1>3. ((a * Byte + b) \div Byte) % (Byte * Byte) = a /\ (a * Byte + b) % Byte = b
    BY <1>1, Packing
  <1> QED
    BY <1>1, <1>2, <1>3, Zenon DEF InstrumentKey

\* So does a value of an enumeration.
LEMMA EnumReturns ==
  ASSUME NEW S, NEW enum \in Seq(S), NEW v \in Range(enum)
  PROVE  Value(enum, Code(enum, v)) = v
  <1> DEFINE I == {i \in 1 .. Len(enum) : enum[i] = v}
  <1>1. I # {} /\ I \in SUBSET Nat
    BY DEF Range
  <1>2. \E i \in I : \A j \in I : i <= j
    <2> HIDE DEF I
    <2> QED
      BY <1>1, Least
  <1>3. Min(I) \in I
    BY <1>2 DEF Min
  <1>4. SelectInSeq(enum, LAMBDA x : x = v) = Min(I)
    BY <1>1 DEF SelectInSeq
  <1>5. Code(enum, v) + 1 = Min(I)
    BY <1>3, <1>4 DEF Code
  <1> QED
    BY <1>3, <1>5 DEF Value

\* The enumerations name each value once.
LEMMA Enumerations ==
  /\ \E S : GoodbyeReason \in Seq(S)
  /\ \E S : StreamKind \in Seq(S)
  /\ \E S : VenueHealth \in Seq(S)
  <1>1. ASSUME NEW a, NEW b PROVE <<a, b>> \in Seq({a, b})
    OBVIOUS
  <1>2. ASSUME NEW a, NEW b, NEW c, NEW d, NEW e
        PROVE  <<a, b, c, d, e>> \in Seq({a, b, c, d, e})
    OBVIOUS
  <1> QED
    BY <1>1, <1>2, Zenon DEF GoodbyeReason, StreamKind, VenueHealth

\* A name that fits is not cut.
LEMMA NameFits ==
  ASSUME NEW name \in Seq(STRING), Len(name) < NameCapacity
  PROVE  SubSeq(name, 1, Min({Len(name), NameCapacity - 1})) = name
  <1>1. Len(name) \in Nat /\ NameCapacity \in Nat /\ Len(name) <= NameCapacity - 1
    BY DepthAssumption
  <1>2. Min({Len(name), NameCapacity - 1}) = Len(name)
    BY <1>1 DEF Min
  <1> QED
    BY <1>2

\* A frame of two structs.
LEMMA TwoStructs ==
  ASSUME NEW a, NEW b
  PROVE  Append(<<a>>, b) = <<a, b>>
  <1> DEFINE S == {a, b}
             s == Append(<<a>>, b)
             t == <<a, b>>
  <1>1. <<a>> \in Seq(S) /\ b \in S
    OBVIOUS
  <1>2. s \in Seq(S) /\ Len(s) = 2 /\ s[1] = a /\ s[2] = b
    BY <1>1, AppendProperties
  <1>3. t \in Seq(S) /\ Len(t) = 2 /\ t[1] = a /\ t[2] = b
    OBVIOUS
  <1> HIDE DEF s, t, S
  <1>4. \A i \in 1 .. Len(s) : s[i] = t[i]
    BY <1>2, <1>3
  <1>5. s = t
    BY <1>2, <1>3, <1>4, SeqEqual
  <1> QED
    BY <1>5 DEF s, t

\* The frame of a message of fixed size.
Short(type, payload) == <<[msgType |-> type, wireVersion |-> kWireVersion], payload>>

\* Every message but an update has a frame of a fixed size.
LEMMA ShortFrames ==
  ASSUME NEW body
  PROVE  /\ EncodeHello(body) = Short("kHello", WireHelloPayload(body))
         /\ EncodeGoodbye(body) = Short("kGoodbye", WireGoodbyePayload(body))
         /\ EncodeBboQuote(body) = Short("kBboQuote", WireBboQuotePayload(body))
         /\ EncodeHealth(body) = Short("kHealth", WireHealthPayload(body))
  BY TwoStructs, Zenon
    DEF EncodeHello, EncodeGoodbye, EncodeBboQuote, EncodeHealth, Short, WriteHeader

\* It has its payload under its own type and under no other.
LEMMA ShortHas ==
  ASSUME NEW type, NEW payload, NEW other
  PROVE  /\ HasPayload(Short(type, payload), other) <=> other = type
         /\ Short(type, payload)[1].msgType = type
         /\ Short(type, payload)[2] = payload
         /\ Len(Short(type, payload)) = 2
  BY DEF HasPayload, Fits, Short

\* A kHello comes back.
LEMMA HelloReturns ==
  ASSUME NEW body \in Hello
  PROVE  DecodeHello(EncodeHello(body), Nothing) = Decoded(body)
  <1> DEFINE payload == WireHelloPayload(body)
             name == body.venueName
  <1>1. /\ body.instrument \in Key
        /\ name \in Seq(STRING) /\ Len(name) < NameCapacity
        /\ body = [instrument |-> body.instrument, venueName |-> name]
    BY DEF Hello
  <1>2. payload.venueName = name
    <2>1. payload.venueName = SubSeq(name, 1, Min({Len(name), NameCapacity - 1}))
      BY Zenon DEF WireHelloPayload
    <2> QED
      BY <2>1, <1>1, NameFits, Zenon
  <1>3. payload.instrument = Packed(body.instrument)
    BY Zenon DEF WireHelloPayload
  <1>4. EncodeHello(body) = Short("kHello", payload)
    BY ShortFrames, Zenon
  <1> HIDE DEF payload
  <1>5. /\ HasPayload(Short("kHello", payload), "kHello")
        /\ Short("kHello", payload)[2] = payload
    BY ShortHas, Zenon
  <1>6. DecodeHello(Short("kHello", payload), Nothing)
          = Decoded([instrument |-> InstrumentKey(payload.instrument), venueName |-> payload.venueName])
    BY <1>5, Zenon DEF DecodeHello
  <1>7. InstrumentKey(Packed(body.instrument)) = body.instrument
    BY <1>1, KeyReturns, Zenon
  <1> QED
    BY <1>1, <1>2, <1>3, <1>4, <1>6, <1>7

\* A kGoodbye comes back.
LEMMA GoodbyeReturns ==
  ASSUME NEW body \in Goodbye
  PROVE  DecodeGoodbye(EncodeGoodbye(body), Nothing) = Decoded(body)
  <1> DEFINE payload == WireGoodbyePayload(body)
  <1>1. body.reason \in Range(GoodbyeReason) /\ body = [reason |-> body.reason]
    BY DEF Goodbye
  <1>2. Value(GoodbyeReason, payload.reason) = body.reason
    <2>1. payload.reason = Code(GoodbyeReason, body.reason)
      BY Zenon DEF WireGoodbyePayload
    <2> QED
      BY <2>1, <1>1, EnumReturns, Enumerations, Zenon
  <1>3. EncodeGoodbye(body) = Short("kGoodbye", payload)
    BY ShortFrames, Zenon
  <1> HIDE DEF payload
  <1>4. /\ HasPayload(Short("kGoodbye", payload), "kGoodbye")
        /\ Short("kGoodbye", payload)[2] = payload
    BY ShortHas, Zenon
  <1>5. DecodeGoodbye(Short("kGoodbye", payload), Nothing)
          = Decoded([reason |-> Value(GoodbyeReason, payload.reason)])
    BY <1>4, Zenon DEF DecodeGoodbye
  <1> QED
    BY <1>1, <1>2, <1>3, <1>5, Zenon

\* A health event comes back.
LEMMA HealthReturns ==
  ASSUME NEW body \in VenueHealthEvent
  PROVE  DecodeHealth(EncodeHealth(body), Nothing) = Decoded(body)
  <1> DEFINE payload == WireHealthPayload(body)
  <1>1. /\ body.stream \in Range(StreamKind) /\ body.health \in Range(VenueHealth)
        /\ body = [stream |-> body.stream, health |-> body.health]
    BY DEF VenueHealthEvent
  <1>2. /\ Value(StreamKind, payload.stream) = body.stream
        /\ Value(VenueHealth, payload.health) = body.health
    <2>1. /\ payload.stream = Code(StreamKind, body.stream)
          /\ payload.health = Code(VenueHealth, body.health)
      BY Zenon DEF WireHealthPayload
    <2> QED
      BY <2>1, <1>1, EnumReturns, Enumerations, Zenon
  <1>3. EncodeHealth(body) = Short("kHealth", payload)
    BY ShortFrames, Zenon
  <1> HIDE DEF payload
  <1>4. /\ HasPayload(Short("kHealth", payload), "kHealth")
        /\ Short("kHealth", payload)[2] = payload
    BY ShortHas, Zenon
  <1>5. DecodeHealth(Short("kHealth", payload), Nothing)
          = Decoded([stream |-> Value(StreamKind, payload.stream),
                     health |-> Value(VenueHealth, payload.health)])
    BY <1>4, Zenon DEF DecodeHealth
  <1> QED
    BY <1>1, <1>2, <1>3, <1>5, Zenon

\* A quote comes back.
LEMMA BboQuoteReturns ==
  ASSUME NEW body \in BboQuote
  PROVE  DecodeBboQuote(EncodeBboQuote(body), Nothing) = Decoded(body)
  <1> DEFINE payload == WireBboQuotePayload(body)
  <1>1. /\ body.instrument \in Key
        /\ body.bid = [price |-> body.bid.price, qty |-> body.bid.qty]
        /\ body.ask = [price |-> body.ask.price, qty |-> body.ask.qty]
        /\ body = [instrument |-> body.instrument, seq |-> body.seq,
                   bid |-> body.bid, ask |-> body.ask]
    BY DEF BboQuote, PriceLevel
  <1>2. /\ payload.instrument = Packed(body.instrument) /\ payload.seq = body.seq
        /\ payload.bidPrice = body.bid.price /\ payload.bidQty = body.bid.qty
        /\ payload.askPrice = body.ask.price /\ payload.askQty = body.ask.qty
    BY Zenon DEF WireBboQuotePayload
  <1>3. EncodeBboQuote(body) = Short("kBboQuote", payload)
    BY ShortFrames, Zenon
  <1> HIDE DEF payload
  <1>4. /\ HasPayload(Short("kBboQuote", payload), "kBboQuote")
        /\ Short("kBboQuote", payload)[2] = payload
    BY ShortHas, Zenon
  <1>5. DecodeBboQuote(Short("kBboQuote", payload), Nothing)
          = Decoded([instrument |-> InstrumentKey(payload.instrument), seq |-> payload.seq,
                     bid |-> [price |-> payload.bidPrice, qty |-> payload.bidQty],
                     ask |-> [price |-> payload.askPrice, qty |-> payload.askQty]])
    BY <1>4, Zenon DEF DecodeBboQuote
  <1>6. InstrumentKey(Packed(body.instrument)) = body.instrument
    BY <1>1, KeyReturns, Zenon
  <1> QED
    BY <1>1, <1>2, <1>3, <1>5, <1>6, Zenon

\* Three sequences in a row, by their lengths.
LEMMA Concat ==
  ASSUME NEW S, NEW a \in Seq(S), NEW b \in Seq(S), NEW c \in Seq(S),
         NEW f, f = a \o b \o c
  PROVE  /\ f \in Seq(S)
         /\ Len(f) = Len(a) + Len(b) + Len(c)
         /\ \A i \in 1 .. Len(a) : f[i] = a[i]
         /\ \A i \in 1 .. Len(b) : f[Len(a) + i] = b[i]
         /\ \A i \in 1 .. Len(c) : f[Len(a) + Len(b) + i] = c[i]
  <1> DEFINE t == a \o b
             A == Len(a)
             B == Len(b)
             C == Len(c)
  <1>0. A \in Nat /\ B \in Nat /\ C \in Nat
    OBVIOUS
  <1>1. /\ t \in Seq(S) /\ Len(t) = A + B
        /\ \A i \in 1 .. A + B : t[i] = IF i <= A THEN a[i] ELSE b[i - A]
    BY ConcatProperties
  <1> HIDE DEF t
  <1>2. /\ f \in Seq(S) /\ Len(f) = Len(t) + C
        /\ \A i \in 1 .. Len(t) + C : f[i] = IF i <= Len(t) THEN t[i] ELSE c[i - Len(t)]
    <2>1. t \in Seq(S) /\ f = t \o c
      BY <1>1 DEF t
    <2> QED
      BY <2>1, ConcatProperties
  <1> HIDE DEF A, B, C
  <1>3. ASSUME NEW i \in 1 .. A PROVE f[i] = a[i]
    <2>1. i \in 1 .. A + B /\ i \in 1 .. Len(t) + C /\ i <= Len(t) /\ i <= A
      BY <1>0, <1>1
    <2> QED
      BY <2>1, <1>1, <1>2
  <1>4. ASSUME NEW i \in 1 .. B PROVE f[A + i] = b[i]
    <2>1. A + i \in 1 .. A + B /\ A + i \in 1 .. Len(t) + C /\ A + i <= Len(t) /\ ~(A + i <= A) /\ (A + i) - A = i
      BY <1>0, <1>1
    <2> QED
      BY <2>1, <1>1, <1>2
  <1>5. ASSUME NEW i \in 1 .. C PROVE f[A + B + i] = c[i]
    <2>1. A + B + i \in 1 .. Len(t) + C /\ ~(A + B + i <= Len(t)) /\ (A + B + i) - Len(t) = i
      BY <1>0, <1>1
    <2> QED
      BY <2>1, <1>1, <1>2
  <1>6. Len(f) = A + B + C
    BY <1>0, <1>1, <1>2
  <1> QED
    BY <1>2, <1>3, <1>4, <1>5, <1>6, Zenon DEF A, B, C

\* A part of a sequence that holds another one is that one.
LEMMA Piece ==
  ASSUME NEW S, NEW t \in Seq(S), NEW f, NEW m \in Nat, \A i \in 1 .. Len(t) : f[m + i] = t[i]
  PROVE  SubSeq(f, m + 1, m + Len(t)) = t
  <1> DEFINE n == Len(t)
             s == SubSeq(f, m + 1, m + n)
  <1>0. n \in Nat
    OBVIOUS
  <1> HIDE DEF n
  <1>1. ASSUME NEW i \in m + 1 .. m + n PROVE f[i] \in S
    <2>1. i - m \in 1 .. n /\ m + (i - m) = i
      BY <1>0
    <2>2. f[i] = t[i - m]
      BY <2>1 DEF n
    <2> QED
      BY <2>1, <2>2, ElementOfSeq DEF n
  <1>2. /\ s \in Seq(S) /\ Len(s) = IF m + 1 <= m + n THEN (m + n) - (m + 1) + 1 ELSE 0
        /\ \A i \in 1 .. (m + n) - (m + 1) + 1 : s[i] = f[(m + 1) + i - 1]
    <2>1. m + 1 \in Int /\ m + n \in Int
      BY <1>0
    <2> QED
      BY <2>1, <1>1, SubSeqProperties
  <1> HIDE DEF s
  <1>3. Len(s) = n
    BY <1>0, <1>2
  <1>4. ASSUME NEW i \in 1 .. n PROVE s[i] = t[i]
    <2>1. i \in 1 .. (m + n) - (m + 1) + 1 /\ (m + 1) + i - 1 = m + i
      BY <1>0
    <2> QED
      BY <2>1, <1>2 DEF n
  <1>5. s = t
    BY <1>2, <1>3, <1>4, SeqEqual DEF n
  <1> QED
    BY <1>5 DEF s, n
\* What the frame of an update holds, and where.
LEMMA UpdateFrame ==
  ASSUME NEW body \in BookUpdate
  PROVE  LET f == EncodeBookUpdate(body)
             B == Len(body.bids)
             A == Len(body.asks)
         IN  /\ A \in Nat /\ B \in Nat
             /\ \E S : f \in Seq(S) /\ PriceLevel \subseteq S
             /\ Len(f) = 2 + B + A
             /\ f[1] = [msgType |-> "kBookUpdate", wireVersion |-> kWireVersion]
             /\ f[2] = WireBookUpdateHeader(body)
             /\ \A i \in 1 .. B : f[2 + i] = body.bids[i]
             /\ \A i \in 1 .. A : f[2 + B + i] = body.asks[i]
  <1> DEFINE f == EncodeBookUpdate(body)
             B == Len(body.bids)
             A == Len(body.asks)
             h == [msgType |-> "kBookUpdate", wireVersion |-> kWireVersion]
             d == WireBookUpdateHeader(body)
             S == {h, d} \cup PriceLevel
             start == <<h, d>>
             bids == body.bids
             asks == body.asks
  <1>1. f = start \o bids \o asks
    BY TwoStructs, Zenon DEF EncodeBookUpdate, WriteHeader
  <1>2. bids \in Seq(PriceLevel) /\ asks \in Seq(PriceLevel)
    BY DEF BookUpdate
  <1> HIDE DEF f, h, d, bids, asks
  <1>3. start \in Seq(S) /\ Len(start) = 2 /\ start[1] = h /\ start[2] = d
    OBVIOUS
  <1> HIDE DEF start
  <1>4. bids \in Seq(S) /\ asks \in Seq(S) /\ PriceLevel \subseteq S
    BY <1>2, SeqMonotonic
  <1> HIDE DEF S
  <1>5. B = Len(bids) /\ A = Len(asks)
    BY DEF bids, asks
  <1>6. B \in Nat /\ A \in Nat
    BY <1>2, <1>5
  <1> HIDE DEF A, B
  <1>7. /\ f \in Seq(S) /\ Len(f) = 2 + B + A
        /\ \A i \in 1 .. 2 : f[i] = start[i]
        /\ \A i \in 1 .. B : f[2 + i] = bids[i]
        /\ \A i \in 1 .. A : f[2 + B + i] = asks[i]
    <2>1. start \in Seq(S)
      BY <1>3
    <2>2. /\ f \in Seq(S)
          /\ Len(f) = Len(start) + Len(bids) + Len(asks)
          /\ \A i \in 1 .. Len(start) : f[i] = start[i]
          /\ \A i \in 1 .. Len(bids) : f[Len(start) + i] = bids[i]
          /\ \A i \in 1 .. Len(asks) : f[Len(start) + Len(bids) + i] = asks[i]
      BY <1>1, <1>4, <2>1, Concat
    <2>3. Len(start) = 2
      BY <1>3
    <2> QED
      BY <2>2, <2>3, <1>5
  <1>8. f[1] = h /\ f[2] = d
    BY <1>3, <1>7
  <1> QED
    BY <1>4, <1>6, <1>7, <1>8, Zenon DEF f, B, A, h, d, bids, asks

\* An update comes back, whatever the BookUpdate it is decoded into held.
LEMMA UpdateReturns ==
  ASSUME NEW body \in BookUpdate, NEW out \in BookUpdate
  PROVE  DecodeBookUpdate(EncodeBookUpdate(body), out) = Decoded(body)
  <1> DEFINE f == EncodeBookUpdate(body)
             B == Len(body.bids)
             A == Len(body.asks)
             d == WireBookUpdateHeader(body)
  <1>1. /\ A \in Nat /\ B \in Nat
        /\ Len(f) = 2 + B + A
        /\ f[1] = [msgType |-> "kBookUpdate", wireVersion |-> kWireVersion]
        /\ f[2] = d
        /\ \A i \in 1 .. B : f[2 + i] = body.bids[i]
        /\ \A i \in 1 .. A : f[2 + B + i] = body.asks[i]
    BY UpdateFrame, Zenon
  <1>2. /\ body.instrument \in Key /\ body.isSnapshot \in BOOLEAN
        /\ body.bids \in Seq(PriceLevel) /\ body.asks \in Seq(PriceLevel)
        /\ body = [instrument |-> body.instrument, seq |-> body.seq, prevSeq |-> body.prevSeq,
                   isSnapshot |-> body.isSnapshot, bids |-> body.bids, asks |-> body.asks]
    BY DEF BookUpdate
  <1>3. /\ d.instrument = Packed(body.instrument) /\ d.seq = body.seq /\ d.prevSeq = body.prevSeq
        /\ d.bidCount = B /\ d.askCount = A
        /\ (d.isSnapshot # 0) = body.isSnapshot
    BY <1>2 DEF WireBookUpdateHeader
  <1>4. InstrumentKey(d.instrument) = body.instrument
    BY <1>2, <1>3, KeyReturns
  <1> HIDE DEF f, d
  <1>5. HasPayload(f, "kBookUpdate") /\ Fits(f, 2, B) /\ Fits(f, 2 + B, A)
    <2> HIDE DEF B, A
    <2> QED
      BY <1>1 DEF HasPayload, Fits
  <1>6. ReadLevels(f, 2, B) = body.bids
    <2>1. 2 \in Nat
      OBVIOUS
    <2> QED
      BY <2>1, <1>1, <1>2, Piece, Zenon DEF ReadLevels
  <1>7. ReadLevels(f, 2 + B, A) = body.asks
    <2>1. 2 + B \in Nat
      BY <1>1
    <2> QED
      BY <2>1, <1>1, <1>2, Piece, Zenon DEF ReadLevels
  <1> DEFINE result == [out EXCEPT !.instrument = InstrumentKey(d.instrument), !.seq = d.seq,
                                   !.prevSeq = d.prevSeq, !.isSnapshot = d.isSnapshot # 0,
                                   !.bids = ReadLevels(f, 2, B), !.asks = ReadLevels(f, 2 + B, A)]
  <1>8. DecodeBookUpdate(f, out) = Decoded(result)
    BY <1>1, <1>3, <1>5 DEF DecodeBookUpdate
  <1>9. result = body
    <2>1. out = [instrument |-> out.instrument, seq |-> out.seq, prevSeq |-> out.prevSeq,
                 isSnapshot |-> out.isSnapshot, bids |-> out.bids, asks |-> out.asks]
      BY DEF BookUpdate
    <2> QED
      BY <2>1, <1>2, <1>3, <1>4, <1>6, <1>7
  <1> QED
    BY <1>8, <1>9 DEF f

\* Every message is of one type, and its frame is the one of its type.
LEMMA ByType ==
  ASSUME NEW m \in Messages
  PROVE  \/ m.type = "kHello" /\ m.body \in Hello /\ Encode(m) = EncodeHello(m.body)
         \/ m.type = "kGoodbye" /\ m.body \in Goodbye /\ Encode(m) = EncodeGoodbye(m.body)
         \/ m.type = "kBboQuote" /\ m.body \in BboQuote /\ Encode(m) = EncodeBboQuote(m.body)
         \/ m.type = "kHealth" /\ m.body \in VenueHealthEvent /\ Encode(m) = EncodeHealth(m.body)
         \/ m.type = "kBookUpdate" /\ m.body \in BookUpdate /\ Encode(m) = EncodeBookUpdate(m.body)
  <1>1. \/ m \in [type : {"kHello"}, body : Hello]
        \/ m \in [type : {"kGoodbye"}, body : Goodbye]
        \/ m \in [type : {"kBboQuote"}, body : BboQuote]
        \/ m \in [type : {"kHealth"}, body : VenueHealthEvent]
        \/ m \in [type : {"kBookUpdate"}, body : BookUpdate]
    BY DEF Messages, OtherMessages
  <1>2. \/ m.type = "kHello" /\ m.body \in Hello
        \/ m.type = "kGoodbye" /\ m.body \in Goodbye
        \/ m.type = "kBboQuote" /\ m.body \in BboQuote
        \/ m.type = "kHealth" /\ m.body \in VenueHealthEvent
        \/ m.type = "kBookUpdate" /\ m.body \in BookUpdate
    BY <1>1
  <1> QED
    BY <1>2 DEF Encode

\* A frame begins with the type of its message.
LEMMA FrameBegins ==
  ASSUME NEW m \in Messages
  PROVE  /\ \E S : Encode(m) \in Seq(S)
         /\ Len(Encode(m)) >= 2
         /\ Encode(m)[1].msgType = m.type
  <1>1. ASSUME NEW type, NEW payload
        PROVE  /\ \E S : Short(type, payload) \in Seq(S)
               /\ Len(Short(type, payload)) >= 2
               /\ Short(type, payload)[1].msgType = type
    <2>1. ASSUME NEW a, NEW b PROVE <<a, b>> \in Seq({a, b})
      OBVIOUS
    <2>2. \E S : Short(type, payload) \in Seq(S)
      BY <2>1, Zenon DEF Short
    <2>3. Len(Short(type, payload)) = 2 /\ Short(type, payload)[1].msgType = type
      BY ShortHas
    <2> QED
      BY <2>2, <2>3
  <1>2. CASE m.type = "kHello" /\ Encode(m) = EncodeHello(m.body)
    <2>1. EncodeHello(m.body) = Short("kHello", WireHelloPayload(m.body))
      BY ShortFrames
    <2> QED
      BY <1>1, <1>2, <2>1
  <1>3. CASE m.type = "kGoodbye" /\ Encode(m) = EncodeGoodbye(m.body)
    <2>1. EncodeGoodbye(m.body) = Short("kGoodbye", WireGoodbyePayload(m.body))
      BY ShortFrames
    <2> QED
      BY <1>1, <1>3, <2>1
  <1>4. CASE m.type = "kBboQuote" /\ Encode(m) = EncodeBboQuote(m.body)
    <2>1. EncodeBboQuote(m.body) = Short("kBboQuote", WireBboQuotePayload(m.body))
      BY ShortFrames
    <2> QED
      BY <1>1, <1>4, <2>1
  <1>5. CASE m.type = "kHealth" /\ Encode(m) = EncodeHealth(m.body)
    <2>1. EncodeHealth(m.body) = Short("kHealth", WireHealthPayload(m.body))
      BY ShortFrames
    <2> QED
      BY <1>1, <1>5, <2>1
  <1>6. CASE m.type = "kBookUpdate" /\ m.body \in BookUpdate /\ Encode(m) = EncodeBookUpdate(m.body)
    <2> DEFINE f == EncodeBookUpdate(m.body)
    <2>1. /\ \E S : f \in Seq(S)
          /\ Len(m.body.bids) \in Nat /\ Len(m.body.asks) \in Nat
          /\ Len(f) = 2 + Len(m.body.bids) + Len(m.body.asks)
          /\ f[1] = [msgType |-> "kBookUpdate", wireVersion |-> kWireVersion]
      BY <1>6, UpdateFrame, Zenon
    <2> HIDE DEF f
    <2>2. Len(f) >= 2
      <3>1. ASSUME NEW B \in Nat, NEW A \in Nat PROVE 2 + B + A >= 2
        OBVIOUS
      <3> QED
        BY <2>1, <3>1, Zenon
    <2>3. f[1].msgType = "kBookUpdate"
      BY <2>1
    <2> QED
      BY <1>6, <2>1, <2>2, <2>3, Zenon DEF f
  <1> QED
    BY <1>2, <1>3, <1>4, <1>5, <1>6, ByType, Zenon

\* A frame without header and payload of a type is refused under it.
LEMMA Refusal ==
  ASSUME NEW buf, NEW type \in WireMsgType, ~HasPayload(buf, type), NEW out
  PROVE  /\ type = "kBookUpdate" => ~DecodeBookUpdate(buf, out).ok
         /\ type # "kBookUpdate" => ~Decode(type, buf).ok
  <1>1. ~Refused(out).ok /\ ~Refused(Nothing).ok
    BY DEF Refused
  <1>2. type = "kBookUpdate" => DecodeBookUpdate(buf, out) = Refused(out)
    BY DEF DecodeBookUpdate
  <1>3. type = "kHello" => Decode(type, buf) = Refused(Nothing)
    BY DEF Decode, DecodeHello
  <1>4. type = "kGoodbye" => Decode(type, buf) = Refused(Nothing)
    BY DEF Decode, DecodeGoodbye
  <1>5. type = "kBboQuote" => Decode(type, buf) = Refused(Nothing)
    BY DEF Decode, DecodeBboQuote
  <1>6. type = "kHealth" => Decode(type, buf) = Refused(Nothing)
    BY DEF Decode, DecodeHealth
  <1> QED
    BY <1>1, <1>2, <1>3, <1>4, <1>5, <1>6 DEF WireMsgType

\* What a frame that ends early still shows.
LEMMA Prefix ==
  ASSUME NEW S, NEW f \in Seq(S), NEW buf \in Prefixes(f)
  PROVE  /\ Len(buf) \in 0 .. Len(f)
         /\ \A i \in 1 .. Len(buf) : buf[i] = f[i]
         /\ Len(buf) = Len(f) => buf = f
  <1>1. PICK l \in 0 .. Len(f) : buf = SubSeq(f, 1, l)
    BY Zenon DEF Prefixes
  <1>2. Len(f) \in Nat /\ \A i \in 1 .. l : f[i] \in S
    BY ElementOfSeq
  <1>3. Len(buf) = (IF 1 <= l THEN l - 1 + 1 ELSE 0) /\ \A i \in 1 .. l - 1 + 1 : buf[i] = f[1 + i - 1]
    <2>1. 1 \in Int /\ l \in Int
      BY <1>2
    <2> QED
      BY <1>1, <1>2, <2>1, SubSeqProperties
  <1>4. Len(buf) = l
    BY <1>2, <1>3
  <1>5. \A i \in 1 .. l : buf[i] = f[i]
    BY <1>2, <1>3
  <1>6. l = Len(f) => buf = f
    BY <1>1, SubSeqFull
  <1> QED
    BY <1>2, <1>4, <1>5, <1>6

\* A frame that ends early is refused under its own type ...
LEMMA EarlyEnd ==
  ASSUME NEW m \in Messages, NEW buf \in Prefixes(Encode(m)), buf # Encode(m), NEW out
  PROVE  /\ m.type = "kBookUpdate" => ~DecodeBookUpdate(buf, out).ok
         /\ m.type # "kBookUpdate" => ~Decode(m.type, buf).ok
  <1> DEFINE f == Encode(m)
  <1>1. /\ Len(buf) \in Nat /\ Len(f) \in Nat /\ Len(buf) < Len(f)
        /\ \A i \in 1 .. Len(buf) : buf[i] = f[i]
    <2>1. PICK S : f \in Seq(S)
      BY FrameBegins
    <2>2. /\ Len(buf) \in 0 .. Len(f)
          /\ \A i \in 1 .. Len(buf) : buf[i] = f[i]
          /\ Len(buf) # Len(f)
      BY <2>1, Prefix, Zenon
    <2>3. Len(f) \in Nat
      BY <2>1
    <2> HIDE DEF f
    <2> QED
      BY <2>2, <2>3
  <1>2. m.type \in WireMsgType
    BY ByType DEF WireMsgType
  <1>3. CASE m.type # "kBookUpdate"
    <2>1. Len(f) = 2
      <3>1. PICK type, payload : f = Short(type, payload)
        BY <1>3, ByType, ShortFrames
      <3> QED
        BY <3>1, ShortHas
    <2>2. ~HasPayload(buf, m.type)
      <3> HIDE DEF f
      <3> QED
        BY <1>1, <2>1 DEF HasPayload, Fits
    <2> QED
      BY <1>2, <1>3, <2>2, Refusal
  <1>4. CASE m.type = "kBookUpdate"
    <2> DEFINE d == WireBookUpdateHeader(m.body)
               B == Len(m.body.bids)
               A == Len(m.body.asks)
    <2>1. m.body \in BookUpdate /\ f = EncodeBookUpdate(m.body)
      BY <1>4, ByType
    <2>2. A \in Nat /\ B \in Nat /\ Len(f) = 2 + B + A /\ f[2] = d
      BY <2>1, UpdateFrame, Zenon
    <2>3. d.bidCount = B /\ d.askCount = A
      BY DEF WireBookUpdateHeader
    <2> HIDE DEF f, d, A, B
    <2>4. CASE HasPayload(buf, "kBookUpdate")
      <3>1. buf[2] = d
        BY <1>1, <2>2, <2>4 DEF HasPayload, Fits
      <3>2. ~Fits(buf, 2, B) \/ ~Fits(buf, 2 + B, A)
        BY <1>1, <2>2 DEF Fits
      <3>3. \E rest : DecodeBookUpdate(buf, out) = Refused(rest)
        BY <2>3, <2>4, <3>1, <3>2 DEF DecodeBookUpdate
      <3> QED
        BY <1>4, <3>3 DEF Refused
    <2>5. CASE ~HasPayload(buf, "kBookUpdate")
      BY <1>2, <1>4, <2>5, Refusal
    <2> QED
      BY <2>4, <2>5
  <1> QED
    BY <1>3, <1>4

\* ... and one of another type under every other.
LEMMA WrongType ==
  ASSUME NEW m \in Messages, NEW buf \in Prefixes(Encode(m)), NEW type \in WireMsgType,
         type # m.type, NEW out
  PROVE  /\ type = "kBookUpdate" => ~DecodeBookUpdate(buf, out).ok
         /\ type # "kBookUpdate" => ~Decode(type, buf).ok
  <1>1. PICK S : Encode(m) \in Seq(S)
    BY FrameBegins
  <1>2. Len(buf) \in Nat /\ \A i \in 1 .. Len(buf) : buf[i] = Encode(m)[i]
    BY <1>1, Prefix
  <1>3. Encode(m)[1].msgType = m.type
    BY FrameBegins
  <1>4. ~HasPayload(buf, type)
    BY <1>2, <1>3 DEF HasPayload, Fits
  <1> QED
    BY <1>4, Refusal

\* The orders of a venue: sequences of its prices, no price twice.
LEMMA OrdersAre ==
  ASSUME NEW s \in Slot, NEW order \in Orders(s)
  PROVE  /\ order \in Seq(PricesOf[s])
         /\ \A m, n \in DOMAIN order : m # n => order[m] # order[n]
  <1>1. PICK P \in SUBSET PricesOf[s] :
          order \in [1 .. Cardinality(P) -> P] /\ \A m, n \in 1 .. Cardinality(P) : m # n => order[m] # order[n]
    BY Zenon DEF Orders, SetToAllKPermutations, SetToSeqs
  <1>2. Cardinality(P) \in Nat
    <2>1. P \subseteq Price
      BY DEF Price
    <2>2. IsFiniteSet(P)
      BY <2>1, DepthAssumption, FS_Subset
    <2> QED
      BY <2>2, FS_CardinalityType
  <1>3. order \in Seq(P)
    BY <1>1, <1>2
  <1> QED
    BY <1>1, <1>3, SeqMonotonic

\* What a venue sends is a message.
LEMMA UpdateIsMessage ==
  ASSUME NEW s \in Slot, NEW isSnapshot \in BOOLEAN, NEW levels \in Seq(PriceLevel)
  PROVE  /\ Update(s, isSnapshot, levels) \in BookUpdate
         /\ [type |-> "kBookUpdate", body |-> Update(s, isSnapshot, levels)] \in Messages
  <1>1. [symbol |-> s, market |-> 1] \in Key
    <2>1. s \in 0 .. Byte * Byte - 1 /\ 1 \in 0 .. Byte - 1
      <3>1. MaxVenues \in 1 .. Byte - 1
        BY DepthAssumption
      <3>2. Byte \in Nat /\ Byte > 1
        BY DEF Byte
      <3>3. Byte * Byte >= Byte /\ Byte * Byte \in Nat
        BY <3>2
      <3> HIDE DEF Byte
      <3> QED
        BY <3>1, <3>2, <3>3 DEF Slot
    <2> QED
      BY <2>1 DEF Key
  <1>2. <<>> \in Seq(PriceLevel)
    OBVIOUS
  <1>3. Update(s, isSnapshot, levels) \in BookUpdate
    BY <1>1, <1>2 DEF Update, BookUpdate
  <1> QED
    BY <1>3 DEF Messages

\* The levels of an update, one for each price.
LEMMA LevelsAre ==
  ASSUME NEW s \in Slot, NEW order \in Orders(s), NEW qty \in [Range(order) -> Nat]
  PROVE  LET levels == [n \in DOMAIN order |-> Level(order[n], qty[order[n]])]
         IN  /\ levels \in Seq(PriceLevel) /\ Len(levels) = Len(order)
             /\ \A n \in 1 .. Len(order) : levels[n] = Level(order[n], qty[order[n]])
  <1> DEFINE levels == [n \in DOMAIN order |-> Level(order[n], qty[order[n]])]
  <1>1. order \in Seq(PricesOf[s]) /\ DOMAIN order = 1 .. Len(order) /\ Len(order) \in Nat
    BY OrdersAre
  <1>2. ASSUME NEW n \in 1 .. Len(order)
        PROVE  levels[n] = Level(order[n], qty[order[n]]) /\ Level(order[n], qty[order[n]]) \in PriceLevel
    <2>1. order[n] \in Nat
      <3>1. order[n] \in PricesOf[s]
        BY <1>1
      <3> QED
        BY <3>1, DepthAssumption DEF Price
    <2>2. qty[order[n]] \in Nat
      BY <1>1 DEF Range
    <2> QED
      BY <1>1, <2>1, <2>2 DEF Level, PriceLevel
  <1>3. levels \in [1 .. Len(order) -> PriceLevel]
    BY <1>1, <1>2
  <1>4. levels \in Seq(PriceLevel) /\ Len(levels) = Len(order)
    <2> HIDE DEF levels
    <2> QED
      BY <1>1, <1>3
  <1> QED
    BY <1>2, <1>4, Zenon

\* The message under way and its frame.
WireInv ==
  /\ side \in {"bids", "asks"}
  /\ slot \in Slot
  /\ message # Nothing => message \in Messages /\ frame = Encode(message)
  /\ message = Nothing => frame = <<>>

\* Nothing is under way at first.
LEMMA WireInvInitially == Init => WireInv
  BY DepthAssumption DEF Init, WireInv, Slot

\* What is under way is a message and its frame.
LEMMA WireInvKept ==
  ASSUME WireInv, [Next]_vars
  PROVE  WireInv'
  <1> USE DEF WireInv
  <1>1. CASE UNCHANGED vars
    BY <1>1 DEF vars, wireVars, Encode, EncodeHello, EncodeGoodbye, EncodeBookUpdate, EncodeBboQuote, EncodeHealth
  <1>2. ASSUME NEW s \in Slot, NEW isSnapshot \in BOOLEAN, SendUpdate(s, isSnapshot)
        PROVE  WireInv'
    <2>1. PICK order \in Orders(s) :
            \E qty \in [Range(order) -> IF isSnapshot THEN Quantity \ {0} ELSE Quantity] :
              LET levels == [n \in DOMAIN order |-> Level(order[n], qty[order[n]])]
              IN  Send(s, [type |-> "kBookUpdate", body |-> Update(s, isSnapshot, levels)])
      BY <1>2 DEF SendUpdate
    <2>2. PICK qty \in [Range(order) -> Nat] :
              LET levels == [n \in DOMAIN order |-> Level(order[n], qty[order[n]])]
              IN  Send(s, [type |-> "kBookUpdate", body |-> Update(s, isSnapshot, levels)])
      <3>1. [Range(order) -> IF isSnapshot THEN Quantity \ {0} ELSE Quantity] \subseteq [Range(order) -> Nat]
        BY DepthAssumption
      <3> QED
        BY <2>1, <3>1, Zenon
    <2> DEFINE levels == [n \in DOMAIN order |-> Level(order[n], qty[order[n]])]
               m == [type |-> "kBookUpdate", body |-> Update(s, isSnapshot, levels)]
    <2>3. m \in Messages
      BY LevelsAre, UpdateIsMessage, Zenon
    <2>4. message' = m /\ frame' = Encode(m) /\ slot' = s /\ side' = side
      BY <2>2 DEF Send
    <2> HIDE DEF m
    <2> QED
      BY <2>3, <2>4, DepthAssumption
  <1>3. ASSUME NEW s \in Slot, SendOther(s)
        PROVE  WireInv'
    <2>1. PICK m \in OtherMessage : Send(s, m)
      BY <1>3 DEF SendOther
    <2>2. m \in Messages
      BY DepthAssumption DEF Messages
    <2> QED
      BY <2>1, <2>2, DepthAssumption DEF Send
  <1>4. CASE ReceiveUpdate \/ ReceiveOther
    BY <1>4 DEF ReceiveUpdate, ReceiveOther, Received
  <1> QED
    BY <1>1, <1>2, <1>3, <1>4 DEF Next

\* The frame under way is the encoding of the message (ZmqProviderSink).
THEOREM WireCorrect == Spec => []WireInv
  BY WireInvInitially, WireInvKept, PTL DEF Spec

\* Every message of every type, with any number of levels, arrives as it was sent, an
\* update whatever the reused BookUpdate held (wire_codec).
THEOREM RoundTripCorrect == Spec => []MessagesRoundTrip
  <1>1. ASSUME WireInv PROVE MessagesRoundTrip
    <2> SUFFICES ASSUME message # Nothing
                 PROVE  /\ frame[1].msgType = message.type
                        /\ IF message.type = "kBookUpdate"
                           THEN \A out \in Leftover : DecodeBookUpdate(frame, out) = Decoded(message.body)
                           ELSE Decode(message.type, frame) = Decoded(message.body)
      BY DEF MessagesRoundTrip
    <2>1. message \in Messages /\ frame = Encode(message)
      BY <1>1 DEF WireInv
    <2>2. frame[1].msgType = message.type
      BY <2>1, FrameBegins
    <2>3. CASE message.type = "kHello" /\ message.body \in Hello /\ frame = EncodeHello(message.body)
      BY <2>2, <2>3, HelloReturns DEF Decode
    <2>4. CASE message.type = "kGoodbye" /\ message.body \in Goodbye /\ frame = EncodeGoodbye(message.body)
      BY <2>2, <2>4, GoodbyeReturns DEF Decode
    <2>5. CASE message.type = "kBboQuote" /\ message.body \in BboQuote /\ frame = EncodeBboQuote(message.body)
      BY <2>2, <2>5, BboQuoteReturns DEF Decode
    <2>6. CASE message.type = "kHealth" /\ message.body \in VenueHealthEvent /\ frame = EncodeHealth(message.body)
      BY <2>2, <2>6, HealthReturns DEF Decode
    <2>7. CASE message.type = "kBookUpdate" /\ message.body \in BookUpdate /\ frame = EncodeBookUpdate(message.body)
      BY <2>2, <2>7, UpdateReturns, DepthAssumption
    <2> QED
      BY <2>1, <2>3, <2>4, <2>5, <2>6, <2>7, ByType, Zenon
  <1> QED
    BY <1>1, WireCorrect, PTL

\* No frame that ends early, and none of another type, is ever accepted (ReadPod,
\* ReadBytes, msg_type).
THEOREM MisreadingCorrect == Spec => []NothingIsMisread
  <1>1. ASSUME WireInv PROVE NothingIsMisread
    <2> SUFFICES ASSUME message # Nothing,
                        NEW buf \in Prefixes(frame), NEW type \in WireMsgType,
                        buf # frame \/ type # message.type
                 PROVE  IF type = "kBookUpdate" THEN \A out \in Leftover : ~DecodeBookUpdate(buf, out).ok
                        ELSE ~Decode(type, buf).ok
      BY Zenon DEF NothingIsMisread
    <2>1. message \in Messages /\ frame = Encode(message)
      BY <1>1 DEF WireInv
    <2>2. CASE type # message.type
      BY <2>1, <2>2, WrongType, Zenon
    <2>3. CASE type = message.type
      BY <2>1, <2>3, EarlyEnd, Zenon
    <2> QED
      BY <2>2, <2>3
  <1> QED
    BY <1>1, WireCorrect, PTL

---------------------------------------------------------------------------
(* The order of a book.                                                     *)

\* storage_less is a strict total order, for bids and for asks.
LEMMA LessOrder ==
  ASSUME NEW a \in Nat, NEW b \in Nat, NEW c \in Nat
  PROVE  /\ ~StorageLess(a, a)
         /\ StorageLess(a, b) => ~StorageLess(b, a)
         /\ StorageLess(a, b) \/ a = b \/ StorageLess(b, a)
         /\ StorageLess(a, b) /\ StorageLess(b, c) => StorageLess(a, c)
  BY DEF StorageLess

\* The elements of a list of levels.
LEMMA LevelsOf ==
  ASSUME NEW x \in Seq(PriceLevel)
  PROVE  /\ Len(x) \in Nat /\ DOMAIN x = 1 .. Len(x)
         /\ \A n \in 1 .. Len(x) : /\ x[n] \in PriceLevel /\ x[n].price \in Nat /\ x[n].qty \in Nat
                                   /\ x[n] = Level(x[n].price, x[n].qty)
  <1>1. Len(x) \in Nat /\ DOMAIN x = 1 .. Len(x)
    OBVIOUS
  <1>2. ASSUME NEW n \in 1 .. Len(x) PROVE x[n] \in PriceLevel
    BY ElementOfSeq
  <1> QED
    BY <1>1, <1>2 DEF PriceLevel, Level

\* Neighbours in order are enough.
LEMMA Neighbours ==
  ASSUME NEW x \in Seq(PriceLevel),
         \A n \in 2 .. Len(x) : StorageLess(x[n - 1].price, x[n].price)
  PROVE  Ordered(x, StorageLess)
  <1> DEFINE N == Len(x)
             T == {d \in Nat : \A m \in 1 .. N : m + 1 + d <= N => StorageLess(x[m].price, x[m + 1 + d].price)}
  <1>0. N \in Nat /\ \A n \in 1 .. N : x[n].price \in Nat
    BY LevelsOf
  <1>1. 0 \in T
    <2> SUFFICES ASSUME NEW m \in 1 .. N, m + 1 + 0 <= N
                 PROVE  StorageLess(x[m].price, x[m + 1 + 0].price)
      OBVIOUS
    <2>1. m + 1 \in 2 .. N /\ (m + 1) - 1 = m /\ m + 1 + 0 = m + 1
      BY <1>0
    <2> QED
      BY <2>1
  <1>2. ASSUME NEW d \in 0 .. N - 1, d \in T PROVE d + 1 \in T
    <2> SUFFICES ASSUME NEW m \in 1 .. N, m + 1 + (d + 1) <= N
                 PROVE  StorageLess(x[m].price, x[m + 1 + (d + 1)].price)
      OBVIOUS
    <2> DEFINE a == m + 1 + d
               b == m + 1 + (d + 1)
    <2>1. a \in 1 .. N /\ b \in 2 .. N /\ b - 1 = a /\ a <= N
      BY <1>0
    <2>2. StorageLess(x[m].price, x[a].price)
      BY <1>2, <2>1
    <2>3. StorageLess(x[a].price, x[b].price)
      BY <2>1
    <2>4. x[m].price \in Nat /\ x[a].price \in Nat /\ x[b].price \in Nat
      BY <1>0, <2>1
    <2> QED
      BY <2>2, <2>3, <2>4, LessOrder
  <1>3. \A d \in 0 .. N : d \in T
    <2> HIDE DEF T
    <2> QED
      BY <1>0, <1>1, <1>2, Induct
  <1>4. ASSUME NEW m \in 1 .. N, NEW n \in 1 .. N, m < n
        PROVE  StorageLess(x[m].price, x[n].price)
    <2> DEFINE d == n - m - 1
    <2>1. d \in 0 .. N /\ m + 1 + d = n
      BY <1>0, <1>4
    <2>2. d \in T
      BY <1>3, <2>1
    <2> QED
      BY <2>1, <2>2
  <1>5. DOMAIN x = 1 .. N
    BY LevelsOf
  <1> QED
    BY <1>4, <1>5 DEF Ordered

\* No price twice.
Distinct(x) == \A m, n \in DOMAIN x : m # n => x[m].price # x[n].price

\* Neighbours not out of order, and no price twice: in strict order.
LEMMA InOrderIsOrdered ==
  ASSUME NEW x \in Seq(PriceLevel), Distinct(x), InOrder(x)
  PROVE  Ordered(x, StorageLess)
  <1>1. ASSUME NEW n \in 2 .. Len(x)
        PROVE  StorageLess(x[n - 1].price, x[n].price)
    <2>1. n \in 1 .. Len(x) /\ n - 1 \in 1 .. Len(x) /\ n # n - 1
      BY LevelsOf
    <2>2. x[n].price \in Nat /\ x[n - 1].price \in Nat /\ x[n].price # x[n - 1].price
      BY <2>1, LevelsOf DEF Distinct
    <2>3. ~StorageLess(x[n].price, x[n - 1].price)
      BY DEF InOrder
    <2> QED
      BY <2>2, <2>3, LessOrder
  <1> QED
    BY <1>1, Neighbours

\* Any list of prices can be brought into order.
LEMMA CanSort ==
  ASSUME NEW N \in Nat, NEW f \in [1 .. N -> Nat]
  PROVE  \E p \in Bijection(1 .. N, 1 .. N) :
           \A m, n \in 1 .. N : m < n => ~StorageLess(f[p[n]], f[p[m]])
  <1> DEFINE Sorts(M) == {p \in [1 .. M -> 1 .. M] :
               /\ \A a, b \in 1 .. M : p[a] = p[b] => a = b
               /\ \A t \in 1 .. M : \E a \in 1 .. M : p[a] = t
               /\ \A m, n \in 1 .. M : m < n => ~StorageLess(f[p[n]], f[p[m]])}
             T == {M \in Nat : Sorts(M) # {}}
  <1>1. 0 \in T
    <2>1. [a \in 1 .. 0 |-> a] \in Sorts(0)
      OBVIOUS
    <2> QED
      BY <2>1
  <1>2. ASSUME NEW M \in 0 .. N - 1, M \in T PROVE M + 1 \in T
    <2>1. PICK p : p \in Sorts(M)
      BY <1>2
    <2>5. /\ p \in [1 .. M -> 1 .. M]
          /\ \A a, b \in 1 .. M : p[a] = p[b] => a = b
          /\ \A t \in 1 .. M : \E a \in 1 .. M : p[a] = t
          /\ \A m, n \in 1 .. M : m < n => ~StorageLess(f[p[n]], f[p[m]])
      BY <2>1
    <2> HIDE DEF Sorts, T
    <2> DEFINE v == f[M + 1]
               K == {i \in 1 .. M + 1 : i = M + 1 \/ StorageLess(v, f[p[i]])}
    <2>2. PICK k \in K : \A i \in K : k <= i
      <3>1. K \in SUBSET Nat /\ M + 1 \in K
        OBVIOUS
      <3> HIDE DEF K
      <3> QED
        BY <3>1, Least
    <2>3. k \in 1 .. M + 1 /\ (k <= M => StorageLess(v, f[p[k]]))
      BY <2>2
    <2>4. ASSUME NEW i \in 1 .. k - 1 PROVE ~StorageLess(v, f[p[i]])
      <3>1. i \in 1 .. M + 1 /\ ~(k <= i)
        BY <2>3
      <3>2. i \notin K
        BY <2>2, <3>1
      <3> QED
        BY <3>1, <3>2
    <2> HIDE DEF K
    <2> DEFINE r == [i \in 1 .. M + 1 |-> IF i < k THEN p[i] ELSE IF i = k THEN M + 1 ELSE p[i - 1]]
    <2>6. /\ \A i \in 1 .. k - 1 : r[i] = p[i] /\ i \in 1 .. M
          /\ r[k] = M + 1
          /\ \A i \in k + 1 .. M + 1 : r[i] = p[i - 1] /\ i - 1 \in k .. M /\ i - 1 \in 1 .. M
      BY <2>3
    <2>8. \A i \in 1 .. M + 1 : i \in 1 .. k - 1 \/ i = k \/ i \in k + 1 .. M + 1
      BY <2>3
    <2>7. r \in [1 .. M + 1 -> 1 .. M + 1]
      <3>1. ASSUME NEW i \in 1 .. M + 1 PROVE r[i] \in 1 .. M + 1
        <4> HIDE DEF r
        <4>1. \A j \in 1 .. M : p[j] \in 1 .. M + 1
          BY <2>5
        <4>2. M + 1 \in 1 .. M + 1
          OBVIOUS
        <4> QED
          BY <4>1, <4>2, <2>6, <2>8
      <3> QED
        BY <3>1
    <2> HIDE DEF r
    <2>9. ASSUME NEW a \in 1 .. M + 1, NEW b \in 1 .. M + 1, r[a] = r[b] PROVE a = b
      <3>1. \A i \in 1 .. M : p[i] # M + 1
        BY <2>5
      <3>2. CASE a = k
        BY <2>6, <2>8, <2>9, <3>1, <3>2
      <3>3. CASE b = k
        BY <2>6, <2>8, <2>9, <3>1, <3>3
      <3>4. CASE a # k /\ b # k
        <4> DEFINE oa == IF a < k THEN a ELSE a - 1
                   ob == IF b < k THEN b ELSE b - 1
        <4>1. oa \in 1 .. M /\ r[a] = p[oa] /\ ob \in 1 .. M /\ r[b] = p[ob]
          BY <2>3, <2>6, <3>4, SMTT(30)
        <4>2. oa = ob
          <5> HIDE DEF oa, ob
          <5> QED
            BY <4>1, <2>5, <2>9
        <4> QED
          BY <4>2, <3>4, <2>3, SMTT(30)
      <3> QED
        BY <3>2, <3>3, <3>4
    <2>10. ASSUME NEW t \in 1 .. M + 1 PROVE \E a \in 1 .. M + 1 : r[a] = t
      <3>1. CASE t = M + 1
        BY <2>3, <2>6, <3>1
      <3>2. CASE t # M + 1
        <4>1. PICK a \in 1 .. M : p[a] = t
          BY <2>5, <3>2
        <4>2. CASE a < k
          <5>1. a \in 1 .. k - 1 /\ a \in 1 .. M + 1
            BY <2>3, <4>2
          <5> QED
            BY <5>1, <4>1, <2>6
        <4>3. CASE ~(a < k)
          <5>1. a + 1 \in k + 1 .. M + 1 /\ a + 1 \in 1 .. M + 1 /\ (a + 1) - 1 = a
            BY <2>3, <4>3
          <5> QED
            BY <5>1, <4>1, <2>6
        <4> QED
          BY <4>2, <4>3
      <3> QED
        BY <3>1, <3>2
    <2>11. ASSUME NEW m \in 1 .. M + 1, NEW n \in 1 .. M + 1, m < n
           PROVE  ~StorageLess(f[r[n]], f[r[m]])
      <3>0. v \in Nat /\ f[M + 1] = v /\ \A i \in 1 .. M : f[p[i]] \in Nat
        <4>1. M + 1 \in 1 .. N /\ \A i \in 1 .. M : p[i] \in 1 .. N
          BY <2>5
        <4> QED
          BY <4>1
      <3> HIDE DEF v
      <3>1. CASE n < k
        <4>1. m \in 1 .. k - 1 /\ n \in 1 .. k - 1
          BY <2>3, <2>11, <3>1
        <4> QED
          BY <4>1, <2>5, <2>6, <2>11
      <3>2. CASE n = k
        <4>1. m \in 1 .. k - 1
          BY <2>3, <2>11, <3>2
        <4> QED
          BY <4>1, <2>4, <2>6, <3>0, <3>2
      <3>3. CASE n > k /\ m < k
        <4>1. m \in 1 .. k - 1 /\ n \in k + 1 .. M + 1 /\ m < n - 1
          BY <2>3, <2>11, <3>3
        <4>2. r[m] = p[m] /\ m \in 1 .. M /\ r[n] = p[n - 1] /\ n - 1 \in 1 .. M
          BY <4>1, <2>6
        <4>3. ~StorageLess(f[p[n - 1]], f[p[m]])
          BY <4>1, <4>2, <2>5
        <4> QED
          BY <4>2, <4>3
      <3>4. CASE n > k /\ m = k
        <4>1. n \in k + 1 .. M + 1 /\ n - 1 \in k .. M /\ n - 1 \in 1 .. M /\ k \in 1 .. M /\ k <= M
          BY <2>3, <2>11, <3>4
        <4>2. StorageLess(v, f[p[k]])
          BY <2>3, <4>1
        <4>3. n - 1 # k => ~StorageLess(f[p[n - 1]], f[p[k]])
          <5>1. n - 1 # k => k < n - 1
            BY <4>1, <2>3
          <5> QED
            BY <2>5, <4>1, <5>1
        <4>4. f[p[n - 1]] \in Nat /\ f[p[k]] \in Nat
          BY <3>0, <4>1
        <4>5. ~StorageLess(f[p[n - 1]], v)
          <5>1. PICK x, y : x = f[p[n - 1]] /\ y = f[p[k]]
            OBVIOUS
          <5>2. x \in Nat /\ y \in Nat /\ v \in Nat
            BY <3>0, <4>4, <5>1
          <5>3. StorageLess(v, y) /\ (x = y \/ ~StorageLess(x, y))
            BY <4>2, <4>3, <5>1
          <5>4. ~StorageLess(x, v)
            BY <5>2, <5>3, LessOrder
          <5> QED
            BY <5>1, <5>4
        <4>6. r[n] = p[n - 1] /\ r[m] = M + 1 /\ f[M + 1] = v
          <5>1. r[n] = p[n - 1] /\ r[k] = M + 1
            BY <4>1, <2>6
          <5> QED
            BY <5>1, <3>0, <3>4
        <4> QED
          BY <4>5, <4>6
      <3>5. CASE m > k
        <4>1. m \in k + 1 .. M + 1 /\ n \in k + 1 .. M + 1 /\ m - 1 < n - 1
          BY <2>3, <2>11, <3>5, SMTT(30)
        <4>2. r[m] = p[m - 1] /\ m - 1 \in 1 .. M /\ r[n] = p[n - 1] /\ n - 1 \in 1 .. M
          BY <4>1, <2>6
        <4>3. ~StorageLess(f[p[n - 1]], f[p[m - 1]])
          BY <4>1, <4>2, <2>5
        <4> QED
          BY <4>2, <4>3
      <3> QED
        BY <2>3, <2>11, <3>1, <3>2, <3>3, <3>4, <3>5
    <2>12. r \in Sorts(M + 1)
      BY <2>7, <2>9, <2>10, <2>11 DEF Sorts
    <2> QED
      BY <2>12 DEF T
  <1>3. N \in T
    <2> HIDE DEF T, Sorts
    <2>1. \A M \in 0 .. N : M \in T
      BY <1>1, <1>2, Induct
    <2> QED
      BY <2>1
  <1>4. PICK p \in Sorts(N) : TRUE
    BY <1>3
  <1>5. p \in Bijection(1 .. N, 1 .. N)
    BY <1>4 DEF Bijection, Injection, Surjection, IsInjective
  <1> QED
    BY <1>4, <1>5

\* A rearrangement has the same levels, each once.
LEMMA Rearranged ==
  ASSUME NEW x \in Seq(PriceLevel), Distinct(x), NEW p \in Bijection(1 .. Len(x), 1 .. Len(x)),
         NEW y, y = [n \in 1 .. Len(x) |-> x[p[n]]]
  PROVE  y \in Seq(PriceLevel) /\ Distinct(y) /\ Range(y) = Range(x)
  <1> DEFINE N == Len(x)
  <1>0. N \in Nat /\ DOMAIN x = 1 .. N /\ \A n \in 1 .. N : x[n] \in PriceLevel
    BY LevelsOf
  <1>1. /\ p \in [1 .. N -> 1 .. N]
        /\ \A a, b \in 1 .. N : p[a] = p[b] => a = b
        /\ \A t \in 1 .. N : \E a \in 1 .. N : p[a] = t
    BY DEF Bijection, Injection, Surjection, IsInjective
  <1> HIDE DEF N
  <1>2. y \in [1 .. N -> PriceLevel] /\ \A n \in 1 .. N : y[n] = x[p[n]]
    BY <1>0, <1>1 DEF N
  <1>3. y \in Seq(PriceLevel) /\ DOMAIN y = 1 .. N
    BY <1>0, <1>2
  <1>4. Distinct(y)
    <2>1. ASSUME NEW m \in DOMAIN y, NEW n \in DOMAIN y, m # n PROVE y[m].price # y[n].price
      <3>0. m \in 1 .. N /\ n \in 1 .. N
        BY <1>3
      <3>1. p[m] \in 1 .. N /\ p[n] \in 1 .. N /\ p[m] # p[n]
        BY <1>1, <2>1, <3>0
      <3>2. x[p[m]].price # x[p[n]].price
        BY <1>0, <3>1 DEF Distinct
      <3> QED
        BY <1>2, <3>0, <3>2
    <2> QED
      BY <2>1, Zenon DEF Distinct
  <1>5. Range(y) = Range(x)
    <2>1. ASSUME NEW l \in Range(x) PROVE l \in Range(y)
      <3>1. PICK t \in 1 .. N : l = x[t]
        BY <1>0 DEF Range
      <3>2. PICK a \in 1 .. N : p[a] = t
        BY <1>1
      <3> QED
        BY <1>2, <1>3, <3>1, <3>2 DEF Range
    <2>2. ASSUME NEW l \in Range(y) PROVE l \in Range(x)
      BY <1>0, <1>1, <1>2, <1>3 DEF Range
    <2> QED
      BY <2>1, <2>2
  <1> QED
    BY <1>3, <1>4, <1>5

\* The three ways to storage order end in the same: the levels that were sent, in
\* strict order.
LEMMA ResolvedIs ==
  ASSUME NEW sent \in Seq(PriceLevel), Distinct(sent)
  PROVE  /\ Resolved(sent) \in Seq(PriceLevel)
         /\ Ordered(Resolved(sent), StorageLess)
         /\ Range(Resolved(sent)) = Range(sent)
  <1> DEFINE N == Len(sent)
  <1>0. N \in Nat /\ DOMAIN sent = 1 .. N /\ \A n \in 1 .. N : sent[n].price \in Nat
    BY LevelsOf
  <1>1. CASE InOrder(sent)
    BY <1>1, InOrderIsOrdered DEF Resolved
  <1>2. CASE ~InOrder(sent) /\ InOrder(Reverse(sent))
    <2> DEFINE p == [n \in 1 .. N |-> (N - n) + 1]
               y == [n \in 1 .. N |-> sent[p[n]]]
    <2>1. p \in Bijection(1 .. N, 1 .. N)
      <3> HIDE DEF N
      <3>1. p \in [1 .. N -> 1 .. N]
        BY <1>0
      <3>2. \A a, b \in 1 .. N : p[a] = p[b] => a = b
        BY <1>0
      <3>3. ASSUME NEW t \in 1 .. N PROVE \E a \in 1 .. N : p[a] = t
        <4>1. (N - t) + 1 \in 1 .. N /\ p[(N - t) + 1] = t
          BY <1>0
        <4> QED
          BY <4>1
      <3> HIDE DEF p
      <3> QED
        BY <3>1, <3>2, <3>3 DEF Bijection, Injection, Surjection, IsInjective
    <2>2. Reverse(sent) = y
      BY <1>0 DEF Reverse
    <2>3. y \in Seq(PriceLevel) /\ Distinct(y) /\ Range(y) = Range(sent)
      <3> HIDE DEF p
      <3> QED
        BY <2>1, Rearranged, Zenon
    <2> HIDE DEF y
    <2>4. Resolved(sent) = y
      BY <1>2, <2>2 DEF Resolved
    <2> QED
      BY <1>2, <2>2, <2>3, <2>4, InOrderIsOrdered
  <1>3. CASE ~InOrder(sent) /\ ~InOrder(Reverse(sent))
    <2> DEFINE R == {[n \in DOMAIN sent |-> sent[p[n]]] : p \in Bijection(DOMAIN sent, DOMAIN sent)}
    <2>1. ASSUME NEW y \in R
          PROVE  y \in Seq(PriceLevel) /\ Distinct(y) /\ Range(y) = Range(sent)
      <3>1. PICK p \in Bijection(DOMAIN sent, DOMAIN sent) : y = [n \in DOMAIN sent |-> sent[p[n]]]
        OBVIOUS
      <3>2. p \in Bijection(1 .. N, 1 .. N) /\ y = [n \in 1 .. N |-> sent[p[n]]]
        BY <3>1, <1>0
      <3> QED
        BY <3>2, Rearranged, ZenonT(30)
    <2>2. \E y \in R : InOrder(y)
      <3> DEFINE f == [n \in 1 .. N |-> sent[n].price]
      <3>1. f \in [1 .. N -> Nat]
        BY <1>0
      <3>2. PICK p \in Bijection(1 .. N, 1 .. N) : \A m, n \in 1 .. N : m < n => ~StorageLess(f[p[n]], f[p[m]])
        <4> HIDE DEF f, N
        <4> QED
          BY <1>0, <3>1, CanSort
      <3> DEFINE y == [n \in 1 .. N |-> sent[p[n]]]
      <3>3. y \in R
        BY <1>0
      <3>4. p \in [1 .. N -> 1 .. N]
        BY DEF Bijection, Injection
      <3>5. \A n \in 1 .. N : y[n].price = f[p[n]]
        BY <3>4
      <3>6. Len(y) = N
        BY <1>0
      <3>7. InOrder(y)
        <4> SUFFICES ASSUME NEW n \in 2 .. N PROVE ~StorageLess(y[n].price, y[n - 1].price)
          BY <3>6 DEF InOrder
        <4>1. n \in 1 .. N /\ n - 1 \in 1 .. N /\ n - 1 < n
          BY <1>0
        <4> HIDE DEF f, y, N
        <4> QED
          BY <4>1, <3>2, <3>5
      <3> QED
        BY <3>3, <3>7
    <2>3. Resolved(sent) = Sorted(sent)
      BY <1>3 DEF Resolved
    <2>4. Sorted(sent) = CHOOSE y \in R : InOrder(y)
      BY Zenon DEF Sorted
    <2> HIDE DEF R
    <2>5. Sorted(sent) \in R /\ InOrder(Sorted(sent))
      BY <2>2, <2>4, Zenon
    <2> QED
      BY <2>1, <2>3, <2>5, InOrderIsOrdered
  <1> QED
    BY <1>1, <1>2, <1>3

---------------------------------------------------------------------------
(* Books and deltas side by side.                                           *)

\* Levels in storage order, each price once: a book, or a delta made ready.
Book(x) == x \in Seq(PriceLevel) /\ Ordered(x, StorageLess)

\* What the order says of two levels.
LEMMA BookOrder ==
  ASSUME NEW x, Book(x)
  PROVE  /\ Len(x) \in Nat /\ DOMAIN x = 1 .. Len(x)
         /\ \A n \in 1 .. Len(x) : x[n] \in PriceLevel /\ x[n].price \in Nat /\ x[n].qty \in Nat
         /\ \A m, n \in 1 .. Len(x) : /\ m < n => StorageLess(x[m].price, x[n].price)
                                      /\ x[m].price = x[n].price => m = n
  <1>1. /\ Len(x) \in Nat /\ DOMAIN x = 1 .. Len(x)
        /\ \A n \in 1 .. Len(x) : x[n] \in PriceLevel /\ x[n].price \in Nat /\ x[n].qty \in Nat
    BY LevelsOf DEF Book
  <1>2. ASSUME NEW m \in 1 .. Len(x), NEW n \in 1 .. Len(x)
        PROVE  m < n => StorageLess(x[m].price, x[n].price)
    BY <1>1 DEF Book, Ordered
  <1>3. ASSUME NEW m \in 1 .. Len(x), NEW n \in 1 .. Len(x), x[m].price = x[n].price
        PROVE  m = n
    <2>1. ~StorageLess(x[m].price, x[n].price) /\ ~StorageLess(x[n].price, x[m].price)
      BY <1>1, <1>3, LessOrder
    <2>2. ~(m < n) /\ ~(n < m)
      BY <1>2, <2>1
    <2> QED
      BY <2>2, <1>1
  <1> QED
    BY <1>1, <1>2, <1>3

\* The first i levels of the book lie below what comes after the first j of the
\* delta, and those below what comes after the first i of the book.
Separated(i, j, L, D) ==
  /\ \A n \in 1 .. i, k \in j + 1 .. Len(D) : StorageLess(L[n].price, D[k].price)
  /\ \A n \in i + 1 .. Len(L), k \in 1 .. j : StorageLess(D[k].price, L[n].price)

\* The walk from the best price down keeps them apart ...
LEMMA SeparatedDown ==
  ASSUME NEW L, NEW D, Book(L), Book(D), NEW i \in 0 .. Len(L), NEW j \in 0 .. Len(D),
         Separated(i, j, L, D)
  PROVE  /\ j > 0 /\ (i = 0 \/ StorageLess(L[i].price, D[j].price)) => Separated(i, j - 1, L, D)
         /\ i > 0 /\ (j = 0 \/ StorageLess(D[j].price, L[i].price)) => Separated(i - 1, j, L, D)
         /\ i > 0 /\ j > 0 /\ L[i].price = D[j].price => Separated(i - 1, j - 1, L, D)
  <1> USE BookOrder
  <1>1. ASSUME j > 0, i = 0 \/ StorageLess(L[i].price, D[j].price)
        PROVE  Separated(i, j - 1, L, D)
    <2>1. ASSUME NEW n \in 1 .. i, NEW k \in (j - 1) + 1 .. Len(D)
          PROVE  StorageLess(L[n].price, D[k].price)
      <3>1. n \in 1 .. Len(L) /\ i \in 1 .. Len(L) /\ j \in 1 .. Len(D) /\ k \in 1 .. Len(D) /\ n <= i /\ (k = j \/ k \in j + 1 .. Len(D))
        BY <1>1
      <3>2. CASE k = j
        <4>1. n = i \/ StorageLess(L[n].price, L[i].price)
          BY <3>1
        <4> QED
          BY <1>1, <3>1, <3>2, <4>1, LessOrder
      <3>3. CASE k \in j + 1 .. Len(D)
        BY <3>3 DEF Separated
      <3> QED
        BY <3>1, <3>2, <3>3
    <2>2. ASSUME NEW n \in i + 1 .. Len(L), NEW k \in 1 .. j - 1
          PROVE  StorageLess(D[k].price, L[n].price)
      BY DEF Separated
    <2> QED
      BY <2>1, <2>2 DEF Separated
  <1>2. ASSUME i > 0, j = 0 \/ StorageLess(D[j].price, L[i].price)
        PROVE  Separated(i - 1, j, L, D)
    <2>1. ASSUME NEW n \in 1 .. i - 1, NEW k \in j + 1 .. Len(D)
          PROVE  StorageLess(L[n].price, D[k].price)
      BY DEF Separated
    <2>2. ASSUME NEW n \in (i - 1) + 1 .. Len(L), NEW k \in 1 .. j
          PROVE  StorageLess(D[k].price, L[n].price)
      <3>1. n \in 1 .. Len(L) /\ i \in 1 .. Len(L) /\ j \in 1 .. Len(D) /\ k \in 1 .. Len(D) /\ k <= j /\ (n = i \/ n \in i + 1 .. Len(L))
        BY <1>2
      <3>2. CASE n = i
        <4>1. k = j \/ StorageLess(D[k].price, D[j].price)
          BY <3>1
        <4> QED
          BY <1>2, <3>1, <3>2, <4>1, LessOrder
      <3>3. CASE n \in i + 1 .. Len(L)
        BY <3>3 DEF Separated
      <3> QED
        BY <3>1, <3>2, <3>3
    <2> QED
      BY <2>1, <2>2 DEF Separated
  <1>3. ASSUME i > 0, j > 0, L[i].price = D[j].price
        PROVE  Separated(i - 1, j - 1, L, D)
    <2>0. i \in 1 .. Len(L) /\ j \in 1 .. Len(D)
      BY <1>3
    <2>1. ASSUME NEW n \in 1 .. i - 1, NEW k \in (j - 1) + 1 .. Len(D)
          PROVE  StorageLess(L[n].price, D[k].price)
      <3>1. n \in 1 .. Len(L) /\ n < i /\ n \in 1 .. i /\ (k = j \/ k \in j + 1 .. Len(D))
        BY <1>3
      <3>2. StorageLess(L[n].price, L[i].price)
        BY <2>0, <3>1
      <3> QED
        BY <1>3, <3>1, <3>2 DEF Separated
    <2>2. ASSUME NEW n \in (i - 1) + 1 .. Len(L), NEW k \in 1 .. j - 1
          PROVE  StorageLess(D[k].price, L[n].price)
      <3>1. k \in 1 .. Len(D) /\ k < j /\ k \in 1 .. j /\ (n = i \/ n \in i + 1 .. Len(L))
        BY <1>3
      <3>2. StorageLess(D[k].price, D[j].price)
        BY <2>0, <3>1
      <3> QED
        BY <1>3, <3>1, <3>2 DEF Separated
    <2> QED
      BY <2>1, <2>2 DEF Separated
  <1> QED
    BY <1>1, <1>2, <1>3

\* ... and so does the merge upwards.
LEMMA SeparatedUp ==
  ASSUME NEW L, NEW D, Book(L), Book(D), NEW i \in 0 .. Len(L), NEW j \in 0 .. Len(D),
         Separated(i, j, L, D)
  PROVE  /\ j < Len(D) /\ (i = Len(L) \/ StorageLess(D[j + 1].price, L[i + 1].price)) => Separated(i, j + 1, L, D)
         /\ i < Len(L) /\ (j = Len(D) \/ StorageLess(L[i + 1].price, D[j + 1].price)) => Separated(i + 1, j, L, D)
         /\ i < Len(L) /\ j < Len(D) /\ L[i + 1].price = D[j + 1].price => Separated(i + 1, j + 1, L, D)
  <1> USE BookOrder
  <1>1. ASSUME j < Len(D), i = Len(L) \/ StorageLess(D[j + 1].price, L[i + 1].price)
        PROVE  Separated(i, j + 1, L, D)
    <2>1. ASSUME NEW n \in 1 .. i, NEW k \in (j + 1) + 1 .. Len(D)
          PROVE  StorageLess(L[n].price, D[k].price)
      BY DEF Separated
    <2>2. ASSUME NEW n \in i + 1 .. Len(L), NEW k \in 1 .. j + 1
          PROVE  StorageLess(D[k].price, L[n].price)
      <3>1. /\ n \in 1 .. Len(L) /\ i + 1 \in 1 .. Len(L) /\ j + 1 \in 1 .. Len(D) /\ i # Len(L)
            /\ (n = i + 1 \/ i + 1 < n) /\ (k = j + 1 \/ k \in 1 .. j)
        BY <1>1
      <3>2. CASE k = j + 1
        <4>1. n = i + 1 \/ StorageLess(L[i + 1].price, L[n].price)
          BY <3>1
        <4>2. D[k].price \in Nat /\ L[n].price \in Nat /\ L[i + 1].price \in Nat
          BY <3>1, <3>2
        <4> QED
          BY <1>1, <3>1, <3>2, <4>1, <4>2, LessOrder, SMTT(30)
      <3>3. CASE k \in 1 .. j
        BY <3>3 DEF Separated
      <3> QED
        BY <3>1, <3>2, <3>3
    <2> QED
      BY <2>1, <2>2 DEF Separated
  <1>2. ASSUME i < Len(L), j = Len(D) \/ StorageLess(L[i + 1].price, D[j + 1].price)
        PROVE  Separated(i + 1, j, L, D)
    <2>1. ASSUME NEW n \in 1 .. i + 1, NEW k \in j + 1 .. Len(D)
          PROVE  StorageLess(L[n].price, D[k].price)
      <3>1. /\ k \in 1 .. Len(D) /\ i + 1 \in 1 .. Len(L) /\ j + 1 \in 1 .. Len(D) /\ j # Len(D)
            /\ (k = j + 1 \/ j + 1 < k) /\ (n = i + 1 \/ n \in 1 .. i)
        BY <1>2
      <3>2. CASE n = i + 1
        <4>1. k = j + 1 \/ StorageLess(D[j + 1].price, D[k].price)
          BY <3>1
        <4>2. D[k].price \in Nat /\ L[n].price \in Nat /\ D[j + 1].price \in Nat
          BY <3>1, <3>2
        <4> QED
          BY <1>2, <3>1, <3>2, <4>1, <4>2, LessOrder, SMTT(30)
      <3>3. CASE n \in 1 .. i
        BY <3>3 DEF Separated
      <3> QED
        BY <3>1, <3>2, <3>3
    <2>2. ASSUME NEW n \in (i + 1) + 1 .. Len(L), NEW k \in 1 .. j
          PROVE  StorageLess(D[k].price, L[n].price)
      BY DEF Separated
    <2> QED
      BY <2>1, <2>2 DEF Separated
  <1>3. ASSUME i < Len(L), j < Len(D), L[i + 1].price = D[j + 1].price
        PROVE  Separated(i + 1, j + 1, L, D)
    <2>0. i + 1 \in 1 .. Len(L) /\ j + 1 \in 1 .. Len(D)
      BY <1>3
    <2>1. ASSUME NEW n \in 1 .. i + 1, NEW k \in (j + 1) + 1 .. Len(D)
          PROVE  StorageLess(L[n].price, D[k].price)
      <3>1. k \in 1 .. Len(D) /\ j + 1 < k /\ k \in j + 1 .. Len(D) /\ (n = i + 1 \/ n \in 1 .. i)
        BY <1>3
      <3>2. StorageLess(D[j + 1].price, D[k].price)
        BY <2>0, <3>1
      <3> QED
        BY <1>3, <3>1, <3>2 DEF Separated
    <2>2. ASSUME NEW n \in (i + 1) + 1 .. Len(L), NEW k \in 1 .. j + 1
          PROVE  StorageLess(D[k].price, L[n].price)
      <3>1. n \in 1 .. Len(L) /\ i + 1 < n /\ n \in i + 1 .. Len(L) /\ (k = j + 1 \/ k \in 1 .. j)
        BY <1>3
      <3>2. StorageLess(L[i + 1].price, L[n].price)
        BY <2>0, <3>1
      <3> QED
        BY <1>3, <3>1, <3>2 DEF Separated
    <2> QED
      BY <2>1, <2>2 DEF Separated
  <1> QED
    BY <1>1, <1>2, <1>3

\* What an element at the end adds.
LEMMA AppendAdds ==
  ASSUME NEW S, NEW x \in Seq(S), NEW e \in S
  PROVE  /\ Append(x, e) \in Seq(S)
         /\ Range(Append(x, e)) = Range(x) \cup {e}
         /\ \A m, n \in DOMAIN Append(x, e) : m < n =>
              \/ m \in DOMAIN x /\ n \in DOMAIN x /\ Append(x, e)[m] = x[m] /\ Append(x, e)[n] = x[n]
              \/ Append(x, e)[m] \in Range(x) /\ Append(x, e)[n] = e
  <1> DEFINE y == Append(x, e)
             N == Len(x)
  <1>1. /\ y \in Seq(S) /\ Len(y) = N + 1 /\ N \in Nat
        /\ \A i \in 1 .. N : y[i] = x[i]
        /\ y[N + 1] = e
    BY AppendProperties
  <1>2. DOMAIN x = 1 .. N
    OBVIOUS
  <1> HIDE DEF y, N
  <1>3. DOMAIN y = 1 .. N + 1
    BY <1>1
  <1>4. Range(y) = Range(x) \cup {e}
    <2>1. ASSUME NEW v \in Range(y) PROVE v \in Range(x) \cup {e}
      <3>1. PICK i \in 1 .. N + 1 : v = y[i]
        BY <1>3 DEF Range
      <3>2. i \in 1 .. N \/ i = N + 1
        BY <1>1
      <3> QED
        BY <1>1, <1>2, <3>1, <3>2 DEF Range
    <2>2. ASSUME NEW v \in Range(x) \cup {e} PROVE v \in Range(y)
      <3>1. CASE v = e
        <4>1. N + 1 \in 1 .. N + 1
          BY <1>1
        <4> QED
          BY <1>1, <1>3, <3>1, <4>1 DEF Range
      <3>2. CASE v \in Range(x)
        <4>1. PICK i \in 1 .. N : v = x[i]
          BY <1>2, <3>2 DEF Range
        <4>2. i \in 1 .. N + 1
          BY <1>1
        <4> QED
          BY <1>1, <1>3, <4>1, <4>2 DEF Range
      <3> QED
        BY <3>1, <3>2
    <2> QED
      BY <2>1, <2>2
  <1>5. ASSUME NEW m \in DOMAIN y, NEW n \in DOMAIN y, m < n
        PROVE  \/ m \in DOMAIN x /\ n \in DOMAIN x /\ y[m] = x[m] /\ y[n] = x[n]
               \/ y[m] \in Range(x) /\ y[n] = e
    <2>1. m \in 1 .. N /\ (n \in 1 .. N \/ n = N + 1)
      BY <1>1, <1>3, <1>5
    <2> QED
      BY <1>1, <1>2, <2>1 DEF Range
  <1> QED
    BY <1>1, <1>4, <1>5 DEF y

\* The quantity at a price of a book.
LEMMA QtyAtIs ==
  ASSUME NEW x, Book(x), NEW p
  PROVE  /\ \A n \in 1 .. Len(x) : x[n].price = p => QtyAt(x, p) = x[n].qty
         /\ (\A n \in 1 .. Len(x) : x[n].price # p) => QtyAt(x, p) = 0
         /\ QtyAt(x, p) \in Nat
  <1> DEFINE I == {i \in 1 .. Len(x) : x[i].price = p}
             a == SelectInSeq(x, LAMBDA l : l.price = p)
  <1>0. Len(x) \in Nat /\ I \in SUBSET Nat
    BY BookOrder
  <1>1. a = IF I # {} THEN Min(I) ELSE 0
    BY DEF SelectInSeq
  <1>2. ASSUME NEW n \in 1 .. Len(x), x[n].price = p
        PROVE  QtyAt(x, p) = x[n].qty
    <2>1. n \in I
      BY <1>2
    <2>2. \E m \in I : \A k \in I : m <= k
      <3> HIDE DEF I
      <3> QED
        BY <1>0, <2>1, Least
    <2>3. Min(I) \in I
      BY <2>2 DEF Min
    <2>4. \A m \in I : m = n
      BY <1>2, BookOrder
    <2>5. a = n
      <3> HIDE DEF I, a
      <3> QED
        BY <1>1, <2>1, <2>3, <2>4
    <2>6. n # 0
      BY <1>0
    <2> HIDE DEF a
    <2> QED
      BY <2>5, <2>6 DEF QtyAt, a
  <1>3. ASSUME \A n \in 1 .. Len(x) : x[n].price # p
        PROVE  QtyAt(x, p) = 0
    <2>1. I = {}
      BY <1>3
    <2>2. a = 0
      BY <1>1, <2>1
    <2> HIDE DEF a
    <2> QED
      BY <2>2 DEF QtyAt, a
  <1>4. QtyAt(x, p) \in Nat
    <2>1. CASE \E n \in 1 .. Len(x) : x[n].price = p
      BY <1>2, <2>1, BookOrder
    <2>2. CASE \A n \in 1 .. Len(x) : x[n].price # p
      BY <1>3, <2>2
    <2> QED
      BY <2>1, <2>2
  <1> QED
    BY <1>2, <1>3, <1>4

\* The changes of a delta on a book, without its first j levels.
ChangesFrom(j, L, D) ==
  {Change(D[k].price, QtyAt(L, D[k].price), D[k].qty) :
     k \in {k \in j + 1 .. Len(D) : QtyAt(L, D[k].price) # D[k].qty}}

\* A change, as Change makes it.
ChangeRecord == [price : Nat, old : Nat, new : Nat]

\* The next level of the delta adds its change, if it is one, and keeps the order.
LEMMA ChangesGrow ==
  ASSUME NEW L, NEW D, Book(L), Book(D), NEW j \in 1 .. Len(D),
         NEW c \in Seq(ChangeRecord), Range(c) = ChangesFrom(j, L, D), Ordered(c, Better),
         NEW old, old = QtyAt(L, D[j].price)
  PROVE  /\ old = D[j].qty => Range(c) = ChangesFrom(j - 1, L, D)
         /\ old # D[j].qty =>
              LET e == Change(D[j].price, old, D[j].qty)
              IN  /\ Append(c, e) \in Seq(ChangeRecord)
                  /\ Range(Append(c, e)) = ChangesFrom(j - 1, L, D)
                  /\ Ordered(Append(c, e), Better)
  <1> DEFINE e == Change(D[j].price, old, D[j].qty)
  <1>0. j - 1 + 1 .. Len(D) = {j} \cup (j + 1 .. Len(D))
    BY BookOrder
  <1>1. ChangesFrom(j - 1, L, D) = ChangesFrom(j, L, D) \cup (IF old # D[j].qty THEN {e} ELSE {})
    <2> DEFINE C(k) == Change(D[k].price, QtyAt(L, D[k].price), D[k].qty)
               B(k) == QtyAt(L, D[k].price) # D[k].qty
    <2>1. e = C(j) /\ (B(j) <=> old # D[j].qty)
      OBVIOUS
    <2>2. ChangesFrom(j - 1, L, D) = {C(k) : k \in {k \in j - 1 + 1 .. Len(D) : B(k)}}
      BY Zenon DEF ChangesFrom
    <2>3. ChangesFrom(j, L, D) = {C(k) : k \in {k \in j + 1 .. Len(D) : B(k)}}
      BY Zenon DEF ChangesFrom
    <2> HIDE DEF C, B, e
    <2> QED
      BY <1>0, <2>1, <2>2, <2>3
  <1>2. e \in ChangeRecord
    <2>1. old \in Nat /\ D[j].price \in Nat /\ D[j].qty \in Nat
      BY QtyAtIs, BookOrder
    <2> QED
      BY <2>1 DEF Change, ChangeRecord
  <1>3. ASSUME NEW d \in Range(c) PROVE Better(d.price, D[j].price)
    <2>1. PICK k \in j + 1 .. Len(D) : d = Change(D[k].price, QtyAt(L, D[k].price), D[k].qty)
      BY DEF ChangesFrom
    <2>2. d.price = D[k].price /\ k \in 1 .. Len(D) /\ j < k
      BY <2>1, BookOrder DEF Change
    <2> QED
      BY <2>2, BookOrder DEF Better
  <1>4. e.price = D[j].price
    BY DEF Change
  <1> HIDE DEF e
  <1>5. Append(c, e) \in Seq(ChangeRecord) /\ Range(Append(c, e)) = Range(c) \cup {e}
    BY <1>2, AppendAdds
  <1>6. Ordered(Append(c, e), Better)
    <2> DEFINE y == Append(c, e)
    <2>1. ASSUME NEW m \in DOMAIN y, NEW n \in DOMAIN y, m < n
          PROVE  Better(y[m].price, y[n].price)
      <3>1. \/ m \in DOMAIN c /\ n \in DOMAIN c /\ y[m] = c[m] /\ y[n] = c[n]
            \/ y[m] \in Range(c) /\ y[n] = e
        BY <1>2, <2>1, AppendAdds
      <3> HIDE DEF y
      <3>2. CASE m \in DOMAIN c /\ n \in DOMAIN c /\ y[m] = c[m] /\ y[n] = c[n]
        BY <2>1, <3>2 DEF Ordered
      <3>3. CASE y[m] \in Range(c) /\ y[n] = e
        BY <1>3, <1>4, <3>3
      <3> QED
        BY <3>1, <3>2, <3>3
    <2> HIDE DEF y
    <2> QED
      BY <2>1 DEF Ordered, y
  <1> QED
    BY <1>1, <1>5, <1>6 DEF e

---------------------------------------------------------------------------
(* The walk.                                                                *)

\* The quantities of the delta are written from the level after i on.
Written(M, i, L, D) ==
  /\ M \in Seq(PriceLevel) /\ Len(M) = Len(L)
  /\ \A n \in 1 .. Len(L) : M[n].price = L[n].price
  /\ \A n \in 1 .. i : M[n] = L[n]
  /\ \A n \in i + 1 .. Len(L) :
       /\ (\A k \in 1 .. Len(D) : D[k].price # L[n].price) => M[n] = L[n]
       /\ \A k \in 1 .. Len(D) : D[k].price = L[n].price /\ D[k].qty # 0 => M[n].qty = D[k].qty

\* Nothing after the first j levels of the delta enters the book, or leaves it.
NoneEnters(j, L, D) ==
  \A k \in j + 1 .. Len(D) : D[k].qty # 0 => \E n \in 1 .. Len(L) : L[n].price = D[k].price

\* A walk that erases nothing: no level the delta removes is in the book.
NoneLeaves(j, L, D) ==
  \A k \in j + 1 .. Len(D) : D[k].qty = 0 => \A n \in 1 .. Len(L) : L[n].price # D[k].price

\* What holds between two rounds of the walk.
WalkStates(L, D) ==
  {w \in [levels : Seq(PriceLevel), i : 0 .. Len(L), j : 0 .. Len(D), inserts : Nat, erases : Nat,
          changes : Seq(ChangeRecord)] :
     /\ Separated(w.i, w.j, L, D)
     /\ Written(w.levels, w.i, L, D)
     /\ w.inserts = 0 => NoneEnters(w.j, L, D)
     /\ w.erases = 0 => NoneLeaves(w.j, L, D)
     /\ Range(w.changes) = ChangesFrom(w.j, L, D)
     /\ Ordered(w.changes, Better)}

\* Before the first round.
LEMMA WalkStarts ==
  ASSUME NEW L, NEW D, Book(L), Book(D)
  PROVE  [levels |-> L, i |-> Len(L), j |-> Len(D), inserts |-> 0, erases |-> 0, changes |-> <<>>]
           \in WalkStates(L, D)
  <1> DEFINE w == [levels |-> L, i |-> Len(L), j |-> Len(D), inserts |-> 0, erases |-> 0, changes |-> <<>>]
  <1>0. Len(L) \in Nat /\ Len(D) \in Nat /\ L \in Seq(PriceLevel)
    BY BookOrder DEF Book
  <1>1. \A N \in Nat : N + 1 .. N = {}
    OBVIOUS
  <1>2. Separated(Len(L), Len(D), L, D)
    BY <1>0, <1>1 DEF Separated
  <1>3. Written(L, Len(L), L, D)
    BY <1>0, <1>1 DEF Written
  <1>4. NoneEnters(Len(D), L, D) /\ NoneLeaves(Len(D), L, D)
    BY <1>0, <1>1 DEF NoneEnters, NoneLeaves
  <1>5. Range(<<>>) = ChangesFrom(Len(D), L, D)
    <2>1. Range(<<>>) = {}
      BY DEF Range
    <2>2. ChangesFrom(Len(D), L, D) = {}
      BY <1>0, <1>1 DEF ChangesFrom
    <2> QED
      BY <2>1, <2>2
  <1>6. Ordered(<<>>, Better)
    BY DEF Ordered
  <1>7. w \in [levels : Seq(PriceLevel), i : 0 .. Len(L), j : 0 .. Len(D), inserts : Nat, erases : Nat,
               changes : Seq(ChangeRecord)]
    BY <1>0
  <1>8. w.levels = L /\ w.i = Len(L) /\ w.j = Len(D) /\ w.changes = <<>>
    OBVIOUS
  <1> HIDE DEF w
  <1>9. w \in WalkStates(L, D)
    BY <1>2, <1>3, <1>4, <1>5, <1>6, <1>7, <1>8, Zenon DEF WalkStates
  <1> QED
    BY <1>9 DEF w

\* A round on a level of the delta that the book does not have.
LEMMA WalkPast ==
  ASSUME NEW L, NEW D, Book(L), Book(D), NEW w \in WalkStates(L, D),
         w.j > 0, w.i = 0 \/ StorageLess(w.levels[w.i].price, D[w.j].price)
  PROVE  WalkRound(w, D) \in WalkStates(L, D) /\ WalkRound(w, D).i = w.i /\ WalkRound(w, D).j = w.j - 1
  <1> DEFINE i == w.i
             j == w.j
             new == D[j]
             W == [levels : Seq(PriceLevel), i : 0 .. Len(L), j : 0 .. Len(D), inserts : Nat, erases : Nat,
                   changes : Seq(ChangeRecord)]
             c == w.changes
             e == Change(new.price, 0, new.qty)
             u == [w EXCEPT !.j = @ - 1,
                            !.inserts = IF new.qty = 0 THEN @ ELSE @ + 1,
                            !.changes = IF new.qty = 0 THEN @ ELSE Append(@, e)]
  <1>1. /\ w \in W /\ Separated(i, j, L, D) /\ Written(w.levels, i, L, D)
        /\ w.inserts = 0 => NoneEnters(j, L, D)
        /\ w.erases = 0 => NoneLeaves(j, L, D)
        /\ Range(c) = ChangesFrom(j, L, D) /\ Ordered(c, Better)
    BY Zenon DEF WalkStates
  <1>2. i \in 0 .. Len(L) /\ j \in 1 .. Len(D) /\ j \in 0 .. Len(D) /\ c \in Seq(ChangeRecord) /\ w.inserts \in Nat
    BY <1>1, BookOrder
  <1>3. i = 0 \/ StorageLess(L[i].price, new.price)
    <2>1. i # 0 => i \in 1 .. Len(L)
      BY <1>2, BookOrder
    <2> QED
      BY <1>1, <2>1 DEF Written
  <1>4. ASSUME NEW n \in 1 .. Len(L) PROVE L[n].price # new.price
    <2>0. L[n].price \in Nat /\ new.price \in Nat
      BY <1>2, BookOrder
    <2>1. CASE n <= i
      <3>1. Separated(i, j - 1, L, D) /\ n \in 1 .. i /\ j \in j - 1 + 1 .. Len(D)
        BY <1>1, <1>2, <1>3, <2>1, SeparatedDown
      <3> QED
        BY <2>0, <3>1, LessOrder DEF Separated
    <2>2. CASE ~(n <= i)
      <3>1. n \in i + 1 .. Len(L) /\ j \in 1 .. j
        BY <1>2, <2>2
      <3> QED
        BY <1>1, <2>0, <3>1, LessOrder DEF Separated
    <2> QED
      BY <2>1, <2>2
  <1>5. QtyAt(L, new.price) = 0
    BY <1>4, QtyAtIs
  <1>6. WalkRound(w, D) = u
    <2>1. w.j # 0
      BY <1>2
    <2> QED
      BY <2>1, Zenon DEF WalkRound
  <1>7. /\ u.levels = w.levels /\ u.i = i /\ u.j = j - 1 /\ u.erases = w.erases
        /\ u.inserts = (IF new.qty = 0 THEN w.inserts ELSE w.inserts + 1)
        /\ u.changes = (IF new.qty = 0 THEN c ELSE Append(c, e))
    BY <1>1
  <1>8. /\ u.changes \in Seq(ChangeRecord) /\ Range(u.changes) = ChangesFrom(j - 1, L, D)
        /\ Ordered(u.changes, Better)
    <2>1. CASE new.qty = 0
      <3>1. Range(c) = ChangesFrom(j - 1, L, D)
        BY <1>1, <1>2, <1>5, <2>1, ChangesGrow
      <3> QED
        BY <1>1, <1>2, <1>7, <2>1, <3>1
    <2>2. CASE new.qty # 0
      <3>1. /\ Append(c, e) \in Seq(ChangeRecord) /\ Range(Append(c, e)) = ChangesFrom(j - 1, L, D)
            /\ Ordered(Append(c, e), Better)
        BY <1>1, <1>2, <1>5, <2>2, ChangesGrow
      <3> HIDE DEF e, u
      <3>2. u.changes = Append(c, e)
        BY <1>7, <2>2
      <3> QED
        BY <3>1, <3>2
    <2> QED
      BY <2>1, <2>2
  <1>9. u \in W
    <2> HIDE DEF e
    <2>1. j - 1 \in 0 .. Len(D) /\ (IF new.qty = 0 THEN w.inserts ELSE w.inserts + 1) \in Nat
      BY <1>2, BookOrder
    <2> QED
      BY <1>1, <1>2, <1>7, <1>8, <2>1
  <1> HIDE DEF u, e, c
  <1>10. Separated(u.i, u.j, L, D)
    BY <1>1, <1>2, <1>3, <1>7, SeparatedDown
  <1>11. \A k \in j - 1 + 1 .. Len(D) : k = j \/ k \in j + 1 .. Len(D)
    BY <1>2, BookOrder
  <1>12. u.inserts = 0 => NoneEnters(u.j, L, D)
    <2> SUFFICES ASSUME u.inserts = 0 PROVE NoneEnters(j - 1, L, D)
      BY <1>7
    <2>1. new.qty = 0 /\ w.inserts = 0
      BY <1>2, <1>7
    <2>2. NoneEnters(j, L, D)
      BY <1>1, <2>1
    <2> QED
      BY <1>11, <2>1, <2>2 DEF NoneEnters
  <1>13. u.erases = 0 => NoneLeaves(u.j, L, D)
    BY <1>1, <1>4, <1>7, <1>11 DEF NoneLeaves
  <1>14. u \in WalkStates(L, D)
    BY <1>1, <1>7, <1>8, <1>9, <1>10, <1>12, <1>13, Zenon DEF WalkStates
  <1> QED
    BY <1>6, <1>7, <1>14

\* A round on a level of the book that the delta does not name.
LEMMA WalkOver ==
  ASSUME NEW L, NEW D, Book(L), Book(D), NEW w \in WalkStates(L, D),
         w.j > 0, w.i > 0, StorageLess(D[w.j].price, w.levels[w.i].price)
  PROVE  WalkRound(w, D) \in WalkStates(L, D) /\ WalkRound(w, D).i = w.i - 1 /\ WalkRound(w, D).j = w.j
  <1> DEFINE i == w.i
             j == w.j
             W == [levels : Seq(PriceLevel), i : 0 .. Len(L), j : 0 .. Len(D), inserts : Nat, erases : Nat,
                   changes : Seq(ChangeRecord)]
             u == [w EXCEPT !.i = @ - 1]
  <1>1. /\ w \in W /\ Separated(i, j, L, D) /\ Written(w.levels, i, L, D)
        /\ w.inserts = 0 => NoneEnters(j, L, D)
        /\ w.erases = 0 => NoneLeaves(j, L, D)
        /\ Range(w.changes) = ChangesFrom(j, L, D) /\ Ordered(w.changes, Better)
    BY Zenon DEF WalkStates
  <1>2. i \in 1 .. Len(L) /\ i \in 0 .. Len(L) /\ j \in 1 .. Len(D) /\ j \in 0 .. Len(D)
    BY <1>1, BookOrder
  <1>3. w.levels[i] = L[i] /\ w.levels[i].price \in Nat /\ D[j].price \in Nat
    <2>1. i \in 1 .. i
      BY <1>2
    <2> QED
      BY <1>1, <1>2, <2>1, BookOrder DEF Written
  <1>4. StorageLess(D[j].price, L[i].price) /\ ~StorageLess(w.levels[i].price, D[j].price)
    BY <1>3, LessOrder
  <1>5. WalkRound(w, D) = u
    BY <1>2, <1>4 DEF WalkRound
  <1>6. /\ u.levels = w.levels /\ u.i = i - 1 /\ u.j = j /\ u.erases = w.erases
        /\ u.inserts = w.inserts /\ u.changes = w.changes
    BY <1>1
  <1>7. u \in W
    <2>1. i - 1 \in 0 .. Len(L)
      BY <1>2
    <2> QED
      BY <1>1, <2>1
  <1> HIDE DEF u
  <1>8. Separated(u.i, u.j, L, D)
    BY <1>1, <1>2, <1>4, <1>6, SeparatedDown
  <1>9. ASSUME NEW k \in 1 .. Len(D) PROVE D[k].price # L[i].price
    <2>0. D[k].price \in Nat /\ L[i].price \in Nat
      BY <1>2, BookOrder
    <2>1. CASE k <= j
      <3>1. k \in 1 .. j /\ i \in i - 1 + 1 .. Len(L)
        BY <1>2, <2>1
      <3> QED
        BY <1>6, <1>8, <2>0, <3>1, LessOrder DEF Separated
    <2>2. CASE ~(k <= j)
      <3>1. k \in j + 1 .. Len(D) /\ i \in 1 .. i
        BY <1>2, <2>2
      <3> QED
        BY <1>1, <2>0, <3>1, LessOrder DEF Separated
    <2> QED
      BY <2>1, <2>2
  <1>10. Written(u.levels, u.i, L, D)
    <2>1. \A n \in i - 1 + 1 .. Len(L) : n = i \/ n \in i + 1 .. Len(L)
      BY <1>2
    <2>2. \A n \in 1 .. i - 1 : n \in 1 .. i
      BY <1>2
    <2> DEFINE M == w.levels
    <2>3. Written(M, i, L, D) /\ M[i] = L[i]
      BY <1>1, <1>3
    <2> HIDE DEF M
    <2>4. \A n \in 1 .. i - 1 : M[n] = L[n]
      BY <2>2, <2>3 DEF Written
    <2>5. ASSUME NEW n \in i - 1 + 1 .. Len(L)
          PROVE  /\ (\A k \in 1 .. Len(D) : D[k].price # L[n].price) => M[n] = L[n]
                 /\ \A k \in 1 .. Len(D) : D[k].price = L[n].price /\ D[k].qty # 0 => M[n].qty = D[k].qty
      BY <1>9, <2>1, <2>3 DEF Written
    <2>6. Written(M, i - 1, L, D)
      BY <2>3, <2>4, <2>5 DEF Written
    <2> QED
      BY <1>6, <2>6 DEF M
  <1>11. u \in WalkStates(L, D)
    BY <1>1, <1>6, <1>7, <1>8, <1>10, Zenon DEF WalkStates
  <1> QED
    BY <1>5, <1>6, <1>11

\* A quantity is written in place.
LEMMA WriteQty ==
  ASSUME NEW M \in Seq(PriceLevel), NEW i \in 1 .. Len(M), NEW q \in Nat,
         NEW N, N = [M EXCEPT ![i].qty = q]
  PROVE  /\ N \in Seq(PriceLevel) /\ Len(N) = Len(M)
         /\ \A n \in 1 .. Len(M) : N[n].price = M[n].price /\ (n # i => N[n] = M[n])
         /\ N[i] = Level(M[i].price, q)
  <1> DEFINE e == [M[i] EXCEPT !.qty = q]
  <1>1. M[i] \in PriceLevel
    BY ElementOfSeq
  <1>2. e \in PriceLevel /\ e = Level(M[i].price, q) /\ e.price = M[i].price
    BY <1>1 DEF PriceLevel, Level
  <1>3. N = [M EXCEPT ![i] = e]
    OBVIOUS
  <1> HIDE DEF e
  <1>4. /\ N \in Seq(PriceLevel) /\ Len(N) = Len(M)
        /\ \A n \in 1 .. Len(M) : N[n] = IF n = i THEN e ELSE M[n]
    BY <1>2, <1>3, ExceptSeq
  <1> QED
    BY <1>2, <1>4

\* A round on a level that both have.
LEMMA WalkAt ==
  ASSUME NEW L, NEW D, Book(L), Book(D), NEW w \in WalkStates(L, D),
         w.j > 0, w.i > 0,
         ~StorageLess(w.levels[w.i].price, D[w.j].price), ~StorageLess(D[w.j].price, w.levels[w.i].price)
  PROVE  WalkRound(w, D) \in WalkStates(L, D) /\ WalkRound(w, D).i = w.i - 1 /\ WalkRound(w, D).j = w.j - 1
  <1> DEFINE i == w.i
             j == w.j
             M == w.levels
             c == w.changes
             new == D[j]
             old == M[i]
             q == IF new.qty = 0 THEN old.qty ELSE new.qty
             e == Change(new.price, old.qty, new.qty)
             W == [levels : Seq(PriceLevel), i : 0 .. Len(L), j : 0 .. Len(D), inserts : Nat, erases : Nat,
                   changes : Seq(ChangeRecord)]
             N == [M EXCEPT ![i].qty = q]
             u == [w EXCEPT !.i = @ - 1, !.j = @ - 1,
                            !.erases = IF new.qty = 0 THEN @ + 1 ELSE @,
                            !.levels[w.i].qty = IF new.qty = 0 THEN @ ELSE new.qty,
                            !.changes = IF new.qty = old.qty THEN @ ELSE Append(@, e)]
  <1>1. /\ w \in W /\ Separated(i, j, L, D) /\ Written(M, i, L, D)
        /\ w.inserts = 0 => NoneEnters(j, L, D)
        /\ w.erases = 0 => NoneLeaves(j, L, D)
        /\ Range(c) = ChangesFrom(j, L, D) /\ Ordered(c, Better)
    BY Zenon DEF WalkStates
  <1>2. /\ i \in 1 .. Len(L) /\ i \in 0 .. Len(L) /\ j \in 1 .. Len(D) /\ j \in 0 .. Len(D)
        /\ c \in Seq(ChangeRecord) /\ w.erases \in Nat
    BY <1>1, BookOrder
  <1>3. old = L[i] /\ old.price \in Nat /\ old.qty \in Nat /\ new.price \in Nat /\ new.qty \in Nat
    <2>1. i \in 1 .. i
      BY <1>2
    <2> QED
      BY <1>1, <1>2, <2>1, BookOrder DEF Written
  <1>4. L[i].price = new.price
    BY <1>3, LessOrder
  <1>5. QtyAt(L, new.price) = old.qty
    BY <1>2, <1>3, <1>4, QtyAtIs
  <1>6. WalkRound(w, D) = u
    <2>1. w.j # 0 /\ w.i # 0
      BY <1>2
    <2> QED
      BY <2>1, Zenon DEF WalkRound
  <1>7. /\ u.levels = N /\ u.i = i - 1 /\ u.j = j - 1 /\ u.inserts = w.inserts
        /\ u.erases = (IF new.qty = 0 THEN w.erases + 1 ELSE w.erases)
        /\ u.changes = (IF new.qty = old.qty THEN c ELSE Append(c, e))
    BY <1>1
  <1>8. /\ N \in Seq(PriceLevel) /\ Len(N) = Len(M)
        /\ \A n \in 1 .. Len(M) : N[n].price = M[n].price /\ (n # i => N[n] = M[n])
        /\ N[i] = Level(M[i].price, q)
    <2>1. M \in Seq(PriceLevel) /\ i \in 1 .. Len(M) /\ q \in Nat
      BY <1>1, <1>2, <1>3 DEF Written
    <2> HIDE DEF M, i, q
    <2>2. N = [M EXCEPT ![i].qty = q]
      OBVIOUS
    <2> HIDE DEF N
    <2> QED
      BY <2>1, <2>2, WriteQty, SMTT(30)
  <1>9. /\ u.changes \in Seq(ChangeRecord) /\ Range(u.changes) = ChangesFrom(j - 1, L, D)
        /\ Ordered(u.changes, Better)
    <2> HIDE DEF u, N
    <2>1. CASE new.qty = old.qty
      <3>1. Range(c) = ChangesFrom(j - 1, L, D)
        BY <1>1, <1>2, <1>5, <2>1, ChangesGrow
      <3> QED
        BY <1>1, <1>2, <1>7, <2>1, <3>1
    <2>2. CASE new.qty # old.qty
      <3>1. /\ Append(c, e) \in Seq(ChangeRecord) /\ Range(Append(c, e)) = ChangesFrom(j - 1, L, D)
            /\ Ordered(Append(c, e), Better)
        BY <1>1, <1>2, <1>5, <2>2, ChangesGrow
      <3> HIDE DEF e
      <3>2. u.changes = Append(c, e)
        BY <1>7, <2>2
      <3> QED
        BY <3>1, <3>2
    <2> QED
      BY <2>1, <2>2
  <1>10. u \in W
    <2> HIDE DEF N, e
    <2>1. i - 1 \in 0 .. Len(L) /\ j - 1 \in 0 .. Len(D) /\ u.erases \in Nat
      BY <1>2, <1>7, SMTT(30)
    <2>2. w.inserts \in Nat
      BY <1>1
    <2> HIDE DEF c, q
    <2> QED
      BY <1>1, <1>7, <1>8, <1>9, <2>1, <2>2
  <1> HIDE DEF u, e, c, N
  <1>11. Separated(u.i, u.j, L, D)
    BY <1>1, <1>2, <1>4, <1>7, SeparatedDown
  <1>12. ASSUME NEW k \in 1 .. Len(D), D[k].price = L[i].price PROVE k = j
    BY <1>2, <1>4, <1>12, BookOrder
  <1>13. Written(N, i - 1, L, D)
    <2>1. \A n \in i - 1 + 1 .. Len(L) : n = i \/ (n \in i + 1 .. Len(L) /\ n # i /\ n \in 1 .. Len(L))
      BY <1>2
    <2>2. \A n \in 1 .. i - 1 : n \in 1 .. i /\ n # i /\ n \in 1 .. Len(L)
      BY <1>2
    <2>3. Written(M, i, L, D) /\ Len(M) = Len(L)
      BY <1>1 DEF Written
    <2>4. N[i].qty = q
      BY <1>8 DEF Level
    <2> HIDE DEF M
    <2>5. N \in Seq(PriceLevel) /\ Len(N) = Len(L) /\ \A n \in 1 .. Len(L) : N[n].price = L[n].price
      BY <1>8, <2>3 DEF Written
    <2>6. \A n \in 1 .. i - 1 : N[n] = L[n]
      BY <1>8, <2>2, <2>3 DEF Written
    <2>7. ASSUME NEW n \in i + 1 .. Len(L), n # i, n \in 1 .. Len(L)
          PROVE  /\ (\A k \in 1 .. Len(D) : D[k].price # L[n].price) => N[n] = L[n]
                 /\ \A k \in 1 .. Len(D) : D[k].price = L[n].price /\ D[k].qty # 0 => N[n].qty = D[k].qty
      <3>1. N[n] = M[n]
        BY <1>8, <2>3, <2>7
      <3> QED
        BY <2>3, <3>1 DEF Written
    <2>8. /\ ~(\A k \in 1 .. Len(D) : D[k].price # L[i].price)
          /\ \A k \in 1 .. Len(D) : D[k].price = L[i].price /\ D[k].qty # 0 => N[i].qty = D[k].qty
      BY <1>2, <1>4, <1>12, <2>4
    <2>9. ASSUME NEW n \in i - 1 + 1 .. Len(L)
          PROVE  /\ (\A k \in 1 .. Len(D) : D[k].price # L[n].price) => N[n] = L[n]
                 /\ \A k \in 1 .. Len(D) : D[k].price = L[n].price /\ D[k].qty # 0 => N[n].qty = D[k].qty
      <3>1. CASE n = i
        BY <2>8, <3>1
      <3>2. CASE n # i
        BY <2>1, <2>7, <3>2
      <3> QED
        BY <3>1, <3>2
    <2> QED
      BY <2>5, <2>6, <2>9 DEF Written
  <1>14. \A k \in j - 1 + 1 .. Len(D) : k = j \/ k \in j + 1 .. Len(D)
    BY <1>2, BookOrder
  <1>15. u.inserts = 0 => NoneEnters(u.j, L, D)
    BY <1>1, <1>2, <1>4, <1>7, <1>14 DEF NoneEnters
  <1>16. u.erases = 0 => NoneLeaves(u.j, L, D)
    <2> SUFFICES ASSUME u.erases = 0 PROVE NoneLeaves(j - 1, L, D)
      BY <1>7
    <2>1. new.qty # 0 /\ w.erases = 0
      BY <1>2, <1>7
    <2>2. NoneLeaves(j, L, D)
      BY <1>1, <2>1
    <2> QED
      BY <1>14, <2>1, <2>2 DEF NoneLeaves
  <1>17. u \in WalkStates(L, D)
    BY <1>7, <1>9, <1>10, <1>11, <1>13, <1>15, <1>16, Zenon DEF WalkStates
  <1> QED
    BY <1>6, <1>7, <1>17

\* What the walk ends with: it has seen the whole delta.
LEMMA WalkIs ==
  ASSUME NEW L, NEW D, Book(L), Book(D)
  PROVE  Walk(L, D) \in WalkStates(L, D) /\ Walk(L, D).j = 0
  <1> DEFINE S == WalkStates(L, D)
             R == Len(L) + Len(D)
             x == [levels |-> L, i |-> Len(L), j |-> Len(D), inserts |-> 0, erases |-> 0, changes |-> <<>>]
             Runs(g) == g = [n \in 0 .. R |-> IF n = 0 THEN x ELSE WalkRound(g[n - 1], D)]
             f == [s \in Nat \X S |-> WalkRound(s[2], D)]
             w == CHOOSE g : Runs(g)
  <1>0. Len(L) \in Nat /\ Len(D) \in Nat /\ R \in Nat
    BY BookOrder
  <1>1. x \in S /\ x.i = Len(L) /\ x.j = Len(D)
    BY WalkStarts
  <1>2. ASSUME NEW s \in S
        PROVE  /\ WalkRound(s, D) \in S
               /\ s.i \in Nat /\ s.j \in Nat
               /\ s.j = 0 => WalkRound(s, D) = s
               /\ s.j > 0 => WalkRound(s, D).i + WalkRound(s, D).j < s.i + s.j
               /\ WalkRound(s, D).i \in Nat /\ WalkRound(s, D).j \in Nat
    <2>0. \A t \in S : t.i \in 0 .. Len(L) /\ t.j \in 0 .. Len(D)
      BY DEF WalkStates
    <2>1. CASE s.j = 0
      <3>1. WalkRound(s, D) = s
        BY <2>1 DEF WalkRound
      <3> QED
        BY <2>0, <2>1, <3>1
    <2>2. CASE s.j > 0
      <3>0. s.i \in 0 .. Len(L) /\ s.j \in 0 .. Len(D)
        BY <2>0
      <3> DEFINE t == WalkRound(s, D)
      <3>1. /\ t \in S
            /\ \/ t.i = s.i /\ t.j = s.j - 1
               \/ t.i = s.i - 1 /\ t.j = s.j
               \/ t.i = s.i - 1 /\ t.j = s.j - 1
        <4>1. CASE s.i = 0 \/ StorageLess(s.levels[s.i].price, D[s.j].price)
          <5>1. t \in S /\ t.i = s.i /\ t.j = s.j - 1
            BY <2>2, <4>1, WalkPast
          <5> QED
            BY <5>1, Zenon
        <4>2. CASE s.i > 0 /\ StorageLess(D[s.j].price, s.levels[s.i].price)
          <5>1. t \in S /\ t.i = s.i - 1 /\ t.j = s.j
            BY <2>2, <4>2, WalkOver
          <5> QED
            BY <5>1, Zenon
        <4>3. CASE s.i > 0 /\ ~StorageLess(s.levels[s.i].price, D[s.j].price) /\ ~StorageLess(D[s.j].price, s.levels[s.i].price)
          BY <2>2, <4>3, WalkAt, Zenon
        <4>4. s.i = 0 \/ s.i > 0
          BY <3>0
        <4> QED
          BY <4>1, <4>2, <4>3, <4>4, Zenon
      <3> HIDE DEF S, t
      <3>2. t.i \in 0 .. Len(L) /\ t.j \in 0 .. Len(D)
        BY <2>0, <3>1
      <3>3. s.i \in Nat /\ s.j \in Nat /\ t.i \in Nat /\ t.j \in Nat /\ t.i + t.j < s.i + s.j
        BY <3>0, <3>1, <3>2, SMTT(30)
      <3>4. s.j # 0
        BY <2>2, <3>0
      <3> QED
        BY <3>1, <3>3, <3>4 DEF t
    <2>3. s.j = 0 \/ s.j > 0
      BY <2>0
    <2> QED
      BY <2>1, <2>2, <2>3
  <1> HIDE DEF S, x
  <1>3. \E g : Runs(g)
    <2>1. f \in [Nat \X S -> S]
      BY <1>2
    <2>2. PICK g \in [0 .. R -> S] : g = [n \in 0 .. R |-> IF n = 0 THEN x ELSE f[<<n, g[n - 1]>>]]
      <3> HIDE DEF f, R
      <3>1. Rounds(S, x, f, R) # {}
        BY <1>0, <1>1, <2>1, Loop
      <3> QED
        BY <3>1 DEF Rounds
    <2>3. ASSUME NEW n \in 0 .. R, n # 0 PROVE f[<<n, g[n - 1]>>] = WalkRound(g[n - 1], D)
      <3> HIDE DEF R
      <3>1. <<n, g[n - 1]>> \in Nat \X S /\ <<n, g[n - 1]>>[2] = g[n - 1]
        BY <1>0, <2>3
      <3> QED
        BY <3>1
    <2>4. Runs(g)
      <3> HIDE DEF f, R
      <3> QED
        BY <2>2, <2>3
    <2> QED
      BY <2>4
  <1>4. Runs(w)
    <2> HIDE DEF Runs
    <2> QED
      BY <1>3, Zenon
  <1>5. Walk(L, D) = w[R]
    BY Zenon DEF Walk, x
  <1> HIDE DEF w, R
  <1>6. w[0] = x /\ \A n \in 1 .. R : w[n] = WalkRound(w[n - 1], D)
    BY <1>0, <1>4
  <1> DEFINE T == {n \in 0 .. R : w[n] \in S /\ (w[n].j = 0 \/ w[n].i + w[n].j <= R - n)}
  <1>7. 0 \in T
    BY <1>0, <1>1, <1>6 DEF R
  <1>8. ASSUME NEW n \in 0 .. R - 1, n \in T PROVE n + 1 \in T
    <2>1. w[n + 1] = WalkRound(w[n], D) /\ n + 1 \in 0 .. R
      BY <1>0, <1>6
    <2>2. w[n] \in S /\ (w[n].j = 0 \/ w[n].i + w[n].j <= R - n)
      BY <1>8
    <2> DEFINE t == WalkRound(w[n], D)
    <2>3. /\ t \in S /\ w[n].i \in Nat /\ w[n].j \in Nat /\ t.i \in Nat /\ t.j \in Nat
          /\ w[n].j = 0 => t.j = 0
          /\ w[n].j > 0 => t.i + t.j < w[n].i + w[n].j
      BY <1>2, <2>2
    <2> HIDE DEF t
    <2>4. t.j = 0 \/ t.i + t.j <= R - (n + 1)
      BY <1>0, <2>2, <2>3, SMTT(30)
    <2> QED
      BY <2>1, <2>3, <2>4 DEF t
  <1>9. \A n \in 0 .. R : n \in T
    <2> HIDE DEF T
    <2> QED
      BY <1>0, <1>7, <1>8, Induct
  <1>10. w[R] \in S /\ (w[R].j = 0 \/ w[R].i + w[R].j <= R - R)
    BY <1>0, <1>9
  <1>11. w[R].j = 0
    BY <1>0, <1>2, <1>10
  <1> QED
    BY <1>5, <1>10, <1>11 DEF S

---------------------------------------------------------------------------
(* The merge of Relocate.                                                   *)

\* A level above all others goes at the end.
LEMMA AppendOrdered ==
  ASSUME NEW x \in Seq(PriceLevel), Ordered(x, StorageLess), NEW e \in PriceLevel,
         \A l \in Range(x) : StorageLess(l.price, e.price)
  PROVE  Ordered(Append(x, e), StorageLess)
  <1> DEFINE y == Append(x, e)
  <1>1. ASSUME NEW m \in DOMAIN y, NEW n \in DOMAIN y, m < n
        PROVE  StorageLess(y[m].price, y[n].price)
    <2>1. \/ m \in DOMAIN x /\ n \in DOMAIN x /\ y[m] = x[m] /\ y[n] = x[n]
          \/ y[m] \in Range(x) /\ y[n] = e
      BY <1>1, AppendAdds
    <2> HIDE DEF y
    <2>2. CASE m \in DOMAIN x /\ n \in DOMAIN x /\ y[m] = x[m] /\ y[n] = x[n]
      BY <1>1, <2>2 DEF Ordered
    <2>3. CASE y[m] \in Range(x) /\ y[n] = e
      BY <2>3
    <2> QED
      BY <2>1, <2>2, <2>3
  <1> HIDE DEF y
  <1> QED
    BY <1>1 DEF Ordered, y

\* A level is kept unless its quantity is 0.
LEMMA KeptIs ==
  ASSUME NEW x \in Seq(PriceLevel), NEW e \in PriceLevel
  PROVE  x \o Kept(e) = IF e.qty = 0 THEN x ELSE Append(x, e)
  <1>1. CASE e.qty = 0
    BY <1>1, ConcatEmptySeq DEF Kept
  <1>2. CASE e.qty # 0
    BY <1>2, AppendIsConcat DEF Kept
  <1> QED
    BY <1>1, <1>2

\* What is merged when the book is read up to r and the delta up to j.
MergedTo(i, r, j, M, D) ==
  {M[n] : n \in {n \in i + 1 .. r : \A k \in 1 .. Len(D) : D[k].price # M[n].price}}
    \cup {D[k] : k \in {k \in 1 .. j : D[k].qty # 0}}

\* What holds between two rounds of the merge.
MergeStates(i, M, D) ==
  {m \in [read : i .. Len(M), j : 0 .. Len(D), merged : Seq(PriceLevel)] :
     /\ Separated(m.read, m.j, M, D)
     /\ Range(m.merged) = MergedTo(i, m.read, m.j, M, D)
     /\ Ordered(m.merged, StorageLess)}

\* All that is merged lies below the levels still to come.
LEMMA MergedBelow ==
  ASSUME NEW M, NEW D, Book(M), Book(D), NEW i \in 0 .. Len(M), NEW r \in i .. Len(M), NEW j \in 0 .. Len(D),
         Separated(r, j, M, D), NEW l \in MergedTo(i, r, j, M, D)
  PROVE  /\ r < Len(M) => StorageLess(l.price, M[r + 1].price)
         /\ j < Len(D) => StorageLess(l.price, D[j + 1].price)
  <1> USE BookOrder
  <1>1. (\E n \in i + 1 .. r : l = M[n]) \/ (\E k \in 1 .. j : l = D[k])
    BY Zenon DEF MergedTo
  <1>2. ASSUME NEW n \in i + 1 .. r, l = M[n]
        PROVE  /\ r < Len(M) => StorageLess(l.price, M[r + 1].price)
               /\ j < Len(D) => StorageLess(l.price, D[j + 1].price)
    <2>1. n \in 1 .. r /\ n \in 1 .. Len(M) /\ n < r + 1
      OBVIOUS
    <2>2. r < Len(M) => r + 1 \in 1 .. Len(M)
      OBVIOUS
    <2>3. j < Len(D) => j + 1 \in j + 1 .. Len(D)
      OBVIOUS
    <2> QED
      BY <1>2, <2>1, <2>2, <2>3 DEF Separated
  <1>3. ASSUME NEW k \in 1 .. j, l = D[k]
        PROVE  /\ r < Len(M) => StorageLess(l.price, M[r + 1].price)
               /\ j < Len(D) => StorageLess(l.price, D[j + 1].price)
    <2>1. k \in 1 .. Len(D) /\ k < j + 1
      OBVIOUS
    <2>2. r < Len(M) => r + 1 \in r + 1 .. Len(M)
      OBVIOUS
    <2>3. j < Len(D) => j + 1 \in 1 .. Len(D)
      OBVIOUS
    <2> QED
      BY <1>3, <2>1, <2>2, <2>3 DEF Separated
  <1> QED
    BY <1>1, <1>2, <1>3

\* A round that takes a level of the book.
LEMMA MergeOld ==
  ASSUME NEW M, NEW D, Book(M), Book(D), NEW i \in 0 .. Len(M), NEW m \in MergeStates(i, M, D),
         m.read < Len(M), m.j = Len(D) \/ StorageLess(M[m.read + 1].price, D[m.j + 1].price)
  PROVE  MergeRound(m, M, D) \in MergeStates(i, M, D)
           /\ MergeRound(m, M, D).read = m.read + 1 /\ MergeRound(m, M, D).j = m.j
  <1> DEFINE r == m.read
             j == m.j
             x == m.merged
             e == M[r + 1]
             u == [m EXCEPT !.read = @ + 1, !.merged = Append(@, e)]
             W == [read : i .. Len(M), j : 0 .. Len(D), merged : Seq(PriceLevel)]
  <1>1. /\ m \in W /\ Separated(r, j, M, D) /\ Range(x) = MergedTo(i, r, j, M, D) /\ Ordered(x, StorageLess)
    BY Zenon DEF MergeStates
  <1>2. /\ r \in i .. Len(M) /\ r \in 0 .. Len(M) /\ j \in 0 .. Len(D) /\ x \in Seq(PriceLevel)
        /\ r + 1 \in 1 .. Len(M) /\ Len(M) \in Nat /\ Len(D) \in Nat
    BY <1>1, BookOrder
  <1>3. MergeRound(m, M, D) = u
    <2>1. m.read # Len(M) /\ m.read < Len(M)
      BY <1>2
    <2> QED
      BY <2>1, Zenon DEF MergeRound
  <1>4. u.read = r + 1 /\ u.j = j /\ u.merged = Append(x, e)
    BY <1>1
  <1>5. Separated(r + 1, j, M, D)
    BY <1>1, <1>2, SeparatedUp
  <1>6. e \in PriceLevel
    BY <1>2, BookOrder
  <1>7. Append(x, e) \in Seq(PriceLevel) /\ Range(Append(x, e)) = Range(x) \cup {e}
    BY <1>2, <1>6, AppendAdds
  <1>8. Ordered(Append(x, e), StorageLess)
    <2>1. \A l \in Range(x) : StorageLess(l.price, e.price)
      BY <1>1, <1>2, MergedBelow
    <2> QED
      BY <1>1, <1>2, <1>6, <2>1, AppendOrdered
  <1>9. MergedTo(i, r + 1, j, M, D) = MergedTo(i, r, j, M, D) \cup {e}
    <2>1. i + 1 .. r + 1 = (i + 1 .. r) \cup {r + 1}
      BY <1>2
    <2>2. ASSUME NEW k \in 1 .. Len(D) PROVE D[k].price # M[r + 1].price
      <3>0. D[k].price \in Nat /\ M[r + 1].price \in Nat
        BY <1>2, BookOrder
      <3>1. CASE k <= j
        <4>1. k \in 1 .. j /\ r + 1 \in r + 1 .. Len(M)
          BY <1>2, <3>1
        <4> QED
          BY <1>1, <3>0, <4>1, LessOrder DEF Separated
      <3>2. CASE ~(k <= j)
        <4>1. k \in j + 1 .. Len(D) /\ r + 1 \in 1 .. r + 1
          BY <1>2, <3>2
        <4> QED
          BY <1>5, <3>0, <4>1, LessOrder DEF Separated
      <3> QED
        BY <3>1, <3>2
    <2> HIDE DEF r, j
    <2> QED
      BY <2>1, <2>2, Zenon DEF MergedTo
  <1>10. u \in W
    <2>1. r + 1 \in i .. Len(M)
      BY <1>2
    <2> HIDE DEF e
    <2> QED
      BY <1>1, <1>7, <2>1
  <1> HIDE DEF u, e, r, j, x
  <1>11. u \in MergeStates(i, M, D)
    BY <1>1, <1>4, <1>5, <1>7, <1>8, <1>9, <1>10 DEF MergeStates
  <1> QED
    BY <1>3, <1>4, <1>11 DEF r, j

\* A round that takes a level of the delta, in the place of one of the book or not.
LEMMA MergeNew ==
  ASSUME NEW M, NEW D, Book(M), Book(D), NEW i \in 0 .. Len(M), NEW m \in MergeStates(i, M, D),
         m.j < Len(D), NEW s \in {0, 1},
         s = 0 => m.read = Len(M) \/ StorageLess(D[m.j + 1].price, M[m.read + 1].price),
         s = 1 => m.read < Len(M) /\ M[m.read + 1].price = D[m.j + 1].price
  PROVE  MergeRound(m, M, D) \in MergeStates(i, M, D)
           /\ MergeRound(m, M, D).read = m.read + s /\ MergeRound(m, M, D).j = m.j + 1
  <1> DEFINE r == m.read
             j == m.j
             x == m.merged
             e == D[j + 1]
             y == x \o Kept(e)
             u == [m EXCEPT !.read = r + s, !.j = @ + 1, !.merged = y]
             W == [read : i .. Len(M), j : 0 .. Len(D), merged : Seq(PriceLevel)]
  <1>1. /\ m \in W /\ Separated(r, j, M, D) /\ Range(x) = MergedTo(i, r, j, M, D) /\ Ordered(x, StorageLess)
    BY Zenon DEF MergeStates
  <1>2. /\ r \in i .. Len(M) /\ r \in 0 .. Len(M) /\ j \in 0 .. Len(D) /\ x \in Seq(PriceLevel)
        /\ j + 1 \in 1 .. Len(D) /\ Len(M) \in Nat /\ Len(D) \in Nat /\ j # Len(D)
    BY <1>1, BookOrder
  <1>3. e \in PriceLevel /\ e.price \in Nat
    BY <1>2, BookOrder
  <1>4. MergeRound(m, M, D) = u
    <2>1. s = 0 => (r = Len(M) \/ (StorageLess(e.price, M[r + 1].price) /\ ~StorageLess(M[r + 1].price, e.price)))
      <3>1. s = 0 /\ r # Len(M) => M[r + 1].price \in Nat
        <4>1. r # Len(M) => r + 1 \in 1 .. Len(M)
          BY <1>2
        <4> QED
          BY <4>1, BookOrder
      <3> QED
        BY <1>3, <3>1, LessOrder
    <2>2. s = 1 => r # Len(M) /\ ~StorageLess(e.price, M[r + 1].price) /\ ~StorageLess(M[r + 1].price, e.price)
      BY <1>2, <1>3, LessOrder
    <2>3. CASE s = 0
      <3>1. r + s = m.read
        BY <1>2, <2>3
      <3>2. MergeRound(m, M, D) = [m EXCEPT !.j = @ + 1, !.merged = @ \o Kept(e)]
        BY <1>2, <2>1, <2>3 DEF MergeRound
      <3>3. u = [m EXCEPT !.j = @ + 1, !.merged = @ \o Kept(e)]
        <4>1. m = [read |-> m.read, j |-> m.j, merged |-> m.merged]
          BY <1>1
        <4> QED
          BY <3>1, <4>1
      <3> QED
        BY <3>2, <3>3
    <2>4. CASE s = 1
      BY <1>2, <2>2, <2>4 DEF MergeRound
    <2> QED
      BY <2>3, <2>4
  <1>5. u.read = r + s /\ u.j = j + 1 /\ u.merged = y
    BY <1>1
  <1>6. Separated(r + s, j + 1, M, D) /\ r + s \in i .. Len(M)
    <2>1. CASE s = 0
      <3>1. Separated(r, j + 1, M, D)
        BY <1>1, <1>2, <2>1, SeparatedUp
      <3>2. r + s = r
        BY <1>2, <2>1
      <3> QED
        BY <1>2, <3>1, <3>2
    <2>2. CASE s = 1
      <3>1. Separated(r + 1, j + 1, M, D)
        BY <1>1, <1>2, <2>2, SeparatedUp
      <3> QED
        BY <1>2, <2>2, <3>1
    <2> QED
      BY <2>1, <2>2
  <1>7. y = IF e.qty = 0 THEN x ELSE Append(x, e)
    BY <1>2, <1>3, KeptIs
  <1>8. \A l \in Range(x) : StorageLess(l.price, e.price)
    BY <1>1, <1>2, MergedBelow
  <1>9. /\ y \in Seq(PriceLevel) /\ Range(y) = Range(x) \cup (IF e.qty = 0 THEN {} ELSE {e})
        /\ Ordered(y, StorageLess)
    <2> HIDE DEF y, e
    <2>1. CASE e.qty = 0
      BY <1>1, <1>2, <1>7, <2>1
    <2>2. CASE e.qty # 0
      <3>1. Append(x, e) \in Seq(PriceLevel) /\ Range(Append(x, e)) = Range(x) \cup {e}
        BY <1>2, <1>3, AppendAdds
      <3>2. Ordered(Append(x, e), StorageLess)
        BY <1>1, <1>2, <1>3, <1>8, AppendOrdered
      <3> QED
        BY <1>7, <2>2, <3>1, <3>2
    <2> QED
      BY <2>1, <2>2
  <1>10. MergedTo(i, r + s, j + 1, M, D) = MergedTo(i, r, j, M, D) \cup (IF e.qty = 0 THEN {} ELSE {e})
    <2>1. 1 .. j + 1 = (1 .. j) \cup {j + 1}
      BY <1>2
    <2> DEFINE Unnamed(q) == {n \in i + 1 .. q : \A k \in 1 .. Len(D) : D[k].price # M[n].price}
    <2>2. Unnamed(r + s) = Unnamed(r)
      <3>1. CASE s = 0
        BY <1>2, <3>1
      <3>2. CASE s = 1
        <4>1. i + 1 .. r + s = (i + 1 .. r) \cup {r + 1}
          BY <1>2, <3>2
        <4> QED
          BY <1>2, <3>2, <4>1
      <3> QED
        BY <3>1, <3>2
    <2> DEFINE Of(q) == {M[n] : n \in Unnamed(q)}
               From(k) == {D[l] : l \in {l \in 1 .. k : D[l].qty # 0}}
    <2>3. Of(r + s) = Of(r)
      BY <2>2
    <2>4. From(j + 1) = From(j) \cup (IF e.qty = 0 THEN {} ELSE {e})
      BY <2>1
    <2>5. ASSUME NEW q, NEW k PROVE MergedTo(i, q, k, M, D) = Of(q) \cup From(k)
      BY Zenon DEF MergedTo
    <2> HIDE DEF Unnamed, Of, From, r, j, e
    <2>6. /\ MergedTo(i, r + s, j + 1, M, D) = Of(r + s) \cup From(j + 1)
          /\ MergedTo(i, r, j, M, D) = Of(r) \cup From(j)
      BY <2>5
    <2> QED
      BY <2>3, <2>4, <2>6
  <1>11. u \in W
    <2>1. j + 1 \in 0 .. Len(D)
      BY <1>2
    <2> HIDE DEF y
    <2> QED
      BY <1>1, <1>6, <1>9, <2>1
  <1> HIDE DEF u, e, r, j, x, y
  <1>12. u \in MergeStates(i, M, D)
    BY <1>1, <1>5, <1>6, <1>9, <1>10, <1>11 DEF MergeStates
  <1> QED
    BY <1>4, <1>5, <1>12 DEF r, j

\* What the merge ends with.
LEMMA MergedIs ==
  ASSUME NEW M, NEW D, Book(M), Book(D), NEW i \in 0 .. Len(M), Separated(i, 0, M, D)
  PROVE  /\ Merged(M, i, D) \in Seq(PriceLevel)
         /\ Ordered(Merged(M, i, D), StorageLess)
         /\ Range(Merged(M, i, D)) = MergedTo(i, Len(M), Len(D), M, D)
  <1> DEFINE S == MergeStates(i, M, D)
             R == Len(M) + Len(D)
             x == [read |-> i, j |-> 0, merged |-> <<>>]
             Runs(g) == g = [n \in 0 .. R |-> IF n = 0 THEN x ELSE MergeRound(g[n - 1], M, D)]
             f == [s \in Nat \X S |-> MergeRound(s[2], M, D)]
             w == CHOOSE g : Runs(g)
  <1>0. Len(M) \in Nat /\ Len(D) \in Nat /\ R \in Nat /\ i \in Nat /\ i <= Len(M)
    BY BookOrder
  <1>1. x \in S /\ x.read = i /\ x.j = 0
    <2>1. x \in [read : i .. Len(M), j : 0 .. Len(D), merged : Seq(PriceLevel)]
      BY <1>0
    <2>2. x.read = i /\ x.j = 0 /\ x.merged = <<>>
      OBVIOUS
    <2> HIDE DEF x
    <2>3. MergedTo(i, i, 0, M, D) = {}
      BY <1>0 DEF MergedTo
    <2>4. Range(<<>>) = {} /\ Ordered(<<>>, StorageLess)
      BY DEF Range, Ordered
    <2> QED
      BY <2>1, <2>2, <2>3, <2>4 DEF MergeStates
  <1>2. ASSUME NEW s \in S
        PROVE  /\ MergeRound(s, M, D) \in S
               /\ s.read \in 0 .. Len(M) /\ s.j \in 0 .. Len(D)
               /\ s.read = Len(M) /\ s.j = Len(D) => MergeRound(s, M, D) = s
               /\ s.read < Len(M) \/ s.j < Len(D) =>
                    MergeRound(s, M, D).read + MergeRound(s, M, D).j > s.read + s.j
    <2>0. \A t \in S : t.read \in 0 .. Len(M) /\ t.j \in 0 .. Len(D)
      BY <1>0 DEF MergeStates
    <2>1. s.read \in 0 .. Len(M) /\ s.j \in 0 .. Len(D)
      BY <2>0
    <2> DEFINE t == MergeRound(s, M, D)
    <2>2. CASE s.read = Len(M) /\ s.j = Len(D)
      <3>1. t = s
        BY <2>2 DEF MergeRound
      <3> QED
        BY <1>0, <2>1, <2>2, <3>1
    <2>3. CASE s.read < Len(M) /\ (s.j = Len(D) \/ StorageLess(M[s.read + 1].price, D[s.j + 1].price))
      <3>1. t \in S /\ t.read = s.read + 1 /\ t.j = s.j
        BY <2>3, MergeOld
      <3> HIDE DEF t, S
      <3>2. t.read + t.j > s.read + s.j /\ ~(s.read = Len(M) /\ s.j = Len(D))
        BY <1>0, <2>1, <2>3, <3>1
      <3> QED
        BY <2>1, <3>1, <3>2 DEF t
    <2>4. CASE s.j < Len(D) /\ (s.read = Len(M) \/ StorageLess(D[s.j + 1].price, M[s.read + 1].price))
               /\ s.j < Len(D)
      <3>1. t \in S /\ t.read = s.read + 0 /\ t.j = s.j + 1
        BY <2>4, MergeNew
      <3> HIDE DEF t, S
      <3>2. t.read + t.j > s.read + s.j /\ ~(s.read = Len(M) /\ s.j = Len(D))
        BY <1>0, <2>1, <2>4, <3>1
      <3> QED
        BY <2>1, <3>1, <3>2 DEF t
    <2>5. CASE s.j < Len(D) /\ s.read < Len(M) /\ M[s.read + 1].price = D[s.j + 1].price
      <3>1. t \in S /\ t.read = s.read + 1 /\ t.j = s.j + 1
        BY <2>5, MergeNew
      <3> HIDE DEF t, S
      <3>2. t.read + t.j > s.read + s.j /\ ~(s.read = Len(M) /\ s.j = Len(D))
        BY <1>0, <2>1, <2>5, <3>1
      <3> QED
        BY <2>1, <3>1, <3>2 DEF t
    <2>6. s.j < Len(D) /\ s.read < Len(M) =>
            \/ StorageLess(M[s.read + 1].price, D[s.j + 1].price)
            \/ StorageLess(D[s.j + 1].price, M[s.read + 1].price)
            \/ M[s.read + 1].price = D[s.j + 1].price
      <3>1. s.j < Len(D) /\ s.read < Len(M) => s.j + 1 \in 1 .. Len(D) /\ s.read + 1 \in 1 .. Len(M)
        BY <1>0, <2>1
      <3>2. s.j < Len(D) /\ s.read < Len(M) => D[s.j + 1].price \in Nat /\ M[s.read + 1].price \in Nat
        BY <3>1, BookOrder
      <3> QED
        BY <3>2, LessOrder
    <2>7. (s.read = Len(M) \/ s.read < Len(M)) /\ (s.j = Len(D) \/ s.j < Len(D))
      BY <1>0, <2>1
    <2> QED
      BY <2>2, <2>3, <2>4, <2>5, <2>6, <2>7, Zenon
  <1> HIDE DEF S, x
  <1>3. \E g : Runs(g)
    <2>1. f \in [Nat \X S -> S]
      BY <1>2
    <2>2. PICK g \in [0 .. R -> S] : g = [n \in 0 .. R |-> IF n = 0 THEN x ELSE f[<<n, g[n - 1]>>]]
      <3> HIDE DEF f, R
      <3>1. Rounds(S, x, f, R) # {}
        BY <1>0, <1>1, <2>1, Loop
      <3> QED
        BY <3>1 DEF Rounds
    <2>3. ASSUME NEW n \in 0 .. R, n # 0 PROVE f[<<n, g[n - 1]>>] = MergeRound(g[n - 1], M, D)
      <3> HIDE DEF R
      <3>1. <<n, g[n - 1]>> \in Nat \X S /\ <<n, g[n - 1]>>[2] = g[n - 1]
        BY <1>0, <2>3
      <3> QED
        BY <3>1
    <2>4. Runs(g)
      <3> HIDE DEF f, R
      <3> QED
        BY <2>2, <2>3
    <2> QED
      BY <2>4
  <1>4. Runs(w)
    <2> HIDE DEF Runs
    <2> QED
      BY <1>3, Zenon
  <1>5. Merged(M, i, D) = w[R].merged
    BY Zenon DEF Merged, x
  <1> HIDE DEF w, R
  <1>6. w[0] = x /\ \A n \in 1 .. R : w[n] = MergeRound(w[n - 1], M, D)
    BY <1>0, <1>4
  <1> DEFINE Ended(s) == s.read = Len(M) /\ s.j = Len(D)
             T == {n \in 0 .. R : w[n] \in S /\ (Ended(w[n]) \/ w[n].read + w[n].j >= n)}
  <1>7. 0 \in T
    BY <1>0, <1>1, <1>6
  <1>8. ASSUME NEW n \in 0 .. R - 1, n \in T PROVE n + 1 \in T
    <2>1. w[n + 1] = MergeRound(w[n], M, D) /\ n + 1 \in 0 .. R
      BY <1>0, <1>6
    <2>2. w[n] \in S /\ (Ended(w[n]) \/ w[n].read + w[n].j >= n)
      BY <1>8
    <2> DEFINE s == w[n]
               t == MergeRound(s, M, D)
    <2>3. /\ t \in S
          /\ s.read \in 0 .. Len(M) /\ s.j \in 0 .. Len(D)
          /\ s.read = Len(M) /\ s.j = Len(D) => t = s
          /\ s.read < Len(M) \/ s.j < Len(D) => t.read + t.j > s.read + s.j
      BY <1>2, <2>2
    <2>4. t.read \in 0 .. Len(M) /\ t.j \in 0 .. Len(D)
      BY <1>2, <2>3
    <2> HIDE DEF s, t
    <2>5. Ended(t) \/ t.read + t.j >= n + 1
      <3>1. CASE Ended(s)
        BY <2>3, <3>1
      <3>2. CASE ~Ended(s)
        <4>1. s.read < Len(M) \/ s.j < Len(D)
          BY <1>0, <2>3, <3>2
        <4>2. s.read + s.j >= n
          BY <2>2, <3>2 DEF s
        <4>3. t.read + t.j > s.read + s.j
          BY <2>3, <4>1
        <4> QED
          BY <2>3, <2>4, <4>2, <4>3
      <3> QED
        BY <3>1, <3>2
    <2> QED
      BY <2>1, <2>3, <2>5 DEF s, t
  <1>9. \A n \in 0 .. R : n \in T
    <2> HIDE DEF T
    <2> QED
      BY <1>0, <1>7, <1>8, Induct
  <1>10. w[R] \in S /\ (Ended(w[R]) \/ w[R].read + w[R].j >= R)
    BY <1>0, <1>9
  <1>11. w[R].read = Len(M) /\ w[R].j = Len(D)
    <2>1. w[R].read \in 0 .. Len(M) /\ w[R].j \in 0 .. Len(D)
      BY <1>2, <1>10
    <2> QED
      BY <1>0, <1>10, <2>1 DEF R
  <1> QED
    BY <1>5, <1>10, <1>11 DEF S, MergeStates

\* The levels up to the deepest one touched, and the merge of the others.
LEMMA RelocateIs ==
  ASSUME NEW M, NEW D, Book(M), Book(D), NEW i \in 0 .. Len(M), Separated(i, 0, M, D)
  PROVE  /\ Book(Relocate(M, i, D))
         /\ Range(Relocate(M, i, D)) = MergedTo(0, Len(M), Len(D), M, D)
  <1> DEFINE a == SubSeq(M, 1, i)
             b == Merged(M, i, D)
             y == Relocate(M, i, D)
             A == Len(a)
             B == Len(b)
  <1>0. /\ Len(M) \in Nat /\ Len(D) \in Nat /\ i \in Nat /\ i <= Len(M) /\ M \in Seq(PriceLevel)
        /\ \A n \in 1 .. Len(M) : M[n] \in PriceLevel
    BY BookOrder DEF Book
  <1>1. b \in Seq(PriceLevel) /\ Ordered(b, StorageLess) /\ Range(b) = MergedTo(i, Len(M), Len(D), M, D)
    BY MergedIs
  <1>2. a \in Seq(PriceLevel) /\ A = i /\ \A n \in 1 .. i : a[n] = M[n]
    <2>1. \A n \in 1 .. i : M[n] \in PriceLevel
      BY <1>0
    <2>2. 1 \in Int /\ i \in Int
      BY <1>0
    <2>3. a \in Seq(PriceLevel) /\ A = (IF 1 <= i THEN i - 1 + 1 ELSE 0) /\ \A n \in 1 .. i - 1 + 1 : a[n] = M[1 + n - 1]
      BY <2>1, <2>2, SubSeqProperties
    <2> HIDE DEF a
    <2> QED
      BY <1>0, <2>3
  <1>3. y = a \o b
    BY DEF Relocate
  <1> HIDE DEF a, b, y
  <1>4. B \in Nat /\ DOMAIN b = 1 .. B
    BY <1>1
  <1> HIDE DEF A, B
  <1>5. /\ y \in Seq(PriceLevel) /\ Len(y) = i + B
        /\ \A n \in 1 .. i + B : y[n] = IF n <= i THEN a[n] ELSE b[n - i]
    <2>1. y \in Seq(PriceLevel) /\ Len(y) = Len(a) + Len(b)
            /\ \A n \in 1 .. Len(a) + Len(b) : y[n] = IF n <= Len(a) THEN a[n] ELSE b[n - Len(a)]
      BY <1>1, <1>2, <1>3, ConcatProperties
    <2> QED
      BY <1>2, <2>1 DEF A, B
  <1>6. DOMAIN y = 1 .. i + B
    BY <1>0, <1>4, <1>5
  <1>7. /\ \A n \in 1 .. i : n \in 1 .. i + B /\ y[n] = M[n]
        /\ \A n \in i + 1 .. i + B : n - i \in 1 .. B /\ y[n] = b[n - i] /\ b[n - i] \in Range(b)
    <2>1. ASSUME NEW n \in 1 .. i PROVE n \in 1 .. i + B /\ y[n] = M[n]
      <3>1. n \in 1 .. i + B /\ n <= i
        BY <1>0, <1>4
      <3> QED
        BY <1>2, <1>5, <3>1
    <2>2. ASSUME NEW n \in i + 1 .. i + B PROVE n - i \in 1 .. B /\ y[n] = b[n - i]
      <3>1. n \in 1 .. i + B /\ ~(n <= i) /\ n - i \in 1 .. B
        BY <1>0, <1>4
      <3> QED
        BY <1>5, <3>1
    <2> QED
      BY <1>4, <2>1, <2>2 DEF Range
  <1>8. ASSUME NEW l \in Range(b), NEW n \in 1 .. i PROVE StorageLess(M[n].price, l.price)
    <2>1. (\E k \in i + 1 .. Len(M) : l = M[k]) \/ (\E k \in 1 .. Len(D) : l = D[k])
      BY <1>1, Zenon DEF MergedTo
    <2>2. ASSUME NEW k \in i + 1 .. Len(M), l = M[k] PROVE StorageLess(M[n].price, l.price)
      <3>1. n \in 1 .. Len(M) /\ k \in 1 .. Len(M) /\ n < k
        BY <1>0
      <3> QED
        BY <2>2, <3>1, BookOrder
    <2>3. ASSUME NEW k \in 1 .. Len(D), l = D[k] PROVE StorageLess(M[n].price, l.price)
      <3>1. k \in 0 + 1 .. Len(D)
        OBVIOUS
      <3> QED
        BY <2>3, <3>1 DEF Separated
    <2> QED
      BY <2>1, <2>2, <2>3
  <1>9. ASSUME NEW m \in 1 .. i + B, NEW n \in 1 .. i + B, m < n
        PROVE  StorageLess(y[m].price, y[n].price)
    <2>1. CASE n <= i
      <3>1. m \in 1 .. i /\ n \in 1 .. i /\ m \in 1 .. Len(M) /\ n \in 1 .. Len(M)
        BY <1>0, <1>9, <2>1
      <3> QED
        BY <1>7, <1>9, <3>1, BookOrder
    <2>2. CASE m <= i /\ ~(n <= i)
      <3>1. m \in 1 .. i /\ n \in i + 1 .. i + B
        BY <1>0, <1>4, <2>2
      <3> QED
        BY <1>7, <1>8, <3>1
    <2>3. CASE ~(m <= i)
      <3>1. m \in i + 1 .. i + B /\ n \in i + 1 .. i + B /\ m - i < n - i
        BY <1>0, <1>4, <1>9, <2>3
      <3>2. m - i \in 1 .. B /\ n - i \in 1 .. B /\ y[m] = b[m - i] /\ y[n] = b[n - i]
        BY <1>7, <3>1
      <3> QED
        BY <1>1, <1>4, <3>1, <3>2 DEF Ordered
    <2> QED
      BY <2>1, <2>2, <2>3
  <1>10. Ordered(y, StorageLess)
    BY <1>6, <1>9 DEF Ordered
  <1>11. ASSUME NEW n \in 1 .. i, NEW k \in 1 .. Len(D) PROVE D[k].price # M[n].price
    <2>1. n \in 1 .. Len(M) /\ k \in 0 + 1 .. Len(D)
      BY <1>0
    <2>2. StorageLess(M[n].price, D[k].price)
      BY <2>1 DEF Separated
    <2> QED
      BY <2>1, <2>2, BookOrder, LessOrder
  <1> DEFINE Unnamed(p, q) == {M[n] : n \in {n \in p + 1 .. q : \A k \in 1 .. Len(D) : D[k].price # M[n].price}}
             new == {D[k] : k \in {k \in 1 .. Len(D) : D[k].qty # 0}}
  <1>12. Range(y) = {M[n] : n \in 1 .. i} \cup Range(b)
    <2>1. ASSUME NEW v \in Range(y) PROVE v \in {M[n] : n \in 1 .. i} \cup Range(b)
      <3>1. PICK n \in 1 .. i + B : v = y[n]
        BY <1>6 DEF Range
      <3>2. n \in 1 .. i \/ n \in i + 1 .. i + B
        BY <1>0, <1>4
      <3> QED
        BY <1>7, <3>1, <3>2
    <2>2. ASSUME NEW n \in 1 .. i PROVE M[n] \in Range(y)
      BY <1>6, <1>7 DEF Range
    <2>3. ASSUME NEW v \in Range(b) PROVE v \in Range(y)
      <3>1. PICK n \in 1 .. B : v = b[n]
        BY <1>4 DEF Range
      <3>2. n + i \in i + 1 .. i + B /\ n + i \in 1 .. i + B /\ (n + i) - i = n
        BY <1>0, <1>4
      <3> QED
        BY <1>6, <1>7, <3>1, <3>2 DEF Range
    <2> QED
      BY <2>1, <2>2, <2>3
  <1>13. Unnamed(0, Len(M)) = {M[n] : n \in 1 .. i} \cup Unnamed(i, Len(M))
    <2>1. 0 + 1 .. Len(M) = (1 .. i) \cup (i + 1 .. Len(M))
      BY <1>0
    <2> QED
      BY <2>1, <1>11
  <1>14. /\ MergedTo(0, Len(M), Len(D), M, D) = Unnamed(0, Len(M)) \cup new
         /\ MergedTo(i, Len(M), Len(D), M, D) = Unnamed(i, Len(M)) \cup new
    BY Zenon DEF MergedTo
  <1> HIDE DEF Unnamed, new
  <1>15. Range(y) = MergedTo(0, Len(M), Len(D), M, D)
    BY <1>1, <1>12, <1>13, <1>14
  <1> QED
    BY <1>5, <1>10, <1>15 DEF Book, y

\* A side after a delta: the levels it does not name, and those it names with a
\* quantity, in order, whether it was written in place or relocated; and the changes.
LEMMA ApplySideIs ==
  ASSUME NEW L, Book(L), NEW sent \in Seq(PriceLevel), Distinct(sent), NEW D, D = Resolved(sent)
  PROVE  /\ Book(D) /\ Range(D) = Range(sent)
         /\ Book(ApplySide(L, sent).levels)
         /\ Range(ApplySide(L, sent).levels) = MergedTo(0, Len(L), Len(D), L, D)
         /\ ApplySide(L, sent).changes \in Seq(ChangeRecord)
         /\ Range(ApplySide(L, sent).changes) = ChangesFrom(0, L, D)
         /\ Ordered(ApplySide(L, sent).changes, Better)
  <1> DEFINE w == Walk(L, D)
             M == w.levels
             i == w.i
             r == ApplySide(L, sent)
  <1>1. Book(D) /\ Range(D) = Range(sent)
    BY ResolvedIs DEF Book
  <1>2. /\ r.levels = IF w.inserts = 0 /\ w.erases = 0 THEN M ELSE Relocate(M, i, D)
        /\ r.changes = w.changes
    BY DEF ApplySide
  <1>3. w \in WalkStates(L, D) /\ w.j = 0
    BY <1>1, WalkIs
  <1> HIDE DEF w, r
  <1>4. /\ Separated(i, 0, L, D) /\ Written(M, i, L, D)
        /\ w.inserts = 0 => NoneEnters(0, L, D)
        /\ w.erases = 0 => NoneLeaves(0, L, D)
        /\ Range(w.changes) = ChangesFrom(0, L, D) /\ Ordered(w.changes, Better)
        /\ i \in 0 .. Len(L) /\ w.changes \in Seq(ChangeRecord)
    BY <1>3 DEF WalkStates
  <1> HIDE DEF M, i
  <1>5. /\ M \in Seq(PriceLevel) /\ Len(M) = Len(L) /\ DOMAIN M = 1 .. Len(L)
        /\ \A n \in 1 .. Len(L) : M[n].price = L[n].price
        /\ Len(L) \in Nat /\ Len(D) \in Nat
    BY <1>1, <1>4, BookOrder DEF Written
  <1>6. Book(M)
    BY <1>5, BookOrder DEF Book, Ordered
  <1>7. Separated(i, 0, M, D)
    <2>1. ASSUME NEW n \in 1 .. i, NEW k \in 0 + 1 .. Len(D) PROVE StorageLess(M[n].price, D[k].price)
      <3>1. n \in 1 .. Len(L)
        BY <1>4, <1>5
      <3> QED
        BY <1>4, <1>5, <3>1 DEF Separated
    <2> QED
      BY <2>1, <1>5 DEF Separated
  <1>8. MergedTo(0, Len(M), Len(D), M, D) = MergedTo(0, Len(L), Len(D), L, D)
    <2>1. ASSUME NEW n \in 0 + 1 .. Len(L), \A k \in 1 .. Len(D) : D[k].price # L[n].price
          PROVE  M[n] = L[n]
      <3>1. n \in 1 .. i \/ n \in i + 1 .. Len(L)
        BY <1>4, <1>5
      <3> QED
        BY <1>4, <2>1, <3>1 DEF Written
    <2>2. \A n \in 0 + 1 .. Len(L) : M[n].price = L[n].price
      BY <1>5
    <2> QED
      BY <1>5, <2>1, <2>2 DEF MergedTo
  <1>9. CASE w.inserts = 0 /\ w.erases = 0
    <2>1. NoneEnters(0, L, D) /\ NoneLeaves(0, L, D)
      BY <1>4, <1>9
    <2>2. ASSUME NEW n \in 1 .. Len(L), NEW k \in 1 .. Len(D), D[k].price = L[n].price
          PROVE  D[k].qty # 0 /\ M[n] = D[k]
      <3>1. k \in 0 + 1 .. Len(D)
        OBVIOUS
      <3>2. D[k].qty # 0
        BY <2>1, <2>2, <3>1 DEF NoneLeaves
      <3>3. n \in i + 1 .. Len(L)
        <4>1. CASE n \in 1 .. i
          <5>1. StorageLess(L[n].price, D[k].price)
            BY <1>4, <3>1, <4>1 DEF Separated
          <5> QED
            BY <1>1, <2>2, <5>1, BookOrder, LessOrder
        <4> QED
          BY <1>4, <1>5, <4>1
      <3>4. M[n].qty = D[k].qty /\ M[n].price = D[k].price
        BY <1>4, <1>5, <2>2, <3>2, <3>3 DEF Written
      <3>5. M[n] = Level(M[n].price, M[n].qty) /\ D[k] = Level(D[k].price, D[k].qty)
        BY <1>1, <1>5, <1>6, LevelsOf DEF Book
      <3> QED
        BY <3>2, <3>4, <3>5
    <2>3. ASSUME NEW v \in Range(M) PROVE v \in MergedTo(0, Len(M), Len(D), M, D)
      <3>1. PICK n \in 1 .. Len(L) : v = M[n]
        BY <1>5 DEF Range
      <3>2. n \in 0 + 1 .. Len(M)
        BY <1>5
      <3>3. CASE \E k \in 1 .. Len(D) : D[k].price = L[n].price
        BY <2>2, <3>1, <3>3 DEF MergedTo
      <3>4. CASE \A k \in 1 .. Len(D) : D[k].price # L[n].price
        BY <1>5, <3>1, <3>2, <3>4 DEF MergedTo
      <3> QED
        BY <3>3, <3>4
    <2>4. ASSUME NEW v \in MergedTo(0, Len(M), Len(D), M, D) PROVE v \in Range(M)
      <3>1. (\E n \in 0 + 1 .. Len(M) : v = M[n]) \/ (\E k \in 1 .. Len(D) : D[k].qty # 0 /\ v = D[k])
        BY DEF MergedTo
      <3>2. CASE \E n \in 0 + 1 .. Len(M) : v = M[n]
        BY <1>5, <3>2 DEF Range
      <3>3. ASSUME NEW k \in 1 .. Len(D), D[k].qty # 0, v = D[k] PROVE v \in Range(M)
        <4>1. k \in 0 + 1 .. Len(D)
          OBVIOUS
        <4>2. PICK n \in 1 .. Len(L) : L[n].price = D[k].price
          BY <2>1, <3>3, <4>1 DEF NoneEnters
        <4> QED
          BY <1>5, <2>2, <3>3, <4>2, SMTT(30) DEF Range
      <3> QED
        BY <3>1, <3>2, <3>3
    <2>5. Range(M) = MergedTo(0, Len(L), Len(D), L, D)
      BY <1>8, <2>3, <2>4
    <2>6. r.levels = M
      BY <1>2, <1>9
    <2> QED
      BY <1>1, <1>2, <1>4, <1>6, <2>5, <2>6 DEF r
  <1>10. CASE ~(w.inserts = 0 /\ w.erases = 0)
    <2>1. Book(Relocate(M, i, D)) /\ Range(Relocate(M, i, D)) = MergedTo(0, Len(M), Len(D), M, D)
      BY <1>1, <1>4, <1>5, <1>6, <1>7, RelocateIs
    <2> QED
      BY <1>1, <1>2, <1>4, <1>8, <1>10, <2>1 DEF r
  <1> QED
    BY <1>9, <1>10

\* A quantity for each price.
Amounts(P) == [P -> Nat]

\* The levels of the prices in N.
LevelSet(N, qty) == {Level(p, qty[p]) : p \in N}

\* The book x holds the prices of P that have a quantity in q.
Represents(x, P, q) == Book(x) /\ Range(x) = LevelSet({p \in P : q[p] # 0}, q)

\* A level and its fields.
LEMMA LevelFields ==
  ASSUME NEW p, NEW a
  PROVE  Level(p, a).price = p /\ Level(p, a).qty = a
  BY DEF Level

\* What it means to hold a book, level by level.
LEMMA Represented ==
  ASSUME NEW P, NEW q \in Amounts(P), NEW x, Represents(x, P, q)
  PROVE  /\ Len(x) \in Nat
         /\ \A n \in 1 .. Len(x) : x[n].price \in P /\ q[x[n].price] # 0 /\ x[n] = Level(x[n].price, q[x[n].price])
         /\ \A p \in P : q[p] # 0 => \E n \in 1 .. Len(x) : x[n] = Level(p, q[p])
         /\ \A p \in P : QtyAt(x, p) = q[p]
  <1> USE DEF Amounts
  <1>1. Book(x) /\ Len(x) \in Nat /\ DOMAIN x = 1 .. Len(x)
    BY BookOrder DEF Represents, LevelSet
  <1>2. ASSUME NEW n \in 1 .. Len(x)
        PROVE  x[n].price \in P /\ q[x[n].price] # 0 /\ x[n] = Level(x[n].price, q[x[n].price])
    <2>1. x[n] \in Range(x)
      BY <1>1 DEF Range
    <2>2. PICK p \in P : q[p] # 0 /\ x[n] = Level(p, q[p])
      BY <2>1 DEF Represents, LevelSet
    <2> QED
      BY <2>2, LevelFields
  <1>3. ASSUME NEW p \in P, q[p] # 0 PROVE \E n \in 1 .. Len(x) : x[n] = Level(p, q[p])
    <2>1. Level(p, q[p]) \in Range(x)
      BY <1>3 DEF Represents, LevelSet
    <2> QED
      BY <1>1, <2>1 DEF Range
  <1>4. ASSUME NEW p \in P PROVE QtyAt(x, p) = q[p]
    <2>1. CASE q[p] # 0
      <3>1. PICK n \in 1 .. Len(x) : x[n] = Level(p, q[p])
        BY <1>3, <2>1
      <3> QED
        BY <1>1, <3>1, QtyAtIs, LevelFields
    <2>2. CASE q[p] = 0
      <3>1. \A n \in 1 .. Len(x) : x[n].price # p
        BY <1>2, <2>2
      <3> QED
        BY <1>1, <2>2, <3>1, QtyAtIs
    <2> QED
      BY <2>1, <2>2
  <1> QED
    BY <1>1, <1>2, <1>3, <1>4

\* Every level of a delta is one of those in qty, and every price is there.
Names(D, N, qty) ==
  /\ \A k \in 1 .. Len(D) : D[k].price \in N /\ D[k].qty = qty[D[k].price] /\ D[k] = Level(D[k].price, qty[D[k].price])
  /\ \A p \in N : \E k \in 1 .. Len(D) : D[k].price = p

\* A delta made ready names what was sent.
LEMMA NamesAll ==
  ASSUME NEW D, Book(D), NEW N, NEW qty \in Amounts(N), Range(D) = LevelSet(N, qty)
  PROVE  Names(D, N, qty)
  <1>1. DOMAIN D = 1 .. Len(D) /\ Len(D) \in Nat
    BY BookOrder
  <1>2. ASSUME NEW k \in 1 .. Len(D)
        PROVE  D[k].price \in N /\ D[k].qty = qty[D[k].price] /\ D[k] = Level(D[k].price, qty[D[k].price])
    <2>1. D[k] \in Range(D)
      BY <1>1 DEF Range
    <2>2. PICK p \in N : D[k] = Level(p, qty[p])
      BY <2>1 DEF LevelSet
    <2> QED
      BY <2>2, LevelFields
  <1>3. ASSUME NEW p \in N PROVE \E k \in 1 .. Len(D) : D[k].price = p
    <2>1. Level(p, qty[p]) \in Range(D)
      BY DEF LevelSet
    <2>2. PICK k \in 1 .. Len(D) : D[k] = Level(p, qty[p])
      BY <1>1, <2>1 DEF Range
    <2> QED
      BY <2>2 DEF Level
  <1> QED
    BY <1>2, <1>3 DEF Names

\* The quantities in A are those in qty where it has any, and those in q.
Overlaid(P, q, N, qty, A) ==
  /\ q \in Amounts(P) /\ A \in Amounts(P)
  /\ N \subseteq P /\ qty \in Amounts(N)
  /\ \A p \in P : A[p] = IF p \in N THEN qty[p] ELSE q[p]

\* What is left and what is new is the book afterwards.
LEMMA MergedHolds ==
  ASSUME NEW P, NEW q, NEW N, NEW qty, NEW A, Overlaid(P, q, N, qty, A),
         NEW L, Represents(L, P, q), NEW D, Book(D), Names(D, N, qty)
  PROVE  MergedTo(0, Len(L), Len(D), L, D) = LevelSet({p \in P : A[p] # 0}, A)
  <1> DEFINE X == MergedTo(0, Len(L), Len(D), L, D)
             Y == LevelSet({p \in P : A[p] # 0}, A)
  <1>0. Len(L) \in Nat /\ 0 + 1 .. Len(L) = 1 .. Len(L)
    BY BookOrder DEF Represents
  <1>6. q \in Amounts(P) /\ N \subseteq P /\ \A p \in P : A[p] = IF p \in N THEN qty[p] ELSE q[p]
    BY DEF Overlaid
  <1>7. \A n \in 1 .. Len(L) : L[n].price \in P /\ q[L[n].price] # 0 /\ L[n] = Level(L[n].price, q[L[n].price])
    BY <1>6, Represented
  <1>8. \A p \in P : q[p] # 0 => \E n \in 1 .. Len(L) : L[n] = Level(p, q[p])
    BY <1>6, Represented
  <1>1. ASSUME NEW p \in P, A[p] # 0 PROVE Level(p, A[p]) \in Y
    BY <1>1 DEF LevelSet
  <1>2. ASSUME NEW v \in X PROVE v \in Y
    <2>1. \/ \E n \in 1 .. Len(L) : v = L[n] /\ \A k \in 1 .. Len(D) : D[k].price # L[n].price
          \/ \E k \in 1 .. Len(D) : D[k].qty # 0 /\ v = D[k]
      BY <1>0 DEF MergedTo
    <2>2. ASSUME NEW n \in 1 .. Len(L), v = L[n], \A k \in 1 .. Len(D) : D[k].price # L[n].price
          PROVE  v \in Y
      <3> DEFINE p == L[n].price
      <3>1. p \in P /\ q[p] # 0 /\ v = Level(p, q[p])
        BY <1>7, <2>2
      <3>2. p \notin N
        BY <2>2 DEF Names
      <3> HIDE DEF p
      <3>3. A[p] = q[p]
        BY <1>6, <3>1, <3>2
      <3> HIDE DEF Y
      <3> QED
        BY <1>1, <3>1, <3>3
    <2>3. ASSUME NEW k \in 1 .. Len(D), D[k].qty # 0, v = D[k]
          PROVE  v \in Y
      <3> DEFINE p == D[k].price
      <3>1. p \in N /\ p \in P /\ qty[p] # 0 /\ v = Level(p, qty[p])
        BY <1>6, <2>3 DEF Names
      <3> HIDE DEF p
      <3>2. A[p] = qty[p]
        BY <1>6, <3>1
      <3> HIDE DEF Y
      <3> QED
        BY <1>1, <3>1, <3>2
    <2> QED
      BY <2>1, <2>2, <2>3
  <1>3. ASSUME NEW p \in P, A[p] # 0 PROVE Level(p, A[p]) \in X
    <2>1. CASE p \in N
      <3>1. PICK k \in 1 .. Len(D) : D[k].price = p
        BY <2>1 DEF Names
      <3>2. A[p] = qty[p]
        BY <1>6, <2>1
      <3>3. D[k].qty # 0 /\ D[k] = Level(p, A[p])
        BY <1>3, <3>1, <3>2 DEF Names
      <3> QED
        BY <3>3 DEF MergedTo
    <2>2. CASE p \notin N
      <3>1. A[p] = q[p]
        BY <1>6, <2>2
      <3>2. PICK n \in 1 .. Len(L) : L[n] = Level(p, q[p])
        BY <1>3, <1>8, <3>1
      <3>3. L[n].price = p /\ n \in 0 + 1 .. Len(L)
        BY <1>0, <3>2 DEF Level
      <3>4. \A k \in 1 .. Len(D) : D[k].price # L[n].price
        BY <2>2, <3>3 DEF Names
      <3> QED
        BY <3>1, <3>2, <3>3, <3>4 DEF MergedTo
    <2> QED
      BY <2>1, <2>2
  <1>4. ASSUME NEW v \in Y PROVE \E p \in P : A[p] # 0 /\ v = Level(p, A[p])
    BY DEF LevelSet
  <1> HIDE DEF X, Y
  <1>5. X = Y
    BY <1>2, <1>3, <1>4
  <1> QED
    BY <1>5 DEF X, Y

\* What changes between two books.
Transition(P, q, A) == {Change(p, q[p], A[p]) : p \in {p \in P : q[p] # A[p]}}

\* The changes of a delta are those between the books.
LEMMA ChangesHold ==
  ASSUME NEW P, NEW q, NEW N, NEW qty, NEW A, Overlaid(P, q, N, qty, A),
         NEW L, Represents(L, P, q), NEW D, Book(D), Names(D, N, qty)
  PROVE  ChangesFrom(0, L, D) = Transition(P, q, A)
  <1>0. Len(D) \in Nat /\ 0 + 1 .. Len(D) = 1 .. Len(D)
    BY BookOrder
  <1>4. q \in Amounts(P) /\ N \subseteq P /\ \A p \in P : A[p] = IF p \in N THEN qty[p] ELSE q[p]
    BY DEF Overlaid
  <1>1. ASSUME NEW k \in 1 .. Len(D)
        PROVE  D[k].price \in P /\ QtyAt(L, D[k].price) = q[D[k].price] /\ D[k].qty = A[D[k].price]
    <2>1. D[k].price \in N /\ D[k].price \in P /\ D[k].qty = qty[D[k].price]
      BY <1>4 DEF Names
    <2>2. QtyAt(L, D[k].price) = q[D[k].price]
      BY <1>4, <2>1, Represented
    <2> QED
      BY <1>4, <2>1, <2>2
  <1>2. ASSUME NEW v \in ChangesFrom(0, L, D)
        PROVE  v \in Transition(P, q, A)
    <2>1. PICK k \in 1 .. Len(D) : QtyAt(L, D[k].price) # D[k].qty
                                      /\ v = Change(D[k].price, QtyAt(L, D[k].price), D[k].qty)
      BY <1>0 DEF ChangesFrom
    <2> DEFINE p == D[k].price
    <2>2. p \in P /\ q[p] # A[p] /\ v = Change(p, q[p], A[p])
      BY <1>1, <2>1
    <2> HIDE DEF p
    <2> QED
      BY <2>2 DEF Transition
  <1>3. ASSUME NEW p \in P, q[p] # A[p] PROVE Change(p, q[p], A[p]) \in ChangesFrom(0, L, D)
    <2>1. p \in N
      BY <1>3, <1>4
    <2>2. PICK k \in 1 .. Len(D) : D[k].price = p
      BY <2>1 DEF Names
    <2>3. k \in 0 + 1 .. Len(D) /\ QtyAt(L, D[k].price) = q[p] /\ D[k].qty = A[p]
      BY <1>0, <1>1, <2>2
    <2> QED
      BY <1>3, <2>2, <2>3 DEF ChangesFrom
  <1>5. ASSUME NEW v \in Transition(P, q, A) PROVE \E p \in P : q[p] # A[p] /\ v = Change(p, q[p], A[p])
    BY DEF Transition
  <1> QED
    BY <1>2, <1>3, <1>5

\* A book that holds what a venue had holds after a delta what the venue has, and the
\* changes are the difference.
LEMMA DeltaApplied ==
  ASSUME NEW P, NEW q, NEW N, NEW qty, NEW A, Overlaid(P, q, N, qty, A),
         NEW L, Represents(L, P, q),
         NEW sent \in Seq(PriceLevel), Distinct(sent), Range(sent) = LevelSet(N, qty)
  PROVE  /\ Represents(ApplySide(L, sent).levels, P, A)
         /\ Range(ApplySide(L, sent).changes) = Transition(P, q, A)
         /\ Ordered(ApplySide(L, sent).changes, Better)
         /\ ApplySide(L, sent).changes \in Seq(ChangeRecord)
  <1> DEFINE D == Resolved(sent)
             r == ApplySide(L, sent)
  <1>1. Book(L)
    BY DEF Represents
  <1>2. /\ Book(D) /\ Range(D) = Range(sent)
        /\ Book(r.levels) /\ Range(r.levels) = MergedTo(0, Len(L), Len(D), L, D)
        /\ r.changes \in Seq(ChangeRecord) /\ Range(r.changes) = ChangesFrom(0, L, D)
        /\ Ordered(r.changes, Better)
    BY <1>1, ApplySideIs
  <1> HIDE DEF D, r
  <1>3. Names(D, N, qty)
    BY <1>2, NamesAll DEF Overlaid
  <1>4. MergedTo(0, Len(L), Len(D), L, D) = LevelSet({p \in P : A[p] # 0}, A)
    BY <1>2, <1>3, MergedHolds
  <1>5. ChangesFrom(0, L, D) = Transition(P, q, A)
    BY <1>2, <1>3, ChangesHold
  <1>6. Represents(r.levels, P, A)
    BY <1>2, <1>4 DEF Represents
  <1> QED
    BY <1>2, <1>5, <1>6 DEF r

\* The levels of an update name each price once.
LEMMA SentLevels ==
  ASSUME NEW s \in Slot, NEW order \in Orders(s), NEW qty \in [Range(order) -> Nat],
         NEW levels, levels = [n \in DOMAIN order |-> Level(order[n], qty[order[n]])]
  PROVE  /\ levels \in Seq(PriceLevel) /\ Distinct(levels)
         /\ Range(levels) = LevelSet(Range(order), qty)
         /\ Range(order) \subseteq PricesOf[s]
  <1>1. /\ order \in Seq(PricesOf[s]) /\ DOMAIN order = 1 .. Len(order)
        /\ \A m, n \in DOMAIN order : m # n => order[m] # order[n]
    BY OrdersAre
  <1>2. /\ levels \in Seq(PriceLevel) /\ DOMAIN levels = DOMAIN order
        /\ \A n \in DOMAIN order : levels[n] = Level(order[n], qty[order[n]])
    BY LevelsAre
  <1>3. Distinct(levels)
    <2>1. \A n \in DOMAIN order : levels[n].price = order[n]
      BY <1>2, LevelFields
    <2> QED
      BY <1>1, <1>2, <2>1 DEF Distinct
  <1>4. Range(levels) = {Level(p, qty[p]) : p \in Range(order)}
    <2>1. ASSUME NEW v \in Range(levels) PROVE v \in {Level(p, qty[p]) : p \in Range(order)}
      <3>1. PICK n \in DOMAIN order : v = Level(order[n], qty[order[n]])
        BY <1>2 DEF Range
      <3> QED
        BY <3>1 DEF Range
    <2>2. ASSUME NEW p \in Range(order) PROVE Level(p, qty[p]) \in Range(levels)
      <3>1. PICK n \in DOMAIN order : p = order[n]
        BY DEF Range
      <3> QED
        BY <1>2, <3>1 DEF Range
    <2> QED
      BY <2>1, <2>2
  <1>5. Range(order) \subseteq PricesOf[s]
    BY <1>1 DEF Range
  <1> QED
    BY <1>2, <1>3, <1>4, <1>5 DEF LevelSet

\* An update of the venue s is under way: its book is what the venue had when it sent
\* it, and the venue has what the update makes of that.
Sent(s, q, isSnapshot, N, qty, levels) ==
  /\ q \in Amounts(PricesOf[s]) /\ Represents(books[s], PricesOf[s], q)
  /\ N \subseteq PricesOf[s] /\ qty \in Amounts(N)
  /\ levels \in Seq(PriceLevel) /\ Distinct(levels) /\ Range(levels) = LevelSet(N, qty)
  /\ isSnapshot \in BOOLEAN /\ message.body = Update(s, isSnapshot, levels)
  /\ market[s] = After(q, isSnapshot, qty)

\* A message under way is an update.
UpdateUnderWay == message # Nothing /\ message.type = "kBookUpdate"

\* Every venue has the book that md_core holds, but for an update under way.
BooksInv ==
  /\ DOMAIN market = Slot /\ \A s \in Slot : market[s] \in Amounts(PricesOf[s])
  /\ DOMAIN books = Slot
  /\ \A s \in Slot :
       IF UpdateUnderWay /\ slot = s
       THEN \E q, isSnapshot, N, qty, levels : Sent(s, q, isSnapshot, N, qty, levels)
       ELSE Represents(books[s], PricesOf[s], market[s])

\* An empty vector is a book without quantities.
LEMMA EmptyBook ==
  ASSUME NEW P
  PROVE  [p \in P |-> 0] \in Amounts(P) /\ Represents(<<>>, P, [p \in P |-> 0])
  <1>1. Book(<<>>) /\ Range(<<>>) = {}
    BY DEF Book, Ordered, Range
  <1>2. [p \in P |-> 0] \in Amounts(P)
    BY DEF Amounts
  <1>3. LevelSet({p \in P : [x \in P |-> 0][p] # 0}, [x \in P |-> 0]) = {}
    BY DEF LevelSet
  <1> QED
    BY <1>1, <1>2, <1>3 DEF Represents

\* The side stays what it is.
LEMMA SameSide ==
  ASSUME side' = side, NEW x, NEW P, NEW q
  PROVE  Represents(x, P, q)' <=> Represents(x, P, q)
  BY DEF Represents, Book, Ordered, StorageLess

\* What an update that is under way makes of the book.
LEMMA UpdateApplied ==
  ASSUME NEW s \in Slot, NEW q, NEW isSnapshot, NEW N, NEW qty, NEW levels, Sent(s, q, isSnapshot, N, qty, levels),
         side \in {"bids", "asks"}
  PROVE  /\ Represents(ApplyUpdate(s, message.body).levels, PricesOf[s], market[s])
         /\ market[s] \in Amounts(PricesOf[s])
         /\ message.body.isSnapshot = isSnapshot
         /\ ~isSnapshot =>
              LET changes == ApplyUpdate(s, message.body).changes
              IN  /\ Ordered(changes, Better) /\ Range(changes) = Transition(PricesOf[s], q, market[s])
                  /\ changes \in Seq(ChangeRecord)
  <1> DEFINE P == PricesOf[s]
             A == market[s]
             L == IF isSnapshot THEN <<>> ELSE books[s]
             r == IF isSnapshot THEN [p \in P |-> 0] ELSE q
             u == message.body
  <1>1. u.isSnapshot = isSnapshot /\ levels = IF side = "bids" THEN u.bids ELSE u.asks
    BY DEF Sent, Update
  <1>2. ApplyUpdate(s, u) = ApplySide(L, levels)
    BY <1>1, Zenon DEF ApplyUpdate
  <1>3. Overlaid(P, r, N, qty, A) /\ Represents(L, P, r)
    <2>1. q \in Amounts(P) /\ N \subseteq P /\ qty \in Amounts(N) /\ A = After(q, isSnapshot, qty) /\ Represents(books[s], P, q)
          /\ isSnapshot \in BOOLEAN
      BY DEF Sent
    <2>2. A \in Amounts(P) /\ \A p \in P : A[p] = IF p \in N THEN qty[p] ELSE r[p]
      BY <2>1 DEF After, Amounts
    <2>3. r \in Amounts(P) /\ Represents(L, P, r)
      BY <2>1, EmptyBook
    <2> QED
      BY <2>1, <2>2, <2>3 DEF Overlaid
  <1>4. levels \in Seq(PriceLevel) /\ Distinct(levels) /\ Range(levels) = LevelSet(N, qty)
    BY DEF Sent
  <1> HIDE DEF P, A, L, r, u
  <1>5. /\ Represents(ApplySide(L, levels).levels, P, A)
        /\ Range(ApplySide(L, levels).changes) = Transition(P, r, A)
        /\ Ordered(ApplySide(L, levels).changes, Better)
        /\ ApplySide(L, levels).changes \in Seq(ChangeRecord)
    BY <1>3, <1>4, DeltaApplied
  <1>6. ~isSnapshot => r = q
    BY DEF r
  <1>7. A \in Amounts(P)
    BY <1>3 DEF Overlaid
  <1> QED
    BY <1>1, <1>2, <1>5, <1>6, <1>7 DEF P, A, u

\* All books are empty at first.
LEMMA BooksInvInitially == Init => BooksInv
  <1> SUFFICES ASSUME Init PROVE BooksInv
    OBVIOUS
  <1>1. /\ market = [s \in Slot |-> [p \in PricesOf[s] |-> 0]] /\ message = Nothing
        /\ books = [s \in Slot |-> <<>>]
    BY DEF Init
  <1>2. \A s \in Slot : market[s] = [p \in PricesOf[s] |-> 0] /\ books[s] = <<>>
    BY <1>1
  <1> QED
    BY <1>1, <1>2, EmptyBook DEF BooksInv, UpdateUnderWay

\* Between two messages that is the property.
LEMMA BooksAreExact ==
  ASSUME BooksInv
  PROVE  BookIsExact
  <1> SUFFICES ASSUME message = Nothing, NEW s \in Slot
               PROVE  /\ Ordered(books[s], StorageLess)
                      /\ Range(books[s]) = {Level(p, market[s][p]) : p \in {p \in PricesOf[s] : market[s][p] # 0}}
    BY DEF BookIsExact
  <1>1. Represents(books[s], PricesOf[s], market[s])
    BY DEF BooksInv, UpdateUnderWay
  <1> QED
    BY <1>1 DEF Represents, Book, LevelSet

\* While an update is under way its changes are as they should be.
LEMMA ChangesAreExact ==
  ASSUME WireInv, BooksInv
  PROVE  ChangesAreTheTransition
  <1> SUFFICES ASSUME message # Nothing, message.type = "kBookUpdate", ~message.body.isSnapshot
               PROVE  LET changes == ApplyUpdate(slot, message.body).changes
                      IN  /\ Ordered(changes, Better)
                          /\ Range(changes) = {Change(p, QtyAt(books[slot], p), market[slot][p]) :
                                                 p \in {p \in PricesOf[slot] : QtyAt(books[slot], p) # market[slot][p]}}
    BY Zenon DEF ChangesAreTheTransition
  <1>1. PICK q, isSnapshot, N, qty, levels : Sent(slot, q, isSnapshot, N, qty, levels)
    BY DEF WireInv, BooksInv, UpdateUnderWay
  <1> DEFINE c == ApplyUpdate(slot, message.body).changes
             P == PricesOf[slot]
             A == market[slot]
             x == books[slot]
  <1>2. /\ message.body.isSnapshot = isSnapshot
        /\ ~isSnapshot => Ordered(c, Better) /\ Range(c) = Transition(P, q, A)
    BY <1>1, UpdateApplied DEF WireInv
  <1>3. \A p \in P : QtyAt(x, p) = q[p]
    BY <1>1, Represented DEF Sent
  <1> HIDE DEF c, P, A, x
  <1>4. Transition(P, q, A) = {Change(p, QtyAt(x, p), A[p]) : p \in {p \in P : QtyAt(x, p) # A[p]}}
    BY <1>3 DEF Transition
  <1>5. /\ Ordered(c, Better)
        /\ Range(c) = {Change(p, QtyAt(x, p), A[p]) : p \in {p \in P : QtyAt(x, p) # A[p]}}
    BY <1>2, <1>4
  <1> QED
    BY <1>5, Zenon DEF c, P, A, x

\* Every step keeps the books exact: sending one, any message, and receiving it.
LEMMA BooksInvKept ==
  ASSUME WireInv, BooksInv, [Next]_vars
  PROVE  BooksInv'
  <1>1. ASSUME UNCHANGED <<side, market, message, slot, books>> PROVE BooksInv'
    <2>1. ASSUME NEW s \in Slot
          PROVE  /\ UpdateUnderWay' <=> UpdateUnderWay
                 /\ Represents(books[s], PricesOf[s], market[s])' <=> Represents(books[s], PricesOf[s], market[s])
                 /\ \A q, isSnapshot, N, qty, levels :
                      Sent(s, q, isSnapshot, N, qty, levels)' <=> Sent(s, q, isSnapshot, N, qty, levels)
      <3>1. UpdateUnderWay' <=> UpdateUnderWay
        BY <1>1 DEF UpdateUnderWay
      <3>2. Represents(books[s], PricesOf[s], market[s])' <=> Represents(books[s], PricesOf[s], market[s])
        BY <1>1 DEF Represents, Book, Ordered, StorageLess
      <3>3. ASSUME NEW q, NEW isSnapshot, NEW N, NEW qty, NEW levels
            PROVE  Sent(s, q, isSnapshot, N, qty, levels)' <=> Sent(s, q, isSnapshot, N, qty, levels)
        BY <1>1, SameSide DEF Sent, Update
      <3> QED
        BY <3>1, <3>2, <3>3
    <2>2. ASSUME NEW s \in Slot
          PROVE  (IF UpdateUnderWay /\ slot = s
                  THEN \E q, isSnapshot, N, qty, levels : Sent(s, q, isSnapshot, N, qty, levels)
                  ELSE Represents(books[s], PricesOf[s], market[s]))'
      <3>1. CASE UpdateUnderWay /\ slot = s
        <4>1. PICK q, isSnapshot, N, qty, levels : Sent(s, q, isSnapshot, N, qty, levels)
          BY <3>1 DEF BooksInv
        <4>2. Sent(s, q, isSnapshot, N, qty, levels)'
          BY <2>1, <4>1
        <4> QED
          BY <1>1, <2>1, <3>1, <4>2
      <3>2. CASE ~(UpdateUnderWay /\ slot = s)
        <4>1. Represents(books[s], PricesOf[s], market[s])
          BY <3>2 DEF BooksInv
        <4> QED
          BY <1>1, <2>1, <3>2, <4>1
      <3> QED
        BY <3>1, <3>2
    <2> QED
      BY <1>1, <2>2 DEF BooksInv
  <1>2. ASSUME NEW s \in Slot, NEW isSnapshot \in BOOLEAN, SendUpdate(s, isSnapshot)
        PROVE  BooksInv'
    <2> USE DEF SendUpdate
    <2>1. /\ message = Nothing
          /\ \E order \in Orders(s) :
               \E qty \in [Range(order) -> IF isSnapshot THEN Quantity \ {0} ELSE Quantity] :
                 LET levels == [n \in DOMAIN order |-> Level(order[n], qty[order[n]])]
                 IN  /\ Send(s, [type |-> "kBookUpdate", body |-> Update(s, isSnapshot, levels)])
                     /\ market' = [market EXCEPT ![s] = After(@, isSnapshot, qty)]
      BY <1>2
    <2>2. PICK order \in Orders(s) :
            \E qty \in [Range(order) -> IF isSnapshot THEN Quantity \ {0} ELSE Quantity] :
              LET levels == [n \in DOMAIN order |-> Level(order[n], qty[order[n]])]
              IN  /\ Send(s, [type |-> "kBookUpdate", body |-> Update(s, isSnapshot, levels)])
                  /\ market' = [market EXCEPT ![s] = After(@, isSnapshot, qty)]
      BY <2>1
    <2>3. PICK qty \in [Range(order) -> Nat] :
            LET levels == [n \in DOMAIN order |-> Level(order[n], qty[order[n]])]
            IN  /\ Send(s, [type |-> "kBookUpdate", body |-> Update(s, isSnapshot, levels)])
                /\ market' = [market EXCEPT ![s] = After(@, isSnapshot, qty)]
      <3>1. [Range(order) -> IF isSnapshot THEN Quantity \ {0} ELSE Quantity] \subseteq [Range(order) -> Nat]
        BY DepthAssumption
      <3> QED
        BY <2>2, <3>1, Zenon
    <2>16. PICK q, N, levels :
             /\ q = market[s] /\ N = Range(order)
             /\ levels = [n \in DOMAIN order |-> Level(order[n], qty[order[n]])]
      OBVIOUS
    <2>17. PICK m : m = [type |-> "kBookUpdate", body |-> Update(s, isSnapshot, levels)]
      OBVIOUS
    <2>4. /\ levels \in Seq(PriceLevel) /\ Distinct(levels) /\ Range(levels) = LevelSet(N, qty)
          /\ N \subseteq PricesOf[s] /\ qty \in Amounts(N)
      BY <2>16, SentLevels DEF Amounts
    <2>5. /\ message' = m /\ slot' = s /\ side' = side /\ books' = books
          /\ market' = [market EXCEPT ![s] = After(@, isSnapshot, qty)]
      BY <2>3, <2>16, <2>17 DEF Send, bookVars
    <2>6. \A t \in Slot : Represents(books[t], PricesOf[t], market[t]) /\ market[t] \in Amounts(PricesOf[t])
      BY <2>1 DEF BooksInv, UpdateUnderWay
    <2>7. m.type = "kBookUpdate" /\ m.body = Update(s, isSnapshot, levels) /\ m \in Messages
      BY <2>4, <2>17, UpdateIsMessage
    <2>8. Update(s, isSnapshot, levels)' = Update(s, isSnapshot, levels)
      BY <2>5 DEF Update
    <2>9. UpdateUnderWay'
      BY <2>5, <2>7, DepthAssumption DEF UpdateUnderWay
    <2>10. /\ DOMAIN market' = Slot /\ market'[s] = After(q, isSnapshot, qty)
           /\ \A t \in Slot \ {s} : market'[t] = market[t]
      BY <2>5, <2>16 DEF BooksInv
    <2>11. After(q, isSnapshot, qty) \in Amounts(PricesOf[s])
      <3>1. q \in Amounts(PricesOf[s])
        BY <2>6, <2>16
      <3> QED
        BY <2>4, <3>1 DEF After, Amounts
    <2>12. Sent(s, q, isSnapshot, N, qty, levels)'
      <3>1. Represents(books[s], PricesOf[s], q)'
        <4>1. Represents(books[s], PricesOf[s], q)
          BY <2>6, <2>16
        <4> QED
          BY <2>5, <4>1 DEF Represents, Book, Ordered, StorageLess
      <3> QED
        BY <2>4, <2>5, <2>6, <2>7, <2>8, <2>10, <2>16, <3>1 DEF Sent
    <2>13. ASSUME NEW t \in Slot \ {s} PROVE Represents(books[t], PricesOf[t], market[t])'
      BY <2>5, <2>6, <2>10, <2>13 DEF Represents, Book, Ordered, StorageLess
    <2>14. \A t \in Slot : market'[t] \in Amounts(PricesOf[t])
      BY <2>6, <2>10, <2>11
    <2>15. slot' = s /\ DOMAIN books' = Slot
      BY <2>5 DEF BooksInv
    <2> QED
      BY <2>9, <2>10, <2>12, <2>13, <2>14, <2>15 DEF BooksInv
  <1>3. ASSUME NEW s \in Slot, SendOther(s)
        PROVE  BooksInv'
    <2>1. PICK m \in OtherMessage : message' = m /\ market' = market /\ books' = books /\ side' = side
      BY <1>3 DEF SendOther, Send, bookVars
    <2>2. m.type # "kBookUpdate"
      BY DepthAssumption DEF OtherMessages
    <2>3. ~UpdateUnderWay' /\ ~UpdateUnderWay
      BY <1>3, <2>1, <2>2 DEF UpdateUnderWay, SendOther
    <2>4. ASSUME NEW t \in Slot PROVE Represents(books[t], PricesOf[t], market[t])'
      <3>1. Represents(books[t], PricesOf[t], market[t])
        BY <2>3 DEF BooksInv
      <3> QED
        BY <2>1, <3>1 DEF Represents, Book, Ordered, StorageLess
    <2> QED
      BY <2>1, <2>3, <2>4 DEF BooksInv
  <1>4. ASSUME Received PROVE message \in Messages /\ frame[1].msgType = message.type
    <2>1. frame # <<>>
      BY <1>4 DEF Received, DecodeHeader, Fits
    <2>2. message \in Messages /\ frame = Encode(message)
      BY <2>1 DEF WireInv
    <2> QED
      BY <2>2, FrameBegins
  <1>5. CASE ReceiveUpdate
    <2>1. /\ message \in Messages /\ message.type = "kBookUpdate"
          /\ message' = Nothing /\ market' = market /\ side' = side /\ slot' = slot
      BY <1>4, <1>5 DEF ReceiveUpdate, Received
    <2>2. message.body \in BookUpdate /\ frame = EncodeBookUpdate(message.body)
      <3>1. frame = Encode(message)
        BY <2>1, DepthAssumption DEF WireInv
      <3> QED
        BY <2>1, <3>1, ByType
    <2>3. PICK out \in Leftover : ProcessUpdate(slot, DecodeBookUpdate(frame, out).out)
      BY <1>5 DEF ReceiveUpdate
    <2>4. DecodeBookUpdate(frame, out) = Decoded(message.body)
      BY <2>2, UpdateReturns, DepthAssumption
    <2>5. ProcessUpdate(slot, message.body)
      BY <2>3, <2>4 DEF Decoded
    <2> DEFINE x == ApplyUpdate(slot, message.body).levels
    <2>6. books' = [books EXCEPT ![slot] = x]
      BY <2>5 DEF ProcessUpdate
    <2>7. Represents(x, PricesOf[slot], market[slot])
      <3>1. slot \in Slot /\ side \in {"bids", "asks"}
        BY DEF WireInv
      <3>2. UpdateUnderWay
        BY <2>1, DepthAssumption DEF UpdateUnderWay
      <3>3. PICK q, isSnapshot, N, qty, levels : Sent(slot, q, isSnapshot, N, qty, levels)
        BY <3>1, <3>2 DEF BooksInv
      <3> QED
        BY <3>1, <3>3, UpdateApplied
    <2> HIDE DEF x
    <2>8. ASSUME NEW t \in Slot PROVE Represents(books[t], PricesOf[t], market[t])'
      <3>1. Represents(books'[t], PricesOf[t], market[t])
        <4>1. CASE t = slot
          BY <2>6, <2>7, <4>1 DEF BooksInv
        <4>2. CASE t # slot
          BY <2>6, <4>2 DEF BooksInv
        <4> QED
          BY <4>1, <4>2
      <3> QED
        BY <2>1, <3>1 DEF Represents, Book, Ordered, StorageLess
    <2>9. ~UpdateUnderWay'
      BY <2>1 DEF UpdateUnderWay
    <2>10. DOMAIN books' = Slot
      BY <2>6 DEF BooksInv
    <2> QED
      BY <2>1, <2>8, <2>9, <2>10 DEF BooksInv
  <1>6. CASE ReceiveOther
    <2>1. message.type # "kBookUpdate" /\ message' = Nothing /\ market' = market /\ books' = books /\ side' = side
      BY <1>4, <1>6 DEF ReceiveOther, Received, bookVars
    <2>2. ~UpdateUnderWay' /\ ~UpdateUnderWay
      BY <2>1 DEF UpdateUnderWay
    <2>3. ASSUME NEW t \in Slot PROVE Represents(books[t], PricesOf[t], market[t])'
      <3>1. Represents(books[t], PricesOf[t], market[t])
        BY <2>2 DEF BooksInv
      <3> QED
        BY <2>1, <3>1 DEF Represents, Book, Ordered, StorageLess
    <2> QED
      BY <2>1, <2>2, <2>3 DEF BooksInv
  <1>7. CASE UNCHANGED vars
    BY <1>1, <1>7 DEF vars, wireVars, bookVars
  <1> QED
    BY <1>2, <1>3, <1>5, <1>6, <1>7 DEF Next

\* The books stay represented.
LEMMA BooksInvCorrect == Spec => []BooksInv
  BY BooksInvInitially, BooksInvKept, WireCorrect, PTL DEF Spec

\* The vector of every venue is its book: in storage order, each price once, nothing
\* lost and nothing left over (FlatOrderBook::ApplySide, Relocate).
THEOREM BooksCorrect == Spec => []BookIsExact
  BY BooksAreExact, BooksInvCorrect, PTL

\* The changes a delta reports are the transition of the venue's book, best price
\* first (last_bid_changes).
THEOREM ChangesCorrect == Spec => []ChangesAreTheTransition
  BY ChangesAreExact, WireCorrect, BooksInvCorrect, PTL

---------------------------------------------------------------------------
(* Sums.                                                                    *)

\* g has the sums of the first numbers.
PartialSums(g, numbers) ==
  /\ g \in [0 .. Len(numbers) -> Nat] /\ g[0] = 0
  /\ \A n \in 1 .. Len(numbers) : g[n] = g[n - 1] + numbers[n]

\* The loop of Sum has a run.
LEMMA SumIs ==
  ASSUME NEW x \in Seq(Nat)
  PROVE  \E g : PartialSums(g, x) /\ Sum(x) = g[Len(x)]
  <1> DEFINE R == Len(x)
             Runs(g) == g = [n \in 0 .. R |-> IF n = 0 THEN 0 ELSE g[n - 1] + x[n]]
             f == [s \in Nat \X Nat |-> IF s[1] \in 1 .. R THEN s[2] + x[s[1]] ELSE 0]
             w == CHOOSE g : Runs(g)
  <1>0. R \in Nat /\ \A n \in 1 .. R : x[n] \in Nat
    OBVIOUS
  <1> HIDE DEF R
  <1>1. \E g : Runs(g) /\ g \in [0 .. R -> Nat]
    <2>1. f \in [Nat \X Nat -> Nat]
      BY <1>0
    <2>2. PICK g \in [0 .. R -> Nat] : g = [n \in 0 .. R |-> IF n = 0 THEN 0 ELSE f[<<n, g[n - 1]>>]]
      <3> HIDE DEF f
      <3>1. Rounds(Nat, 0, f, R) # {}
        BY <1>0, <2>1, Loop
      <3> QED
        BY <3>1 DEF Rounds
    <2>3. ASSUME NEW n \in 0 .. R, n # 0 PROVE f[<<n, g[n - 1]>>] = g[n - 1] + x[n]
      <3>1. n - 1 \in 0 .. R /\ n \in 1 .. R /\ n \in Nat
        BY <1>0, <2>3
      <3>2. <<n, g[n - 1]>> \in Nat \X Nat
        BY <2>2, <3>1
      <3> QED
        BY <3>1, <3>2
    <2>4. Runs(g)
      <3> HIDE DEF f
      <3> QED
        BY <2>2, <2>3
    <2> QED
      BY <2>4
  <1>2. Runs(w)
    <2> HIDE DEF Runs
    <2> QED
      BY <1>1, Zenon
  <1>3. Sum(x) = w[R]
    BY Zenon DEF Sum, R
  <1>4. w[0] = 0 /\ \A n \in 1 .. R : w[n] = w[n - 1] + x[n]
    <2> HIDE DEF w
    <2> QED
      BY <1>0, <1>2
  <1>5. PICK g \in [0 .. R -> Nat] : g = [n \in 0 .. R |-> IF n = 0 THEN 0 ELSE g[n - 1] + x[n]]
    BY <1>1
  <1>6. g[0] = 0 /\ \A n \in 1 .. R : g[n] = g[n - 1] + x[n]
    BY <1>0, <1>5
  <1> DEFINE T == {n \in 0 .. R : w[n] = g[n]}
  <1> HIDE DEF w
  <1>7. 0 \in T
    BY <1>0, <1>4, <1>6
  <1>8. ASSUME NEW n \in 0 .. R - 1, n \in T PROVE n + 1 \in T
    <2>1. n + 1 \in 1 .. R /\ (n + 1) - 1 = n
      BY <1>0
    <2>2. w[n + 1] = w[n] + x[n + 1] /\ g[n + 1] = g[n] + x[n + 1] /\ w[n] = g[n]
      BY <1>4, <1>6, <1>8, <2>1
    <2> QED
      BY <2>1, <2>2
  <1>9. \A n \in 0 .. R : n \in T
    <2> HIDE DEF T
    <2> QED
      BY <1>0, <1>7, <1>8, Induct
  <1>10. w[R] = g[R]
    BY <1>0, <1>9
  <1>11. PartialSums(g, x)
    BY <1>5, <1>6 DEF PartialSums, R
  <1> QED
    BY <1>3, <1>10, <1>11 DEF R

\* There are no other partial sums.
LEMMA SumOf ==
  ASSUME NEW x \in Seq(Nat), NEW h, PartialSums(h, x)
  PROVE  Sum(x) = h[Len(x)]
  <1>1. PICK g : PartialSums(g, x) /\ Sum(x) = g[Len(x)]
    BY SumIs
  <1>0. Len(x) \in Nat
    OBVIOUS
  <1>2. \A n \in 1 .. Len(x) : g[n] = g[n - 1] + x[n] /\ h[n] = h[n - 1] + x[n]
    BY <1>1 DEF PartialSums
  <1> DEFINE T == {n \in 0 .. Len(x) : h[n] = g[n]}
  <1>3. 0 \in T
    BY <1>0, <1>1 DEF PartialSums
  <1>4. ASSUME NEW n \in 0 .. Len(x) - 1, n \in T PROVE n + 1 \in T
    <2>1. n + 1 \in 1 .. Len(x) /\ (n + 1) - 1 = n /\ h[n] = g[n]
      BY <1>0, <1>4
    <2>2. g[n + 1] = g[n] + x[n + 1] /\ h[n + 1] = h[n] + x[n + 1]
      BY <1>2, <2>1
    <2> QED
      BY <2>1, <2>2
  <1>5. \A n \in 0 .. Len(x) : n \in T
    <2> HIDE DEF T
    <2> QED
      BY <1>0, <1>3, <1>4, Induct
  <1> QED
    BY <1>0, <1>1, <1>5

\* A sum is a number.
LEMMA SumNat ==
  ASSUME NEW x \in Seq(Nat)
  PROVE  Sum(x) \in Nat
  <1>1. PICK g : PartialSums(g, x) /\ Sum(x) = g[Len(x)]
    BY SumIs
  <1> QED
    BY <1>1 DEF PartialSums

\* A sum is smaller when no summand is larger and one is smaller.
LEMMA SumSmaller ==
  ASSUME NEW x \in Seq(Nat), NEW y \in Seq(Nat), Len(x) = Len(y),
         \A n \in 1 .. Len(x) : x[n] <= y[n],
         NEW k \in 1 .. Len(x), x[k] < y[k]
  PROVE  Sum(x) < Sum(y)
  <1>1. PICK g : PartialSums(g, x) /\ Sum(x) = g[Len(x)]
    BY SumIs
  <1>2. PICK h : PartialSums(h, y) /\ Sum(y) = h[Len(y)]
    BY SumIs
  <1> DEFINE N == Len(x)
             T == {n \in 0 .. N : g[n] <= h[n] /\ (k <= n => g[n] < h[n])}
  <1>0. N \in Nat /\ \A n \in 1 .. N : x[n] \in Nat /\ y[n] \in Nat /\ x[n] <= y[n]
    BY SMTT(30)
  <1>3. /\ g[0] = 0 /\ h[0] = 0 /\ \A n \in 0 .. N : g[n] \in Nat /\ h[n] \in Nat
        /\ \A n \in 1 .. N : g[n] = g[n - 1] + x[n] /\ h[n] = h[n - 1] + y[n]
    BY <1>1, <1>2 DEF PartialSums
  <1> HIDE DEF N
  <1>4. 0 \in T
    BY <1>0, <1>3
  <1>5. ASSUME NEW n \in 0 .. N - 1, n \in T PROVE n + 1 \in T
    <2>1. n + 1 \in 1 .. N /\ n + 1 \in 0 .. N /\ (n + 1) - 1 = n /\ n \in 0 .. N
      BY <1>0
    <2>2. g[n + 1] = g[n] + x[n + 1] /\ h[n + 1] = h[n] + y[n + 1]
      BY <1>3, <2>1
    <2>3. g[n] <= h[n] /\ (k <= n => g[n] < h[n])
      BY <1>5
    <2>4. g[n] \in Nat /\ h[n] \in Nat /\ x[n + 1] \in Nat /\ y[n + 1] \in Nat /\ x[n + 1] <= y[n + 1]
      BY <1>0, <1>3, <2>1
    <2>5. PICK a, b, c, d : a = g[n] /\ b = h[n] /\ c = x[n + 1] /\ d = y[n + 1]
      OBVIOUS
    <2>6. a \in Nat /\ b \in Nat /\ c \in Nat /\ d \in Nat /\ a <= b /\ c <= d
      BY <2>3, <2>4, <2>5
    <2>7. g[n + 1] = a + c /\ h[n + 1] = b + d
      BY <2>2, <2>5
    <2>8. a + c <= b + d
      BY <2>6
    <2>9. ASSUME k <= n + 1 PROVE a + c < b + d
      <3>1. CASE k = n + 1
        <4>1. c < d
          BY <2>5, <3>1
        <4> QED
          BY <2>6, <4>1
      <3>2. CASE k # n + 1
        <4>1. k <= n
          BY <1>0, <2>9, <3>2 DEF N
        <4>2. a < b
          BY <2>3, <2>5, <4>1
        <4> QED
          BY <2>6, <4>2
      <3> QED
        BY <3>1, <3>2
    <2> QED
      BY <2>1, <2>7, <2>8, <2>9
  <1>6. \A n \in 0 .. N : n \in T
    <2> HIDE DEF T
    <2> QED
      BY <1>0, <1>4, <1>5, Induct
  <1> QED
    BY <1>0, <1>1, <1>2, <1>6 DEF N

\* y is x with c put in at k.
Inserted(x, y, k, c) ==
  /\ Len(y) = Len(x) + 1 /\ k \in 1 .. Len(y)
  /\ \A n \in 1 .. Len(y) : y[n] = IF n < k THEN x[n] ELSE IF n = k THEN c ELSE x[n - 1]

\* A summand put in anywhere is added once.
LEMMA SumInserted ==
  ASSUME NEW x \in Seq(Nat), NEW y \in Seq(Nat), NEW k, NEW c \in Nat, Inserted(x, y, k, c)
  PROVE  Sum(y) = Sum(x) + c
  <1>1. PICK g : PartialSums(g, x) /\ Sum(x) = g[Len(x)]
    BY SumIs
  <1> DEFINE N == Len(x)
             h == [n \in 0 .. N + 1 |-> IF n < k THEN g[n] ELSE g[n - 1] + c]
  <1>0. N \in Nat /\ Len(y) = N + 1 /\ k \in 1 .. N + 1
    BY DEF Inserted
  <1>2. /\ g[0] = 0 /\ \A n \in 0 .. N : g[n] \in Nat
        /\ \A n \in 1 .. N : g[n] = g[n - 1] + x[n] /\ x[n] \in Nat
    <2>1. \A n \in 1 .. N : x[n] \in Nat
      OBVIOUS
    <2> QED
      BY <1>1, <2>1 DEF PartialSums
  <1>3. \A n \in 1 .. N + 1 : y[n] = IF n < k THEN x[n] ELSE IF n = k THEN c ELSE x[n - 1]
    BY <1>0 DEF Inserted
  <1> HIDE DEF N
  <1>4. ASSUME NEW n \in 1 .. N + 1 PROVE h[n] = h[n - 1] + y[n]
    <2>0. n - 1 \in 0 .. N + 1 /\ n \in 0 .. N + 1
      BY <1>0
    <2>1. CASE n < k
      <3>1. n \in 1 .. N /\ n - 1 < k
        BY <1>0, <2>1
      <3>2. h[n] = g[n] /\ h[n - 1] = g[n - 1] /\ y[n] = x[n]
        BY <1>3, <2>0, <2>1, <3>1
      <3> QED
        BY <1>2, <3>1, <3>2
    <2>2. CASE n = k
      <3>1. n - 1 < k /\ ~(n < k)
        BY <1>0, <2>2
      <3>2. h[n] = g[n - 1] + c /\ h[n - 1] = g[n - 1] /\ y[n] = c
        BY <1>3, <2>0, <2>2, <3>1
      <3> QED
        BY <3>2
    <2>3. CASE n > k
      <3>1. ~(n < k) /\ n # k /\ ~(n - 1 < k) /\ n - 1 \in 1 .. N
        BY <1>0, <2>3
      <3>2. h[n] = g[n - 1] + c /\ h[n - 1] = g[(n - 1) - 1] + c /\ y[n] = x[n - 1]
        BY <1>3, <2>0, <3>1
      <3>3. g[n - 1] = g[(n - 1) - 1] + x[n - 1] /\ x[n - 1] \in Nat /\ (n - 1) - 1 \in 0 .. N
        BY <1>0, <1>2, <3>1
      <3>4. g[(n - 1) - 1] \in Nat
        BY <1>2, <3>3
      <3> QED
        BY <3>2, <3>3, <3>4
    <2> QED
      BY <1>0, <2>1, <2>2, <2>3
  <1>5. h \in [0 .. N + 1 -> Nat] /\ h[0] = 0
    <2>1. ASSUME NEW n \in 0 .. N + 1 PROVE h[n] \in Nat
      <3>1. n < k => n \in 0 .. N
        BY <1>0
      <3>2. ~(n < k) => n - 1 \in 0 .. N
        BY <1>0
      <3> QED
        BY <1>2, <3>1, <3>2
    <2>2. 0 < k /\ 0 \in 0 .. N + 1
      BY <1>0
    <2> QED
      BY <1>2, <2>1, <2>2
  <1>6. h[N + 1] = g[N] + c
    <2>1. CASE k = N + 1
      BY <1>0, <2>1
    <2>2. CASE k # N + 1
      BY <1>0, <2>2
    <2> QED
      BY <2>1, <2>2
  <1> HIDE DEF h
  <1>7. PartialSums(h, y)
    BY <1>0, <1>4, <1>5 DEF PartialSums
  <1>8. Sum(y) = h[N + 1]
    BY <1>0, <1>7, SumOf
  <1> QED
    BY <1>1, <1>6, <1>8 DEF N

---------------------------------------------------------------------------
(* Vectors that something is put into or taken out of.                      *)

\* InsertAt puts an entry in (vector::insert).
LEMMA InsertAtIs ==
  ASSUME NEW S, NEW x \in Seq(S), NEW k \in 1 .. Len(x) + 1, NEW c \in S
  PROVE  InsertAt(x, k, c) \in Seq(S) /\ Inserted(x, InsertAt(x, k, c), k, c)
  <1> DEFINE a == SubSeq(x, 1, k - 1)
             b == SubSeq(x, k, Len(x))
             N == Len(x)
  <1>0. N \in Nat /\ k \in 1 .. N + 1 /\ \A n \in 1 .. N : x[n] \in S
    OBVIOUS
  <1>1. a \in Seq(S) /\ Len(a) = k - 1 /\ \A n \in 1 .. k - 1 : a[n] = x[n]
    <2>1. \A n \in 1 .. k - 1 : x[n] \in S
      BY <1>0
    <2>2. 1 \in Int /\ k - 1 \in Int
      BY <1>0
    <2>3. a \in Seq(S) /\ Len(a) = (IF 1 <= k - 1 THEN (k - 1) - 1 + 1 ELSE 0) /\ \A n \in 1 .. (k - 1) - 1 + 1 : a[n] = x[1 + n - 1]
      BY <2>1, <2>2, SubSeqProperties
    <2> HIDE DEF a
    <2> QED
      BY <1>0, <2>3
  <1>2. b \in Seq(S) /\ Len(b) = N + 1 - k /\ \A n \in 1 .. N + 1 - k : b[n] = x[k + n - 1]
    <2>1. \A n \in k .. N : x[n] \in S
      BY <1>0
    <2>2. k \in Int /\ N \in Int
      BY <1>0
    <2>3. b \in Seq(S) /\ Len(b) = (IF k <= N THEN N - k + 1 ELSE 0) /\ \A n \in 1 .. N - k + 1 : b[n] = x[k + n - 1]
      BY <2>1, <2>2, SubSeqProperties
    <2> HIDE DEF b, N
    <2> QED
      BY <1>0, <2>3
  <1>3. InsertAt(x, k, c) = a \o <<c>> \o b
    BY DEF InsertAt
  <1> HIDE DEF a, b, N
  <1>4. <<c>> \in Seq(S) /\ Len(<<c>>) = 1 /\ <<c>>[1] = c
    OBVIOUS
  <1> DEFINE d == a \o <<c>>
  <1>5. d \in Seq(S) /\ Len(d) = k /\ \A n \in 1 .. k : d[n] = IF n <= k - 1 THEN x[n] ELSE c
    <2>1. /\ d \in Seq(S) /\ Len(d) = (k - 1) + 1
          /\ \A n \in 1 .. (k - 1) + 1 : d[n] = IF n <= k - 1 THEN a[n] ELSE <<c>>[n - (k - 1)]
      BY <1>1, <1>4, ConcatProperties
    <2> HIDE DEF d
    <2>2. ASSUME NEW n \in 1 .. k PROVE d[n] = IF n <= k - 1 THEN x[n] ELSE c
      <3>1. CASE n <= k - 1
        BY <1>0, <1>1, <2>1, <3>1
      <3>2. CASE n = k
        <4>1. n - (k - 1) = 1 /\ ~(n <= k - 1) /\ n \in 1 .. (k - 1) + 1
          BY <1>0, <3>2
        <4> QED
          BY <1>4, <2>1, <4>1
      <3> QED
        BY <1>0, <3>1, <3>2
    <2> QED
      BY <1>0, <2>1, <2>2
  <1> DEFINE y == d \o b
  <1>6. y \in Seq(S) /\ Len(y) = N + 1 /\ \A n \in 1 .. N + 1 : y[n] = IF n < k THEN x[n] ELSE IF n = k THEN c ELSE x[n - 1]
    <2>1. /\ y \in Seq(S) /\ Len(y) = k + (N + 1 - k)
          /\ \A n \in 1 .. k + (N + 1 - k) : y[n] = IF n <= k THEN d[n] ELSE b[n - k]
      <3> HIDE DEF d
      <3>1. d \in Seq(S) /\ b \in Seq(S)
        BY <1>2, <1>5
      <3>2. /\ y \in Seq(S) /\ Len(y) = Len(d) + Len(b)
            /\ \A n \in 1 .. Len(d) + Len(b) : y[n] = IF n <= Len(d) THEN d[n] ELSE b[n - Len(d)]
        BY <3>1, ConcatProperties, Zenon
      <3> HIDE DEF y
      <3> QED
        BY <1>2, <1>5, <3>2
    <2> HIDE DEF y, d
    <2>2. k + (N + 1 - k) = N + 1
      BY <1>0
    <2>3. ASSUME NEW n \in 1 .. N + 1 PROVE y[n] = IF n < k THEN x[n] ELSE IF n = k THEN c ELSE x[n - 1]
      <3>0. y[n] = IF n <= k THEN d[n] ELSE b[n - k]
        BY <2>1, <2>2
      <3>1. CASE n < k
        <4>1. n <= k /\ n <= k - 1 /\ n \in 1 .. k
          BY <1>0, <3>1
        <4> QED
          BY <1>5, <3>0, <3>1, <4>1
      <3>2. CASE n = k
        <4>1. n <= k /\ ~(n <= k - 1) /\ n \in 1 .. k /\ ~(n < k)
          BY <1>0, <3>2
        <4> QED
          BY <1>5, <3>0, <3>2, <4>1
      <3>3. CASE n > k
        <4>1. ~(n <= k) /\ n - k \in 1 .. N + 1 - k /\ k + (n - k) - 1 = n - 1 /\ ~(n < k) /\ n # k
          BY <1>0, <3>3
        <4> QED
          BY <1>2, <3>0, <4>1
      <3> QED
        BY <1>0, <3>1, <3>2, <3>3
    <2> QED
      BY <2>1, <2>2, <2>3
  <1> HIDE DEF y
  <1>7. InsertAt(x, k, c) = y
    BY <1>3 DEF y
  <1> QED
    BY <1>0, <1>6, <1>7 DEF Inserted, N

\* RemoveAt takes an entry out (vector::erase).
LEMMA RemoveAtIs ==
  ASSUME NEW S, NEW x \in Seq(S), NEW k \in 1 .. Len(x)
  PROVE  RemoveAt(x, k) \in Seq(S) /\ Inserted(RemoveAt(x, k), x, k, x[k])
  <1> DEFINE a == SubSeq(x, 1, k - 1)
             b == SubSeq(x, k + 1, Len(x))
             N == Len(x)
             y == a \o b
  <1>0. N \in Nat /\ k \in 1 .. N /\ \A n \in 1 .. N : x[n] \in S
    OBVIOUS
  <1>1. a \in Seq(S) /\ Len(a) = k - 1 /\ \A n \in 1 .. k - 1 : a[n] = x[n]
    <2>1. \A n \in 1 .. k - 1 : x[n] \in S
      BY <1>0
    <2>2. 1 \in Int /\ k - 1 \in Int
      BY <1>0
    <2>3. a \in Seq(S) /\ Len(a) = (IF 1 <= k - 1 THEN (k - 1) - 1 + 1 ELSE 0) /\ \A n \in 1 .. (k - 1) - 1 + 1 : a[n] = x[1 + n - 1]
      BY <2>1, <2>2, SubSeqProperties
    <2> HIDE DEF a
    <2> QED
      BY <1>0, <2>3
  <1>2. b \in Seq(S) /\ Len(b) = N - k /\ \A n \in 1 .. N - k : b[n] = x[k + n]
    <2>1. \A n \in k + 1 .. N : x[n] \in S
      BY <1>0
    <2>2. k + 1 \in Int /\ N \in Int
      BY <1>0
    <2>3. b \in Seq(S) /\ Len(b) = (IF k + 1 <= N THEN N - (k + 1) + 1 ELSE 0) /\ \A n \in 1 .. N - (k + 1) + 1 : b[n] = x[k + 1 + n - 1]
      BY <2>1, <2>2, SubSeqProperties
    <2> HIDE DEF b, N
    <2>4. N - (k + 1) + 1 = N - k /\ \A n \in 1 .. N - k : k + 1 + n - 1 = k + n
      BY <1>0
    <2>5. Len(b) = N - k
      BY <1>0, <2>3
    <2> QED
      BY <2>3, <2>4, <2>5
  <1>3. RemoveAt(x, k) = y
    BY DEF RemoveAt
  <1> HIDE DEF a, b, N
  <1>4. /\ y \in Seq(S) /\ Len(y) = (k - 1) + (N - k)
        /\ \A n \in 1 .. (k - 1) + (N - k) : y[n] = IF n <= k - 1 THEN a[n] ELSE b[n - (k - 1)]
    <2>1. /\ y \in Seq(S) /\ Len(y) = Len(a) + Len(b)
          /\ \A n \in 1 .. Len(a) + Len(b) : y[n] = IF n <= Len(a) THEN a[n] ELSE b[n - Len(a)]
      BY <1>1, <1>2, ConcatProperties, Zenon
    <2> HIDE DEF y
    <2> QED
      BY <1>1, <1>2, <2>1
  <1> HIDE DEF y
  <1>5. (k - 1) + (N - k) = N - 1 /\ N = (N - 1) + 1
    BY <1>0
  <1>6. ASSUME NEW n \in 1 .. N
        PROVE  x[n] = IF n < k THEN y[n] ELSE IF n = k THEN x[k] ELSE y[n - 1]
    <2>1. CASE n < k
      <3>1. n <= k - 1 /\ n \in 1 .. N - 1 /\ n \in 1 .. k - 1
        BY <1>0, <2>1
      <3> QED
        BY <1>1, <1>4, <1>5, <2>1, <3>1
    <2>2. CASE n = k
      BY <1>0, <2>2
    <2>3. CASE n > k
      <3>1. ~(n - 1 <= k - 1) /\ n - 1 \in 1 .. N - 1 /\ (n - 1) - (k - 1) \in 1 .. N - k /\ k + ((n - 1) - (k - 1)) = n /\ ~(n < k) /\ n # k
        BY <1>0, <2>3
      <3> QED
        BY <1>2, <1>4, <1>5, <3>1
    <2> QED
      BY <1>0, <2>1, <2>2, <2>3
  <1>7. Len(y) + 1 = N
    BY <1>4, <1>5
  <1> QED
    BY <1>0, <1>3, <1>4, <1>6, <1>7 DEF Inserted, N

\* The places of what was there before.
LEMMA InsertedAt ==
  ASSUME NEW S, NEW x \in Seq(S), NEW y, NEW k, NEW c, Inserted(x, y, k, c)
  PROVE  /\ k \in 1 .. Len(x) + 1 /\ y[k] = c /\ Len(y) = Len(x) + 1
         /\ \A n \in 1 .. Len(x) : n < k => y[n] = x[n]
         /\ \A n \in 1 .. Len(x) : n >= k => y[n + 1] = x[n]
  <1>0. Len(x) \in Nat
    OBVIOUS
  <1>1. /\ Len(y) = Len(x) + 1 /\ k \in 1 .. Len(x) + 1
        /\ \A n \in 1 .. Len(x) + 1 : y[n] = IF n < k THEN x[n] ELSE IF n = k THEN c ELSE x[n - 1]
    BY DEF Inserted
  <1>2. ASSUME NEW n \in 1 .. Len(x), n < k PROVE y[n] = x[n]
    BY <1>0, <1>1, <1>2
  <1>3. ASSUME NEW n \in 1 .. Len(x), n >= k PROVE y[n + 1] = x[n]
    <2>1. n + 1 \in 1 .. Len(x) + 1 /\ ~(n + 1 < k) /\ n + 1 # k /\ (n + 1) - 1 = n
      BY <1>0, <1>1, <1>3
    <2> QED
      BY <1>1, <2>1
  <1>4. y[k] = c
    <2>1. ~(k < k)
      BY <1>0, <1>1
    <2> QED
      BY <1>1, <2>1
  <1> QED
    BY <1>1, <1>2, <1>3, <1>4

\* The entries, with one put in.
LEMMA RangeInserted ==
  ASSUME NEW S, NEW x \in Seq(S), NEW y \in Seq(S), NEW k, NEW c, Inserted(x, y, k, c)
  PROVE  Range(y) = Range(x) \cup {c}
  <1>0. Len(x) \in Nat /\ DOMAIN x = 1 .. Len(x) /\ DOMAIN y = 1 .. Len(y)
    OBVIOUS
  <1>1. /\ Len(y) = Len(x) + 1 /\ k \in 1 .. Len(x) + 1
        /\ \A n \in 1 .. Len(x) + 1 : y[n] = IF n < k THEN x[n] ELSE IF n = k THEN c ELSE x[n - 1]
    BY DEF Inserted
  <1>2. ASSUME NEW n \in 1 .. Len(y) PROVE y[n] \in Range(x) \cup {c}
    <2>1. CASE n < k
      <3>1. n \in 1 .. Len(x) /\ y[n] = x[n]
        BY <1>0, <1>1, <2>1
      <3> QED
        BY <1>0, <3>1 DEF Range
    <2>2. CASE n = k
      BY <1>1, <2>2, InsertedAt
    <2>3. CASE n > k
      <3>1. n - 1 \in 1 .. Len(x) /\ ~(n < k) /\ n # k /\ n \in 1 .. Len(x) + 1
        BY <1>0, <1>1, <2>3
      <3>2. y[n] = x[n - 1]
        BY <1>1, <3>1
      <3> QED
        BY <1>0, <3>1, <3>2 DEF Range
    <2> QED
      BY <1>0, <1>1, <2>1, <2>2, <2>3
  <1>3. ASSUME NEW n \in 1 .. Len(x) PROVE x[n] \in Range(y)
    <2>1. CASE n < k
      <3>1. y[n] = x[n] /\ n \in 1 .. Len(y)
        BY <1>0, <1>1, <2>1, InsertedAt
      <3> QED
        BY <1>0, <3>1 DEF Range
    <2>2. CASE n >= k
      <3>1. y[n + 1] = x[n] /\ n + 1 \in 1 .. Len(y)
        BY <1>0, <1>1, <2>2, InsertedAt
      <3> QED
        BY <1>0, <3>1 DEF Range
    <2> QED
      BY <1>0, <1>1, <2>1, <2>2
  <1>4. c \in Range(y)
    <2>1. y[k] = c /\ k \in 1 .. Len(y)
      BY <1>1, InsertedAt
    <2> QED
      BY <1>0, <2>1 DEF Range
  <1>5. Range(y) \subseteq Range(x) \cup {c}
    BY <1>0, <1>2 DEF Range
  <1>6. Range(x) \subseteq Range(y)
    BY <1>0, <1>3 DEF Range
  <1> QED
    BY <1>4, <1>5, <1>6

\* Every entry stands in the relation R to those behind it.
Rises(x, R) == \A k, l \in 1 .. Len(x) : k < l => <<x[k], x[l]>> \in R

\* Putting an entry in at its place keeps the order.
LEMMA RisesPutIn ==
  ASSUME NEW S, NEW x \in Seq(S), NEW y, NEW k, NEW c, Inserted(x, y, k, c), NEW R, Rises(x, R),
         \A n \in 1 .. Len(x) : (n < k => <<x[n], c>> \in R) /\ (n >= k => <<c, x[n]>> \in R)
  PROVE  Rises(y, R)
  <1>0. Len(x) \in Nat
    OBVIOUS
  <1>1. /\ Len(y) = Len(x) + 1 /\ k \in 1 .. Len(x) + 1
        /\ \A n \in 1 .. Len(x) + 1 : y[n] = IF n < k THEN x[n] ELSE IF n = k THEN c ELSE x[n - 1]
    BY DEF Inserted
  <1> SUFFICES ASSUME NEW m \in 1 .. Len(x) + 1, NEW n \in 1 .. Len(x) + 1, m < n
               PROVE  <<y[m], y[n]>> \in R
    BY <1>1 DEF Rises
  <1>2. y[m] = (IF m < k THEN x[m] ELSE IF m = k THEN c ELSE x[m - 1])
        /\ y[n] = (IF n < k THEN x[n] ELSE IF n = k THEN c ELSE x[n - 1])
    BY <1>1
  <1>3. CASE n < k
    <2>1. m < k /\ m \in 1 .. Len(x) /\ n \in 1 .. Len(x)
      BY <1>0, <1>1, <1>3
    <2> QED
      BY <1>2, <1>3, <2>1 DEF Rises
  <1>4. CASE n = k
    <2>1. m < k /\ m \in 1 .. Len(x) /\ ~(n < k)
      BY <1>0, <1>1, <1>4
    <2> QED
      BY <1>2, <1>4, <2>1
  <1>5. CASE n > k
    <2>1. ~(n < k) /\ n # k /\ n - 1 \in 1 .. Len(x) /\ n - 1 >= k
      BY <1>0, <1>1, <1>5
    <2>2. CASE m < k
      <3>1. m \in 1 .. Len(x) /\ m < n - 1
        BY <1>0, <1>1, <2>1, <2>2
      <3> QED
        BY <1>2, <2>1, <2>2, <3>1 DEF Rises
    <2>3. CASE m = k
      <3>1. ~(m < k)
        BY <1>0, <1>1, <2>3
      <3> QED
        BY <1>2, <2>1, <2>3, <3>1
    <2>4. CASE m > k
      <3>1. ~(m < k) /\ m # k /\ m - 1 \in 1 .. Len(x) /\ m - 1 < n - 1
        BY <1>0, <1>1, <2>4
      <3> QED
        BY <1>2, <2>1, <3>1 DEF Rises
    <2> QED
      BY <1>0, <1>1, <2>2, <2>3, <2>4
  <1> QED
    BY <1>0, <1>1, <1>3, <1>4, <1>5

\* Taking an entry out keeps the order, and that was its place.
LEMMA RisesTakenOut ==
  ASSUME NEW S, NEW x \in Seq(S), NEW y, NEW k, NEW c, Inserted(x, y, k, c), NEW R, Rises(y, R)
  PROVE  /\ Rises(x, R)
         /\ \A n \in 1 .. Len(x) : (n < k => <<x[n], c>> \in R) /\ (n >= k => <<c, x[n]>> \in R)
  <1>0. Len(x) \in Nat
    OBVIOUS
  <1>1. /\ k \in 1 .. Len(x) + 1 /\ y[k] = c /\ Len(y) = Len(x) + 1
        /\ \A n \in 1 .. Len(x) : n < k => y[n] = x[n]
        /\ \A n \in 1 .. Len(x) : n >= k => y[n + 1] = x[n]
    BY InsertedAt
  <1>2. ASSUME NEW n \in 1 .. Len(x)
        PROVE  (n < k => <<x[n], c>> \in R) /\ (n >= k => <<c, x[n]>> \in R)
    <2>1. CASE n < k
      <3>1. n \in 1 .. Len(y) /\ k \in 1 .. Len(y) /\ ~(n >= k)
        BY <1>0, <1>1, <2>1
      <3> QED
        BY <1>1, <2>1, <3>1 DEF Rises
    <2>2. CASE n >= k
      <3>1. n + 1 \in 1 .. Len(y) /\ k \in 1 .. Len(y) /\ k < n + 1 /\ ~(n < k)
        BY <1>0, <1>1, <2>2
      <3> QED
        BY <1>1, <2>2, <3>1 DEF Rises
    <2> QED
      BY <1>0, <1>1, <2>1, <2>2
  <1>3. ASSUME NEW m \in 1 .. Len(x), NEW n \in 1 .. Len(x), m < n PROVE <<x[m], x[n]>> \in R
    <2>1. CASE n < k
      <3>1. m < k /\ n \in 1 .. Len(y) /\ m \in 1 .. Len(y)
        BY <1>0, <1>1, <1>3, <2>1
      <3> QED
        BY <1>1, <1>3, <2>1, <3>1 DEF Rises
    <2>2. CASE n >= k /\ m < k
      <3>1. n + 1 \in 1 .. Len(y) /\ m \in 1 .. Len(y) /\ m < n + 1
        BY <1>0, <1>1, <1>3
      <3> QED
        BY <1>1, <2>2, <3>1 DEF Rises
    <2>3. CASE n >= k /\ m >= k
      <3>1. n + 1 \in 1 .. Len(y) /\ m + 1 \in 1 .. Len(y) /\ m + 1 < n + 1
        BY <1>0, <1>1, <1>3
      <3> QED
        BY <1>1, <2>3, <3>1 DEF Rises
    <2> QED
      BY <1>0, <1>1, <2>1, <2>2, <2>3
  <1> QED
    BY <1>2, <1>3 DEF Rises

---------------------------------------------------------------------------
(* The venues of a merged level.                                            *)

\* A VenueContribution, and the order of the slots.
Share == [slot : Slot, qty : Nat]

\* The shares in the order of their slots.
BySlot == {e \in Share \X Share : e[1].slot < e[2].slot}

\* A slot is a number.
LEMMA Slots == \A s \in Slot : s \in Nat
  BY DEF Slot

\* A share and its fields.
LEMMA ShareFields ==
  ASSUME NEW s, NEW q
  PROVE  /\ Contribution(s, q).slot = s /\ Contribution(s, q).qty = q
         /\ s \in Slot /\ q \in Nat => Contribution(s, q) \in Share
  BY DEF Contribution, Share

\* What that order says of two shares.
LEMMA BySlotIs ==
  ASSUME NEW v \in Share, NEW w \in Share
  PROVE  <<v, w>> \in BySlot <=> v.slot < w.slot
  BY DEF BySlot

\* The total of a level is a number.
LEMMA TotalNat ==
  ASSUME NEW v \in Seq(Share)
  PROVE  [n \in DOMAIN v |-> v[n].qty] \in Seq(Nat) /\ Total(v) \in Nat
  <1>1. ASSUME NEW n \in 1 .. Len(v) PROVE v[n].qty \in Nat
    <2>1. v[n] \in Share
      OBVIOUS
    <2> QED
      BY <2>1 DEF Share
  <1>2. DOMAIN v = 1 .. Len(v) /\ Len(v) \in Nat
    OBVIOUS
  <1>3. [n \in 1 .. Len(v) |-> v[n].qty] \in Seq(Nat)
    BY <1>1, <1>2, IsASeq
  <1> QED
    BY <1>2, <1>3, SumNat DEF Total

\* A share put in anywhere is added to the total once.
LEMMA TotalInserted ==
  ASSUME NEW x \in Seq(Share), NEW y \in Seq(Share), NEW k, NEW c \in Share, Inserted(x, y, k, c)
  PROVE  Total(y) = Total(x) + c.qty
  <1> DEFINE a == [n \in DOMAIN x |-> x[n].qty]
             b == [n \in DOMAIN y |-> y[n].qty]
  <1>1. a \in Seq(Nat) /\ b \in Seq(Nat) /\ c.qty \in Nat
    BY TotalNat DEF Share
  <1>2. DOMAIN x = 1 .. Len(x) /\ Len(x) \in Nat /\ DOMAIN y = 1 .. Len(y) /\ Len(y) \in Nat
    OBVIOUS
  <1>3. Len(a) = Len(x) /\ Len(b) = Len(y)
    BY <1>1, <1>2
  <1>4. /\ \A n \in 1 .. Len(x) : a[n] = x[n].qty
        /\ \A n \in 1 .. Len(y) : b[n] = y[n].qty
    BY <1>2
  <1>5. Total(x) = Sum(a) /\ Total(y) = Sum(b)
    BY DEF Total
  <1> HIDE DEF a, b
  <1>6. /\ Len(y) = Len(x) + 1 /\ k \in 1 .. Len(y)
        /\ \A n \in 1 .. Len(y) : y[n] = IF n < k THEN x[n] ELSE IF n = k THEN c ELSE x[n - 1]
    BY DEF Inserted
  <1>7. ASSUME NEW n \in 1 .. Len(b) PROVE b[n] = IF n < k THEN a[n] ELSE IF n = k THEN c.qty ELSE a[n - 1]
    <2>1. b[n] = y[n].qty /\ n \in 1 .. Len(y)
      BY <1>3, <1>4
    <2>2. CASE n < k
      <3>1. n \in 1 .. Len(x)
        BY <1>2, <1>6, <2>1, <2>2
      <3> QED
        BY <1>4, <1>6, <2>1, <2>2, <3>1
    <2>3. CASE n = k
      <3>1. ~(n < k)
        BY <1>2, <1>6, <2>3
      <3> QED
        BY <1>6, <2>1, <2>3, <3>1
    <2>4. CASE n > k
      <3>1. n - 1 \in 1 .. Len(x) /\ ~(n < k) /\ n # k
        BY <1>2, <1>6, <2>1, <2>4
      <3> QED
        BY <1>4, <1>6, <2>1, <3>1
    <2> QED
      BY <1>2, <1>6, <2>1, <2>2, <2>3, <2>4
  <1>8. Inserted(a, b, k, c.qty)
    BY <1>3, <1>6, <1>7 DEF Inserted
  <1> QED
    BY <1>1, <1>5, <1>8, SumInserted

\* What each venue has at a price, given in h, as a level lists it.
Shares(h) == {Contribution(s, h[s]) : s \in {s \in Slot : h[s] # 0}}

\* The venues v are those of h, by slot.
Lists(v, h) == v \in Seq(Share) /\ Rises(v, BySlot) /\ Range(v) = Shares(h)

\* The share of a venue is what it has, unless that is nothing.
LEMMA SharesIs ==
  ASSUME NEW h \in [Slot -> Nat], NEW c
  PROVE  c \in Shares(h) <=> c \in Share /\ h[c.slot] = c.qty /\ c.qty # 0
  <1>1. ASSUME c \in Shares(h) PROVE c \in Share /\ h[c.slot] = c.qty /\ c.qty # 0
    <2>1. PICK s \in Slot : h[s] # 0 /\ c = Contribution(s, h[s])
      BY <1>1 DEF Shares
    <2>2. h[s] \in Nat
      OBVIOUS
    <2> QED
      BY <2>1, <2>2, ShareFields
  <1>2. ASSUME c \in Share, h[c.slot] = c.qty, c.qty # 0 PROVE c \in Shares(h)
    <2>1. c = Contribution(c.slot, h[c.slot]) /\ c.slot \in Slot
      BY <1>2 DEF Share, Contribution
    <2> QED
      BY <1>2, <2>1 DEF Shares
  <1> QED
    BY <1>1, <1>2

\* What it means for a level to list its venues.
LEMMA ListsIs ==
  ASSUME NEW h \in [Slot -> Nat], NEW v, Lists(v, h)
  PROVE  /\ Len(v) \in Nat /\ v \in Seq(Share)
         /\ \A n \in 1 .. Len(v) : v[n] \in Share /\ v[n].slot \in Slot /\ h[v[n].slot] = v[n].qty /\ v[n].qty # 0
         /\ \A s \in Slot : h[s] # 0 => \E n \in 1 .. Len(v) : v[n].slot = s
         /\ \A k, l \in 1 .. Len(v) : k < l => v[k].slot < v[l].slot
  <1>1. v \in Seq(Share) /\ Len(v) \in Nat /\ DOMAIN v = 1 .. Len(v) /\ Range(v) = Shares(h)
    BY DEF Lists
  <1>2. ASSUME NEW n \in 1 .. Len(v)
        PROVE  v[n] \in Share /\ v[n].slot \in Slot /\ h[v[n].slot] = v[n].qty /\ v[n].qty # 0
    <2>1. v[n] \in Shares(h)
      BY <1>1 DEF Range
    <2>2. v[n] \in Share /\ h[v[n].slot] = v[n].qty /\ v[n].qty # 0
      BY <2>1, SharesIs
    <2> QED
      BY <2>2 DEF Share
  <1>3. ASSUME NEW s \in Slot, h[s] # 0 PROVE \E n \in 1 .. Len(v) : v[n].slot = s
    <2>1. Contribution(s, h[s]) \in Range(v)
      BY <1>1, <1>3 DEF Shares
    <2>2. PICK n \in 1 .. Len(v) : v[n] = Contribution(s, h[s])
      BY <1>1, <2>1 DEF Range
    <2> QED
      BY <2>2, ShareFields
  <1>4. ASSUME NEW k \in 1 .. Len(v), NEW l \in 1 .. Len(v), k < l PROVE v[k].slot < v[l].slot
    <2>1. <<v[k], v[l]>> \in BySlot
      BY <1>4 DEF Lists, Rises
    <2> QED
      BY <1>2, <2>1, BySlotIs
  <1> QED
    BY <1>1, <1>2, <1>3, <1>4

\* The venue is where FindVenue says, or nowhere.
LEMMA FindVenueIs ==
  ASSUME NEW level, NEW h \in [Slot -> Nat], Lists(level.venues, h), NEW s \in Slot
  PROVE  LET at == FindVenue(level, s)
         IN  IF h[s] = 0 THEN at = 0
             ELSE at \in 1 .. Len(level.venues) /\ level.venues[at] = Contribution(s, h[s])
  <1> DEFINE v == level.venues
             I == {n \in 1 .. Len(v) : v[n].slot = s}
             at == FindVenue(level, s)
  <1>1. at = IF I # {} THEN Min(I) ELSE 0
    BY DEF FindVenue, SelectInSeq
  <1>0. Lists(v, h)
    OBVIOUS
  <1> HIDE DEF v
  <1>2. /\ Len(v) \in Nat
        /\ \A n \in 1 .. Len(v) : v[n] \in Share /\ v[n].slot \in Slot /\ h[v[n].slot] = v[n].qty /\ v[n].qty # 0
        /\ \A t \in Slot : h[t] # 0 => \E n \in 1 .. Len(v) : v[n].slot = t
    BY <1>0, ListsIs
  <1>3. CASE h[s] = 0
    <2>1. I = {}
      BY <1>2, <1>3
    <2> QED
      BY <1>1, <1>3, <2>1
  <1>4. CASE h[s] # 0
    <2>1. I # {} /\ I \in SUBSET Nat
      BY <1>2, <1>4
    <2>2. PICK n \in I : \A m \in I : n <= m
      <3> HIDE DEF I
      <3> QED
        BY <2>1, Least
    <2>3. Min(I) \in I
      <3> HIDE DEF I
      <3> QED
        BY <2>2 DEF Min
    <2>4. at \in 1 .. Len(v) /\ v[at].slot = s
      BY <1>1, <2>1, <2>3
    <2>5. v[at] = Contribution(s, h[s])
      <3>1. v[at] \in Share /\ v[at].qty = h[s]
        BY <1>2, <2>4
      <3> QED
        BY <2>4, <3>1 DEF Share, Contribution
    <2> QED
      BY <1>4, <2>4, <2>5 DEF v
  <1> QED
    BY <1>3, <1>4 DEF v

\* The quantity of the venue s becomes q.
With(h, s, q) == [h EXCEPT ![s] = q]

\* The quantity of one venue changes and no other.
LEMMA WithIs ==
  ASSUME NEW h \in [Slot -> Nat], NEW s \in Slot, NEW q \in Nat
  PROVE  /\ With(h, s, q) \in [Slot -> Nat] /\ With(h, s, q)[s] = q
         /\ \A t \in Slot : t # s => With(h, s, q)[t] = h[t]
  BY DEF With

\* Taking a venue out.
LEMMA VenueOut ==
  ASSUME NEW v, NEW h \in [Slot -> Nat], Lists(v, h), NEW s \in Slot,
         NEW x \in Seq(Share), NEW k, NEW c, Inserted(x, v, k, c), c.slot = s
  PROVE  Lists(x, With(h, s, 0)) /\ Total(v) = Total(x) + c.qty
  <1>1. v \in Seq(Share) /\ Rises(v, BySlot) /\ Range(v) = Shares(h)
    BY DEF Lists
  <1>2. Rises(x, BySlot) /\ \A n \in 1 .. Len(x) : (n < k => <<x[n], c>> \in BySlot) /\ (n >= k => <<c, x[n]>> \in BySlot)
    BY <1>1, RisesTakenOut
  <1>3. Range(v) = Range(x) \cup {c}
    BY <1>1, RangeInserted
  <1>4. c \in Share
    <2>1. c \in Shares(h)
      BY <1>1, <1>3
    <2> QED
      BY <2>1, SharesIs
  <1>5. ASSUME NEW n \in 1 .. Len(x) PROVE x[n].slot # s
    <2>1. x[n] \in Share /\ Len(x) \in Nat /\ k \in 1 .. Len(x) + 1
      BY InsertedAt
    <2>2. x[n].slot \in Nat /\ s \in Nat
      BY <2>1, Slots DEF Share
    <2>3. CASE n < k
      <3>1. x[n].slot < c.slot
        BY <1>2, <1>4, <2>1, <2>3, BySlotIs
      <3> QED
        BY <2>2, <3>1
    <2>4. CASE n >= k
      <3>1. c.slot < x[n].slot
        BY <1>2, <1>4, <2>1, <2>4, BySlotIs
      <3> QED
        BY <2>2, <3>1
    <2> QED
      BY <2>1, <2>3, <2>4
  <1>6. ASSUME NEW d \in Range(x) PROVE d.slot # s
    BY <1>5 DEF Range
  <1>7. With(h, s, 0) \in [Slot -> Nat] /\ With(h, s, 0)[s] = 0 /\ \A t \in Slot : t # s => With(h, s, 0)[t] = h[t]
    BY WithIs
  <1>8. ASSUME NEW d PROVE d \in Range(x) <=> d \in Shares(With(h, s, 0))
    <2>1. d \in Shares(With(h, s, 0)) <=> d \in Share /\ With(h, s, 0)[d.slot] = d.qty /\ d.qty # 0
      BY <1>7, SharesIs
    <2>2. d \in Shares(h) <=> d \in Share /\ h[d.slot] = d.qty /\ d.qty # 0
      BY SharesIs
    <2>3. ASSUME d \in Range(x) PROVE d \in Shares(With(h, s, 0))
      <3>1. d \in Shares(h) /\ d.slot # s
        BY <1>1, <1>3, <1>6, <2>3
      <3>2. d.slot \in Slot
        BY <2>2, <3>1 DEF Share
      <3> QED
        BY <1>7, <2>1, <2>2, <3>1, <3>2
    <2>4. ASSUME d \in Shares(With(h, s, 0)) PROVE d \in Range(x)
      <3>1. d \in Share /\ With(h, s, 0)[d.slot] = d.qty /\ d.qty # 0
        BY <2>1, <2>4
      <3>2. d.slot \in Slot
        BY <3>1 DEF Share
      <3>3. d.slot # s
        BY <1>7, <3>1
      <3>4. d \in Shares(h)
        BY <1>7, <2>2, <3>1, <3>2, <3>3
      <3>5. d # c
        BY <3>3
      <3> QED
        BY <1>1, <1>3, <3>4, <3>5
    <2> QED
      BY <2>3, <2>4
  <1>9. Range(x) = Shares(With(h, s, 0))
    BY <1>8
  <1>10. Total(v) = Total(x) + c.qty
    BY <1>1, <1>4, TotalInserted
  <1> QED
    BY <1>2, <1>9, <1>10 DEF Lists

\* Putting a venue in.
LEMMA VenueIn ==
  ASSUME NEW x, NEW h \in [Slot -> Nat], Lists(x, h), NEW s \in Slot, h[s] = 0, NEW q \in Nat, q # 0,
         NEW y \in Seq(Share), NEW k, Inserted(x, y, k, Contribution(s, q)),
         \A n \in 1 .. Len(x) : (n < k => x[n].slot < s) /\ (n >= k => s < x[n].slot)
  PROVE  Lists(y, With(h, s, q)) /\ Total(y) = Total(x) + q
  <1> DEFINE c == Contribution(s, q)
  <1>0. c \in Share /\ c.slot = s /\ c.qty = q
    BY ShareFields
  <1>1. x \in Seq(Share) /\ Rises(x, BySlot) /\ Range(x) = Shares(h) /\ \A n \in 1 .. Len(x) : x[n] \in Share
    BY ListsIs DEF Lists
  <1> HIDE DEF c
  <1>a. Inserted(x, y, k, c)
    BY DEF c
  <1>2. \A n \in 1 .. Len(x) : (n < k => <<x[n], c>> \in BySlot) /\ (n >= k => <<c, x[n]>> \in BySlot)
    BY <1>0, <1>1, BySlotIs
  <1>3. Rises(y, BySlot)
    BY <1>1, <1>2, <1>a, RisesPutIn
  <1>4. Range(y) = Range(x) \cup {c}
    BY <1>1, <1>a, RangeInserted
  <1>7. With(h, s, q) \in [Slot -> Nat] /\ With(h, s, q)[s] = q /\ \A t \in Slot : t # s => With(h, s, q)[t] = h[t]
    BY WithIs
  <1>8. ASSUME NEW d PROVE d \in Range(y) <=> d \in Shares(With(h, s, q))
    <2>1. d \in Shares(With(h, s, q)) <=> d \in Share /\ With(h, s, q)[d.slot] = d.qty /\ d.qty # 0
      BY <1>7, SharesIs
    <2>2. d \in Shares(h) <=> d \in Share /\ h[d.slot] = d.qty /\ d.qty # 0
      BY SharesIs
    <2>3. d \in Share => d.slot \in Slot
      BY DEF Share
    <2>4. d \in Share /\ d.slot = s /\ d.qty = q => d = c
      BY DEF Share, c, Contribution
    <2>5. ASSUME d = c PROVE d \in Shares(With(h, s, q))
      BY <1>0, <1>7, <2>1, <2>5
    <2>6. ASSUME d \in Shares(h) PROVE d \in Shares(With(h, s, q))
      <3>1. d.slot # s
        BY <2>2, <2>6
      <3> QED
        BY <1>7, <2>1, <2>2, <2>3, <2>6, <3>1
    <2>7. ASSUME d \in Shares(With(h, s, q)), d # c PROVE d \in Shares(h)
      <3>1. d.slot # s
        BY <1>7, <2>1, <2>4, <2>7
      <3> QED
        BY <1>7, <2>1, <2>2, <2>3, <2>7, <3>1
    <2> QED
      BY <1>1, <1>4, <2>5, <2>6, <2>7
  <1>9. Range(y) = Shares(With(h, s, q))
    BY <1>8
  <1>10. Total(y) = Total(x) + q
    BY <1>0, <1>1, <1>a, TotalInserted
  <1> QED
    BY <1>3, <1>9, <1>10 DEF Lists

\* A level and its fields.
LEMMA MergedLevelIs ==
  ASSUME NEW p, NEW v \in Seq(Share)
  PROVE  /\ MergedLevel(p, v).price = p /\ MergedLevel(p, v).venues = v /\ MergedLevel(p, v).qty = Total(v)
         /\ MergedLevel(p, v) = [price |-> p, venues |-> v, qty |-> Total(v)]
         /\ Total(v) \in Nat
  BY TotalNat DEF MergedLevel

\* The level of the price p says what the venues have there.
Entry(p, h, level) == \E v : Lists(v, h) /\ level = MergedLevel(p, v)

\* The level is given by the venues it lists.
LEMMA EntryIs ==
  ASSUME NEW p, NEW h, NEW level, Entry(p, h, level)
  PROVE  /\ Lists(level.venues, h) /\ level.price = p /\ level.qty = Total(level.venues)
         /\ level = MergedLevel(p, level.venues)
  BY MergedLevelIs DEF Entry, Lists

\* A venue that had nothing at the price joins the level (ApplyOneChange).
LEMMA JoinedIs ==
  ASSUME NEW p, NEW h \in [Slot -> Nat], NEW level, Entry(p, h, level),
         NEW s \in Slot, h[s] = 0, NEW q \in Nat, q # 0
  PROVE  Entry(p, With(h, s, q), Joined(level, s, q))
  <1>1. PICK v : Lists(v, h) /\ level = MergedLevel(p, v)
    BY DEF Entry
  <1>2. /\ v \in Seq(Share) /\ Len(v) \in Nat
        /\ \A n \in 1 .. Len(v) : v[n] \in Share /\ v[n].slot \in Slot /\ h[v[n].slot] = v[n].qty /\ v[n].qty # 0
        /\ \A k, l \in 1 .. Len(v) : k < l => v[k].slot < v[l].slot
    BY <1>1, ListsIs
  <1>3. level = [price |-> p, venues |-> v, qty |-> Total(v)] /\ level.venues = v
    BY <1>1, <1>2, MergedLevelIs
  <1> DEFINE I == {n \in 1 .. Len(v) + 1 : n = Len(v) + 1 \/ v[n].slot >= s}
             k == Min(I)
             c == Contribution(s, q)
             y == InsertAt(v, k, c)
  <1>4. k \in I /\ \A m \in I : k <= m
    <2>3. PICK N : N = Len(v)
      OBVIOUS
    <2>4. I = {n \in 1 .. N + 1 : n = N + 1 \/ v[n].slot >= s} /\ N \in Nat
      BY <1>2, <2>3
    <2>1. N + 1 \in I /\ I \in SUBSET Nat
      <3> HIDE DEF I
      <3> QED
        BY <2>4
    <2> HIDE DEF I
    <2>2. PICK n \in I : \A m \in I : n <= m
      BY <2>1, Least
    <2> QED
      BY <2>2 DEF Min
  <1>5. Joined(level, s, q) = [price |-> p, venues |-> y, qty |-> Total(v) + q]
    <2>1. Joined(level, s, q) = [level EXCEPT !.venues = InsertAt(@, k, c), !.qty = @ + q]
      BY <1>3, Zenon DEF Joined
    <2> HIDE DEF k, c
    <2> QED
      BY <1>3, <2>1
  <1>6. k \in 1 .. Len(v) + 1 /\ (k = Len(v) + 1 \/ v[k].slot >= s)
    <2> HIDE DEF k
    <2> QED
      BY <1>4
  <1>7. \A n \in 1 .. Len(v) : n < k => ~(v[n].slot >= s)
    <2> HIDE DEF k
    <2>1. ASSUME NEW n \in 1 .. Len(v), n < k, v[n].slot >= s PROVE FALSE
      <3>1. n \in I
        BY <1>2, <2>1
      <3>2. k <= n
        BY <1>4, <3>1
      <3> QED
        BY <1>2, <1>6, <2>1, <3>2
    <2> QED
      BY <2>1
  <1> HIDE DEF k, I
  <1>8. ASSUME NEW n \in 1 .. Len(v) PROVE (n < k => v[n].slot < s) /\ (n >= k => s < v[n].slot)
    <2>1. v[n].slot \in Nat /\ s \in Nat /\ v[n].slot # s
      <3>1. v[n].slot # s
        BY <1>2
      <3> QED
        BY <1>2, <3>1, Slots
    <2>2. ASSUME n >= k PROVE v[n].slot >= s
      <3>1. k \in 1 .. Len(v) /\ v[k].slot >= s
        BY <1>2, <1>6, <2>2
      <3>2. v[k].slot \in Nat
        BY <1>2, <3>1, Slots
      <3>3. k = n \/ v[k].slot < v[n].slot
        BY <1>2, <2>2, <3>1
      <3> QED
        BY <2>1, <3>1, <3>2, <3>3
    <2> QED
      BY <1>7, <2>1, <2>2
  <1>9. c \in Share
    BY ShareFields
  <1>10. y \in Seq(Share) /\ Inserted(v, y, k, c)
    <2> HIDE DEF c
    <2> QED
      BY <1>2, <1>6, <1>9, InsertAtIs
  <1> HIDE DEF y
  <1>11. Lists(y, With(h, s, q)) /\ Total(y) = Total(v) + q
    BY <1>1, <1>8, <1>10, VenueIn
  <1>12. Joined(level, s, q) = MergedLevel(p, y)
    BY <1>5, <1>10, <1>11, MergedLevelIs
  <1> QED
    BY <1>11, <1>12 DEF Entry

\* Erasing the venue from the list.
LEMMA TakenOut ==
  ASSUME NEW h \in [Slot -> Nat], NEW v, Lists(v, h), NEW s \in Slot,
         NEW at \in 1 .. Len(v), v[at] = Contribution(s, h[s])
  PROVE  LET x == RemoveAt(v, at)
         IN  /\ x \in Seq(Share) /\ Inserted(x, v, at, Contribution(s, h[s]))
             /\ Lists(x, With(h, s, 0)) /\ Total(v) = Total(x) + h[s]
             /\ \A n \in 1 .. Len(x) : (n < at => x[n].slot < s) /\ (n >= at => s < x[n].slot)
  <1> DEFINE x == RemoveAt(v, at)
             c == Contribution(s, h[s])
  <1>1. v \in Seq(Share) /\ Rises(v, BySlot)
    BY DEF Lists
  <1>2. x \in Seq(Share) /\ Inserted(x, v, at, v[at])
    BY <1>1, RemoveAtIs
  <1>3. c \in Share /\ c.slot = s /\ c.qty = h[s]
    BY ShareFields
  <1>4. v[at] = c
    OBVIOUS
  <1> HIDE DEF x, c
  <1>5. Lists(x, With(h, s, 0)) /\ Total(v) = Total(x) + c.qty
    BY <1>2, <1>3, <1>4, VenueOut
  <1>6. \A n \in 1 .. Len(x) : (n < at => <<x[n], c>> \in BySlot) /\ (n >= at => <<c, x[n]>> \in BySlot)
    BY <1>1, <1>2, <1>4, RisesTakenOut
  <1>7. ASSUME NEW n \in 1 .. Len(x) PROVE (n < at => x[n].slot < s) /\ (n >= at => s < x[n].slot)
    <2>1. x[n] \in Share
      BY <1>2
    <2> QED
      BY <1>3, <1>6, <2>1, BySlotIs
  <1> QED
    BY <1>2, <1>3, <1>4, <1>5, <1>7 DEF x, c

\* Of two changes of a venue the later counts.
LEMMA WithAgain ==
  ASSUME NEW h \in [Slot -> Nat], NEW s \in Slot, NEW a, NEW q
  PROVE  With(With(h, s, a), s, q) = With(h, s, q)
  BY DEF With

\* A venue that had something at the price has its share and the total corrected.
LEMMA ReplacedIs ==
  ASSUME NEW p, NEW h \in [Slot -> Nat], NEW level, Entry(p, h, level),
         NEW s \in Slot, NEW q \in Nat, q # 0,
         NEW at \in 1 .. Len(level.venues), level.venues[at] = Contribution(s, h[s])
  PROVE  Entry(p, With(h, s, q), Replaced(level, at, q))
  <1>1. PICK v : Lists(v, h) /\ level = MergedLevel(p, v)
    BY DEF Entry
  <1>2. /\ v \in Seq(Share) /\ Len(v) \in Nat
        /\ \A n \in 1 .. Len(v) : v[n] \in Share
    BY <1>1, ListsIs
  <1>3. level = [price |-> p, venues |-> v, qty |-> Total(v)] /\ level.venues = v /\ Total(v) \in Nat
    BY <1>1, <1>2, MergedLevelIs
  <1>4. at \in 1 .. Len(v) /\ v[at] = Contribution(s, h[s]) /\ v[at].slot = s /\ v[at].qty = h[s] /\ h[s] \in Nat
    BY <1>3, ShareFields
  <1> DEFINE c == Contribution(s, q)
             y == [v EXCEPT ![at] = c]
             x == RemoveAt(v, at)
             g == With(h, s, 0)
  <1>5. c \in Share /\ c.slot = s /\ c.qty = q
    BY ShareFields
  <1>6. [v[at] EXCEPT !.qty = q] = c
    BY <1>4 DEF Contribution
  <1>7. Replaced(level, at, q) = [price |-> p, venues |-> y, qty |-> Total(v) - h[s] + q]
    <2>1. Replaced(level, at, q) = [level EXCEPT !.qty = @ - v[at].qty + q, !.venues[at].qty = q]
      BY <1>3 DEF Replaced
    <2>2. [level EXCEPT !.qty = @ - v[at].qty + q, !.venues[at].qty = q]
            = [price |-> p, venues |-> [v EXCEPT ![at].qty = q], qty |-> Total(v) - v[at].qty + q]
      <3>1. PICK a, b, w : a = Total(v) /\ b = Total(v) - v[at].qty + q /\ w = [v EXCEPT ![at].qty = q]
        OBVIOUS
      <3>2. level = [price |-> p, venues |-> v, qty |-> a]
        BY <1>3, <3>1
      <3>3. [level EXCEPT !.qty = @ - v[at].qty + q, !.venues[at].qty = q]
              = [level EXCEPT !.qty = b, !.venues = w]
        BY <3>1, <3>2
      <3>4. [level EXCEPT !.qty = b, !.venues = w] = [price |-> p, venues |-> w, qty |-> b]
        <4>1. [level EXCEPT !.qty = b] = [price |-> p, venues |-> v, qty |-> b]
          BY <3>2
        <4>2. [[price |-> p, venues |-> v, qty |-> b] EXCEPT !.venues = w] = [price |-> p, venues |-> w, qty |-> b]
          OBVIOUS
        <4> QED
          BY <4>1, <4>2
      <3>5. [level EXCEPT !.qty = @ - v[at].qty + q, !.venues[at].qty = q] = [price |-> p, venues |-> w, qty |-> b]
        BY <3>3, <3>4, Zenon
      <3> QED
        BY <3>1, <3>5, Zenon
    <2>3. [v EXCEPT ![at].qty = q] = y
      BY <1>2, <1>4, <1>6
    <2> HIDE DEF y
    <2> QED
      BY <1>4, <2>1, <2>2, <2>3
  <1>8. /\ x \in Seq(Share) /\ Inserted(x, v, at, Contribution(s, h[s]))
        /\ Lists(x, g) /\ Total(v) = Total(x) + h[s]
        /\ \A n \in 1 .. Len(x) : (n < at => x[n].slot < s) /\ (n >= at => s < x[n].slot)
    BY <1>1, <1>4, TakenOut
  <1>9. y \in Seq(Share) /\ Len(y) = Len(v) /\ y[at] = c /\ \A n \in 1 .. Len(v) : n # at => y[n] = v[n]
    <2> HIDE DEF c
    <2> QED
      BY <1>2, <1>4, <1>5
  <1> HIDE DEF x, y
  <1>10. Inserted(x, y, at, c)
    <2>1. /\ Len(v) = Len(x) + 1
          /\ \A n \in 1 .. Len(v) : v[n] = IF n < at THEN x[n] ELSE IF n = at THEN v[at] ELSE x[n - 1]
      BY <1>4, <1>8 DEF Inserted
    <2>2. \A n \in 1 .. Len(v) : y[n] = IF n < at THEN x[n] ELSE IF n = at THEN c ELSE x[n - 1]
      <3> HIDE DEF c
      <3>1. ASSUME NEW n \in 1 .. Len(v) PROVE y[n] = IF n < at THEN x[n] ELSE IF n = at THEN c ELSE x[n - 1]
        <4>1. CASE n = at
          <5>1. ~(n < at)
            BY <1>2, <1>4, <4>1
          <5> QED
            BY <1>9, <4>1, <5>1
        <4>2. CASE n # at
          BY <1>9, <2>1, <4>2
        <4> QED
          BY <4>1, <4>2
      <3> QED
        BY <3>1
    <2> QED
      BY <1>4, <1>9, <2>1, <2>2 DEF Inserted
  <1>11. g \in [Slot -> Nat] /\ g[s] = 0
    BY WithIs
  <1> HIDE DEF g
  <1>12. Lists(y, With(g, s, q)) /\ Total(y) = Total(x) + q
    <2>1. Inserted(x, y, at, Contribution(s, q))
      BY <1>10 DEF c
    <2>2. \A n \in 1 .. Len(x) : (n < at => x[n].slot < s) /\ (n >= at => s < x[n].slot)
      BY <1>8
    <2>3. Lists(x, g) /\ y \in Seq(Share)
      BY <1>8, <1>9
    <2> HIDE DEF c
    <2> QED
      BY <1>11, <2>1, <2>2, <2>3, VenueIn
  <1>13. With(g, s, q) = With(h, s, q)
    BY WithAgain DEF g
  <1>14. Total(v) - h[s] + q = Total(y)
    <2>1. Total(x) \in Nat
      BY <1>8, TotalNat
    <2> QED
      BY <1>4, <1>8, <1>12, <2>1
  <1>15. Replaced(level, at, q) = MergedLevel(p, y)
    BY <1>7, <1>9, <1>14, MergedLevelIs
  <1> QED
    BY <1>12, <1>13, <1>15 DEF Entry

\* What is left of a level without the venue at a place.
Left(level, at) == [level EXCEPT !.venues = RemoveAt(@, at), !.qty = @ - level.venues[at].qty]

\* The level is corrected where it is (ApplyOneChange).
LEMMA CorrectedInPlace ==
  ASSUME NEW S, NEW x \in Seq(S), NEW k \in 1 .. Len(x), NEW at
  PROVE  [x EXCEPT ![k].venues = RemoveAt(@, at), ![k].qty = @ - x[k].venues[at].qty]
           = [x EXCEPT ![k] = Left(x[k], at)]
  <1>1. k \in DOMAIN x
    OBVIOUS
  <1> QED
    BY <1>1, Zenon DEF Left

\* A venue that has nothing any more leaves the level (ApplyOneChange).
LEMMA LeftIs ==
  ASSUME NEW p, NEW h \in [Slot -> Nat], NEW v, Lists(v, h), NEW level, level = MergedLevel(p, v),
         NEW s \in Slot, NEW at \in 1 .. Len(v), v[at] = Contribution(s, h[s])
  PROVE  Lists(RemoveAt(v, at), With(h, s, 0)) /\ Left(level, at) = MergedLevel(p, RemoveAt(v, at))
  <1>2. v \in Seq(Share) /\ Len(v) \in Nat
    BY ListsIs
  <1>3. level = [price |-> p, venues |-> v, qty |-> Total(v)] /\ level.venues = v /\ Total(v) \in Nat
    BY <1>2, MergedLevelIs
  <1>4. v[at].qty = h[s] /\ h[s] \in Nat
    BY ShareFields
  <1> DEFINE x == RemoveAt(v, at)
  <1>5. x \in Seq(Share) /\ Lists(x, With(h, s, 0)) /\ Total(v) = Total(x) + h[s]
    BY TakenOut
  <1> HIDE DEF x
  <1>6. [level EXCEPT !.venues = RemoveAt(@, at), !.qty = @ - level.venues[at].qty]
          = [price |-> p, venues |-> x, qty |-> Total(v) - h[s]]
    <2>1. PICK a, b : a = Total(v) /\ b = Total(v) - h[s]
      OBVIOUS
    <2>2. level = [price |-> p, venues |-> v, qty |-> a]
      BY <1>3, <2>1
    <2>3. [level EXCEPT !.venues = RemoveAt(@, at), !.qty = @ - level.venues[at].qty]
            = [level EXCEPT !.venues = x, !.qty = b]
      <3>1. RemoveAt(level.venues, at) = x
        BY <1>3, Zenon DEF x
      <3>2. level.qty - level.venues[at].qty = b
        BY <1>3, <1>4, <2>1
      <3> QED
        BY <3>1, <3>2, Zenon
    <2>4. [level EXCEPT !.venues = x, !.qty = b] = [price |-> p, venues |-> x, qty |-> b]
      <3>1. [level EXCEPT !.venues = x] = [price |-> p, venues |-> x, qty |-> a]
        BY <2>2
      <3>2. [[price |-> p, venues |-> x, qty |-> a] EXCEPT !.qty = b] = [price |-> p, venues |-> x, qty |-> b]
        OBVIOUS
      <3> QED
        BY <3>1, <3>2
    <2>5. [level EXCEPT !.venues = RemoveAt(@, at), !.qty = @ - level.venues[at].qty]
            = [price |-> p, venues |-> x, qty |-> b]
      BY <2>3, <2>4, Zenon
    <2> QED
      BY <2>1, <2>5, Zenon
  <1>7. Total(v) - h[s] = Total(x)
    <2>1. Total(x) \in Nat
      BY <1>5, TotalNat
    <2> QED
      BY <1>4, <1>5, <2>1
  <1>8. [price |-> p, venues |-> x, qty |-> Total(v) - h[s]] = MergedLevel(p, x)
    BY <1>5, <1>7, MergedLevelIs
  <1>9. Left(level, at) = MergedLevel(p, x)
    BY <1>6, <1>8 DEF Left
  <1> QED
    BY <1>5, <1>9 DEF x

\* Whether there is a venue with anything.
Quoted(h) == \E s \in Slot : h[s] # 0

\* A level has no venues left when none has anything at its price.
LEMMA QuotedIs ==
  ASSUME NEW h \in [Slot -> Nat], NEW v, Lists(v, h)
  PROVE  Quoted(h) <=> Len(v) # 0
  <1>1. /\ Len(v) \in Nat
        /\ \A n \in 1 .. Len(v) : v[n] \in Share /\ v[n].slot \in Slot /\ h[v[n].slot] = v[n].qty /\ v[n].qty # 0
        /\ \A s \in Slot : h[s] # 0 => \E n \in 1 .. Len(v) : v[n].slot = s
    BY ListsIs
  <1>2. ASSUME Len(v) # 0 PROVE Quoted(h)
    <2>1. 1 \in 1 .. Len(v)
      BY <1>1, <1>2
    <2> QED
      BY <1>1, <2>1 DEF Quoted
  <1> QED
    BY <1>1, <1>2 DEF Quoted

\* A single venue.
LEMMA AloneIs ==
  ASSUME NEW p, NEW h \in [Slot -> Nat], ~Quoted(h), NEW s \in Slot, NEW q \in Nat, q # 0
  PROVE  Entry(p, With(h, s, q), MergedLevel(p, <<Contribution(s, q)>>))
  <1> DEFINE c == Contribution(s, q)
             y == <<c>>
             e == <<>>
  <1>0. c \in Share
    BY ShareFields
  <1>1. \A t \in Slot : h[t] = 0
    BY DEF Quoted
  <1>2. Lists(e, h)
    BY <1>1 DEF Lists, Rises, Shares, Range
  <1>3. y \in Seq(Share) /\ Inserted(e, y, 1, c)
    BY <1>0 DEF Inserted
  <1>4. \A n \in 1 .. Len(e) : (n < 1 => e[n].slot < s) /\ (n >= 1 => s < e[n].slot)
    OBVIOUS
  <1>5. h[s] = 0
    BY <1>1
  <1> HIDE DEF e, y
  <1>6. Lists(y, With(h, s, q))
    BY <1>2, <1>3, <1>4, <1>5, VenueIn
  <1> QED
    BY <1>6 DEF Entry, y

\* The levels of the consolidated book, their order, and what every venue has at
\* every price.
MLevel == [price : Price, venues : Seq(Share), qty : Nat]

\* The order of the levels, best first.
ByRank == {e \in MLevel \X MLevel : Better(e[1].price, e[2].price)}

\* Every venue's quantity at every price.
Tables == [Price -> [Slot -> Nat]]

\* The consolidated book of what the venues have in A.
Consolidates(levels, A) ==
  /\ levels \in Seq(MLevel) /\ Rises(levels, ByRank)
  /\ \A n \in 1 .. Len(levels) : Entry(levels[n].price, A[levels[n].price], levels[n]) /\ Quoted(A[levels[n].price])
  /\ \A p \in Price : Quoted(A[p]) => \E n \in 1 .. Len(levels) : levels[n].price = p

\* What that order says of two levels.
LEMMA ByRankIs ==
  ASSUME NEW v \in MLevel, NEW w \in MLevel
  PROVE  <<v, w>> \in ByRank <=> Better(v.price, w.price)
  BY DEF ByRank

\* The level of a price is a level.
LEMMA EntryInMLevel ==
  ASSUME NEW p \in Price, NEW h, NEW e, Entry(p, h, e)
  PROVE  e \in MLevel /\ e.price = p
  <1>1. Lists(e.venues, h) /\ e.price = p /\ e.qty = Total(e.venues) /\ e = MergedLevel(p, e.venues)
    BY EntryIs
  <1>2. PICK v : v = e.venues
    OBVIOUS
  <1>3. v \in Seq(Share)
    BY <1>1, <1>2 DEF Lists
  <1>4. e = [price |-> p, venues |-> v, qty |-> Total(v)] /\ Total(v) \in Nat
    BY <1>1, <1>2, <1>3, MergedLevelIs
  <1> QED
    BY <1>1, <1>3, <1>4 DEF MLevel

\* What it means to be the consolidated book.
LEMMA ConsolidatesIs ==
  ASSUME NEW levels, NEW A, Consolidates(levels, A)
  PROVE  /\ levels \in Seq(MLevel) /\ Len(levels) \in Nat
         /\ \A n \in 1 .. Len(levels) : /\ levels[n] \in MLevel /\ levels[n].price \in Price /\ levels[n].price \in Nat
                                        /\ Entry(levels[n].price, A[levels[n].price], levels[n])
                                        /\ Quoted(A[levels[n].price])
         /\ \A m, n \in 1 .. Len(levels) : /\ m < n => Better(levels[m].price, levels[n].price)
                                           /\ levels[m].price = levels[n].price => m = n
         /\ \A p \in Price : Quoted(A[p]) => \E n \in 1 .. Len(levels) : levels[n].price = p
  <1>1. levels \in Seq(MLevel) /\ Len(levels) \in Nat /\ Rises(levels, ByRank)
    BY DEF Consolidates
  <1>2. ASSUME NEW n \in 1 .. Len(levels)
        PROVE  levels[n] \in MLevel /\ levels[n].price \in Price /\ levels[n].price \in Nat
    <2>1. levels[n] \in MLevel
      BY <1>1
    <2>2. levels[n].price \in Price
      BY <2>1 DEF MLevel
    <2> QED
      BY <2>1, <2>2, DepthAssumption
  <1>3. ASSUME NEW m \in 1 .. Len(levels), NEW n \in 1 .. Len(levels), m < n
        PROVE  Better(levels[m].price, levels[n].price)
    <2>1. <<levels[m], levels[n]>> \in ByRank
      BY <1>1, <1>3 DEF Rises
    <2> QED
      BY <1>2, <2>1, ByRankIs
  <1>4. ASSUME NEW m \in 1 .. Len(levels), NEW n \in 1 .. Len(levels), levels[m].price = levels[n].price
        PROVE  m = n
    <2>1. ~Better(levels[m].price, levels[n].price) /\ ~Better(levels[n].price, levels[m].price)
      BY <1>2, <1>4, LessOrder DEF Better
    <2> QED
      BY <1>1, <1>3, <2>1
  <1>5. \A n \in 1 .. Len(levels) : Entry(levels[n].price, A[levels[n].price], levels[n]) /\ Quoted(A[levels[n].price])
    BY DEF Consolidates
  <1>6. \A p \in Price : Quoted(A[p]) => \E n \in 1 .. Len(levels) : levels[n].price = p
    BY DEF Consolidates
  <1> QED
    BY <1>1, <1>2, <1>3, <1>4, <1>5, <1>6

\* The search finds the level of the price, or the place where it belongs
\* (LowerBoundByRank).
LEMMA LowerBoundIs ==
  ASSUME NEW levels, NEW A, Consolidates(levels, A), NEW p \in Price, NEW k, k = LowerBoundByRank(levels, p)
  PROVE  /\ k \in 1 .. Len(levels) + 1
         /\ \A n \in 1 .. Len(levels) : n < k => Better(levels[n].price, p)
         /\ \A n \in 1 .. Len(levels) : levels[n].price = p => n = k
         /\ \A n \in 1 .. Len(levels) : n > k => Better(p, levels[n].price)
         /\ k <= Len(levels) => levels[k].price = p \/ Better(p, levels[k].price)
  <1>1. PICK N : N = Len(levels)
    OBVIOUS
  <1>2. /\ N \in Nat
        /\ \A n \in 1 .. N : levels[n].price \in Nat
        /\ \A m, n \in 1 .. N : m < n => Better(levels[m].price, levels[n].price)
    BY <1>1, ConsolidatesIs
  <1>3. p \in Nat
    BY DepthAssumption
  <1> DEFINE I == {n \in 1 .. N + 1 : n = N + 1 \/ ~Better(levels[n].price, p)}
  <1>4. k = Min(I)
    BY <1>1 DEF LowerBoundByRank
  <1>5. k \in I /\ \A m \in I : k <= m
    <2>1. N + 1 \in I /\ I \in SUBSET Nat
      BY <1>2
    <2> HIDE DEF I
    <2>2. PICK n \in I : \A m \in I : n <= m
      BY <2>1, Least
    <2> QED
      BY <1>4, <2>2 DEF Min
  <1>6. k \in 1 .. N + 1 /\ (k = N + 1 \/ ~Better(levels[k].price, p))
    BY <1>5
  <1>7. ASSUME NEW n \in 1 .. N, n < k PROVE Better(levels[n].price, p)
    <2>1. SUFFICES ASSUME ~Better(levels[n].price, p) PROVE FALSE
      OBVIOUS
    <2>2. n \in I
      BY <1>2, <2>1
    <2>3. k <= n
      BY <1>5, <2>2
    <2> QED
      BY <1>2, <1>6, <1>7, <2>3
  <1> HIDE DEF I
  <1>8. ASSUME k <= N PROVE levels[k].price = p \/ Better(p, levels[k].price)
    <2>1. k \in 1 .. N /\ ~Better(levels[k].price, p)
      BY <1>2, <1>6, <1>8
    <2> QED
      BY <1>2, <1>3, <2>1, LessOrder DEF Better
  <1>9. ASSUME NEW n \in 1 .. N, n > k PROVE Better(p, levels[n].price)
    <2>1. k \in 1 .. N /\ k <= N
      BY <1>2, <1>6, <1>9
    <2>2. Better(levels[k].price, levels[n].price) /\ (levels[k].price = p \/ Better(p, levels[k].price))
      BY <1>2, <1>8, <1>9, <2>1
    <2> QED
      BY <1>2, <1>3, <2>1, <2>2, LessOrder DEF Better
  <1>10. ASSUME NEW n \in 1 .. N, levels[n].price = p PROVE n = k
    <2>1. ~Better(p, p)
      BY <1>3, LessOrder DEF Better
    <2>2. ~(n < k)
      BY <1>7, <1>10, <2>1
    <2>3. ~(n > k)
      BY <1>9, <1>10, <2>1
    <2> QED
      BY <1>2, <1>6, <2>2, <2>3
  <1> QED
    BY <1>1, <1>6, <1>7, <1>8, <1>9, <1>10

\* The venues have the same in B as in A, but for the price p.
ButFor(A, B, p) == \A r \in Price : r # p => B[r] = A[r]

\* A price that nobody had gets a level.
LEMMA LevelPutIn ==
  ASSUME NEW levels, NEW A, Consolidates(levels, A), NEW p \in Price, NEW B, ButFor(A, B, p),
         \A n \in 1 .. Len(levels) : levels[n].price # p,
         NEW e, Entry(p, B[p], e), Quoted(B[p])
  PROVE  Consolidates(InsertAt(levels, LowerBoundByRank(levels, p), e), B)
  <1>1. PICK k, y : k = LowerBoundByRank(levels, p) /\ y = InsertAt(levels, k, e)
    OBVIOUS
  <1>2. /\ k \in 1 .. Len(levels) + 1
        /\ \A n \in 1 .. Len(levels) : n < k => Better(levels[n].price, p)
        /\ \A n \in 1 .. Len(levels) : n > k => Better(p, levels[n].price)
        /\ k <= Len(levels) => levels[k].price = p \/ Better(p, levels[k].price)
    BY <1>1, LowerBoundIs
  <1>3. e \in MLevel /\ e.price = p
    BY EntryInMLevel
  <1>4. /\ levels \in Seq(MLevel) /\ Len(levels) \in Nat /\ Rises(levels, ByRank)
        /\ \A n \in 1 .. Len(levels) : levels[n] \in MLevel /\ levels[n].price \in Price
        /\ \A n \in 1 .. Len(levels) : Entry(levels[n].price, A[levels[n].price], levels[n]) /\ Quoted(A[levels[n].price])
        /\ \A r \in Price : Quoted(A[r]) => \E n \in 1 .. Len(levels) : levels[n].price = r
    BY ConsolidatesIs DEF Consolidates
  <1>5. y \in Seq(MLevel) /\ Inserted(levels, y, k, e)
    BY <1>1, <1>2, <1>3, <1>4, InsertAtIs
  <1>6. ASSUME NEW n \in 1 .. Len(levels)
        PROVE  (n < k => <<levels[n], e>> \in ByRank) /\ (n >= k => <<e, levels[n]>> \in ByRank)
    <2>1. ASSUME n >= k PROVE Better(p, levels[n].price)
      <3>1. CASE n = k
        BY <1>2, <1>4, <3>1
      <3>2. CASE n > k
        BY <1>2, <3>2
      <3> QED
        BY <1>2, <1>4, <2>1, <3>1, <3>2
    <2> QED
      BY <1>2, <1>3, <1>4, <2>1, ByRankIs
  <1>7. Rises(y, ByRank)
    BY <1>4, <1>5, <1>6, RisesPutIn
  <1>8. /\ Len(y) = Len(levels) + 1 /\ y[k] = e
        /\ \A n \in 1 .. Len(levels) : n < k => y[n] = levels[n]
        /\ \A n \in 1 .. Len(levels) : n >= k => y[n + 1] = levels[n]
        /\ \A n \in 1 .. Len(y) : y[n] = IF n < k THEN levels[n] ELSE IF n = k THEN e ELSE levels[n - 1]
    BY <1>4, <1>5, InsertedAt DEF Inserted
  <1>9. ASSUME NEW n \in 1 .. Len(levels)
        PROVE  Entry(levels[n].price, B[levels[n].price], levels[n]) /\ Quoted(B[levels[n].price])
    <2>1. B[levels[n].price] = A[levels[n].price]
      BY <1>4 DEF ButFor
    <2> QED
      BY <1>4, <2>1
  <1>10. ASSUME NEW n \in 1 .. Len(y) PROVE Entry(y[n].price, B[y[n].price], y[n]) /\ Quoted(B[y[n].price])
    <2>1. CASE n < k
      <3>1. n \in 1 .. Len(levels) /\ y[n] = levels[n]
        BY <1>2, <1>4, <1>8, <2>1
      <3> QED
        BY <1>9, <3>1
    <2>2. CASE n = k
      BY <1>3, <1>8, <2>2
    <2>3. CASE n > k
      <3>1. n - 1 \in 1 .. Len(levels) /\ ~(n < k) /\ n # k
        BY <1>2, <1>4, <1>8, <2>3
      <3>2. y[n] = levels[n - 1]
        BY <1>8, <3>1
      <3> QED
        BY <1>9, <3>1, <3>2
    <2> QED
      BY <1>2, <1>4, <2>1, <2>2, <2>3
  <1>11. ASSUME NEW r \in Price, Quoted(B[r]) PROVE \E n \in 1 .. Len(y) : y[n].price = r
    <2>1. CASE r = p
      <3>1. k \in 1 .. Len(y)
        BY <1>2, <1>4, <1>8
      <3> QED
        BY <1>3, <1>8, <2>1, <3>1
    <2>2. CASE r # p
      <3>1. PICK n \in 1 .. Len(levels) : levels[n].price = r
        BY <1>4, <1>11, <2>2 DEF ButFor
      <3>2. CASE n < k
        <4>1. n \in 1 .. Len(y) /\ y[n] = levels[n]
          BY <1>4, <1>8, <3>2
        <4> QED
          BY <3>1, <4>1
      <3>3. CASE n >= k
        <4>1. n + 1 \in 1 .. Len(y) /\ y[n + 1] = levels[n]
          BY <1>4, <1>8, <3>3
        <4> QED
          BY <3>1, <4>1
      <3> QED
        BY <1>2, <1>4, <3>2, <3>3
    <2> QED
      BY <2>1, <2>2
  <1>12. Consolidates(y, B)
    BY <1>5, <1>7, <1>10, <1>11 DEF Consolidates
  <1> QED
    BY <1>1, <1>12

\* A price that nobody has any more loses its level.
LEMMA LevelTakenOut ==
  ASSUME NEW levels, NEW A, Consolidates(levels, A), NEW p \in Price, NEW B, ButFor(A, B, p),
         NEW k \in 1 .. Len(levels), levels[k].price = p, ~Quoted(B[p])
  PROVE  Consolidates(RemoveAt(levels, k), B)
  <1>1. PICK x : x = RemoveAt(levels, k)
    OBVIOUS
  <1>2. /\ levels \in Seq(MLevel) /\ Len(levels) \in Nat /\ Rises(levels, ByRank)
        /\ \A n \in 1 .. Len(levels) : levels[n] \in MLevel /\ levels[n].price \in Price
        /\ \A n \in 1 .. Len(levels) : Entry(levels[n].price, A[levels[n].price], levels[n]) /\ Quoted(A[levels[n].price])
        /\ \A r \in Price : Quoted(A[r]) => \E n \in 1 .. Len(levels) : levels[n].price = r
    BY ConsolidatesIs DEF Consolidates
  <1>3. \A n \in 1 .. Len(levels) : levels[n].price = p => n = k
    BY ConsolidatesIs
  <1>4. x \in Seq(MLevel) /\ Inserted(x, levels, k, levels[k])
    BY <1>1, <1>2, RemoveAtIs
  <1>5. Rises(x, ByRank)
    BY <1>2, <1>4, RisesTakenOut
  <1>6. /\ Len(levels) = Len(x) + 1 /\ Len(x) \in Nat
        /\ \A n \in 1 .. Len(x) : n < k => levels[n] = x[n]
        /\ \A n \in 1 .. Len(x) : n >= k => levels[n + 1] = x[n]
    BY <1>4, InsertedAt
  <1>7. ASSUME NEW n \in 1 .. Len(x) PROVE \E m \in 1 .. Len(levels) : m # k /\ x[n] = levels[m]
    <2>1. CASE n < k
      BY <1>6, <2>1
    <2>2. CASE n >= k
      <3>1. n + 1 \in 1 .. Len(levels) /\ n + 1 # k
        BY <1>6, <2>2
      <3> QED
        BY <1>6, <2>2, <3>1
    <2> QED
      BY <1>2, <1>6, <2>1, <2>2
  <1>8. ASSUME NEW m \in 1 .. Len(levels), m # k PROVE \E n \in 1 .. Len(x) : x[n] = levels[m]
    <2>1. CASE m < k
      <3>1. m \in 1 .. Len(x)
        BY <1>2, <1>6, <2>1
      <3> QED
        BY <1>6, <2>1, <3>1
    <2>2. CASE m > k
      <3>1. m - 1 \in 1 .. Len(x) /\ m - 1 >= k /\ (m - 1) + 1 = m
        BY <1>2, <1>6, <2>2
      <3> QED
        BY <1>6, <3>1
    <2> QED
      BY <1>2, <1>8, <2>1, <2>2
  <1>9. ASSUME NEW n \in 1 .. Len(x) PROVE Entry(x[n].price, B[x[n].price], x[n]) /\ Quoted(B[x[n].price])
    <2>1. PICK m \in 1 .. Len(levels) : m # k /\ x[n] = levels[m]
      BY <1>7
    <2>2. B[levels[m].price] = A[levels[m].price]
      BY <1>2, <1>3, <2>1 DEF ButFor
    <2>3. Entry(levels[m].price, B[levels[m].price], levels[m]) /\ Quoted(B[levels[m].price])
      BY <1>2, <2>2
    <2> QED
      BY <2>1, <2>3
  <1>10. ASSUME NEW r \in Price, Quoted(B[r]) PROVE \E n \in 1 .. Len(x) : x[n].price = r
    <2>1. r # p
      BY <1>10
    <2>2. PICK m \in 1 .. Len(levels) : levels[m].price = r
      BY <1>2, <1>10, <2>1 DEF ButFor
    <2>3. m # k
      BY <2>1, <2>2
    <2> QED
      BY <1>8, <2>2, <2>3
  <1>11. Consolidates(x, B)
    BY <1>4, <1>5, <1>9, <1>10 DEF Consolidates
  <1> QED
    BY <1>1, <1>11

\* The level of a price is corrected in place.
LEMMA LevelExchanged ==
  ASSUME NEW levels, NEW A, Consolidates(levels, A), NEW p \in Price, NEW B, ButFor(A, B, p),
         NEW k \in 1 .. Len(levels), levels[k].price = p,
         NEW e, Entry(p, B[p], e), Quoted(B[p])
  PROVE  Consolidates([levels EXCEPT ![k] = e], B)
  <1>1. PICK y : y = [levels EXCEPT ![k] = e]
    OBVIOUS
  <1>2. /\ levels \in Seq(MLevel) /\ Len(levels) \in Nat
        /\ \A n \in 1 .. Len(levels) : levels[n] \in MLevel /\ levels[n].price \in Price
        /\ \A n \in 1 .. Len(levels) : Entry(levels[n].price, A[levels[n].price], levels[n]) /\ Quoted(A[levels[n].price])
        /\ \A r \in Price : Quoted(A[r]) => \E n \in 1 .. Len(levels) : levels[n].price = r
    BY ConsolidatesIs
  <1>3. \A m, n \in 1 .. Len(levels) : /\ m < n => Better(levels[m].price, levels[n].price)
                                       /\ levels[m].price = levels[n].price => m = n
    BY ConsolidatesIs
  <1>4. e \in MLevel /\ e.price = p
    BY EntryInMLevel
  <1>5. y \in Seq(MLevel) /\ Len(y) = Len(levels) /\ y[k] = e /\ \A n \in 1 .. Len(levels) : n # k => y[n] = levels[n]
    BY <1>1, <1>2, <1>4
  <1>6. \A n \in 1 .. Len(levels) : y[n] \in MLevel /\ y[n].price = levels[n].price
    BY <1>2, <1>4, <1>5
  <1>7. Rises(y, ByRank)
    BY <1>3, <1>5, <1>6, ByRankIs DEF Rises
  <1>8. ASSUME NEW n \in 1 .. Len(levels) PROVE Entry(y[n].price, B[y[n].price], y[n]) /\ Quoted(B[y[n].price])
    <2>1. CASE n = k
      BY <1>4, <1>5, <2>1
    <2>2. CASE n # k
      <3>1. B[levels[n].price] = A[levels[n].price]
        BY <1>2, <1>3, <2>2 DEF ButFor
      <3>2. Entry(levels[n].price, B[levels[n].price], levels[n]) /\ Quoted(B[levels[n].price])
        BY <1>2, <3>1
      <3> QED
        BY <1>5, <2>2, <3>2
    <2> QED
      BY <2>1, <2>2
  <1>9. ASSUME NEW r \in Price, Quoted(B[r]) PROVE \E n \in 1 .. Len(y) : y[n].price = r
    <2>1. CASE r = p
      BY <1>4, <1>5, <2>1
    <2>2. CASE r # p
      <3>1. PICK n \in 1 .. Len(levels) : levels[n].price = r
        BY <1>2, <1>9, <2>2 DEF ButFor
      <3> QED
        BY <1>5, <1>6, <3>1
    <2> QED
      BY <2>1, <2>2
  <1>10. Consolidates(y, B)
    BY <1>5, <1>7, <1>8, <1>9 DEF Consolidates
  <1> QED
    BY <1>1, <1>10

\* What the table becomes when the venue s has q at the price p.
Put(A, p, s, q) == [A EXCEPT ![p] = With(@, s, q)]

\* One quantity changes and no other.
LEMMA PutIs ==
  ASSUME NEW A \in Tables, NEW p \in Price, NEW s \in Slot, NEW q \in Nat
  PROVE  /\ A[p] \in [Slot -> Nat]
         /\ Put(A, p, s, q) \in Tables /\ Put(A, p, s, q)[p] = With(A[p], s, q)
         /\ ButFor(A, Put(A, p, s, q), p)
         /\ A[p][s] = q => Put(A, p, s, q) = A
  <1>1. A[p] \in [Slot -> Nat] /\ With(A[p], s, q) \in [Slot -> Nat]
    BY WithIs DEF Tables
  <1>2. Put(A, p, s, q) \in Tables /\ Put(A, p, s, q)[p] = With(A[p], s, q) /\ ButFor(A, Put(A, p, s, q), p)
    BY <1>1 DEF Tables, Put, ButFor
  <1>3. ASSUME A[p][s] = q PROVE Put(A, p, s, q) = A
    <2>1. With(A[p], s, q) = A[p]
      BY <1>1, <1>3 DEF With
    <2> QED
      BY <2>1 DEF Put, Tables
  <1> QED
    BY <1>1, <1>2, <1>3

\* One change repairs the consolidated book, whether its venue joins, leaves or alters
\* a level, or says what was known (ApplyOneChange).
LEMMA ChangeApplied ==
  ASSUME NEW A \in Tables, NEW levels, Consolidates(levels, A), NEW s \in Slot, NEW c \in ChangeRecord, c.price \in Price
  PROVE  Consolidates(ApplyOneChange(levels, s, c), Put(A, c.price, s, c.new))
  <1>1. PICK p, q, B, k : p = c.price /\ q = c.new /\ B = Put(A, p, s, q) /\ k = LowerBoundByRank(levels, p)
    OBVIOUS
  <1>2. p \in Price /\ q \in Nat
    BY <1>1 DEF ChangeRecord
  <1>3. /\ A[p] \in [Slot -> Nat] /\ B \in Tables /\ B[p] = With(A[p], s, q) /\ ButFor(A, B, p)
        /\ A[p][s] = q => B = A
    BY <1>1, <1>2, PutIs
  <1>4. /\ k \in 1 .. Len(levels) + 1
        /\ \A n \in 1 .. Len(levels) : levels[n].price = p => n = k
    BY <1>1, <1>2, LowerBoundIs
  <1>5. /\ levels \in Seq(MLevel) /\ Len(levels) \in Nat
        /\ \A n \in 1 .. Len(levels) : Entry(levels[n].price, A[levels[n].price], levels[n]) /\ Quoted(A[levels[n].price])
        /\ \A r \in Price : Quoted(A[r]) => \E n \in 1 .. Len(levels) : levels[n].price = r
    BY ConsolidatesIs
  <1>6. With(A[p], s, q)[s] = q /\ \A t \in Slot : t # s => With(A[p], s, q)[t] = A[p][t]
    BY <1>2, <1>3, WithIs
  <1> DEFINE present == k <= Len(levels) /\ levels[k].price = p
             at == FindVenue(levels[k], s)
             x == ApplyOneChange(levels, s, c)
  <1>7. x = IF ~present THEN
              IF q = 0 THEN levels
              ELSE InsertAt(levels, k, MergedLevel(p, <<Contribution(s, q)>>))
            ELSE IF q = 0 THEN
              IF at = 0 THEN levels ELSE Withdrawn(levels, k, at)
            ELSE
              [levels EXCEPT ![k] = IF at # 0 THEN Replaced(@, at, q) ELSE Joined(@, s, q)]
    BY <1>1, Zenon DEF ApplyOneChange
  <1> HIDE DEF x
  <1>8. CASE ~present
    <2>1. \A n \in 1 .. Len(levels) : levels[n].price # p
      BY <1>4, <1>5, <1>8
    <2>2. ~Quoted(A[p])
      BY <1>2, <1>5, <2>1
    <2>3. CASE q = 0
      <3>1. A[p][s] = q
        BY <2>2, <2>3 DEF Quoted
      <3>2. x = levels
        BY <1>7, <1>8, <2>3
      <3> QED
        BY <1>1, <1>3, <3>1, <3>2 DEF x
    <2>4. CASE q # 0
      <3> DEFINE e == MergedLevel(p, <<Contribution(s, q)>>)
      <3>1. Entry(p, B[p], e)
        BY <1>2, <1>3, <2>2, <2>4, AloneIs
      <3>2. Quoted(B[p])
        BY <1>3, <1>6, <2>4 DEF Quoted
      <3>3. x = InsertAt(levels, k, e)
        BY <1>7, <1>8, <2>4
      <3> HIDE DEF e
      <3>4. Consolidates(InsertAt(levels, k, e), B)
        BY <1>1, <1>2, <1>3, <2>1, <3>1, <3>2, LevelPutIn
      <3> QED
        BY <1>1, <3>3, <3>4 DEF x
    <2> QED
      BY <2>3, <2>4
  <1>9. CASE present
    <2>1. PICK e, v : e = levels[k] /\ v = e.venues
      OBVIOUS
    <2>2. k \in 1 .. Len(levels) /\ levels[k].price = p /\ Entry(p, A[p], e) /\ Quoted(A[p])
      BY <1>4, <1>5, <1>9, <2>1
    <2>3. Lists(v, A[p])
      BY <2>1, <2>2, EntryIs
    <2>4. IF A[p][s] = 0 THEN at = 0 ELSE at \in 1 .. Len(v) /\ v[at] = Contribution(s, A[p][s])
      BY <1>3, <2>1, <2>3, FindVenueIs
    <2> HIDE DEF at
    <2>5. CASE q = 0 /\ at = 0
      <3>1. A[p][s] = q
        BY <2>4, <2>5
      <3>2. x = levels
        BY <1>7, <1>9, <2>5
      <3> QED
        BY <1>1, <1>3, <3>1, <3>2 DEF x
    <2>6. CASE q = 0 /\ at # 0
      <3>1. at \in 1 .. Len(v) /\ v[at] = Contribution(s, A[p][s]) /\ Len(v) \in Nat
        BY <1>3, <2>3, <2>4, <2>6, ListsIs
      <3>8. PICK f : f = Left(e, at)
        OBVIOUS
      <3>2. Entry(p, B[p], f) /\ f.venues = RemoveAt(v, at)
        <4>1. e = MergedLevel(p, v)
          BY <2>1, <2>2, EntryIs
        <4>2. PICK h : h = A[p]
          OBVIOUS
        <4>3. h \in [Slot -> Nat] /\ Lists(v, h) /\ v[at] = Contribution(s, h[s])
          BY <1>3, <2>3, <3>1, <4>2
        <4>4. Lists(RemoveAt(v, at), With(h, s, 0)) /\ f = MergedLevel(p, RemoveAt(v, at))
          BY <3>1, <3>8, <4>1, <4>3, LeftIs
        <4>5. With(h, s, 0) = B[p]
          BY <1>3, <2>6, <4>2
        <4> QED
          BY <4>4, <4>5, MergedLevelIs DEF Entry, Lists
      <3>3. x = IF Len(v) = 1 THEN RemoveAt(levels, k) ELSE [levels EXCEPT ![k] = f]
        <4>1. x = Withdrawn(levels, k, at)
          BY <1>7, <1>9, <2>6
        <4>2. Withdrawn(levels, k, at)
                = IF Len(v) = 1 THEN RemoveAt(levels, k)
                  ELSE [levels EXCEPT ![k].venues = RemoveAt(@, at), ![k].qty = @ - levels[k].venues[at].qty]
          BY <2>1 DEF Withdrawn
        <4>3. [levels EXCEPT ![k].venues = RemoveAt(@, at), ![k].qty = @ - levels[k].venues[at].qty]
                = [levels EXCEPT ![k] = f]
          <5>1. levels \in Seq(MLevel) /\ k \in 1 .. Len(levels) /\ f = Left(levels[k], at)
            BY <1>5, <2>1, <2>2, <3>8
          <5>2. [levels EXCEPT ![k].venues = RemoveAt(@, at), ![k].qty = @ - levels[k].venues[at].qty]
                  = [levels EXCEPT ![k] = Left(levels[k], at)]
            BY <5>1, CorrectedInPlace, Zenon
          <5> QED
            BY <5>1, <5>2, Zenon
        <4> QED
          BY <4>1, <4>2, <4>3
      <3>9. Lists(f.venues, B[p]) /\ B[p] \in [Slot -> Nat]
        BY <1>2, <1>3, <3>2, EntryIs, WithIs
      <3>4. Quoted(B[p]) <=> Len(f.venues) # 0
        BY <3>9, QuotedIs
      <3>10. Len(f.venues) \in Nat
        BY <3>9, ListsIs
      <3>11. PICK N : N = Len(f.venues)
        OBVIOUS
      <3>5. Len(v) = Len(f.venues) + 1
        <4>1. v \in Seq(Share)
          BY <2>3 DEF Lists
        <4>2. Inserted(RemoveAt(v, at), v, at, v[at])
          BY <3>1, <4>1, RemoveAtIs
        <4> QED
          BY <3>2, <4>2 DEF Inserted
      <3>6. CASE Len(v) = 1
        <4>3. Len(f.venues) = 0
          <5>1. N \in Nat /\ N + 1 = 1
            BY <3>5, <3>6, <3>10, <3>11
          <5> QED
            BY <3>11, <5>1
        <4>1. ~Quoted(B[p])
          BY <3>4, <4>3, Zenon
        <4>2. Consolidates(RemoveAt(levels, k), B)
          BY <1>2, <1>3, <2>2, <4>1, LevelTakenOut
        <4> QED
          BY <1>1, <3>3, <3>6, <4>2 DEF x
      <3>7. CASE Len(v) # 1
        <4>1. Quoted(B[p])
          <5>1. N \in Nat /\ N + 1 # 1
            BY <3>5, <3>7, <3>10, <3>11
          <5>2. Len(f.venues) # 0
            BY <3>11, <5>1
          <5> QED
            BY <3>4, <5>2, Zenon
        <4>2. Consolidates([levels EXCEPT ![k] = f], B)
          BY <1>2, <1>3, <2>2, <3>2, <4>1, LevelExchanged
        <4> QED
          BY <1>1, <3>3, <3>7, <4>2 DEF x
      <3> QED
        BY <3>6, <3>7
    <2>7. CASE q # 0
      <3>1. PICK f : f = IF at # 0 THEN Replaced(e, at, q) ELSE Joined(e, s, q)
        OBVIOUS
      <3>2. x = [levels EXCEPT ![k] = f]
        BY <1>7, <1>9, <2>1, <2>7, <3>1
      <3>3. Entry(p, B[p], f)
        <4>1. CASE at # 0
          <5>1. at \in 1 .. Len(e.venues) /\ e.venues[at] = Contribution(s, A[p][s])
            BY <2>1, <2>4, <4>1
          <5>2. Entry(p, With(A[p], s, q), Replaced(e, at, q))
            BY <1>2, <1>3, <2>2, <2>7, <5>1, ReplacedIs
          <5> QED
            BY <1>3, <3>1, <4>1, <5>2
        <4>2. CASE at = 0
          <5>1. A[p][s] = 0
            BY <2>3, <2>4, <4>2
          <5>2. Entry(p, With(A[p], s, q), Joined(e, s, q))
            BY <1>2, <1>3, <2>2, <2>7, <5>1, JoinedIs
          <5> QED
            BY <1>3, <3>1, <4>2, <5>2
        <4> QED
          BY <4>1, <4>2
      <3>4. Quoted(B[p])
        BY <1>3, <1>6, <2>7 DEF Quoted
      <3>5. Consolidates([levels EXCEPT ![k] = f], B)
        BY <1>2, <1>3, <2>2, <3>3, <3>4, LevelExchanged
      <3> QED
        BY <1>1, <3>2, <3>5 DEF x
    <2> QED
      BY <2>5, <2>6, <2>7
  <1> QED
    BY <1>8, <1>9

\* The table after the first n changes of the venue s.
Changed(n, A, T, changes) ==
  [p \in Price |-> IF \E k \in 1 .. n : changes[k].price = p THEN T[p] ELSE A[p]]

\* The changes of the venue s lead from the table A to T.
Leads(A, s, changes, T) ==
  /\ changes \in Seq(ChangeRecord) /\ \A n \in 1 .. Len(changes) : changes[n].price \in Price
  /\ \A n \in 1 .. Len(changes) : T[changes[n].price] = With(A[changes[n].price], s, changes[n].new)
  /\ \A p \in Price : (\A n \in 1 .. Len(changes) : changes[n].price # p) => T[p] = A[p]

\* One change more leads from one table to the next.
LEMMA ChangedNext ==
  ASSUME NEW A \in Tables, NEW T \in Tables, NEW s \in Slot, NEW changes, Leads(A, s, changes, T),
         NEW n \in 0 .. Len(changes) - 1
  PROVE  LET c == changes[n + 1]
         IN  /\ c \in ChangeRecord /\ c.price \in Price
             /\ Changed(n, A, T, changes) \in Tables
             /\ Changed(n + 1, A, T, changes) = Put(Changed(n, A, T, changes), c.price, s, c.new)
  <1>0. Len(changes) \in Nat /\ n + 1 \in 1 .. Len(changes) /\ n \in Nat
    BY DEF Leads
  <1>1. PICK c, p, q, B, C : /\ c = changes[n + 1] /\ p = c.price /\ q = c.new
                             /\ B = Changed(n, A, T, changes) /\ C = Changed(n + 1, A, T, changes)
    OBVIOUS
  <1>2. c \in ChangeRecord /\ p \in Price /\ q \in Nat /\ T[p] = With(A[p], s, q)
    <2>1. c \in ChangeRecord /\ p \in Price /\ T[p] = With(A[p], s, q)
      BY <1>0, <1>1 DEF Leads
    <2> QED
      BY <1>1, <2>1 DEF ChangeRecord
  <1>3. B \in Tables /\ C \in Tables
    BY <1>1 DEF Changed, Tables
  <1>4. /\ \A r \in Price : B[r] = IF \E k \in 1 .. n : changes[k].price = r THEN T[r] ELSE A[r]
        /\ \A r \in Price : C[r] = IF \E k \in 1 .. n + 1 : changes[k].price = r THEN T[r] ELSE A[r]
    BY <1>1 DEF Changed
  <1>5. ASSUME NEW r \in Price
        PROVE  (\E k \in 1 .. n + 1 : changes[k].price = r) <=> (r = p \/ \E k \in 1 .. n : changes[k].price = r)
    <2>1. \A k \in 1 .. n + 1 : k = n + 1 \/ k \in 1 .. n
      BY <1>0
    <2>2. n + 1 \in 1 .. n + 1 /\ 1 .. n \subseteq 1 .. n + 1
      BY <1>0
    <2> QED
      BY <1>1, <2>1, <2>2
  <1>6. C[p] = T[p]
    BY <1>2, <1>4, <1>5
  <1>7. ASSUME NEW r \in Price, r # p PROVE C[r] = B[r]
    BY <1>4, <1>5, <1>7
  <1>8. With(B[p], s, q) = T[p]
    <2>1. B[p] = T[p] \/ B[p] = A[p]
      BY <1>2, <1>4
    <2>2. A[p] \in [Slot -> Nat]
      BY <1>2 DEF Tables
    <2> QED
      BY <1>2, <2>1, <2>2, WithAgain
  <1>9. C = Put(B, p, s, q)
    BY <1>2, <1>3, <1>6, <1>7, <1>8 DEF Put, Tables
  <1> QED
    BY <1>1, <1>2, <1>3, <1>9

\* All changes of a delta repair the consolidated book (State::ApplyDepthDelta).
LEMMA DeltaFolded ==
  ASSUME NEW A \in Tables, NEW T \in Tables, NEW s \in Slot, NEW changes, Leads(A, s, changes, T),
         NEW levels, Consolidates(levels, A)
  PROVE  Consolidates(ApplyDepthDelta(levels, s, changes), T)
  <1> DEFINE R == Len(changes)
             S == {l \in Seq(MLevel) : \E B \in Tables : Consolidates(l, B)}
             Runs(g) == g = [n \in 0 .. R |-> IF n = 0 THEN levels ELSE ApplyOneChange(g[n - 1], s, changes[n])]
             f == [u \in Nat \X S |-> IF u[1] \in 1 .. R THEN ApplyOneChange(u[2], s, changes[u[1]]) ELSE u[2]]
             w == CHOOSE g : Runs(g)
  <1>0. R \in Nat /\ \A n \in 1 .. R : changes[n] \in ChangeRecord /\ changes[n].price \in Price
    BY DEF Leads
  <1> HIDE DEF R
  <1>1. \E g : Runs(g)
    <2>1. ASSUME NEW l \in S, NEW n \in 1 .. R PROVE ApplyOneChange(l, s, changes[n]) \in S
      <3>1. PICK B \in Tables : Consolidates(l, B)
        OBVIOUS
      <3>2. Consolidates(ApplyOneChange(l, s, changes[n]), Put(B, changes[n].price, s, changes[n].new))
        BY <1>0, <3>1, ChangeApplied
      <3>3. Put(B, changes[n].price, s, changes[n].new) \in Tables
        BY <1>0, PutIs DEF ChangeRecord
      <3> QED
        BY <3>2, <3>3 DEF Consolidates
    <2>2. levels \in S
      BY DEF Consolidates
    <2> HIDE DEF S
    <2>3. f \in [Nat \X S -> S]
      BY <2>1
    <2>4. PICK g \in [0 .. R -> S] : g = [n \in 0 .. R |-> IF n = 0 THEN levels ELSE f[<<n, g[n - 1]>>]]
      <3> HIDE DEF f
      <3>1. Rounds(S, levels, f, R) # {}
        BY <1>0, <2>2, <2>3, Loop
      <3> QED
        BY <3>1 DEF Rounds
    <2>5. ASSUME NEW n \in 0 .. R, n # 0 PROVE f[<<n, g[n - 1]>>] = ApplyOneChange(g[n - 1], s, changes[n])
      <3>1. n - 1 \in 0 .. R /\ n \in 1 .. R /\ n \in Nat
        BY <1>0, <2>5
      <3>2. <<n, g[n - 1]>> \in Nat \X S
        BY <2>4, <3>1
      <3> QED
        BY <3>1, <3>2
    <2>6. Runs(g)
      <3> HIDE DEF f
      <3> QED
        BY <2>4, <2>5
    <2> QED
      BY <2>6
  <1>2. Runs(w)
    <2> HIDE DEF Runs
    <2> QED
      BY <1>1, Zenon
  <1>3. ApplyDepthDelta(levels, s, changes) = w[R]
    BY Zenon DEF ApplyDepthDelta, R
  <1>4. w[0] = levels /\ \A n \in 1 .. R : w[n] = ApplyOneChange(w[n - 1], s, changes[n])
    <2> HIDE DEF w
    <2> QED
      BY <1>0, <1>2
  <1> DEFINE U == {n \in 0 .. R : Consolidates(w[n], Changed(n, A, T, changes))}
  <1> HIDE DEF w
  <1>5. 0 \in U
    <2>1. Changed(0, A, T, changes) = A
      BY DEF Changed, Tables
    <2> QED
      BY <1>0, <1>4, <2>1
  <1>6. ASSUME NEW n \in 0 .. R - 1, n \in U PROVE n + 1 \in U
    <2>0. PICK B, c : B = Changed(n, A, T, changes) /\ c = changes[n + 1]
      OBVIOUS
    <2>1. n + 1 \in 1 .. R /\ n + 1 \in 0 .. R /\ (n + 1) - 1 = n /\ n \in 0 .. Len(changes) - 1
      BY <1>0 DEF R
    <2>2. c \in ChangeRecord /\ c.price \in Price /\ B \in Tables /\ Changed(n + 1, A, T, changes) = Put(B, c.price, s, c.new)
      BY <2>0, <2>1, ChangedNext
    <2>3. w[n + 1] = ApplyOneChange(w[n], s, c)
      BY <1>4, <2>0, <2>1
    <2>4. Consolidates(w[n], B)
      BY <1>6, <2>0
    <2>5. Consolidates(w[n + 1], Changed(n + 1, A, T, changes))
      BY <2>2, <2>3, <2>4, ChangeApplied
    <2> QED
      BY <2>1, <2>5
  <1>7. \A n \in 0 .. R : n \in U
    <2> HIDE DEF U
    <2> QED
      BY <1>0, <1>5, <1>6, Induct
  <1>8. Consolidates(w[R], Changed(R, A, T, changes))
    BY <1>0, <1>7
  <1>9. Changed(R, A, T, changes) = T
    <2>1. ASSUME NEW p \in Price PROVE (IF \E k \in 1 .. R : changes[k].price = p THEN T[p] ELSE A[p]) = T[p]
      BY DEF Leads, R
    <2> QED
      BY <2>1 DEF Changed, Tables
  <1> QED
    BY <1>3, <1>8, <1>9

---------------------------------------------------------------------------
(* MergeBooks.                                                              *)

\* The better price: a total order.
LEMMA BetterOrder ==
  ASSUME NEW a \in Nat, NEW b \in Nat, NEW c \in Nat
  PROVE  /\ ~Better(a, a)
         /\ Better(a, b) => ~Better(b, a)
         /\ Better(a, b) \/ a = b \/ Better(b, a)
         /\ Better(a, b) /\ Better(b, c) => Better(a, c)
         /\ Better(a, b) /\ ~Better(c, b) => Better(a, c)
  BY LessOrder DEF Better

\* Of all heads one is the best.
LEMMA BestHeadIs ==
  ASSUME NEW from, NEW left, \A s \in Active(left) : from[s][left[s]].price \in Nat,
         Active(left) # {}
  PROVE  /\ \E s \in Active(left) : BestHead(from, left) = from[s][left[s]].price
         /\ \A s \in Active(left) : ~Better(from[s][left[s]].price, BestHead(from, left))
  <1> DEFINE Is(b) == /\ \E s \in Active(left) : b = from[s][left[s]].price
                      /\ \A s \in Active(left) : ~Better(from[s][left[s]].price, b)
             hd == [s \in Active(left) |-> from[s][left[s]].price]
             T == {n \in 0 .. MaxVenues :
                     \/ \A s \in Active(left) : s >= n
                     \/ \E t \in Active(left) : \A s \in Active(left) : s < n => ~Better(hd[s], hd[t])}
  <1>0. MaxVenues \in Nat /\ \A s \in Active(left) : s \in 0 .. MaxVenues - 1
    BY DepthAssumption DEF Active, Slot
  <1>1. \A s \in Active(left) : hd[s] \in Nat /\ hd[s] = from[s][left[s]].price
    OBVIOUS
  <1> HIDE DEF hd
  <1>2. 0 \in T
    BY <1>0
  <1>3. ASSUME NEW n \in 0 .. MaxVenues - 1, n \in T PROVE n + 1 \in T
    <2>0. n + 1 \in 0 .. MaxVenues /\ \A s \in Active(left) : s >= n + 1 \/ s = n \/ s < n
      BY <1>0
    <2>1. CASE n \notin Active(left)
      <3>1. ASSUME \A s \in Active(left) : s >= n PROVE \A s \in Active(left) : s >= n + 1
        BY <1>0, <2>1, <3>1
      <3>2. ASSUME NEW s \in Active(left), s < n + 1 PROVE s < n
        BY <1>0, <2>1, <3>2
      <3> QED
        BY <1>3, <2>0, <3>1, <3>2
    <2>2. CASE n \in Active(left)
      <3>1. CASE \A s \in Active(left) : s >= n
        <4>1. ASSUME NEW s \in Active(left), s < n + 1 PROVE ~Better(hd[s], hd[n])
          <5>1. s = n
            BY <1>0, <3>1, <4>1
          <5> QED
            BY <1>1, <2>2, <5>1, BetterOrder
        <4> QED
          BY <2>0, <2>2, <4>1
      <3>2. CASE \E t \in Active(left) : \A s \in Active(left) : s < n => ~Better(hd[s], hd[t])
        <4>1. PICK t \in Active(left) : \A s \in Active(left) : s < n => ~Better(hd[s], hd[t])
          BY <3>2
        <4>2. CASE Better(hd[n], hd[t])
          <5>1. ASSUME NEW s \in Active(left), s < n + 1 PROVE ~Better(hd[s], hd[n])
            <6>1. s = n \/ s < n
              BY <1>0, <5>1
            <6>2. hd[s] \in Nat /\ hd[n] \in Nat /\ hd[t] \in Nat
              BY <1>1, <2>2
            <6> QED
              BY <4>1, <4>2, <6>1, <6>2, BetterOrder
          <5> QED
            BY <2>0, <2>2, <5>1
        <4>3. CASE ~Better(hd[n], hd[t])
          <5>1. ASSUME NEW s \in Active(left), s < n + 1 PROVE ~Better(hd[s], hd[t])
            <6>1. s = n \/ s < n
              BY <1>0, <5>1
            <6> QED
              BY <4>1, <4>3, <6>1
          <5> QED
            BY <2>0, <5>1
        <4> QED
          BY <4>2, <4>3
      <3> QED
        BY <1>3, <3>1, <3>2
    <2> QED
      BY <2>1, <2>2
  <1>4. \A n \in 0 .. MaxVenues : n \in T
    <2> HIDE DEF T
    <2> QED
      BY <1>0, <1>2, <1>3, Induct
  <1>5. \E t \in Active(left) : \A s \in Active(left) : ~Better(hd[s], hd[t])
    <2>1. MaxVenues \in T
      BY <1>0, <1>4
    <2>2. \A s \in Active(left) : s < MaxVenues /\ ~(s >= MaxVenues)
      BY <1>0
    <2> QED
      BY <2>1, <2>2
  <1>6. PICK t \in Active(left) : \A s \in Active(left) : ~Better(hd[s], hd[t])
    BY <1>5
  <1>7. Is(hd[t])
    BY <1>1, <1>6
  <1>8. BestHead(from, left) = CHOOSE p \in {from[s][left[s]].price : s \in Active(left)} :
                                 \A s \in Active(left) : ~Better(from[s][left[s]].price, p)
    BY DEF BestHead
  <1>9. /\ BestHead(from, left) \in {from[s][left[s]].price : s \in Active(left)}
        /\ \A s \in Active(left) : ~Better(from[s][left[s]].price, BestHead(from, left))
    BY <1>7, <1>8
  <1> QED
    BY <1>9

\* The venues that have the best price, of the first n.
LEMMA BestVenuesAre ==
  ASSUME NEW from, NEW left, NEW best, NEW h \in [Slot -> Nat],
         \A s \in Slot : HasPrice(from, left, s, best) => h[s] = from[s][left[s]].qty /\ h[s] # 0,
         \A s \in Slot : ~HasPrice(from, left, s, best) => h[s] = 0
  PROVE  Lists(BestVenues(from, left, best), h)
  <1> DEFINE Next1(n, x) == IF HasPrice(from, left, n - 1, best)
                            THEN Append(x, Contribution(n - 1, from[n - 1][left[n - 1]].qty)) ELSE x
             S == Seq(Share)
             R == MaxVenues
             Runs(g) == g = [n \in 0 .. MaxVenues |-> IF n = 0 THEN <<>>
                                ELSE IF HasPrice(from, left, n - 1, best)
                                THEN Append(g[n - 1], Contribution(n - 1, from[n - 1][left[n - 1]].qty))
                                ELSE g[n - 1]]
             f == [u \in Nat \X S |-> IF u[1] \in 1 .. R THEN Next1(u[1], u[2]) ELSE u[2]]
             w == CHOOSE g : Runs(g)
  <1>0. R \in Nat /\ \A n \in 1 .. R : n - 1 \in Slot
    BY DepthAssumption DEF Slot
  <1>1. ASSUME NEW n \in 1 .. R, NEW x \in S
        PROVE  Next1(n, x) = IF h[n - 1] # 0 THEN Append(x, Contribution(n - 1, h[n - 1])) ELSE x
    BY <1>0
  <1>2. ASSUME NEW n \in 1 .. R, NEW x \in S PROVE Next1(n, x) \in S
    <2>1. n - 1 \in Slot /\ h[n - 1] \in Nat
      BY <1>0
    <2>2. Contribution(n - 1, h[n - 1]) \in Share
      BY <2>1, ShareFields
    <2>3. Append(x, Contribution(n - 1, h[n - 1])) \in S
      BY <2>2, AppendAdds
    <2> HIDE DEF Next1, S
    <2> QED
      BY <1>1, <2>3
  <1>3. \E g : Runs(g) /\ g \in [0 .. R -> S]
    <2> HIDE DEF S, R
    <2>1. f \in [Nat \X S -> S]
      <3> HIDE DEF Next1
      <3> QED
        BY <1>2
    <2>2. <<>> \in S
      BY DEF S
    <2>3. PICK g \in [0 .. R -> S] : g = [n \in 0 .. R |-> IF n = 0 THEN <<>> ELSE f[<<n, g[n - 1]>>]]
      <3> HIDE DEF f
      <3>1. Rounds(S, <<>>, f, R) # {}
        BY <1>0, <2>1, <2>2, Loop
      <3> QED
        BY <3>1 DEF Rounds
    <2>4. ASSUME NEW n \in 0 .. R, n # 0 PROVE f[<<n, g[n - 1]>>] = Next1(n, g[n - 1])
      <3>1. n - 1 \in 0 .. R /\ n \in 1 .. R /\ n \in Nat
        BY <1>0, <2>4
      <3>2. <<n, g[n - 1]>> \in Nat \X S
        BY <2>3, <3>1
      <3> HIDE DEF Next1
      <3> QED
        BY <3>1, <3>2
    <2>5. g = [n \in 0 .. R |-> IF n = 0 THEN <<>> ELSE Next1(n, g[n - 1])]
      <3> HIDE DEF f, Next1
      <3> QED
        BY <2>3, <2>4
    <2>6. Runs(g)
      <3> HIDE DEF f
      <3> QED
        BY <2>5, Zenon DEF R
    <2> QED
      BY <2>6
  <1>4. Runs(w)
    <2> HIDE DEF Runs
    <2> QED
      BY <1>3, Zenon
  <1>5. BestVenues(from, left, best) = w[R]
    BY Zenon DEF BestVenues
  <1>6. w[0] = <<>> /\ \A n \in 1 .. R : w[n] = Next1(n, w[n - 1])
    <2> HIDE DEF w
    <2>1. w = [n \in 0 .. R |-> IF n = 0 THEN <<>> ELSE Next1(n, w[n - 1])]
      BY <1>4, Zenon
    <2> HIDE DEF Next1
    <2> QED
      BY <1>0, <2>1
  <1> HIDE DEF w, Next1
  <1> DEFINE Seen(n) == {Contribution(s, h[s]) : s \in {s \in Slot : h[s] # 0 /\ s < n}}
             T == {n \in 0 .. R : w[n] \in S /\ Rises(w[n], BySlot) /\ Range(w[n]) = Seen(n)}
  <1>7. 0 \in T
    <2>1. \A s \in Slot : ~(s < 0)
      BY <1>0 DEF Slot
    <2>2. Seen(0) = {}
      BY <2>1
    <2>3. Rises(<<>>, BySlot) /\ Range(<<>>) = {} /\ <<>> \in S
      BY DEF Rises, Range
    <2> HIDE DEF Seen, S
    <2>4. w[0] \in S /\ Rises(w[0], BySlot) /\ Range(w[0]) = Seen(0)
      BY <1>6, <2>2, <2>3
    <2>5. 0 \in 0 .. R
      BY <1>0
    <2> QED
      BY <2>4, <2>5
  <1>8. ASSUME NEW n \in 0 .. R - 1, n \in T PROVE n + 1 \in T
    <2>1. n + 1 \in 1 .. R /\ n + 1 \in 0 .. R /\ (n + 1) - 1 = n /\ n \in Slot /\ n \in Nat
      BY <1>0 DEF Slot
    <2>2. PICK x, c : x = w[n] /\ c = Contribution(n, h[n])
      OBVIOUS
    <2>3. x \in S /\ Rises(x, BySlot) /\ Range(x) = Seen(n)
      BY <1>8, <2>2
    <2>4. w[n + 1] = IF h[n] # 0 THEN Append(x, c) ELSE x
      BY <1>1, <1>6, <2>1, <2>2, <2>3
    <2>5. \A s \in Slot : s < n + 1 <=> s < n \/ s = n
      BY <2>1 DEF Slot
    <2>6. CASE h[n] = 0
      <3>1. Seen(n + 1) = Seen(n)
        BY <2>5, <2>6
      <3> QED
        BY <2>1, <2>3, <2>4, <2>6, <3>1
    <2>7. CASE h[n] # 0
      <3>1. c \in Share /\ c.slot = n
        BY <2>1, <2>2, ShareFields
      <3>2. Append(x, c) \in S /\ Range(Append(x, c)) = Range(x) \cup {c}
        BY <2>3, <3>1, AppendAdds
      <3>3. Seen(n + 1) = Seen(n) \cup {c}
        BY <2>1, <2>2, <2>5, <2>7
      <3>4. ASSUME NEW d \in Range(x) PROVE <<d, c>> \in BySlot
        <4>1. PICK s \in Slot : h[s] # 0 /\ s < n /\ d = Contribution(s, h[s])
          BY <2>3
        <4>2. d \in Share /\ d.slot = s
          BY <4>1, ShareFields
        <4> QED
          BY <3>1, <4>1, <4>2, BySlotIs
      <3>5. Rises(Append(x, c), BySlot)
        <4>1. x \in Seq(Share) /\ Append(x, c) \in Seq(Share)
          BY <2>3, <3>2
        <4>2. DOMAIN Append(x, c) = 1 .. Len(Append(x, c)) /\ DOMAIN x = 1 .. Len(x)
          BY <4>1
        <4>3. \A k, l \in DOMAIN Append(x, c) : k < l =>
                \/ k \in DOMAIN x /\ l \in DOMAIN x /\ Append(x, c)[k] = x[k] /\ Append(x, c)[l] = x[l]
                \/ Append(x, c)[k] \in Range(x) /\ Append(x, c)[l] = c
          BY <2>3, <3>1, AppendAdds
        <4> HIDE DEF S
        <4> QED
          BY <2>3, <3>4, <4>2, <4>3 DEF Rises
      <3> HIDE DEF Seen
      <3> QED
        BY <2>1, <2>3, <2>4, <2>7, <3>2, <3>3, <3>5
    <2> QED
      BY <2>6, <2>7
  <1>9. \A n \in 0 .. R : n \in T
    <2> HIDE DEF T
    <2> QED
      BY <1>0, <1>7, <1>8, Induct
  <1>10. w[R] \in S /\ Rises(w[R], BySlot) /\ Range(w[R]) = Seen(R)
    <2>1. R \in 0 .. R
      BY <1>0
    <2> HIDE DEF Seen
    <2> QED
      BY <1>9, <2>1
  <1>11. Seen(R) = Shares(h)
    <2>1. \A s \in Slot : s < R
      BY <1>0 DEF Slot
    <2> QED
      BY <2>1 DEF Shares
  <1> QED
    BY <1>5, <1>10, <1>11 DEF Lists

\* Books of prices that are there, each with a quantity.
Sources(from) ==
  \A s \in Slot : Book(from[s]) /\ \A i \in 1 .. Len(from[s]) : from[s][i].price \in Price /\ from[s][i].qty # 0

\* What the venues have in their books.
Holdings(from) == [p \in Price |-> [s \in Slot |-> QtyAt(from[s], p)]]

\* What it means to be the books that are merged.
LEMMA SourcesAre ==
  ASSUME NEW from, Sources(from)
  PROVE  /\ Holdings(from) \in Tables
         /\ \A s \in Slot :
              /\ Len(from[s]) \in Nat
              /\ \A i \in 1 .. Len(from[s]) : /\ from[s][i].price \in Price /\ from[s][i].price \in Nat
                                              /\ Holdings(from)[from[s][i].price][s] = from[s][i].qty
                                              /\ from[s][i].qty # 0
              /\ \A p \in Price : (\A i \in 1 .. Len(from[s]) : from[s][i].price # p) => Holdings(from)[p][s] = 0
              /\ \A i, j \in 1 .. Len(from[s]) : i < j => Better(from[s][j].price, from[s][i].price)
  <1>1. \A s \in Slot : Book(from[s]) /\ \A i \in 1 .. Len(from[s]) : from[s][i].price \in Price /\ from[s][i].qty # 0
    BY DEF Sources
  <1>2. \A p \in Price, s \in Slot : Holdings(from)[p][s] = QtyAt(from[s], p)
    BY DEF Holdings
  <1>3. Holdings(from) \in Tables
    <2>1. \A p \in Price, s \in Slot : QtyAt(from[s], p) \in Nat
      BY <1>1, QtyAtIs
    <2> QED
      BY <2>1 DEF Holdings, Tables
  <1>4. ASSUME NEW s \in Slot
        PROVE  /\ Len(from[s]) \in Nat
               /\ \A i \in 1 .. Len(from[s]) : /\ from[s][i].price \in Price /\ from[s][i].price \in Nat
                                               /\ Holdings(from)[from[s][i].price][s] = from[s][i].qty
                                               /\ from[s][i].qty # 0
               /\ \A p \in Price : (\A i \in 1 .. Len(from[s]) : from[s][i].price # p) => Holdings(from)[p][s] = 0
               /\ \A i, j \in 1 .. Len(from[s]) : i < j => Better(from[s][j].price, from[s][i].price)
    <2>1. PICK x : x = from[s]
      OBVIOUS
    <2>2. Book(x) /\ \A i \in 1 .. Len(x) : x[i].price \in Price /\ x[i].qty # 0
      BY <1>1, <2>1
    <2>3. /\ Len(x) \in Nat /\ \A i \in 1 .. Len(x) : x[i].price \in Nat
          /\ \A i, j \in 1 .. Len(x) : i < j => StorageLess(x[i].price, x[j].price)
      BY <2>2, BookOrder
    <2>4. /\ \A i \in 1 .. Len(x) : QtyAt(x, x[i].price) = x[i].qty
          /\ \A p \in Price : (\A i \in 1 .. Len(x) : x[i].price # p) => QtyAt(x, p) = 0
      BY <2>2, QtyAtIs
    <2>5. \A p \in Price : Holdings(from)[p][s] = QtyAt(x, p)
      BY <1>2, <2>1
    <2>6. /\ \A i \in 1 .. Len(x) : Holdings(from)[x[i].price][s] = x[i].qty
          /\ \A p \in Price : (\A i \in 1 .. Len(x) : x[i].price # p) => Holdings(from)[p][s] = 0
      BY <2>2, <2>4, <2>5
    <2>7. \A i, j \in 1 .. Len(x) : i < j => Better(x[j].price, x[i].price)
      BY <2>3 DEF Better
    <2> QED
      BY <2>1, <2>2, <2>3, <2>6, <2>7
  <1> QED
    BY <1>3, <1>4

\* What has been merged is the front of the consolidated book.
MergeBooksStates(from) ==
  {m \in [left : [Slot -> Nat], out : Seq(MLevel)] :
     /\ \A s \in Slot : m.left[s] <= Len(from[s])
     /\ Rises(m.out, ByRank)
     /\ \A n \in 1 .. Len(m.out) : /\ Entry(m.out[n].price, Holdings(from)[m.out[n].price], m.out[n])
                                   /\ Quoted(Holdings(from)[m.out[n].price])
     /\ \A n \in 1 .. Len(m.out), s \in Slot : \A i \in 1 .. m.left[s] : Better(m.out[n].price, from[s][i].price)
     /\ \A s \in Slot : \A i \in m.left[s] + 1 .. Len(from[s]) :
          \E n \in 1 .. Len(m.out) : m.out[n].price = from[s][i].price}

\* The best price of the heads: who has it, and what is behind it.
LEMMA BestIs ==
  ASSUME NEW from, Sources(from), NEW m \in MergeBooksStates(from), Active(m.left) # {},
         NEW best, best = BestHead(from, m.left)
  PROVE  /\ best \in Price
         /\ \A s \in Slot : HasPrice(from, m.left, s, best) =>
              Holdings(from)[best][s] = from[s][m.left[s]].qty /\ Holdings(from)[best][s] # 0
         /\ \A s \in Slot : ~HasPrice(from, m.left, s, best) => Holdings(from)[best][s] = 0
         /\ \E s \in Slot : HasPrice(from, m.left, s, best)
         /\ \A n \in 1 .. Len(m.out) : Better(m.out[n].price, best)
         /\ \A s \in Slot : \A i \in 1 .. m.left[s] :
              ~(HasPrice(from, m.left, s, best) /\ i = m.left[s]) => Better(best, from[s][i].price)
  <1>1. PICK left, out, H : left = m.left /\ out = m.out /\ H = Holdings(from)
    OBVIOUS
  <1>2. /\ left \in [Slot -> Nat] /\ out \in Seq(MLevel) /\ \A s \in Slot : left[s] <= Len(from[s])
        /\ \A n \in 1 .. Len(out), s \in Slot : \A i \in 1 .. left[s] : Better(out[n].price, from[s][i].price)
        /\ \A s \in Slot : \A i \in left[s] + 1 .. Len(from[s]) : \E n \in 1 .. Len(out) : out[n].price = from[s][i].price
    BY <1>1 DEF MergeBooksStates
  <1>3. \A s \in Slot :
              /\ Len(from[s]) \in Nat
              /\ \A i \in 1 .. Len(from[s]) : /\ from[s][i].price \in Price /\ from[s][i].price \in Nat
                                              /\ H[from[s][i].price][s] = from[s][i].qty
                                              /\ from[s][i].qty # 0
              /\ \A p \in Price : (\A i \in 1 .. Len(from[s]) : from[s][i].price # p) => H[p][s] = 0
              /\ \A i, j \in 1 .. Len(from[s]) : i < j => Better(from[s][j].price, from[s][i].price)
    BY <1>1, SourcesAre
  <1>4. \A s \in Slot : left[s] \in Nat /\ (s \in Active(left) <=> left[s] > 0)
    BY <1>2 DEF Active
  <1>5. \A s \in Slot : \A i \in 1 .. left[s] : i \in 1 .. Len(from[s])
    BY <1>2, <1>3, <1>4
  <1>6. \A s \in Active(left) : s \in Slot /\ left[s] \in 1 .. left[s] /\ left[s] \in 1 .. Len(from[s])
    BY <1>4, <1>5 DEF Active
  <1>7. /\ \E s \in Active(left) : best = from[s][left[s]].price
        /\ \A s \in Active(left) : ~Better(from[s][left[s]].price, best)
    <2>1. \A s \in Active(left) : from[s][left[s]].price \in Nat
      BY <1>3, <1>6
    <2> QED
      BY <1>1, <2>1, BestHeadIs
  <1>8. PICK t \in Active(left) : best = from[t][left[t]].price
    BY <1>7
  <1>9. best \in Price /\ best \in Nat
    BY <1>3, <1>6, <1>8
  <1>10. HasPrice(from, left, t, best) /\ t \in Slot
    BY <1>6, <1>8 DEF HasPrice
  <1>11. ASSUME NEW n \in 1 .. Len(out) PROVE Better(out[n].price, best)
    BY <1>2, <1>6, <1>8
  <1>12. ASSUME NEW s \in Slot, HasPrice(from, left, s, best) PROVE H[best][s] = from[s][left[s]].qty /\ H[best][s] # 0
    <2>1. s \in Active(left) /\ from[s][left[s]].price = best
      BY <1>12 DEF HasPrice
    <2>2. left[s] \in 1 .. Len(from[s])
      BY <1>6, <2>1
    <2>3. H[from[s][left[s]].price][s] = from[s][left[s]].qty /\ from[s][left[s]].qty # 0
      BY <1>3, <2>2
    <2> QED
      BY <2>1, <2>3
  <1>13. ASSUME NEW s \in Slot, NEW i \in 1 .. left[s], ~(HasPrice(from, left, s, best) /\ i = left[s])
         PROVE  Better(best, from[s][i].price)
    <2>1. s \in Active(left) /\ left[s] \in 1 .. Len(from[s]) /\ i \in 1 .. Len(from[s]) /\ i <= left[s]
      BY <1>4, <1>5, <1>6
    <2>2. PICK a, b : a = from[s][i].price /\ b = from[s][left[s]].price
      OBVIOUS
    <2>3. a \in Nat /\ b \in Nat /\ ~Better(b, best)
      BY <1>3, <1>7, <2>1, <2>2
    <2>4. CASE i = left[s]
      <3>1. b # best /\ a = b
        BY <1>13, <2>1, <2>2, <2>4 DEF HasPrice
      <3> QED
        BY <1>9, <2>2, <2>3, <3>1, BetterOrder
    <2>5. CASE i # left[s]
      <3>1. Better(b, a)
        <4>1. i < left[s]
          BY <1>4, <2>1, <2>5
        <4> QED
          BY <1>3, <2>1, <2>2, <4>1
      <3>2. Better(best, b) \/ best = b
        BY <1>9, <2>3, BetterOrder
      <3>3. Better(best, a)
        BY <1>9, <2>3, <3>1, <3>2, BetterOrder
      <3> QED
        BY <2>2, <3>3
    <2> QED
      BY <2>4, <2>5
  <1>14. ASSUME NEW s \in Slot, ~HasPrice(from, left, s, best) PROVE H[best][s] = 0
    <2>1. ASSUME NEW i \in 1 .. Len(from[s]) PROVE from[s][i].price # best
      <3>1. CASE i \in 1 .. left[s]
        <4>1. Better(best, from[s][i].price)
          BY <1>13, <1>14, <3>1
        <4> QED
          BY <1>9, <4>1, BetterOrder
      <3>2. CASE i \notin 1 .. left[s]
        <4>1. i \in left[s] + 1 .. Len(from[s])
          BY <1>3, <1>4, <3>2
        <4>2. PICK n \in 1 .. Len(out) : out[n].price = from[s][i].price
          BY <1>2, <4>1
        <4>3. Better(from[s][i].price, best)
          BY <1>11, <4>2
        <4> QED
          BY <1>9, <4>3, BetterOrder
      <3> QED
        BY <3>1, <3>2
    <2> QED
      BY <1>3, <1>9, <2>1
  <1> QED
    BY <1>1, <1>9, <1>10, <1>11, <1>12, <1>13, <1>14

\* A round of the merge keeps that, and takes the head of every venue that has the
\* best price.
LEMMA RoundKeeps ==
  ASSUME NEW from, Sources(from), NEW m \in MergeBooksStates(from), Active(m.left) # {}
  PROVE  /\ MergeBooksRound(m, from) \in MergeBooksStates(from)
         /\ \A s \in Slot : MergeBooksRound(m, from).left[s] <= m.left[s]
         /\ \E s \in Slot : MergeBooksRound(m, from).left[s] < m.left[s]
  <1>1. PICK left, out, H, best : left = m.left /\ out = m.out /\ H = Holdings(from) /\ best = BestHead(from, m.left)
    OBVIOUS
  <1>2. /\ left \in [Slot -> Nat] /\ out \in Seq(MLevel) /\ \A s \in Slot : left[s] <= Len(from[s])
        /\ Rises(out, ByRank)
        /\ \A n \in 1 .. Len(out) : Entry(out[n].price, H[out[n].price], out[n]) /\ Quoted(H[out[n].price])
        /\ \A n \in 1 .. Len(out), s \in Slot : \A i \in 1 .. left[s] : Better(out[n].price, from[s][i].price)
        /\ \A s \in Slot : \A i \in left[s] + 1 .. Len(from[s]) : \E n \in 1 .. Len(out) : out[n].price = from[s][i].price
    BY <1>1 DEF MergeBooksStates
  <1>3. H \in Tables /\ \A s \in Slot : Len(from[s]) \in Nat
    BY <1>1, SourcesAre
  <1>4. /\ best \in Price
        /\ \A s \in Slot : HasPrice(from, left, s, best) => H[best][s] = from[s][left[s]].qty /\ H[best][s] # 0
        /\ \A s \in Slot : ~HasPrice(from, left, s, best) => H[best][s] = 0
        /\ \E s \in Slot : HasPrice(from, left, s, best)
        /\ \A n \in 1 .. Len(out) : Better(out[n].price, best)
        /\ \A s \in Slot : \A i \in 1 .. left[s] :
             ~(HasPrice(from, left, s, best) /\ i = left[s]) => Better(best, from[s][i].price)
    BY <1>1, BestIs
  <1> DEFINE left2 == [s \in Slot |-> IF HasPrice(from, left, s, best) THEN left[s] - 1 ELSE left[s]]
             e == MergedLevel(best, BestVenues(from, left, best))
             out2 == Append(out, e)
  <1>5. MergeBooksRound(m, from) = [left |-> left2, out |-> out2]
    BY <1>1 DEF MergeBooksRound
  <1>6. H[best] \in [Slot -> Nat]
    BY <1>3, <1>4 DEF Tables
  <1>7. Entry(best, H[best], e) /\ Quoted(H[best])
    <2>1. Lists(BestVenues(from, left, best), H[best])
      BY <1>4, <1>6, BestVenuesAre
    <2> QED
      BY <1>4, <2>1 DEF Entry, Quoted
  <1>8. e \in MLevel /\ e.price = best
    BY <1>4, <1>7, EntryInMLevel
  <1> HIDE DEF e
  <1>9. /\ out2 \in Seq(MLevel) /\ Len(out) \in Nat /\ Len(out2) = Len(out) + 1 /\ out2[Len(out) + 1] = e
        /\ \A n \in 1 .. Len(out) : out2[n] = out[n] /\ out[n] \in MLevel
    BY <1>2, <1>8
  <1> HIDE DEF out2
  <1>10. \A n \in 1 .. Len(out2) : n = Len(out) + 1 \/ n \in 1 .. Len(out)
    BY <1>9
  <1>11. ASSUME NEW s \in Slot
         PROVE  /\ left[s] \in Nat /\ left2[s] \in Nat /\ left2[s] <= left[s]
                /\ HasPrice(from, left, s, best) => left2[s] = left[s] - 1 /\ left[s] > 0
                /\ ~HasPrice(from, left, s, best) => left2[s] = left[s]
    BY <1>2 DEF HasPrice, Active
  <1>12. left2 \in [Slot -> Nat]
    BY <1>11
  <1> HIDE DEF left2
  <1>13. Rises(out2, ByRank)
    <2> SUFFICES ASSUME NEW k \in 1 .. Len(out2), NEW l \in 1 .. Len(out2), k < l PROVE <<out2[k], out2[l]>> \in ByRank
      BY DEF Rises
    <2>1. k \in 1 .. Len(out)
      BY <1>9
    <2>2. CASE l \in 1 .. Len(out)
      BY <1>2, <1>9, <2>1, <2>2 DEF Rises
    <2>3. CASE l = Len(out) + 1
      <3>1. Better(out[k].price, e.price)
        BY <1>4, <1>8, <2>1
      <3>2. out2[k] = out[k] /\ out[k] \in MLevel /\ out2[l] = e
        BY <1>9, <2>1, <2>3
      <3> QED
        BY <1>8, <3>1, <3>2, ByRankIs
    <2> QED
      BY <1>10, <2>2, <2>3
  <1>14. ASSUME NEW n \in 1 .. Len(out2) PROVE Entry(out2[n].price, H[out2[n].price], out2[n]) /\ Quoted(H[out2[n].price])
    <2>1. CASE n \in 1 .. Len(out)
      BY <1>2, <1>9, <2>1
    <2>2. CASE n = Len(out) + 1
      BY <1>7, <1>8, <1>9, <2>2
    <2> QED
      BY <1>10, <2>1, <2>2
  <1>15. ASSUME NEW n \in 1 .. Len(out2), NEW s \in Slot, NEW i \in 1 .. left2[s]
         PROVE  Better(out2[n].price, from[s][i].price)
    <2>1. i \in 1 .. left[s]
      BY <1>11
    <2>2. CASE n \in 1 .. Len(out)
      BY <1>2, <1>9, <2>1, <2>2
    <2>3. CASE n = Len(out) + 1
      <3>1. ~(HasPrice(from, left, s, best) /\ i = left[s])
        BY <1>11
      <3> QED
        BY <1>4, <1>8, <1>9, <2>1, <2>3, <3>1
    <2> QED
      BY <1>10, <2>2, <2>3
  <1>16. ASSUME NEW s \in Slot, NEW i \in left2[s] + 1 .. Len(from[s])
         PROVE  \E n \in 1 .. Len(out2) : out2[n].price = from[s][i].price
    <2>1. CASE i \in left[s] + 1 .. Len(from[s])
      <3>1. PICK n \in 1 .. Len(out) : out[n].price = from[s][i].price
        BY <1>2, <2>1
      <3>2. n \in 1 .. Len(out2) /\ out2[n] = out[n]
        BY <1>9
      <3> QED
        BY <3>1, <3>2
    <2>2. CASE i \notin left[s] + 1 .. Len(from[s])
      <3>1. HasPrice(from, left, s, best) /\ i = left[s]
        BY <1>3, <1>11, <2>2
      <3>2. from[s][i].price = best
        BY <3>1 DEF HasPrice
      <3>3. Len(out) + 1 \in 1 .. Len(out2)
        BY <1>9
      <3> QED
        BY <1>8, <1>9, <3>2, <3>3
    <2> QED
      BY <2>1, <2>2
  <1>17. ASSUME NEW s \in Slot PROVE left2[s] <= Len(from[s])
    BY <1>2, <1>3, <1>11
  <1>18. [left |-> left2, out |-> out2] \in MergeBooksStates(from)
    BY <1>1, <1>9, <1>12, <1>13, <1>14, <1>15, <1>16, <1>17 DEF MergeBooksStates
  <1>19. \E s \in Slot : left2[s] < left[s]
    <2>1. PICK s \in Slot : HasPrice(from, left, s, best)
      BY <1>4
    <2>2. left2[s] < left[s]
      BY <1>11, <2>1
    <2> QED
      BY <2>2
  <1> QED
    BY <1>1, <1>5, <1>11, <1>18, <1>19

\* How many levels are left.
Rest(left) == Sum([n \in 1 .. MaxVenues |-> left[n - 1]])

\* Fewer levels are left when a head is taken.
LEMMA RestIs ==
  ASSUME NEW a \in [Slot -> Nat], NEW b \in [Slot -> Nat], \A s \in Slot : a[s] <= b[s]
  PROVE  /\ Rest(a) \in Nat /\ Rest(b) \in Nat
         /\ (\E s \in Slot : a[s] < b[s]) => Rest(a) < Rest(b)
  <1> DEFINE x == [n \in 1 .. MaxVenues |-> a[n - 1]]
             y == [n \in 1 .. MaxVenues |-> b[n - 1]]
  <1>0. MaxVenues \in Nat /\ (\A n \in 1 .. MaxVenues : n - 1 \in Slot) /\ \A s \in Slot : s + 1 \in 1 .. MaxVenues /\ (s + 1) - 1 = s
    BY DepthAssumption DEF Slot
  <1>1. (\A n \in 1 .. MaxVenues : a[n - 1] \in Nat) /\ (\A n \in 1 .. MaxVenues : b[n - 1] \in Nat)
    BY <1>0
  <1>2. x \in Seq(Nat) /\ y \in Seq(Nat)
    BY <1>0, <1>1, IsASeq
  <1>3. Len(x) = MaxVenues /\ Len(y) = MaxVenues
    BY <1>0, <1>2
  <1>4. \A n \in 1 .. MaxVenues : x[n] = a[n - 1] /\ y[n] = b[n - 1]
    OBVIOUS
  <1>5. Rest(a) = Sum(x) /\ Rest(b) = Sum(y)
    BY DEF Rest
  <1> HIDE DEF x, y
  <1>6. ASSUME NEW s \in Slot, a[s] < b[s] PROVE Rest(a) < Rest(b)
    <2>1. PICK k : k = s + 1
      OBVIOUS
    <2>2. k \in 1 .. Len(x) /\ x[k] < y[k]
      <3>1. k \in 1 .. MaxVenues /\ k - 1 = s
        BY <1>0, <2>1
      <3> QED
        BY <1>3, <1>4, <1>6, <3>1
    <2>3. \A n \in 1 .. Len(x) : x[n] <= y[n]
      BY <1>0, <1>3, <1>4
    <2> QED
      BY <1>2, <1>3, <1>5, <2>2, <2>3, SumSmaller
  <1> QED
    BY <1>2, <1>5, <1>6, SumNat

\* At the end all books are merged.
LEMMA MergeEnds ==
  ASSUME NEW from, Sources(from), NEW m \in MergeBooksStates(from), Active(m.left) = {}
  PROVE  Consolidates(m.out, Holdings(from))
  <1>1. PICK left, out, H : left = m.left /\ out = m.out /\ H = Holdings(from)
    OBVIOUS
  <1>2. /\ left \in [Slot -> Nat] /\ out \in Seq(MLevel)
        /\ Rises(out, ByRank)
        /\ \A n \in 1 .. Len(out) : Entry(out[n].price, H[out[n].price], out[n]) /\ Quoted(H[out[n].price])
        /\ \A s \in Slot : \A i \in left[s] + 1 .. Len(from[s]) : \E n \in 1 .. Len(out) : out[n].price = from[s][i].price
    BY <1>1 DEF MergeBooksStates
  <1>3. \A s \in Slot : left[s] = 0
    BY <1>1, <1>2 DEF Active
  <1>4. ASSUME NEW p \in Price, Quoted(H[p]) PROVE \E n \in 1 .. Len(out) : out[n].price = p
    <2>1. PICK s \in Slot : H[p][s] # 0
      BY <1>4 DEF Quoted
    <2>2. PICK i \in 1 .. Len(from[s]) : from[s][i].price = p
      BY <1>1, <2>1, SourcesAre
    <2>3. i \in left[s] + 1 .. Len(from[s])
      BY <1>3
    <2> QED
      BY <1>2, <2>2, <2>3
  <1>5. Consolidates(out, H)
    BY <1>2, <1>4 DEF Consolidates
  <1> QED
    BY <1>1, <1>5

\* The merge of the books is their consolidated book: every round leaves fewer levels,
\* so there is a last one (MergeBooks).
LEMMA MergeBooksIs ==
  ASSUME NEW from, Sources(from)
  PROVE  Consolidates(MergeBooks(from), Holdings(from))
  <1> DEFINE left0 == [s \in Slot |-> Len(from[s])]
             start == [left |-> left0, out |-> <<>>]
             R == Sum([n \in 1 .. MaxVenues |-> Len(from[n - 1])])
             S == MergeBooksStates(from)
             Runs(g) == g = [n \in 0 .. R |-> IF n = 0 THEN [left |-> [s \in Slot |-> Len(from[s])], out |-> <<>>]
                                               ELSE MergeBooksRound(g[n - 1], from)]
             f == [u \in Nat \X S |-> MergeBooksRound(u[2], from)]
             w == CHOOSE g : Runs(g)
  <1>1. left0 \in [Slot -> Nat]
    BY SourcesAre
  <1>2. R = Rest(left0) /\ R \in Nat
    <2>1. \A n \in 1 .. MaxVenues : n - 1 \in Slot
      BY DepthAssumption DEF Slot
    <2>2. [n \in 1 .. MaxVenues |-> Len(from[n - 1])] = [n \in 1 .. MaxVenues |-> left0[n - 1]]
      BY <2>1
    <2>3. R = Rest(left0)
      BY <2>2, Zenon DEF Rest
    <2>4. \A s \in Slot : left0[s] <= left0[s]
      BY <1>1
    <2> HIDE DEF R, left0
    <2> QED
      BY <1>1, <2>3, <2>4, RestIs
  <1>3. start \in S
    <2>1. \A s \in Slot : left0[s] = Len(from[s]) /\ Len(from[s]) \in Nat
      BY SourcesAre
    <2>2. \A s \in Slot : left0[s] + 1 .. Len(from[s]) = {}
      BY <2>1
    <2>3. <<>> \in Seq(MLevel) /\ Rises(<<>>, ByRank) /\ 1 .. Len(<<>>) = {}
      BY DEF Rises
    <2> HIDE DEF left0
    <2>4. start.left = left0 /\ start.out = <<>> /\ start \in [left : [Slot -> Nat], out : Seq(MLevel)]
      BY <1>1, <2>3
    <2> HIDE DEF start
    <2>5. \A s \in Slot : left0[s] <= Len(from[s])
      BY <2>1
    <2> QED
      BY <2>2, <2>3, <2>4, <2>5 DEF MergeBooksStates
  <1>4. ASSUME NEW m \in S PROVE MergeBooksRound(m, from) \in S
    <2>1. CASE Active(m.left) = {}
      BY <2>1 DEF MergeBooksRound
    <2>2. CASE Active(m.left) # {}
      BY <2>2, RoundKeeps
    <2> QED
      BY <2>1, <2>2
  <1> HIDE DEF R, S, left0
  <1>5. \E g : Runs(g)
    <2> HIDE DEF start
    <2>1. f \in [Nat \X S -> S]
      BY <1>4
    <2>2. PICK g \in [0 .. R -> S] : g = [n \in 0 .. R |-> IF n = 0 THEN start ELSE f[<<n, g[n - 1]>>]]
      <3> HIDE DEF f
      <3>1. Rounds(S, start, f, R) # {}
        BY <1>2, <1>3, <2>1, Loop
      <3> QED
        BY <3>1 DEF Rounds
    <2>3. ASSUME NEW n \in 0 .. R, n # 0 PROVE f[<<n, g[n - 1]>>] = MergeBooksRound(g[n - 1], from)
      <3>1. n - 1 \in 0 .. R /\ n \in Nat
        BY <1>2, <2>3
      <3>2. <<n, g[n - 1]>> \in Nat \X S
        BY <2>2, <3>1
      <3> QED
        BY <3>2
    <2>4. g = [n \in 0 .. R |-> IF n = 0 THEN start ELSE MergeBooksRound(g[n - 1], from)]
      <3> HIDE DEF f
      <3> QED
        BY <2>2, <2>3
    <2>5. Runs(g)
      BY <2>4, Zenon DEF start, left0
    <2> QED
      BY <2>5
  <1>6. Runs(w)
    <2> HIDE DEF Runs
    <2> QED
      BY <1>5, Zenon
  <1>7. MergeBooks(from) = w[R].out
    BY Zenon DEF MergeBooks, R
  <1>8. w[0] = start /\ \A n \in 1 .. R : w[n] = MergeBooksRound(w[n - 1], from)
    <2>1. w = [n \in 0 .. R |-> IF n = 0 THEN start ELSE MergeBooksRound(w[n - 1], from)]
      BY <1>6, Zenon DEF start, left0
    <2> HIDE DEF w, start
    <2> QED
      BY <1>2, <2>1
  <1> HIDE DEF w
  <1> DEFINE T == {n \in 0 .. R : w[n] \in S /\ (Active(w[n].left) = {} \/ Rest(w[n].left) + n <= R)}
  <1>9. 0 \in T
    <2>1. start.left = left0
      OBVIOUS
    <2> HIDE DEF start
    <2>2. Rest(w[0].left) + 0 <= R
      BY <1>2, <1>8, <2>1
    <2>3. w[0] \in S
      BY <1>3, <1>8
    <2> QED
      BY <1>2, <2>2, <2>3
  <1>10. ASSUME NEW n \in 0 .. R - 1, n \in T PROVE n + 1 \in T
    <2>1. n + 1 \in 1 .. R /\ n + 1 \in 0 .. R /\ (n + 1) - 1 = n /\ n \in Nat
      BY <1>2
    <2>2. PICK u, v : u = w[n] /\ v = w[n + 1]
      OBVIOUS
    <2>3. v = MergeBooksRound(u, from) /\ u \in S /\ (Active(u.left) = {} \/ Rest(u.left) + n <= R)
      BY <1>8, <1>10, <2>1, <2>2
    <2>4. v \in S
      BY <1>4, <2>3
    <2>5. CASE Active(u.left) = {}
      <3>1. v = u
        BY <2>3, <2>5 DEF MergeBooksRound
      <3> QED
        BY <2>1, <2>2, <2>4, <2>5, <3>1
    <2>6. CASE Active(u.left) # {}
      <3>1. (\A s \in Slot : v.left[s] <= u.left[s]) /\ \E s \in Slot : v.left[s] < u.left[s]
        BY <2>3, <2>6, RoundKeeps DEF S
      <3>2. u.left \in [Slot -> Nat] /\ v.left \in [Slot -> Nat]
        BY <2>3, <2>4 DEF S, MergeBooksStates
      <3>3. PICK a, b : a = Rest(v.left) /\ b = Rest(u.left)
        OBVIOUS
      <3>4. a \in Nat /\ b \in Nat /\ a < b
        BY <3>1, <3>2, <3>3, RestIs
      <3>5. b + n <= R
        BY <2>3, <2>6, <3>3
      <3>6. a + (n + 1) <= R
        BY <1>2, <2>1, <3>4, <3>5
      <3> QED
        BY <2>1, <2>2, <2>4, <3>3, <3>6
    <2> QED
      BY <2>5, <2>6
  <1>11. \A n \in 0 .. R : n \in T
    <2> HIDE DEF T
    <2> QED
      BY <1>2, <1>9, <1>10, Induct
  <1>12. PICK u : u = w[R]
    OBVIOUS
  <1>13. u \in S /\ (Active(u.left) = {} \/ Rest(u.left) + R <= R)
    BY <1>2, <1>11, <1>12
  <1>14. Active(u.left) = {}
    <2>1. SUFFICES ASSUME NEW t \in Active(u.left), Rest(u.left) + R <= R PROVE FALSE
      BY <1>13
    <2>2. u.left \in [Slot -> Nat] /\ t \in Slot /\ u.left[t] > 0
      BY <1>13 DEF S, MergeBooksStates, Active
    <2>3. PICK z : z = [s \in Slot |-> 0]
      OBVIOUS
    <2>4. z \in [Slot -> Nat] /\ (\A s \in Slot : z[s] <= u.left[s]) /\ z[t] < u.left[t]
      BY <2>2, <2>3
    <2>5. PICK a, b : a = Rest(z) /\ b = Rest(u.left)
      OBVIOUS
    <2>6. a \in Nat /\ b \in Nat /\ a < b
      BY <2>2, <2>4, <2>5, RestIs
    <2> QED
      BY <1>2, <2>1, <2>5, <2>6
  <1>15. Consolidates(u.out, Holdings(from))
    BY <1>13, <1>14, MergeEnds DEF S
  <1> QED
    BY <1>7, <1>12, <1>15

\* A vector has at a price what its book has.
LEMMA RepresentedQty ==
  ASSUME NEW P, NEW q \in Amounts(P), NEW x, Represents(x, P, q), NEW p
  PROVE  QtyAt(x, p) = IF p \in P THEN q[p] ELSE 0
  <1>1. Book(x) /\ (\A n \in 1 .. Len(x) : x[n].price \in P) /\ \A r \in P : QtyAt(x, r) = q[r]
    BY Represented DEF Represents
  <1>2. CASE p \notin P
    <2>1. \A n \in 1 .. Len(x) : x[n].price # p
      BY <1>1, <1>2
    <2> QED
      BY <1>1, <1>2, <2>1, QtyAtIs
  <1> QED
    BY <1>1, <1>2

\* The books hold what the venues had in the table.
Backed(from, table) ==
  \A s \in Slot : table[s] \in Amounts(PricesOf[s]) /\ Represents(from[s], PricesOf[s], table[s])

\* Such vectors can be merged, and hold what the table says.
LEMMA BackedAre ==
  ASSUME NEW from, NEW table, Backed(from, table)
  PROVE  /\ Sources(from)
         /\ Holdings(from) \in Tables
         /\ \A p \in Price, s \in Slot : Holdings(from)[p][s] = IF p \in PricesOf[s] THEN table[s][p] ELSE 0
  <1>1. ASSUME NEW s \in Slot
        PROVE  Book(from[s]) /\ \A i \in 1 .. Len(from[s]) : from[s][i].price \in Price /\ from[s][i].qty # 0
    <2>1. PICK x, P, q : x = from[s] /\ P = PricesOf[s] /\ q = table[s]
      OBVIOUS
    <2>2. q \in Amounts(P) /\ Represents(x, P, q) /\ P \subseteq Price
      BY <2>1 DEF Backed, Price
    <2>3. \A n \in 1 .. Len(x) : x[n].price \in P /\ q[x[n].price] # 0 /\ x[n] = Level(x[n].price, q[x[n].price])
      BY <2>2, Represented
    <2>4. ASSUME NEW n \in 1 .. Len(x) PROVE x[n].price \in Price /\ x[n].qty # 0
      <3>1. PICK r : r = x[n].price
        OBVIOUS
      <3>2. x[n] = Level(r, q[r]) /\ q[r] # 0 /\ r \in P
        BY <2>3, <3>1
      <3>3. x[n].qty = q[r]
        BY <3>2, LevelFields
      <3> QED
        BY <2>2, <3>1, <3>2, <3>3
    <2> QED
      BY <2>1, <2>2, <2>4 DEF Represents
  <1>2. Sources(from)
    BY <1>1 DEF Sources
  <1>3. ASSUME NEW p \in Price, NEW s \in Slot
        PROVE  Holdings(from)[p][s] = IF p \in PricesOf[s] THEN table[s][p] ELSE 0
    <2>1. Holdings(from)[p][s] = QtyAt(from[s], p)
      BY DEF Holdings
    <2>2. QtyAt(from[s], p) = IF p \in PricesOf[s] THEN table[s][p] ELSE 0
      BY RepresentedQty DEF Backed
    <2> QED
      BY <2>1, <2>2
  <1> QED
    BY <1>2, <1>3, SourcesAre

\* The changes of a delta lead from what the venues had to what they have.
LEMMA DeltaLeads ==
  ASSUME NEW from, NEW table, Backed(from, table), NEW to, NEW table2, Backed(to, table2), NEW s \in Slot,
         \A t \in Slot : t # s => table2[t] = table[t],
         NEW changes \in Seq(ChangeRecord), Range(changes) = Transition(PricesOf[s], table[s], table2[s])
  PROVE  Leads(Holdings(from), s, changes, Holdings(to))
  <1>1. PICK A, T, P, q, r : A = Holdings(from) /\ T = Holdings(to) /\ P = PricesOf[s] /\ q = table[s] /\ r = table2[s]
    OBVIOUS
  <1>2. /\ A \in Tables /\ T \in Tables
        /\ \A p \in Price, t \in Slot : A[p][t] = IF p \in PricesOf[t] THEN table[t][p] ELSE 0
        /\ \A p \in Price, t \in Slot : T[p][t] = IF p \in PricesOf[t] THEN table2[t][p] ELSE 0
    BY <1>1, BackedAre
  <1>3. P \subseteq Price /\ DOMAIN changes = 1 .. Len(changes) /\ q \in Amounts(P) /\ r \in Amounts(P)
    BY <1>1 DEF Price, Backed
  <1>4. ASSUME NEW n \in 1 .. Len(changes)
        PROVE  changes[n].price \in P /\ changes[n].new = r[changes[n].price]
    <2>1. changes[n] \in Transition(P, q, r)
      BY <1>1, <1>3 DEF Range
    <2>2. PICK p \in P : changes[n] = Change(p, q[p], r[p])
      BY <2>1 DEF Transition
    <2>3. changes[n].price = p /\ changes[n].new = r[p]
      BY <2>2 DEF Change
    <2> QED
      BY <2>3
  <1>5. ASSUME NEW p \in P, q[p] # r[p] PROVE \E n \in 1 .. Len(changes) : changes[n].price = p
    <2>1. Change(p, q[p], r[p]) \in Range(changes)
      BY <1>1, <1>5 DEF Transition
    <2>2. PICK n \in 1 .. Len(changes) : changes[n] = Change(p, q[p], r[p])
      BY <1>3, <2>1 DEF Range
    <2> QED
      BY <2>2 DEF Change
  <1>6. ASSUME NEW p \in Price
        PROVE  T[p] = With(A[p], s, IF p \in P THEN r[p] ELSE 0)
    <2>1. A[p] \in [Slot -> Nat] /\ T[p] \in [Slot -> Nat]
      BY <1>2 DEF Tables
    <2>2. \A t \in Slot : t # s => T[p][t] = A[p][t]
      BY <1>2
    <2>3. T[p][s] = IF p \in P THEN r[p] ELSE 0
      BY <1>1, <1>2
    <2> QED
      BY <2>1, <2>2, <2>3 DEF With
  <1>7. ASSUME NEW p \in Price, \A n \in 1 .. Len(changes) : changes[n].price # p
        PROVE  T[p] = A[p]
    <2>1. A[p][s] = IF p \in P THEN q[p] ELSE 0
      BY <1>1, <1>2
    <2>2. p \in P => q[p] = r[p]
      BY <1>5, <1>7
    <2>3. A[p] \in [Slot -> Nat]
      BY <1>2 DEF Tables
    <2>4. With(A[p], s, A[p][s]) = A[p]
      BY <2>3 DEF With
    <2>5. T[p] = With(A[p], s, A[p][s])
      BY <1>6, <2>1, <2>2
    <2> QED
      BY <2>4, <2>5
  <1>8. ASSUME NEW n \in 1 .. Len(changes)
        PROVE  changes[n].price \in Price /\ T[changes[n].price] = With(A[changes[n].price], s, changes[n].new)
    <2>1. PICK p : p = changes[n].price
      OBVIOUS
    <2>2. p \in P /\ p \in Price /\ changes[n].new = r[p]
      BY <1>3, <1>4, <2>1
    <2>3. T[p] = With(A[p], s, changes[n].new)
      BY <1>6, <2>2
    <2> QED
      BY <2>1, <2>2, <2>3
  <1>9. Leads(A, s, changes, T)
    BY <1>7, <1>8 DEF Leads
  <1> QED
    BY <1>1, <1>9

\* The consolidated book, while it is not to be rebuilt, is that of the vectors of
\* the venues.
StateInv ==
  /\ needsRebuild \in BOOLEAN
  /\ ~needsRebuild => Consolidates(state, Holdings(books))

\* What makes a consolidated book changes only with the side.
LEMMA SameBook ==
  ASSUME side' = side, NEW x, NEW A
  PROVE  Consolidates(x, A)' <=> Consolidates(x, A)
  <1>1. ByRank' = ByRank
    BY DEF ByRank, Better, StorageLess
  <1> QED
    BY <1>1 DEF Consolidates, Rises

\* There is nothing to be kept before the first rebuild.
LEMMA StateInvInitially == Init => StateInv
  BY DEF Init, StateInv

\* That is what a client is shown, between two messages.
LEMMA StateIsShown ==
  ASSUME BooksInv, StateInv
  PROVE  StateIsExact
  <1> SUFFICES ASSUME message = Nothing, ~needsRebuild
               PROVE  /\ Ordered(state, Better)
                      /\ {state[n].price : n \in DOMAIN state} = {p \in Price : Quoting(p) # {}}
                      /\ \A n \in DOMAIN state :
                           LET level == state[n]
                           IN  /\ Range(level.venues) = {Contribution(s, market[s][level.price]) : s \in Quoting(level.price)}
                               /\ \A k, l \in DOMAIN level.venues : k < l => level.venues[k].slot < level.venues[l].slot
                               /\ level.qty = Total(level.venues)
    BY Zenon DEF StateIsExact
  <1>1. PICK x, H : x = state /\ H = Holdings(books)
    OBVIOUS
  <1>2. Consolidates(x, H)
    BY <1>1 DEF StateInv
  <1>3. /\ x \in Seq(MLevel) /\ Len(x) \in Nat /\ DOMAIN x = 1 .. Len(x)
        /\ \A n \in 1 .. Len(x) : x[n].price \in Price /\ Entry(x[n].price, H[x[n].price], x[n]) /\ Quoted(H[x[n].price])
        /\ \A m, n \in 1 .. Len(x) : m < n => Better(x[m].price, x[n].price)
        /\ \A p \in Price : Quoted(H[p]) => \E n \in 1 .. Len(x) : x[n].price = p
    BY <1>2, ConsolidatesIs
  <1>4. Backed(books, market)
    BY DEF BooksInv, UpdateUnderWay, Backed
  <1>5. /\ H \in Tables
        /\ \A p \in Price, s \in Slot : H[p][s] = IF p \in PricesOf[s] THEN market[s][p] ELSE 0
    BY <1>1, <1>4, BackedAre
  <1>6. ASSUME NEW p \in Price
        PROVE  /\ \A s \in Slot : s \in Quoting(p) <=> H[p][s] # 0
               /\ \A s \in Quoting(p) : s \in Slot /\ H[p][s] = market[s][p]
               /\ Quoted(H[p]) <=> Quoting(p) # {}
    <2>1. \A s \in Slot : s \in Quoting(p) <=> H[p][s] # 0
      BY <1>5 DEF Quoting
    <2>2. \A s \in Quoting(p) : s \in Slot /\ H[p][s] = market[s][p]
      BY <1>5 DEF Quoting
    <2> QED
      BY <2>1, <2>2 DEF Quoted
  <1>7. Ordered(state, Better)
    BY <1>1, <1>3 DEF Ordered
  <1>8. {state[n].price : n \in DOMAIN state} = {p \in Price : Quoting(p) # {}}
    <2>1. \A n \in 1 .. Len(x) : x[n].price \in Price /\ Quoting(x[n].price) # {}
      BY <1>3, <1>6
    <2>2. \A p \in Price : Quoting(p) # {} => \E n \in 1 .. Len(x) : x[n].price = p
      BY <1>3, <1>6
    <2> QED
      BY <1>1, <1>3, <2>1, <2>2
  <1>9. ASSUME NEW n \in DOMAIN state
        PROVE  /\ Range(state[n].venues) = {Contribution(s, market[s][state[n].price]) : s \in Quoting(state[n].price)}
               /\ \A k, l \in DOMAIN state[n].venues : k < l => state[n].venues[k].slot < state[n].venues[l].slot
               /\ state[n].qty = Total(state[n].venues)
    <2>1. PICK e, p, v, h : e = state[n] /\ p = e.price /\ v = e.venues /\ h = H[p]
      OBVIOUS
    <2>2. p \in Price /\ Entry(p, h, e) /\ h \in [Slot -> Nat]
      BY <1>1, <1>3, <1>5, <2>1 DEF Tables
    <2>3. Lists(v, h) /\ e.qty = Total(v)
      BY <2>1, <2>2, EntryIs
    <2>4. v \in Seq(Share) /\ DOMAIN v = 1 .. Len(v) /\ \A k, l \in 1 .. Len(v) : k < l => v[k].slot < v[l].slot
      BY <2>2, <2>3, ListsIs
    <2>5. Range(v) = {Contribution(s, market[s][p]) : s \in Quoting(p)}
      <3>1. Range(v) = {Contribution(s, h[s]) : s \in {s \in Slot : h[s] # 0}}
        BY <2>3 DEF Lists, Shares
      <3>2. {s \in Slot : h[s] # 0} = Quoting(p)
        BY <1>6, <2>1, <2>2
      <3>3. \A s \in Quoting(p) : h[s] = market[s][p]
        BY <1>6, <2>1, <2>2
      <3> QED
        BY <3>1, <3>2, <3>3
    <2> QED
      BY <2>1, <2>3, <2>4, <2>5
  <1> QED
    BY <1>7, <1>8, <1>9

\* What an update makes of the consolidated book.
LEMMA UpdateConsolidated ==
  ASSUME WireInv, BooksInv, StateInv, UpdateUnderWay, ProcessUpdate(slot, message.body)
  PROVE  needsRebuild' = FALSE /\ Consolidates(state', Holdings(books'))
  <1>1. PICK q, isSnapshot, N, qty, levels : Sent(slot, q, isSnapshot, N, qty, levels)
    BY DEF WireInv, BooksInv
  <1>2. slot \in Slot /\ side \in {"bids", "asks"}
    BY DEF WireInv
  <1>3. PICK from, to, changes, table : /\ from = books /\ to = books' /\ changes = ApplyUpdate(slot, message.body).changes
                                        /\ table = [t \in Slot |-> IF t = slot THEN q ELSE market[t]]
    OBVIOUS
  <1>4. /\ to = [from EXCEPT ![slot] = ApplyUpdate(slot, message.body).levels]
        /\ state' = IF message.body.isSnapshot \/ needsRebuild THEN MergeBooks(to)
                    ELSE ApplyDepthDelta(state, slot, changes)
        /\ needsRebuild' = FALSE
    BY <1>3, Zenon DEF ProcessUpdate
  <1>5. /\ Represents(ApplyUpdate(slot, message.body).levels, PricesOf[slot], market[slot])
        /\ market[slot] \in Amounts(PricesOf[slot])
        /\ message.body.isSnapshot = isSnapshot
        /\ ~isSnapshot => changes \in Seq(ChangeRecord) /\ Range(changes) = Transition(PricesOf[slot], q, market[slot])
    BY <1>1, <1>2, <1>3, UpdateApplied
  <1>6. \A t \in Slot : t # slot => Represents(from[t], PricesOf[t], market[t]) /\ market[t] \in Amounts(PricesOf[t])
    BY <1>3 DEF BooksInv
  <1>7. q \in Amounts(PricesOf[slot]) /\ Represents(from[slot], PricesOf[slot], q)
    BY <1>1, <1>3 DEF Sent
  <1>8. Backed(from, table)
    BY <1>3, <1>6, <1>7 DEF Backed
  <1>9. Backed(to, market)
    <2>1. DOMAIN from = Slot
      BY <1>3 DEF BooksInv
    <2>2. \A t \in Slot : to[t] = IF t = slot THEN ApplyUpdate(slot, message.body).levels ELSE from[t]
      BY <1>4, <2>1
    <2> QED
      BY <1>5, <1>6, <2>2 DEF Backed
  <1>10. CASE message.body.isSnapshot \/ needsRebuild
    <2>1. Sources(to)
      BY <1>9, BackedAre
    <2> QED
      BY <1>3, <1>4, <1>10, <2>1, MergeBooksIs
  <1>11. CASE ~(message.body.isSnapshot \/ needsRebuild)
    <2>1. Leads(Holdings(from), slot, changes, Holdings(to))
      <3>1. table[slot] = q /\ \A t \in Slot : t # slot => market[t] = table[t]
        BY <1>2, <1>3
      <3>2. changes \in Seq(ChangeRecord) /\ Range(changes) = Transition(PricesOf[slot], table[slot], market[slot])
        BY <1>5, <1>11, <3>1
      <3> QED
        BY <1>2, <1>8, <1>9, <3>1, <3>2, DeltaLeads
    <2>2. Consolidates(state, Holdings(from))
      BY <1>3, <1>11 DEF StateInv
    <2>3. Holdings(from) \in Tables /\ Holdings(to) \in Tables
      BY <1>8, <1>9, BackedAre
    <2>4. Consolidates(ApplyDepthDelta(state, slot, changes), Holdings(to))
      BY <1>2, <2>1, <2>2, <2>3, DeltaFolded
    <2> QED
      BY <1>3, <1>4, <1>11, <2>4
  <1> QED
    BY <1>4, <1>10, <1>11

\* Every step keeps that: an update that rebuilds, one that is folded in, and any
\* other message.
LEMMA StateInvKept ==
  ASSUME WireInv, BooksInv, StateInv, [Next]_vars
  PROVE  StateInv'
  <1>1. ASSUME UNCHANGED <<side, books, state, needsRebuild>> PROVE StateInv'
    <2>1. PICK x, A : x = state /\ A = Holdings(books)
      OBVIOUS
    <2>2. state' = x /\ Holdings(books)' = A
      <3>1. Holdings(books)' = Holdings(books')
        OBVIOUS
      <3>2. books' = books /\ state' = state
        BY <1>1
      <3> QED
        BY <2>1, <3>1, <3>2
    <2>3. Consolidates(x, A)' <=> Consolidates(x, A)
      BY <1>1, SameBook
    <2>4. Consolidates(state, Holdings(books))' <=> Consolidates(x, A)'
      BY <2>2 DEF Consolidates, Rises
    <2> QED
      BY <1>1, <2>1, <2>3, <2>4 DEF StateInv
  <1>2. ASSUME NEW s \in Slot, NEW isSnapshot \in BOOLEAN, SendUpdate(s, isSnapshot) PROVE StateInv'
    <2>1. UNCHANGED <<side, books, state, needsRebuild>>
      BY <1>2 DEF SendUpdate, Send, bookVars
    <2> QED
      BY <1>1, <2>1
  <1>3. ASSUME NEW s \in Slot, SendOther(s) PROVE StateInv'
    <2>1. UNCHANGED <<side, books, state, needsRebuild>>
      BY <1>3 DEF SendOther, Send, bookVars
    <2> QED
      BY <1>1, <2>1
  <1>4. CASE ReceiveUpdate
    <2>1. message \in Messages /\ message.type = "kBookUpdate" /\ side' = side /\ frame = Encode(message)
      <3>1. frame # <<>>
        BY <1>4 DEF ReceiveUpdate, Received, DecodeHeader, Fits
      <3>2. message \in Messages /\ frame = Encode(message)
        BY <3>1 DEF WireInv
      <3> QED
        BY <1>4, <3>2, FrameBegins DEF ReceiveUpdate, Received
    <2>2. message.body \in BookUpdate /\ frame = EncodeBookUpdate(message.body)
      BY <2>1, ByType
    <2>3. PICK out \in Leftover : ProcessUpdate(slot, DecodeBookUpdate(frame, out).out)
      BY <1>4 DEF ReceiveUpdate
    <2>4. DecodeBookUpdate(frame, out) = Decoded(message.body)
      BY <2>2, UpdateReturns, DepthAssumption
    <2>5. ProcessUpdate(slot, message.body)
      BY <2>3, <2>4 DEF Decoded
    <2>6. UpdateUnderWay
      BY <2>1, DepthAssumption DEF UpdateUnderWay
    <2>7. needsRebuild' = FALSE /\ Consolidates(state', Holdings(books'))
      BY <2>5, <2>6, UpdateConsolidated
    <2>8. PICK x, A : x = state' /\ A = Holdings(books')
      OBVIOUS
    <2>9. Holdings(books)' = A
      <3>1. Holdings(books)' = Holdings(books')
        OBVIOUS
      <3> QED
        BY <2>8, <3>1
    <2>10. Consolidates(x, A)'
      BY <2>1, <2>7, <2>8, SameBook
    <2>11. Consolidates(state, Holdings(books))' <=> Consolidates(x, A)'
      BY <2>8, <2>9 DEF Consolidates, Rises
    <2> QED
      BY <2>7, <2>10, <2>11 DEF StateInv
  <1>5. CASE ReceiveOther
    <2>1. UNCHANGED <<side, books, state, needsRebuild>>
      BY <1>5 DEF ReceiveOther, Received, bookVars
    <2> QED
      BY <1>1, <2>1
  <1>6. CASE UNCHANGED vars
    BY <1>1, <1>6 DEF vars, bookVars
  <1> QED
    BY <1>2, <1>3, <1>4, <1>5, <1>6 DEF Next

\* The consolidated vector, repaired change by change, is what a merge of the venues'
\* own books gives: best price first, no price missing and none left over, every
\* attribution in the order of the slots and every total right (State::ApplyDepthDelta
\* and ApplyOneChange against MergeBooks).
THEOREM StateCorrect == Spec => []StateIsExact
  <1>1. Spec => []StateInv
    BY StateInvInitially, StateInvKept, WireCorrect, BooksInvCorrect, PTL DEF Spec
  <1> QED
    BY <1>1, StateIsShown, BooksInvCorrect, PTL
============================================================================
