-------------------------- MODULE ProviderProofs --------------------------
(***************************************************************************)
(* Proofs about one venue provider, for every number of events, sockets,   *)
(* snapshot attempts and reconnections: its state is well typed, it never  *)
(* leaves ioc.run with a stream announced live, and with one socket no     *)
(* update is missing from what Core has.                                   *)
(***************************************************************************)
EXTENDS Provider, SequenceTheorems, WellFoundedInduction, TLAPS

USE DEF vars, linkVars, healthVars, syncVars, restVars, coreVars

---------------------------------------------------------------------------
(* Types.                                                                   *)

\* The type invariant, with what bounds the two counters: attempts are counted
\* from the request of the first snapshot on, and a worker that has not given
\* up has reconnections left.
TypeInv ==
  /\ TypeOK
  /\ ~snapshotRequested => attempts = 0
  /\ worker # "stopped" => reconnectCount <= MaxReconnects

\* The bounds are numbers.
LEMMA Bounds ==
  /\ MaxEvents \in Nat /\ RestLag \in Nat /\ MaxPending \in Nat
  /\ MaxAttempts \in Nat /\ MaxAttempts > 0
  /\ MaxReconnects \in Nat /\ MaxFetches \in Nat
  BY ProviderAssumption

\* The scan of the buffer stops somewhere: at the first event after the
\* snapshot, or behind the last one.
LEMMA FirstAfterIs ==
  ASSUME pending \in Seq(Event), NEW id \in Id
  PROVE  /\ FirstAfter(id) \in 1 .. Len(pending) + 1
         /\ \A j \in 1 .. FirstAfter(id) - 1 : LastId(pending[j]) <= id
         /\ FirstAfter(id) <= Len(pending) => LastId(pending[FirstAfter(id)]) > id
  <1> DEFINE Later == {i \in 1 .. Len(pending) : LastId(pending[i]) > id} \cup {Len(pending) + 1}
  <1>0. Len(pending) \in Nat
    OBVIOUS
  <1>1. Later \subseteq Nat /\ Later # {}
    BY <1>0
  <1>2. IsWellFoundedOn(OpToRel(<, Nat), Nat)
    BY NatLessThanWellFounded
  <1>3. PICK k \in Later : \A j \in Later : ~(<<j, k>> \in OpToRel(<, Nat))
    <2> HIDE DEF Later
    <2> QED
      BY <1>1, <1>2, WFMin
  <1>4. \A j \in Later : ~(j < k)
    BY <1>1, <1>3 DEF OpToRel
  <1>5. k \in 1 .. Len(pending) + 1 /\ (k <= Len(pending) => LastId(pending[k]) > id)
    BY <1>0
  <1>6. ASSUME NEW j \in 1 .. k - 1
        PROVE  LastId(pending[j]) <= id
    <2>1. j \in 1 .. Len(pending) /\ j < k
      BY <1>0, <1>5
    <2>2. j \notin Later
      BY <1>4, <2>1
    <2>3. LastId(pending[j]) \in Nat /\ id \in Nat
      BY <2>1, Bounds DEF LastId, Event, Id
    <2> QED
      BY <2>1, <2>2, <2>3
  <1>7. \E i \in 1 .. Len(pending) + 1 :
          /\ \A j \in 1 .. i - 1 : LastId(pending[j]) <= id
          /\ i <= Len(pending) => LastId(pending[i]) > id
    <2> HIDE DEF Later
    <2> QED
      BY <1>5, <1>6, Zenon
  <1> QED
    BY <1>7, Zenon DEF FirstAfter

\* The survivors are the end of the buffer.
LEMMA SurvivorsAre ==
  ASSUME pending \in Seq(Event), NEW id \in Id, NEW m, m = FirstAfter(id) - 1
  PROVE  /\ m \in 0 .. Len(pending)
         /\ Survivors(id) \in Seq(Event)
         /\ Len(Survivors(id)) = Len(pending) - m
         /\ \A i \in 1 .. Len(pending) - m : Survivors(id)[i] = pending[i + m]
         /\ \A j \in 1 .. m : LastId(pending[j]) <= id
         /\ m < Len(pending) => LastId(pending[m + 1]) > id
  <1>0. Len(pending) \in Nat
    OBVIOUS
  <1>1. PICK f : f = FirstAfter(id)
    OBVIOUS
  <1>2. /\ f \in 1 .. Len(pending) + 1
        /\ \A j \in 1 .. f - 1 : LastId(pending[j]) <= id
        /\ f <= Len(pending) => LastId(pending[f]) > id
    BY <1>1, FirstAfterIs, Zenon
  <1>3. m = f - 1 /\ f = m + 1 /\ m \in 0 .. Len(pending)
    BY <1>0, <1>1, <1>2
  <1>4. Survivors(id) = SubSeq(pending, f, Len(pending))
    BY <1>1 DEF Survivors
  <1>5. \A i \in f .. Len(pending) : pending[i] \in Event
    BY <1>2
  <1>6. /\ SubSeq(pending, f, Len(pending)) \in Seq(Event)
        /\ Len(SubSeq(pending, f, Len(pending))) = Len(pending) - m
        /\ \A i \in 1 .. Len(pending) - m : SubSeq(pending, f, Len(pending))[i] = pending[i + m]
    BY <1>0, <1>2, <1>3, <1>5
  <1> QED
    BY <1>2, <1>3, <1>4, <1>6

\* The synchronisation starts over.
LEMMA StartOver ==
  ASSUME OnReconnect
  PROVE  /\ syncState' \in {"kSyncing", "kLive"} /\ snapshotRequested' \in BOOLEAN
         /\ attempts' \in 0 .. MaxAttempts /\ attempts' = 0
         /\ pending' \in Seq(Event) /\ pending' = <<>> /\ Len(pending') = 0 /\ Len(pending') <= MaxPending
         /\ lastU' \in Id
  <1>1. pending' \in Seq(Event) /\ pending' = <<>> /\ Len(pending') = 0
    BY DEF OnReconnect
  <1>2. Len(pending') <= MaxPending
    BY <1>1, Bounds
  <1>3. attempts' = 0 /\ lastU' = 0 /\ snapshotRequested' = FALSE /\ syncState' = "kSyncing"
    BY DEF OnReconnect
  <1>4. attempts' \in 0 .. MaxAttempts /\ lastU' \in Id
    BY <1>3, Bounds DEF Id
  <1>5. snapshotRequested' \in BOOLEAN /\ syncState' \in {"kSyncing", "kLive"}
    BY <1>3
  <1> QED
    BY <1>1, <1>2, <1>3, <1>4, <1>5

\* Appending to a sequence, and dropping its head.
LEMMA Longer ==
  ASSUME NEW S, NEW q \in Seq(S), NEW x \in S
  PROVE  /\ Append(q, x) \in Seq(S)
         /\ Len(Append(q, x)) = Len(q) + 1
         /\ \A i \in 1 .. Len(q) : Append(q, x)[i] = q[i]
         /\ Append(q, x)[Len(q) + 1] = x
  OBVIOUS

LEMMA Shorter ==
  ASSUME NEW S, NEW q \in Seq(S), q # <<>>
  PROVE  /\ Len(q) \in Nat /\ Len(q) > 0
         /\ Head(q) \in S
         /\ Tail(q) \in Seq(S)
         /\ Len(Tail(q)) = Len(q) - 1
  OBVIOUS

\* The ids of an event are ids.
LEMMA EventIds ==
  ASSUME NEW k \in Event
  PROVE  FirstId(k) \in Id /\ LastId(k) \in Id
  BY Bounds DEF Event, Id, FirstId, LastId

\* So is the last id of some events.
LEMMA LastIdTyped ==
  ASSUME NEW q \in Seq(Event), NEW id \in Id
  PROVE  (IF q = <<>> THEN id ELSE LastId(Last(q))) \in Id
  <1>1. ASSUME q # <<>>
        PROVE  Last(q) \in Event
    BY <1>1 DEF Last
  <1> QED
    BY <1>1, EventIds

\* A verdict is a verdict.
LEMMA Verdicts ==
  ASSUME TypeOK, NEW s \in Stream
  PROVE  /\ Promoted(s) \in [Stream -> VenueHealth]
         /\ ClassifyFeed(s) \in VenueHealth
  <1>1. Promoted(s) \in [Stream -> VenueHealth]
    BY DEF TypeOK, Promoted, VenueHealth
  <1>2. ClassifyFeed(s) \in VenueHealth
    BY DEF TypeOK, ClassifyFeed, VenueHealth
  <1> QED
    BY <1>1, <1>2

\* A message that arrives moves its socket and stamps its stream.
LEMMA Arrival ==
  ASSUME TypeOK, NEW c \in Connection, DepthArrives(c)
  PROVE  /\ worker = "run" /\ link[c] = "open" /\ c \in Live
         /\ next[c] \in Event /\ LastId(next[c]) \in Id /\ FirstId(next[c]) \in Id
         /\ LastId(next[c]) <= now
         /\ next' = [next EXCEPT ![c] = next[c] + 1]
         /\ next' \in [Connection -> 0 .. MaxEvents + 1]
         /\ stamp' \in [Stream -> {"none", "fresh", "old"}]
         /\ heard' \in SUBSET Stream
  <1>1. /\ worker = "run" /\ link[c] = "open" /\ next[c] \in Event /\ LastId(next[c]) <= now
        /\ next' = [next EXCEPT ![c] = next[c] + 1]
        /\ stamp' = [stamp EXCEPT !["depth"] = "fresh"]
        /\ heard' = heard \cup {"depth"}
    BY DEF DepthArrives, NoteActivity
  <1>2. LastId(next[c]) \in Id /\ FirstId(next[c]) \in Id
    BY <1>1, EventIds
  <1>3. next' \in [Connection -> 0 .. MaxEvents + 1]
    BY <1>1, Bounds DEF TypeOK, Event
  <1>4. stamp' \in [Stream -> {"none", "fresh", "old"}] /\ heard' \in SUBSET Stream
    BY <1>1 DEF TypeOK, Stream
  <1>5. c \in Live
    BY <1>1 DEF TypeOK, DepthArrives, Live
  <1> QED
    BY <1>1, <1>2, <1>3, <1>4, <1>5

\* A snapshot is requested at most once per synchronisation, and counted.
LEMMA Fetching ==
  ASSUME TypeInv, FetchOnce, posted' = posted
  PROVE  /\ snapshotRequested' \in BOOLEAN /\ attempts' \in 0 .. MaxAttempts
         /\ fetches' \in 0 .. MaxFetches /\ fetches' + Len(posted') <= MaxFetches
         /\ ~snapshotRequested' => attempts' = 0
  <1>1. Len(posted) \in Nat
    BY DEF TypeInv, TypeOK
  <1>2. /\ attempts \in 0 .. MaxAttempts /\ fetches \in 0 .. MaxFetches
        /\ fetches + Len(posted) <= MaxFetches
        /\ ~snapshotRequested => attempts = 0
        /\ snapshotRequested \in BOOLEAN
    BY DEF TypeInv, TypeOK
  <1>3. CASE snapshotRequested
    <2>1. snapshotRequested' = snapshotRequested /\ attempts' = attempts /\ fetches' = fetches
      BY <1>3 DEF FetchOnce
    <2> QED
      BY <1>2, <2>1
  <1>4. CASE ~snapshotRequested
    <2>1. /\ snapshotRequested' = TRUE /\ attempts' = attempts + 1 /\ fetches' = fetches + 1
          /\ fetches + Len(posted) < MaxFetches
      BY <1>4 DEF FetchOnce, FetchSnapshotAsync
    <2>2. /\ attempts' \in 0 .. MaxAttempts
          /\ fetches' \in 0 .. MaxFetches /\ fetches' + Len(posted') <= MaxFetches
      BY <1>1, <1>2, <1>4, <2>1, Bounds
    <2> QED
      BY <2>1, <2>2
  <1> QED
    BY <1>3, <1>4

\* The initial state is well typed.
LEMMA InitTyped == Init => TypeInv
  <1> SUFFICES ASSUME Init
               PROVE  TypeInv
    OBVIOUS
  <1>1. /\ <<>> \in Seq(Event) /\ Len(<<>>) = 0
        /\ <<>> \in Seq(Id \cup {Failed})
    OBVIOUS
  <1>2. futures \in BOOLEAN /\ 0 \in Id
    BY ProviderAssumption, Bounds DEF Init, Id
  <1>3. pending \in Seq(Event) /\ Len(pending) = 0 /\ posted \in Seq(Id \cup {Failed}) /\ Len(posted) = 0
    BY <1>1 DEF Init
  <1>4. /\ fetches \in 0 .. MaxFetches /\ fetches + Len(posted) <= MaxFetches
        /\ Len(pending) <= MaxPending /\ attempts \in 0 .. MaxAttempts
        /\ reconnectCount \in 0 .. MaxReconnects + 1 /\ reconnectCount <= MaxReconnects
        /\ next \in [Connection -> 0 .. MaxEvents + 1]
    BY <1>3, Bounds DEF Init
  <1>5. TypeOK
    BY <1>2, <1>3, <1>4 DEF Init, TypeOK, Stream, VenueHealth
  <1> QED
    BY <1>4, <1>5 DEF Init, TypeInv

\* Every step keeps the state well typed.
LEMMA TypeStep == TypeInv /\ [Next]_vars => TypeInv'
  <1> SUFFICES ASSUME TypeInv, [Next]_vars
               PROVE  TypeInv'
    OBVIOUS
  <1>0. TypeOK
    BY DEF TypeInv
  <1>1. CASE UNCHANGED vars
    BY <1>1, <1>0 DEF TypeInv, TypeOK
  <1>2. CASE Next
    <2>0. Step /\ futures' = futures
      BY <1>2 DEF Next
    <2>1. CASE Tick
      BY <2>0, <2>1, <1>0, Bounds DEF Tick, TypeInv, TypeOK, Id
    <2>2. CASE StartRun
      <3>1. OnReconnect /\ depthDedup' \in Id
        BY <2>2, Bounds DEF StartRun, Id
      <3> QED
        BY <2>0, <2>2, <3>1, <1>0, Bounds, StartOver DEF StartRun, TypeInv, TypeOK, Stream
    <2>3. CASE RunReturns
      BY <2>0, <2>3, <1>0, Bounds DEF RunReturns, TypeInv, TypeOK
    <2>4. CASE LingeringEnds
      BY <2>0, <2>4, <1>0 DEF LingeringEnds, TypeInv, TypeOK
    <2>5. CASE CheckHealth
      BY <2>0, <2>5, <1>0, Verdicts DEF CheckHealth, TypeInv, TypeOK
    <2>6. CASE RestAnswers
      <3>1. PICK result \in Id \cup {Failed} : posted' = Append(posted, result)
        BY <2>6 DEF RestAnswers
      <3>2. posted' \in Seq(Id \cup {Failed}) /\ Len(posted') = Len(posted) + 1
        BY <3>1, <1>0, Longer DEF TypeOK
      <3> QED
        BY <3>2, <2>0, <2>6, <1>0, Bounds DEF RestAnswers, TypeInv, TypeOK
    <2>7. CASE JoinSnapshot
      <3>0. PICK id : id = Head(posted)
        OBVIOUS
      <3>1. /\ posted' \in Seq(Id \cup {Failed}) /\ Len(posted') = Len(posted) - 1
            /\ Len(posted) \in Nat
            /\ id \in Id
        BY <2>7, <3>0, <1>0, Shorter DEF JoinSnapshot, Joins, TypeOK
      <3>2. /\ Survivors(id) \in Seq(Event) /\ pending \in Seq(Event)
            /\ EmitSnapshot(id, Survivors(id))
            /\ \E seen \in {pending, Survivors(id)} :
                 lastU' = IF seen = <<>> THEN id ELSE LastId(Last(seen))
        BY <2>7, <3>0, <3>1, <1>0, SurvivorsAre DEF JoinSnapshot, TypeOK
      <3>3. lastU' \in Id
        BY <3>1, <3>2, LastIdTyped
      <3>4. newest' \in Id
        BY <3>1, <3>2, LastIdTyped DEF EmitSnapshot
      <3>5. reflected' \in SUBSET Id
        <4> HIDE DEF Id
        <4>1. \A k \in ToSet(Survivors(id)) : FirstId(k) \in Id /\ LastId(k) \in Id
          BY <3>2, EventIds DEF ToSet
        <4>2. 1 .. id \subseteq Id
          BY <3>1, Bounds DEF Id
        <4> QED
          BY <3>2, <4>1, <4>2 DEF EmitSnapshot
      <3>6. pending' \in Seq(Event) /\ Len(pending') = 0 /\ syncState' \in {"kSyncing", "kLive"}
        BY <2>7 DEF JoinSnapshot
      <3>7. /\ fetches' + Len(posted') <= MaxFetches /\ fetches' \in 0 .. MaxFetches
            /\ Len(pending') <= MaxPending
        <4>1. fetches' = fetches /\ fetches \in 0 .. MaxFetches /\ fetches + Len(posted) <= MaxFetches
          BY <2>7, <1>0 DEF JoinSnapshot, TypeOK
        <4> QED
          BY <4>1, <3>1, <3>6, Bounds
      <3> QED
        BY <2>0, <2>7, <3>1, <3>3, <3>4, <3>5, <3>6, <3>7, <1>0 DEF JoinSnapshot, TypeInv, TypeOK
    <2>8. CASE RejectSnapshot
      <3>1. /\ posted' \in Seq(Id \cup {Failed}) /\ Len(posted') = Len(posted) - 1
            /\ Len(posted) \in Nat
        BY <2>8, <1>0, Shorter DEF RejectSnapshot, TypeOK
      <3>2. CASE attempts >= MaxAttempts
        <4>1. /\ health' \in [Stream -> VenueHealth] /\ lingering' \in BOOLEAN
              /\ link' \in [Connection -> {"none", "connecting", "open", "closed"}]
              /\ worker' = "start" /\ worker = "run"
          BY <2>8, <3>2, <1>0 DEF RejectSnapshot, RequestResync, VenueHealth, TypeOK
        <4> QED
          BY <2>0, <2>8, <3>1, <3>2, <4>1, <1>0, Bounds DEF RejectSnapshot, TypeInv, TypeOK
      <3>3. CASE ~(attempts >= MaxAttempts)
        <4>1. /\ snapshotRequested' = TRUE /\ attempts' = attempts + 1 /\ fetches' = fetches + 1
              /\ worker' = worker /\ health' = health /\ link' = link /\ lingering' = lingering
              /\ next' = next
          BY <2>8, <3>3 DEF RejectSnapshot, FetchSnapshotAsync
        <4>2. /\ attempts' \in 0 .. MaxAttempts /\ fetches' \in 0 .. MaxFetches
              /\ fetches' + Len(posted') <= MaxFetches
          BY <3>1, <3>3, <4>1, <1>0, Bounds DEF TypeOK
        <4> QED
          BY <2>0, <2>8, <3>1, <4>1, <4>2, <1>0 DEF RejectSnapshot, TypeInv, TypeOK
      <3> QED
        BY <3>2, <3>3
    <2>9. ASSUME NEW s \in Stream, Age(s)
          PROVE  TypeInv'
      BY <2>0, <2>9, <1>0 DEF Age, TypeInv, TypeOK
    <2>10. ASSUME NEW c \in Connection, OnHandshake(c)
           PROVE  TypeInv'
      BY <2>0, <2>10, <1>0, Bounds DEF OnHandshake, TypeInv, TypeOK, Id
    <2>11. ASSUME NEW c \in Connection, OnCombinedSessionClosed(c)
           PROVE  TypeInv'
      <3>1. CASE OnReconnect
        BY <2>0, <2>11, <3>1, <1>0, StartOver DEF OnCombinedSessionClosed, TypeInv, TypeOK
      <3>2. CASE UNCHANGED syncVars
        BY <2>0, <2>11, <3>2, <1>0 DEF OnCombinedSessionClosed, TypeInv, TypeOK
      <3> QED
        BY <2>11, <3>1, <3>2 DEF OnCombinedSessionClosed
    <2>12. ASSUME NEW c \in Connection, OnBboMessage(c)
           PROVE  TypeInv'
      BY <2>0, <2>12, <1>0, Verdicts DEF OnBboMessage, NoteActivity, TypeInv, TypeOK, Stream
    <2>13. ASSUME NEW c \in Connection, DropDuplicate(c)
           PROVE  TypeInv'
      BY <2>0, <2>13, <1>0, Verdicts, Arrival DEF DropDuplicate, TypeInv, TypeOK, Stream
    <2>14. ASSUME NEW c \in Connection, BufferEvent(c)
           PROVE  TypeInv'
      <3>1. DepthArrives(c) /\ FetchOnce /\ posted' = posted
        BY <2>14 DEF BufferEvent
      <3>2. /\ snapshotRequested' \in BOOLEAN /\ attempts' \in 0 .. MaxAttempts
            /\ fetches' \in 0 .. MaxFetches /\ fetches' + Len(posted') <= MaxFetches
            /\ ~snapshotRequested' => attempts' = 0
        BY <3>1, Fetching
      <3>3. pending' \in Seq(Event) /\ Len(pending') <= MaxPending
        <4>1. next[c] \in Event
          BY <3>1, <1>0, Arrival
        <4>2. pending' = Append(pending, next[c]) /\ Len(pending) < MaxPending
          BY <2>14 DEF BufferEvent
        <4>3. pending \in Seq(Event) /\ Len(pending) \in Nat
          BY <1>0 DEF TypeOK
        <4> QED
          BY <4>1, <4>2, <4>3, Longer, Bounds
      <3>4. health' \in [Stream -> VenueHealth] /\ depthDedup' \in Id
        BY <2>14, <3>1, <1>0, Verdicts, Arrival DEF BufferEvent, Stream
      <3> QED
        BY <2>0, <2>14, <3>1, <3>2, <3>3, <3>4, <1>0, Arrival DEF BufferEvent, TypeInv, TypeOK
    <2>15. ASSUME NEW c \in Connection, BufferOverflows(c)
           PROVE  TypeInv'
      <3>1. DepthArrives(c) /\ FetchOnce /\ RequestResync /\ posted' = posted
        BY <2>15 DEF BufferOverflows
      <3>2. /\ snapshotRequested' \in BOOLEAN /\ attempts' \in 0 .. MaxAttempts
            /\ fetches' \in 0 .. MaxFetches /\ fetches' + Len(posted') <= MaxFetches
            /\ ~snapshotRequested' => attempts' = 0
        BY <3>1, Fetching
      <3>3. /\ health' \in [Stream -> VenueHealth] /\ lingering' \in BOOLEAN
            /\ link' \in [Connection -> {"none", "connecting", "open", "closed"}]
            /\ worker' = "start"
        BY <3>1, <1>0 DEF RequestResync, VenueHealth, TypeOK
      <3>4. depthDedup' \in Id /\ worker = "run"
        BY <2>15, <3>1, <1>0, Arrival DEF BufferOverflows
      <3> QED
        BY <2>0, <2>15, <3>1, <3>2, <3>3, <3>4, <1>0, Arrival DEF BufferOverflows, TypeInv, TypeOK
    <2>16. ASSUME NEW c \in Connection, ApplyEvent(c)
           PROVE  TypeInv'
      BY <2>0, <2>16, <1>0, Verdicts, Arrival DEF ApplyEvent, EmitEvent, TypeInv, TypeOK, Stream
    <2>17. ASSUME NEW c \in Connection, FindGap(c)
           PROVE  TypeInv'
      BY <2>0, <2>17, <1>0, Bounds, Arrival
         DEF FindGap, RequestResync, TypeInv, TypeOK, Stream, VenueHealth
    <2> QED
      BY <2>0, <2>1, <2>2, <2>3, <2>4, <2>5, <2>6, <2>7, <2>8, <2>9, <2>10, <2>11, <2>12,
         <2>13, <2>14, <2>15, <2>16, <2>17 DEF Step
  <1> QED
    BY <1>1, <1>2

\* The state of the provider has its type at every moment, whatever the bounds
\* and the number of sockets (Provider::Run and BinanceProvider): no event is
\* buffered beyond the limit, no snapshot requested beyond its attempts.
THEOREM TypeCorrect == Spec => []TypeInv
  BY InitTyped, TypeStep, PTL DEF Spec

---------------------------------------------------------------------------
(* Outages.                                                                 *)

\* What an outage leaves behind: the watchdog does not stop before it has seen
\* that every socket is gone, and it stops with both streams disconnected.
OutageInv ==
  /\ OutageIsAnnounced
  /\ worker = "run" /\ ~timer => Live = {} /\ \A s \in Stream : health[s] # "kLive"

LEMMA OutageStep == TypeInv /\ OutageInv /\ [Next]_vars => OutageInv'
  <1> SUFFICES ASSUME TypeInv, OutageInv, [Next]_vars
               PROVE  OutageInv'
    OBVIOUS
  <1>0. TypeOK
    BY DEF TypeInv
  <1> USE DEF OutageInv, OutageIsAnnounced
  <1>1. CASE UNCHANGED vars
    BY <1>1 DEF Live
  <1>2. CASE Next
    <2>1. CASE Tick \/ LingeringEnds \/ RestAnswers \/ JoinSnapshot
      BY <2>1 DEF Tick, LingeringEnds, RestAnswers, JoinSnapshot, Live
    <2>2. CASE StartRun
      BY <2>2 DEF StartRun
    <2>3. CASE RunReturns
      BY <2>3 DEF RunReturns, Live
    <2>4. CASE CheckHealth
      <3>1. worker' = "run" /\ Live' = Live /\ timer' = (Live # {})
        BY <2>4 DEF CheckHealth, Live
      <3>2. ASSUME Live = {}
            PROVE  \A s \in Stream : health'[s] # "kLive"
        BY <2>4, <3>2 DEF CheckHealth, ClassifyFeed
      <3> QED
        BY <3>1, <3>2
    <2>5. CASE RejectSnapshot
      <3>1. CASE attempts >= MaxAttempts
        BY <2>5, <3>1 DEF RejectSnapshot, RequestResync
      <3>2. CASE ~(attempts >= MaxAttempts)
        BY <2>5, <3>2 DEF RejectSnapshot, Live
      <3> QED
        BY <3>1, <3>2
    <2>6. ASSUME NEW s \in Stream, Age(s)
          PROVE  OutageInv'
      BY <2>6 DEF Age, Live
    <2>7. ASSUME NEW c \in Connection, OnHandshake(c) \/ OnCombinedSessionClosed(c)
          PROVE  OutageInv'
      <3>1. /\ c \in Live /\ worker = "run" /\ timer
            /\ worker' = worker /\ timer' = timer /\ health' = health
        BY <2>7, <1>0 DEF OnHandshake, OnCombinedSessionClosed, Live, TypeOK
      <3> QED
        BY <3>1
    <2>8. ASSUME NEW c \in Connection,
                 OnBboMessage(c) \/ DropDuplicate(c) \/ BufferEvent(c) \/ ApplyEvent(c)
          PROVE  OutageInv'
      <3>1. c \in Live /\ worker = "run" /\ worker' = worker /\ timer' = timer
        BY <2>8 DEF OnBboMessage, DropDuplicate, BufferEvent, ApplyEvent, DepthArrives, Live
      <3>2. timer
        BY <3>1
      <3> QED
        BY <3>1, <3>2
    <2>9. ASSUME NEW c \in Connection, BufferOverflows(c) \/ FindGap(c)
          PROVE  OutageInv'
      BY <2>9 DEF BufferOverflows, FindGap, RequestResync
    <2> QED
      BY <1>2, <2>1, <2>2, <2>3, <2>4, <2>5, <2>6, <2>7, <2>8, <2>9 DEF Next, Step
  <1> QED
    BY <1>1, <1>2

\* Whenever the worker of a provider is out of ioc.run, Core has been told of
\* neither stream that it is live, or has been told otherwise since: for every
\* number of sockets and reconnections, whatever raced with the last close.
THEOREM OutageIsAnnouncedHolds == Spec => []OutageIsAnnounced
  <1>1. Init => OutageInv
    BY DEF Init, OutageInv, OutageIsAnnounced
  <1>2. OutageInv => OutageIsAnnounced
    BY DEF OutageInv
  <1> QED
    BY <1>1, <1>2, OutageStep, TypeCorrect, PTL DEF Spec

---------------------------------------------------------------------------
(* One socket: no update is missing.                                        *)

\* What Core has is a prefix of the venue's history and reaches last_depth_u_.
Prefix(ids, u) == \E r \in Id : ids = 1 .. r /\ u <= r

\* The buffer of the only socket c is the run of events it delivered last, and
\* the filter of duplicates has no reason to drop what it delivers next.
Buffered(c) ==
  /\ link[c] = "connecting" => depthDedup = 0
  /\ link[c] = "open" => depthDedup + 2 <= 2 * next[c]
  /\ pending # <<>> => link[c] = "open"
  /\ \A i \in 1 .. Len(pending) : pending[i] = next[c] + i - Len(pending) - 1

SyncInv(c) ==
  /\ syncState = "kLive" => pending = <<>> /\ Prefix(reflected, lastU)
  /\ worker = "run" => Buffered(c)

\* The ids up to id and those of the events f to l.
Ids(id, f, l) == 1 .. id \cup UNION {{FirstId(k), LastId(k)} : k \in f .. l}

\* The ids of a run of events, laid end to end onto the ids before it.
LEMMA Laid ==
  ASSUME NEW id \in Nat, NEW f \in Nat, NEW l \in Nat, f >= 1, f <= l, 2 * f - 1 <= id + 1, 2 * f > id
  PROVE  Ids(id, f, l) = 1 .. 2 * l
  <1>1. ASSUME NEW x \in Ids(id, f, l)
        PROVE  x \in 1 .. 2 * l
    BY DEF FirstId, LastId, Ids
  <1>2. ASSUME NEW x \in 1 .. 2 * l, ~(x <= id)
        PROVE  \E k \in f .. l : x \in {FirstId(k), LastId(k)}
    <2>1. PICK k \in Nat : x = 2 * k - 1 \/ x = 2 * k
      <3>1. (x + 1) \div 2 \in Nat /\ (x = 2 * ((x + 1) \div 2) - 1 \/ x = 2 * ((x + 1) \div 2))
        OBVIOUS
      <3> QED
        BY <3>1
    <2>2. k \in f .. l
      BY <1>2, <2>1
    <2> QED
      BY <2>1, <2>2 DEF FirstId, LastId
  <1>3. ASSUME NEW x \in 1 .. 2 * l
        PROVE  x \in Ids(id, f, l)
    <2>1. CASE x <= id
      BY <2>1 DEF Ids
    <2>2. CASE ~(x <= id)
      <3>1. PICK k \in f .. l : x \in {FirstId(k), LastId(k)}
        BY <1>2, <2>2
      <3> QED
        BY <3>1 DEF Ids
    <2> QED
      BY <2>1, <2>2
  <1> QED
    BY <1>1, <1>3

\* A snapshot that joins the buffer leaves Core with a prefix.
LEMMA JoinLeavesPrefix ==
  ASSUME TypeOK, NEW n \in 0 .. MaxEvents + 1, NEW id \in Id,
         \A i \in 1 .. Len(pending) : pending[i] = n + i - Len(pending) - 1,
         Joins(id), EmitSnapshot(id, Survivors(id)),
         NEW seen \in {pending, Survivors(id)},
         lastU' = IF seen = <<>> THEN id ELSE LastId(Last(seen))
  PROVE  Prefix(reflected', lastU')
  <1>0. pending \in Seq(Event) /\ Len(pending) \in Nat /\ id \in Nat
    BY Bounds DEF TypeOK, Id
  <1>1. PICK m : m = FirstAfter(id) - 1
    OBVIOUS
  <1> DEFINE q == Survivors(id)
             L == Len(pending)
  <1>2. /\ m \in 0 .. L /\ q \in Seq(Event) /\ Len(q) = L - m
        /\ \A i \in 1 .. L - m : q[i] = pending[i + m]
        /\ \A j \in 1 .. m : LastId(pending[j]) <= id
        /\ m < L => LastId(pending[m + 1]) > id
    BY <1>0, <1>1, SurvivorsAre
  <1>3. /\ reflected' = 1 .. id \cup UNION {{FirstId(k), LastId(k)} : k \in ToSet(q)}
        /\ q # <<>> => FirstId(Head(q)) <= id + 1
    BY DEF EmitSnapshot, Joins
  <1>4. \A i \in 1 .. L : pending[i] \in Event
    BY <1>0
  <1> HIDE DEF q, L
  <1>5. CASE m = L
    <2>1. q = <<>>
      BY <1>0, <1>2, <1>5 DEF L
    <2>2. ToSet(q) = {}
      BY <2>1 DEF ToSet
    <2>3. reflected' = 1 .. id
      BY <1>3, <2>2
    <2>4. lastU' <= id
      <3>1. CASE seen = <<>>
        BY <3>1, <1>0
      <3>2. CASE seen # <<>>
        <4>1. seen = pending /\ L \in 1 .. m /\ L > 0
          BY <3>2, <2>1, <1>0, <1>5 DEF q, L
        <4>2. lastU' = LastId(pending[L])
          BY <3>2, <4>1 DEF Last, L
        <4> QED
          BY <1>2, <4>1, <4>2
      <3> QED
        BY <3>1, <3>2
    <2> QED
      BY <2>3, <2>4 DEF Prefix
  <1>6. CASE m < L
    <2>1. PICK f : f = pending[m + 1]
      OBVIOUS
    <2>2. PICK l : l = pending[L]
      OBVIOUS
    <2>3. /\ f = n + m - L /\ l = n - 1 /\ f \in Event /\ l \in Event /\ f <= l
      <3>1. m + 1 \in 1 .. L /\ L \in 1 .. L /\ L \in Nat
        BY <1>0, <1>2, <1>6 DEF L
      <3>2. f = n + (m + 1) - L - 1 /\ l = n + L - L - 1
        BY <2>1, <2>2, <3>1 DEF L
      <3>3. f \in Event /\ l \in Event
        BY <1>4, <2>1, <2>2, <3>1
      <3> QED
        BY <1>2, <1>6, <3>1, <3>2, <3>3 DEF Event
    <2>4. ToSet(q) = f .. l
      <3>1. \A i \in 1 .. L - m : q[i] = f + i - 1
        <4>1. SUFFICES ASSUME NEW i \in 1 .. L - m
                       PROVE  q[i] = f + i - 1
          OBVIOUS
        <4>2. i + m \in 1 .. L /\ L \in Nat
          BY <1>0, <1>2 DEF L
        <4>3. q[i] = pending[i + m] /\ pending[i + m] = n + (i + m) - L - 1
          BY <1>2, <4>2 DEF L
        <4> QED
          BY <2>3, <4>2, <4>3, <1>2
      <3>2. ToSet(q) = {q[i] : i \in 1 .. L - m}
        <4>1. DOMAIN q = 1 .. L - m
          BY <1>2
        <4> QED
          BY <4>1 DEF ToSet
      <3>3. L - m = l - f + 1 /\ f \in Nat /\ l \in Nat
        BY <2>3, <1>0, <1>2 DEF Event, L
      <3>4. \A k \in f .. l : k - f + 1 \in 1 .. L - m /\ k = f + (k - f + 1) - 1
        BY <3>3
      <3>5. \A k \in f .. l : q[k - f + 1] = k
        BY <3>1, <3>4, <3>3
      <3>6. \A k \in f .. l : k \in ToSet(q)
        BY <3>2, <3>4, <3>5
      <3>7. \A i \in 1 .. L - m : q[i] \in f .. l
        BY <3>1, <3>3
      <3> QED
        BY <3>2, <3>6, <3>7
    <2>5. 2 * f - 1 <= id + 1 /\ 2 * f > id
      <3>1. Len(q) > 0 /\ q # <<>> /\ Head(q) = q[1] /\ 1 \in 1 .. L - m
        BY <1>0, <1>2, <1>6 DEF L
      <3>2. Head(q) = f
        BY <3>1, <1>2, <2>1
      <3> QED
        BY <3>1, <3>2, <1>2, <1>3, <1>6, <2>1 DEF FirstId, LastId
    <2>6. reflected' = 1 .. 2 * l
      <3>1. f \in Nat /\ l \in Nat /\ f >= 1
        BY <2>3, Bounds DEF Event
      <3>2. Ids(id, f, l) = 1 .. 2 * l
        BY <1>0, <2>3, <2>5, <3>1, Laid
      <3>3. reflected' = Ids(id, f, l)
        BY <1>3, <2>4 DEF Ids
      <3> QED
        BY <3>2, <3>3
    <2>7. lastU' = 2 * l
      <3>1. CASE seen = pending
        <4>1. pending # <<>> /\ Last(pending) = l
          BY <1>0, <1>2, <1>6, <2>2 DEF Last, L
        <4> QED
          BY <3>1, <4>1 DEF LastId
      <3>2. CASE seen = q
        <4>1. q # <<>> /\ L - m \in 1 .. L - m
          BY <1>0, <1>2, <1>6 DEF L
        <4>2. Last(q) = pending[(L - m) + m]
          BY <4>1, <1>2 DEF Last
        <4>3. Last(q) = l
          BY <4>2, <1>0, <1>2, <2>2 DEF L
        <4> QED
          BY <3>2, <4>1, <4>3 DEF LastId
      <3> QED
        BY <3>1, <3>2 DEF q
    <2>8. 2 * l \in Id
      BY <2>3, Bounds DEF Event, Id
    <2> QED
      BY <2>6, <2>7, <2>8 DEF Prefix, Id
  <1> QED
    BY <1>0, <1>2, <1>5, <1>6 DEF L

\* An event that is no gap leaves Core with a prefix.
LEMMA ApplyLeavesPrefix ==
  ASSUME TypeOK, NEW k \in Event, Continuity(k) # "kGap", Prefix(reflected, lastU), EmitEvent(k),
         lastU' = IF Continuity(k) = "kApply" THEN LastId(k) ELSE lastU
  PROVE  Prefix(reflected', lastU')
  <1>1. PICK r \in Id : reflected = 1 .. r /\ lastU <= r
    BY DEF Prefix
  <1>2. /\ k \in Nat /\ k >= 1 /\ r \in Nat /\ lastU \in Nat /\ 2 * k \in Id /\ LastId(k) = 2 * k
        /\ FirstId(k) = 2 * k - 1 /\ LastId(k - 1) = 2 * k - 2
    BY Bounds DEF Event, Id, TypeOK, LastId, FirstId
  <1>3. 2 * k <= lastU + 2
    BY <1>2 DEF Continuity, FirstId, LastId, TypeOK
  <1>4. reflected' = 1 .. r \cup {2 * k - 1, 2 * k}
    BY <1>1, <1>2 DEF EmitEvent
  <1>5. lastU' = 2 * k \/ lastU' = lastU
    BY <1>2
  <1>6. CASE 2 * k <= r
    <2>1. reflected' = 1 .. r
      BY <1>2, <1>4, <1>6
    <2> QED
      BY <2>1, <1>1, <1>2, <1>5, <1>6 DEF Prefix
  <1>7. CASE ~(2 * k <= r)
    <2>1. reflected' = 1 .. 2 * k
      BY <1>1, <1>2, <1>3, <1>4, <1>7
    <2>2. lastU' <= 2 * k
      BY <1>1, <1>2, <1>5, <1>7
    <2> QED
      BY <2>1, <2>2, <1>2 DEF Prefix
  <1> QED
    BY <1>6, <1>7

\* Every step of a provider with one socket keeps the synchronisation sound.
LEMMA SyncStep ==
  ASSUME NEW c, Connection = {c}
  PROVE  TypeInv /\ SyncInv(c) /\ [Next]_vars => SyncInv(c)'
  <1> SUFFICES ASSUME TypeInv, SyncInv(c), [Next]_vars
               PROVE  SyncInv(c)'
    OBVIOUS
  <1>0. /\ TypeOK /\ c \in Connection
        /\ pending \in Seq(Event) /\ Len(pending) \in Nat
        /\ next[c] \in 0 .. MaxEvents + 1 /\ depthDedup \in Nat /\ now \in Nat
    BY Bounds DEF TypeInv, TypeOK, Id
  <1> USE DEF SyncInv
  <1>1. CASE UNCHANGED vars
    BY <1>1 DEF Buffered, Prefix
  <1>2. CASE Next
    <2>1. CASE Tick \/ LingeringEnds \/ RestAnswers \/ RunReturns \/ CheckHealth
      BY <2>1 DEF Tick, LingeringEnds, RestAnswers, RunReturns, CheckHealth, Buffered, Prefix
    <2>2. CASE StartRun
      <3>1. /\ pending' = <<>> /\ syncState' = "kSyncing" /\ depthDedup' = 0
            /\ link'[c] = "connecting"
        BY <2>2, <1>0 DEF StartRun, OnReconnect
      <3>2. Len(pending') = 0
        BY <3>1
      <3> QED
        BY <3>1, <3>2 DEF Buffered
    <2>3. CASE JoinSnapshot
      <3>0. PICK id : id = Head(posted)
        OBVIOUS
      <3>1. /\ worker = "run" /\ id \in Id /\ Joins(id) /\ EmitSnapshot(id, Survivors(id))
            /\ pending' = <<>> /\ syncState' = "kLive"
            /\ link' = link /\ next' = next /\ depthDedup' = depthDedup
        BY <2>3, <3>0, <1>0, Shorter DEF JoinSnapshot, Joins, TypeOK
      <3>2. PICK seen \in {pending, Survivors(id)} :
              lastU' = IF seen = <<>> THEN id ELSE LastId(Last(seen))
        BY <2>3, <3>0 DEF JoinSnapshot
      <3>3. Buffered(c) /\ \A i \in 1 .. Len(pending) : pending[i] = next[c] + i - Len(pending) - 1
        BY <3>1 DEF Buffered
      <3>4. Prefix(reflected', lastU')
        BY <1>0, <3>1, <3>2, <3>3, JoinLeavesPrefix
      <3>5. Len(pending') = 0
        BY <3>1
      <3> QED
        BY <3>1, <3>3, <3>4, <3>5 DEF Buffered, Prefix
    <2>4. CASE RejectSnapshot
      <3>1. CASE attempts >= MaxAttempts
        BY <2>4, <3>1 DEF RejectSnapshot, RequestResync, Prefix
      <3>2. CASE ~(attempts >= MaxAttempts)
        BY <2>4, <3>2 DEF RejectSnapshot, FetchSnapshotAsync, Prefix, Buffered
      <3> QED
        BY <3>1, <3>2
    <2>5. ASSUME NEW s \in Stream, Age(s)
          PROVE  SyncInv(c)'
      BY <2>5 DEF Age, Buffered, Prefix
    <2>6. CASE OnHandshake(c)
      <3>1. /\ worker = "run" /\ link[c] = "connecting" /\ link'[c] = "open"
            /\ next'[c] = now \div 2 + 1 /\ depthDedup' = depthDedup /\ pending' = pending
            /\ syncState' = syncState /\ reflected' = reflected /\ lastU' = lastU
        BY <2>6, <1>0 DEF OnHandshake, TypeOK
      <3>2. pending = <<>> /\ Len(pending) = 0 /\ depthDedup = 0 /\ next'[c] >= 1
        BY <3>1, <1>0 DEF Buffered
      <3> QED
        BY <3>1, <3>2, <1>0 DEF Buffered, Prefix
    <2>7. CASE OnCombinedSessionClosed(c)
      <3>1. /\ Live = {c} /\ worker = "run"
            /\ pending' = <<>> /\ syncState' = "kSyncing" /\ link'[c] = "closed"
        BY <2>7, <1>0 DEF OnCombinedSessionClosed, OnReconnect, Live, TypeOK
      <3>2. Len(pending') = 0
        BY <3>1
      <3> QED
        BY <3>1, <3>2 DEF Buffered
    <2>8. CASE OnBboMessage(c)
      BY <2>8 DEF OnBboMessage, Buffered, Prefix
    <2>9. ASSUME DepthArrives(c)
          PROVE  /\ worker = "run" /\ link[c] = "open" /\ next[c] \in Event
                 /\ next'[c] = next[c] + 1 /\ Accepted(c)
      <3>1. /\ worker = "run" /\ link[c] = "open" /\ next[c] \in Event
            /\ next'[c] = next[c] + 1
        BY <2>9, <1>0, Arrival DEF TypeOK
      <3>2. depthDedup + 2 <= 2 * next[c] /\ next[c] \in Nat
        BY <1>0, <3>1 DEF Buffered
      <3> QED
        BY <1>0, <3>1, <3>2 DEF Accepted, LastId
    <2>10. CASE DropDuplicate(c)
      BY <2>9, <2>10 DEF DropDuplicate
    <2>11. CASE BufferEvent(c)
      <3>1. /\ DepthArrives(c) /\ syncState = "kSyncing" /\ syncState' = syncState
            /\ pending' = Append(pending, next[c]) /\ link' = link
            /\ depthDedup' = LastId(next[c])
        BY <2>11 DEF BufferEvent
      <3>2. /\ Len(pending') = Len(pending) + 1
            /\ \A i \in 1 .. Len(pending) : pending'[i] = pending[i]
            /\ pending'[Len(pending) + 1] = next[c]
        BY <3>1, <2>9, <1>0, Longer
      <3>3. \A i \in 1 .. Len(pending') : pending'[i] = next'[c] + i - Len(pending') - 1
        <4>1. SUFFICES ASSUME NEW i \in 1 .. Len(pending')
                       PROVE  pending'[i] = next'[c] + i - Len(pending') - 1
          OBVIOUS
        <4>2. CASE i = Len(pending) + 1
          BY <4>2, <3>1, <3>2, <2>9, <1>0
        <4>3. CASE i # Len(pending) + 1
          <5>1. i \in 1 .. Len(pending)
            BY <4>3, <3>2, <1>0
          <5>2. pending[i] = next[c] + i - Len(pending) - 1
            BY <5>1, <2>9, <3>1 DEF Buffered
          <5> QED
            BY <5>1, <5>2, <3>1, <3>2, <2>9, <1>0
        <4> QED
          BY <4>2, <4>3
      <3>4. link'[c] = "open" /\ depthDedup' + 2 <= 2 * next'[c]
        BY <3>1, <2>9, <1>0 DEF LastId
      <3> QED
        BY <3>1, <3>3, <3>4 DEF Buffered
    <2>12. CASE ApplyEvent(c)
      <3>1. /\ DepthArrives(c) /\ syncState = "kLive" /\ syncState' = syncState
            /\ Continuity(next[c]) # "kGap" /\ EmitEvent(next[c])
            /\ lastU' = IF Continuity(next[c]) = "kApply" THEN LastId(next[c]) ELSE lastU
            /\ pending' = pending /\ link' = link
            /\ depthDedup' = LastId(next[c])
        BY <2>12 DEF ApplyEvent
      <3>2. pending = <<>> /\ Len(pending) = 0 /\ Prefix(reflected, lastU)
        BY <3>1
      <3>3. Prefix(reflected', lastU')
        BY <3>1, <3>2, <2>9, <1>0, ApplyLeavesPrefix
      <3>4. link'[c] = "open" /\ depthDedup' + 2 <= 2 * next'[c]
        BY <3>1, <2>9, <1>0 DEF LastId
      <3> QED
        BY <3>1, <3>2, <3>3, <3>4 DEF Buffered, Prefix
    <2>13. CASE BufferOverflows(c) \/ FindGap(c)
      BY <2>13 DEF BufferOverflows, FindGap, RequestResync, Prefix
    <2> QED
      BY <1>2, <2>1, <2>2, <2>3, <2>4, <2>5, <2>6, <2>7, <2>8, <2>10, <2>11, <2>12, <2>13
         DEF Next, Step
  <1> QED
    BY <1>1, <1>2

\* With one socket, and for every number of events, buffer size and lag of the
\* REST answers: while BinanceProvider is live Core has every update up to
\* last_depth_u_ and no hole, however late a snapshot was joined or a result of
\* an earlier run came in.  With two sockets it does not hold (ProviderHole.cfg).
THEOREM NoUpdateMissingHolds ==
  ASSUME NEW c, Connection = {c}
  PROVE  Spec => []NoUpdateMissing
  <1>1. Init => SyncInv(c)
    <2> SUFFICES ASSUME Init
                 PROVE  SyncInv(c)
      OBVIOUS
    <2> QED
      BY DEF Init, SyncInv
  <1>2. TypeInv /\ SyncInv(c) => NoUpdateMissing
    <2> SUFFICES ASSUME TypeInv, SyncInv(c), syncState = "kLive"
                 PROVE  /\ 1 .. lastU \subseteq reflected
                        /\ \A id \in reflected : 1 .. id \subseteq reflected
      BY DEF NoUpdateMissing
    <2>1. PICK r \in Id : reflected = 1 .. r /\ lastU <= r
      BY DEF SyncInv, Prefix
    <2>2. r \in Nat /\ lastU \in Nat
      BY Bounds DEF TypeInv, TypeOK, Id
    <2> QED
      BY <2>1, <2>2
  <1> QED
    BY <1>1, <1>2, SyncStep, TypeCorrect, PTL DEF Spec

=============================================================================
