---------------------------- MODULE LinkProofs ----------------------------
(***************************************************************************)
(* Proofs about the link between a provider process and md_core, for every *)
(* number of updates, exits and restarts, for every limit of the socket,   *)
(* of the provider's buffer and of Core's queue.  The frames under way are *)
(* a chain: read in order, from what Core holds now, they lead to what the *)
(* provider has in mind.  Where streams open with a snapshot every delta   *)
(* of the chain also meets the book it continues.                          *)
(***************************************************************************)
EXTENDS Link, SequenceTheorems, TLAPS

\* The kind of the provider.  opened never changes, and nothing is assumed of Opens,
\* so that what is shown where opened = Opens holds of both kinds.
CONSTANT Opens

USE DEF vars, providerVars, syncVars, coreVars, keptVars

---------------------------------------------------------------------------
(* Chains of frames.                                                        *)

\* The books the frames may lead to: one with a hole only where a handler sends a
\* snapshot and the deltas behind it.
Book == IF Opens THEN Update ELSE Update \cup {Wrong}

\* What Core holds of the venue: nothing of one that is not registered.
Held ==
  {v \in [on : {0, 1}, book : Book, health : VenueHealth] :
     v.on = 0 => v.book = 0 /\ v.health = "kNoData"}

Gone == [on |-> 0, book |-> 0, health |-> "kNoData"]

\* What it holds after one more frame.
Step(v, frame) ==
  IF frame.type = "kHello" THEN [on |-> 1, book |-> v.book, health |-> v.health]
  ELSE IF frame.type = "notify" THEN Gone
  ELSE IF v.on = 1 /\ frame.type = "kHealth" THEN [on |-> 1, book |-> v.book, health |-> frame.health]
  ELSE IF v.on = 1 /\ frame.type = "kBookUpdate"
  THEN [on |-> 1,
        book |-> IF frame.isSnapshot \/ v.book = frame.seq - 1 THEN frame.seq ELSE Wrong,
        health |-> v.health]
  ELSE v

\* A delta continues the book it is applied to.
Fits(v, frame) ==
  v.on = 1 /\ frame.type = "kBookUpdate" /\ ~frame.isSnapshot => v.book = frame.seq - 1

\* The frame may be the next one.
Follows(v, frame) == Opens => Fits(v, frame)

\* The frames lead from one to the other.
Run(f, t) ==
  /\ t \in [0 .. Len(f) -> Held]
  /\ \A k \in 1 .. Len(f) : t[k] = Step(t[k - 1], f[k])

Chain(from, f, to) == \E t : Run(f, t) /\ t[0] = from /\ t[Len(f)] = to

\* A step leads to something Core may hold.
LEMMA StepHeld ==
  ASSUME NEW v \in Held, NEW frame \in Frame, Follows(v, frame)
  PROVE  Step(v, frame) \in Held
  <1> USE LinkAssumption DEF Held, Frame, Step, Gone, Book, Update, VenueHealth, Follows, Fits
  <1>1. CASE frame \in [type : {"kHello", "kGoodbye", "notify"}]
    BY <1>1
  <1>2. CASE frame \in [type : {"kHealth"}, health : VenueHealth]
    BY <1>2
  <1>3. CASE frame \in [type : {"kBookUpdate"}, isSnapshot : BOOLEAN, seq : Update]
    BY <1>3
  <1> QED
    BY <1>1, <1>2, <1>3

\* A chain has something Core may hold at both ends; one of no frames has the
\* same at both.
LEMMA ChainEnds ==
  ASSUME NEW f \in Seq(Frame), NEW from, NEW to, Chain(from, f, to)
  PROVE  from \in Held /\ to \in Held /\ (f = <<>> => from = to)
  <1>1. PICK t : Run(f, t) /\ t[0] = from /\ t[Len(f)] = to
    BY DEF Chain
  <1>2. 0 \in 0 .. Len(f) /\ Len(f) \in 0 .. Len(f)
    OBVIOUS
  <1> QED
    BY <1>1, <1>2 DEF Run

\* No frames are a chain.
LEMMA ChainEmpty ==
  ASSUME NEW v \in Held
  PROVE  Chain(v, <<>>, v)
  <1>1. Run(<<>>, [k \in 0 .. 0 |-> v])
    BY DEF Run
  <1> QED
    BY <1>1 DEF Chain

\* A frame that leads to something Core may hold makes a chain longer.
LEMMA ChainAppend ==
  ASSUME NEW f \in Seq(Frame), NEW from, NEW to, Chain(from, f, to), NEW frame \in Frame, Step(to, frame) \in Held
  PROVE  Chain(from, Append(f, frame), Step(to, frame))
  <1>1. PICK t : Run(f, t) /\ t[0] = from /\ t[Len(f)] = to
    BY DEF Chain
  <1> DEFINE g == Append(f, frame)
  <1> DEFINE u == [k \in 0 .. Len(f) + 1 |-> IF k = Len(f) + 1 THEN Step(to, frame) ELSE t[k]]
  <1>2. Len(f) \in Nat /\ Len(g) = Len(f) + 1 /\ g[Len(f) + 1] = frame /\ \A k \in 1 .. Len(f) : g[k] = f[k]
    OBVIOUS
  <1>4. u \in [0 .. Len(g) -> Held]
    BY <1>1, <1>2 DEF Run
  <1>5. ASSUME NEW k \in 1 .. Len(g)
        PROVE  u[k] = Step(u[k - 1], g[k])
    <2>1. CASE k = Len(f) + 1
      <3>1. u[k - 1] = to /\ u[k] = Step(to, frame) /\ g[k] = frame
        BY <1>1, <1>2, <2>1
      <3> QED
        BY <3>1
    <2>2. CASE k \in 1 .. Len(f)
      <3>1. u[k - 1] = t[k - 1] /\ u[k] = t[k] /\ g[k] = f[k]
        BY <1>2, <2>2
      <3> QED
        BY <1>1, <2>2, <3>1 DEF Run
    <2> QED
      BY <1>2, <2>1, <2>2
  <1>6. u[0] = from /\ u[Len(g)] = Step(to, frame)
    BY <1>1, <1>2
  <1>7. Run(g, u)
    BY <1>4, <1>5 DEF Run
  <1> QED
    BY <1>6, <1>7 DEF Chain

\* The frames after the first of a chain are a chain.
LEMMA ChainTail ==
  ASSUME NEW f \in Seq(Frame), NEW from, NEW to, Chain(from, f, to), f # <<>>
  PROVE  Chain(Step(from, Head(f)), Tail(f), to)
  <1>1. PICK t : Run(f, t) /\ t[0] = from /\ t[Len(f)] = to
    BY DEF Chain
  <1> DEFINE g == Tail(f)
  <1> DEFINE u == [k \in 0 .. Len(f) - 1 |-> t[k + 1]]
  <1>2. Len(f) \in Nat \ {0} /\ Len(g) = Len(f) - 1 /\ Head(f) = f[1] /\ \A k \in 1 .. Len(f) - 1 : g[k] = f[k + 1]
    OBVIOUS
  <1>3. u \in [0 .. Len(g) -> Held]
    BY <1>1, <1>2 DEF Run
  <1>4. 1 \in 1 .. Len(f) /\ 1 - 1 = 0
    BY <1>2
  <1>5. t[1] = Step(from, Head(f))
    BY <1>1, <1>2, <1>4 DEF Run
  <1>6. ASSUME NEW k \in 1 .. Len(g)
        PROVE  u[k] = Step(u[k - 1], g[k])
    <2>1. k + 1 \in 1 .. Len(f) /\ (k + 1) - 1 = k
      BY <1>2
    <2>2. u[k - 1] = t[k] /\ u[k] = t[k + 1] /\ g[k] = f[k + 1]
      BY <1>2
    <2> QED
      BY <1>1, <2>1, <2>2 DEF Run
  <1>7. u[0] = Step(from, Head(f)) /\ u[Len(g)] = to
    BY <1>1, <1>2, <1>5
  <1>8. Run(g, u)
    BY <1>3, <1>6 DEF Run
  <1> QED
    BY <1>7, <1>8 DEF Chain

\* What is left of a chain when it is cut is a chain.
LEMMA ChainCut ==
  ASSUME NEW f \in Seq(Frame), NEW from, NEW to, Chain(from, f, to), NEW n \in 0 .. Len(f)
  PROVE  \E m : Chain(from, SubSeq(f, 1, n), m)
  <1>1. PICK t : Run(f, t) /\ t[0] = from /\ t[Len(f)] = to
    BY DEF Chain
  <1> DEFINE g == SubSeq(f, 1, n)
  <1> DEFINE u == [k \in 0 .. n |-> t[k]]
  <1>2. Len(g) = n /\ \A k \in 1 .. n : g[k] = f[k]
    OBVIOUS
  <1>3. u \in [0 .. Len(g) -> Held]
    BY <1>1, <1>2 DEF Run
  <1>4. ASSUME NEW k \in 1 .. Len(g)
        PROVE  u[k] = Step(u[k - 1], g[k])
    <2>1. k \in 1 .. Len(f) /\ u[k - 1] = t[k - 1] /\ u[k] = t[k] /\ g[k] = f[k]
      BY <1>2
    <2> QED
      BY <1>1, <2>1 DEF Run
  <1>5. Run(g, u)
    BY <1>3, <1>4 DEF Run
  <1>6. u[0] = from
    BY <1>1
  <1> QED
    BY <1>5, <1>6 DEF Chain

---------------------------------------------------------------------------
(* Types, and what a handler may have left to send.                         *)

UpdateFrame == [type : {"kBookUpdate"}, isSnapshot : BOOLEAN, seq : Update]

\* A handler sends verdicts and updates, where streams open with a snapshot at most
\* a verdict and then an update, and a process that has ended sends nothing.
TodoShape ==
  /\ \A k \in 1 .. Len(todo) : todo[k].type \in {"kHealth", "kBookUpdate"}
  /\ ~process => todo = <<>>
  /\ Opens =>
       /\ Len(todo) <= 2
       /\ \A k \in 1 .. Len(todo) : \/ k = 1 /\ todo[k].type = "kHealth"
                                    \/ k = Len(todo) /\ todo[k].type = "kBookUpdate"

\* What is buffered is among what the sockets delivered, and a stream that opens with
\* its snapshot buffers nothing.
BufferShape == pending <= last /\ (Opens => pending = 0)

\* kHello is the first frame of its connection, and the disconnect notification
\* of the connection is the one frame over the limit.
WireShape ==
  /\ \A k \in 2 .. Len(wire) : wire[k] # Hello
  /\ process => Len(wire) <= SendHwm

\* kGoodbye stays with the ingress.
QueueShape == \A k \in 1 .. Len(queue) : queue[k].type # "kGoodbye"

TypeInv == opened = Opens /\ TypeOK /\ TodoShape /\ BufferShape /\ WireShape /\ QueueShape

\* One frame alone.
LEMMA Single ==
  ASSUME NEW a \in Frame
  PROVE  <<a>> \in Seq(Frame) /\ Len(<<a>>) = 1 /\ <<a>>[1] = a
  OBVIOUS

\* Frames one after the other.
LEMMA Joined ==
  ASSUME NEW f \in Seq(Frame), NEW g \in Seq(Frame)
  PROVE  /\ f \o g \in Seq(Frame) /\ Len(f \o g) = Len(f) + Len(g)
         /\ \A k \in 1 .. Len(f) + Len(g) : (f \o g)[k] = IF k <= Len(f) THEN f[k] ELSE g[k - Len(f)]
  BY ConcatProperties

\* One frame more.
LEMMA Longer ==
  ASSUME NEW f \in Seq(Frame), NEW a \in Frame
  PROVE  /\ Append(f, a) \in Seq(Frame) /\ Append(f, a) # <<>> /\ Len(Append(f, a)) = Len(f) + 1
         /\ Append(f, a)[Len(f) + 1] = a
         /\ \A k \in 1 .. Len(f) : Append(f, a)[k] = f[k]
  OBVIOUS

\* One frame less.
LEMMA Rest ==
  ASSUME NEW f \in Seq(Frame), f # <<>>
  PROVE  /\ Head(f) \in Frame /\ Head(f) = f[1] /\ Len(f) \in Nat \ {0}
         /\ Tail(f) \in Seq(Frame) /\ Len(Tail(f)) = Len(f) - 1
         /\ \A k \in 1 .. Len(f) - 1 : Tail(f)[k] = f[k + 1]
  OBVIOUS

\* The two parts of a cut.
LEMMA Part ==
  ASSUME NEW f \in Seq(Frame), NEW n \in 0 .. Len(f)
  PROVE  /\ SubSeq(f, 1, n) \in Seq(Frame) /\ Len(SubSeq(f, 1, n)) = n
         /\ \A k \in 1 .. n : SubSeq(f, 1, n)[k] = f[k]
         /\ SubSeq(f, n + 1, Len(f)) \in Seq(Frame) /\ Len(SubSeq(f, n + 1, Len(f))) = Len(f) - n
         /\ \A k \in 1 .. Len(f) - n : SubSeq(f, n + 1, Len(f))[k] = f[k + n]
  OBVIOUS

\* The frames of the model are frames.
LEMMA FrameTypes ==
  /\ Hello \in Frame /\ Goodbye \in Frame /\ Notify \in Frame
  /\ \A h \in VenueHealth : Health(h) \in Frame
  /\ UpdateFrame \subseteq Frame
  /\ \A n \in Update : Snapshot(n) \in UpdateFrame /\ Delta(n) \in UpdateFrame
  BY DEF Frame, Hello, Goodbye, Notify, Health, UpdateFrame, Snapshot, Delta

\* And are told apart by their type.
LEMMA FramesDiffer ==
  /\ Goodbye # Hello /\ Notify # Hello
  /\ \A h \in VenueHealth : Health(h) # Hello
  /\ \A u \in UpdateFrame : u # Hello
  <1>1. "kGoodbye" # "kHello" /\ "notify" # "kHello" /\ "kHealth" # "kHello" /\ "kBookUpdate" # "kHello"
    OBVIOUS
  <1>2. \A x, y : x = y => x.type = y.type
    OBVIOUS
  <1> QED
    BY <1>1, <1>2 DEF Hello, Goodbye, Notify, Health, UpdateFrame

\* What Core does with a frame of its queue, case by case.
LEMMA AppliedIs ==
  ASSUME NEW frame \in Frame, frame.type # "kGoodbye", Applied(frame)
  PROVE  \/ frame.type = "kHello" /\ active' = TRUE /\ UNCHANGED <<coreBook, coreHealth>>
         \/ frame.type = "notify" /\ active' = FALSE /\ coreBook' = 0 /\ coreHealth' = "kNoData"
         \/ /\ frame \in [type : {"kHealth"}, health : VenueHealth]
            /\ coreHealth' = IF active THEN frame.health ELSE coreHealth
            /\ UNCHANGED <<active, coreBook>>
         \/ /\ frame \in UpdateFrame
            /\ coreBook' = IF ~active THEN coreBook
                           ELSE IF frame.isSnapshot \/ coreBook = frame.seq - 1 THEN frame.seq
                           ELSE Wrong
            /\ UNCHANGED <<active, coreHealth>>
  <1>1. CASE frame \in [type : {"kHello", "kGoodbye", "notify"}]
    BY <1>1 DEF Applied
  <1>2. CASE frame \in [type : {"kHealth"}, health : VenueHealth]
    BY <1>2 DEF Applied
  <1>3. CASE frame \in [type : {"kBookUpdate"}, isSnapshot : BOOLEAN, seq : Update]
    BY <1>3 DEF Applied, UpdateFrame
  <1> QED
    BY <1>1, <1>2, <1>3 DEF Frame

\* The frame Core takes from its queue is one it knows.
LEMMA QueueHead ==
  ASSUME TypeInv, queue # <<>>
  PROVE  Head(queue) \in Frame /\ Head(queue).type # "kGoodbye"
  <1>1. queue \in Seq(Frame) /\ 1 \in 1 .. Len(queue) /\ Head(queue) = queue[1]
    BY DEF TypeInv, TypeOK
  <1> QED
    BY <1>1 DEF TypeInv, QueueShape

\* The flags stay flags.
LEMMA NextFlags ==
  ASSUME TypeInv, [Next]_vars
  PROVE  {process', synced', resync', coreUp', bound', lost', active'} \subseteq BOOLEAN
  <1>1. /\ process \in BOOLEAN /\ synced \in BOOLEAN /\ resync \in BOOLEAN /\ coreUp \in BOOLEAN
        /\ bound \in BOOLEAN /\ lost \in BOOLEAN /\ active \in BOOLEAN
    BY DEF TypeInv, TypeOK
  <1>2. /\ process' \in BOOLEAN /\ synced' \in BOOLEAN /\ resync' \in BOOLEAN /\ coreUp' \in BOOLEAN
        /\ bound' \in BOOLEAN /\ lost' \in BOOLEAN /\ active' \in BOOLEAN
    <2>1. CASE UNCHANGED vars
      BY <1>1, <2>1, Zenon
    <2>2. CASE VenueMoves \/ Silence
      BY <1>1, <2>2, Zenon DEF VenueMoves, Silence
    <2>3. CASE StartProcess \/ Crash \/ Shutdown
      BY <1>1, <2>3, Zenon DEF StartProcess, Subscribe, Crash, Shutdown, Exit
    <2>4. CASE OnKeepalive \/ CheckHealth \/ Reconnect
      BY <1>1, <2>4, Zenon DEF OnKeepalive, CheckHealth, Reconnect, Subscribe
    <2>9. CASE OnDepthMessage
      BY <1>1, <2>9, Zenon DEF OnDepthMessage, OpenWithSnapshot, ApplyDelta, BufferEvent, BufferOverflows
    <2>10. CASE JoinSnapshot
      BY <1>1, <2>10, Zenon DEF JoinSnapshot
    <2>5. CASE SendFrame \/ RefuseFrame
      BY <1>1, <2>5, Zenon DEF SendFrame, RefuseFrame
    <2>6. CASE StartCore \/ StopCore
      BY <1>1, <2>6, Zenon DEF StartCore, StopCore, Forgotten
    <2>7. CASE Receive \/ Overflow
      BY <1>1, <2>7, Zenon DEF Receive, Overflow
    <2>8. CASE Consolidate
      <3>1. active' \in {TRUE, FALSE, active}
        BY <2>8, QueueHead, AppliedIs DEF Consolidate
      <3> QED
        BY <1>1, <2>8, <3>1, Zenon DEF Consolidate
    <2> QED
      BY <2>1, <2>2, <2>3, <2>4, <2>5, <2>6, <2>7, <2>8, <2>9, <2>10 DEF Next
  <1> QED
    BY <1>2

\* A verdict is sent when it is another one.
LEMMA PublishIs ==
  ASSUME NEW h \in VenueHealth
  PROVE  /\ Publish(h) \in Seq(Frame)
         /\ h = health => Len(Publish(h)) = 0
         /\ h # health => Len(Publish(h)) = 1 /\ Publish(h)[1] = Health(h)
  BY FrameTypes, Single DEF Publish

\* A verdict that is sent when it is another one is all that a handler may send.
LEMMA VerdictAlone ==
  ASSUME NEW h \in VenueHealth, todo' = Publish(h), process'
  PROVE  todo' \in Seq(Frame) /\ TodoShape'
  <1>1. /\ todo' \in Seq(Frame)
        /\ Len(todo') = 0 \/ (Len(todo') = 1 /\ todo'[1] = Health(h))
    BY PublishIs
  <1>2. Health(h).type = "kHealth"
    BY DEF Health
  <1>3. Len(todo') <= 2 /\ \A k \in 1 .. Len(todo') : k = 1 /\ todo'[k].type = "kHealth"
    <2>1. CASE Len(todo') = 0
      BY <2>1
    <2>2. CASE Len(todo') = 1 /\ todo'[1] = Health(h)
      <3>1. todo'[1].type = "kHealth"
        BY <1>2, <2>2
      <3> QED
        BY <2>2, <3>1
    <2> QED
      BY <1>1, <2>1, <2>2
  <1> QED
    BY <1>1, <1>3 DEF TodoShape

\* Or the verdict and one frame more.
LEMMA VerdictAnd ==
  ASSUME NEW h \in VenueHealth, NEW u \in Frame, todo' = Publish(h) \o <<u>>, process',
         \/ u.type = "kBookUpdate"
         \/ u.type = "kHealth" /\ ~Opens
  PROVE  todo' \in Seq(Frame) /\ TodoShape' /\ todo' = Append(Publish(h), u)
  <1>1. <<u>> \in Seq(Frame) /\ Len(<<u>>) = 1 /\ <<u>>[1] = u
    BY Single
  <1>2. /\ Publish(h) \in Seq(Frame) /\ Len(Publish(h)) \in {0, 1}
        /\ Len(Publish(h)) = 1 => Publish(h)[1] = Health(h)
    BY PublishIs
  <1>3. Health(h).type = "kHealth"
    BY DEF Health
  <1> DEFINE p == Publish(h)
  <1>4. todo' = p \o <<u>>
    OBVIOUS
  <1> HIDE DEF p
  <1>5. /\ todo' \in Seq(Frame) /\ Len(todo') = Len(p) + 1
        /\ \A k \in 1 .. Len(p) + 1 : todo'[k] = IF k <= Len(p) THEN p[k] ELSE <<u>>[k - Len(p)]
    BY <1>1, <1>2, <1>4, Joined DEF p
  <1>6. todo' = Append(p, u)
    BY <1>2, <1>4 DEF p
  <1>7. Len(p) \in {0, 1} /\ (Len(p) = 1 => p[1].type = "kHealth")
    BY <1>2, <1>3 DEF p
  <1>8. ASSUME NEW k \in 1 .. Len(todo')
        PROVE  \/ k = Len(todo') /\ todo'[k] = u
               \/ k = 1 /\ todo'[k].type = "kHealth"
    <2>1. CASE k <= Len(p)
      BY <1>5, <1>7, <2>1
    <2>2. CASE ~(k <= Len(p))
      <3>1. k = Len(p) + 1 /\ todo'[k] = <<u>>[k - Len(p)] /\ k - Len(p) = 1
        BY <1>5, <1>7, <2>2
      <3> QED
        BY <1>1, <1>5, <3>1
    <2> QED
      BY <2>1, <2>2
  <1>9. TodoShape'
    <2>1. Len(todo') <= 2
      BY <1>5, <1>7
    <2> QED
      BY <1>8, <2>1 DEF TodoShape
  <1> QED
    BY <1>5, <1>6, <1>9 DEF p

\* The verdict of a handler's message is not the one of a resync.
LEMMA PromotedIs ==
  ASSUME TypeInv
  PROVE  Promoted \in VenueHealth \ {"kResyncing"}
  BY DEF TypeInv, TypeOK, Promoted, VenueHealth

\* What is replayed: a snapshot, and one delta after the other.
LEMMA ReplayIs ==
  ASSUME TypeInv, NEW n \in last - pending .. last
  PROVE  /\ n \in Update /\ Replay(n) \in Seq(Frame) /\ Len(Replay(n)) = last - n + 1
         /\ \A k \in 1 .. last - n + 1 :
              /\ Replay(n)[k] = IF k = 1 THEN Snapshot(n) ELSE Delta(n + k - 1)
              /\ n + k - 1 \in Update
              /\ Replay(n)[k].type = "kBookUpdate"
  <1>1. /\ last \in Update /\ pending \in Nat /\ pending <= last /\ MaxUpdates \in Nat
    BY LinkAssumption DEF TypeInv, TypeOK, BufferShape
  <1>2. n \in Update /\ last - n + 1 \in Nat
    BY <1>1 DEF Update
  <1>3. \A k \in 1 .. last - n + 1 : n + k - 1 \in Update
    BY <1>1, <1>2 DEF Update
  <1>4. \A k \in 1 .. last - n + 1 : (IF k = 1 THEN Snapshot(n) ELSE Delta(n + k - 1)) \in UpdateFrame
    BY <1>2, <1>3, FrameTypes
  <1>5. Replay(n) \in [1 .. last - n + 1 -> UpdateFrame]
    BY <1>4 DEF Replay
  <1>6. Replay(n) \in Seq(Frame) /\ Len(Replay(n)) = last - n + 1
    <2>1. Replay(n) \in [1 .. last - n + 1 -> Frame]
      BY <1>5, FrameTypes
    <2> QED
      BY <1>2, <2>1
  <1>7. ASSUME NEW k \in 1 .. last - n + 1
        PROVE  /\ Replay(n)[k] = IF k = 1 THEN Snapshot(n) ELSE Delta(n + k - 1)
               /\ Replay(n)[k].type = "kBookUpdate"
    <2>1. Replay(n)[k] \in UpdateFrame
      BY <1>5
    <2> QED
      BY <2>1 DEF Replay, UpdateFrame
  <1> QED
    BY <1>2, <1>3, <1>6, <1>7

\* What is left to send after a refused frame: the announcement of the resync, and
\* what the handler had left.
LEMMA RefusedTodo ==
  ASSUME TypeInv, RefuseFrame
  PROVE  /\ todo' \in Seq(Frame) /\ TodoShape'
         /\ \A k \in 1 .. Len(todo') : \/ todo'[k] = Health("kResyncing")
                                       \/ \E j \in 1 .. Len(todo) : todo'[k] = todo[j]
  <1>0. todo \in Seq(Frame) /\ todo # <<>> /\ process'
    BY DEF TypeInv, TypeOK, RefuseFrame
  <1>1. /\ Tail(todo) \in Seq(Frame) /\ Len(Tail(todo)) = Len(todo) - 1 /\ Len(todo) \in Nat \ {0}
        /\ \A k \in 1 .. Len(todo) - 1 : Tail(todo)[k] = todo[k + 1]
    BY <1>0, Rest
  <1>4. "kResyncing" \in VenueHealth
    BY DEF VenueHealth
  <1> DEFINE p == Publish("kResyncing")
  <1>5. p \in Seq(Frame) /\ (Len(p) = 0 \/ (Len(p) = 1 /\ p[1] = Health("kResyncing")))
    BY <1>4, PublishIs
  <1>6. todo' = p \o Tail(todo)
    BY DEF RefuseFrame
  <1> HIDE DEF p
  <1>7. /\ todo' \in Seq(Frame) /\ Len(todo') = Len(p) + Len(Tail(todo))
        /\ \A k \in 1 .. Len(p) + Len(Tail(todo)) :
             todo'[k] = IF k <= Len(p) THEN p[k] ELSE Tail(todo)[k - Len(p)]
    BY <1>1, <1>5, <1>6, Joined
  <1>8. ASSUME NEW k \in 1 .. Len(todo')
        PROVE  \/ k = 1 /\ todo'[k] = Health("kResyncing")
               \/ \E j \in 1 .. Len(todo) :
                    todo'[k] = todo[j] /\ j # 1 /\ (j = Len(todo) => k = Len(todo'))
    <2>1. CASE k <= Len(p)
      BY <1>5, <1>7, <2>1
    <2>2. CASE ~(k <= Len(p))
      <3>1. /\ k - Len(p) \in 1 .. Len(todo) - 1 /\ k - Len(p) + 1 \in 1 .. Len(todo)
            /\ k - Len(p) + 1 # 1
            /\ k - Len(p) + 1 = Len(todo) => k = Len(todo')
        BY <1>1, <1>5, <1>7, <2>2
      <3>2. todo'[k] = Tail(todo)[k - Len(p)]
        BY <1>7, <2>2
      <3>3. todo'[k] = todo[k - Len(p) + 1]
        BY <1>1, <3>1, <3>2
      <3> QED
        BY <3>1, <3>3
    <2> QED
      BY <2>1, <2>2
  <1>9. Health("kResyncing").type = "kHealth"
    BY DEF Health
  <1>10. TodoShape'
    <2>1. \A k \in 1 .. Len(todo') : todo'[k].type \in {"kHealth", "kBookUpdate"}
      BY <1>8, <1>9 DEF TypeInv, TodoShape
    <2>2. ASSUME Opens
          PROVE  /\ Len(todo') <= 2
                 /\ \A k \in 1 .. Len(todo') : \/ k = 1 /\ todo'[k].type = "kHealth"
                                               \/ k = Len(todo') /\ todo'[k].type = "kBookUpdate"
      <3>0. Len(todo) <= 2
        BY <2>2 DEF TypeInv, TodoShape
      <3>1. Len(todo') <= 2
        BY <1>1, <1>5, <1>7, <3>0
      <3>2. \A j \in 1 .. Len(todo) : j # 1 => j = Len(todo) /\ todo[j].type = "kBookUpdate"
        BY <2>2 DEF TypeInv, TodoShape
      <3> QED
        BY <1>8, <1>9, <3>1, <3>2
    <2> QED
      BY <1>0, <2>1, <2>2 DEF TodoShape
  <1> QED
    BY <1>7, <1>8, <1>10

\* No step changes the kind of the provider.
LEMMA NextKind == ASSUME [Next]_vars PROVE opened' = opened
  <1>1. CASE UNCHANGED vars \/ VenueMoves \/ Silence \/ StartProcess \/ Crash \/ Shutdown
    BY <1>1 DEF VenueMoves, Silence, StartProcess, Crash, Shutdown, Exit
  <1>2. CASE OnDepthMessage \/ JoinSnapshot \/ OnKeepalive \/ CheckHealth \/ Reconnect
    BY <1>2 DEF OnDepthMessage, OpenWithSnapshot, ApplyDelta, BufferEvent, BufferOverflows, JoinSnapshot,
                OnKeepalive, CheckHealth, Reconnect
  <1>3. CASE SendFrame \/ RefuseFrame \/ StartCore \/ StopCore \/ Receive \/ Overflow \/ Consolidate
    BY <1>3 DEF SendFrame, RefuseFrame, StartCore, StopCore, Receive, Overflow, Consolidate
  <1> QED
    BY <1>1, <1>2, <1>3 DEF Next

\* Every step keeps the types.
LEMMA NextType == TypeInv /\ [Next]_vars => TypeInv'
  <1> SUFFICES ASSUME TypeInv, [Next]_vars PROVE TypeInv'
    OBVIOUS
  <1>0. /\ {process', synced', resync', coreUp', bound', lost', active'} \subseteq BOOLEAN
        /\ wire \in Seq(Frame) /\ queue \in Seq(Frame)
    BY NextFlags DEF TypeInv, TypeOK
  <1>z. opened' = Opens /\ opened' \in BOOLEAN /\ opened = Opens
    BY NextKind DEF TypeInv, TypeOK
  <1> USE <1>z, LinkAssumption DEF TypeInv
  <1>n. MaxPending \in Nat /\ pending \in Nat /\ pending <= last /\ last \in Update /\ (Opens => pending = 0)
    BY DEF TypeOK, BufferShape
  <1>d. ASSUME UNCHANGED <<last, pending>> PROVE BufferShape'
    BY <1>d DEF BufferShape
  <1>a. ASSUME UNCHANGED <<todo, process>> PROVE TodoShape' /\ (todo \in Seq(Frame))'
    BY <1>a DEF TodoShape, TypeOK
  <1>b. ASSUME UNCHANGED <<wire, process>>
        PROVE  WireShape' /\ wire' \in Seq(Frame) /\ Len(wire') <= SendHwm + 1
    BY <1>b DEF WireShape, TypeOK
  <1>c. ASSUME UNCHANGED queue
        PROVE  QueueShape' /\ queue' \in Seq(Frame) /\ Len(queue') <= QueueCapacity
    BY <1>c DEF QueueShape, TypeOK
  <1>1. CASE UNCHANGED vars
    BY <1>1, <1>0, <1>a, <1>b, <1>c, <1>d DEF TypeOK
  <1>2. CASE VenueMoves \/ Silence \/ StartCore
    <2>1. UNCHANGED <<todo, process, wire, queue>>
      BY <1>2 DEF VenueMoves, Silence, StartCore
    <2>2. /\ now' \in Update /\ stamp' \in {"none", "fresh", "old"}
          /\ UNCHANGED <<exits, last, pending, health, coreRestarts, coreHealth, coreBook>>
      <3>1. now' \in Update
        BY <1>2, SMTT(30) DEF VenueMoves, Silence, StartCore, TypeOK, Update
      <3>2. stamp' \in {"none", "fresh", "old"}
        BY <1>2 DEF VenueMoves, Silence, StartCore, TypeOK
      <3>3. UNCHANGED <<exits, last, pending, health, coreRestarts, coreHealth, coreBook>>
        BY <1>2 DEF VenueMoves, Silence, StartCore
      <3> QED
        BY <3>1, <3>2, <3>3
    <2>3. TypeOK'
      BY <1>0, <2>1, <2>2 DEF TypeOK
    <2> QED
      BY <2>1, <2>2, <2>3, <1>a, <1>b, <1>c, <1>d
  <1>7. CASE Reconnect
    <2>1. UNCHANGED <<now, todo, process, wire, queue, exits, stamp, health, coreRestarts, coreHealth, coreBook>>
      BY <1>7 DEF Reconnect
    <2>2. last' \in Update /\ pending' \in 0 .. MaxPending /\ BufferShape'
      BY <1>7, <1>n DEF Reconnect, Subscribe, BufferShape, TypeOK, Update
    <2>3. TypeOK'
      BY <1>0, <2>1, <2>2 DEF TypeOK
    <2> QED
      BY <2>1, <2>2, <2>3, <1>a, <1>b, <1>c
  <1>3. CASE StartProcess
    <2>1. wire' \in Seq(Frame) /\ Len(wire') = 1
      BY <1>3, FrameTypes DEF StartProcess
    <2>2. WireShape' /\ TodoShape' /\ QueueShape'
      BY <1>3, <1>c, <2>1 DEF StartProcess, WireShape, TodoShape
    <2>4. last' \in Update /\ pending' \in 0 .. MaxPending /\ BufferShape'
      BY <1>3, <1>n DEF StartProcess, Subscribe, BufferShape, TypeOK, Update
    <2>3. TypeOK'
      BY <1>3, <1>0, <2>1, <2>4 DEF StartProcess, TypeOK, VenueHealth
    <2> QED
      BY <2>2, <2>3, <2>4
  <1>4. ASSUME NEW frames \in {wire, Append(wire, Goodbye)}, Exit(frames), process,
               Len(frames) <= SendHwm
        PROVE  TypeInv'
    <2>1. frames \in Seq(Frame) /\ \A k \in 2 .. Len(frames) : frames[k] # Hello
      <3>1. CASE frames = wire
        BY <1>0, <3>1 DEF WireShape
      <3>2. CASE frames = Append(wire, Goodbye)
        <4>1. Goodbye \in Frame /\ Goodbye # Hello
          BY FrameTypes, FramesDiffer
        <4>2. /\ frames \in Seq(Frame) /\ Len(frames) = Len(wire) + 1 /\ frames[Len(wire) + 1] = Goodbye
              /\ \A k \in 1 .. Len(wire) : frames[k] = wire[k]
          BY <1>0, <3>2, <4>1, Longer
        <4>3. Len(wire) \in Nat
          BY <1>0
        <4> QED
          BY <4>1, <4>2, <4>3 DEF WireShape
      <3> QED
        BY <3>1, <3>2
    <2>2. PICK n \in 0 .. Len(frames) : wire' = Append(SubSeq(frames, 1, n), Notify)
      BY <1>4 DEF Exit
    <2>3. SubSeq(frames, 1, n) \in Seq(Frame) /\ Len(SubSeq(frames, 1, n)) = n
          /\ \A k \in 1 .. n : SubSeq(frames, 1, n)[k] = frames[k]
      BY <2>1, Part
    <2>4. wire' \in Seq(Frame) /\ Len(wire') = n + 1
          /\ wire'[n + 1] = Notify /\ \A k \in 1 .. n : wire'[k] = frames[k]
      BY <2>2, <2>3, FrameTypes, Longer
    <2>5. \A k \in 2 .. Len(wire') : wire'[k] # Hello
      BY <2>1, <2>4, FramesDiffer
    <2>6. Len(wire') <= SendHwm + 1
      BY <1>4, <2>1, <2>4
    <2>7. WireShape' /\ TodoShape' /\ QueueShape'
      BY <1>4, <1>c, <2>5 DEF Exit, WireShape, TodoShape
    <2> QED
      BY <1>4, <1>0, <1>d, <2>4, <2>6, <2>7, SMTT(30) DEF Exit, TypeOK
  <1>5. CASE Crash
    BY <1>4, <1>5 DEF Crash, Exit, WireShape
  <1>6. CASE Shutdown
    <2>1. CASE Len(wire) < SendHwm
      <3>1. Len(Append(wire, Goodbye)) <= SendHwm
        BY <1>0, <2>1, Longer, FrameTypes
      <3> QED
        BY <1>4, <1>6, <2>1, <3>1 DEF Shutdown, Exit
    <2>2. CASE ~(Len(wire) < SendHwm)
      BY <1>4, <1>6, <2>2 DEF Shutdown, Exit, WireShape
    <2> QED
      BY <2>1, <2>2
  <1>8. CASE OnKeepalive \/ CheckHealth
    <2>1. health' \in VenueHealth
      BY <1>8, PromotedIs DEF OnKeepalive, Handle, CheckHealth, ClassifyFeed, VenueHealth
    <2>2. /\ todo' = Publish(health') /\ process' /\ stamp' \in {"none", "fresh", "old"}
          /\ UNCHANGED <<now, process, exits, syncVars, resync, wire, coreVars>>
      <3>1. CASE OnKeepalive
        BY <3>1, PublishIs, <2>1, ConcatEmptySeq DEF OnKeepalive, Handle, Idle
      <3>2. CASE CheckHealth
        BY <3>2 DEF CheckHealth, Idle, TypeOK
      <3> QED
        BY <1>8, <3>1, <3>2
    <2>3. todo' \in Seq(Frame) /\ TodoShape'
      BY <2>1, <2>2, VerdictAlone
    <2>4. WireShape' /\ QueueShape' /\ BufferShape'
      BY <2>2, <1>b, <1>c, <1>d
    <2> QED
      BY <1>0, <2>1, <2>2, <2>3, <2>4 DEF TypeOK
  <1>9. CASE OpenWithSnapshot \/ ApplyDelta
    <2>1. PICK u : u = IF synced THEN Delta(last + 1) ELSE Snapshot(now)
      OBVIOUS
    <2>2. u \in UpdateFrame /\ u \in Frame /\ u.type = "kBookUpdate"
      <3>1. CASE OpenWithSnapshot
        BY <2>1, <3>1, FrameTypes DEF OpenWithSnapshot, TypeOK, Snapshot
      <3>2. CASE ApplyDelta
        <4>0. last < now /\ now \in Update
          BY <3>2 DEF ApplyDelta, TypeOK
        <4>1. last + 1 \in Update
          <5> HIDE DEF TypeInv
          <5> QED
            BY <1>n, <4>0 DEF Update
        <4> QED
          BY <2>1, <3>2, <4>1, FrameTypes DEF ApplyDelta, Delta
      <3> QED
        BY <1>9, <3>1, <3>2
    <2>3. Handle(<<u>>) /\ UNCHANGED <<now, process, exits, pending, resync, wire, coreVars>>
      BY <1>9, <2>1 DEF OpenWithSnapshot, ApplyDelta
    <2>4. health' \in VenueHealth /\ stamp' \in {"none", "fresh", "old"}
          /\ todo' = Publish(health') \o <<u>> /\ process'
      BY <2>3, PromotedIs DEF Handle, Idle
    <2>5. todo' \in Seq(Frame) /\ TodoShape'
      BY <2>2, <2>4, VerdictAnd
    <2>6. last' \in Update /\ pending <= last'
      BY <1>9, <1>n DEF OpenWithSnapshot, ApplyDelta, TypeOK, Update
    <2>7. WireShape' /\ QueueShape' /\ BufferShape'
      BY <2>3, <2>6, <1>b, <1>c DEF BufferShape
    <2> QED
      BY <1>0, <2>3, <2>4, <2>5, <2>6, <2>7 DEF TypeOK
  <1>15. CASE BufferEvent
    <2>1. Handle(<<>>) /\ UNCHANGED <<now, process, exits, synced, resync, wire, coreVars>>
      BY <1>15 DEF BufferEvent
    <2>2. health' \in VenueHealth /\ stamp' \in {"none", "fresh", "old"} /\ process'
      BY <2>1, PromotedIs DEF Handle, Idle
    <2>3. todo' = Publish(health')
      BY <2>1, <2>2, PublishIs, ConcatEmptySeq DEF Handle
    <2>4. todo' \in Seq(Frame) /\ TodoShape'
      BY <2>2, <2>3, VerdictAlone
    <2>5. last' \in Update /\ pending' \in 0 .. MaxPending /\ BufferShape'
      BY <1>15, <1>n DEF BufferEvent, BufferShape, TypeOK, Update
    <2>6. WireShape' /\ QueueShape'
      BY <2>1, <1>b, <1>c
    <2> QED
      BY <1>0, <2>1, <2>2, <2>4, <2>5, <2>6 DEF TypeOK
  <1>16. CASE BufferOverflows
    <2>1. "kResyncing" \in VenueHealth /\ Promoted \in VenueHealth
      BY PromotedIs DEF VenueHealth
    <2>2. /\ ~Opens /\ process' /\ health' = "kResyncing" /\ stamp' = "fresh"
          /\ todo' = Publish(Promoted) \o <<Health("kResyncing")>>
          /\ UNCHANGED <<now, process, exits, syncVars, wire, coreVars>>
      BY <1>16 DEF BufferOverflows, Idle
    <2>3. Health("kResyncing") \in Frame /\ Health("kResyncing").type = "kHealth"
      BY <2>1, FrameTypes DEF Health
    <2>4. todo' \in Seq(Frame) /\ TodoShape'
      BY <2>1, <2>2, <2>3, VerdictAnd
    <2>5. WireShape' /\ QueueShape' /\ BufferShape'
      BY <2>2, <1>b, <1>c, <1>d
    <2> QED
      BY <1>0, <2>1, <2>2, <2>4, <2>5 DEF TypeOK
  <1>17. CASE JoinSnapshot
    <2>1. PICK n \in last - pending .. last : todo' = Replay(n)
      BY <1>17 DEF JoinSnapshot
    <2>2. /\ ~Opens /\ process' /\ pending' = 0
          /\ UNCHANGED <<now, process, exits, last, stamp, health, resync, wire, coreVars>>
      BY <1>17, <1>n DEF JoinSnapshot, Idle, TypeOK
    <2>3. todo' \in Seq(Frame) /\ \A k \in 1 .. Len(todo') : todo'[k].type = "kBookUpdate"
      BY <2>1, ReplayIs
    <2>4. TodoShape'
      BY <2>2, <2>3 DEF TodoShape
    <2>5. pending' \in 0 .. MaxPending /\ BufferShape'
      BY <2>2, <1>n DEF BufferShape, Update
    <2>6. WireShape' /\ QueueShape'
      BY <2>2, <1>b, <1>c
    <2> QED
      BY <1>0, <2>2, <2>3, <2>4, <2>5, <2>6 DEF TypeOK
  <1>10. CASE SendFrame
    <2>0. todo \in Seq(Frame) /\ todo # <<>> /\ 1 \in 1 .. Len(todo)
      BY <1>10 DEF SendFrame, TypeOK
    <2>1. /\ Head(todo) \in Frame /\ Head(todo) = todo[1] /\ todo' \in Seq(Frame) /\ Len(todo') = Len(todo) - 1
          /\ \A k \in 1 .. Len(todo) - 1 : todo'[k] = todo[k + 1]
      BY <1>10, <2>0, Rest DEF SendFrame
    <2>2. Head(todo) # Hello
      <3>1. todo[1].type \in {"kHealth", "kBookUpdate"} /\ Hello.type = "kHello"
        BY <2>0 DEF TodoShape, Hello
      <3> QED
        BY <2>1, <3>1
    <2>3. /\ wire' \in Seq(Frame) /\ Len(wire') = Len(wire) + 1 /\ Len(wire') <= SendHwm
          /\ \A k \in 2 .. Len(wire') : wire'[k] # Hello
      <3>1. Len(wire) < SendHwm /\ wire' = Append(wire, Head(todo)) /\ Len(wire) \in Nat
        BY <1>0, <1>10 DEF SendFrame
      <3>2. /\ wire' \in Seq(Frame) /\ Len(wire') = Len(wire) + 1 /\ wire'[Len(wire) + 1] = Head(todo)
            /\ \A k \in 1 .. Len(wire) : wire'[k] = wire[k]
        <4> HIDE DEF TypeInv
        <4> QED
          BY <1>0, <2>1, <3>1, Longer
      <3>3. ASSUME NEW k \in 2 .. Len(wire') PROVE wire'[k] # Hello
        BY <2>2, <3>1, <3>2 DEF WireShape
      <3> QED
        BY <3>1, <3>2, <3>3
    <2>4. process' /\ UNCHANGED <<now, exits, last, pending, stamp, health, coreVars>>
      BY <1>10 DEF SendFrame
    <2>5. WireShape' /\ QueueShape' /\ BufferShape'
      BY <2>3, <2>4, <1>c, <1>d DEF WireShape
    <2>6. Len(todo) \in Nat /\ \A k \in 1 .. Len(todo') : k + 1 \in 1 .. Len(todo) /\ todo'[k] = todo[k + 1]
      BY <2>0, <2>1
    <2>7. TodoShape'
      <3>1. \A k \in 1 .. Len(todo') : todo'[k].type \in {"kHealth", "kBookUpdate"}
        BY <2>6 DEF TodoShape
      <3>2. ASSUME Opens
            PROVE  /\ Len(todo') <= 2
                   /\ \A k \in 1 .. Len(todo') : \/ k = 1 /\ todo'[k].type = "kHealth"
                                                 \/ k = Len(todo') /\ todo'[k].type = "kBookUpdate"
        <4>1. Len(todo) <= 2
          BY <3>2 DEF TodoShape
        <4>2. Len(todo') <= 2 /\ \A k \in 1 .. Len(todo') : k + 1 # 1 /\ (k + 1 = Len(todo) => k = Len(todo'))
          BY <2>1, <2>6, <4>1
        <4> QED
          BY <2>6, <3>2, <4>2 DEF TodoShape
      <3> QED
        BY <2>4, <3>1, <3>2 DEF TodoShape
    <2> QED
      BY <1>0, <2>1, <2>3, <2>4, <2>5, <2>7 DEF TypeOK
  <1>11. CASE RefuseFrame
    <2>1. "kResyncing" \in VenueHealth
      BY DEF VenueHealth
    <2>2. health' = "kResyncing" /\ UNCHANGED <<now, process, exits, syncVars, stamp, wire, coreVars>>
      BY <1>11 DEF RefuseFrame
    <2>3. WireShape' /\ QueueShape' /\ BufferShape'
      BY <2>2, <1>b, <1>c, <1>d
    <2>4. todo' \in Seq(Frame) /\ TodoShape'
      BY <1>11, RefusedTodo
    <2> QED
      BY <1>0, <2>1, <2>2, <2>3, <2>4 DEF TypeOK
  <1>12. CASE StopCore
    <2>1. PICK n \in 0 .. Len(wire) : wire' = SubSeq(wire, n + 1, Len(wire))
      BY <1>12 DEF StopCore
    <2>2. /\ wire' \in Seq(Frame) /\ Len(wire') = Len(wire) - n
          /\ \A k \in 1 .. Len(wire') : wire'[k] = wire[k + n]
      <3>1. /\ SubSeq(wire, n + 1, Len(wire)) \in Seq(Frame)
            /\ Len(SubSeq(wire, n + 1, Len(wire))) = Len(wire) - n
            /\ \A k \in 1 .. Len(wire) - n : SubSeq(wire, n + 1, Len(wire))[k] = wire[k + n]
        BY ONLY <1>0, n \in 0 .. Len(wire), Part
      <3> QED
        BY ONLY <2>1, <3>1
    <2>3. \A k \in 2 .. Len(wire') : wire'[k] # Hello
      <3>1. \A k \in 2 .. Len(wire') : k + n \in 2 .. Len(wire) /\ k \in 1 .. Len(wire')
        BY <1>0, <2>2
      <3> QED
        BY <2>2, <3>1 DEF WireShape
    <2>4. Len(wire') <= Len(wire) /\ Len(wire) \in Nat
      BY <1>0, <2>2
    <2>5. TodoShape' /\ WireShape' /\ QueueShape'
      BY <1>12, <1>a, <2>3, <2>4, SMTT(30) DEF StopCore, Forgotten, WireShape, QueueShape
    <2>6. /\ UNCHANGED <<now, exits, last, pending, stamp, health, todo>> /\ queue' = <<>>
          /\ coreRestarts' \in 0 .. MaxCoreRestarts /\ coreBook' = 0 /\ coreHealth' = "kNoData"
      <3>1. coreRestarts \in 0 .. MaxCoreRestarts
        BY DEF TypeOK
      <3> QED
        BY <1>12, <3>1 DEF StopCore, Forgotten
    <2>7. 0 \in Update /\ "kNoData" \in VenueHealth
      BY DEF Update, VenueHealth
    <2>8. queue' \in Seq(Frame) /\ Len(queue') <= QueueCapacity /\ Len(wire') <= SendHwm + 1
      BY <1>0, <2>2, <2>4, <2>6, SMTT(30) DEF TypeOK
    <2> QED
      BY <1>0, <1>d, <2>2, <2>5, <2>6, <2>7, <2>8, SMTT(30) DEF TypeOK
  <1>13. CASE Receive \/ Overflow
    <2>0. wire' = Tail(wire) /\ wire # <<>>
      BY <1>13 DEF Receive, Overflow
    <2>1. /\ wire' \in Seq(Frame) /\ Len(wire') = Len(wire) - 1
          /\ \A k \in 1 .. Len(wire') : wire'[k] = wire[k + 1]
          /\ Head(wire) \in Frame
      BY <1>0, <2>0, Rest
    <2>2. queue' = queue \/ (Receive /\ ForCore(Head(wire)) /\ queue' = Append(queue, Head(wire)))
      BY <1>13 DEF Receive, Overflow
    <2>3. QueueShape' /\ queue' \in Seq(Frame) /\ Len(queue') <= QueueCapacity
      <3>1. CASE queue' = queue
        BY <3>1, <1>c
      <3>2. CASE Receive /\ ForCore(Head(wire)) /\ queue' = Append(queue, Head(wire))
        <4>1. Head(wire).type # "kGoodbye" /\ Len(queue) < QueueCapacity
          BY <3>2 DEF Receive, ForCore
        <4> QED
          BY <1>0, <2>1, <3>2, <4>1, Longer DEF QueueShape
      <3> QED
        BY <2>2, <3>1, <3>2
    <2>4. \A k \in 2 .. Len(wire') : wire'[k] # Hello
      <3>1. \A k \in 2 .. Len(wire') : k + 1 \in 2 .. Len(wire) /\ k \in 1 .. Len(wire')
        BY <1>0, <2>1
      <3> QED
        BY <2>1, <3>1 DEF WireShape
    <2>5. Len(wire') <= Len(wire) /\ Len(wire) \in Nat
      BY <1>0, <2>1
    <2>6. UNCHANGED <<now, providerVars, coreUp, coreRestarts, keptVars>>
      BY <1>13 DEF Receive, Overflow
    <2>7. TodoShape' /\ WireShape'
      <3>1. process' = process /\ todo' = todo
        BY <2>6
      <3>2. TodoShape'
        BY <1>a, <3>1
      <3> QED
        BY <2>4, <2>5, <3>1, <3>2 DEF WireShape
    <2> QED
      BY <1>0, <1>d, <2>1, <2>3, <2>5, <2>6, <2>7, SMTT(30) DEF TypeOK
  <1>14. CASE Consolidate
    <2>0. Head(queue) \in Frame /\ Head(queue).type # "kGoodbye" /\ Applied(Head(queue)) /\ queue # <<>>
      BY <1>14, QueueHead DEF Consolidate
    <2>1. coreBook' \in Update \cup {Wrong} /\ coreHealth' \in VenueHealth
      <3>1. coreBook \in Update \cup {Wrong} /\ coreHealth \in VenueHealth /\ 0 \in Update /\ "kNoData" \in VenueHealth
        BY DEF TypeOK, Update, VenueHealth
      <3> QED
        BY <2>0, <3>1, AppliedIs DEF UpdateFrame
    <2>2. QueueShape' /\ queue' \in Seq(Frame) /\ Len(queue') <= QueueCapacity
      BY <1>0, <2>0, <1>14, Rest DEF Consolidate, TypeOK, QueueShape
    <2>3. TodoShape' /\ WireShape' /\ BufferShape'
      BY <1>14, <1>a, <1>b, <1>d DEF Consolidate
    <2> QED
      BY <1>14, <1>0, <2>1, <2>2, <2>3 DEF Consolidate, TypeOK
  <1> QED
    BY <1>1, <1>2, <1>3, <1>5, <1>6, <1>7, <1>8, <1>9, <1>10, <1>11, <1>12, <1>13, <1>14, <1>15, <1>16, <1>17
    DEF Next, OnDepthMessage

\* The initial state has them.
LEMMA InitType == Init /\ opened = Opens => TypeInv
  <1> SUFFICES ASSUME Init, opened = Opens PROVE TypeInv
    OBVIOUS
  <1> USE LinkAssumption DEF Init
  <1>1. {opened, process, synced, resync, coreUp, bound, lost, active} \subseteq BOOLEAN
    OBVIOUS
  <1>2. TypeOK
    BY <1>1 DEF TypeOK, Update, VenueHealth
  <1>3. TodoShape /\ BufferShape /\ WireShape /\ QueueShape
    BY DEF TodoShape, BufferShape, WireShape, QueueShape
  <1> QED
    BY <1>2, <1>3 DEF TypeInv

\* The processes keep to their states, the socket and Core's queue to their
\* limits, and kHello is never behind another frame of its connection.
THEOREM TypeCorrect == Spec /\ opened = Opens => []TypeInv
  BY InitType, NextType, PTL DEF Spec

---------------------------------------------------------------------------
(* The frames under way.                                                    *)

\* What Core holds of the venue now.
CoreHolds == [on |-> IF active THEN 1 ELSE 0, book |-> coreBook, health |-> coreHealth]

HelloWaits == wire # <<>> /\ wire[1] = Hello

\* The frames on the wire are for Core: it knows the connection, or will.
Listening == bound \/ HelloWaits

\* v is what Core holds after the wire.  Where streams open with a snapshot the
\* handler's frames fit it, and unless a resync is due they lead to the book and the
\* verdict the provider goes by.
ProviderAt(v) ==
  /\ v.on = 1 <=> process
  /\ Opens => \A k \in 1 .. Len(todo) : Fits(v, todo[k])
  /\ process /\ ~resync =>
       \E w : /\ Chain(v, todo, w)
              /\ synced => w.book = last
              /\ health # "kResyncing" => w.health = health

\* m is what Core holds after its queue: registered if the ingress has bound the
\* connection.
Reaches(m) ==
  /\ Chain(CoreHolds, queue, m)
  /\ m.on = 1 <=> bound
  /\ bound => ~HelloWaits
  /\ Listening => \E v : Chain(m, wire, v) /\ ProviderAt(v)

UnderWay == ~lost => \E m : Reaches(m)

\* A resync that is due has been announced.
Announced == resync => health = "kResyncing"

LinkInv == TypeInv /\ Announced /\ UnderWay

\* The provider's side of a step keeps what Core's side relies on.
LEMMA ProviderStep ==
  ASSUME NEW m, Reaches(m), UNCHANGED <<queue, bound, lost, keptVars>>,
         bound => ~HelloWaits',
         Listening' => \E v : Chain(m, wire', v) /\ ProviderAt(v)'
  PROVE  Reaches(m)'
  BY DEF Reaches, CoreHolds, Listening

\* Nothing that was lost is found again.
LEMMA LostStays == ASSUME [Next]_vars, ~lost' PROVE ~lost
  <1>1. CASE UNCHANGED vars \/ VenueMoves \/ Silence \/ StartProcess \/ Crash \/ Shutdown
    BY <1>1 DEF VenueMoves, Silence, StartProcess, Crash, Shutdown, Exit
  <1>2. CASE OnDepthMessage \/ JoinSnapshot \/ OnKeepalive \/ CheckHealth \/ Reconnect
    BY <1>2 DEF OnDepthMessage, OpenWithSnapshot, ApplyDelta, BufferEvent, BufferOverflows, JoinSnapshot,
                OnKeepalive, CheckHealth, Reconnect
  <1>3. CASE SendFrame \/ RefuseFrame \/ StartCore \/ StopCore \/ Receive \/ Overflow \/ Consolidate
    BY <1>3 DEF SendFrame, RefuseFrame, StartCore, StopCore, Receive, Overflow, Consolidate
  <1> QED
    BY <1>1, <1>2, <1>3 DEF Next

\* A resync is announced when it is asked for, and no verdict takes that back
\* before it is over.
LEMMA NextAnnounced == ASSUME Announced, [Next]_vars PROVE Announced'
  <1>1. CASE UNCHANGED vars \/ VenueMoves \/ Silence \/ StartProcess \/ Crash \/ Shutdown
    BY <1>1 DEF Announced, VenueMoves, Silence, StartProcess, Crash, Shutdown, Exit
  <1>2. CASE OnDepthMessage \/ JoinSnapshot \/ OnKeepalive \/ CheckHealth \/ Reconnect
    BY <1>2 DEF Announced, OnDepthMessage, OpenWithSnapshot, ApplyDelta, BufferEvent, BufferOverflows,
                JoinSnapshot, OnKeepalive, CheckHealth, Reconnect, Handle, Idle
  <1>3. CASE SendFrame \/ RefuseFrame \/ StartCore \/ StopCore \/ Receive \/ Overflow \/ Consolidate
    BY <1>3 DEF Announced, SendFrame, RefuseFrame, StartCore, StopCore, Receive, Overflow, Consolidate
  <1> QED
    BY <1>1, <1>2, <1>3 DEF Next

\* Core may hold nothing.
LEMMA GoneHeld == Gone \in Held /\ Gone.on = 0
  BY LinkAssumption DEF Gone, Held, Book, VenueHealth, Update

\* A verdict never disturbs the book, nor an update the verdict.
LEMMA StepIs ==
  ASSUME NEW v \in Held, v.on = 1, NEW frame
  PROVE  /\ frame.type = "kHealth" =>
              /\ Step(v, frame).on = 1 /\ Step(v, frame).book = v.book /\ Step(v, frame).health = frame.health
              /\ Fits(v, frame)
         /\ frame.type = "kBookUpdate" =>
              Step(v, frame).on = 1 /\ Step(v, frame).health = v.health
         /\ frame.type = "kBookUpdate" /\ Fits(v, frame) => Step(v, frame).book = frame.seq
  BY DEF Step, Fits

\* A verdict that is sent when it is another one leads to that verdict.
LEMMA VerdictChain ==
  ASSUME NEW v \in Held, v.on = 1, NEW h \in VenueHealth, h = health => v.health = health
  PROVE  /\ \E w \in Held : Chain(v, Publish(h), w) /\ w.on = 1 /\ w.book = v.book /\ w.health = h
         /\ \A k \in 1 .. Len(Publish(h)) : Fits(v, Publish(h)[k])
  <1>1. CASE h = health
    <2>1. Publish(h) = <<>> /\ Len(<<>>) = 0
      BY <1>1 DEF Publish
    <2> QED
      BY <1>1, <2>1, ChainEmpty
  <1>2. CASE h # health
    <2>1. Health(h) \in Frame /\ Health(h).type = "kHealth" /\ Health(h).health = h
      BY FrameTypes DEF Health
    <2>2. Fits(v, Health(h)) /\ Follows(v, Health(h))
      BY <2>1 DEF Follows, Fits
    <2>3. PICK w : w = Step(v, Health(h))
      OBVIOUS
    <2>4. w \in Held
      BY <2>1, <2>2, <2>3, StepHeld
    <2>5. w.on = 1 /\ w.book = v.book /\ w.health = h
      BY <2>1, <2>3, StepIs
    <2>6. Publish(h) = Append(<<>>, Health(h))
      BY <1>2 DEF Publish
    <2>7. Chain(v, Append(<<>>, Health(h)), w)
      <3>1. <<>> \in Seq(Frame) /\ Chain(v, <<>>, v)
        BY ChainEmpty, EmptySeq
      <3> QED
        BY <2>1, <2>3, <2>4, <3>1, ChainAppend
    <2>8. \A k \in 1 .. Len(Publish(h)) : Publish(h)[k] = Health(h)
      BY <1>2, PublishIs
    <2> QED
      BY <2>2, <2>4, <2>5, <2>6, <2>7, <2>8
  <1> QED
    BY <1>1, <1>2

\* What is replayed leads to the last update, whatever the book was before.
LEMMA ReplayChain ==
  ASSUME TypeInv, ~Opens, NEW n \in last - pending .. last, NEW v \in Held, v.on = 1
  PROVE  \E w : Chain(v, Replay(n), w) /\ w.book = last /\ w.health = v.health
  <1> DEFINE f == Replay(n)
             At(b) == [on |-> 1, book |-> b, health |-> v.health]
             t == [k \in 0 .. last - n + 1 |-> IF k = 0 THEN v ELSE At(n + k - 1)]
  <1>1. /\ n \in Update /\ f \in Seq(Frame) /\ Len(f) = last - n + 1 /\ last - n + 1 \in Nat \ {0}
        /\ \A k \in 1 .. last - n + 1 : f[k] = (IF k = 1 THEN Snapshot(n) ELSE Delta(n + k - 1))
                                        /\ n + k - 1 \in Update
    <2>1. n \in Update /\ last \in Nat /\ pending \in Nat /\ MaxUpdates \in Nat
      BY ReplayIs, LinkAssumption DEF TypeInv, TypeOK, Update
    <2>2. n \in Nat /\ n <= last /\ last - n + 1 \in Nat \ {0}
      BY <2>1 DEF Update
    <2> QED
      BY <2>1, <2>2, ReplayIs
  <1> HIDE DEF f
  <1>2. \A b \in Update : At(b) \in Held
    BY LinkAssumption DEF Held, Book
  <1>3. n \in Nat /\ last \in Nat
    BY <1>1, LinkAssumption DEF TypeInv, TypeOK, Update
  <1>4. t \in [0 .. Len(f) -> Held]
    <2>1. \A k \in 0 .. last - n + 1 : (IF k = 0 THEN v ELSE At(n + k - 1)) \in Held
      <3> HIDE DEF At
      <3> QED
        BY <1>1, <1>2
    <2> HIDE DEF At
    <2> QED
      BY <1>1, <2>1
  <1>5. ASSUME NEW k \in 1 .. Len(f)
        PROVE  t[k] = Step(t[k - 1], f[k])
    <2>1. k \in 0 .. last - n + 1 /\ k - 1 \in 0 .. last - n + 1 /\ k # 0 /\ n + k - 1 \in Nat
      BY <1>1, <1>3
    <2>2. t[k] = At(n + k - 1)
      <3> HIDE DEF At
      <3> QED
        BY <2>1
    <2>3. CASE k = 1
      <3>1. t[k - 1] = v /\ f[k] = Snapshot(n) /\ n + k - 1 = n
        BY <1>1, <1>3, <2>1, <2>3
      <3>2. Step(v, Snapshot(n)) = At(n)
        BY DEF Step, Snapshot
      <3> HIDE DEF At
      <3> QED
        BY <2>2, <3>1, <3>2
    <2>4. CASE k # 1
      <3>1. f[k] = Delta(n + k - 1)
        BY <1>1, <2>4
      <3>2. t[k - 1] = At(n + k - 2)
        <4>1. k - 1 # 0 /\ n + (k - 1) - 1 = n + k - 2
          BY <1>3, <2>1, <2>4
        <4> HIDE DEF At
        <4> QED
          BY <2>1, <4>1
      <3>3. PICK b : b = n + k - 2
        OBVIOUS
      <3>4. PICK c : c = n + k - 1
        OBVIOUS
      <3>5. b = c - 1
        BY <1>3, <2>1, <3>3, <3>4
      <3>6. Step(At(b), Delta(c)) = At(c)
        BY <3>5 DEF Step, Delta
      <3> HIDE DEF At, t
      <3> QED
        BY <2>2, <3>1, <3>2, <3>3, <3>4, <3>6
    <2> QED
      BY <2>3, <2>4
  <1>6. t[0] = v /\ t[Len(f)] = At(last)
    <2>1. n + (last - n + 1) - 1 = last /\ last - n + 1 # 0 /\ last - n + 1 \in 0 .. last - n + 1 /\ 0 \in 0 .. last - n + 1
      BY <1>1, <1>3
    <2> HIDE DEF At
    <2> QED
      BY <1>1, <2>1
  <1> HIDE DEF t
  <1>7. Chain(v, f, At(last))
    BY <1>4, <1>5, <1>6 DEF Chain, Run
  <1>8. At(last).book = last /\ At(last).health = v.health
    OBVIOUS
  <1> HIDE DEF At
  <1> QED
    BY <1>7, <1>8 DEF f

\* Every step of the provider keeps the chain whole.
LEMMA ProviderKeeps ==
  ASSUME LinkInv, NEW m, Reaches(m),
         \/ OnDepthMessage \/ JoinSnapshot \/ OnKeepalive \/ CheckHealth \/ Reconnect
         \/ SendFrame \/ RefuseFrame \/ VenueMoves \/ Silence \/ StartCore \/ UNCHANGED vars
  PROVE  Reaches(m)'
  <1>0. /\ wire \in Seq(Frame) /\ todo \in Seq(Frame) /\ Len(todo) \in Nat
        /\ health \in VenueHealth /\ TypeInv
    BY DEF LinkInv, TypeInv, TypeOK
  <1>1. UNCHANGED <<queue, bound, lost, keptVars>>
    BY DEF OnDepthMessage, OpenWithSnapshot, ApplyDelta, BufferEvent, BufferOverflows, JoinSnapshot,
           OnKeepalive, CheckHealth, Reconnect, SendFrame, RefuseFrame, VenueMoves, Silence, StartCore
  <1>2. ASSUME UNCHANGED wire,
               \A v \in Held : ProviderAt(v) => ProviderAt(v)'
        PROVE  Reaches(m)'
    <2>1. HelloWaits' = HelloWaits /\ Listening' = Listening
      BY <1>1, <1>2 DEF HelloWaits, Listening
    <2>2. \A v : Chain(m, wire, v) => v \in Held
      BY <1>0, ChainEnds
    <2> QED
      BY <1>1, <1>2, <2>1, <2>2, ProviderStep DEF Reaches
  <1>3. CASE UNCHANGED <<process, synced, last, health, resync, todo, wire>>
    <2>1. \A v \in Held : ProviderAt(v) => ProviderAt(v)'
      BY <1>3 DEF ProviderAt
    <2> QED
      BY <1>2, <1>3, <2>1
  <1>4. CASE Reconnect
    <2>1. process /\ process' /\ todo' = <<>> /\ todo = <<>> /\ synced' = FALSE /\ health' = "kResyncing" /\ UNCHANGED wire
      BY <1>4 DEF Reconnect, Subscribe, LinkInv, Announced
    <2>2. ASSUME NEW v \in Held, ProviderAt(v) PROVE ProviderAt(v)'
      <3>1. Chain(v, <<>>, v) /\ Len(<<>>) = 0
        BY ChainEmpty
      <3> QED
        BY <2>1, <2>2, <3>1 DEF ProviderAt
    <2> QED
      BY <1>2, <2>1, <2>2
  \* A handler starts where nothing is left to send.
  <1>10. ASSUME Idle, NEW v \in Held, ProviderAt(v)
         PROVE  v.on = 1 /\ (synced => v.book = last) /\ (health # "kResyncing" => v.health = health)
    <2>1. process /\ ~resync /\ todo = <<>>
      BY <1>10 DEF Idle
    <2>2. PICK w : /\ Chain(v, todo, w)
                   /\ synced => w.book = last
                   /\ health # "kResyncing" => w.health = health
      BY <1>10, <2>1 DEF ProviderAt
    <2>3. w = v
      <3>1. \A f \in Seq(Frame) : Chain(v, f, w) /\ f = <<>> => v = w
        BY ChainEnds
      <3> QED
        BY <1>0, <2>1, <2>2, <3>1
    <2> QED
      BY <1>10, <2>1, <2>2, <2>3 DEF ProviderAt
  <1>5. CASE OnKeepalive \/ CheckHealth \/ BufferEvent
    <2>1. Idle /\ process' /\ ~resync' /\ synced' = synced /\ (synced => last' = last) /\ UNCHANGED wire
      BY <1>5 DEF OnKeepalive, CheckHealth, BufferEvent, Handle, Idle
    <2>2. health' \in VenueHealth /\ (health = "kResyncing" => health' # health) /\ todo' = Publish(health')
      <3>1. CASE OnKeepalive \/ BufferEvent
        <4>1. health' = Promoted /\ todo' = Publish(Promoted) \o <<>>
          BY <3>1 DEF OnKeepalive, BufferEvent, Handle
        <4>2. Promoted \in VenueHealth /\ Promoted # "kResyncing"
          BY <1>0, PromotedIs
        <4>3. Publish(Promoted) \o <<>> = Publish(Promoted)
          BY <4>2, PublishIs, ConcatEmptySeq
        <4> QED
          BY <4>1, <4>2, <4>3
      <3>2. CASE CheckHealth
        BY <3>2 DEF CheckHealth, ClassifyFeed, VenueHealth
      <3> QED
        BY <1>5, <3>1, <3>2
    <2>3. ASSUME NEW v \in Held, ProviderAt(v) PROVE ProviderAt(v)'
      <3>1. v.on = 1 /\ (synced => v.book = last) /\ (health # "kResyncing" => v.health = health)
        BY <1>10, <2>1, <2>3
      <3>2. PICK h : h = health'
        OBVIOUS
      <3>3. /\ \E w \in Held : Chain(v, Publish(h), w) /\ w.on = 1 /\ w.book = v.book /\ w.health = h
            /\ \A k \in 1 .. Len(Publish(h)) : Fits(v, Publish(h)[k])
        BY <2>2, <3>1, <3>2, VerdictChain
      <3>4. todo' = Publish(h)
        BY <2>2, <3>2
      <3> QED
        BY <2>1, <3>1, <3>2, <3>3, <3>4 DEF ProviderAt
    <2> QED
      BY <1>2, <2>1, <2>3
  <1>6. CASE OpenWithSnapshot \/ ApplyDelta
    <2>0. last \in Nat /\ now \in Update
      BY <1>0, LinkAssumption DEF TypeInv, TypeOK, Update
    <2>1. PICK u : u = IF synced THEN Delta(last + 1) ELSE Snapshot(now)
      OBVIOUS
    <2>2. /\ Handle(<<u>>) /\ Idle /\ process' /\ ~resync' /\ UNCHANGED wire
          /\ u \in UpdateFrame /\ u \in Frame /\ u.type = "kBookUpdate" /\ u.seq = last'
          /\ u.isSnapshot \/ (synced /\ u.seq - 1 = last)
      <3>1. CASE OpenWithSnapshot
        BY <2>0, <2>1, <3>1, FrameTypes DEF OpenWithSnapshot, Snapshot, Handle, Idle
      <3>2. CASE ApplyDelta
        <4>1. last + 1 \in Update /\ (last + 1) - 1 = last
          <5>1. last < now
            BY <3>2 DEF ApplyDelta
          <5>2. MaxUpdates \in Nat /\ now \in 0 .. MaxUpdates
            BY <2>0, LinkAssumption DEF Update
          <5> QED
            BY <2>0, <5>1, <5>2 DEF Update
        <4>2. u = Delta(last + 1) /\ synced /\ last' = last + 1
          BY <2>1, <3>2 DEF ApplyDelta
        <4>3. u \in UpdateFrame /\ u \in Frame
          BY <4>1, <4>2, FrameTypes
        <4>4. u.type = "kBookUpdate" /\ u.seq = last + 1
          BY <4>2 DEF Delta
        <4>5. Handle(<<u>>) /\ UNCHANGED <<process, resync, wire>>
          BY <3>2, <4>2 DEF ApplyDelta
        <4>6. Idle /\ process' /\ ~resync'
          BY <4>5 DEF Handle, Idle
        <4>7. u.seq = last' /\ u.seq - 1 = last
          BY <4>1, <4>2, <4>4
        <4> QED
          BY <4>2, <4>3, <4>4, <4>5, <4>6, <4>7, Zenon
      <3> QED
        BY <1>6, <3>1, <3>2
    <2>3. PICK h : h = Promoted
      OBVIOUS
    <2>4. h \in VenueHealth /\ h # "kResyncing" /\ health' = h /\ todo' = Publish(h) \o <<u>>
      BY <1>0, <2>2, <2>3, PromotedIs DEF Handle
    <2>5. todo' = Append(Publish(h), u) /\ Publish(h) \in Seq(Frame)
      BY <2>2, <2>4, VerdictAnd, PublishIs
    <2>6. ASSUME NEW v \in Held, ProviderAt(v) PROVE ProviderAt(v)'
      <3>1. v.on = 1 /\ (synced => v.book = last) /\ (health # "kResyncing" => v.health = health)
        BY <1>10, <2>2, <2>6
      <3>2. PICK w \in Held : Chain(v, Publish(h), w) /\ w.on = 1 /\ w.book = v.book /\ w.health = h
        BY <2>4, <3>1, VerdictChain
      <3>3. Fits(v, u) /\ Fits(w, u)
        BY <2>2, <3>1, <3>2 DEF Fits
      <3>4. PICK x : x = Step(w, u)
        OBVIOUS
      <3>5. x \in Held /\ x.book = last' /\ x.health = h
        <4>1. x \in Held
          BY <2>2, <3>2, <3>3, <3>4, StepHeld DEF Follows
        <4> QED
          BY <2>2, <3>2, <3>3, <3>4, <4>1, StepIs
      <3>6. Chain(v, todo', x)
        BY <2>2, <2>5, <3>2, <3>4, <3>5, ChainAppend
      <3>7. ASSUME NEW k \in 1 .. Len(todo') PROVE Fits(v, todo'[k])
        <4>1. k \in 1 .. Len(Publish(h)) \/ k = Len(Publish(h)) + 1
          BY <2>2, <2>5, Longer
        <4>2. k \in 1 .. Len(Publish(h)) => todo'[k] = Publish(h)[k] /\ Fits(v, Publish(h)[k])
          BY <2>2, <2>4, <2>5, <3>1, Longer, VerdictChain
        <4>3. k = Len(Publish(h)) + 1 => todo'[k] = u
          BY <2>2, <2>5, Longer
        <4> QED
          BY <3>3, <4>1, <4>2, <4>3
      <3> QED
        BY <2>2, <2>4, <3>1, <3>5, <3>6, <3>7 DEF ProviderAt
    <2> QED
      BY <1>2, <2>2, <2>6
  <1>11. CASE BufferOverflows
    <2>1. ~Opens /\ process /\ process' /\ resync' /\ UNCHANGED wire
        BY <1>0, <1>11 DEF BufferOverflows, Idle, TypeInv
    <2>2. \A v \in Held : ProviderAt(v) => ProviderAt(v)'
      BY <2>1 DEF ProviderAt
    <2> QED
      BY <1>2, <2>1, <2>2
  <1>12. CASE JoinSnapshot
    <2>1. PICK n \in last - pending .. last : todo' = Replay(n)
      BY <1>12 DEF JoinSnapshot
    <2>2. Idle /\ ~Opens /\ process' /\ ~resync' /\ last' = last /\ health' = health /\ UNCHANGED wire
      BY <1>0, <1>12 DEF JoinSnapshot, Idle, TypeInv, TypeOK, BufferShape
    <2>3. ASSUME NEW v \in Held, ProviderAt(v) PROVE ProviderAt(v)'
      <3>1. v.on = 1 /\ (health # "kResyncing" => v.health = health)
        BY <1>10, <2>2, <2>3
      <3>2. PICK w : Chain(v, Replay(n), w) /\ w.book = last /\ w.health = v.health
        BY <1>0, <2>2, <3>1, ReplayChain
      <3> QED
        BY <2>1, <2>2, <3>1, <3>2 DEF ProviderAt
    <2> QED
      BY <1>2, <2>2, <2>3
  <1>7. CASE RefuseFrame
    <2>1. process /\ process' /\ resync' /\ UNCHANGED wire
      BY <1>7 DEF RefuseFrame
    <2>2. \A k \in 1 .. Len(todo') : \/ todo'[k] = Health("kResyncing")
                                     \/ \E j \in 1 .. Len(todo) : todo'[k] = todo[j]
      BY <1>0, <1>7, RefusedTodo
    <2>3. ASSUME NEW v \in Held, ProviderAt(v) PROVE ProviderAt(v)'
      <3>1. Fits(v, Health("kResyncing"))
        BY DEF Fits, Health
      <3>2. Opens => \A k \in 1 .. Len(todo') : Fits(v, todo'[k])
        BY <2>2, <2>3, <3>1 DEF ProviderAt
      <3> QED
        BY <2>1, <2>3, <3>2 DEF ProviderAt
    <2> QED
      BY <1>2, <2>1, <2>3
  <1>8. CASE SendFrame
    <2> DEFINE frame == Head(todo)
    <2>1. /\ process /\ process' /\ todo # <<>> /\ UNCHANGED <<synced, last, health, resync>>
          /\ wire' = Append(wire, frame) /\ todo' = Tail(todo)
      BY <1>8 DEF SendFrame
    <2>2. /\ frame \in Frame /\ frame = todo[1] /\ Len(todo) \in Nat \ {0}
          /\ todo' \in Seq(Frame) /\ Len(todo') = Len(todo) - 1
          /\ \A k \in 1 .. Len(todo) - 1 : todo'[k] = todo[k + 1]
      BY <1>0, <2>1, Rest
    <2>3. frame.type \in {"kHealth", "kBookUpdate"} /\ 1 \in 1 .. Len(todo)
      BY <1>0, <2>2 DEF TypeInv, TodoShape
    <2>9. frame = Head(todo)
      OBVIOUS
    <2> HIDE DEF frame
    <2>4. ~HelloWaits => ~HelloWaits'
      <3>1. frame # Hello
        BY <2>3 DEF Hello
      <3>2. /\ wire' \in Seq(Frame) /\ Len(wire') = Len(wire) + 1 /\ wire'[Len(wire) + 1] = frame
            /\ \A k \in 1 .. Len(wire) : wire'[k] = wire[k]
        BY <1>0, <2>1, <2>2, Longer
      <3>3. wire = <<>> => Len(wire) = 0
        OBVIOUS
      <3>4. wire # <<>> => 1 \in 1 .. Len(wire)
        BY <1>0
      <3> QED
        BY <3>1, <3>2, <3>3, <3>4 DEF HelloWaits
    <2>5. ASSUME Listening'
          PROVE  \E v : Chain(m, wire', v) /\ ProviderAt(v)'
      <3>1. Listening
        BY <1>1, <2>4, <2>5 DEF Listening
      <3>2. PICK v : Chain(m, wire, v) /\ ProviderAt(v)
        BY <3>1 DEF Reaches
      <3>3. v \in Held /\ v.on = 1 /\ (Opens => Fits(v, frame))
        BY <1>0, <2>1, <2>2, <2>3, <3>2, ChainEnds DEF ProviderAt
      <3>4. PICK w : w = Step(v, frame)
        OBVIOUS
      <3>5. w \in Held
        BY <2>2, <3>3, <3>4, StepHeld DEF Follows
      <3>6. Chain(m, wire', w)
        BY <1>0, <2>1, <2>2, <3>2, <3>4, <3>5, ChainAppend
      <3>7. w.on = 1 /\ (frame.type = "kHealth" => w.book = v.book)
        BY <2>3, <3>3, <3>4, StepIs
      <3>8. ASSUME Opens, NEW k \in 1 .. Len(todo')
            PROVE  Fits(w, todo'[k])
        <4>1. k + 1 \in 1 .. Len(todo) /\ todo'[k] = todo[k + 1] /\ Len(todo) # 1
          BY <2>2
        <4>2. frame.type = "kHealth"
          <5>1. \/ todo[1].type = "kHealth"
                \/ 1 = Len(todo)
            BY <1>0, <2>3, <3>8 DEF TypeInv, TodoShape
          <5> QED
            BY <2>2, <4>1, <5>1
        <4>3. Fits(v, todo[k + 1])
          BY <3>2, <3>8, <4>1 DEF ProviderAt
        <4> QED
          BY <3>3, <3>7, <4>1, <4>2, <4>3 DEF Fits
      <3>9. ASSUME ~resync'
            PROVE  \E x : /\ Chain(w, todo', x)
                          /\ synced' => x.book = last'
                          /\ health' # "kResyncing" => x.health = health'
        <4>1. PICK x : /\ Chain(v, todo, x)
                       /\ synced => x.book = last
                       /\ health # "kResyncing" => x.health = health
          BY <2>1, <3>2, <3>9 DEF ProviderAt
        <4>2. Chain(w, todo', x)
          BY <1>0, <2>1, <2>9, <3>4, <4>1, ChainTail
        <4> QED
          BY <2>1, <4>1, <4>2
      <3>10. ProviderAt(w)'
        BY <2>1, <3>7, <3>8, <3>9 DEF ProviderAt
      <3> QED
        BY <3>6, <3>10
    <2> QED
      BY <1>1, <2>4, <2>5, ProviderStep DEF Reaches
  <1>9. CASE VenueMoves \/ Silence \/ StartCore \/ UNCHANGED vars
    <2>1. UNCHANGED <<process, synced, last, health, resync, todo, wire>>
      BY <1>9 DEF VenueMoves, Silence, StartCore
    <2> QED
      BY <1>3, <2>1
  <1> QED
    BY <1>4, <1>5, <1>6, <1>7, <1>8, <1>9, <1>11, <1>12 DEF OnDepthMessage

\* A new process says kHello on an empty wire to a Core that no longer holds
\* anything of the last one.
LEMMA StartKeeps ==
  ASSUME LinkInv, NEW m, Reaches(m), StartProcess
  PROVE  Reaches(m)'
  <1>0. /\ queue \in Seq(Frame) /\ wire \in Seq(Frame) /\ wire = <<>> /\ ~process /\ wire' = <<Hello>>
        /\ process' /\ synced' = FALSE /\ health' = "kNoData" /\ todo' = <<>>
        /\ UNCHANGED <<queue, bound, lost, keptVars>>
    BY DEF LinkInv, TypeInv, TypeOK, StartProcess, Subscribe
  <1>1. m \in Held
    BY <1>0, ChainEnds DEF Reaches
  <1>2. ~bound
    <2>1. SUFFICES ASSUME bound PROVE FALSE
      OBVIOUS
    <2>2. PICK v : Chain(m, wire, v) /\ ProviderAt(v)
      BY <2>1 DEF Reaches, Listening
    <2>3. v = m
      <3>1. wire \in Seq(Frame) /\ wire = <<>>
        BY <1>0
      <3>2. \A f \in Seq(Frame) : Chain(m, f, v) /\ f = <<>> => m = v
        BY ChainEnds
      <3> QED
        BY <2>2, <3>1, <3>2
    <2> QED
      BY <1>0, <2>1, <2>2, <2>3 DEF Reaches, ProviderAt
  <1>3. m.on = 0 /\ m.health = "kNoData"
    BY <1>1, <1>2 DEF Reaches, Held
  <1>4. PICK v : v = Step(m, Hello)
    OBVIOUS
  <1>5. v.on = 1 /\ v.health = "kNoData" /\ v \in Held
    <2>1. Follows(m, Hello) /\ Hello \in Frame
      BY FrameTypes DEF Follows, Fits, Hello
    <2>2. v \in Held
      BY <1>1, <1>4, <2>1, StepHeld
    <2> QED
      BY <1>3, <1>4, <2>2 DEF Step, Hello
  <1>6. Chain(m, wire', v)
    <2>1. Step(m, Hello) \in Held /\ Hello \in Frame
      BY <1>4, <1>5, FrameTypes
    <2>2. Chain(m, <<>>, m) /\ <<>> \in Seq(Frame)
      BY <1>1, ChainEmpty, EmptySeq
    <2>3. Append(<<>>, Hello) = <<Hello>>
      OBVIOUS
    <2> QED
      BY <1>0, <1>4, <2>1, <2>2, <2>3, ChainAppend
  <1>7. ProviderAt(v)'
    <2>1. Chain(v, <<>>, v) /\ Len(<<>>) = 0
      BY <1>5, ChainEmpty
    <2> QED
      BY <1>0, <1>5, <2>1 DEF ProviderAt
  <1> QED
    BY <1>0, <1>2, <1>6, <1>7, ProviderStep

\* However little of its frames a process that ends leaves on the wire, its
\* disconnect closes the chain.
LEMMA ExitKeeps ==
  ASSUME LinkInv, NEW m, Reaches(m), NEW frames \in {wire, Append(wire, Goodbye)}, Exit(frames)
  PROVE  Reaches(m)'
  <1>0. /\ wire \in Seq(Frame) /\ ~process' /\ todo' = <<>>
        /\ UNCHANGED <<queue, bound, lost, keptVars>>
    BY DEF LinkInv, TypeInv, TypeOK, Exit
  <1>1. Goodbye \in Frame /\ Notify \in Frame /\ Goodbye # Hello /\ Notify # Hello
    BY FrameTypes, FramesDiffer
  <1>2. /\ Append(wire, Goodbye) \in Seq(Frame) /\ Append(wire, Goodbye)[Len(wire) + 1] = Goodbye
        /\ Len(Append(wire, Goodbye)) = Len(wire) + 1
        /\ \A k \in 1 .. Len(wire) : Append(wire, Goodbye)[k] = wire[k]
    BY <1>0, <1>1, Longer
  <1>3. frames \in Seq(Frame)
    BY <1>0, <1>2
  <1>4. PICK n \in 0 .. Len(frames) : wire' = Append(SubSeq(frames, 1, n), Notify)
    BY DEF Exit
  <1> DEFINE rest == SubSeq(frames, 1, n)
  <1>5. rest \in Seq(Frame) /\ Len(rest) = n /\ \A k \in 1 .. n : rest[k] = frames[k]
    BY <1>3, Part
  <1>9. wire' = Append(rest, Notify)
    BY <1>4
  <1> HIDE DEF rest
  <1>6. /\ wire' \in Seq(Frame) /\ wire' # <<>> /\ Len(wire') = n + 1 /\ wire'[n + 1] = Notify
        /\ \A k \in 1 .. n : wire'[k] = rest[k]
    BY <1>1, <1>5, <1>9, Longer
  <1>7. ~HelloWaits => ~HelloWaits'
    <2>1. n = 0 \/ 1 \in 1 .. n
      BY <1>3
    <2>2. Len(wire) \in Nat /\ (Len(wire) = 0 <=> wire = <<>>)
      BY <1>0
    <2>3. frames # <<>> /\ frames[1] = Hello => HelloWaits
      <3>1. CASE frames = wire
        BY <3>1 DEF HelloWaits
      <3>2. CASE frames = Append(wire, Goodbye) /\ wire # <<>>
        <4>1. 1 \in 1 .. Len(wire)
          BY <2>2, <3>2
        <4> QED
          BY <1>2, <3>2, <4>1 DEF HelloWaits
      <3>3. CASE frames = Append(wire, Goodbye) /\ wire = <<>>
        <4>1. Len(wire) + 1 = 1
          BY <2>2, <3>3
        <4> QED
          BY <1>1, <1>2, <3>3, <4>1
      <3> QED
        BY <3>1, <3>2, <3>3
    <2>4. 1 \in 1 .. n => frames # <<>>
      BY <1>3
    <2> QED
      BY <1>1, <1>5, <1>6, <2>1, <2>3, <2>4 DEF HelloWaits
  <1>8. ASSUME Listening'
        PROVE  \E v : Chain(m, wire', v) /\ ProviderAt(v)'
    <2>1. Listening
      BY <1>0, <1>7, <1>8 DEF Listening
    <2>2. PICK u : Chain(m, wire, u)
      BY <2>1 DEF Reaches
    <2>3. PICK w : Chain(m, frames, w)
      <3>1. Step(u, Goodbye) \in Held
        <4>1. u \in Held /\ Follows(u, Goodbye)
          BY <1>0, <2>2, ChainEnds DEF Follows, Fits, Goodbye
        <4> QED
          BY <1>1, <4>1, StepHeld
      <3>2. Chain(m, Append(wire, Goodbye), Step(u, Goodbye))
        BY <1>0, <1>1, <2>2, <3>1, ChainAppend
      <3> QED
        BY <2>2, <3>2
    <2>4. PICK x : Chain(m, rest, x)
      BY <1>3, <2>3, ChainCut DEF rest
    <2>5. Step(x, Notify) = Gone /\ Gone \in Held
      BY GoneHeld DEF Notify, Step
    <2>6. Chain(m, wire', Gone)
      BY <1>1, <1>5, <1>9, <2>4, <2>5, ChainAppend
    <2>7. Gone.on = 0 /\ Len(<<>>) = 0
      BY DEF Gone
    <2>8. PICK v : v = Gone
      OBVIOUS
    <2>9. ProviderAt(v)'
      BY <1>0, <2>7, <2>8 DEF ProviderAt
    <2> QED
      BY <2>6, <2>8, <2>9
  <1> QED
    BY <1>0, <1>7, <1>8, ProviderStep DEF Reaches

\* A Core that starts anew listens to a connection only if it finds its kHello
\* unread.
LEMMA StopKeeps ==
  ASSUME LinkInv, NEW m, Reaches(m), StopCore
  PROVE  Reaches(Gone)'
  <1>0. /\ wire \in Seq(Frame) /\ queue \in Seq(Frame) /\ Len(wire) \in Nat
        /\ UNCHANGED <<now, providerVars, lost>>
        /\ ~bound' /\ queue' = <<>> /\ ~active' /\ coreBook' = 0 /\ coreHealth' = "kNoData"
    BY DEF LinkInv, TypeInv, TypeOK, StopCore, Forgotten
  <1>1. Gone \in Held /\ Gone.on = 0
    BY GoneHeld
  <1>2. CoreHolds' = Gone
    BY <1>0 DEF CoreHolds, Gone
  <1>3. Chain(CoreHolds', queue', Gone)
    BY <1>0, <1>1, <1>2, ChainEmpty
  <1>4. PICK n \in 0 .. Len(wire) : wire' = SubSeq(wire, n + 1, Len(wire))
    BY DEF StopCore
  <1>5. /\ wire' \in Seq(Frame) /\ Len(wire') = Len(wire) - n
        /\ \A k \in 1 .. Len(wire) - n : wire'[k] = wire[k + n]
    <2>1. /\ SubSeq(wire, n + 1, Len(wire)) \in Seq(Frame)
          /\ Len(SubSeq(wire, n + 1, Len(wire))) = Len(wire) - n
          /\ \A k \in 1 .. Len(wire) - n : SubSeq(wire, n + 1, Len(wire))[k] = wire[k + n]
      BY ONLY <1>0, n \in 0 .. Len(wire), Part
    <2> QED
      BY ONLY <1>4, <2>1
  <1>6. ASSUME HelloWaits'
        PROVE  \E v : Chain(Gone, wire', v) /\ ProviderAt(v)'
    <2>1. 1 \in 1 .. Len(wire) - n /\ wire[1 + n] = Hello
      BY <1>0, <1>5, <1>6 DEF HelloWaits
    <2>2. n = 0
      <3>1. n # 0 => 1 + n \in 2 .. Len(wire)
        BY <1>0, <2>1
      <3> QED
        BY <2>1, <3>1 DEF LinkInv, TypeInv, WireShape
    <2>3. wire' = wire
      BY <1>0, <1>4, <2>2
    <2>4. HelloWaits
      BY <1>6, <2>3 DEF HelloWaits
    <2>5. PICK v : Chain(m, wire, v) /\ ProviderAt(v)
      BY <2>4 DEF Reaches, Listening
    <2>6. m = Gone
      <3>1. m \in Held
        BY <1>0, ChainEnds DEF Reaches
      <3>2. m.on = 0
        BY <2>4, <3>1 DEF Reaches, Held
      <3> QED
        BY <3>1, <3>2 DEF Held, Gone
    <2>7. ProviderAt(v)'
      BY <1>0, <2>5 DEF ProviderAt
    <2> QED
      BY <2>3, <2>5, <2>6, <2>7
  <1>7. Gone' = Gone
    BY DEF Gone
  <1> QED
    BY <1>0, <1>1, <1>3, <1>6, <1>7 DEF Reaches, Listening

\* The ingress passes the next frame on, or keeps it when it is not for Core.
LEMMA ReceiveKeeps ==
  ASSUME LinkInv, NEW m, Reaches(m), Receive
  PROVE  \E n : Reaches(n)'
  <1> DEFINE frame == Head(wire)
  <1>0. /\ wire \in Seq(Frame) /\ queue \in Seq(Frame) /\ wire # <<>> /\ wire' = Tail(wire)
        /\ UNCHANGED <<now, providerVars, lost, keptVars>>
    BY DEF LinkInv, TypeInv, TypeOK, Receive
  <1>1. /\ frame \in Frame /\ frame = wire[1] /\ Len(wire) \in Nat \ {0}
        /\ wire' \in Seq(Frame) /\ Len(wire') = Len(wire) - 1
        /\ \A k \in 1 .. Len(wire) - 1 : wire'[k] = wire[k + 1]
    BY <1>0, Rest
  <1>2. /\ queue' = IF ForCore(frame) THEN Append(queue, frame) ELSE queue
        /\ bound' <=> (frame.type = "kHello" \/ (bound /\ frame.type # "notify"))
    BY DEF Receive
  <1> HIDE DEF frame
  <1>3. m \in Held
    BY <1>0, ChainEnds DEF Reaches
  <1>4. ~HelloWaits'
    <2>1. SUFFICES ASSUME HelloWaits' PROVE FALSE
      OBVIOUS
    <2>2. 1 \in 1 .. Len(wire) - 1 /\ wire'[1] = Hello /\ 2 \in 2 .. Len(wire)
      BY <1>1, <2>1 DEF HelloWaits
    <2>3. wire[2] = Hello
      BY <1>1, <2>2
    <2> QED
      BY <2>2, <2>3 DEF LinkInv, TypeInv, WireShape
  <1>5. \A v : ProviderAt(v) => ProviderAt(v)'
    BY <1>0 DEF ProviderAt
  <1>6. CoreHolds' = CoreHolds
    BY <1>0 DEF CoreHolds
  <1>7. frame = Hello <=> frame.type = "kHello"
    BY <1>1 DEF Frame, Hello
  <1>8. CASE Listening
    <2>1. PICK v : Chain(m, wire, v) /\ ProviderAt(v)
      BY <1>8 DEF Reaches
    <2>2. PICK n : n = Step(m, frame)
      OBVIOUS
    <2>3. Chain(n, wire', v) /\ n \in Held
      <3>1. Chain(n, wire', v)
        BY <1>0, <2>1, <2>2, ChainTail DEF frame
      <3> QED
        BY <1>1, <3>1, ChainEnds
    <2>4. bound \/ frame.type = "kHello"
      BY <1>1, <1>7, <1>8 DEF Listening, HelloWaits
    <2>5. Chain(CoreHolds', queue', n)
      <3>1. CASE ForCore(frame)
        BY <1>0, <1>1, <1>2, <1>6, <2>2, <2>3, <3>1, ChainAppend DEF Reaches
      <3>2. CASE ~ForCore(frame)
        <4>1. frame.type = "kGoodbye"
          BY <1>1, <2>4, <3>2 DEF ForCore, Frame
        <4>2. n = m
          BY <2>2, <4>1 DEF Step
        <4> QED
          BY <1>2, <1>6, <3>2, <4>2 DEF Reaches
      <3> QED
        BY <3>1, <3>2
    <2>6. n.on = 1 <=> bound'
      <3>1. CASE frame.type = "kHello"
        BY <1>2, <2>2, <3>1 DEF Step
      <3>2. CASE frame.type = "notify"
        BY <1>2, <2>2, <3>2 DEF Step, Gone
      <3>3. CASE frame.type \notin {"kHello", "notify"}
        <4>1. bound /\ bound' /\ m.on = 1
          BY <1>2, <2>4, <3>3 DEF Reaches
        <4> QED
          BY <2>2, <3>3, <4>1 DEF Step
      <3> QED
        BY <3>1, <3>2, <3>3
    <2>7. Reaches(n)'
      BY <1>4, <1>5, <2>1, <2>3, <2>5, <2>6 DEF Reaches
    <2> QED
      BY <2>7
  <1>9. CASE ~Listening
    <2>1. ~bound /\ frame.type # "kHello"
      BY <1>0, <1>1, <1>7, <1>9 DEF Listening, HelloWaits
    <2>2. ~ForCore(frame) /\ ~bound'
      BY <1>2, <2>1 DEF ForCore
    <2>3. Reaches(m)'
      BY <1>2, <1>4, <1>6, <2>1, <2>2 DEF Reaches, Listening
    <2> QED
      BY <2>3
  <1> QED
    BY <1>8, <1>9

\* Core does with the next frame of its queue what the chain says.
LEMMA ConsolidateKeeps ==
  ASSUME LinkInv, NEW m, Reaches(m), Consolidate
  PROVE  Reaches(m)'
  <1> DEFINE frame == Head(queue)
  <1>0. /\ queue \in Seq(Frame) /\ queue # <<>> /\ queue' = Tail(queue)
        /\ UNCHANGED <<now, providerVars, wire, bound, lost>>
        /\ Applied(frame) /\ active \in BOOLEAN
    BY DEF LinkInv, TypeInv, TypeOK, Consolidate
  <1>1. frame \in Frame /\ frame.type # "kGoodbye"
    BY <1>0, QueueHead DEF LinkInv
  <1>2. Chain(Step(CoreHolds, frame), queue', m) /\ CoreHolds \in Held
    BY <1>0, ChainTail, ChainEnds DEF Reaches
  <1> HIDE DEF frame
  <1>3. /\ CoreHolds.on = IF active THEN 1 ELSE 0
        /\ CoreHolds.book = coreBook /\ CoreHolds.health = coreHealth
    BY DEF CoreHolds
  <1>4. CoreHolds' = Step(CoreHolds, frame)
    <2>1. CASE frame.type = "kHello" /\ active' = TRUE /\ UNCHANGED <<coreBook, coreHealth>>
      BY <1>3, <2>1 DEF CoreHolds, Step
    <2>2. CASE frame.type = "notify" /\ active' = FALSE /\ coreBook' = 0 /\ coreHealth' = "kNoData"
      BY <2>2 DEF CoreHolds, Step, Gone
    <2>3. CASE /\ frame \in [type : {"kHealth"}, health : VenueHealth]
               /\ coreHealth' = IF active THEN frame.health ELSE coreHealth
               /\ UNCHANGED <<active, coreBook>>
      <3>1. frame.type = "kHealth"
        BY <2>3
      <3> QED
        BY <1>3, <2>3, <3>1 DEF CoreHolds, Step
    <2>4. CASE /\ frame \in UpdateFrame
               /\ coreBook' = IF ~active THEN coreBook
                              ELSE IF frame.isSnapshot \/ coreBook = frame.seq - 1 THEN frame.seq
                              ELSE Wrong
               /\ UNCHANGED <<active, coreHealth>>
      <3>1. frame.type = "kBookUpdate"
        BY <2>4 DEF UpdateFrame
      <3>2. active => coreBook' = IF frame.isSnapshot \/ coreBook = frame.seq - 1 THEN frame.seq ELSE Wrong
        BY <2>4
      <3>3. ~active => coreBook' = coreBook
        BY <2>4
      <3> QED
        BY <1>3, <2>4, <3>1, <3>2, <3>3 DEF CoreHolds, Step
    <2> QED
      BY <1>0, <1>1, <2>1, <2>2, <2>3, <2>4, AppliedIs
  <1>5. Chain(CoreHolds', queue', m)
    BY <1>2, <1>4
  <1>6. HelloWaits' = HelloWaits /\ Listening' = Listening
    BY <1>0 DEF HelloWaits, Listening
  <1>7. \A v : ProviderAt(v) => ProviderAt(v)'
    BY <1>0 DEF ProviderAt
  <1> QED
    BY <1>0, <1>5, <1>6, <1>7 DEF Reaches

\* Every step keeps LinkInv.
LEMMA NextLink == LinkInv /\ [Next]_vars => LinkInv'
  <1> SUFFICES ASSUME LinkInv, [Next]_vars, ~lost' PROVE \E m : Reaches(m)'
    BY NextType, NextAnnounced DEF LinkInv, UnderWay
  <1>0. PICK m : Reaches(m)
    BY LostStays DEF LinkInv, UnderWay
  <1>1. CASE \/ OnDepthMessage \/ JoinSnapshot \/ OnKeepalive \/ CheckHealth \/ Reconnect
             \/ SendFrame \/ RefuseFrame \/ VenueMoves \/ Silence \/ StartCore \/ UNCHANGED vars
    BY <1>0, <1>1, ProviderKeeps
  <1>2. CASE StartProcess
    BY <1>0, <1>2, StartKeeps
  <1>3. CASE Crash
    BY <1>0, <1>3, ExitKeeps DEF Crash
  <1>4. CASE Shutdown
    BY <1>0, <1>4, ExitKeeps DEF Shutdown
  <1>5. CASE StopCore
    <2>1. Reaches(Gone)'
      BY <1>0, <1>5, StopKeeps
    <2>2. PICK m0 : m0 = Gone
      OBVIOUS
    <2>3. Reaches(m0)'
      BY <2>1, <2>2 DEF Reaches, Gone
    <2> QED
      BY <2>3
  <1>6. CASE Receive
    BY <1>0, <1>6, ReceiveKeeps
  <1>7. CASE Overflow
    BY <1>7 DEF Overflow
  <1>8. CASE Consolidate
    BY <1>0, <1>8, ConsolidateKeeps
  <1> QED
    BY <1>1, <1>2, <1>3, <1>4, <1>5, <1>6, <1>7, <1>8 DEF Next

\* Two processes that are not up have nothing under way.
LEMMA InitLink == Init /\ opened = Opens => LinkInv
  <1> SUFFICES ASSUME Init, opened = Opens PROVE LinkInv
    OBVIOUS
  <1> USE LinkAssumption
  <1>1. Gone \in Held /\ Gone.on = 0 /\ CoreHolds = Gone
    BY GoneHeld DEF Gone, CoreHolds, Init
  <1>2. Chain(CoreHolds, queue, Gone)
    BY <1>1, ChainEmpty DEF Init
  <1>3. Reaches(Gone)
    BY <1>1, <1>2 DEF Init, Reaches, Listening, HelloWaits
  <1> QED
    BY <1>3, InitType DEF LinkInv, Announced, UnderWay, Init

\* The chain of frames between the provider and Core is whole, unless Core's own
\* queue has overflowed.
THEOREM LinkInvHolds == Spec /\ opened = Opens => []LinkInv
  BY InitLink, NextLink, PTL DEF Spec

\* Where streams open with a snapshot, the book Core keeps has no hole that was made
\* on the way to its queue.
THEOREM NoHoleHolds == Spec /\ opened = Opens => []NoHole
  <1>1. LinkInv => NoHole
    <2> SUFFICES ASSUME LinkInv, opened, coreBook = Wrong, ~lost PROVE FALSE
      BY DEF NoHole
    <2>1. PICK m : Reaches(m)
      BY DEF LinkInv, UnderWay
    <2>2. CoreHolds \in Held
      BY <2>1, ChainEnds DEF Reaches, LinkInv, TypeInv, TypeOK
    <2>3. CoreHolds.book \in Book /\ CoreHolds.book = coreBook
      BY <2>2 DEF CoreHolds, Held
    <2> QED
      BY <2>3, LinkAssumption DEF Book, Update, LinkInv, TypeInv
  <1> QED
    BY <1>1, LinkInvHolds, PTL

\* When nothing is under way there is one thing Core holds, and it is what the
\* provider goes by.
LEMMA QuietHolds ==
  ASSUME LinkInv, Quiet
  PROVE  (synced => coreBook = last) /\ (health # "kResyncing" => coreHealth = health)
  <1>0. /\ wire \in Seq(Frame) /\ queue \in Seq(Frame) /\ todo \in Seq(Frame)
        /\ wire = <<>> /\ queue = <<>> /\ todo = <<>> /\ process /\ ~resync /\ bound /\ ~lost
    BY DEF LinkInv, TypeInv, TypeOK, Quiet
  <1>1. PICK m : Reaches(m)
    BY <1>0 DEF LinkInv, UnderWay
  <1>2. PICK v : Chain(m, wire, v) /\ ProviderAt(v)
    BY <1>0, <1>1 DEF Reaches, Listening
  <1>3. PICK w : /\ Chain(v, todo, w)
                 /\ synced => w.book = last
                 /\ health # "kResyncing" => w.health = health
    BY <1>0, <1>2 DEF ProviderAt
  <1>4. CoreHolds = m /\ m = v /\ v = w
    BY <1>0, <1>1, <1>2, <1>3, ChainEnds DEF Reaches
  <1>5. w.book = coreBook /\ w.health = coreHealth
    BY <1>4 DEF CoreHolds
  <1> QED
    BY <1>3, <1>5

\* When nothing is under way Core's book is the one the provider has emitted,
\* whatever was refused, of a handler with one update or with many.
THEOREM BooksAgreeHolds == Spec /\ opened = Opens => []BooksAgree
  <1>1. LinkInv => BooksAgree
    BY QuietHolds DEF BooksAgree
  <1> QED
    BY <1>1, LinkInvHolds, PTL

\* When nothing is under way Core holds the provider's own verdict, unless the
\* provider is in a resync.
THEOREM VerdictsAgreeHolds == Spec /\ opened = Opens => []VerdictsAgree
  <1>1. LinkInv => VerdictsAgree
    BY QuietHolds DEF VerdictsAgree
  <1> QED
    BY <1>1, LinkInvHolds, PTL
===========================================================================
