------------------------------- MODULE Link -------------------------------
(***************************************************************************)
(* A provider process and md_core across the wire: ZmqProviderSink, the     *)
(* provider's verdicts and resyncs as far as they depend on a send, the     *)
(* process around it (md_provider_main) and, on the other side, what the    *)
(* ingress thread and Core keep of this one venue.                          *)
(*                                                                         *)
(* A send never blocks: it is refused when kSendHwm frames wait.  A handler *)
(* of the provider may send several frames, and the other side reads in     *)
(* between, so what a handler still has to send is kept in todo and every   *)
(* send is a step of its own.  The venue's updates are numbered, and a book *)
(* is the number up to which it has them all.  The quote stream takes the   *)
(* same way; a quote is never missed, so only the depth stream is here.     *)
(*                                                                         *)
(* A provider is of one of two kinds.  Either its streams open with a       *)
(* snapshot (Bybit, OKX) and a handler sends a verdict and one update, or   *)
(* updates are buffered until a snapshot was fetched (Binance), and one     *)
(* handler sends that snapshot and all that was buffered.  This snapshot is *)
(* taken to be no newer than the stream; one that is ahead of it, too old   *)
(* for it or of an earlier run is the subject of Provider.                  *)
(*                                                                         *)
(* ZeroMQ is external: frames of a connection arrive in order; what a dying *)
(* process had queued is lost from some frame on, its disconnect            *)
(* notification arrives last; a socket whose peer restarts reconnects by    *)
(* itself, under a new identity, and keeps what it had queued.  The         *)
(* notification is taken to arrive before the next process connects (the    *)
(* other order is in Ingress).                                              *)
(***************************************************************************)
EXTENDS Naturals, Sequences

CONSTANTS
  MaxUpdates,       \* bound: updates of the venue
  MaxPending,       \* kMaxPendingEvents
  SendHwm,          \* kSendHwm
  QueueCapacity,    \* kProviderQueueCapacity
  MaxExits,         \* bound: times the provider process ends
  MaxCoreRestarts,  \* bound: times md_core is restarted
  Watched,          \* the update whose arrival is stated
  Wrong             \* a book with a hole

ASSUME LinkAssumption ==
  /\ {MaxPending, MaxExits, MaxCoreRestarts} \subseteq Nat
  /\ {MaxUpdates, SendHwm, QueueCapacity} \subseteq Nat \ {0}
  /\ Watched \in 1 .. MaxUpdates
  /\ Wrong \notin Nat

VARIABLES
  opened,        \* the provider's streams open with a snapshot (never changes)
  now,           \* the venue's last update
  process,       \* the provider process is up
  exits,         \* how often it ended
  synced,        \* this run has its snapshot
  last,          \* the last update the sockets delivered
  pending,       \* how many of them are buffered
  stamp,         \* last_depth_message_mono_ns_
  health,        \* last_depth_health_
  resync,        \* resync_requested_
  todo,          \* what the running handler still sends
  wire,          \* frames sent and not yet received
  coreUp,        \* md_core runs
  coreRestarts,  \* how often it was restarted
  bound,         \* the ingress bound the connection to its slot
  queue,         \* the slot's queue in Core
  lost,          \* that queue has overflowed
  active,        \* the venue is registered in Core
  coreBook,      \* the book Core keeps of the venue, 0 if it is empty
  coreHealth     \* the verdict Core keeps

syncVars == <<synced, last, pending>>
providerVars == <<process, exits, syncVars, stamp, health, resync, todo>>
keptVars == <<active, coreBook, coreHealth>>
coreVars == <<coreUp, coreRestarts, bound, queue, lost, keptVars>>
vars == <<opened, now, providerVars, wire, coreVars>>

VenueHealth == {"kNoData", "kLive", "kStale", "kResyncing"}
Update == 0 .. MaxUpdates
Frame ==
  [type : {"kHello", "kGoodbye", "notify"}]
    \cup [type : {"kHealth"}, health : VenueHealth]
    \cup [type : {"kBookUpdate"}, isSnapshot : BOOLEAN, seq : Update]

TypeOK ==
  /\ now \in Update
  /\ {opened, process, synced, resync, coreUp, bound, lost, active} \subseteq BOOLEAN
  /\ exits \in 0 .. MaxExits
  /\ coreRestarts \in 0 .. MaxCoreRestarts
  /\ last \in Update
  /\ pending \in 0 .. MaxPending
  /\ stamp \in {"none", "fresh", "old"}
  /\ {health, coreHealth} \subseteq VenueHealth
  /\ todo \in Seq(Frame)
  /\ wire \in Seq(Frame) /\ Len(wire) <= SendHwm + 1
  /\ queue \in Seq(Frame) /\ Len(queue) <= QueueCapacity
  /\ coreBook \in Update \cup {Wrong}

Hello == [type |-> "kHello"]
Goodbye == [type |-> "kGoodbye"]
Notify == [type |-> "notify"]
Health(h) == [type |-> "kHealth", health |-> h]
Snapshot(n) == [type |-> "kBookUpdate", isSnapshot |-> TRUE, seq |-> n]
Delta(n) == [type |-> "kBookUpdate", isSnapshot |-> FALSE, seq |-> n]

\* Either side may be started first.
Init ==
  /\ opened \in BOOLEAN
  /\ now = 1
  /\ process = FALSE
  /\ exits = 0
  /\ synced = FALSE /\ last = 0 /\ pending = 0
  /\ stamp = "none"
  /\ health = "kNoData"
  /\ resync = FALSE
  /\ todo = <<>>
  /\ wire = <<>>
  /\ coreUp = FALSE
  /\ coreRestarts = 0
  /\ bound = FALSE
  /\ queue = <<>>
  /\ lost = FALSE
  /\ active = FALSE
  /\ coreBook = 0
  /\ coreHealth = "kNoData"

VenueMoves ==
  /\ now < MaxUpdates
  /\ now' = now + 1
  /\ UNCHANGED <<opened, providerVars, wire, coreVars>>

---------------------------------------------------------------------------
(* The provider process.                                                    *)

\* Mutant: the synchronisation state survives the reconnection.
MutantSubscribe == synced' = synced /\ last' = now /\ pending' = 0

\* OnReconnect, and the sockets connect: nothing delivered, nothing buffered.
Subscribe == synced' = FALSE /\ last' = now /\ pending' = 0

\* main: kHello goes first, before the provider is started.
StartProcess ==
  /\ ~process
  /\ wire = <<>>
  /\ process' = TRUE
  /\ wire' = <<Hello>>
  /\ Subscribe
  /\ stamp' = "none"
  /\ health' = "kNoData"
  /\ resync' = FALSE
  /\ todo' = <<>>
  /\ UNCHANGED <<opened, now, exits, coreVars>>

\* A crash: the frames from some one on are lost, and the connection closes.
Exit(frames) ==
  /\ process
  /\ exits < MaxExits
  /\ exits' = exits + 1
  /\ process' = FALSE
  /\ todo' = <<>>
  /\ \E n \in 0 .. Len(frames) : wire' = Append(SubSeq(frames, 1, n), Notify)
  /\ UNCHANGED <<opened, now, syncVars, stamp, health, resync, coreVars>>

Crash == Exit(wire)

\* main: the provider is stopped, so that no handler runs; then kGoodbye.
Shutdown ==
  /\ todo = <<>>
  /\ Exit(IF Len(wire) < SendHwm THEN Append(wire, Goodbye) ELSE wire)

\* PublishHealth: edge-triggered, the verdict is recorded and then sent.
Publish(h) == IF h = health THEN <<>> ELSE <<Health(h)>>

\* The io_context runs a handler, and no other before it is done.
Idle == process /\ todo = <<>> /\ ~resync

\* NoteDepthActivity: the verdicts no tick of the watchdog clears.
Promoted == IF health \in {"kNoData", "kResyncing"} THEN "kLive" ELSE health

\* The handler of a message: the feed is alive, and the frames are sent.
Handle(frames) ==
  /\ Idle
  /\ stamp' = "fresh"
  /\ health' = Promoted
  /\ todo' = Publish(Promoted) \o frames

\* The opening snapshot of a stream.
OpenWithSnapshot ==
  /\ ~synced /\ opened
  /\ Handle(<<Snapshot(now)>>)
  /\ synced' = TRUE /\ last' = now
  /\ UNCHANGED <<opened, now, process, exits, pending, resync, wire, coreVars>>

\* The next delta.
ApplyDelta ==
  /\ synced /\ last < now
  /\ Handle(<<Delta(last + 1)>>)
  /\ last' = last + 1
  /\ UNCHANGED <<opened, now, process, exits, synced, pending, resync, wire, coreVars>>

\* kSyncing: the event waits for the snapshot.
BufferEvent ==
  /\ ~opened /\ ~synced /\ last < now
  /\ pending < MaxPending
  /\ Handle(<<>>)
  /\ last' = last + 1 /\ pending' = pending + 1
  /\ UNCHANGED <<opened, now, process, exits, synced, resync, wire, coreVars>>

\* The buffer is full: RequestResync, after the promotion by the same message.
BufferOverflows ==
  /\ Idle
  /\ ~opened /\ ~synced /\ last < now
  /\ pending = MaxPending
  /\ resync' = TRUE
  /\ stamp' = "fresh"
  /\ health' = "kResyncing"
  /\ todo' = Publish(Promoted) \o <<Health("kResyncing")>>
  /\ UNCHANGED <<opened, now, process, exits, syncVars, wire, coreVars>>

OnDepthMessage == OpenWithSnapshot \/ ApplyDelta \/ BufferEvent \/ BufferOverflows

\* Mutant: the replay starts behind the first event the snapshot lacks.
MutantReplay(n) ==
  LET first == n + 1
  IN  [k \in 1 .. last - first + 1 |-> IF k = 1 THEN Snapshot(n) ELSE Delta(first + k - 1)]

\* The snapshot of update n, and the buffered deltas that follow it.
Replay(n) == [k \in 1 .. last - n + 1 |-> IF k = 1 THEN Snapshot(n) ELSE Delta(n + k - 1)]

\* ReconcileSnapshot, posted by the fetch: all of it is sent by this one handler,
\* whatever becomes of each send.
JoinSnapshot ==
  /\ Idle
  /\ ~synced /\ pending > 0
  /\ \E n \in last - pending .. last : todo' = Replay(n)
  /\ synced' = TRUE /\ pending' = 0
  /\ UNCHANGED <<opened, now, process, exits, last, stamp, health, resync, wire, coreVars>>

\* A message the filter drops: a keepalive, or the copy of a redundant socket.
OnKeepalive ==
  /\ synced \/ pending > 0
  /\ Handle(<<>>)
  /\ UNCHANGED <<opened, now, process, exits, syncVars, resync, wire, coreVars>>

Silence ==
  /\ stamp = "fresh"
  /\ stamp' = "old"
  /\ UNCHANGED <<opened, now, process, exits, syncVars, health, resync, todo, wire, coreVars>>

ClassifyFeed == CASE stamp = "none" -> "kNoData" [] stamp = "old" -> "kStale" [] OTHER -> "kLive"

\* The watchdog leaves kResyncing alone.
CheckHealth ==
  /\ Idle
  /\ health # "kResyncing"
  /\ health # ClassifyFeed
  /\ health' = ClassifyFeed
  /\ todo' = Publish(ClassifyFeed)
  /\ UNCHANGED <<opened, now, process, exits, syncVars, stamp, resync, wire, coreVars>>

\* Run goes round: new sockets.
Reconnect ==
  /\ process
  /\ resync /\ todo = <<>>
  /\ resync' = FALSE
  /\ Subscribe
  /\ UNCHANGED <<opened, now, process, exits, stamp, health, todo, wire, coreVars>>

---------------------------------------------------------------------------
(* ZmqProviderSink.                                                         *)

\* SendFrame, with room.
SendFrame ==
  /\ process
  /\ todo # <<>>
  /\ Len(wire) < SendHwm
  /\ wire' = Append(wire, Head(todo))
  /\ todo' = Tail(todo)
  /\ UNCHANGED <<opened, now, process, exits, syncVars, stamp, health, resync, coreVars>>

\* Mutant: a refused frame is dropped and nobody is told.
MutantRefuseFrame ==
  /\ process
  /\ todo # <<>>
  /\ Len(wire) >= SendHwm
  /\ todo' = Tail(todo)
  /\ UNCHANGED <<opened, now, process, exits, syncVars, stamp, health, resync, wire, coreVars>>

\* Mutant: only a refused update asks for a resync.
MutantRefuseUpdate ==
  /\ process
  /\ todo # <<>>
  /\ Len(wire) >= SendHwm
  /\ IF Head(todo).type = "kBookUpdate"
     THEN /\ resync' = TRUE
          /\ health' = "kResyncing"
          /\ todo' = Publish("kResyncing") \o Tail(todo)
     ELSE todo' = Tail(todo) /\ UNCHANGED <<resync, health>>
  /\ UNCHANGED <<opened, now, process, exits, syncVars, stamp, wire, coreVars>>

\* SendUpdate and SendHealth report a refused frame, and OnUpdate and OnHealth
\* call the hook: RequestResync, which publishes kResyncing through this sink
\* again before the handler goes on with what it had left to send.
RefuseFrame ==
  /\ process
  /\ todo # <<>>
  /\ Len(wire) >= SendHwm
  /\ resync' = TRUE
  /\ health' = "kResyncing"
  /\ todo' = Publish("kResyncing") \o Tail(todo)
  /\ UNCHANGED <<opened, now, process, exits, syncVars, stamp, wire, coreVars>>

---------------------------------------------------------------------------
(* md_core.                                                                 *)

Forgotten ==
  /\ bound' = FALSE
  /\ queue' = <<>>
  /\ active' = FALSE
  /\ coreBook' = 0
  /\ coreHealth' = "kNoData"

StartCore ==
  /\ ~coreUp
  /\ coreUp' = TRUE
  /\ UNCHANGED <<opened, now, providerVars, wire, coreRestarts, bound, queue, lost, keptVars>>

\* Core goes, with all it knew and with what it had been sent and not read.
StopCore ==
  /\ coreUp
  /\ coreRestarts < MaxCoreRestarts
  /\ coreRestarts' = coreRestarts + 1
  /\ coreUp' = FALSE
  /\ Forgotten
  /\ \E n \in 0 .. Len(wire) : wire' = SubSeq(wire, n + 1, Len(wire))
  /\ UNCHANGED <<opened, now, providerVars, lost>>

\* What HandlePayload and HandleNotify hand to Core, if anything.
ForCore(frame) ==
  frame.type = "kHello" \/ (bound /\ frame.type \in {"kHealth", "kBookUpdate", "notify"})

Receive ==
  LET frame == Head(wire)
  IN  /\ coreUp
      /\ wire # <<>>
      /\ ForCore(frame) => Len(queue) < QueueCapacity
      /\ wire' = Tail(wire)
      /\ queue' = IF ForCore(frame) THEN Append(queue, frame) ELSE queue
      /\ bound' = (frame.type = "kHello" \/ (bound /\ frame.type # "notify"))
      /\ UNCHANGED <<opened, now, providerVars, coreUp, coreRestarts, lost, keptVars>>

\* Core's queue is full: "resync required", but there is nobody to tell.
Overflow ==
  LET frame == Head(wire)
  IN  /\ coreUp
      /\ wire # <<>>
      /\ ForCore(frame)
      /\ Len(queue) = QueueCapacity
      /\ wire' = Tail(wire)
      /\ bound' = (frame.type # "notify")
      /\ lost' = TRUE
      /\ UNCHANGED <<opened, now, providerVars, coreUp, coreRestarts, queue, keptVars>>

\* RegisterVenue, RemoveVenue, ProcessHealth and ProcessUpdate, for one venue.
Applied(frame) ==
  CASE frame.type = "kHello" ->
         active' = TRUE /\ UNCHANGED <<coreBook, coreHealth>>
    [] frame.type = "notify" ->
         active' = FALSE /\ coreBook' = 0 /\ coreHealth' = "kNoData"
    [] frame.type = "kHealth" ->
         coreHealth' = (IF active THEN frame.health ELSE coreHealth) /\ UNCHANGED <<active, coreBook>>
    [] frame.type = "kBookUpdate" ->
         /\ coreBook' = IF ~active THEN coreBook
                        ELSE IF frame.isSnapshot \/ coreBook = frame.seq - 1 THEN frame.seq
                        ELSE Wrong
         /\ UNCHANGED <<active, coreHealth>>

\* The consolidator drains the slot's queue.
Consolidate ==
  /\ coreUp
  /\ queue # <<>>
  /\ Applied(Head(queue))
  /\ queue' = Tail(queue)
  /\ UNCHANGED <<opened, now, providerVars, wire, coreUp, coreRestarts, bound, lost>>

---------------------------------------------------------------------------
Next ==
  \/ VenueMoves \/ Silence
  \/ StartProcess \/ Crash \/ Shutdown
  \/ OnDepthMessage \/ JoinSnapshot \/ OnKeepalive \/ CheckHealth \/ Reconnect
  \/ SendFrame \/ RefuseFrame
  \/ StartCore \/ StopCore \/ Receive \/ Overflow \/ Consolidate

\* Both processes are started again when they end (docker-compose), a handler
\* runs to its end, the io_context does not pass over a message or the result of a
\* fetch for ever whatever else is ready (hence SF), a fetch ends, and both threads
\* of Core go on reading.
Fairness ==
  /\ WF_vars(StartProcess) /\ WF_vars(StartCore)
  /\ WF_vars(SendFrame \/ RefuseFrame) /\ WF_vars(Reconnect)
  /\ SF_vars(OnDepthMessage) /\ SF_vars(JoinSnapshot)
  /\ WF_vars(Receive \/ Overflow) /\ WF_vars(Consolidate)

Spec == Init /\ [][Next]_vars /\ Fairness

---------------------------------------------------------------------------
(* Properties.                                                              *)

\* Where streams open with a snapshot, the book Core keeps of the venue has no hole
\* that was made on the way to Core's queue: a depth update that the socket refuses
\* is followed by a snapshot and by no delta (OnUpdate, RequestResync), however many
\* sends of the resync are refused themselves, and nothing of an earlier process is
\* built upon.  Where one handler sends a snapshot and what was buffered, this is
\* not so: ReconcileSnapshot goes on after a refused send.
NoHole == opened /\ coreBook = Wrong => lost

\* Nothing is under way between the provider and Core, and nothing was lost there.
Quiet == process /\ bound /\ ~lost /\ todo = <<>> /\ ~resync /\ wire = <<>> /\ queue = <<>>

\* Whatever was refused, of a handler with one update or with many: once the resync
\* is over and its snapshot there, Core's book is the one the provider has emitted
\* (OnUpdate, RequestResync, ReconcileSnapshot).  A hole does not outlive the resync.
BooksAgree == Quiet /\ synced => coreBook = last

\* A verdict that was refused is not left standing: Core holds the provider's
\* own, unless the provider is in the resync that followed (OnHealth).
VerdictsAgree == Quiet /\ health # "kResyncing" => coreHealth = health

\* What Core makes of the venue contains update u.
Reached(u) == active /\ coreBook \in u .. MaxUpdates

\* The provider or Core's side broke down, and what is to arrive may not.
BrokeDown == ~process \/ lost \/ coreRestarts > 0

\* The delay of a resync lets Core read what waits, if not every time.
DelaySuffices == []<><<Reconnect>>_vars => []<><<Reconnect /\ wire = <<>>>>_vars

\* The provider owes Core the watched update: of a stream that opens with a snapshot
\* as soon as it exists, of another one once it is buffered.
Owed == process /\ IF opened THEN now >= Watched ELSE ~synced /\ pending > 0 /\ last >= Watched

\* A provider that runs gets into Core and so does an update that it owes, whichever
\* side was started first, whatever was refused and whichever handler the previous
\* process died in (startup ordering, resync and respawn).  What was buffered a resync
\* may throw away (BufferOverflows, a refused send), but none of it is left out while
\* the provider takes its book for whole.  What Core itself loses is not repaired.
UpdateArrives ==
  DelaySuffices => (Owed ~> (Reached(Watched) \/ BrokeDown \/ (~opened /\ resync)))

\* Every connection is a fresh registration: a reconnect after a drop is a new
\* kHello, so a provider that runs is registered (ZmqProviderSink).
Registers == process ~> (active \/ ~process \/ lost)

\* A lost kStale does not leave a dead venue merged: the resync it escalates to
\* takes the venue out (OnHealth).
ResyncLeavesMerge == Quiet /\ health = "kResyncing" => coreHealth # "kLive"

\* The resync is announced first, so that Core does not merge a book that is known
\* to be bad (RequestResync).
HoleNotMerged == coreBook = Wrong /\ ~lost => coreHealth # "kLive"
===========================================================================
