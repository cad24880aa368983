----------------------------- MODULE Provider -----------------------------
(***************************************************************************)
(* One venue provider: the reconnect loop and watchdog of Provider, and the *)
(* snapshot-plus-stream synchronisation of BinanceProvider.                 *)
(*                                                                         *)
(* Everything the io_context runs (messages, closes, the health timer, the  *)
(* posted snapshot results) is one atomic step each: one thread runs them   *)
(* all.  The worker sits in ioc.run ("run"), is between two runs ("start")  *)
(* or has given up ("stopped").  The detached REST threads run beside it    *)
(* and outlive a resync, and so do the results they posted.                 *)
(*                                                                         *)
(* The venue is external.  Its update ids are 1..now; event k of the depth  *)
(* stream covers the ids 2k-1 and 2k (U and u of Binance, pu is u of event  *)
(* k-1), so a REST snapshot may fall inside an event.  What Core holds is   *)
(* abstracted to the ids whose effect it got since the last snapshot, and   *)
(* the id written last.  The callbacks of the provider are taken to accept  *)
(* every update and every verdict.                                          *)
(***************************************************************************)
EXTENDS Naturals, Sequences, SequencesExt

CONSTANTS
  Connection,     \* the redundant sockets, config.connections of them
  Markets,        \* the values of futures to look at
  MaxEvents,      \* bound: events the venue sends
  RestLag,        \* how many ids a REST answer may lag behind the venue
  MaxPending,     \* kMaxPendingEvents
  MaxAttempts,    \* kMaxSnapshotAttempts
  MaxReconnects,  \* MAX_RECONNECT_ATTEMPTS
  MaxFetches,     \* bound: REST requests and results under way
  Failed          \* the result of a REST request that failed

ASSUME ProviderAssumption ==
  /\ Markets \subseteq BOOLEAN
  /\ {MaxEvents, RestLag, MaxPending, MaxReconnects, MaxFetches} \subseteq Nat
  /\ MaxAttempts \in Nat \ {0}
  /\ Failed \notin Nat

VARIABLES
  futures,            \* fixed: MarketType::kFutures, else spot
  now,                \* the last update id of the venue
  link,               \* the state of every socket
  next,               \* the event a socket delivers next
  lingering,          \* a stopped session still has a read outstanding
  worker,             \* where the worker thread is in Run
  timer,              \* health_timer_ is armed
  reconnectCount,     \* reconnect_count
  health,             \* last_depth_health_ and last_bbo_health_
  stamp,              \* last_depth_message_mono_ns_ and last_bbo_message_mono_ns_
  heard,              \* the streams that spoke since the sockets were created
  depthDedup,         \* the high-water mark of depth_dedup_
  syncState,          \* sync_state_
  snapshotRequested,  \* snapshot_requested_
  attempts,           \* snapshot_attempts_
  pending,            \* pending_
  lastU,              \* last_depth_u_
  fetches,            \* REST threads under way
  posted,             \* snapshot results posted to the io_context
  reflected,          \* the ids whose effect Core got since the last snapshot
  newest              \* the id whose effect Core got last

linkVars == <<link, next, lingering>>
healthVars == <<health, stamp, heard>>
syncVars == <<syncState, snapshotRequested, attempts, pending, lastU>>
restVars == <<fetches, posted>>
coreVars == <<reflected, newest>>
vars == <<futures, now, linkVars, worker, timer, reconnectCount, healthVars, depthDedup,
          syncVars, restVars, coreVars>>

Stream == {"depth", "bbo"}
VenueHealth == {"kNoData", "kLive", "kStale", "kDisconnected", "kResyncing"}
Id == 0 .. 2 * MaxEvents
Event == 1 .. MaxEvents
FirstId(k) == 2 * k - 1
LastId(k) == 2 * k

TypeOK ==
  /\ futures \in BOOLEAN
  /\ now \in Id
  /\ link \in [Connection -> {"none", "connecting", "open", "closed"}]
  /\ next \in [Connection -> 0 .. MaxEvents + 1]
  /\ lingering \in BOOLEAN
  /\ worker \in {"start", "run", "stopped"}
  /\ timer \in BOOLEAN
  /\ reconnectCount \in 0 .. MaxReconnects + 1
  /\ health \in [Stream -> VenueHealth]
  /\ stamp \in [Stream -> {"none", "fresh", "old"}]
  /\ heard \in SUBSET Stream
  /\ depthDedup \in Id
  /\ syncState \in {"kSyncing", "kLive"}
  /\ snapshotRequested \in BOOLEAN
  /\ attempts \in 0 .. MaxAttempts
  /\ pending \in Seq(Event) /\ Len(pending) <= MaxPending
  /\ lastU \in Id
  /\ fetches \in 0 .. MaxFetches
  /\ posted \in Seq(Id \cup {Failed}) /\ fetches + Len(posted) <= MaxFetches
  /\ reflected \in SUBSET Id
  /\ newest \in Id

Init ==
  /\ futures \in Markets
  /\ now = 0
  /\ link = [c \in Connection |-> "none"]
  /\ next = [c \in Connection |-> 0]
  /\ lingering = FALSE
  /\ worker = "start"
  /\ timer = FALSE
  /\ reconnectCount = 0
  /\ health = [s \in Stream |-> "kNoData"]
  /\ stamp = [s \in Stream |-> "none"]
  /\ heard = {}
  /\ depthDedup = 0
  /\ syncState = "kSyncing"
  /\ snapshotRequested = FALSE
  /\ attempts = 0
  /\ pending = <<>>
  /\ lastU = 0
  /\ fetches = 0
  /\ posted = <<>>
  /\ reflected = {}
  /\ newest = 0

---------------------------------------------------------------------------
(* The worker thread and the sockets.                                       *)

\* depth_live_ and bbo_live_: a socket counts from its creation to its close.
Live == {c \in Connection : link[c] \in {"connecting", "open"}}

OnReconnect ==
  /\ syncState' = "kSyncing"
  /\ snapshotRequested' = FALSE
  /\ attempts' = 0
  /\ pending' = <<>>
  /\ lastU' = 0

\* Run, from the top of its loop into ioc.run.
StartRun ==
  /\ worker = "start"
  /\ OnReconnect
  /\ worker' = "run"
  /\ depthDedup' = 0
  /\ link' = [c \in Connection |-> "connecting"]
  /\ next' = [c \in Connection |-> 0]
  /\ heard' = {}
  /\ timer' = TRUE
  /\ UNCHANGED <<now, lingering, reconnectCount, health, stamp, restVars, coreVars>>

\* ioc.run is out of work, and HandleReconnection decides what is next.
RunReturns ==
  /\ worker = "run"
  /\ Live = {} /\ ~lingering /\ ~timer /\ posted = <<>>
  /\ reconnectCount' = reconnectCount + 1
  /\ worker' = IF reconnectCount' > MaxReconnects THEN "stopped" ELSE "start"
  /\ UNCHANGED <<now, linkVars, timer, healthVars, depthDedup, syncVars, restVars, coreVars>>

\* The handshake of a socket is through: it gets the events from now on.
OnHandshake(c) ==
  /\ worker = "run"
  /\ link[c] = "connecting"
  /\ link' = [link EXCEPT ![c] = "open"]
  /\ next' = [next EXCEPT ![c] = now \div 2 + 1]
  /\ UNCHANGED <<now, lingering, worker, timer, reconnectCount, healthVars, depthDedup,
                 syncVars, restVars, coreVars>>

\* The last socket to close resets what was synchronised.
OnCombinedSessionClosed(c) ==
  /\ worker = "run"
  /\ c \in Live
  /\ link' = [link EXCEPT ![c] = "closed"]
  /\ IF Live = {c} THEN OnReconnect ELSE UNCHANGED syncVars
  /\ UNCHANGED <<now, next, lingering, worker, timer, reconnectCount, healthVars, depthDedup,
                 restVars, coreVars>>

\* A stopped session gets its outstanding read, and neither reads on nor calls back.
LingeringEnds ==
  /\ worker = "run"
  /\ lingering
  /\ lingering' = FALSE
  /\ UNCHANGED <<now, link, next, worker, timer, reconnectCount, healthVars, depthDedup,
                 syncVars, restVars, coreVars>>

\* kResyncing on both streams, every session stopped, ioc.run returns.
RequestResync ==
  /\ health' = [s \in Stream |-> "kResyncing"]
  /\ lingering' = (lingering \/ Live # {})
  /\ link' = [c \in Connection |-> "none"]
  /\ worker' = "start"

---------------------------------------------------------------------------
(* The watchdog.                                                            *)

ClassifyFeed(s) ==
  IF Live = {} THEN "kDisconnected"
  ELSE CASE stamp[s] = "none" -> "kNoData"
         [] stamp[s] = "old" -> "kStale"
         [] OTHER -> "kLive"

\* Mutant: the timer is armed again although every socket is gone.
MutantTimerForever ==
  /\ worker = "run"
  /\ timer
  /\ health' = [s \in Stream |->
       IF health[s] = "kResyncing" THEN "kResyncing" ELSE ClassifyFeed(s)]
  /\ UNCHANGED <<now, linkVars, worker, timer, reconnectCount, stamp, heard, depthDedup,
                 syncVars, restVars, coreVars>>

\* Mutant: the timer fires once and is not armed again.
MutantTimerOnce ==
  /\ worker = "run"
  /\ timer
  /\ health' = [s \in Stream |->
       IF health[s] = "kResyncing" THEN "kResyncing" ELSE ClassifyFeed(s)]
  /\ timer' = FALSE
  /\ UNCHANGED <<now, linkVars, worker, reconnectCount, stamp, heard, depthDedup,
                 syncVars, restVars, coreVars>>

\* The handler of the health timer: a verdict per stream, then it arms again
\* unless every socket is gone.
CheckHealth ==
  /\ worker = "run"
  /\ timer
  /\ health' = [s \in Stream |->
       IF health[s] = "kResyncing" THEN "kResyncing" ELSE ClassifyFeed(s)]
  /\ timer' = (Live # {})
  /\ UNCHANGED <<now, linkVars, worker, reconnectCount, stamp, heard, depthDedup,
                 syncVars, restVars, coreVars>>

\* The backstop of a stream passes without a message.
Age(s) ==
  /\ stamp[s] = "fresh"
  /\ stamp' = [stamp EXCEPT ![s] = "old"]
  /\ UNCHANGED <<now, linkVars, worker, timer, reconnectCount, health, heard, depthDedup,
                 syncVars, restVars, coreVars>>

\* NoteDepthActivity and NoteBboActivity stamp the stream ...
NoteActivity(s) ==
  /\ stamp' = [stamp EXCEPT ![s] = "fresh"]
  /\ heard' = heard \cup {s}

\* ... and promote the two verdicts that no tick of the watchdog clears.
Promoted(s) ==
  IF health[s] \in {"kNoData", "kResyncing"} THEN [health EXCEPT ![s] = "kLive"] ELSE health

---------------------------------------------------------------------------
(* The depth stream.                                                        *)

EmitSnapshot(id, events) ==
  /\ reflected' = 1 .. id \cup UNION {{FirstId(k), LastId(k)} : k \in ToSet(events)}
  /\ newest' = IF events = <<>> THEN id ELSE LastId(Last(events))

EmitEvent(k) ==
  /\ reflected' = reflected \cup {FirstId(k), LastId(k)}
  /\ newest' = LastId(k)

\* A socket delivers its next event, the activity is noted, and the filter
\* of the redundant sockets accepts it or not.
DepthArrives(c) ==
  /\ worker = "run"
  /\ link[c] = "open"
  /\ next[c] \in Event /\ LastId(next[c]) <= now
  /\ next' = [next EXCEPT ![c] = @ + 1]
  /\ NoteActivity("depth")

Accepted(c) == LastId(next[c]) > depthDedup

DropDuplicate(c) ==
  /\ DepthArrives(c)
  /\ ~Accepted(c)
  /\ health' = Promoted("depth")
  /\ UNCHANGED <<now, link, lingering, worker, timer, reconnectCount, depthDedup,
                 syncVars, restVars, coreVars>>

FetchSnapshotAsync ==
  /\ snapshotRequested' = TRUE
  /\ attempts' = attempts + 1
  /\ fetches' = fetches + 1

\* The first event buffered asks for the snapshot.
FetchOnce ==
  IF snapshotRequested
  THEN UNCHANGED <<snapshotRequested, attempts, fetches>>
  ELSE /\ fetches + Len(posted) < MaxFetches
       /\ FetchSnapshotAsync

BufferEvent(c) ==
  /\ DepthArrives(c)
  /\ Accepted(c)
  /\ syncState = "kSyncing"
  /\ Len(pending) < MaxPending
  /\ FetchOnce
  /\ pending' = Append(pending, next[c])
  /\ depthDedup' = LastId(next[c])
  /\ health' = Promoted("depth")
  /\ UNCHANGED <<now, link, lingering, worker, timer, reconnectCount, syncState, lastU,
                 posted, coreVars>>

\* Too many events without a snapshot.
BufferOverflows(c) ==
  /\ DepthArrives(c)
  /\ Accepted(c)
  /\ syncState = "kSyncing"
  /\ Len(pending) >= MaxPending
  /\ FetchOnce
  /\ depthDedup' = LastId(next[c])
  /\ RequestResync
  /\ UNCHANGED <<now, timer, reconnectCount, syncState, pending, lastU, posted, coreVars>>

\* CheckBinanceSpotContinuity and CheckBinanceFuturesContinuity.
Continuity(k) ==
  IF LastId(k) <= lastU THEN "kIgnore"
  ELSE CASE ~futures /\ FirstId(k) <= lastU + 1 -> "kApply"
         [] futures /\ LastId(k - 1) = lastU -> "kApply"
         [] OTHER -> "kGap"

\* Whatever is no gap is emitted; what applies moves last_depth_u_ too.
ApplyEvent(c) ==
  /\ DepthArrives(c)
  /\ Accepted(c)
  /\ syncState = "kLive"
  /\ Continuity(next[c]) # "kGap"
  /\ lastU' = IF Continuity(next[c]) = "kApply" THEN LastId(next[c]) ELSE lastU
  /\ EmitEvent(next[c])
  /\ depthDedup' = LastId(next[c])
  /\ health' = Promoted("depth")
  /\ UNCHANGED <<now, link, lingering, worker, timer, reconnectCount, syncState,
                 snapshotRequested, attempts, pending, restVars>>

FindGap(c) ==
  /\ DepthArrives(c)
  /\ Accepted(c)
  /\ syncState = "kLive"
  /\ Continuity(next[c]) = "kGap"
  /\ depthDedup' = LastId(next[c])
  /\ RequestResync
  /\ UNCHANGED <<now, timer, reconnectCount, syncVars, restVars, coreVars>>

\* A quote, as far as the watchdog is concerned.
OnBboMessage(c) ==
  /\ worker = "run"
  /\ link[c] = "open"
  /\ NoteActivity("bbo")
  /\ health' = Promoted("bbo")
  /\ UNCHANGED <<now, linkVars, worker, timer, reconnectCount, depthDedup,
                 syncVars, restVars, coreVars>>

---------------------------------------------------------------------------
(* The REST snapshot.                                                       *)

\* A detached thread has its answer, or the request failed, and posts it.
RestAnswers ==
  /\ fetches > 0
  /\ fetches' = fetches - 1
  /\ \E result \in {id \in Id : id <= now /\ now <= id + RestLag} \cup {Failed} :
       posted' = Append(posted, result)
  /\ UNCHANGED <<now, linkVars, worker, timer, reconnectCount, healthVars, depthDedup,
                 syncVars, coreVars>>

\* The first of the buffered events that is not inside the snapshot, if any ...
FirstAfter(id) ==
  CHOOSE i \in 1 .. Len(pending) + 1 :
    /\ \A j \in 1 .. i - 1 : LastId(pending[j]) <= id
    /\ i <= Len(pending) => LastId(pending[i]) > id

\* ... and the events from it on.
Survivors(id) == SubSeq(pending, FirstAfter(id), Len(pending))

\* Mutant: any snapshot joins the buffered events.
MutantJoins(id) == id # Failed

\* ReconcileBinanceSnapshot: the first survivor must straddle the snapshot.
Joins(id) ==
  /\ id # Failed
  /\ LET survivors == Survivors(id)
     IN survivors # <<>> => FirstId(Head(survivors)) <= id + 1

\* ReconcileSnapshot: the snapshot and the survivors go out, and the stream is live.
JoinSnapshot ==
  /\ worker = "run"
  /\ posted # <<>>
  /\ LET id == Head(posted)
         seen == IF futures THEN pending ELSE Survivors(id)
     IN /\ Joins(id)
        /\ EmitSnapshot(id, Survivors(id))
        /\ lastU' = IF seen = <<>> THEN id ELSE LastId(Last(seen))
  /\ posted' = Tail(posted)
  /\ pending' = <<>>
  /\ syncState' = "kLive"
  /\ UNCHANGED <<now, linkVars, worker, timer, reconnectCount, healthVars, depthDedup,
                 snapshotRequested, attempts, fetches>>

\* Mutant: a snapshot that does not join is dropped, and no other is asked for.
MutantRejectSnapshot ==
  /\ worker = "run"
  /\ posted # <<>>
  /\ ~Joins(Head(posted))
  /\ posted' = Tail(posted)
  /\ UNCHANGED <<now, linkVars, worker, timer, reconnectCount, healthVars, depthDedup,
                 syncVars, fetches, coreVars>>

\* The request failed or its answer is too old: ask again, a few times.
RejectSnapshot ==
  /\ worker = "run"
  /\ posted # <<>>
  /\ ~Joins(Head(posted))
  /\ posted' = Tail(posted)
  /\ IF attempts >= MaxAttempts
     THEN /\ RequestResync
          /\ UNCHANGED <<next, snapshotRequested, attempts, fetches>>
     ELSE /\ FetchSnapshotAsync
          /\ UNCHANGED <<linkVars, health, worker>>
  /\ UNCHANGED <<now, timer, reconnectCount, stamp, heard, depthDedup,
                 syncState, pending, lastU, coreVars>>

---------------------------------------------------------------------------
\* The venue changes its book.
Tick ==
  /\ now < 2 * MaxEvents
  /\ now' = now + 1
  /\ UNCHANGED <<linkVars, worker, timer, reconnectCount, healthVars, depthDedup,
                 syncVars, restVars, coreVars>>

Step ==
  \/ Tick
  \/ StartRun \/ RunReturns \/ LingeringEnds \/ CheckHealth
  \/ RestAnswers \/ JoinSnapshot \/ RejectSnapshot
  \/ \E s \in Stream : Age(s)
  \/ \E c \in Connection :
       \/ OnHandshake(c) \/ OnCombinedSessionClosed(c) \/ OnBboMessage(c)
       \/ DropDuplicate(c) \/ BufferEvent(c) \/ BufferOverflows(c)
       \/ ApplyEvent(c) \/ FindGap(c)

Next == Step /\ UNCHANGED futures

\* The io_context runs what is ready, the worker goes on when ioc.run returned,
\* a REST request ends one way or the other, and a stopped socket is closed by
\* its peer or gets one more message.
Fairness ==
  /\ WF_vars(StartRun /\ UNCHANGED futures)
  /\ WF_vars(RunReturns /\ UNCHANGED futures)
  /\ WF_vars(CheckHealth /\ UNCHANGED futures)
  /\ WF_vars(JoinSnapshot /\ UNCHANGED futures)
  /\ WF_vars(RejectSnapshot /\ UNCHANGED futures)
  /\ WF_vars(RestAnswers /\ UNCHANGED futures)
  /\ WF_vars(LingeringEnds /\ UNCHANGED futures)

Spec == Init /\ [][Next]_vars /\ Fairness

---------------------------------------------------------------------------
(* Properties.                                                              *)

\* While BinanceProvider is live, Core has every update of the venue up to
\* last_depth_u_, and what Core has is a prefix of the venue's history: no
\* snapshot, replayed buffer or stream event leaves a hole behind it.
NoUpdateMissing ==
  syncState = "kLive" =>
    /\ 1 .. lastU \subseteq reflected
    /\ \A id \in reflected : 1 .. id \subseteq reflected

\* Whenever the worker is out of ioc.run (backing off, resyncing or stopped for
\* good), no stream of the venue is left announced as kLive to Core: the
\* watchdog's last tick or RequestResync has taken it back.
OutageIsAnnounced ==
  worker # "run" => \A s \in Stream : health[s] # "kLive"

\* Once every socket is gone ioc.run returns, so that Run can reconnect: the
\* health timer does not keep the io_context busy.
OutageEndsRun ==
  (worker = "run" /\ Live = {}) ~> worker # "run"

\* A provider that buffers events does not wait for ever for a snapshot to
\* join them: it goes live, or gives the sockets up and starts again.
SyncEnds ==
  (syncState = "kSyncing" /\ pending # <<>>) ~> (syncState = "kLive" \/ pending = <<>>)

\* What was written to Core's book last is the newest it ever got: an event
\* that a snapshot already contains does not overwrite it (continuity.cpp).
NothingOld ==
  syncState = "kLive" => \A id \in reflected : id <= newest

\* A resync keeps the book Core holds of the venue out of the merge until it
\* has been rebuilt (md_provider.h, RequestResync).
ResyncEndsSynced ==
  [][health["depth"] = "kResyncing" /\ health'["depth"] = "kLive" /\ reflected # {} =>
       syncState' = "kLive"]_vars

\* A socket that is open clears no verdict: after kDisconnected a stream is live
\* again only once it spoke on one of the new sockets (venue_health.h).
ConnectionNeverClears ==
  [][\A s \in Stream :
       health[s] = "kDisconnected" /\ health'[s] = "kLive" => s \in heard']_vars
===========================================================================
