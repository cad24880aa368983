------------------------------- MODULE Feed -------------------------------
(***************************************************************************)
(* BybitProvider and OKXProvider: the depth and quote streams of a venue    *)
(* over redundant sockets, the filter of their duplicates (SeqDedup), the   *)
(* continuity rules, and the resync and reconnect loop of Provider around   *)
(* them.  One thread runs all handlers, so each is one step.                *)
(*                                                                         *)
(* The venue is external.  What it sent is a sequence, and a position of it *)
(* stands for the state of the book (or the quote) after that message.  A   *)
(* socket first gets the state at its subscription and then every later     *)
(* message in order, however late; it may get its last message again, which *)
(* is how both venues keep a quiet stream alive.  Bybit's ids count by one, *)
(* OKX's by any step.  When the venue restarts its service both sequences   *)
(* of ids begin again at 1.                                                 *)
(*                                                                         *)
(* The stamps and verdicts of the watchdog are those of Provider and are    *)
(* left to that module: nothing here depends on them.  So is the telemetry  *)
(* of the filter (its masks and the count of its drops).                    *)
(***************************************************************************)
EXTENDS Integers, Sequences

CONSTANTS
  Connection,     \* the redundant sockets, config.connections of them
  Feeds,          \* of "bybit", "okx" and "okxSwap", the ones to look at
  FirstId,        \* the ids of the venue before it restarts are above this one
  MaxSent,        \* bound: messages the venue sends
  MaxRestarts,    \* bound: restarts of the venue
  MaxReconnects,  \* MAX_RECONNECT_ATTEMPTS
  Wrong           \* a book that is no state of the venue's book

ASSUME FeedAssumption ==
  /\ Feeds \subseteq {"bybit", "okx", "okxSwap"}
  /\ {FirstId, MaxRestarts, MaxReconnects} \subseteq Nat
  /\ MaxSent \in Nat \ {0, 1}
  /\ Wrong \notin Nat

VARIABLES
  feed,            \* fixed: the venue and its market
  sent,            \* what the venue sent
  restarts,        \* how often it restarted
  link,            \* the state of every socket
  at,              \* the last message of the venue a socket delivered
  opening,         \* the streams whose opening state a socket still owes
  worker,          \* where the worker thread is in Run
  reconnectCount,  \* reconnect_count
  sizeResolved,    \* contract_size_resolved_
  dedup,           \* depth_dedup_ and bbo_dedup_
  lastSeq,         \* last_depth_u_ and last_depth_seq_
  book,            \* the position whose state Core's book of the venue is
  quote            \* the position of the quote emitted last

venueVars == <<sent, restarts>>
linkVars == <<link, at, opening>>
runVars == <<worker, reconnectCount, sizeResolved>>
depthVars == <<lastSeq, book>>
vars == <<feed, venueVars, linkVars, runVars, dedup, depthVars, quote>>

Stream == {"depth", "bbo"}
Id == 0 .. FirstId + 2 * MaxSent
Position == 0 .. MaxSent
Message == [stream : Stream, id : Id, prev : Id]

TypeOK ==
  /\ feed \in Feeds
  /\ sent \in Seq(Message) /\ Len(sent) <= MaxSent
  /\ restarts \in 0 .. MaxRestarts
  /\ link \in [Connection -> {"none", "connecting", "open", "closed"}]
  /\ at \in [Connection -> Position]
  /\ opening \in [Connection -> SUBSET Stream]
  /\ worker \in {"start", "run", "stopped"}
  /\ reconnectCount \in 0 .. MaxReconnects + 1
  /\ sizeResolved \in BOOLEAN
  /\ dedup \in [Stream -> [seen : BOOLEAN, last : Id]]
  /\ lastSeq \in Id
  /\ book \in Position \cup {Wrong}
  /\ quote \in Position

FreshDedup == [s \in Stream |-> [seen |-> FALSE, last |-> 0]]

Init ==
  /\ feed \in Feeds
  /\ sent = <<[stream |-> "depth", id |-> FirstId, prev |-> 0],
              [stream |-> "bbo", id |-> FirstId, prev |-> 0]>>
  /\ restarts = 0
  /\ link = [c \in Connection |-> "none"]
  /\ at = [c \in Connection |-> 0]
  /\ opening = [c \in Connection |-> {}]
  /\ worker = "start"
  /\ reconnectCount = 0
  /\ sizeResolved = FALSE
  /\ dedup = FreshDedup
  /\ lastSeq = 0
  /\ book = 0
  /\ quote = 0

---------------------------------------------------------------------------
(* The venue.                                                               *)

\* The last message of stream s up to position p.
AsOf(s, p) == CHOOSE q \in 1 .. p :
  sent[q].stream = s /\ \A r \in q + 1 .. p : sent[r].stream # s

Newest(s) == AsOf(s, Len(sent))

VenueSends(s) ==
  LET last == sent[Newest(s)].id
  IN  /\ Len(sent) < MaxSent
      /\ sent' = Append(sent, [stream |-> s, prev |-> last,
                               id |-> last + IF feed = "bybit" THEN 1 ELSE 2])
      /\ UNCHANGED <<restarts, linkVars, runVars, dedup, depthVars, quote>>

VenueRestarts ==
  /\ Len(sent) + 2 <= MaxSent
  /\ restarts < MaxRestarts
  /\ restarts' = restarts + 1
  /\ sent' = sent \o <<[stream |-> "depth", id |-> 1, prev |-> sent[Newest("depth")].id],
                       [stream |-> "bbo", id |-> 1, prev |-> sent[Newest("bbo")].id]>>
  /\ UNCHANGED <<linkVars, runVars, dedup, depthVars, quote>>

---------------------------------------------------------------------------
(* The worker thread and the sockets.                                       *)

Live == {c \in Connection : link[c] \in {"connecting", "open"}}

\* OKXProvider::OnReconnect asks for the contract size of a swap, once.
NeedsSize == feed = "okxSwap" /\ ~sizeResolved

HandleReconnection ==
  /\ reconnectCount' = reconnectCount + 1
  /\ worker' = IF reconnectCount' > MaxReconnects THEN "stopped" ELSE "start"

\* Run: the size could not be resolved, which counts as a lost connection.
RefuseToConnect ==
  /\ worker = "start"
  /\ NeedsSize
  /\ HandleReconnection
  /\ UNCHANGED <<venueVars, linkVars, sizeResolved, dedup, depthVars, quote>>

\* Mutant: the filters keep their marks, "the venue's ids keep climbing".
MutantKeepMarks ==
  /\ worker = "start"
  /\ sizeResolved' = (feed = "okxSwap")
  /\ worker' = "run"
  /\ link' = [c \in Connection |-> "connecting"]
  /\ UNCHANGED <<venueVars, at, opening, reconnectCount, dedup, depthVars, quote>>

\* Mutant: the sockets are created whatever OnReconnect returned.
MutantConnectAnyway ==
  /\ worker = "start"
  /\ sizeResolved' \in (IF NeedsSize THEN BOOLEAN ELSE {sizeResolved})
  /\ worker' = "run"
  /\ dedup' = FreshDedup
  /\ link' = [c \in Connection |-> "connecting"]
  /\ UNCHANGED <<venueVars, at, opening, reconnectCount, depthVars, quote>>

\* Run, from the top of its loop into ioc.run: fresh filters, fresh sockets.
StartRun ==
  /\ worker = "start"
  /\ sizeResolved' = (feed = "okxSwap")
  /\ worker' = "run"
  /\ dedup' = FreshDedup
  /\ link' = [c \in Connection |-> "connecting"]
  /\ UNCHANGED <<venueVars, at, opening, reconnectCount, depthVars, quote>>

\* The handshake is through and both streams are subscribed.
OnHandshake(c) ==
  /\ worker = "run"
  /\ link[c] = "connecting"
  /\ link' = [link EXCEPT ![c] = "open"]
  /\ at' = [at EXCEPT ![c] = Len(sent)]
  /\ opening' = [opening EXCEPT ![c] = Stream]
  /\ UNCHANGED <<venueVars, runVars, dedup, depthVars, quote>>

\* Nothing is kept per socket; OnReconnect has nothing left to do either.
OnCombinedSessionClosed(c) ==
  /\ worker = "run"
  /\ c \in Live
  /\ link' = [link EXCEPT ![c] = "closed"]
  /\ at' = [at EXCEPT ![c] = 0]
  /\ opening' = [opening EXCEPT ![c] = {}]
  /\ UNCHANGED <<venueVars, runVars, dedup, depthVars, quote>>

\* The last socket is gone and the watchdog has fired: ioc.run returns.
RunReturns ==
  /\ worker = "run"
  /\ Live = {}
  /\ HandleReconnection
  /\ UNCHANGED <<venueVars, linkVars, sizeResolved, dedup, depthVars, quote>>

\* Every socket is stopped, ioc.run returns, and the budget is left alone.
RequestResync ==
  /\ worker' = "start"
  /\ link' = [c \in Connection |-> "none"]
  /\ at' = [c \in Connection |-> 0]
  /\ opening' = [c \in Connection |-> {}]

---------------------------------------------------------------------------
(* What a socket delivers, and what the parsers make of it.                 *)

\* Ways to deliver a message: the opening state of a stream, typed "snapshot" by
\* both venues; the venue's next message; or the last one again, OKX with seqId
\* = prevSeqId, Bybit with the same u.
Arrives(c, s, way) ==
  /\ worker = "run"
  /\ link[c] = "open"
  /\ CASE way = "opening" -> s \in opening[c]
       [] way = "push" -> opening[c] = {} /\ at[c] < Len(sent) /\ sent[at[c] + 1].stream = s
       [] way = "repeat" -> opening[c] = {}

\* The position of the message.
Arriving(c, s, way) == IF way = "push" THEN at[c] + 1 ELSE AsOf(s, at[c])

Delivered(c, s, way) ==
  /\ at' = [at EXCEPT ![c] = IF way = "push" THEN @ + 1 ELSE @]
  /\ opening' = [opening EXCEPT ![c] = @ \ {s}]
  /\ UNCHANGED link

\* ParseOrderbookMessage and ParseBooksMessage: u = 1 is a snapshot to Bybit's
\* parser whatever the message says, OKX's snapshot has prevSeqId -1.
Parsed(way, p) ==
  LET m == sent[p]
  IN  [seq |-> m.id,
       prev |-> CASE way = "opening" -> -1 [] way = "push" -> m.prev [] OTHER -> m.id,
       isSnapshot |-> way = "opening" \/ (feed = "bybit" /\ m.id = 1)]

---------------------------------------------------------------------------
(* The depth stream.                                                        *)

\* Mutant: every snapshot counts as a restart of the venue.
MutantVenueReset(update) == update.isSnapshot

\* Mutant: no message counts as a restart of the venue.
MutantNoReset(update) == FALSE

\* The id moves backwards: u = 1, or seqId below the prevSeqId it follows.
VenueReset(update) ==
  IF feed = "bybit" THEN update.seq = 1
  ELSE update.prev > 0 /\ update.seq < update.prev

\* SeqDedup::Accept: the first copy of a message passes.
Accept(d, id, isReset) ==
  d.seen => IF isReset THEN id # d.last ELSE id > d.last

Rotated(id) == [seen |-> TRUE, last |-> id]

\* Mutant: any later message continues the book.
MutantContinuity(update) ==
  IF update.isSnapshot THEN "kReset"
  ELSE IF update.seq = lastSeq THEN "kIgnore" ELSE "kApply"

\* CheckBybitContinuity and CheckOkxContinuity.
Continuity(update) ==
  IF update.isSnapshot THEN "kReset"
  ELSE CASE feed = "bybit" /\ update.seq = lastSeq -> "kIgnore"
         [] feed = "bybit" /\ update.seq = lastSeq + 1 -> "kApply"
         [] feed # "bybit" /\ update.prev = lastSeq ->
              IF update.seq = update.prev THEN "kIgnore" ELSE "kApply"
         [] OTHER -> "kGap"

\* The effect on Core's book: a snapshot replaces it, a delta leads from the
\* state before its own message to the state after it.
Emit(update, p) ==
  book' = IF update.isSnapshot THEN p
          ELSE IF book # Wrong /\ p > 1 /\ book = AsOf("depth", p - 1) THEN p
          ELSE Wrong

\* A message of the depth stream, past the filter or not.
DepthArrives(c, way, update, accepted) ==
  /\ Arrives(c, "depth", way)
  /\ accepted = Accept(dedup["depth"], update.seq, VenueReset(update))
  /\ dedup' = IF accepted THEN [dedup EXCEPT !["depth"] = Rotated(update.seq)] ELSE dedup

DropDuplicate(c, way) ==
  /\ DepthArrives(c, way, Parsed(way, Arriving(c, "depth", way)), FALSE)
  /\ Delivered(c, "depth", way)
  /\ UNCHANGED <<venueVars, runVars, depthVars, quote>>

\* kReset and kApply move the sequence and are emitted, kIgnore does neither.
TakeDepth(c, way) ==
  LET p == Arriving(c, "depth", way)
      update == Parsed(way, p)
  IN  /\ DepthArrives(c, way, update, TRUE)
      /\ Continuity(update) # "kGap"
      /\ Delivered(c, "depth", way)
      /\ IF Continuity(update) = "kIgnore" THEN UNCHANGED depthVars
         ELSE lastSeq' = update.seq /\ Emit(update, p)
      /\ UNCHANGED <<venueVars, runVars, quote>>

FindGap(c, way) ==
  LET update == Parsed(way, Arriving(c, "depth", way))
  IN  /\ DepthArrives(c, way, update, TRUE)
      /\ Continuity(update) = "kGap"
      /\ lastSeq' = 0
      /\ RequestResync
      /\ UNCHANGED <<venueVars, reconnectCount, sizeResolved, book, quote>>

---------------------------------------------------------------------------
(* The quotes: a filter of their own, and no reset.                         *)

OnBboMessage(c, way) ==
  LET p == Arriving(c, "bbo", way)
      id == sent[p].id
  IN  /\ Arrives(c, "bbo", way)
      /\ Delivered(c, "bbo", way)
      /\ IF Accept(dedup["bbo"], id, FALSE)
         THEN dedup' = [dedup EXCEPT !["bbo"] = Rotated(id)] /\ quote' = p
         ELSE UNCHANGED <<dedup, quote>>
      /\ UNCHANGED <<venueVars, runVars, depthVars>>

---------------------------------------------------------------------------
\* OnCombinedMessage: a message goes to the handler of its stream.
OnCombinedMessage(c, way) ==
  DropDuplicate(c, way) \/ TakeDepth(c, way) \/ FindGap(c, way) \/ OnBboMessage(c, way)

Connect == StartRun \/ RefuseToConnect

Step ==
  \/ VenueRestarts \/ \E s \in Stream : VenueSends(s)
  \/ StartRun \/ RefuseToConnect \/ RunReturns
  \/ \E c \in Connection :
       \/ OnHandshake(c) \/ OnCombinedSessionClosed(c)
       \/ \E way \in {"opening", "push", "repeat"} : OnCombinedMessage(c, way)

Next == Step /\ UNCHANGED feed

\* The worker goes on, a socket that connects gets through or is closed, and
\* what the venue sent on an open socket arrives.
Fairness ==
  /\ WF_vars(Connect /\ UNCHANGED feed)
  /\ WF_vars(RunReturns /\ UNCHANGED feed)
  /\ \A c \in Connection :
       /\ WF_vars(OnHandshake(c) /\ UNCHANGED feed)
       /\ WF_vars((OnCombinedMessage(c, "opening") \/ OnCombinedMessage(c, "push"))
                    /\ UNCHANGED feed)

Spec == Init /\ [][Next]_vars /\ Fairness

---------------------------------------------------------------------------
(* Properties.                                                              *)

\* Core's book is at every moment a state the venue's book was in: no delta is
\* applied to a book it does not continue, whichever sockets delivered what,
\* how late, and across a restart of the venue (OnDepthMessage).
BookIsExact == book # Wrong

\* Within one numbering of the venue no socket that opens late or lags takes the
\* book back (the `<=` rule of SeqDedup).  What a lagging socket carries over a
\* restart, and the restart itself, are not caught; see RestartTakenOnce.
NeverBack ==
  [][book' < book => \E p \in book' .. book : sent[p].stream = "depth" /\ sent[p].id = 1]_vars

\* Everything the open sockets of this run carried has been handled.
Drained ==
  worker = "run" /\ \A c \in Connection : link[c] = "open" /\ opening[c] = {} /\ at[c] = Len(sent)

\* When no socket has anything left, the book and the quote are the venue's own:
\* neither filter got stuck above the ids that still come (LooksStuck).  A
\* restart of the venue is survived by the book only; see QuotesFollow.
CurrentWhenDrained ==
  Drained => book = Newest("depth") /\ (restarts = 0 => quote = Newest("bbo"))

\* An OKX swap publishes nothing before its contract size is known: no socket
\* exists until OnReconnect has it (okx_provider.cpp).
ScaleIsKnown ==
  feed = "okxSwap" /\ (book # 0 \/ quote # 0 \/ Live # {}) => sizeResolved

\* A run that begins once the venue has restarted for the last time ends with the
\* venue's current book, or the provider gives up for good: it does not resync
\* for ever, nor wait behind a mark of the old numbering (Run, SeqDedup).
RecoveryEnds ==
  (worker = "start" /\ restarts = MaxRestarts)
    ~> (book = Newest("depth") \/ worker = "stopped")

\* An ordinary snapshot needs no reset flag, its id moves forward: a socket that
\* has delivered all it has leaves the venue's book behind (bybit_provider.cpp,
\* okx_provider.cpp).
SnapshotsDecide ==
  worker = "run" /\ Live # {}
    /\ (\A c \in Live : link[c] = "open" /\ opening[c] = {} /\ at[c] = Len(sent))
    => book = Newest("depth")

\* The quote stream needs no reset flag, its quotes being stateless: it goes on
\* when the venue restarts (md_provider.h, AcceptBbo).
QuotesFollow == Drained => quote = Newest("bbo")

\* The other sockets' copies of a restart are caught by the filter and none of
\* them applies the snapshot again (seq_dedup.cpp).
RestartTakenOnce ==
  [][book' # Wrong /\ book # Wrong => book' >= book]_vars
===========================================================================
