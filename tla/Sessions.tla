----------------------------- MODULE Sessions -----------------------------
(***************************************************************************)
(* The gRPC side of md_core: AggregatorServiceImpl and its ConflatedChannel *)
(* per session.  The consolidator thread fans every published BBO or book   *)
(* out to the sessions under sessions_mutex_; the handler thread of each    *)
(* session takes what its depth-1 channel holds and writes it to its        *)
(* client; the main thread shuts the server down.                           *)
(*                                                                         *)
(* The condition variable of a channel is used under its mutex on both      *)
(* sides, so a wait is a step that is enabled while the channel holds an    *)
(* update, or the step of its timeout.  ConflatedChannel::Close is called   *)
(* by nobody and is left out.                                               *)
(*                                                                         *)
(* gRPC is external: a Write to a client that is gone fails, and            *)
(* Server::Shutdown without a deadline refuses new calls, cancels none and  *)
(* returns once every call has returned.                                    *)
(***************************************************************************)
EXTENDS Naturals

CONSTANTS
  Session,       \* the Subscribe calls clients may make
  Instrument,    \* the instruments Core publishes
  FeedChoice,    \* the sets of feeds a client may ask for
  MaxPublishes,  \* bound: how often Core publishes
  None           \* no update, no subscription, no fan-out

Feed == {"bbo", "volume_bands", "price_bands"}


VARIABLES
  handler,        \* where the thread of a Subscribe call is
  subscription,   \* what the call asked for, and when it was registered
  sessions,       \* the keys of sessions_
  nextSeq,        \* Subscription::next_seq
  pending,        \* ConflatedChannel::pending_
  taken,          \* the update the handler is writing
  connected,      \* the sessions whose client is there
  delivered,      \* the last update the client got
  received,       \* how many updates it got
  overwritten,    \* how many were replaced before the handler took them
  publishes,      \* publications so far
  published,      \* the last publication of every feed of every instrument
  fanout,         \* the publication the consolidator is fanning out
  server          \* where the main thread is in its shutdown

sessionVars == <<subscription, sessions>>
channelVars == <<nextSeq, pending, overwritten>>
clientVars == <<connected, delivered, received>>
publishVars == <<publishes, published, fanout>>
vars == <<handler, sessionVars, channelVars, taken, clientVars, publishVars, server>>

Version == 0 .. MaxPublishes
Subscription == [instrument : Instrument, feeds : FeedChoice \ {{}}, since : Version]
Update == [instrument : Instrument, feed : Feed, version : Version, seq : Nat]
Fanout == [instrument : Instrument, todo : SUBSET (Session \X Feed)]

ASSUME SessionsAssumption ==
  /\ FeedChoice \subseteq SUBSET Feed
  /\ MaxPublishes \in Nat
  /\ None \notin Update /\ None \notin Fanout

TypeOK ==
  /\ handler \in [Session -> {"none", "loop", "wait", "write", "leave", "done"}]
  /\ subscription \in [Session -> Subscription \cup {None}]
  /\ sessions \in SUBSET Session
  /\ nextSeq \in [Session -> Nat]
  /\ pending \in [Session -> Update \cup {None}]
  /\ taken \in [Session -> Update \cup {None}]
  /\ connected \in SUBSET Session
  /\ delivered \in [Session -> Update \cup {None}]
  /\ received \in [Session -> Nat]
  /\ overwritten \in [Session -> Nat]
  /\ publishes \in Version
  /\ published \in [Instrument -> [Feed -> Version]]
  /\ fanout \in Fanout \cup {None}
  /\ server \in {"serving", "shutdown", "stopped"}

Init ==
  /\ handler = [s \in Session |-> "none"]
  /\ subscription = [s \in Session |-> None]
  /\ sessions = {}
  /\ nextSeq = [s \in Session |-> 0]
  /\ pending = [s \in Session |-> None]
  /\ taken = [s \in Session |-> None]
  /\ connected = Session
  /\ delivered = [s \in Session |-> None]
  /\ received = [s \in Session |-> 0]
  /\ overwritten = [s \in Session |-> 0]
  /\ publishes = 0
  /\ published = [i \in Instrument |-> [f \in Feed |-> 0]]
  /\ fanout = None
  /\ server = "serving"

\* sessions_mutex_ is held for a whole fan-out.
Locked == fanout # None

---------------------------------------------------------------------------
(* The consolidator thread: PublishBbo and PublishBook.                     *)

\* A BBO goes to one feed, a book to the two band feeds, and both only to the
\* sessions that asked for that feed of that instrument.
BeginPublish(i, feeds) ==
  /\ ~Locked
  /\ publishes < MaxPublishes
  /\ publishes' = publishes + 1
  /\ published' = [published EXCEPT ![i] =
       [f \in Feed |-> IF f \in feeds THEN publishes + 1 ELSE @[f]]]
  /\ fanout' =
       [instrument |-> i,
        todo |-> {p \in sessions \X feeds : /\ subscription[p[1]].instrument = i
                                            /\ p[2] \in subscription[p[1]].feeds}]
  /\ UNCHANGED <<handler, sessionVars, channelVars, taken, clientVars, server>>

PublishBbo(i) == BeginPublish(i, {"bbo"})
PublishBook(i) == BeginPublish(i, {"volume_bands", "price_bands"})

\* Mutant: an update the handler has not taken yet is not replaced.
MutantPushKeepsOldest(s, f) ==
  /\ Locked
  /\ <<s, f>> \in fanout.todo
  /\ pending' = [pending EXCEPT ![s] =
       IF @ # None THEN @
       ELSE [instrument |-> fanout.instrument, feed |-> f, version |-> publishes,
             seq |-> nextSeq[s]]]
  /\ nextSeq' = [nextSeq EXCEPT ![s] = @ + 1]
  /\ overwritten' = [overwritten EXCEPT ![s] = IF pending[s] = None THEN @ ELSE @ + 1]
  /\ fanout' = [fanout EXCEPT !.todo = @ \ {<<s, f>>}]
  /\ UNCHANGED <<handler, sessionVars, taken, clientVars, publishes, published, server>>

\* A session that has its volume bands gets its price bands next.
HalfServed(s) ==
  /\ {"volume_bands", "price_bands"} \subseteq subscription[s].feeds
  /\ <<s, "price_bands">> \in fanout.todo
  /\ <<s, "volume_bands">> \notin fanout.todo

\* The update is stamped with the session's next seq and replaces whatever the
\* channel holds.  The sessions are served in any order, one after the other,
\* and each gets its volume bands first.
Push(s, f) ==
  /\ Locked
  /\ <<s, f>> \in fanout.todo
  /\ f = "price_bands" => <<s, "volume_bands">> \notin fanout.todo
  /\ \A t \in Session \ {s} : t \in sessions => ~HalfServed(t)
  /\ pending' = [pending EXCEPT ![s] =
       [instrument |-> fanout.instrument, feed |-> f, version |-> publishes,
        seq |-> nextSeq[s]]]
  /\ nextSeq' = [nextSeq EXCEPT ![s] = @ + 1]
  /\ overwritten' = [overwritten EXCEPT ![s] = IF pending[s] = None THEN @ ELSE @ + 1]
  /\ fanout' = [fanout EXCEPT !.todo = @ \ {<<s, f>>}]
  /\ UNCHANGED <<handler, sessionVars, taken, clientVars, publishes, published, server>>

EndPublish ==
  /\ Locked
  /\ fanout.todo = {}
  /\ fanout' = None
  /\ UNCHANGED <<handler, sessionVars, channelVars, taken, clientVars, publishes, published,
                 server>>

---------------------------------------------------------------------------
(* The handler thread of a session: Subscribe.                              *)

\* No such symbol, no market, or no feed at all.
RejectSubscribe(s) ==
  /\ handler[s] = "none"
  /\ server = "serving"
  /\ handler' = [handler EXCEPT ![s] = "done"]
  /\ UNCHANGED <<sessionVars, channelVars, taken, clientVars, publishVars, server>>

RegisterSession(s, i, feeds) ==
  /\ handler[s] = "none"
  /\ server = "serving"
  /\ feeds # {}
  /\ ~Locked
  /\ handler' = [handler EXCEPT ![s] = "loop"]
  /\ subscription' = [subscription EXCEPT ![s] =
       [instrument |-> i, feeds |-> feeds, since |-> publishes]]
  /\ sessions' = sessions \cup {s}
  /\ UNCHANGED <<channelVars, taken, clientVars, publishVars, server>>

\* Mutant: the loop does not look whether its client is there.
MutantTestCancelled(s) ==
  /\ handler[s] = "loop"
  /\ handler' = [handler EXCEPT ![s] = "wait"]
  /\ UNCHANGED <<sessionVars, channelVars, taken, clientVars, publishVars, server>>

TestCancelled(s) ==
  /\ handler[s] = "loop"
  /\ handler' = [handler EXCEPT ![s] = IF s \in connected THEN "wait" ELSE "leave"]
  /\ UNCHANGED <<sessionVars, channelVars, taken, clientVars, publishVars, server>>

\* Mutant: the update that is taken also stays in the channel.
MutantTake(s) ==
  /\ handler[s] = "wait"
  /\ pending[s] # None
  /\ taken' = [taken EXCEPT ![s] = pending[s]]
  /\ handler' = [handler EXCEPT ![s] = "write"]
  /\ UNCHANGED <<sessionVars, channelVars, clientVars, publishVars, server>>

\* WaitAndTake with an update, and with nothing until its timeout.
Take(s) ==
  /\ handler[s] = "wait"
  /\ pending[s] # None
  /\ taken' = [taken EXCEPT ![s] = pending[s]]
  /\ pending' = [pending EXCEPT ![s] = None]
  /\ handler' = [handler EXCEPT ![s] = "write"]
  /\ UNCHANGED <<sessionVars, nextSeq, overwritten, clientVars, publishVars, server>>

\* Mutants: a wait without a bound, and a timeout that ends the session.
MutantNoTimeOut(s) ==
  /\ handler[s] = "wait"
  /\ pending[s] = None
  /\ UNCHANGED vars

MutantTimeOutLeaves(s) ==
  /\ handler[s] = "wait"
  /\ pending[s] = None
  /\ handler' = [handler EXCEPT ![s] = "leave"]
  /\ UNCHANGED <<sessionVars, channelVars, taken, clientVars, publishVars, server>>

TimeOut(s) ==
  /\ handler[s] = "wait"
  /\ pending[s] = None
  /\ handler' = [handler EXCEPT ![s] = "loop"]
  /\ UNCHANGED <<sessionVars, channelVars, taken, clientVars, publishVars, server>>

Write(s) ==
  /\ handler[s] = "write"
  /\ s \in connected
  /\ delivered' = [delivered EXCEPT ![s] = taken[s]]
  /\ received' = [received EXCEPT ![s] = @ + 1]
  /\ taken' = [taken EXCEPT ![s] = None]
  /\ handler' = [handler EXCEPT ![s] = "loop"]
  /\ UNCHANGED <<sessionVars, channelVars, connected, publishVars, server>>

WriteFails(s) ==
  /\ handler[s] = "write"
  /\ s \notin connected
  /\ taken' = [taken EXCEPT ![s] = None]
  /\ handler' = [handler EXCEPT ![s] = "leave"]
  /\ UNCHANGED <<sessionVars, channelVars, clientVars, publishVars, server>>

UnregisterSession(s) ==
  /\ handler[s] = "leave"
  /\ ~Locked
  /\ sessions' = sessions \ {s}
  /\ handler' = [handler EXCEPT ![s] = "done"]
  /\ UNCHANGED <<subscription, channelVars, taken, clientVars, publishVars, server>>

---------------------------------------------------------------------------
(* Clients, and the main thread.                                            *)

Cancel(s) ==
  /\ s \in connected
  /\ handler[s] # "none"
  /\ connected' = connected \ {s}
  /\ UNCHANGED <<handler, sessionVars, channelVars, taken, delivered, received, publishVars,
                 server>>

Shutdown ==
  /\ server = "serving"
  /\ server' = "shutdown"
  /\ UNCHANGED <<handler, sessionVars, channelVars, taken, clientVars, publishVars>>

ShutdownReturns ==
  /\ server = "shutdown"
  /\ \A s \in Session : handler[s] \in {"none", "done"}
  /\ server' = "stopped"
  /\ UNCHANGED <<handler, sessionVars, channelVars, taken, clientVars, publishVars>>

---------------------------------------------------------------------------
Handle(s) == TestCancelled(s) \/ Take(s) \/ TimeOut(s) \/ Write(s) \/ WriteFails(s)
               \/ UnregisterSession(s)
FanOut == (\E s \in Session, f \in Feed : Push(s, f)) \/ EndPublish

Next ==
  \/ \E i \in Instrument : PublishBbo(i) \/ PublishBook(i)
  \/ FanOut
  \/ \E s \in Session : \/ RejectSubscribe(s)
                        \/ \E i \in Instrument, feeds \in FeedChoice : RegisterSession(s, i, feeds)
                        \/ Handle(s)
                        \/ Cancel(s)
  \/ Shutdown
  \/ ShutdownReturns

\* The consolidator finishes a fan-out, every handler thread is scheduled and a
\* client that is there reads.  Nobody has to publish, subscribe, cancel or
\* shut down.  sessions_mutex_ is free again and again and every thread that
\* waits for it gets it in the end.
Spec ==
  /\ Init /\ [][Next]_vars
  /\ WF_vars(FanOut)
  /\ \A s \in Session : WF_vars(Handle(s)) /\ SF_vars(UnregisterSession(s))
  /\ WF_vars(ShutdownReturns)

---------------------------------------------------------------------------
(* Properties.                                                              *)

\* seq counts what was pushed to this session: the seq of an update is the
\* number of those the client got before it plus the number that its own
\* channel conflated, so that a gap a client sees is conflation of its own
\* stream and nothing else (Subscription::next_seq, ConflatedChannel::Push).
GapsAreConflation ==
  \A s \in sessions \cap connected :
    LET inHand == IF taken[s] = None THEN 0 ELSE 1
        held == IF pending[s] = None THEN 0 ELSE 1
    IN  nextSeq[s] = received[s] + overwritten[s] + inHand + held

\* Newest state wins: outside a fan-out, the last publication of a feed that a
\* session asked for, made since it registered, is in its channel, in its
\* handler's hand or with its client.  Only older states are conflated away.
NewestIsKept ==
  ~Locked =>
    \A s \in sessions : \A f \in subscription[s].feeds :
      LET i == subscription[s].instrument
          version == published[i][f]
      IN  s \in connected /\ version > subscription[s].since =>
            \E u \in {pending[s], taken[s], delivered[s]} \ {None} :
              u.instrument = i /\ u.feed = f /\ u.version = version

\* What a channel holds is taken in the end, or its client has gone.
UpdatesReachClients ==
  \A s \in Session :
    pending[s] # None ~> pending[s] = None \/ s \notin connected

\* A session whose client has gone is removed, also in a quiet market: the wait
\* for an update is bounded (kCancellationPollInterval).
SessionsAreReleased ==
  \A s \in Session : s \in sessions /\ s \notin connected ~> s \notin sessions

\* Server shutdown comes back, so that the ingress and the consolidator are
\* stopped after it (main: server->Shutdown, ingress.Stop, core.Stop).
ServerStops == server = "shutdown" ~> server = "stopped"

\* It does once every client has gone.
ServerStopsWithoutClients ==
  server = "shutdown" /\ connected \cap sessions = {} ~> server = "stopped"
===========================================================================
