-------------------------- MODULE SessionsProofs --------------------------
(***************************************************************************)
(* Proofs about the gRPC sessions, for every number of sessions,           *)
(* instruments and publications and for every choice of feeds: what a      *)
(* client may conclude from a gap in seq, and that the newest state of a   *)
(* feed is never conflated away from a session that asked for that feed    *)
(* alone.                                                                  *)
(***************************************************************************)
EXTENDS Sessions, TLAPS

USE DEF vars, sessionVars, channelVars, clientVars, publishVars

\* What Push puts into a channel is an update.
Pushed(s, f) ==
  [instrument |-> fanout.instrument, feed |-> f, version |-> publishes, seq |-> nextSeq[s]]

LEMMA PushedIs ==
  ASSUME TypeOK, Locked, NEW s \in Session, NEW f \in Feed
  PROVE  Pushed(s, f) \in Update /\ Pushed(s, f) # None
  <1>1. fanout \in Fanout
    BY DEF TypeOK, Locked
  <1>2. Pushed(s, f) \in Update
    BY <1>1 DEF TypeOK, Pushed, Update, Fanout
  <1> QED
    BY <1>2, SessionsAssumption

\* Every step keeps the types.
LEMMA NextType == TypeOK /\ [Next]_vars => TypeOK'
  <1> SUFFICES ASSUME TypeOK, [Next]_vars PROVE TypeOK'
    OBVIOUS
  <1> USE SessionsAssumption DEF TypeOK
  <1>1. CASE UNCHANGED vars
    BY <1>1
  <1>2. ASSUME NEW i \in Instrument, NEW feeds \in SUBSET Feed, BeginPublish(i, feeds) PROVE TypeOK'
    <2>1. publishes' \in Version /\ publishes' = publishes + 1
      BY <1>2 DEF BeginPublish, Version
    <2>2. published' \in [Instrument -> [Feed -> Version]]
      BY <1>2, <2>1 DEF BeginPublish
    <2>3. fanout' \in Fanout
      BY <1>2 DEF BeginPublish, Fanout
    <2> QED
      BY <1>2, <2>1, <2>2, <2>3 DEF BeginPublish
  <1>3. ASSUME NEW s \in Session, NEW f \in Feed, Push(s, f) PROVE TypeOK'
    <2>1. /\ pending' = [pending EXCEPT ![s] = Pushed(s, f)]
          /\ fanout' = [fanout EXCEPT !.todo = @ \ {<<s, f>>}]
          /\ nextSeq' = [nextSeq EXCEPT ![s] = @ + 1]
          /\ overwritten' = [overwritten EXCEPT ![s] = IF pending[s] = None THEN @ ELSE @ + 1]
          /\ UNCHANGED <<handler, sessionVars, taken, clientVars, publishes, published, server>>
      BY <1>3 DEF Push, Pushed
    <2>2. Pushed(s, f) \in Update
      BY <1>3, PushedIs DEF Push
    <2>3. pending' \in [Session -> Update \cup {None}]
      BY <2>1, <2>2
    <2>4. fanout' \in Fanout
      <3>1. fanout \in Fanout
        BY <1>3 DEF Push, Locked
      <3> QED
        BY <2>1, <3>1 DEF Fanout
    <2>5. nextSeq' \in [Session -> Nat] /\ overwritten' \in [Session -> Nat]
      BY <2>1
    <2> QED
      BY <2>1, <2>3, <2>4, <2>5
  <1>4. CASE EndPublish
    BY <1>4 DEF EndPublish
  <1>5. ASSUME NEW s \in Session, RejectSubscribe(s) PROVE TypeOK'
    BY <1>5 DEF RejectSubscribe
  <1>6. ASSUME NEW s \in Session, NEW i \in Instrument, NEW feeds \in FeedChoice,
               RegisterSession(s, i, feeds)
        PROVE  TypeOK'
    <2>1. [instrument |-> i, feeds |-> feeds, since |-> publishes] \in Subscription
      BY <1>6 DEF RegisterSession, Subscription
    <2>2. subscription' \in [Session -> Subscription \cup {None}]
      BY <1>6, <2>1 DEF RegisterSession
    <2> QED
      BY <1>6, <2>2 DEF RegisterSession
  <1>7. ASSUME NEW s \in Session, TestCancelled(s) \/ TimeOut(s) PROVE TypeOK'
    BY <1>7 DEF TestCancelled, TimeOut
  <1>8. ASSUME NEW s \in Session, Take(s) PROVE TypeOK'
    BY <1>8 DEF Take
  <1>9. ASSUME NEW s \in Session, Write(s) PROVE TypeOK'
    BY <1>9 DEF Write
  <1>10. ASSUME NEW s \in Session, WriteFails(s) PROVE TypeOK'
    BY <1>10 DEF WriteFails
  <1>11. ASSUME NEW s \in Session, UnregisterSession(s) PROVE TypeOK'
    BY <1>11 DEF UnregisterSession
  <1>12. ASSUME NEW s \in Session, Cancel(s) PROVE TypeOK'
    BY <1>12 DEF Cancel
  <1>13. CASE Shutdown \/ ShutdownReturns
    BY <1>13 DEF Shutdown, ShutdownReturns
  <1>14. ASSUME NEW i \in Instrument, PublishBbo(i) \/ PublishBook(i) PROVE TypeOK'
    <2>1. {"bbo"} \in SUBSET Feed /\ {"volume_bands", "price_bands"} \in SUBSET Feed
      BY DEF Feed
    <2> QED
      BY <1>2, <1>14, <2>1 DEF PublishBbo, PublishBook
  <1> QED
    BY <1>1, <1>3, <1>4, <1>5, <1>6, <1>7, <1>8, <1>9, <1>10, <1>11, <1>12, <1>13, <1>14
       DEF Next, FanOut, Handle

\* The initial state has them.
LEMMA InitType == Init => TypeOK
  BY SessionsAssumption DEF Init, TypeOK, Version

\* The sessions keep to their states.
THEOREM TypeCorrect == Spec => []TypeOK
  BY InitType, NextType, PTL DEF Spec

---------------------------------------------------------------------------
(* A gap a client sees is conflation of its own stream.                     *)

\* A handler has an update in its hand exactly while it writes it.
InHand == \A s \in Session : taken[s] # None <=> handler[s] = "write"

\* The count holds for every session whose client is there, registered or not.
Counted ==
  \A s \in connected :
    nextSeq[s] = received[s] + overwritten[s] + (IF taken[s] = None THEN 0 ELSE 1)
                   + (IF pending[s] = None THEN 0 ELSE 1)

GapsInv == TypeOK /\ InHand /\ Counted

\* Every step keeps GapsInv.
LEMMA NextGaps == GapsInv /\ [Next]_vars => GapsInv'
  <1> SUFFICES ASSUME GapsInv, [Next]_vars PROVE InHand' /\ Counted'
    BY NextType DEF GapsInv
  <1> USE SessionsAssumption DEF GapsInv, TypeOK, InHand, Counted
  <1>1. CASE UNCHANGED <<handler, channelVars, taken, clientVars>>
    BY <1>1
  <1>2. ASSUME NEW i \in Instrument, PublishBbo(i) \/ PublishBook(i) PROVE InHand' /\ Counted'
    BY <1>1, <1>2 DEF PublishBbo, PublishBook, BeginPublish
  <1>3. ASSUME NEW s \in Session, NEW f \in Feed, Push(s, f) PROVE InHand' /\ Counted'
    <2>1. /\ pending' = [pending EXCEPT ![s] = Pushed(s, f)]
          /\ nextSeq' = [nextSeq EXCEPT ![s] = @ + 1]
          /\ overwritten' = [overwritten EXCEPT ![s] = IF pending[s] = None THEN @ ELSE @ + 1]
          /\ UNCHANGED <<handler, taken, clientVars>>
      BY <1>3 DEF Push, Pushed
    <2>2. Pushed(s, f) # None
      BY <1>3, PushedIs DEF Push
    <2> QED
      BY <2>1, <2>2
  <1>4. CASE EndPublish \/ Shutdown \/ ShutdownReturns \/ UNCHANGED vars
    BY <1>1, <1>4 DEF EndPublish, Shutdown, ShutdownReturns
  <1>5. ASSUME NEW s \in Session,
               \/ RejectSubscribe(s) \/ TestCancelled(s) \/ TimeOut(s) \/ UnregisterSession(s)
               \/ \E i \in Instrument, feeds \in FeedChoice : RegisterSession(s, i, feeds)
        PROVE  InHand' /\ Counted'
    <2>1. /\ UNCHANGED <<channelVars, taken, clientVars>>
          /\ handler[s] # "write"
          /\ \E h \in {"loop", "wait", "leave", "done"} : handler' = [handler EXCEPT ![s] = h]
      BY <1>5 DEF RejectSubscribe, TestCancelled, TimeOut, UnregisterSession, RegisterSession
    <2> QED
      BY <2>1
  <1>6. ASSUME NEW s \in Session, Take(s) PROVE InHand' /\ Counted'
    BY <1>6 DEF Take
  <1>7. ASSUME NEW s \in Session, Write(s) PROVE InHand' /\ Counted'
    <2>1. InHand'
      BY <1>7 DEF Write
    <2>2. /\ UNCHANGED <<channelVars, connected>> /\ taken[s] # None
          /\ received' = [received EXCEPT ![s] = @ + 1]
          /\ taken' = [taken EXCEPT ![s] = None]
      BY <1>7 DEF Write
    <2>3. Counted'
      BY <2>2
    <2> QED
      BY <2>1, <2>3
  <1>8. ASSUME NEW s \in Session, WriteFails(s) PROVE InHand' /\ Counted'
    BY <1>8 DEF WriteFails
  <1>9. ASSUME NEW s \in Session, Cancel(s) PROVE InHand' /\ Counted'
    BY <1>9 DEF Cancel
  <1> QED
    BY <1>2, <1>3, <1>4, <1>5, <1>6, <1>7, <1>8, <1>9 DEF Next, FanOut, Handle

\* The seq of an update is the number of updates its client got before it plus
\* the number its own channel conflated.
THEOREM GapsAreConflationHolds == Spec => []GapsAreConflation
  <1>1. Init => GapsInv
    <2> SUFFICES ASSUME Init PROVE InHand /\ Counted
      BY InitType DEF GapsInv
    <2> QED
      BY DEF Init, InHand, Counted
  <1>2. GapsInv => GapsAreConflation
    BY DEF GapsInv, TypeOK, Counted, GapsAreConflation
  <1> QED
    BY <1>1, <1>2, NextGaps, PTL DEF Spec

---------------------------------------------------------------------------
(* The newest state of a feed stays with a session that asked for one feed. *)

\* What a client will have seen last: the channel's update goes after the one
\* in the handler's hand, and that one after the one delivered.
Newest(s) ==
  IF pending[s] # None THEN pending[s] ELSE IF taken[s] # None THEN taken[s] ELSE delivered[s]

\* u is the last publication of feed f for the instrument of session s.
IsLatest(u, s, f) ==
  LET i == subscription[s].instrument
  IN  u \in Update /\ u.instrument = i /\ u.feed = f /\ u.version = published[i][f]

OneFeed(s) == \A f, g \in subscription[s].feeds : f = g

\* A session in the table has a subscription.
Subscribed == \A s \in sessions : subscription[s] \in Subscription

\* A fan-out serves sessions in the table, with a feed they asked for, and it
\* is the last publication of that feed.
Due ==
  Locked => \A s \in Session, f \in Feed : <<s, f>> \in fanout.todo =>
    /\ s \in sessions
    /\ f \in subscription[s].feeds
    /\ fanout.instrument = subscription[s].instrument
    /\ published[fanout.instrument][f] = publishes

\* No publication is newer than the count of them.
Numbered == \A i \in Instrument, f \in Feed : published[i][f] <= publishes

\* The last publication of the session's feed is still due, or is what it will
\* have seen last.
Kept ==
  \A s \in sessions \cap connected : \A f \in subscription[s].feeds :
    OneFeed(s) /\ published[subscription[s].instrument][f] > subscription[s].since =>
      (Locked /\ <<s, f>> \in fanout.todo) \/ IsLatest(Newest(s), s, f)

NewestInv == TypeOK /\ InHand /\ Subscribed /\ Due /\ Numbered /\ Kept

\* Every step keeps the parts of NewestInv about the fan-out.
LEMMA NextDue ==
  NewestInv /\ [Next]_vars => Subscribed' /\ Due' /\ Numbered'
  <1> SUFFICES ASSUME NewestInv, [Next]_vars PROVE Subscribed' /\ Due' /\ Numbered'
    OBVIOUS
  <1> USE SessionsAssumption DEF NewestInv, TypeOK, Subscribed, Numbered
  <1>1. ASSUME UNCHANGED <<sessions, subscription, publishes, published, fanout>>
        PROVE  Subscribed' /\ Due' /\ Numbered'
    BY <1>1 DEF Due, Locked
  <1>2. ASSUME NEW i \in Instrument, NEW feeds \in SUBSET Feed, BeginPublish(i, feeds)
        PROVE  Subscribed' /\ Due' /\ Numbered'
    <2>1. /\ publishes' = publishes + 1 /\ publishes \in Nat
          /\ published' = [published EXCEPT ![i] = [f \in Feed |-> IF f \in feeds THEN publishes + 1 ELSE @[f]]]
          /\ UNCHANGED <<sessions, subscription>>
      BY <1>2 DEF BeginPublish, Version
    <2>2. \A j \in Instrument, f \in Feed :
            published'[j][f] = IF j = i /\ f \in feeds THEN publishes + 1 ELSE published[j][f]
      BY <2>1
    <2>3. Numbered'
      BY <2>1, <2>2 DEF Version
    <2>4. fanout'.instrument = i
      BY <1>2 DEF BeginPublish
    <2>5. ASSUME NEW s \in Session, NEW f \in Feed, <<s, f>> \in fanout'.todo
          PROVE  s \in sessions /\ f \in feeds /\ subscription[s].instrument = i /\ f \in subscription[s].feeds
      BY <1>2, <2>5 DEF BeginPublish
    <2>6. Due'
      BY <2>1, <2>2, <2>4, <2>5 DEF Due
    <2> QED
      BY <2>1, <2>3, <2>6
  <1>3. ASSUME NEW s \in Session, NEW f \in Feed, Push(s, f) PROVE Subscribed' /\ Due' /\ Numbered'
    <2>1. /\ fanout \in Fanout /\ fanout' = [fanout EXCEPT !.todo = @ \ {<<s, f>>}]
          /\ UNCHANGED <<sessions, subscription, publishes, published>> /\ Locked
      BY <1>3 DEF Push, Locked
    <2>2. fanout'.instrument = fanout.instrument /\ fanout'.todo \subseteq fanout.todo
      BY <2>1 DEF Fanout
    <2> QED
      BY <2>1, <2>2 DEF Due
  <1>4. CASE EndPublish
    BY <1>4 DEF EndPublish, Due, Locked
  <1>5. ASSUME NEW s \in Session, NEW i \in Instrument, NEW feeds \in FeedChoice,
               RegisterSession(s, i, feeds)
        PROVE  Subscribed' /\ Due' /\ Numbered'
    <2>1. [instrument |-> i, feeds |-> feeds, since |-> publishes] \in Subscription
      BY <1>5 DEF RegisterSession, Subscription
    <2>2. /\ ~Locked' /\ UNCHANGED <<publishes, published>>
          /\ sessions' = sessions \cup {s}
          /\ subscription' = [subscription EXCEPT ![s] =
                                [instrument |-> i, feeds |-> feeds, since |-> publishes]]
      BY <1>5 DEF RegisterSession, Locked
    <2> QED
      BY <2>1, <2>2 DEF Due
  <1>6. ASSUME NEW s \in Session, UnregisterSession(s) PROVE Subscribed' /\ Due' /\ Numbered'
    BY <1>6 DEF UnregisterSession, Due, Locked
  <1>7. ASSUME NEW s \in Session,
               RejectSubscribe(s) \/ TestCancelled(s) \/ Take(s) \/ TimeOut(s) \/ Write(s) \/ WriteFails(s) \/ Cancel(s)
        PROVE  Subscribed' /\ Due' /\ Numbered'
    BY <1>1, <1>7 DEF RejectSubscribe, TestCancelled, Take, TimeOut, Write, WriteFails, Cancel
  <1>8. CASE Shutdown \/ ShutdownReturns \/ UNCHANGED vars
    BY <1>1, <1>8 DEF Shutdown, ShutdownReturns
  <1>9. ASSUME NEW i \in Instrument, PublishBbo(i) \/ PublishBook(i) PROVE Subscribed' /\ Due' /\ Numbered'
    <2>1. {"bbo"} \in SUBSET Feed /\ {"volume_bands", "price_bands"} \in SUBSET Feed
      BY DEF Feed
    <2> QED
      BY <1>2, <1>9, <2>1 DEF PublishBbo, PublishBook
  <1> QED
    BY <1>3, <1>4, <1>5, <1>6, <1>7, <1>8, <1>9 DEF Next, FanOut, Handle

\* A publication is due at every session that asked for its feed.
LEMMA BeginKeeps ==
  ASSUME NewestInv, NEW i \in Instrument, NEW feeds \in SUBSET Feed, BeginPublish(i, feeds)
  PROVE  Kept'
  <1> USE SessionsAssumption DEF NewestInv, TypeOK
  <1>1. /\ ~Locked /\ fanout' \in Fanout /\ publishes \in Nat
        /\ fanout'.todo = {p \in sessions \X feeds : /\ subscription[p[1]].instrument = i
                                                     /\ p[2] \in subscription[p[1]].feeds}
        /\ published' = [published EXCEPT ![i] = [f \in Feed |-> IF f \in feeds THEN publishes + 1 ELSE @[f]]]
        /\ UNCHANGED <<handler, sessionVars, channelVars, taken, clientVars>>
    BY DEF BeginPublish, Version, Fanout
  <1>2. Locked'
    BY <1>1 DEF Locked
  <1>3. ASSUME NEW s \in sessions' \cap connected', NEW f \in subscription'[s].feeds,
               OneFeed(s)', published'[subscription'[s].instrument][f] > subscription'[s].since
        PROVE  <<s, f>> \in fanout'.todo \/ IsLatest(Newest(s), s, f)'
    <2>0. s \in sessions \cap connected /\ s \in Session /\ f \in subscription[s].feeds /\ OneFeed(s)
      BY <1>1, <1>3 DEF OneFeed
    <2>1. subscription[s] \in Subscription /\ f \in Feed /\ subscription[s].instrument \in Instrument
      BY <2>0 DEF Subscribed, Subscription
    <2>2. CASE subscription[s].instrument = i /\ f \in feeds
      BY <1>1, <2>0, <2>2
    <2>3. CASE ~(subscription[s].instrument = i /\ f \in feeds)
      <3>1. published'[subscription[s].instrument][f] = published[subscription[s].instrument][f]
        BY <1>1, <2>1, <2>3
      <3>2. IsLatest(Newest(s), s, f)
        BY <1>1, <1>3, <2>0, <3>1 DEF Kept
      <3> QED
        BY <1>1, <3>1, <3>2 DEF IsLatest, Newest
    <2> QED
      BY <2>2, <2>3
  <1> QED
    BY <1>2, <1>3 DEF Kept

\* Every step keeps NewestInv.
LEMMA NextNewest == NewestInv /\ GapsInv /\ [Next]_vars => NewestInv'
  <1> SUFFICES ASSUME NewestInv, GapsInv, [Next]_vars PROVE Kept'
    BY NextType, NextGaps, NextDue DEF NewestInv, GapsInv
  <1> USE SessionsAssumption DEF NewestInv, TypeOK
  \* A step that leaves alone what is published and subscribed, and takes nothing
  \* from the session that it is not shown to have kept.
  <1>1. ASSUME UNCHANGED <<subscription, published>>, sessions' \subseteq sessions, connected' \subseteq connected,
               \A s \in sessions \cap connected' : Newest(s)' = Newest(s) \/
                                      (\A f \in subscription[s].feeds : OneFeed(s) => IsLatest(Newest(s)', s, f)),
               \A s \in sessions \cap connected', f \in Feed :
                 Locked /\ <<s, f>> \in fanout.todo =>
                    \/ Locked' /\ <<s, f>> \in fanout'.todo
                    \/ IsLatest(Newest(s)', s, f)
        PROVE  Kept'
    <2> SUFFICES ASSUME NEW s \in sessions' \cap connected', NEW f \in subscription'[s].feeds,
                        OneFeed(s)', published'[subscription'[s].instrument][f] > subscription'[s].since
                 PROVE  (Locked' /\ <<s, f>> \in fanout'.todo) \/ IsLatest(Newest(s), s, f)'
      BY DEF Kept
    <2>1. s \in sessions \cap connected' /\ s \in connected /\ f \in subscription[s].feeds /\ OneFeed(s) /\ s \in Session
      BY <1>1 DEF OneFeed
    <2>2. f \in Feed
      BY <2>1 DEF Subscribed, Subscription
    <2>3. (Locked /\ <<s, f>> \in fanout.todo) \/ IsLatest(Newest(s), s, f)
      BY <1>1, <2>1 DEF Kept
    <2>4. IsLatest(Newest(s)', s, f) => IsLatest(Newest(s), s, f)'
      BY <1>1 DEF IsLatest
    <2> QED
      BY <1>1, <2>1, <2>2, <2>3, <2>4
  <1>2. ASSUME NEW i \in Instrument, PublishBbo(i) \/ PublishBook(i) PROVE Kept'
    <2>1. {"bbo"} \in SUBSET Feed /\ {"volume_bands", "price_bands"} \in SUBSET Feed
      BY DEF Feed
    <2> QED
      BY <1>2, <2>1, BeginKeeps DEF PublishBbo, PublishBook
  <1>3. ASSUME NEW s \in Session, NEW f \in Feed, Push(s, f) PROVE Kept'
    <2>1. /\ pending' = [pending EXCEPT ![s] = Pushed(s, f)]
          /\ fanout \in Fanout /\ fanout' = [fanout EXCEPT !.todo = @ \ {<<s, f>>}]
          /\ UNCHANGED <<sessionVars, taken, clientVars, publishes, published>>
          /\ Locked /\ <<s, f>> \in fanout.todo
      BY <1>3 DEF Push, Pushed, Locked
    <2>2. Pushed(s, f) # None /\ Pushed(s, f) \in Update
      BY <2>1, PushedIs
    <2>3. Newest(s)' = Pushed(s, f)
      BY <2>1, <2>2 DEF Newest
    <2>4. IsLatest(Pushed(s, f), s, f) /\ f \in subscription[s].feeds
      BY <2>1, <2>2 DEF IsLatest, Pushed, Due
    <2>5. \A t \in Session : t # s => Newest(t)' = Newest(t)
      BY <2>1 DEF Newest
    <2>6. \A g \in subscription[s].feeds : OneFeed(s) => IsLatest(Newest(s)', s, g)
      BY <2>3, <2>4 DEF OneFeed
    <2>7. fanout' \in Fanout /\ fanout'.todo = fanout.todo \ {<<s, f>>}
      BY <2>1 DEF Fanout
    <2>8. Locked'
      BY <2>7 DEF Locked
    <2>9. \A t \in Session, g \in Feed : <<t, g>> \in fanout.todo => <<t, g>> \in fanout'.todo \/ (t = s /\ g = f)
      BY <2>7
    <2> QED
      BY <1>1, <2>1, <2>3, <2>4, <2>5, <2>6, <2>8, <2>9
  <1>4. CASE EndPublish
    <2>1. \A s \in Session : Newest(s)' = Newest(s)
      BY <1>4 DEF EndPublish, Newest
    <2> QED
      BY <1>1, <1>4, <2>1 DEF EndPublish
  <1>5. ASSUME NEW s \in Session, NEW i \in Instrument, NEW feeds \in FeedChoice,
               RegisterSession(s, i, feeds)
        PROVE  Kept'
    <2>1. /\ ~Locked /\ UNCHANGED <<publishes, published, channelVars, taken, clientVars, fanout>>
          /\ sessions' = sessions \cup {s}
          /\ subscription' = [subscription EXCEPT ![s] =
                                [instrument |-> i, feeds |-> feeds, since |-> publishes]]
      BY <1>5 DEF RegisterSession
    <2> SUFFICES ASSUME NEW t \in sessions' \cap connected', NEW f \in subscription'[t].feeds,
                        OneFeed(t)', published'[subscription'[t].instrument][f] > subscription'[t].since
                 PROVE  IsLatest(Newest(t), t, f)'
      BY DEF Kept
    <2>2. CASE t = s
      <3>1. subscription'[t].instrument = i /\ subscription'[t].since = publishes /\ f \in Feed /\ publishes \in Nat
        BY <2>1, <2>2 DEF Version
      <3>2. published[i][f] <= publishes /\ published[i][f] \in Nat
        BY <3>1 DEF Numbered, Version
      <3> QED
        BY <2>1, <3>1, <3>2
    <2>3. CASE t # s
      <3>1. subscription'[t] = subscription[t] /\ t \in sessions \cap connected
        BY <2>1, <2>3
      <3>2. OneFeed(t)
        BY <3>1 DEF OneFeed
      <3>3. IsLatest(Newest(t), t, f)
        BY <2>1, <3>1, <3>2 DEF Kept
      <3> QED
        BY <2>1, <3>1, <3>3 DEF IsLatest, Newest
    <2> QED
      BY <2>2, <2>3
  <1>6. ASSUME NEW s \in Session, Take(s) PROVE Kept'
    <2>1. \A t \in Session : Newest(t)' = Newest(t)
      BY <1>6 DEF Take, Newest
    <2> QED
      BY <1>1, <1>6, <2>1 DEF Take, Locked
  <1>7. ASSUME NEW s \in Session, Write(s) PROVE Kept'
    <2>1. taken[s] # None
      BY <1>7 DEF Write, InHand
    <2>2. \A t \in Session : Newest(t)' = Newest(t)
      BY <1>7, <2>1 DEF Write, Newest
    <2> QED
      BY <1>1, <1>7, <2>2 DEF Write, Locked
  <1>8. ASSUME NEW s \in Session, WriteFails(s) PROVE Kept'
    <2>1. \A t \in connected : Newest(t)' = Newest(t)
      BY <1>8 DEF WriteFails, Newest
    <2> QED
      BY <1>1, <1>8, <2>1 DEF WriteFails, Locked
  <1>9. CASE \/ \E s \in Session : RejectSubscribe(s) \/ TestCancelled(s) \/ TimeOut(s)
                                     \/ UnregisterSession(s) \/ Cancel(s)
             \/ Shutdown \/ ShutdownReturns \/ UNCHANGED vars
    <2>1. /\ UNCHANGED <<subscription, channelVars, taken, delivered, publishVars>>
          /\ sessions' \subseteq sessions /\ connected' \subseteq connected
      BY <1>9 DEF RejectSubscribe, TestCancelled, TimeOut, UnregisterSession, Cancel, Shutdown, ShutdownReturns
    <2>2. \A t \in Session : Newest(t)' = Newest(t)
      BY <2>1 DEF Newest
    <2> QED
      BY <1>1, <2>1, <2>2 DEF Locked
  <1> QED
    BY <1>2, <1>3, <1>4, <1>5, <1>6, <1>7, <1>8, <1>9 DEF Next, FanOut, Handle

\* For every session that asked for one feed the last publication of it is due
\* or kept, whatever the other sessions asked for.
THEOREM NewestInvHolds == Spec => []NewestInv
  <1>1. Init => NewestInv /\ GapsInv
    <2> SUFFICES ASSUME Init PROVE InHand /\ Counted /\ Subscribed /\ Due /\ Numbered /\ Kept
      BY InitType DEF NewestInv, GapsInv
    <2> QED
      BY DEF Init, InHand, Counted, Subscribed, Due, Numbered, Kept, Locked
  <1>2. NewestInv /\ GapsInv /\ [Next]_vars => NewestInv' /\ GapsInv'
    BY NextNewest, NextGaps
  <1> QED
    BY <1>1, <1>2, PTL DEF Spec

\* Newest state wins when clients ask for one feed each (or for none): outside a
\* fan-out the last publication is in the channel, in the handler's hand or with
\* the client.
THEOREM NewestIsKeptHolds ==
  ASSUME \A feeds \in FeedChoice : \A f, g \in feeds : f = g
  PROVE  Spec => []NewestIsKept
  <1>1. NewestInv => NewestIsKept
    <2> SUFFICES ASSUME NewestInv, ~Locked, NEW s \in sessions, NEW f \in subscription[s].feeds,
                        s \in connected, published[subscription[s].instrument][f] > subscription[s].since
                 PROVE  \E u \in {pending[s], taken[s], delivered[s]} \ {None} :
                          /\ u.instrument = subscription[s].instrument /\ u.feed = f
                          /\ u.version = published[subscription[s].instrument][f]
      BY DEF NewestIsKept
    <2>1. subscription[s].feeds \in FeedChoice
      BY DEF NewestInv, Subscribed, Subscription
    <2>2. OneFeed(s)
      BY <2>1 DEF OneFeed
    <2>3. IsLatest(Newest(s), s, f)
      BY <2>2 DEF NewestInv, Kept
    <2>4. Newest(s) \in {pending[s], taken[s], delivered[s]} /\ Newest(s) # None
      BY <2>3, SessionsAssumption DEF Newest, IsLatest
    <2> QED
      BY <2>3, <2>4 DEF IsLatest
  <1> QED
    BY <1>1, NewestInvHolds, PTL
===========================================================================
