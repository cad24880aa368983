------------------------------- MODULE Core -------------------------------
(***************************************************************************)
(* market_data::Core: one bounded queue per venue slot, filled by the      *)
(* ingress thread, and the consolidator thread that drains the queues slot *)
(* after slot and is the only one to touch a book.  The consolidated book  *)
(* and the consolidated BBO are persistent: a depth delta or a quote       *)
(* repairs them in place, and only the events that a repair cannot express *)
(* latch a full rebuild or a full rescan for the next update.              *)
(***************************************************************************)
EXTENDS MarketData, Sequences

CONSTANTS
  QueueCapacity,   \* kProviderQueueCapacity
  UpdateInput,     \* the depth updates the ingress may hand over
  QuoteInput,      \* the quotes ...
  HealthInput      \* ... and the health events

ASSUME CoreAssumption ==
  /\ QueueCapacity \in Nat \ {0}
  /\ UpdateInput \subseteq BookUpdate
  /\ QuoteInput \subseteq QuoteMessage
  /\ HealthInput \subseteq VenueHealthEvent

VARIABLES
  venueCount,          \* venue_registry_.size(): slots handed out so far
  queues,              \* queues_
  index, count,        \* the locals of DrainOnce
  activeVenues,        \* the slots that have an active_venues_ entry
  venueBooks,          \* venue_books_
  venueQuotes,         \* venue_quotes_
  depthHealth,         \* depth_health_
  bboHealth,           \* bbo_health_
  needsRebuild,        \* State::needs_rebuild_, per instrument
  consolidatedState,   \* State::book_, per instrument
  rescanDue,           \* bbo_health_version_seen_[i] # bbo_health_version_
  consolidatedBbo,     \* consolidated_bbo_
  bookOut,             \* the last book handed to book_callback_
  bboOut               \* the last BBO handed to bbo_callback_

queueVars == <<venueCount, queues>>
drainVars == <<index, count>>
depthVars == <<venueBooks, depthHealth, needsRebuild, consolidatedState, bookOut>>
bboVars == <<venueQuotes, bboHealth, rescanDue, consolidatedBbo, bboOut>>
vars == <<queueVars, drainVars, activeVenues, depthVars, bboVars>>

TypeOK ==
  /\ venueCount \in 0 .. MaxVenues
  /\ queues \in [Slot -> Seq(ProviderMessage)]
  /\ index \in 0 .. MaxVenues
  /\ count \in 0 .. MaxVenues
  /\ activeVenues \in SUBSET Slot
  /\ venueBooks \in [Instrument -> [Slot -> FlatOrderBook \cup {NoBook}]]
  /\ venueQuotes \in [Instrument -> [Slot -> BboQuote]]
  /\ depthHealth \in [Slot -> VenueHealth]
  /\ bboHealth \in [Slot -> VenueHealth]
  /\ needsRebuild \in [Instrument -> BOOLEAN]
  /\ consolidatedState \in [Instrument -> Book]
  /\ rescanDue \in [Instrument -> BOOLEAN]
  /\ consolidatedBbo \in [Instrument -> [Side -> PriceAndVenues]]
  /\ bookOut \in [Instrument -> Book]
  /\ bboOut \in [Instrument -> [Side -> PriceAndVenues]]

\* Init registers no venue.  A fresh State needs a rebuild; the version
\* counter and every instrument's copy of it start equal.
Init ==
  /\ venueCount = 0
  /\ queues = [s \in Slot |-> <<>>]
  /\ index = 0 /\ count = 0
  /\ activeVenues = {}
  /\ venueBooks = [i \in Instrument |-> [s \in Slot |-> NoBook]]
  /\ venueQuotes = [i \in Instrument |-> [s \in Slot |-> EmptyQuote]]
  /\ depthHealth = [s \in Slot |-> "kNoData"]
  /\ bboHealth = [s \in Slot |-> "kNoData"]
  /\ needsRebuild = [i \in Instrument |-> TRUE]
  /\ consolidatedState = [i \in Instrument |-> [l \in Level |-> [s \in Slot |-> 0]]]
  /\ rescanDue = [i \in Instrument |-> FALSE]
  /\ consolidatedBbo = [i \in Instrument |-> [side \in Side |-> EmptyLevel]]
  /\ bookOut = [i \in Instrument |-> [l \in Level |-> [s \in Slot |-> 0]]]
  /\ bboOut = [i \in Instrument |-> [side \in Side |-> EmptyLevel]]

---------------------------------------------------------------------------
(* The ingress thread.                                                      *)

\* A venue name seen for the first time takes the next slot; a known name
\* gets its slot back and changes nothing.
RegisterVenueName ==
  /\ venueCount < MaxVenues
  /\ venueCount' = venueCount + 1
  /\ UNCHANGED <<queues, drainVars, activeVenues, depthVars, bboVars>>

\* TryEnqueueBounded and the doorbell: the message goes in if there is room.
TryEnqueueBounded(s, message) ==
  /\ Len(queues[s]) < QueueCapacity
  /\ queues' = [queues EXCEPT ![s] = Append(@, message)]
  /\ UNCHANGED venueCount

\* The queue stayed full: the message is lost to Core.  The counters that the
\* code bumps here are read by reports only and are left out.
NoteOverflow(s) ==
  /\ Len(queues[s]) = QueueCapacity
  /\ UNCHANGED queueVars

EnqueueUpdate(s, update) == TryEnqueueBounded(s, update) \/ NoteOverflow(s)
EnqueueQuote(s, quote) == TryEnqueueBounded(s, quote) \/ NoteOverflow(s)
EnqueueHealth(s, event) == TryEnqueueBounded(s, event) \/ NoteOverflow(s)
EnqueueRegistration(s) == TryEnqueueBounded(s, VenueRegistration) \/ NoteOverflow(s)
EnqueueDisconnect(s) == TryEnqueueBounded(s, VenueDisconnect) \/ NoteOverflow(s)

Enqueue(s) ==
  /\ s < venueCount
  /\ \/ \E update \in UpdateInput : EnqueueUpdate(s, update)
     \/ \E quote \in QuoteInput : EnqueueQuote(s, quote)
     \/ \E event \in HealthInput : EnqueueHealth(s, event)
     \/ EnqueueRegistration(s)
     \/ EnqueueDisconnect(s)
  /\ UNCHANGED <<drainVars, activeVenues, depthVars, bboVars>>

---------------------------------------------------------------------------
(* The consolidator thread: DrainOnce, over and over.  A pass reads the     *)
(* number of slots once and empties each queue before it moves on.          *)

BeginPass ==
  /\ index = count
  /\ index' = 0
  /\ count' = venueCount
  /\ UNCHANGED <<queueVars, activeVenues, depthVars, bboVars>>

NextSlot ==
  /\ index < count
  /\ queues[index] = <<>>
  /\ index' = index + 1
  /\ UNCHANGED <<queueVars, count, activeVenues, depthVars, bboVars>>

Front == Head(queues[index])

Pop(kind) ==
  /\ index < count
  /\ queues[index] # <<>>
  /\ Front.kind = kind
  /\ queues' = [queues EXCEPT ![index] = Tail(@)]
  /\ UNCHANGED <<venueCount, drainVars>>

(* Depth updates.                                                           *)

\* Core never creates state from a data message: an update for an unknown
\* instrument, or for a slot whose book is gone, is dropped.
DropUpdate ==
  /\ Pop("update")
  /\ \/ Front.instrument \notin Instrument
     \/ /\ Front.instrument \in Instrument
        /\ venueBooks[Front.instrument][index] = NoBook
  /\ UNCHANGED <<activeVenues, depthVars, bboVars>>

\* What every accepted update does first, and last.
AcceptUpdate(i) ==
  /\ Pop("update")
  /\ Front.instrument = i
  /\ venueBooks[i][index] # NoBook
  /\ venueBooks' = [venueBooks EXCEPT ![i][index] = ApplyUpdate(@, Front)]
  /\ UNCHANGED <<activeVenues, depthHealth, bboVars>>

PublishBook(i) == bookOut' = [bookOut EXCEPT ![i] = consolidatedState'[i]]

\* FullRebuild: a snapshot describes no transition, and a latched rebuild
\* stands for contributions that changed without an update.
ProcessUpdateRebuild(i) ==
  /\ AcceptUpdate(i)
  /\ Front.isSnapshot \/ needsRebuild[i]
  /\ consolidatedState' =
       [consolidatedState EXCEPT ![i] = MergeBooks(venueBooks'[i], depthHealth)]
  /\ needsRebuild' = [needsRebuild EXCEPT ![i] = FALSE]
  /\ PublishBook(i)

\* ApplyDepthDelta: ApplyOneChange for every LevelChange the venue's book
\* emitted; the contributions of the other slots stay.
ApplyDepthDelta(state, s, update, changed) ==
  [l \in Level |->
     IF l \in changed THEN [state[l] EXCEPT ![s] = update.levels[l]] ELSE state[l]]

ProcessUpdateRepair(i) ==
  /\ AcceptUpdate(i)
  /\ ~Front.isSnapshot /\ ~needsRebuild[i]
  /\ IsAdmissible(depthHealth[index])
  /\ consolidatedState' =
       [consolidatedState EXCEPT ![i] =
          ApplyDepthDelta(@, index, Front, ChangedLevels(venueBooks[i][index], Front))]
  /\ UNCHANGED needsRebuild
  /\ PublishBook(i)

\* Mutant: the delta is folded in whatever the verdict on the venue.
MutantUpdateExcluded(i) ==
  /\ AcceptUpdate(i)
  /\ ~Front.isSnapshot /\ ~needsRebuild[i]
  /\ ~IsAdmissible(depthHealth[index])
  /\ consolidatedState' =
       [consolidatedState EXCEPT ![i] =
          ApplyDepthDelta(@, index, Front, ChangedLevels(venueBooks[i][index], Front))]
  /\ UNCHANGED needsRebuild
  /\ PublishBook(i)

\* The delta of a venue that is not admitted is not folded in.
ProcessUpdateExcluded(i) ==
  /\ AcceptUpdate(i)
  /\ ~Front.isSnapshot /\ ~needsRebuild[i]
  /\ ~IsAdmissible(depthHealth[index])
  /\ UNCHANGED <<consolidatedState, needsRebuild>>
  /\ PublishBook(i)

(* Quotes.                                                                  *)

DropQuote ==
  /\ Pop("quote")
  /\ Front.instrument \notin Instrument
  /\ UNCHANGED <<activeVenues, depthVars, bboVars>>

\* Mutant: a level that loses its last venue is left empty.
MutantUpdateBBOSide(side, level, s, quotes, health) ==
  LET price == IF IsAdmissible(health[s]) THEN quotes[s][side].price ELSE NoPrice
      own == <<s, quotes[s][side].qty>>
      others == {v \in level.venues : v[1] # s}
  IN  CASE price # NoPrice /\ (level.price = NoPrice \/ Better(side, price, level.price))
             -> [price |-> price, venues |-> {own}]
        [] price # NoPrice /\ price = level.price
             -> [price |-> price, venues |-> others \cup {own}]
        [] OTHER -> [level EXCEPT !.venues = others]

\* One side of UpdateBBOWithQuote.  A quote of a venue that is not admitted
\* counts as one without a price; a level that loses its last venue is found
\* again by a scan.
UpdateBBOSide(side, level, s, quotes, health) ==
  LET price == IF IsAdmissible(health[s]) THEN quotes[s][side].price ELSE NoPrice
      own == <<s, quotes[s][side].qty>>
      others == {v \in level.venues : v[1] # s}
  IN  CASE price # NoPrice /\ (level.price = NoPrice \/ Better(side, price, level.price))
             -> [price |-> price, venues |-> {own}]
        [] price # NoPrice /\ price = level.price
             -> [price |-> price, venues |-> others \cup {own}]
        [] OTHER
             -> IF others = {} /\ level.venues # {}
                THEN ScanBest(side, quotes, health)
                ELSE [level EXCEPT !.venues = others]

UpdateBBOWithQuote(bbo, s, quotes, health) ==
  [side \in Side |-> UpdateBBOSide(side, bbo[side], s, quotes, health)]

\* The quote is stored first, so that a scan finds it; it is stored whether or
\* not the slot is active.
AcceptQuote(i) ==
  /\ Pop("quote")
  /\ Front.instrument = i
  /\ venueQuotes' = [venueQuotes EXCEPT ![i][index] = Front.quote]
  /\ UNCHANGED <<activeVenues, depthVars, bboHealth>>

PublishBbo(i) == bboOut' = [bboOut EXCEPT ![i] = consolidatedBbo'[i]]

ProcessQuoteRescan(i) ==
  /\ AcceptQuote(i)
  /\ rescanDue[i]
  /\ consolidatedBbo' =
       [consolidatedBbo EXCEPT ![i] = ComputeBBOFromQuotes(venueQuotes'[i], bboHealth)]
  /\ rescanDue' = [rescanDue EXCEPT ![i] = FALSE]
  /\ PublishBbo(i)

ProcessQuoteUpdate(i) ==
  /\ AcceptQuote(i)
  /\ ~rescanDue[i]
  /\ consolidatedBbo' =
       [consolidatedBbo EXCEPT ![i] = UpdateBBOWithQuote(@, index, venueQuotes'[i], bboHealth)]
  /\ UNCHANGED rescanDue
  /\ PublishBbo(i)

(* Health, registration and removal: per venue, while a consolidated book   *)
(* and a BBO are per instrument.                                            *)

\* Mutant: a change of the contributing venues latches no rebuild.
MutantMarkNone == UNCHANGED needsRebuild

MarkAllForRebuild == needsRebuild' = [i \in Instrument |-> TRUE]
BumpBboHealthVersion == rescanDue' = [i \in Instrument |-> TRUE]

ProcessHealthUnchanged ==
  /\ Pop("health")
  /\ Front.health = (IF Front.stream = "kDepth" THEN depthHealth ELSE bboHealth)[index]
  /\ UNCHANGED <<activeVenues, depthVars, bboVars>>

\* Neither kind of verdict publishes anything.
ProcessDepthHealth ==
  /\ Pop("health")
  /\ Front.stream = "kDepth"
  /\ Front.health # depthHealth[index]
  /\ depthHealth' = [depthHealth EXCEPT ![index] = Front.health]
  /\ MarkAllForRebuild
  /\ UNCHANGED <<activeVenues, venueBooks, consolidatedState, bookOut, bboVars>>

ProcessBboHealth ==
  /\ Pop("health")
  /\ Front.stream = "kBbo"
  /\ Front.health # bboHealth[index]
  /\ bboHealth' = [bboHealth EXCEPT ![index] = Front.health]
  /\ BumpBboHealthVersion
  /\ UNCHANGED <<activeVenues, depthVars, venueQuotes, consolidatedBbo, bboOut>>

\* Idempotent: only the books that RemoveVenue freed are made again.
ProcessRegistration ==
  /\ Pop("registration")
  /\ activeVenues' = activeVenues \cup {index}
  /\ venueBooks' = [i \in Instrument |->
       [venueBooks[i] EXCEPT ![index] = IF @ = NoBook THEN EmptyBook ELSE @]]
  /\ MarkAllForRebuild
  /\ UNCHANGED <<depthHealth, consolidatedState, bookOut, bboVars>>

RemoveInactive ==
  /\ Pop("disconnect")
  /\ index \notin activeVenues
  /\ UNCHANGED <<activeVenues, depthVars, bboVars>>

\* Mutant: the book of a venue that is gone stays, as nothing admits it.
MutantRemoveKeepsBook ==
  /\ Pop("disconnect")
  /\ index \in activeVenues
  /\ activeVenues' = activeVenues \ {index}
  /\ venueQuotes' = [i \in Instrument |-> [venueQuotes[i] EXCEPT ![index] = EmptyQuote]]
  /\ depthHealth' = [depthHealth EXCEPT ![index] = "kNoData"]
  /\ bboHealth' = [bboHealth EXCEPT ![index] = "kNoData"]
  /\ BumpBboHealthVersion
  /\ MarkAllForRebuild
  /\ UNCHANGED <<venueBooks, consolidatedState, bookOut, consolidatedBbo, bboOut>>

\* Mutant: the books go and the last quotes stay.
MutantRemoveKeepsQuotes ==
  /\ Pop("disconnect")
  /\ index \in activeVenues
  /\ activeVenues' = activeVenues \ {index}
  /\ venueBooks' = [i \in Instrument |-> [venueBooks[i] EXCEPT ![index] = NoBook]]
  /\ depthHealth' = [depthHealth EXCEPT ![index] = "kNoData"]
  /\ bboHealth' = [bboHealth EXCEPT ![index] = "kNoData"]
  /\ BumpBboHealthVersion
  /\ MarkAllForRebuild
  /\ UNCHANGED <<venueQuotes, consolidatedState, bookOut, consolidatedBbo, bboOut>>

RemoveVenue ==
  /\ Pop("disconnect")
  /\ index \in activeVenues
  /\ activeVenues' = activeVenues \ {index}
  /\ venueBooks' = [i \in Instrument |-> [venueBooks[i] EXCEPT ![index] = NoBook]]
  /\ venueQuotes' = [i \in Instrument |-> [venueQuotes[i] EXCEPT ![index] = EmptyQuote]]
  /\ depthHealth' = [depthHealth EXCEPT ![index] = "kNoData"]
  /\ bboHealth' = [bboHealth EXCEPT ![index] = "kNoData"]
  /\ BumpBboHealthVersion
  /\ MarkAllForRebuild
  /\ UNCHANGED <<consolidatedState, bookOut, consolidatedBbo, bboOut>>

Drain ==
  \/ BeginPass
  \/ NextSlot
  \/ DropUpdate
  \/ \E i \in Instrument : ProcessUpdateRebuild(i)
  \/ \E i \in Instrument : ProcessUpdateRepair(i)
  \/ \E i \in Instrument : ProcessUpdateExcluded(i)
  \/ DropQuote
  \/ \E i \in Instrument : ProcessQuoteRescan(i)
  \/ \E i \in Instrument : ProcessQuoteUpdate(i)
  \/ ProcessHealthUnchanged
  \/ ProcessDepthHealth
  \/ ProcessBboHealth
  \/ ProcessRegistration
  \/ RemoveInactive
  \/ RemoveVenue

Next ==
  \/ RegisterVenueName
  \/ \E s \in Slot : Enqueue(s)
  \/ Drain

Spec == Init /\ [][Next]_vars

---------------------------------------------------------------------------
(* Properties.                                                              *)

\* The incremental repair never drifts: as long as no rebuild is latched, the
\* persistent consolidated book of every instrument is exactly what MergeBooks
\* would make of the venue books and verdicts of that moment, whatever mix of
\* deltas, snapshots, verdicts, registrations and removals came before
\* (State::ApplyDepthDelta against State::FullRebuild).
BookMatchesRebuild ==
  \A i \in Instrument :
    ~needsRebuild[i] => consolidatedState[i] = MergeBooks(venueBooks[i], depthHealth)

\* The same for the BBO: as long as no rescan is due, the persistent BBO names
\* the best admitted price of either side and exactly the venues quoting it
\* (UpdateBBOWithQuote against ComputeBBOFromQuotes).
BboMatchesRescan ==
  \A i \in Instrument :
    ~rescanDue[i] => consolidatedBbo[i] = ComputeBBOFromQuotes(venueQuotes[i], bboHealth)

\* A slot has a book, for every instrument, exactly while its venue is active:
\* registration and removal are idempotent and leave no half-made venue behind.
BookIffActive ==
  \A i \in Instrument, s \in Slot : venueBooks[i][s] # NoBook <=> s \in activeVenues

\* Subscribers cannot tell the incremental consolidator from the one that
\* merges everything on every update and rescans on every quote.
View == INSTANCE MarketView
ViewSpec == View!Spec
===========================================================================
