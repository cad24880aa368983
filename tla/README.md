# A verification project for the aggregated order book

TLA+ modules, TLC configurations and TLAPS proofs for the C++ market data aggregator in
`src/`: provider processes that follow one exchange each, and `md_core`, which merges
them into one consolidated book and one best bid and offer and streams both to gRPC
clients. Paths below are relative to the root of the repository unless they start
with `tla/`.

## 1. The system

```
  venue ==WebSocket/REST==> provider process --ZeroMQ DEALER/ROUTER--> md_core ==gRPC==> clients

  provider process: io_context worker thread, detached REST threads, sink (DEALER)
  md_core:          ingress thread -> one SPSC ring per venue -> consolidator thread
                    -> fan-out -> one depth-1 channel per session -> gRPC handler threads
```

| Component | State it keeps | Operations | Talks to |
|---|---|---|---|
| `Provider` (`md_provider/md_provider.*`, `ws/`) | sockets and live counts, activity stamps, last published verdicts, reconnect count | `Run`, `HandleReconnection`, session open/close, health timer, `RequestResync`, `Stop` | venue, the sink's callbacks |
| `BinanceProvider` (`md_provider/binance`, `continuity.*`, `seq_dedup.*`, `rest.cpp`) | sync state, buffered events, snapshot attempts, last id, dedup mark | buffer, fetch, reconcile, live event, gap | `Provider`, REST threads |
| `BybitProvider`, `OKXProvider` | last sequence id, two dedup marks, whether the contract size is known | depth and quote handlers, gap, size request | `Provider` |
| `ZmqProviderSink` (`md_wire/zmq_provider_sink.*`) | DEALER socket, send failures | hello, send, goodbye, resync hook | ingress |
| `ZmqCoreIngress` (`md_wire/zmq_core_ingress.*`) | `identity_to_slot_` | hello, data, goodbye, disconnect notification | `Core` |
| `VenueRegistry` (`types/venue_registry.h`) | names and slots | `Register` | ingress, `Core` |
| `SpscQueue` (`md_core/spsc_queue.h`) | ring, two cursors | `TryPush`, `TryPop` | ingress and consolidator thread |
| `Core` (`md_core/md_core.*`, `consolidated_*`, `flat_order_book.*`) | venue books, quotes, verdicts, persistent consolidated book and BBO with their rebuild latches | `Enqueue*`, `DrainOnce`, `Process*`, `RemoveVenue` | callbacks of the service |
| consolidator thread and doorbell (`md_core.cpp`) | `running_`, `consumer_waiting_`, mutex, condition variable | `ConsolidatorLoop`, `RingDoorbell`, `Start`, `Stop` | all queues |
| `AggregatorServiceImpl`, `ConflatedChannel` (`aggregator/`) | sessions, sequence numbers, one pending update per session | `Subscribe`, `PublishBbo`, `PublishBook` | clients |
| `md_core` main | shutdown order | signal, `Shutdown`, `ingress.Stop`, `core.Stop` | all of the above |
| band math (`consolidated_book.cpp`) | none that outlives a publication: running totals of a walk, memo of the answers | `FillToNotional`, `FillToBps`, the batched forms | `PublishBook` |
| wire codec (`md_wire/wire_codec.*`, `wire_format.h`) | the reused encode buffer and `BookUpdate` | encode and decode of five messages | sink, ingress |
| provider process (`aggregator/md_provider_main.cpp`) | none of its own | hello, start, stop, goodbye | sink, `Provider` |
| wire translation, parsers, configuration, clients, logger, benchmarks | none that outlives a call, or tables loaded once | | |

What is hard here:

- *Concurrency.* A lock-free ring with free-running cursors; a doorbell in which both
  sides store one variable and load another; a fan-out under one mutex racing handler
  threads; detached REST threads whose results outlive the connection that wanted them.
- *Incremental state.* The consolidated book and the BBO are repaired in place; any
  change of who contributes that is not an update must latch a rebuild.
- *Lifetime.* Slots are reused by a venue that comes back; data, disconnects and
  registrations of old and new connections meet in one queue.
- *Synchronisation.* A snapshot and a stream taken at different times have to be joined
  without a hole and without going back in time, over redundant sockets.
- *Refusal.* A send to md_core never blocks; when it is refused the provider must resync,
  through the same socket and in the middle of the handler that was sending. That handler
  goes on, and in Binance it may have a snapshot and 2000 buffered events to send.
- *Restarts.* Venues restart their numbering, provider processes crash and are started
  again, md_core is restarted under providers that run on.
- *Stopping.* Every thread that waits has to be woken, and what was accepted has to be
  drained.

The correctness properties of each component are in section 4; `PROJECT.json` lists the
hazards line by line with the properties that would catch them.

## 2. Modules

| Module | Models | State and actions |
|---|---|---|
| `MarketData` | books, quotes, messages, `MergeBooks`, `ScanBest*`, `FlatOrderBook::ApplyUpdate` | pure operators |
| `MarketView` | abstract: what subscribers are promised | every publication is the plain merge (or scan) of the admitted venues; no incremental state |
| `Core` | `Core` between its queues and its callbacks | one action per message kind and path of `DrainOnce`; `Enqueue` is the ingress thread |
| `MCCore` | a small instance of `Core` | draws one of three scenarios at the start |
| `CoreProofs` | theorems about `Core`, and about `Ingress` on top of them | |
| `BoundedFifo` | abstract: a bounded FIFO whose push is tried a few times | |
| `SpscQueue` | the ring, one memory access per step, with the retries of `TryEnqueueBounded` | refines `BoundedFifo` |
| `Consolidator` | threads of `md_core`: ingress, main, consolidator; doorbell | queues are lengths |
| `ConsolidatorProofs`, `SpscProofs`, `SessionsProofs`, `LinkProofs`, `FeedProofs`, `ProviderProofs`, `DepthProofs` | theorems about the module of that name (`DepthProofs`: also `Codec`) | |
| `Ingress` | ingress thread, connections, registry, *composed with* `Core` (EXTENDS) | frames chosen at reception; `CoreSpec` says the composition is an instance of `Core` |
| `MCIngress` | small instances of `Ingress` | |
| `Sessions` | gRPC sessions, conflated channels, fan-out, shutdown | one action per step of a thread between two locks |
| `Bands` | band math of `consolidated_book.cpp`, thresholds of `Subscribe`, memo of `PublishBook` | the session loop as one action per session; operators for the walks, and for what each band should be |
| `MCBands` | small instances of `Bands` | |
| `Feed` | Bybit and OKX: both streams over redundant sockets, `SeqDedup` with resets, continuity, resync and reconnect, contract size | one action per handler; the venue is a sequence of messages that sockets read at their own pace |
| `Link` | `ZmqProviderSink`, the handlers, verdicts and resyncs of a provider as far as they depend on a send, the provider process, and what ingress and Core keep of this venue | one action per handler and one per send; crashes and restarts on both sides |
| `MCLink` | a small instance of `Link` | one constraint |
| `Codec` | `wire_format.h`, `wire_codec.cpp` | the sets of messages, and pure operators on sequences of structs |
| `Depth` | a depth update from the sink through `Codec` into the sorted vectors of `FlatOrderBook` and `State` | send and receive; the algorithms are operators, a loop is a function of the round |
| `MCDepth` | a small instance of `Depth` | |
| `Provider` | reconnect loop, watchdog, Binance synchronisation, venue and REST as environment | one action per handler of the `io_context` |

Correspondence that is not obvious from the names:

- A depth `Level` is one (side, price) pair; a venue book is a function from `Level` to a
  quantity, a merged book adds the attribution per slot. The order of the levels, the
  sorted arrays are in `Depth`, which compares them with the same functions. In `Bands` a
  side is the sequence of levels that `PublishBook` is given, cut to `kDefaultMaxDepth`.
- `rescanDue[i]` is the inequality of `bbo_health_version_` and the instrument's copy.
  Keeping the inequality instead of the counters makes the state finite; it is exact
  because the counter only grows and the copy is only ever set to it.
- `bookOut` and `bboOut` are the last arguments of the publication callbacks. They are
  what the refinement of `MarketView` is about.
- `Consolidator.waiting` is `consumer_waiting_` as the ingress thread sees it. The store
  is a release store and the queue cursors are read after it with acquire loads, which
  does not order the store before the loads: on x86-64 it may sit in the store buffer
  (`storeBuffer = TRUE`), on AArch64 `STLR`/`LDAR` keep the order (`FALSE`). Both are
  initial choices of the specification. With `storeBuffer = FALSE` the 50 ms timeout may
  also be taken away (`timeoutOn = FALSE`), which shows that the doorbell alone suffices.
- In `Provider` event `k` covers the update ids `2k-1` and `2k`, so that a REST snapshot
  may fall inside an event. What Core has is the set of ids whose effect it received
  since the last snapshot, and the last id written.
- `Bands` carries out `PublishBook` session by session although all of it is under
  `sessions_mutex_`: the memo is what one session leaves to the next. `Scale`, `Base` and
  `Word` are `kScaleFactor`, 10000 and 2^32, so that small numbers meet the roundings.
- `Feed`: a position of the venue's sequence stands for the state of its book (or its
  quote) after that message, so that "the book is exact" is that it is a position at all.
  A socket gets the state at its subscription and then each later message in order; it
  may get its last message again, which is how both venues keep a quiet stream alive.
- `Link`: `todo` is what the running handler still has to send: a verdict and one update for
  most handlers, and for `ReconcileSnapshot` (`JoinSnapshot`) the `Replay` of the snapshot
  and of everything buffered. Every frame of it is sent or refused in a step of its own, and
  Core reads in between. `RefuseFrame` puts the announcement of the resync in front of what
  is left, since `resync_hook_` is called before the handler goes on, and takes nothing
  away, since `OnUpdate` tells its caller nothing. `opened` is chosen at the start and never
  changes: it tells the venues whose streams open with a snapshot (Bybit, OKX) and that
  buffer nothing from the one that fetches it (Binance). A book is the number of the last update it has, or `Wrong`. The snapshot is of
  an update between the buffer's beginning and its end: the others are in `Provider`.
- `Ingress.OrderlySpec` is `IngressSpec` in an environment that leaves out two things and
  nothing else: that a kHello overtakes the end of the venue's earlier connection, and that
  a registration or a disconnect is refused by a full queue. Both are never repaired by the
  code (section 6). Reconnection, refused data and a consolidator that is any number of
  connections behind are all in.
- `Codec` counts structs and not bytes: a frame that ends inside a struct is refused by
  `ReadPod` and `ReadBytes` as one that ends before it.
- `Depth` keeps one side per behaviour (bids and asks differ in `storage_less` only) and
  takes updates that name a price at most once: the code leaves duplicates undefined
  (`tests/unit_tests/src/test_flat_order_book.cpp:105`).
- `Provider.lingering`: `ws.cpp` `Stop` closes nothing by itself while a read is
  outstanding; the stopped session holds `ioc.run` until that read ends.

## 3. Runs and bounds

Passing runs:

| Run | Instance | Checks |
|---|---|---|
| `core` | 2 venues with the depth or the quotes of 1 instrument, 2 verdicts; or 1 venue with both streams of 2 instruments and one Core does not know | `TypeOK`, `BookMatchesRebuild`, `BboMatchesRescan`, `BookIffActive`, `ViewSpec` |
| `spsc_queue` | ring of 4 cells, cursors of 8 values, 2 messages, 2 attempts | `NoDataRace`, `FifoSpec` |
| `consolidator` | 2 slots of capacity 2, any number of messages, 1 spin; store buffer or not, timeout or not | `NoMissedWakeup`, `NothingLeftBehind`, `MessagesDrained`, `StopReturns` |
| `ingress` | 2 connections of one venue, 1 each of two others and of an unknown one, 2 slots, queues of 3, 6 frames | `SlotsAreDistinct`, `BoundIffActive`, `NothingOfTheGone`, `CoreSpec` |
| `sessions` | 2 clients of at most one feed each, 2 publications | `GapsAreConflation`, `NewestIsKept`, `UpdatesReachClients`, `SessionsAreReleased`, `ServerStopsWithoutClients` |
| `bands` | 2 sessions; every side of up to 4 levels with quantities 1 and 2; every list of up to 2 of 3 thresholds, and the defaults | `VolumeBandsCorrect`, `PriceBandsCorrect` |
| `provider_sync` | 1 socket, spot and futures, 4 events, REST answers up to 3 ids late, 2 requests | `NoUpdateMissing` |
| `provider_outage` | 2 redundant sockets, 2 events, 1 reconnection | `OutageIsAnnounced`, `OutageEndsRun`, `SyncEnds` |
| `feed` | Bybit and an OKX swap, 2 redundant sockets, 6 messages of two streams, 1 restart of the venue, 1 reconnection | `BookIsExact`, `CurrentWhenDrained`, `ScaleIsKnown`, `NeverBack`, `RecoveryEnds` |
| `link` | both kinds of provider, with 2 updates, or with 3 and a buffer of 1; high-water mark 2, queue of 1, 1 end of the provider process or 1 restart of md_core | `NoHole`, `BooksAgree`, `VerdictsAgree`, `UpdateArrives` |
| `depth` | 2 venues with 3 and 2 prices, 2 quantities; one venue sends levels in any order; every message type | `MessagesRoundTrip`, `NothingIsMisread`, `BookIsExact`, `StateIsExact`, `ChangesAreTheTransition` |

Runs that end in a violation: see section 6.

Why the bounds are enough for the cases that matter:

- *Core.* Two venues are the least for which a repaired level keeps another venue's
  contribution, a best price has two venues, and one that leaves uncovers the other.
  Levels never interact in `MergeBooks` or `ApplyDepthDelta`; one level is enough, and
  the proofs hold for any number. `QueueCapacity = 1` still gives every order in which
  messages of two venues and registrations reach the consolidator, since the queue is
  refilled at any time. `MCCore` draws a `scenario` at the start (only depth, only
  quotes, or both): the two streams share nothing but the queue and the registered
  venues, so that three state spaces add up that would otherwise multiply. What one
  scenario leaves out is in another, and the proofs leave out nothing. With the quotes
  only one venue at a time has a message waiting, which gives Core the same sequences of
  messages; the depth scenario has both queues filled.
- *SpscQueue.* Cursors of 8 values over 4 cells: the cursors wrap twice as late as the
  cell index, as `std::size_t` does, and full and empty are met on both sides of the wrap.
- *Consolidator.* Capacity 2 reaches a push during the drain, during `HasPending`, between
  predicate and wait, and during shutdown; the supply of messages never ends, so that a
  queue can be refilled for ever. `MaxDrained` saturates
  the count of a pass, of which the code only asks whether it is zero.
- *Ingress.* Six frames are a whole connection of a venue, hello, data and end, and one more
  of the venue's next connection with two to spare for the others; three names for two slots
  meet the full registry. A queue of 3 holds a disconnect between what came before it and
  the registration that follows, and refuses data when it is full. Two slots are the least
  for which one is drained while the other waits. The run is under `OrderlySpec` for the
  sake of two of its properties; the other two hold of `IngressSpec` (section 5).
- *Sessions.* Two publications make one overwrite, two sessions make a fan-out that is
  interleaved with handlers.
- *Bands.* Four levels under a cap of 3 are truncated; two thresholds in either order or
  equal, with zero, a target in the middle of a level and one beyond the side, a bid band
  beyond the whole. Two sessions with equal or different lists hit and miss the memo, and
  publications follow one another with different books.
- *Provider.* Four events with a lag of three ids allow a snapshot older than the buffer,
  inside an event, newer than the stream, and a late answer of an earlier connection;
  `MaxPending = 2` and `MaxAttempts = 2` reach both caps. `MaxFetches` bounds requests
  and results under way, one more than one connection has at a time.

- *Feed.* Six messages are the opening state of both streams, a restart of both and two
  more: a socket may lag over the restart, open before or after it, or miss it. Two
  sockets are the least for which one is ahead of the other; `FirstId = 7` keeps the old
  numbering above every id of the new one.
- *Link.* A high-water mark of 2 refuses the second or third send of one handler, and the
  resync's own; a queue of 1 in Core overflows. One death of either side is enough to
  find the other in any state; a longer history repeats it. A buffer of 1 gives a replay of
  2 frames: either may be the refused one, with what follows sent or refused as Core reads;
  a third update makes the buffer overflow. Update 2 is the one `UpdateArrives` watches:
  it comes after the start, and nothing distinguishes it from later ones. `Small` in
  `MCLink` cuts off updates of the venue and ends of a process, which no fairness asks for:
  the behaviours that are left are fair, and complete but for those steps.
- *Depth.* Three prices give a delta that inserts, replaces and erases in front of, between
  and behind what is there, in every order; two venues share two of the prices. `Leftover`
  is the reused `BookUpdate`, empty or full. The round trip covers every message the run
  sends and every prefix of its frame.

`CHECK_DEADLOCK FALSE` is set where the modelled threads really stop: after a shutdown
(`Consolidator`, `Sessions`), after the reconnect budget is spent (`Provider`, `Feed`), and
when the venue has sent all it sends (`Link`). `Core`, `SpscQueue`, `Ingress` and `Depth`
are checked for deadlock.

## 4. Properties

- **Core.** `BookMatchesRebuild` and `BboMatchesRescan`: the persistent book and BBO are
  what a full merge or scan would give, unless one is latched. `BookIffActive`: a slot has
  books exactly while its venue is registered. `ViewSpec`: Core implements `MarketView`.
- **Queue.** `NoDataRace`: no cell is accessed by both threads. `FifoSpec`: the ring
  loses, repeats and alters nothing, also when a push is retried with the same object.
- **Threads.** `NoMissedWakeup`, `NothingLeftBehind`, `StopReturns`, and `MessagesDrained`:
  every queue is found empty or taken from again and again, unless another queue is served
  for ever and refilled for ever. That exception is real: `DrainOnce` empties a queue before
  it goes on, and `ConsolidatorStarve.cfg` shows that the capacity does not bound it.
- **Ingress.** `SlotsAreDistinct`, `CoreSpec`; and under `OrderlySpec` `BoundIffActive`
  (connections and Core agree on who is registered, once a queue is drained) and
  `NothingOfTheGone` (nothing of an earlier connection can be merged later).
- **Sessions.** `GapsAreConflation` (a gap in `seq` is an update this session's own
  channel overwrote), `NewestIsKept`, and three liveness properties.
- **Bands.** `VolumeBandsCorrect` and `PriceBandsCorrect`: what a client gets for a
  threshold is what the sums over the levels say about that threshold and the book being
  published, and what the unbatched function returns.
- **Provider.** `NoUpdateMissing` (what Core has is a prefix of the venue's history),
  `OutageIsAnnounced`, `OutageEndsRun`, `SyncEnds`.
- **Feed.** `BookIsExact`: no delta is applied to a book it does not continue. `NeverBack`:
  within one numbering no late or lagging socket takes the book back.
  `CurrentWhenDrained`: when the sockets have nothing left, book and quote are the venue's
  own, so neither filter is stuck. `ScaleIsKnown`: an OKX swap publishes nothing before its
  contract size is known. `RecoveryEnds`: a run after the last restart of the venue reaches
  the current book. That last one does not follow from the ids alone: `md_provider.cpp:80`
  says that carrying the old high-water mark over "would also work", and across a restart
  of the venue it would not (the mutant of this property).
- **Link.** `VerdictsAgree`: a refused verdict is not left standing. Where streams open with
  a snapshot, `NoHole`: a refused update is followed by a snapshot and by no delta, however
  many sends of the resync are refused too. Where a snapshot is fetched this does not hold,
  since the handler goes on after a refusal (`LinkHole.cfg`). There, and elsewhere,
  `BooksAgree`: when nothing is under way Core's book is the one the provider has emitted,
  so that a hole does not outlive its resync. `UpdateArrives`: a provider that runs gets
  into Core, whichever side started first, and so does every update of a stream that opens
  with a snapshot; an update that was buffered for a fetched snapshot is in Core's book at
  last, unless a resync threw it away.
- **Codec and Depth.** `MessagesRoundTrip`, `NothingIsMisread` (no truncated frame and no
  frame of another type is decoded). `BookIsExact`, `StateIsExact`,
  `ChangesAreTheTransition`: the vectors that are changed in place are the sorted books of
  the venues, their merge, and the difference a delta made.

Fairness, and what in the code justifies it:

- `Consolidator`: each thread that can run is scheduled (WF per thread); a buffered
  store reaches memory. Nobody has to push again or to begin a shutdown.
- `Sessions`: the consolidator finishes a fan-out it began; every handler thread is
  scheduled and a client that is connected accepts its writes; a handler that wants
  `sessions_mutex_` gets it in the end (SF, since publications take it again and again).
- `Provider`: the worker thread runs and the `io_context` runs what is ready. Two
  assumptions go beyond the code: a REST request ends (`HttpsGet` sets no timeout), and
  the read that a stopped session left outstanding ends (the peer sends or closes).
- `Feed`: the worker goes on, a connecting socket gets through or is closed, and what the
  venue sent on an open socket is read (WF). Repeats, closings, restarts and new messages
  of the venue need not happen.
- `Link`: both processes are started again when they end (`docker-compose`), a handler
  runs to its end, both threads of Core go on reading (WF); a depth message that is ready
  again and again is handled in the end, and so is the result of a fetch, which is taken to
  end as in `Provider` (SF). `UpdateArrives` also assumes `DelaySuffices`:
  if resyncs never end, the wait between two of them (`RESYNC_DELAY_MS`) lets Core read
  all that waits at least now and then. Without it Core may be too slow for ever.

## 5. Proofs

`CoreProofs`, for every set of instruments and levels and every number of venues, prices,
quantities and queue capacity:

- `TypeCorrect`, `VenuesCorrect` (`BookIffActive`): inductive as they stand with the types.
- `BookCorrect`: `TypeOK /\ BookMatchesRebuild` is inductive. The interesting step is
  `ProcessUpdateRepair`, where folding the changed levels of one slot into the merged book
  has to give the merge of the updated books (a lemma about `ApplyDepthDelta` and
  `MergeBooks`); the others either rebuild, latch a rebuild, or change nothing merged.
- `BboCorrect`: the same with `UpdateBBOSide` against `ScanBest`, from lemmas on the best
  price of a set of candidates when one of them changes; they rest on the existence of a
  best element of a finite set of prices.
- `CoreImplementsView`: `Spec => View!Spec`. The initial states agree and every step of
  `Core` is a step of `MarketView` or leaves its variables alone; for a publication this
  uses the two invariants above.

`ConsolidatorProofs`, for every number of venues, capacity, spin limit and messages:

- `TypeCorrect`.
- `WakeupNotMissed`: `NoMissedWakeup` is not inductive. `WakeInv` adds: messages are only
  in slots handed out; while the consolidator evaluates its predicate or sleeps, the
  ingress thread sees the flag (`FlagVisible`); a message in a queue that `HasPending`
  has already passed has its sender on the way to the doorbell (`PassedQueues`).
- `ShutdownDrains`: `DrainInv` adds that Core is stopped only after the ingress thread is
  gone, and that the final pass knows every slot and has emptied those behind it.

`SpscProofs`, for every capacity, every range of the cursors that is a multiple of it, any
messages and number of attempts:

- `QueueInvHolds`: the cursors are at most `Capacity` apart modulo `Wrap`, less than that
  from when the producer has found room until it publishes, and apart at all from when the
  consumer has found an item until it releases it; the message offered stays the producer's
  through every retry. `NoDataRaceHolds` follows: cursors less than a capacity apart are at
  different cells, because the capacity divides `Wrap`.
- `RingImplementsFifo`: under the same invariant, read off the cells between the cursors,
  every step is a step of `BoundedFifo` or a stutter.

`CoreProofs` about `Ingress`, for every number of connections, names and slots:

- `BindInvHolds`, `SlotsAreDistinctHolds`: names and slots are issued one to one and every
  binding is to an issued slot.
- `IngressDrivesCore`: `IngressSpec => CoreSpec`; with the theorems about `Core` it gives
  `IngressImplementsView`, what subscribers see whatever frames arrive.
- `VenueInvHolds`, and from it `BoundIffActiveHolds` and `NothingOfTheGoneHolds`, of
  `OrderlySpec`, for every number of connections of a venue, every capacity and data that
  full queues refuse. `VenueInv` is the inductive invariant: no two connections are bound to
  one slot; in the queue of a slot a registration follows exactly a disconnect, or is the
  first message of a slot that is not active; a connection is bound exactly if the last
  message is no disconnect; a slot that is not active holds no verdict and no quote.
  Neither restriction of `OrderlySpec` can be dropped: `IngressRestart.cfg` and
  `IngressLate.cfg`, and `IngressOverflow.cfg`, are the counterexamples.

`SessionsProofs`, for every number of sessions and publications:

- `TypeCorrect`, and `GapsAreConflationHolds`: the update in a handler's hands, the one in
  the channel and the counter of overwrites account for every number that was given out.
- `NewestIsKeptHolds`, for sessions of at most one feed (`SessionsFeeds.cfg` is the
  counterexample for two). `NewestInv` also follows a fan-out under way: which sessions
  it still has to serve and which number each of them is about to get.

`LinkProofs`, for every high-water mark, buffer, queue capacity, number of updates, of deaths
of the provider and of restarts of md_core:

- `TypeCorrect`; `LinkInvHolds`; `BooksAgreeHolds`; `VerdictsAgreeHolds`, without further
  hypotheses; `NoHoleHolds`, which speaks of streams that open with a snapshot, with
  `LinkHole.cfg` as the counterexample elsewhere. The constant `Opens` stands for the kind
  of the provider, of which nothing is assumed: `opened` never changes, so that `opened =
  Opens` at the start restricts nothing. `LinkInv` says what Core will hold after
  its queue, after the wire and after the frames the handler still has to send, whatever
  their number: the end is the book and the verdict the provider goes by unless a resync is
  due, and a resync that is due has been recorded as the verdict. The case that needs it is
  `RefuseFrame`, where the announcement of the resync is refused in the middle of the
  handler whose send was refused. For `NoHole` each frame fits what is there before it.

`ProviderProofs`:

- `TypeCorrect`, and `OutageIsAnnouncedHolds` for any number of redundant sockets.
  `OutageInv`: inside `ioc.run` the timer stops only when no socket and no verdict is live.
- `NoUpdateMissingHolds` for one socket (`ProviderHole.cfg` is the counterexample for two).
  `SyncInv`: the buffer is an unbroken run of the events delivered last, the next event of
  the socket follows it, and what Core has is every id up to one that is at least
  `last_depth_u_`. It holds whatever REST answers of earlier runs are still to come.

`FeedProofs`, for any number of sockets, messages, restarts and reconnections:

- `TypeCorrect`. Its invariant contains the `History` of the venue: each message continues
  the last one of its stream by the venue's step or begins again at 1, so that ids rise but
  for a restart. `ScaleIsKnownHolds` adds that there are sockets only while `ioc.run` runs.
- `BookIsExactHolds`, `NeverBackHolds`, `CurrentWhenDrainedHolds` (the last one for at least
  one socket), under `[]IdsDiffer`: no depth id is used twice, and none is `FirstId - 1`.
  `RunInv` is what makes it inductive: from the first snapshot of a run on, `last_depth_u_`
  (or `last_depth_seq_`), the mark of the filter and the id of the book's position are one
  number; before it, every open socket is to deliver a state no older than the book; and as
  long as no socket was lost there is a `Carrier`, one whose depth messages so far are all
  in the book. `QuoteInv` is the same for the quotes, while the venue has not restarted.
- `IdsDifferHolds`: a venue that does not restart, or restarts once and stays below its old
  ids, satisfies `IdsDiffer`. A second restart does not, and then the book may be wrong:
  `FeedReused.cfg`. The first run of this module had one restart, so that only the proof
  asked the question.

`DepthProofs`, for every number of venues, set of prices, quantities and updates of any
length whose levels come in any order:

- `WireCorrect`, `RoundTripCorrect` (`MessagesRoundTrip`), `MisreadingCorrect`
  (`NothingIsMisread`). `WireInv` says that what is under way is a message and its frame.
  The rest are lemmas on `Codec`: a key comes back from its 24 bits, a level from its place
  behind the header, and a frame cut short lacks a level that its counts promise.
- `BooksCorrect` (`BookIsExact`), `ChangesCorrect` (`ChangesAreTheTransition`). `BooksInv`
  is the inductive invariant: the vector of a venue is the book the venue had before the
  update under way, and the market is that book after it. `ApplySideIs` says what the walk,
  the relocation and the list of changes make of a vector and a delta: that the vector
  before the deepest price touched is left alone, that the two walks agree where it is,
  and that a walk which inserts and erases nothing has written all there is to write.
- `StateCorrect` (`StateIsExact`). `StateInv` is the inductive invariant: unless the
  consolidated vector is to be rebuilt, it consolidates what the venues' vectors hold
  (`Consolidates`), level by level and venue by venue. `ChangeApplied` says that one change
  repairs it, in each of the cases of `ApplyOneChange`; `DeltaFolded` that the changes of a
  delta, which `ChangesCorrect` knows to be all of them and each once, repair it for the
  whole delta; `MergeBooksIs` that the rebuild gives the same, its loop ending because
  every round leaves fewer levels in the books together (`SumSmaller`).
- The loops of the code are functions of the round in `Depth` (`Walk`, `Merged`,
  `MergeBooks`). Such a function is only known to exist by an induction, and what it
  computes by another. `Induct` and `Loop` are those inductions, over sets of numbers and
  of states instead of predicates; `WalkStates` and its like are the loop invariants.

Assumptions. The constants are assumed to have their types (the named `ASSUME` of each
module), not less than the code fixes them at. Three of these were missing and the proofs
asked for them: at least one update in `Link`, at least one attempt at a snapshot in
`Provider` (`kMaxSnapshotAttempts` is 5), two messages in `Feed` (its initial state has two).
Hypotheses that only some theorems need are in their statements and named above, each
with the configuration in which TLC refutes the property without it.

The proofs also changed how two definitions are written. `Continuity` in `Feed` and
`Provider` and `ClassifyFeed` in `Provider` were `CASE` expressions whose guards overlapped,
which TLC reads from the top and TLA+ leaves open; they now decide the overlap with `IF`, in
the order of the code. `Survivors` is built from the first index after the snapshot, as the
loop of `ReconcileBinanceSnapshot` finds it.

Model-checked and not proved:

- all liveness, which is out of the prover's reach: `MessagesDrained`, `StopReturns`,
  `UpdatesReachClients`, `SessionsAreReleased`, `ServerStopsWithoutClients`,
  `OutageEndsRun`, `SyncEnds`, `RecoveryEnds`, `UpdateArrives`;
- `VolumeBandsCorrect` and `PriceBandsCorrect` in `Bands`, whose walks are recursive
  operators, which the prover does not read.

## 6. Where the code and its documents disagree

A run of the project, listed under `findings`:

- `link_restart`: kHello is sent once (`md_provider_main.cpp:146`). When md_core restarts
  under a running provider, the DEALER reconnects by itself under a new identity, nothing
  says hello on it, and the ingress drops everything as data before hello until the
  provider is restarted as well. `zmq_provider_sink.cpp:29` says "a reconnect after a drop
  is a new kHello, not a resumed one"; `QuickStart.md:103` restarts the core alone.

Further configurations that are kept beside the runs, each ending in a violation:

| Configuration | Property | What it shows |
|---|---|---|
| `ConsolidatorStarve.cfg` | `PassIsBounded` | one visit of `DrainOnce` to a queue is not bounded by its capacity, as the ingress refills it; `md_core.cpp:518` says it is |
| `IngressRestart.cfg` | `BoundIffActive` | a restarted provider says hello on a new connection; the late disconnect of the old one removes the venue and nothing registers it again (`zmq_core_ingress.cpp:142`); `md_core.h:370` speaks of "the remove/re-add race avoids by tying lifetime to the connection", `DESIGN.md:712` of "accept is registration and disconnect is removal" |
| `IngressLate.cfg` | `NothingOfTheGone` | `ProcessQuote` (`md_core.cpp:625`) stores a quote of a slot that is not active; `DESIGN.md:673` says such data is dropped |
| `IngressOverflow.cfg` | `BoundIffActive` | a registration or disconnect that meets a full queue is never sent again (`zmq_core_ingress.cpp:142`, `md_core.cpp:464`) |
| `SessionsFeeds.cfg` | `NewestIsKept` | both band feeds of a session share one depth-1 channel; the price bands overwrite unread volume bands (`aggregator_service.cpp:322`, `README.md:127`) |
| `SessionsShutdown.cfg` | `ServerStops` | `Shutdown` without a deadline waits for a client that stays (`md_core_main.cpp:205`) |
| `BandsWrap.cfg` | `PriceBandsCorrect` | with a word too small for the widest threshold, `10000 + bps` of an ask band wraps and the limit lies below that of a narrower band (`consolidated_book.cpp:378`); in the code this takes a threshold above 4294957295 |
| `LinkStale.cfg` | `ResyncLeavesMerge` | the socket is full, the watchdog's kStale is refused and so is the kResyncing it escalates to; while the venue stays silent the provider believes it announced the resync and Core keeps the venue live; `zmq_provider_sink.cpp:118` escalates because "a lost kStale would leave a dead venue merged forever" |
| `LinkHole.cfg` | `HoleNotMerged` | the snapshot, or a delta, that `ReconcileSnapshot` sends is refused, and so is the kResyncing of the resync; Core reads, and the deltas the handler goes on sending (`binance_provider.cpp:155`) are applied to a book with a hole that Core merges as live until the resync is through; `md_provider.h:134` says "Announces kResyncing on both streams FIRST, before the sockets drop, so Core stops merging the known-bad book for the resync window" |
| `FeedFrozen.cfg` | `SnapshotsDecide` | a socket that subscribes after a venue restart opens with small ids, which the mark of the old numbering drops: the book is frozen until another socket carries the restart; `bybit_provider.cpp:70` says of an ordinary snapshot that "its id moves forward, so the `<=` rule decides correctly on its own" |
| `FeedQuotes.cfg` | `QuotesFollow` | the quote filter has no reset, so that after a venue restart quotes are dropped until their ids pass the old mark; `md_provider.h:243` says "No reset flag: these streams push stateless top-of-book quotes" |
| `FeedTwice.cfg` | `RestartTakenOnce` | a socket that lags behind a restart delivers its copy when the mark has moved on, and the restart's snapshot is applied a second time; `seq_dedup.cpp:16` says the other copies "are caught by `id == last_`" |
| `FeedReused.cfg` | `BookIsExact` | a venue that restarts twice uses the ids of the first numbering again; a lagging socket's message of that numbering then continues the book of the second by its id, and the delta is applied to a book it does not belong to. Ids are all that `CheckBybitContinuity` compares (`continuity.cpp:5`) |
| `ProviderOld.cfg` | `NothingOld` | events that the snapshot contains are emitted after it (only `kGap` is tested, `binance_provider.cpp:269`) and overwrite newer quantities until the stream catches up; `continuity.cpp:59` says "They are already reflected in the book - drop them" |
| `ProviderResync.cfg` | `ResyncEndsSynced` | the first event after a resync promotes the venue to live although it is only buffered, and Core merges the book found wrong until the REST snapshot is in (`md_provider.h:284`); `md_provider.h:134` says "so Core stops merging the known-bad book for the resync window" |
| `ProviderHole.cfg` | `NoUpdateMissing` | with two sockets, one closing and one connecting late, the buffered events have a hole that `ReconcileSnapshot` replays without a continuity check (`binance_provider.cpp:155`); `DESIGN.md:154` says that continuity is asserted on every message |
| `ProviderReconnect.cfg` | `ConnectionNeverClears` | a tick after a reconnection finds the old stamp fresh and clears `kDisconnected` before anything was heard (`md_provider.cpp:240`, `venue_health.h:152`) |

Smaller divergences met while reading, without a run: `wire_codec.h:38` says that
`DecodeHello` is false on "a venue_name that didn't fit", but `EncodeHello` cuts the name
silently and the decoder cannot tell; `wire_format.h:38` says that `wire_version` "is
checked once, at kHello", but `HandlePayload` never looks at it; the reconnect budget
(`md_provider.cpp:145`) is never refilled.

`NoMissedWakeup` is stated for `storeBuffer = FALSE` only. With a store buffer it fails:
the push and the re-check may each miss the other's store, and the message waits for the
timeout, which `MessagesDrained` shows to be enough with its one exception. The comment at `md_core.cpp:184`
claims the stronger property.

## 7. Not modelled

- JSON and decimal parsing: text processing. What the Bybit and OKX parsers decide about a
  message is `Feed.Parsed`.
- Configuration, instrument registry, process wiring, root certificates: loaded once,
  sequential or data.
- Clients, logging, latency recording, benchmarks: no effect on the data path; a client
  appears in `Sessions` as the one that cancels or stays.
- Wire translation: a table from slot to protobuf venue, used on one thread.
- Counters and reports of `Core` and of the sink; the telemetry of `SeqDedup`.
- `Provider::Stop`: it sets a flag and stops the `io_context`, and the process ends; in
  `Link` this is `Shutdown`.
- `ConflatedChannel::Close`: no caller. `SpscQueue` size hints: not used for decisions.
- Quotes in `Link`: a refused quote is dropped and the next one replaces it whole.
- In `Link`, a REST snapshot that is newer than the stream, too old for the buffer or of an
  earlier run: `Provider` is about these, with a socket to Core that refuses nothing.
- In `Link`, arrival for Binance beyond what `UpdateArrives` says of a resync: up to 2000 buffered events go through a
  high-water mark of 256, so that a replay may be refused again and again, and a snapshot is
  requested only when the venue sends an event.

## 8. What is left

Every safety property of `Core`, `SpscQueue`, `Consolidator`, `Ingress`, `Sessions`, `Link`,
`Feed`, `Provider` and `Depth` is proved. Left to do:

- `Bands` with its walks as functions of the round, as in `Depth`, and then its properties.
- `NoUpdateMissing` is proved for one Binance socket. A weaker hypothesis, redundant sockets
  whose deliveries leave no hole in the buffer, would cover the redundant case that works.
- `BooksAgree` speaks of moments at which nothing is under way. How long Core may merge a
  book with a hole before that (`LinkHole.cfg`) is bounded by nothing in the code.

## 9. Running

In `tla/`: `tlc -workers 2 -config Consolidator.cfg Consolidator` and likewise for the
other configurations, with the module that `PROJECT.json` names; `tlapm CoreProofs.tla` and
likewise for the other seven `*Proofs` modules, each of which takes less than five minutes
but for `DepthProofs`, which takes eight.
Every configuration finishes within a few minutes.
