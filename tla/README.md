# TLA+ model of the signals service

`signals` follows an OHLC service over a WebSocket, folds every closed candle of
a series into EMA and market reducers, commits the result to PostgreSQL and
delivers it to JetStream and to WebSocket clients. This directory models the
service from the socket it reads to the chart a viewer draws, checks the modules
with TLC and proves the central safety properties of lane, outbox, dispatcher,
hub and input path with TLAPS.

## The system and its parts

| part | code | here |
|---|---|---|
| OHLC client: one connection for all series | `internal/input/ohlc.go` | `Ingest` |
| lane registry, readiness | `internal/engine/registry.go`, `api/server.go`, `monitor/metrics.go` | `Ingest` |
| indicator lane: one actor per series, commands seed, closed, forming | `internal/engine/lane.go` | `Lane` |
| EMA and market reducers | `internal/indicator/ema.go`, `market_reducer.go` | `Indicators`; in `Lane` by the bars they folded |
| market analysis | `internal/indicator/market.go` | `Candles`, `Zones`, `Structure` |
| series store: cursor, snapshots, points, outbox | `internal/store/postgres.go` | `SeriesStore`; outbox order and reads in `Delivery`, `Hub`, `Protocol` |
| in-memory store | `internal/store/memory.go` | same transactions as PostgreSQL, not modelled again |
| outbox dispatcher | `internal/outbox/dispatcher.go` | `Delivery`, seen from the hub in `Hub` |
| JetStream publisher, coalescing of live frames | `internal/broker/jetstream.go` | `Delivery` |
| process wiring: startup barrier, retry loop | `cmd/signald/main.go` | `Delivery`, `Ingest` |
| WebSocket hub, handler and writer | `internal/api/hub.go`, `server.go` | `Hub`, `Protocol` |
| wire contract: ids, hashes, cursors, filters | `internal/api/contract.go`, `hub.go`, `server.go` | `Protocol` |

A closed bar travels like this. The OHLC client reads it, puts it into the
mailbox of its lane and waits for the reply. The lane checks that it is the next
bar, folds it into copies of its reducers, commits points, outbox rows, cursor
and now and then snapshots in one transaction, publishes the market frame live,
and installs the copies. The dispatcher polls the outbox, publishes each row to
the evaluation stream, the facts stream and the hub, and marks the batch. The
hub hands rows to its clients; a new client first gets a snapshot of the lanes'
memory and recent points, a returning one a replay from the outbox table.

## Modules

**`Bars`** candles of a series. A bar is a time, counted in timeframe steps, and
a content that stands for prices, volume and trade count. A history is a set of
bars.

**`SeriesStore`** what PostgreSQL holds for a series and the transactions
`CommitClosed` and `RebuildSeries` as functions on it. A reducer is the number of
bars folded and their set, which determines its floating-point state; points and
outbox rows carry the set they were computed from. Event ids are the tuples that
the code hashes.

**`Lane`** the lane's memory (`lane`), the command in progress (`op`), the store
(`db`), the connection (`conn`) and the OHLC service (`clock`, `ohlc`; external).
A command is split where a crash or an error can fall: after each transaction and
before each installation. A store error leaves open whether the transaction took
effect.

| action | code |
|---|---|
| `Seed` / `ApplySeed` | `applySeed`, `seedConflictsWithHistory`, `restoreRecoverySeed` |
| `ReceiveClosed`, `CatchUp` / `ApplyClosed` | `applyClosed`, `applyCatchUpSeed` |
| `Install` | the assignments under `l.mu` after a commit or a rebuild |
| `Rebuild` | `rebuildSeed` up to the end of `RebuildSeries` |
| `ApplyForming` | `applyForming` |
| `Connect`, `Disconnect`, `Start`, `Crash` | the OHLC client's loop and the process |
| `CloseBar`, `Repair` | the OHLC service |

**`Journal`** what a lane promises, abstractly: two positions in a series, the
store's and memory's; the store is written first and only forward, memory
follows. `Lane!ImplementsJournal` maps `db.cursor` and `lane.last` to them.

**`Ingest`** the way from the socket to the lanes, for several series on one
connection: `Dial`, `Subscribe` (one series after the other, bars of the first
already arriving), `Read` (a message becomes a command in a mailbox), `Apply`
(the lane answers; while the broker is down a lane with a new bar does not,
since `evaluationBrokerPublisher` retries inside it, and the reader of all series
waits), `Resume` (next message, or hang up), `Backoff`; the startup barrier and
the outbox poll, whose `Flush` needs the broker only if rows are pending; and
`/readyz`, which reads the store, the lanes and two flags one
after the other (`Ping`, `LookAtLane`, `LookAtUpstream`, `Answer`) while all of
them change. A lane is the number of bars it applied.

**`Candles`, `Zones`, `Structure`** the pure functions of `EvaluateMarket`, one
operator per function of `market.go`. Prices are whole ticks and ratios are
compared by cross multiplication, so the arithmetic is exact. **`Indicators`**
puts them together with the EMA recurrence (fractions) into the two reducers and
drives these as a lane does: `ApplyClosed` on clones, checkpoint every so many
bars, `Restart` from the checkpoint, `Upgrade` to a new market version, `Correct`
with a rebuild. A consumer applies the transitions of the frames.

**`Delivery`** from a bar's commit to its consumers, for several lanes: the outbox
with its serial cursors and the advisory lock, the live publish with its retry
loop and coalescing, the dispatcher call by call, the broker's two streams
(external: duplicate window, rollup), the startup barrier. Lanes are independent
actors. In the present process one OHLC reader feeds all of them and waits for
each command, which allows a subset of the interleavings checked. The
dispatcher's batch is the set of its rows, of which it always handles the one
with the lowest cursor; a frame that a rollup replaces stays in the stream as a
`Purged` message, so that positions do not shift. Reset frames take the same path
as confirmed ones and are left out.

**`Hub`** one WebSocket client from subscription to reconnection, with buffers
and their limits, the lane's memory that a snapshot shows, and the dispatcher as
the hub sees it: rows in cursor order, a failed batch again from its start.
`NothingSkipped` and `VisibleInOrder` of `Delivery` justify that view. The sort
in `activate` is the set of its possible results (`ByCursor`): events with the
same cursor may come out in any order. `waived` is a history variable, no state
of the code.

**`Feed`** what the protocol promises a viewer, abstractly: a position in the log
that only moves forward, and past nothing but what was received or waived. A
viewer with a cursor waives what lies before it; one without waives what was
published before it subscribed, which is the snapshot's business
(`SnapshotAndStreamMeet`). `Hub!ImplementsFeed` maps the matching rows, the
viewer's last cursor and what it received.

**`Protocol`** the contents of what `Hub` transports: how rows and lane memory
become analysis events, their identity (what `analysisEventID` hashes), which of
them a subscription selects, and a consumer that follows the algorithm of
docs/protocol-v1.md.

**`LaneProofs`, `LaneHistoryProofs`, `LaneWindowProofs`, `DeliveryProofs`,
`DispatchProofs`, `CandleProofs`, `HubProofs`, `IngestProofs`** the theorems.
**`MCLane`, `MCDelivery`, `MCHub`, `MCIngest`, `MCIndicators`, `MCProtocol`** the
instances for TLC. Definitions marked "Mutant" in a comment are deliberate
errors; each shows that a property notices it.

## Runs

| run | what it shows | states |
|---|---|---|
| `lane_safety` | two crashes, two store failures, two late bars: memory behind store, cursor monotone, commits contiguous, no bar folded twice, projections fresh, `Journal` implemented, and the lane catches up and stays caught up; also the inductive invariant `LaneInv` | 140 thousand |
| `lane_recovery` | two crashes, configuration changes, invalid bars, empty seeds: every EMA has folded an unbroken run of OHLC bars up to the lane's last one, and no stored point of a period is stale | 650 thousand |
| `lane_authority` | two corrections, of values or by inserted bars: reducers, window and points follow them, and the lane catches up | 261 thousand |
| `delivery_order` | two lanes: rows visible in cursor order, complete only when stored by the broker and handed to the hub, no cursor skipped, confirmation before next candle; also the inductive invariant `OutboxInv` | 456 thousand |
| `delivery_live` | colour changes survive coalescing and failures; the outbox drains | 384 thousand |
| `hub_resume` | `Feed` implemented, snapshot and stream meet, activation fits, everything due arrives | 296 thousand |
| `market` | transitions and occurrences tell consumers the whole state, swings alternate, breaks are in the order of their bars and the last one gives the trend, the EMA is the weighted mean, a restart keeps all facts | 8 thousand |
| `ingest` | nothing lost or skipped on the way to a lane, readiness earned, recovery from every fault; also the inductive invariants `IngestInv` and `BarsAscend` | 492 thousand |
| `protocol` | a consumer of overlapping phases ends with the committed chart | 1.5 million |
| `lane_restart`, `lane_reset`, `protocol_ids` | counterexamples, see below | |

### Bounds

Lane: three bars with windows and checkpoints of two make the window slide and
put the newest bar before, on and after a checkpoint; two EMA periods give a
ready and an unready reducer; a bar that the service inserts later, and in
`lane_authority` a second content, give a correction. The largest trade
count is used in `lane_authority`, where a revision saturates. A seed lags by at
most one bar, enough to end before the cursor. Crashes are bounded by two and
faults by one or two, which puts them at every pair of points; they are the ones that matter because every recovery path
starts from the store alone. `lane_authority` allows no fault: an initial rebuild
whose acknowledgement is lost, followed by a correction, is the `lane_restart`
case without a crash.

Delivery: batches of one or two rows make `Flush` loop and cross a bar's two
rows; a candle has one or two trades, so that its first frame, a repetition and
a colour change occur. Hub: a buffer and page of two against three rows overflow
the buffer before and after activation and need several pages; a batch of three
can fail in its middle with a viewer subscribing before and after, and two faults
let a batch be sent again across a lost connection.

Ingest: two series, so that one fails or is subscribed while the other has
messages under way; two bars and a warm-up of two, so that a lane is ready only
after bars from both sides of a reconnection can be needed; one fault and one
outage at any point. What holds for more follows from the theorems.

Market: seven histories (a first bar, a young one, and five that end two bars
before an invalidated order block, a liquidity sweep, a change of character, three
soldiers and a second confirmed break) are extended by every sequence of two candles out of six shapes, with
one correction or restart and one upgrade anywhere; limits and lookbacks are
scaled down to the length of the histories so that caps and windows bite. EMA
periods of one and three put the switch from average to recurrence before, on and
after a restore.

Protocol: three bars, two periods, a history of one point, one batch sent again
or one lost connection; subscriptions to everything and to one EMA by its hash,
the latter with provisional values, and in `protocol_ids` to the market alone. Trades per bar and filters are fixed.

### Fairness

`lane_safety`, `lane_authority`: the process starts again, the client reconnects
for ever (`OHLCClient.Run`) and the lane's goroutine runs: one of them acts as long
as there is something to do. The OHLC service may answer with a seed that lags,
but not each time it is asked (strong fairness of a seed without lag). `delivery_live`: the
supervisor restarts the process, the dispatcher's ticker fires, a transaction
ends and a publish returns. `hub_resume`: dispatcher, handler and writer run and
the viewer reads and reconnects. `ingest`: outages end, the supervisor restarts
the process, client, lanes and dispatcher run, somebody polls `/readyz`. Nothing
makes bars close, trades happen or failures occur. Failures are finite in
number; the code promises nothing under an unending outage.

### Disagreements found

- `lane_restart`: the incident report says OHLC seeds are authoritative at
  startup too. A restart compares only the bar at the cursor, so a correction
  behind it that the lane had not seen before it went down is not noticed.
- `lane_reset`: a correction emits a reset with the corrected baseline. The
  reset's id depends only on the last bar, so a second correction behind the
  same last bar keeps the first one's payload.
- `protocol_ids`: the protocol promises one id per analytical occurrence in
  snapshot, history, replay and live delivery (docs/protocol-v1.md:67-69). With a
  subscription to `smc.market_state` alone `filteredSnapshots` removes the EMAs
  before `snapshotAnalysisEvents` hashes the periods it finds, so the snapshot's
  market event has another config hash and id than the same event live or
  replayed, and no `ema_<period>` outputs. For the same reason a pin of the
  catalog's hash matches the snapshot and never a live event.

## Proofs

For all values of the constants that satisfy the named assumptions
(`BarsAssumption`, `StoreAssumption`, `LaneAssumption`, `DeliveryAssumption`,
`HubAssumption`, `IngestAssumption`):

| theorem | statement |
|---|---|
| `LaneInvariant` | `Spec => []LaneInv` |
| `TypeCorrect` | `Spec => []TypeOK` |
| `MemoryFollowsStore` | `Spec => []MemoryNeverAheadOfStore` |
| `CursorMonotonic` | `Spec => CursorNeverMovesBack` |
| `CommitsContiguous` | `Spec => CommitsAreContiguous`, when the OHLC service never sends an empty seed |
| `LaneImplementsJournal` | `Spec => ImplementsJournal` |
| `ProjectionsAreCurrent` | `Spec => []ProjectionFollowsReducers` |
| `CountsAlwaysAgree` | `Spec => []CountsAgree` |
| `RecoveryExact` | `Spec => [](spent.repairs = 0 => RecoveryIsExact)` |
| `OneHistoryUnlessRestored` | `Spec /\ []NothingToRestore => []OneHistory`, when seeds are not empty and at least as long as the window |
| `OneHistoryHolds` | `Spec => []OneHistory`, under the same conditions, without crashes and faults |
| `OutboxInvariant`, `RowsInvariant` | `Spec => []OutboxInv`, `Spec => []RowsInv` |
| `RowsVisibleInOrder` | `Spec => VisibleInOrder` |
| `CompletedRowsDelivered` | `Spec => CompletedRowsAreDelivered` |
| `NoRowSkipped` | `Spec => []NothingSkipped` |
| `TransitionsLossless` | `Spec => []TransitionsAreLossless` |
| `CandleOrder` | `Spec => []ConfirmedPrecedesNextCandle`, when commits are not ambiguous |
| `HubTypes` | `Spec => []TypeOK` |
| `HubImplementsFeed` | `Spec => ImplementsFeed` |
| `ActivationAlwaysFits` | `Spec => ActivationFits` |
| `SnapshotMeetsStream` | `Spec => []SnapshotAndStreamMeet` |
| `PathInvariant` | `Spec => []IngestInv` |
| `NoGapEver` | `Spec => []NoGapReachesALane` |
| `ReadyIsAlwaysEarned` | `Spec => []ReadyIsEarned` |
| `BarsAlwaysAscend` | `Spec => []BarsAscend` |
| `NothingEverLost` | `Spec => []NothingLost` |

**Lane.** `MemoryNeverAheadOfStore` is not inductive: an installation takes its
state from `op.next`, a catch-up reads `lane.last`, a rebuild takes the last bar
of a seed. `LaneInv` adds that what is about to be installed is already durable
(`PendingIsDurable`), that histories are finite and not in the future, so that
`Latest` and `Earliest` exist (`HistoriesBounded`), and that without empty seeds
a lane without a bar means a store without a cursor (`SeededFromStore`). The last
one carries the contiguity theorem: the gap check is skipped only by a lane that
has no bar. The proof has a lemma per action; its first lemmas supply the
types of the store transactions and the facts that a finite set of bars has a
latest and an earliest member. The refinement needs one conjunct more,
`InstallsForward`: what a command installs is not older than what memory holds;
then every step is a write, a follow, a loss of memory or a stutter.

**What a lane has folded** (`LaneHistoryProofs`, `LaneWindowProofs`). Each property needs the same
fact about every place a reducer can be: memory, the memory a command is about
to install, the snapshots. `CountInv` says of all three that samples, count and
the number of bars agree and no bar is later than the one memory, or the
snapshot, stands on; the next bar, which the gap check lets in only if it is
later, is then a new one. `HistoryInv` adds that seeds, snapshots and EMAs hold
every OHLC bar between any two of theirs, and that the service has one bar per
time. A correction rewrites history under all of them, so `RecoveryExact` speaks
of behaviours up to the first one, which is the case `RecoveryIsExact` is checked
for. `ProjectionInv` only adds that a memory about to be installed projects
nothing.

`OneHistory` is about behaviours with corrections, where nothing in memory need
be a bar of the service while the connection is down. `WindowInv` therefore says
of every window only that it is the end of what the EMAs have folded, has one bar
per time and at most `HistoryLimit` bars, and stands at times for which the service
has a bar, of whatever value: a correction replaces a bar, it never removes one
(`WindowsDated`). While the connection stands, which a correction ends, more is
true (`SeedFollowed`): a lane that catches up agrees with its seed wherever the two
overlap, since `seedConflictsWithHistory` found no difference, and a lane that is
idle is exact. The step from the first to the second is a counting argument
(`AgreedIsExact`): at the end of the catch-up the whole seed is in the window; a bar
of the window older than the seed would make it longer than `HistoryLimit`, unless
the seed is all the service has, and then that bar's time has none. The argument
needs seeds at least as long as the window, which is the default (500 and 500). A
restore from a checkpoint compares one bar only and breaks it, so the theorem is
about behaviours in which an idle lane without a bar has a store without a cursor
(`NothingToRestore`); `NeverRestores` shows that these are all behaviours without
crashes and faults, the ones `lane_authority` explores.

**Outbox.** A row becomes visible at the commit of its transaction, long after
its cursor was drawn. `OutboxInv` says why this never shows: rows of an open
transaction belong to the holder of the advisory lock and have the highest
cursors, and a lane in a transaction holds the lock. A commit can then only
reveal rows above all visible ones. `RowsInv` relates rows and lanes: the frames
of a series enter the outbox in bar order, every durable bar has one, and a lane
stands on the durable bar of its series but for the command it is in.

**Streams and dispatcher** (`DispatchProofs`, `CandleProofs`). Two things can go wrong with a row:
Flush could take a publish for done that was not, and a duplicate window could
swallow a frame. `DispatchInv` says what each point of Flush has achieved: the
rows of the batch that are no longer to do are stored, are in the hub and precede
those that are (with none left to do this is what `Mark` needs), and every durable row below the batch is in it or marked. `StreamInv` says why an
id in the window never stands for another frame: it belongs to a trade that has
happened, or to the confirmed frame that is on the stream already. The two are
proved together, since each step of one relies on the other.
`TransitionsAreLossless` needs what is in flight: `TransitionInv` relates the
candle in memory, the frame being published, the last one acknowledged and the
newest provisional one on the stream; a rollup purges older ones only.
`ConfirmedPrecedesNextCandle` needs `OrderInv`: a running lane has all its bars
confirmed on the stream, because it published them itself or because the startup
flush ends only with a batch that is not full and leaves nothing durable behind.
An ambiguous commit breaks the first part, as described below.

**Hub** (`HubProofs`). The refinement of `Feed` hinges on what is under way.
Before activation (`WaitingInv`) the viewer has everything up to the handler's
cursor, and of what the hub offered after it, what was kept aside has no hole;
after activation (`ActiveInv`) the buffer holds, in order, everything between the
viewer's position and `lastCursor`, and an open client has been given all that
was offered. A failed batch starts over below `lastCursor`, where `enqueue`
ignores it, or fills up what pending already has, which the sort puts in order.
Closing a client drops the promise about offers, not the one about the buffer,
which the writer still drains. `SnapshotInv` adds that memory is at most one
matching row behind the outbox, since a lane installs a bar before it commits the
next.

**Ingest.** `NoGapReachesALane` speaks of the command in the mailbox, which came
from the queue, which was filled on subscription. `IngestInv` follows that path:
for every message of the queue, the bar before it is applied, in the mailbox or
further ahead in the queue (`InOrder`); a subscription covers the newest bar
unless a failure is about to hang up (`SubscriptionsOK`); a seed is the first
message of its series and not older than the lane; what the readiness handler
has found stays true, because no lane ever loses bars while the process lives
(`ProbeOK`). A reconnection preserves it because hanging up empties the queue and
a new subscription begins with a seed; the distinctness of the configured series
is what makes a subscription happen once.

`NothingLost` says more than that the newest bar is somewhere on the path: nothing
of its series comes behind it. `IngestInv` alone would allow a repeated or an older
bar further back, so `BarsAscend` is proved on top of it, relative to `IngestInv`:
the bars of a series are strictly ascending in the queue, beyond the command in the
mailbox, and all but a seed beyond the lane. A lane applies at most its command
(`OutcomeOf`), so the queue stays ahead of it even when a seed fails half way. The
holder of the newest bar that `SubscriptionsOK` promises is then the last one.

Only model-checked:

- the liveness properties: fairness and `ENABLED` are outside the prover's reach;
- `Indicators` and its detectors, and `Protocol`, whose properties are about what
  recursive definitions compute, which needs induction over data;
- `OneHistory` has no theorem for behaviours with a restore, where it does not hold
  (`lane_restart` is its counterexample);
- `PointsNeverStale` and `PointsMatchReducers`: they are not invariants for every
  bound. With two faults and no crash TLC refutes them: a store error
  during the catch-up of a reconnection makes `applySeed` rebuild (lane.go:193),
  the rebuild takes effect but reports an error too, and the next seed lets
  memory catch up with its longer EMA history, to which the points of the rebuild
  do not belong. They hold up to one fault, which is what the runs check
  (`MaxFaults = 2` in `lane_recovery` shows the case).

## Known deviations and limits of the properties

Seen while modelling, without a run of their own:

- After a commit that took effect but reported an error the retry publishes
  nothing live, and the next candle can come before the confirmation, which the
  dispatcher publishes later; lane.go:556 says that the live stream is in lane
  order. `ConfirmedPrecedesNextCandle` is checked without ambiguous commits and
  fails with them (`AmbiguousCommits = TRUE` in `delivery_order`).
- `activate` removes only cursors the replay covered; a batch sent again during
  start-up reaches the client twice. Delivery is at least once, and `Feed` and
  `ChartIsComplete` count a repetition as nothing.
- A viewer without a cursor that subscribes in the middle of a batch which then
  fails can be given the batch's rows with a hole: the rest of the batch is kept
  aside, the retry adds the first rows again, and activation in the middle of the
  retry sends what is there and moves `lastCursor` past the others
  (hub.go:72-141; three rows of a batch are enough). All rows of the hole were
  published before it subscribed, so they are in its snapshot, and a viewer with
  a cursor has them from the replay. `Feed` therefore promises a viewer without a
  cursor only what is published after it subscribed.
- Such a viewer can miss the one event that was dispatched before it
  subscribed and not yet installed when its snapshot was taken;
  `SnapshotAndStreamMeet` allows exactly that one. The history batch contains its
  points, so charts are complete (`ChartIsComplete`); the market frame is
  superseded by the next.
- After a restart the served market state has no `pattern_occurrences` and
  `zone_transitions` until the next close, under the id it had with them;
  `RestartKeepsFacts` speaks of the other fields.
- In `evaluateBreakout` the rules for two marubozus, for a big and a small bar
  and for the pause window never decide anything the general rule does not.
- Swings are recomputed over the window at every bar, and the ATR starts anew with
  its first bar, so as the window slides an old swing may move. Consumers keep only
  the latest snapshot of structured outputs (docs/protocol-v1.md:236).
- Readiness after a reconnection rests on memory from before it
  (`SetConnected(true)` precedes the seeds); `ReadyIsEarned` claims warm reducers,
  not fresh ones. The error of a lane's last command is not part of readiness.

Limits:

- With empty seeds a restarted lane rebuilds from nothing, has no bar while the
  store has a cursor, and commits the next bar without a gap check;
  `CommitsAreContiguous` is checked and proved without empty seeds.
- An empty reconnect seed hides a correction; `OneHistory` is checked and proved
  without.
- `SIGNALD_SEED_BARS` may be set below the 500 bars of the market window. A
  correction older than the seed is then not compared with the window and
  stays unnoticed: with `SeedBars = 1` in `lane_authority` TLC refutes `OneHistory`.
- A bar inserted before the first bar of a lane's window is not a conflict
  (`seedConflictsWithHistory` looks at the overlap); `OneHistory` speaks of the
  window from its first bar on.
- A period dropped at one restart and added back at another leaves a hole in its
  points; `PointsMatchReducers` is checked under one configuration,
  `PointsNeverStale` over changes.
- A provisional frame whose trade count exceeds the closed one by one has the
  event id of the confirmed frame; `Delivery` and `Protocol` keep trade counts
  consistent.
- `Ingest` leaves the forming bars out and lets a lane fail only through the
  store; what a lane computes, and the corrections it rebuilds from, are in `Lane`.
- `Protocol` has one series and buffers that never fill; `Hub` has the buffers.
  Corrections and resets are not in `Hub` and `Protocol`.

## Not modelled

- `internal/config`: parsing of environment variables, read once. What it
  guarantees is assumed by name: distinct series (`IngestAssumption`), distinct
  positive periods.
- `internal/store/memory.go`: the same transactions without failures. It differs
  in one point: a rebuild always appends its reset, where PostgreSQL keeps an
  existing row with the same id.
- `Migrate`, and the market state table, which is written and never read.
- REST handlers other than `/readyz` (they only read), authentication, CORS,
  request limits and timeouts, graceful shutdown.
- The conversion of market facts into drawing primitives (`contract.go`), text
  formats, metrics counters, JetStream subjects and stream configuration.
- Floating point: rounding in EMA values and in comparisons of ratios is out of
  reach of TLC and TLAPS; the modules compute exactly.
- Ping frames and the missing read deadline on the OHLC socket: a connection that
  is dead without an error is indistinguishable here from a quiet market.
