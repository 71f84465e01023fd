-------------------------------- MODULE Lane --------------------------------
(***************************************************************************)
(* One indicator lane: the actor that folds the closed bars of one series  *)
(* into its EMA and market reducers, commits every fold to the store and   *)
(* only then installs it in memory.  Around it stand the OHLC service it   *)
(* follows (external), the WebSocket client that feeds it, and crashes and *)
(* store failures.  A command runs in steps, one per store transaction or  *)
(* memory installation, so that a crash or a lost acknowledgement can fall *)
(* between any two of them.                                                *)
(***************************************************************************)
EXTENDS SeriesStore

CONSTANTS
  Configs,        \* configurations the process may be started with
  HistoryLimit,   \* marketHistoryLimit, 500 in the code
  SnapshotEvery,  \* closed bars between two checkpoints
  SeedBars,       \* bars a subscription asks the OHLC service for
  EmptySeeds,     \* may the OHLC service answer with no closed bar?
  MaxTime,        \* bound: bars that close
  MaxLag,         \* bound: bars by which a seed may trail the OHLC clock
  MaxCrashes,     \* bound: process crashes
  MaxFaults,      \* bound: store failures and dropped connections
  MaxRepairs      \* bound: authoritative OHLC corrections

ASSUME LaneAssumption ==
  /\ Configs \subseteq Config
  /\ {HistoryLimit, SnapshotEvery, SeedBars} \subseteq Nat \ {0}
  /\ {MaxTime, MaxLag, MaxCrashes, MaxFaults, MaxRepairs} \subseteq Nat
  /\ EmptySeeds \in BOOLEAN

VARIABLES
  clock,  \* OHLC service: number of periods that have elapsed
  ohlc,   \* OHLC service: its authoritative closed bars
  conn,   \* the client: "off", "down", "await" (subscribed), "live" (seeded)
  cfg,    \* configuration of the running process
  lane,   \* the lane's memory
  op,     \* the command the lane is executing
  db,     \* the durable store
  spent   \* crashes, faults and repairs so far

vars == <<clock, ohlc, conn, cfg, lane, op, db, spent>>

environment == <<clock, ohlc>>

-----------------------------------------------------------------------------
(* The lane's memory and the reducers.                                     *)

EmptyReducer == [samples |-> 0, bars |-> {}]

\* provisional, while no candle is forming.
Unprojected == [p \in {} |-> EmptyReducer]

Fresh(c) ==
  [ema |-> [p \in c.periods |-> EmptyReducer], market |-> EmptyReducer,
   last |-> None, count |-> 0, forming |-> None, projected |-> Unprojected]

Ready(p, r) == r.samples >= p

\* EMA.OnClosed, and EMA.Project on a copy.
Fold(r, bar) == [samples |-> r.samples + 1, bars |-> r.bars \cup {bar}]

\* Market.OnClosed: only the last HistoryLimit bars are kept.
FoldMarket(m, bar) ==
  [samples |-> m.samples + 1, bars |-> Recent(m.bars \cup {bar}, HistoryLimit)]

\* Mutant: the forming candle outlives its close.
AdvanceKeepingForming(m, bar) ==
  [m EXCEPT !.ema = [p \in DOMAIN m.ema |-> Fold(m.ema[p], bar)],
            !.market = FoldMarket(m.market, bar), !.last = bar, !.count = @ + 1]

\* The memory applyClosed computes and later installs.
Advance(m, bar) ==
  [ema |-> [p \in DOMAIN m.ema |-> Fold(m.ema[p], bar)],
   market |-> FoldMarket(m.market, bar),
   last |-> bar, count |-> m.count + 1, forming |-> None, projected |-> Unprojected]

\* Fresh reducers after replaying a whole seed.
Replay(c, S) ==
  LET all == [samples |-> Cardinality(S), bars |-> S] IN
  [ema |-> [p \in c.periods |-> all],
   market |-> [all EXCEPT !.bars = Recent(S, HistoryLimit)],
   last |-> IF S = {} THEN None ELSE Latest(S),
   count |-> Cardinality(S), forming |-> None, projected |-> Unprojected]

PointAt(p, r, bar) ==
  [period |-> p, t |-> bar.t, rev |-> RevisionForBar(bar),
   samples |-> r.samples, basis |-> r.bars]

\* The EMA events of the bar just folded: one per ready period.
PointsOf(m, bar) ==
  {PointAt(p, m.ema[p], bar) : p \in {q \in DOMAIN m.ema : Ready(q, m.ema[q])}}

\* The EMA events of a replay: one per ready period and bar of the seed.
PointsOfReplay(c, S) ==
  UNION {PointsOf(Replay(c, UpTo(S, b.t)), b) : b \in S}

FrameOf(kind, c, m, bar) ==
  [kind |-> kind, periods |-> c.periods, market |-> c.market,
   t |-> bar.t, rev |-> RevisionForBar(bar), basis |-> m.market.bars]

-----------------------------------------------------------------------------
(* Commands in progress.  rebuild tells what a failing catch-up does next, *)
(* and for a rebuild whether it announces a reset.                         *)

Idle == [pc |-> "idle", seed |-> {}, rebuild |-> FALSE, next |-> None]

CatchingUp(S, rebuild) ==
  [pc |-> "catchup", seed |-> S, rebuild |-> rebuild, next |-> None]

Rebuilding(S, reset) ==
  [pc |-> "rebuild", seed |-> S, rebuild |-> reset, next |-> None]

Installing(m) == [op EXCEPT !.pc = "install", !.next = m]

\* The command returns an error; the client gives up the connection.
Fail ==
  /\ op' = Idle
  /\ conn' = "down"

\* Mutant: a failed reconnect catch-up is only reported.
FailBarOnly == Fail

\* A failing bar: applySeed turns a failed reconnect catch-up into a rebuild.
FailBar ==
  IF op.rebuild THEN op' = Rebuilding(op.seed, TRUE) /\ UNCHANGED conn ELSE Fail

Spend(what, limit) ==
  /\ spent[what] < limit
  /\ spent' = [spent EXCEPT ![what] = @ + 1]

-----------------------------------------------------------------------------
(* The OHLC service and the connection to it.                              *)

\* A period elapses; its bar is recorded, or the service misses it.
CloseBar ==
  /\ clock < MaxTime
  /\ clock' = clock + 1
  /\ \/ ohlc' = ohlc
     \/ \E v \in Values : ohlc' = ohlc \cup {[t |-> clock + 1, v |-> v]}
  /\ UNCHANGED <<conn, cfg, lane, op, db, spent>>

\* An authoritative repair corrects or inserts a bar, and the invalidation
\* closes the upstream WebSocket.
Repair ==
  /\ Spend("repairs", MaxRepairs)
  /\ \E t \in 1..clock, v \in Values :
       /\ [t |-> t, v |-> v] \notin ohlc
       /\ ohlc' = (ohlc \ At(ohlc, t)) \cup {[t |-> t, v |-> v]}
  /\ conn' = IF conn = "off" THEN "off" ELSE "down"
  /\ UNCHANGED <<clock, cfg, lane, op, db>>

\* Seeds the service may send: its last SeedBars bars, up to MaxLag bars late.
Seeds ==
  {S \in {Recent(UpTo(ohlc, clock - lag), SeedBars) : lag \in 0..MaxLag} \cup {{}} :
     S = {} => EmptySeeds \/ ohlc = {}}

Connect ==
  /\ conn = "down" /\ op = Idle
  /\ conn' = "await"
  /\ UNCHANGED <<environment, cfg, lane, op, db, spent>>

Disconnect ==
  /\ conn \in {"await", "live"}
  /\ Spend("faults", MaxFaults)
  /\ conn' = "down"
  /\ UNCHANGED <<environment, cfg, lane, op, db>>

Start ==
  /\ conn = "off"
  /\ \E c \in Configs : cfg' = c /\ lane' = Fresh(c)
  /\ conn' = "down"
  /\ UNCHANGED <<environment, op, db, spent>>

Crash ==
  /\ conn # "off"
  /\ Spend("crashes", MaxCrashes)
  /\ conn' = "off"
  /\ lane' = Fresh(cfg)
  /\ op' = Idle
  /\ UNCHANGED <<environment, cfg, db>>

-----------------------------------------------------------------------------
(* applySeed.                                                              *)

\* Mutant: only bars both sides know are compared.
ConflictsOnlyWhereBothKnow(S) ==
  \E s \in UpTo(S, lane.last.t) :
    At(lane.market.bars, s.t) # {} /\ s \notin lane.market.bars

\* seedConflictsWithHistory: within the overlap of the seed and the market
\* reducer's window, a bar differs, or one side misses a bar of the other.
SeedConflictsWithHistory(S) ==
  LET local == lane.market.bars
      seed  == UpTo(S, lane.last.t)
  IN  /\ local # {}
      /\ seed # {}
      /\ \/ \E s \in Since(seed, Earliest(local).t) : s \notin local
         \/ \E b \in Since(local, Earliest(seed).t) : At(seed, b.t) = {}

\* The EMA checkpoint is complete, shared by all periods and not ahead of the
\* cursor, and the seed covers it and confirms the cursor bar.
Checkpoint == db.emaSnaps[CHOOSE p \in cfg.periods : TRUE]

Restorable(S) ==
  /\ \A p \in cfg.periods : db.emaSnaps[p] # None
  /\ \A p \in cfg.periods :
       /\ db.emaSnaps[p].t = Checkpoint.t
       /\ db.emaSnaps[p].reducer.samples = Checkpoint.reducer.samples
  /\ Checkpoint.t <= db.cursor.t
  /\ \A b \in Since(S, Checkpoint.t) : Valid(b)
  /\ At(S, Checkpoint.t) # {}
  /\ \E b \in At(S, db.cursor.t) : Fingerprint(b) = Fingerprint(db.cursor)
  /\ db.marketSnaps[cfg.market] # None => db.marketSnaps[cfg.market].t <= db.cursor.t

FoldAll(r, S) == [samples |-> r.samples + Cardinality(S), bars |-> r.bars \cup S]

\* Mutants of restoreRecoverySeed: snapshots of periods no longer configured
\* are loaded; the checkpoint's own bar is folded again; the seed is folded
\* past the cursor.
RestoredWith(S, periods, tail) ==
  [ema |-> [p \in periods |-> FoldAll(db.emaSnaps[p].reducer, tail)],
   market |-> FoldAll(EmptyReducer, Recent(UpTo(S, db.cursor.t), HistoryLimit)),
   last |-> Latest(UpTo(S, db.cursor.t)),
   count |-> Checkpoint.reducer.samples + Cardinality(tail),
   forming |-> None, projected |-> Unprojected]

RestoredEveryPeriod(S) ==
  RestoredWith(S, {p \in Periods : db.emaSnaps[p] # None},
               After(UpTo(S, db.cursor.t), Checkpoint.t))

RestoredTwice(S) ==
  RestoredWith(S, cfg.periods, Since(UpTo(S, db.cursor.t), Checkpoint.t))

RestoredPastCursor(S) == RestoredWith(S, cfg.periods, After(S, Checkpoint.t))

\* restoreRecoverySeed: the checkpoint plus the seed's bars after it, up to
\* the cursor.  Without a market snapshot the seed itself fills the window.
Restored(S) ==
  LET upTo == UpTo(S, db.cursor.t)
      tail == After(upTo, Checkpoint.t)
      snap == db.marketSnaps[cfg.market]
      all  == IF snap = None THEN FoldAll(EmptyReducer, upTo)
                             ELSE FoldAll(snap.reducer, After(upTo, snap.t))
  IN  [ema |-> [p \in cfg.periods |-> FoldAll(db.emaSnaps[p].reducer, tail)],
       market |-> [all EXCEPT !.bars = Recent(@, HistoryLimit)],
       last |-> Latest(upTo),
       count |-> Checkpoint.reducer.samples + Cardinality(tail),
       forming |-> None, projected |-> Unprojected]

ApplySeed(S) ==
  /\ conn = "await" /\ op = Idle
  /\ \/ /\ lane.last # None
        /\ op' = IF SeedConflictsWithHistory(S) THEN Rebuilding(S, TRUE)
                                                ELSE CatchingUp(S, TRUE)
        /\ conn' = "live"
        /\ UNCHANGED <<lane, spent>>
     \/ /\ lane.last = None /\ db.cursor = None
        /\ op' = Rebuilding(S, FALSE)
        /\ conn' = "live"
        /\ UNCHANGED <<lane, spent>>
     \/ /\ lane.last = None /\ db.cursor # None /\ Restorable(S)
        /\ lane' = Restored(S)
        /\ op' = CatchingUp(S, FALSE)
        /\ conn' = "live"
        /\ UNCHANGED spent
     \/ /\ lane.last = None /\ db.cursor # None /\ ~Restorable(S)
        /\ op' = Rebuilding(S, TRUE)
        /\ conn' = "live"
        /\ UNCHANGED <<lane, spent>>
     \/ /\ lane.last = None               \* LoadRecovery fails
        /\ Spend("faults", MaxFaults)
        /\ Fail
        /\ UNCHANGED lane
  /\ UNCHANGED <<environment, cfg, db>>

-----------------------------------------------------------------------------
(* applyClosed, called for a live bar or by the catch-up loop.             *)

\* Mutant: no gap check.
RejectedWithoutGaps(bar) ==
  \/ ~Valid(bar)
  \/ lane.last # None /\ bar.t <= lane.last.t /\ bar # lane.last

\* A bar the lane refuses without asking the store.
Rejected(bar) ==
  \/ ~Valid(bar)
  \/ lane.last # None /\ bar.t <= lane.last.t /\ bar # lane.last
  \/ lane.last # None /\ bar.t > lane.last.t /\ bar.t # lane.last.t + 1

\* The commit transaction, with a checkpoint on every SnapshotEvery-th bar.
Commit(bar) ==
  LET m == Advance(lane, bar)
      d == CommitClosed(db, bar, PointsOf(m, bar), FrameOf("frame", cfg, m, bar))
  IN  IF m.count % SnapshotEvery = 0
        THEN SaveSnapshots(d, cfg, m.ema, m.market, bar)
        ELSE d

\* What the store holds after CommitClosed: unchanged if it has the bar.
Committed(bar) == IF AlreadyCommitted(db, bar) THEN db ELSE Commit(bar)

\* Mutant: memory is advanced although the store reported an error.
ApplyClosedRegardless(bar) ==
  /\ bar # lane.last /\ ~Rejected(bar) /\ ~ConflictsWithCursor(db, bar)
  /\ \/ db' = Committed(bar) /\ UNCHANGED spent
     \/ db' = db /\ Spend("faults", MaxFaults)
  /\ op' = Installing(Advance(lane, bar))
  /\ UNCHANGED <<environment, cfg, lane, conn>>

ApplyClosed(bar) ==
  /\ bar # lane.last
  /\ \/ /\ Rejected(bar) \/ ConflictsWithCursor(db, bar)
        /\ FailBar
        /\ UNCHANGED <<db, spent>>
     \/ /\ ~Rejected(bar) /\ ~ConflictsWithCursor(db, bar)
        /\ db' = Committed(bar)
        /\ op' = Installing(Advance(lane, bar))
        /\ UNCHANGED <<conn, spent>>
     \/ /\ ~Rejected(bar) /\ ~ConflictsWithCursor(db, bar)
        /\ db' \in {db, Committed(bar)}      \* the store reports an error
        /\ Spend("faults", MaxFaults)
        /\ FailBar
  /\ UNCHANGED <<environment, cfg, lane>>

\* A closed bar from the socket.  The bar the lane stands on is dropped.
ReceiveClosed ==
  /\ conn = "live" /\ op = Idle
  /\ \E bar \in ohlc : ApplyClosed(bar)

\* One turn of applyCatchUpSeed.
CatchUp ==
  /\ op.pc = "catchup"
  /\ LET here == At(op.seed, lane.last.t)
         rest == After(op.seed, lane.last.t)
     IN  \/ /\ here \subseteq {lane.last} /\ rest = {}
            /\ op' = Idle
            /\ UNCHANGED <<environment, conn, cfg, lane, db, spent>>
         \/ /\ ~(here \subseteq {lane.last})
            /\ FailBar
            /\ UNCHANGED <<environment, cfg, lane, db, spent>>
         \/ /\ here \subseteq {lane.last} /\ rest # {}
            /\ ApplyClosed(Earliest(rest))

\* The committed frame has been published live; the new state is installed
\* and the command continues with the rest of its seed.
Install ==
  /\ op.pc = "install"
  /\ lane' = op.next
  /\ op' = IF op.seed = {} THEN Idle ELSE CatchingUp(op.seed, op.rebuild)
  /\ UNCHANGED <<environment, conn, cfg, db, spent>>

-----------------------------------------------------------------------------
(* rebuildSeed.                                                            *)

RebuildTx ==
  LET m      == Replay(cfg, op.seed)
      resets == IF op.rebuild /\ m.last # None
                  THEN {FrameOf("reset", cfg, m, m.last)} ELSE {}
      d      == RebuildSeries(db, PointsOfReplay(cfg, op.seed), resets, m.last)
  IN  IF m.last = None THEN d ELSE SaveSnapshots(d, cfg, m.ema, m.market, m.last)

Rebuild ==
  /\ op.pc = "rebuild"
  /\ LET m       == Replay(cfg, op.seed)
         refused == (\E b \in op.seed : ~Valid(b)) \/ MovesBackwards(db, m.last)
     IN  \/ /\ refused
            /\ Fail
            /\ UNCHANGED <<db, spent>>
         \/ /\ ~refused
            /\ db' = RebuildTx
            /\ op' = [Idle EXCEPT !.pc = "install", !.next = m]
            /\ UNCHANGED <<conn, spent>>
         \/ /\ ~refused
            /\ db' \in {db, RebuildTx}        \* the store reports an error
            /\ Spend("faults", MaxFaults)
            /\ Fail
  /\ UNCHANGED <<environment, cfg, lane>>

-----------------------------------------------------------------------------
(* applyForming: project the reducers, keep them as they are.              *)

ApplyForming ==
  /\ conn = "live" /\ op = Idle
  /\ \E t \in {clock, clock + 1} \ {0}, v \in Values :
       LET bar   == [t |-> t, v |-> v]
           ready == {p \in cfg.periods : Ready(p, Fold(lane.ema[p], bar))}
       IN  IF Valid(bar)
             THEN /\ lane.last # None => bar.t >= lane.last.t
                  /\ lane' = [lane EXCEPT
                       !.forming = bar,
                       !.projected = [p \in ready |-> Fold(lane.ema[p], bar)]]
                  /\ UNCHANGED <<conn, op>>
             ELSE Fail /\ UNCHANGED lane
  /\ UNCHANGED <<environment, cfg, db, spent>>

-----------------------------------------------------------------------------
Init ==
  /\ clock = 0 /\ ohlc = {}
  /\ conn = "off"
  /\ cfg \in Configs
  /\ lane = Fresh(cfg)
  /\ op = Idle
  /\ db = EmptyDatabase
  /\ spent = [crashes |-> 0, faults |-> 0, repairs |-> 0]

Seed == \E S \in Seeds : ApplySeed(S)

Next ==
  \/ CloseBar \/ Repair \/ Connect \/ Disconnect \/ Start \/ Crash
  \/ Seed \/ ReceiveClosed \/ CatchUp \/ Install \/ Rebuild
  \/ ApplyForming

Spec == Init /\ [][Next]_vars

\* What the process, its client and the connection between them have to do.
Work == Start \/ Connect \/ Seed \/ ReceiveClosed \/ CatchUp \/ Install \/ Rebuild

\* A seed without lag.
FreshSeed == ApplySeed(Recent(ohlc, SeedBars))

\* Client, connection and the lane's goroutine do not rest while they have
\* something to do, and a service that is asked again and again does not answer
\* with an old history every time.  Nothing makes bars close, fail or be repaired.
Fairness == WF_vars(Work) /\ SF_vars(FreshSeed)

FairSpec == Spec /\ Fairness

-----------------------------------------------------------------------------
(* Properties.                                                             *)

\* Memory of a lane with EMAs P of which Q are projected.
Memory(P, Q) ==
  [ema : [P -> Reducer], market : Reducer, last : Bar \cup {None}, count : Nat,
   forming : Bar \cup {None}, projected : [Q -> Reducer]]

\* Every variable keeps its type; in particular the reducers in memory are
\* those of the running configuration.
TypeOK ==
  /\ clock \in Nat /\ ohlc \subseteq Bar
  /\ conn \in {"off", "down", "await", "live"}
  /\ cfg \in Configs
  /\ DOMAIN lane.projected \subseteq cfg.periods
  /\ lane \in Memory(cfg.periods, DOMAIN lane.projected)
  /\ op \in [pc : {"idle", "catchup", "rebuild", "install"}, seed : SUBSET Bar,
             rebuild : BOOLEAN, next : Memory(cfg.periods, {}) \cup {None}]
  /\ op.pc = "install" => op.next \in Memory(cfg.periods, {})
  /\ db \in Database
  /\ spent \in [crashes : Nat, faults : Nat, repairs : Nat]

\* In-memory state advances only after the durable transaction commits: the
\* lane never stands on a bar the durable cursor has not reached, whatever
\* crashes, failed or ambiguous commits and rebuilds came before.
MemoryNeverAheadOfStore ==
  lane.last # None => db.cursor # None /\ lane.last.t <= db.cursor.t

\* The durable cursor never moves to an earlier bar and is never lost, also
\* when a late seed makes the lane rebuild (upsertCursor).
CursorNeverMovesBack ==
  [][db.cursor # None => db'.cursor # None /\ db'.cursor.t >= db.cursor.t]_vars

\* A live or catch-up commit extends the durable history by exactly the next
\* bar; only a rebuild may jump (the gap check of applyClosed).
CommitsAreContiguous ==
  [][db'.cursor # db.cursor /\ db.cursor # None /\ op.pc # "rebuild"
       => db'.cursor.t = db.cursor.t + 1]_vars

\* The positions of a lane in its series, for the abstract specification.
Position(bar) == IF bar = None THEN 0 ELSE bar.t

J == INSTANCE Journal WITH durable <- Position(db.cursor), live <- Position(lane.last)

\* A lane is a journal with a follower: every step of seed, catch-up, rebuild,
\* failure and crash writes the store or moves memory, never both; the store
\* goes first and only forward, and memory never falls back to an earlier bar
\* while the process lives (applyClosed, rebuildSeed, restoreRecoverySeed).
ImplementsJournal == J!Spec

\* The three conjuncts that make the safety properties above inductive: the
\* histories are finite and not in the future; what a command is about to
\* install is already durable; and, unless the service may send an empty
\* seed, a lane without a bar means a store without a cursor.
HistoriesBounded ==
  /\ IsFiniteSet(ohlc) /\ IsFiniteSet(op.seed)
  /\ \A b \in ohlc \cup op.seed : b.t <= clock

PendingIsDurable ==
  /\ conn = "off" => op = Idle
  /\ op.pc = "catchup" => lane.last # None
  /\ op.pc = "install" /\ op.seed # {} => op.next.last # None
  /\ op.pc = "install" /\ op.next.last # None
       => db.cursor # None /\ op.next.last.t <= db.cursor.t

SeededFromStore ==
  /\ ohlc = {} => db.cursor = None /\ op.seed = {}
  /\ op.pc = "rebuild" /\ op.seed = {} => db.cursor = None
  /\ op.pc = "install" /\ op.next.last = None => db.cursor = None
  /\ conn = "live" /\ op.pc = "idle" /\ lane.last = None => db.cursor = None

\* The inductive invariant: TypeOK, MemoryNeverAheadOfStore and the above.
LaneInv ==
  /\ TypeOK /\ HistoriesBounded /\ MemoryNeverAheadOfStore /\ PendingIsDurable
  /\ ~EmptySeeds => SeededFromStore

\* Needed besides LaneInv for ImplementsJournal: what a command is about to
\* install is not behind what memory already stands on.
InstallsForward ==
  op.pc = "install" /\ lane.last # None /\ op.next.last # None
    => lane.last.t <= op.next.last.t

\* No bar is folded twice or skipped by one reducer only: every EMA has
\* folded count distinct bars, and so has every snapshot, which is never
\* newer than the cursor (the checks restoreRecoverySeed relies on).
CountsAgree ==
  /\ \A p \in cfg.periods :
       lane.ema[p].samples = lane.count /\ Cardinality(lane.ema[p].bars) = lane.count
  /\ \A p \in Periods : db.emaSnaps[p] # None =>
       LET s == db.emaSnaps[p] IN
       /\ s.reducer.samples = Cardinality(s.reducer.bars)
       /\ s.t = Latest(s.reducer.bars).t
       /\ s.t <= db.cursor.t

\* What makes CountsAgree inductive, for the memory in use and the one a
\* command is about to install: the EMAs P have folded count distinct bars,
\* none after the bar memory stands on; and a snapshot's bars end at its time.
MemoryCounted(P, m) ==
  \A p \in P :
    /\ IsFiniteSet(m.ema[p].bars)
    /\ m.ema[p].samples = m.count /\ Cardinality(m.ema[p].bars) = m.count
    /\ \A x \in m.ema[p].bars : m.last # None /\ x.t <= m.last.t

SnapshotCounted(s, cursor) ==
  /\ IsFiniteSet(s.reducer.bars) /\ s.reducer.samples = Cardinality(s.reducer.bars)
  /\ \E x \in s.reducer.bars : x.t = s.t
  /\ \A x \in s.reducer.bars : x.t <= s.t
  /\ cursor # None /\ s.t <= cursor.t

CountInv ==
  /\ MemoryCounted(cfg.periods, lane)
  /\ op.pc = "install" => MemoryCounted(cfg.periods, op.next)
  /\ \A p \in Periods :
       db.emaSnaps[p] # None => SnapshotCounted(db.emaSnaps[p], db.cursor)

Synced == conn = "live" /\ op = Idle /\ lane.last # None

\* OHLC seeds are authoritative: a seeded lane's market window is exactly the
\* OHLC history from the window's first bar to the lane's last bar, and the
\* EMAs have folded the same bars over that range.
OneHistory ==
  Synced =>
    LET window == lane.market.bars
        from   == Earliest(window).t
    IN  /\ window = Since(UpTo(ohlc, lane.last.t), from)
        /\ \A p \in cfg.periods : Since(lane.ema[p].bars, from) = window

\* Recovery from any crash point reproduces the uninterrupted run: while OHLC
\* history is not rewritten, every EMA has folded an unbroken run of OHLC
\* bars that ends at the lane's last bar.
RecoveryIsExact ==
  lane.last # None =>
    \A p \in cfg.periods :
      LET folded == lane.ema[p].bars
      IN  folded = Since(UpTo(ohlc, lane.last.t), Earliest(folded).t)

\* What makes RecoveryIsExact inductive besides CountInv: the service has at
\* most one bar per time; seeds, snapshots and the EMAs of both memories hold
\* every OHLC bar between any two of their bars; and memory stands on the last
\* bar of its EMAs.
Unbroken(S, history) ==
  /\ S \subseteq history
  /\ \A x, z \in S, y \in history : x.t <= y.t /\ y.t <= z.t => y \in S

MemoryUnbroken(P, m, history) ==
  m.last # None =>
    \A p \in P : m.last \in m.ema[p].bars /\ Unbroken(m.ema[p].bars, history)

HistoryInv ==
  /\ \A x, y \in ohlc : x.t = y.t => x = y
  /\ Unbroken(op.seed, ohlc)
  /\ MemoryUnbroken(cfg.periods, lane, ohlc)
  /\ op.pc = "install" => MemoryUnbroken(cfg.periods, op.next, ohlc)
  /\ \A p \in Periods :
       db.emaSnaps[p] # None => Unbroken(db.emaSnaps[p].reducer.bars, ohlc)

\* What makes OneHistory inductive.  A window is the end of what the EMAs have
\* folded, at most HistoryLimit bars, each at a time the service has a bar for.
EndOf(A, B) == A \subseteq B /\ \A x \in A, y \in B : x.t <= y.t => y \in A

Dated(S, history) ==
  /\ \A x, y \in S : x.t = y.t => x = y
  /\ \A x \in S : \E y \in history : y.t = x.t

MemoryWindowed(P, m, history) ==
  /\ IsFiniteSet(m.market.bars) /\ Cardinality(m.market.bars) <= HistoryLimit
  /\ IF m.last = None THEN m.market.bars = {} ELSE m.last \in m.market.bars
  /\ \A x \in m.market.bars : x.t <= m.last.t
  /\ Dated(m.market.bars, history)
  /\ \A p \in P : EndOf(m.market.bars, m.ema[p].bars)

\* The window m and the seed S do not conflict as far as memory has come.
Agrees(m, S) ==
  \A s \in UpTo(S, m.last.t), x \in m.market.bars :
    /\ x.t <= s.t => s \in m.market.bars
    /\ s.t <= x.t => x \in S

\* The window m is the end of the service's history up to the last bar of m.
Exact(m, history) == m.last # None => EndOf(m.market.bars, UpTo(history, m.last.t))

\* The seed S is a full window of the service's history, or all of it, up to its
\* last bar.
FullSeed(S, history) ==
  /\ Unbroken(S, history)
  /\ \A x \in S, y \in history :
       y.t <= x.t => y \in S \/ Cardinality(S) >= HistoryLimit

WindowsDated ==
  /\ Dated(ohlc, ohlc) /\ Dated(op.seed, ohlc)
  /\ MemoryWindowed(cfg.periods, lane, ohlc)
  /\ op.pc = "install" => MemoryWindowed(cfg.periods, op.next, ohlc)

\* While the connection stands, a catch-up agrees with its seed, which is full,
\* and memory without a seed to follow is exact.
SeedFollowed ==
  /\ FullSeed(op.seed, ohlc)
  /\ op.pc = "catchup" => op.seed # {} /\ Agrees(lane, op.seed)
  /\ op.pc = "install" => IF op.seed = {} THEN Exact(op.next, ohlc) ELSE Agrees(op.next, op.seed)
  /\ op.pc = "idle" => op = Idle /\ Exact(lane, ohlc)

WindowInv == WindowsDated /\ (conn = "live" => SeedFollowed)

\* Memory is never restored from a checkpoint: no crash and no lost
\* acknowledgement leaves an empty lane before a store with a cursor.
NothingToRestore == op = Idle /\ lane.last = None => db.cursor = None

\* The durable points of every configured EMA are those of the lane's own
\* history: one per ready bar, none stale and none missing.
PointsMatchReducers ==
  Synced /\ lane.last = db.cursor =>
    \A p \in cfg.periods :
      {q \in db.points : q.period = p} =
        PointsOfReplay([cfg EXCEPT !.periods = {p}], lane.ema[p].bars)

\* Also when periods are dropped and added back at restarts, or the service
\* answers a restart with nothing, no durable point of a configured EMA is
\* left over from a history its reducer no longer has (RebuildSeries); bars
\* committed without the period stay without a point.  It holds up to one store
\* failure: a failed catch-up and the rebuild that follows, committed although
\* it reports an error, leave memory on the longer history it had before, and
\* the points of the rebuild do not belong to that (README.md).
PointsNeverStale ==
  Synced /\ lane.last = db.cursor =>
    \A p \in cfg.periods :
      {q \in db.points : q.period = p} \subseteq
        PointsOfReplay([cfg EXCEPT !.periods = {p}], lane.ema[p].bars)

\* The provisional values served next to the confirmed ones always extend
\* the reducers now in memory, never ones a close or a rebuild replaced.
ProjectionFollowsReducers ==
  /\ lane.forming = None => lane.projected = Unprojected
  /\ lane.forming # None =>
       /\ lane.last # None => lane.forming.t >= lane.last.t
       /\ \A p \in DOMAIN lane.projected :
            lane.projected[p] = Fold(lane.ema[p], lane.forming)

\* What makes ProjectionFollowsReducers inductive: a memory about to be
\* installed projects nothing.
ProjectionInv ==
  /\ ProjectionFollowsReducers
  /\ op.pc = "install" => op.next.forming = None /\ op.next.projected = Unprojected

\* A correction emits a reset with the corrected baseline: when a rebuild that
\* announces a reset is installed, the outbox holds that baseline.
ResetCarriesBaseline ==
  [][op.pc = "rebuild" /\ op.rebuild /\ op'.pc = "install"
       => \E r \in db'.outbox : r.kind = "reset" /\ r.basis = op'.next.market.bars]_vars

\* The lane never rejects the same seed for ever: once failures, crashes and
\* repairs stop, it reaches the newest OHLC bar and stays on it (the comments
\* in applySeed on reconnecting for ever).
EventuallyCaughtUp ==
  <>[](ohlc # {} => lane.last = Latest(ohlc))

=============================================================================
