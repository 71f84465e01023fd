----------------------------- MODULE LaneProofs -----------------------------
(***************************************************************************)
(* Proofs about Lane, for every value of its constants: LaneInv is an      *)
(* inductive invariant, and with it TypeOK, MemoryNeverAheadOfStore,       *)
(* CursorNeverMovesBack and CommitsAreContiguous hold.  With InstallsForward*)
(* the lane also implements Journal.                                       *)
(***************************************************************************)
EXTENDS Lane, FiniteSetTheorems, TLAPS

-----------------------------------------------------------------------------
(* Histories and the store's transactions: what Latest, Earliest and       *)
(* Recent return, and that every write keeps the database's type.          *)

\* Every non-empty set of naturals has a least element.
LEMMA LeastNatural ==
  ASSUME NEW T \in SUBSET Nat, T # {}
  PROVE  \E x \in T : \A y \in T : x <= y
<1> DEFINE Smaller == {ss \in Nat \X Nat : ss[1] < ss[2]}
<1>1. IsWellFoundedOn(Smaller, Nat)
  BY NatLessThanWellFounded DEF OpToRel
<1>2. \E x \in T : \A y \in T : ~(<<y, x>> \in Smaller)
  <2> HIDE DEF Smaller
  <2> QED
    BY <1>1, WFMin, Zenon
<1>3. \A x, y \in T : ~(<<y, x>> \in Smaller) => x <= y
  OBVIOUS
<1> QED
  BY <1>2, <1>3, Zenon

\* A non-empty history whose times are bounded has a last bar, and Latest
\* returns it.
LEMMA LatestIsLast ==
  ASSUME NEW S \in SUBSET Bar, S # {}, NEW n \in Nat, \A b \in S : b.t <= n
  PROVE  Latest(S) \in S /\ \A b \in S : b.t <= Latest(S).t
<1> DEFINE T == {n - b.t : b \in S}
<1>1. T \in SUBSET Nat /\ T # {}
  BY DEF Bar
<1>2. PICK x \in T : \A y \in T : x <= y
  BY <1>1, LeastNatural, Zenon
<1>3. PICK b \in S : x = n - b.t
  BY <1>2
<1>4. \A c \in S : n - b.t <= n - c.t
  BY <1>2, <1>3
<1>5. \A c \in S : c.t <= b.t
  BY <1>3, <1>4 DEF Bar
<1> QED
  BY <1>5 DEF Latest

\* A non-empty history has a first bar, and Earliest returns it.
LEMMA EarliestIsFirst ==
  ASSUME NEW S \in SUBSET Bar, S # {}
  PROVE  Earliest(S) \in S /\ \A b \in S : Earliest(S).t <= b.t
<1> DEFINE T == {b.t : b \in S}
<1>1. T \in SUBSET Nat /\ T # {}
  BY DEF Bar
<1>2. PICK x \in T : \A y \in T : x <= y
  BY <1>1, LeastNatural, Zenon
<1>3. \E b \in S : \A c \in S : b.t <= c.t
  BY <1>2
<1> QED
  BY <1>3 DEF Earliest

\* The revision of a bar is a natural number.
LEMMA RevisionType ==
  ASSUME NEW b \in Bar
  PROVE  RevisionForBar(b) \in Nat
BY BarsAssumption DEF RevisionForBar, Bar

-----------------------------------------------------------------------------
\* The empty database is a database.
LEMMA EmptyDatabaseType == EmptyDatabase \in Database
BY DEF EmptyDatabase, Database

\* The outbox row of a point is a row.
LEMMA PointRowType ==
  ASSUME NEW q \in Point
  PROVE  PointRow(q) \in Row
BY DEF PointRow, Point, Row

\* An insert keeps the outbox a set of rows and never removes one.
LEMMA InsertOutboxType ==
  ASSUME NEW outbox \in SUBSET Row, NEW rows \in SUBSET Row
  PROVE  InsertOutbox(outbox, rows) \in SUBSET Row /\ outbox \subseteq InsertOutbox(outbox, rows)
BY DEF InsertOutbox

\* An upsert keeps the points a set of points.
LEMMA UpsertPointsType ==
  ASSUME NEW points \in SUBSET Point, NEW new \in SUBSET Point
  PROVE  UpsertPoints(points, new) \in SUBSET Point
BY DEF UpsertPoints

\* Saving snapshots keeps the database's type and its cursor.
LEMMA SaveSnapshotsType ==
  ASSUME NEW d \in Database, NEW c \in Config, NEW bar \in Bar,
         NEW ema \in [c.periods -> Reducer], NEW market \in Reducer
  PROVE  /\ SaveSnapshots(d, c, ema, market, bar) \in Database
         /\ SaveSnapshots(d, c, ema, market, bar).cursor = d.cursor
<1>1. \A p \in c.periods : [t |-> bar.t, reducer |-> ema[p]] \in Snapshot
  BY DEF Snapshot, Bar
<1>2. [t |-> bar.t, reducer |-> market] \in Snapshot
  BY DEF Snapshot, Bar
<1>3. c.market \in MarketVersions /\ c.periods \in SUBSET Periods
  BY DEF Config
<1> QED
  BY <1>1, <1>2, <1>3, Zenon DEF SaveSnapshots, Database

\* A commit keeps the database's type and puts the cursor on its bar.
LEMMA CommitClosedType ==
  ASSUME NEW d \in Database, NEW bar \in Bar, NEW points \in SUBSET Point, NEW frame \in Row
  PROVE  /\ CommitClosed(d, bar, points, frame) \in Database
         /\ CommitClosed(d, bar, points, frame).cursor = bar
<1>1. {PointRow(q) : q \in points} \cup {frame} \in SUBSET Row
  BY PointRowType
<1>2. d.points \in SUBSET Point /\ d.outbox \in SUBSET Row
  BY DEF Database
<1>3. InsertOutbox(d.outbox, {PointRow(q) : q \in points} \cup {frame}) \in SUBSET Row
  BY <1>1, <1>2, InsertOutboxType
<1>4. UpsertPoints(d.points, points) \in SUBSET Point
  BY <1>2, UpsertPointsType
<1> QED
  BY <1>3, <1>4, Zenon DEF CommitClosed, Database

\* A rebuild keeps the database's type, and moves the cursor to the last bar
\* of the seed if there is one.
LEMMA RebuildSeriesType ==
  ASSUME NEW d \in Database, NEW points \in SUBSET Point, NEW resets \in SUBSET Row,
         NEW last \in Bar \cup {None}
  PROVE  /\ RebuildSeries(d, points, resets, last) \in Database
         /\ RebuildSeries(d, points, resets, last).cursor = IF last = None THEN d.cursor ELSE last
<1>1. InsertOutbox(d.outbox, resets) \in SUBSET Row
  BY InsertOutboxType DEF Database
<1> QED
  BY <1>1, Zenon DEF RebuildSeries, Database

-----------------------------------------------------------------------------
(* The operators the actions are built from.                               *)

\* A configuration names known periods and a known market algorithm.
LEMMA ConfigType ==
  ASSUME NEW c \in Configs
  PROVE  c \in Config /\ c.periods \in SUBSET Periods /\ c.market \in MarketVersions
BY LaneAssumption DEF Config

\* Folding a bar keeps a reducer a reducer.
LEMMA FoldType ==
  ASSUME NEW r \in Reducer, NEW bar \in Bar
  PROVE  Fold(r, bar) \in Reducer /\ FoldMarket(r, bar) \in Reducer
BY DEF Fold, FoldMarket, Recent, Reducer

\* Folding a finite set of bars keeps a reducer a reducer.
LEMMA FoldAllType ==
  ASSUME NEW r \in Reducer, NEW S \in SUBSET Bar, IsFiniteSet(S)
  PROVE  FoldAll(r, S) \in Reducer
BY FS_CardinalityType DEF FoldAll, Reducer

\* A new reducer is a reducer.
LEMMA EmptyReducerType == EmptyReducer \in Reducer
BY DEF EmptyReducer, Reducer

\* The empty projection projects no period.
LEMMA UnprojectedType == Unprojected \in [{} -> Reducer] /\ DOMAIN Unprojected = {}
BY DEF Unprojected

\* A fresh lane has the memory of its configuration and stands on no bar.
LEMMA FreshType ==
  ASSUME NEW c \in Configs
  PROVE  Fresh(c) \in Memory(c.periods, {}) /\ Fresh(c).last = None
BY EmptyReducerType, UnprojectedType DEF Fresh, Memory

\* applyClosed's next memory stands on the folded bar.
LEMMA AdvanceType ==
  ASSUME NEW P, NEW Q, NEW m \in Memory(P, Q), NEW bar \in Bar
  PROVE  Advance(m, bar) \in Memory(P, {}) /\ Advance(m, bar).last = bar
<1>1. m.ema \in [P -> Reducer] /\ m.market \in Reducer /\ m.count \in Nat
  BY DEF Memory
<1>2. [p \in DOMAIN m.ema |-> Fold(m.ema[p], bar)] \in [P -> Reducer]
  BY <1>1, FoldType
<1>3. FoldMarket(m.market, bar) \in Reducer
  BY <1>1, FoldType
<1> QED
  BY <1>1, <1>2, <1>3, UnprojectedType DEF Advance, Memory

\* A replay has the memory of its configuration and stands on the last bar
\* of the seed, if the seed has one.
LEMMA ReplayType ==
  ASSUME NEW c \in Configs, NEW S \in SUBSET Bar, IsFiniteSet(S),
         NEW n \in Nat, \A b \in S : b.t <= n
  PROVE  /\ Replay(c, S) \in Memory(c.periods, {})
         /\ IF S = {} THEN Replay(c, S).last = None ELSE Replay(c, S).last \in S
<1>1. Cardinality(S) \in Nat
  BY FS_CardinalityType
<1>2. [samples |-> Cardinality(S), bars |-> S] \in Reducer
  BY <1>1 DEF Reducer
<1>3. [[samples |-> Cardinality(S), bars |-> S] EXCEPT !.bars = Recent(S, HistoryLimit)] \in Reducer
  BY <1>1 DEF Reducer, Recent
<1>4. S # {} => Latest(S) \in S
  BY LatestIsLast
<1> QED
  BY <1>1, <1>2, <1>3, <1>4, UnprojectedType DEF Replay, Memory

\* The points of a fold are points.
LEMMA PointsOfType ==
  ASSUME NEW P \in SUBSET Periods, NEW Q, NEW m \in Memory(P, Q), NEW bar \in Bar
  PROVE  PointsOf(m, bar) \in SUBSET Point
<1>1. \A p \in P : m.ema[p] \in Reducer
  BY DEF Memory
<1>2. DOMAIN m.ema = P
  BY DEF Memory
<1>3. \A p \in P : PointAt(p, m.ema[p], bar) \in Point
  BY <1>1, RevisionType DEF PointAt, Point, Reducer, Bar
<1> QED
  BY <1>2, <1>3 DEF PointsOf

\* The points of a whole replay are points.
LEMMA PointsOfReplayType ==
  ASSUME NEW c \in Configs, NEW S \in SUBSET Bar, IsFiniteSet(S),
         NEW n \in Nat, \A b \in S : b.t <= n
  PROVE  PointsOfReplay(c, S) \in SUBSET Point
<1>1. ASSUME NEW b \in S
      PROVE  PointsOf(Replay(c, UpTo(S, b.t)), b) \in SUBSET Point
  <2>1. UpTo(S, b.t) \in SUBSET Bar /\ IsFiniteSet(UpTo(S, b.t)) /\ \A x \in UpTo(S, b.t) : x.t <= n
    BY FS_Subset DEF UpTo
  <2>2. Replay(c, UpTo(S, b.t)) \in Memory(c.periods, {})
    BY <2>1, ReplayType
  <2> QED
    BY <2>2, ConfigType, PointsOfType
<1> QED
  BY <1>1 DEF PointsOfReplay

\* A market frame and a reset are outbox rows.
LEMMA FrameType ==
  ASSUME NEW c \in Configs, NEW P, NEW Q, NEW m \in Memory(P, Q), NEW bar \in Bar,
         NEW kind \in {"frame", "reset"}
  PROVE  FrameOf(kind, c, m, bar) \in Row
<1>1. m.market.bars \in SUBSET Bar
  BY DEF Memory, Reducer
<1> QED
  BY <1>1, ConfigType, RevisionType DEF FrameOf, Row, Bar

-----------------------------------------------------------------------------
(* What the handlers read and write, in a state that satisfies LaneInv.    *)

\* A bar is never None, so a lane or a cursor on a bar is on a bar.
LEMMA NoneIsNoBar == \A b \in Bar : b # None
BY StoreAssumption

\* A seed the service may send is a finite part of its history; it is empty
\* only if that history is, unless EmptySeeds.
LEMMA SeedsType ==
  ASSUME TypeOK, HistoriesBounded, NEW S \in Seeds
  PROVE  /\ S \in SUBSET Bar /\ IsFiniteSet(S) /\ \A b \in S : b.t <= clock
         /\ S # {} => ohlc # {}
         /\ S = {} => EmptySeeds \/ ohlc = {}
<1>1. S \subseteq ohlc
  BY Zenon DEF Seeds, Recent, UpTo
<1>2. IsFiniteSet(S)
  BY <1>1, FS_Subset DEF HistoriesBounded
<1>3. S = {} => EmptySeeds \/ ohlc = {}
  BY DEF Seeds
<1> QED
  BY <1>1, <1>2, <1>3 DEF TypeOK, HistoriesBounded

\* restoreRecoverySeed leaves the lane on the durable cursor's bar.
LEMMA RestoredType ==
  ASSUME TypeOK, NEW S \in SUBSET Bar, IsFiniteSet(S), \A b \in S : b.t <= clock,
         db.cursor # None, Restorable(S)
  PROVE  /\ Restored(S) \in Memory(cfg.periods, {})
         /\ Restored(S).last # None /\ Restored(S).last.t <= db.cursor.t
<1> DEFINE upTo == UpTo(S, db.cursor.t)
           tail == After(upTo, Checkpoint.t)
           snap == db.marketSnaps[cfg.market]
           all  == IF snap = None THEN FoldAll(EmptyReducer, upTo)
                                  ELSE FoldAll(snap.reducer, After(upTo, snap.t))
<1>1. /\ cfg.periods \in SUBSET Periods /\ cfg.periods # {} /\ cfg.market \in MarketVersions
      /\ db.cursor \in Bar /\ clock \in Nat
  BY LaneAssumption DEF TypeOK, Config, Database
<1>2. /\ upTo \in SUBSET Bar /\ IsFiniteSet(upTo)
      /\ tail \in SUBSET Bar /\ IsFiniteSet(tail)
      /\ \A t : After(upTo, t) \in SUBSET Bar /\ IsFiniteSet(After(upTo, t))
  <2>1. upTo \subseteq S
    BY DEF UpTo
  <2>2. \A t : After(upTo, t) \subseteq upTo
    BY DEF After
  <2>3. IsFiniteSet(upTo)
    BY <2>1, FS_Subset
  <2>4. \A t : IsFiniteSet(After(upTo, t))
    BY <2>2, <2>3, FS_Subset
  <2> QED
    BY <2>1, <2>2, <2>3, <2>4
<1>3. \A p \in cfg.periods : db.emaSnaps[p] \in Snapshot
  BY <1>1 DEF TypeOK, Database, Restorable
<1>4. Checkpoint \in Snapshot
  BY <1>1, <1>3 DEF Checkpoint
<1>5. snap # None => snap \in Snapshot
  BY <1>1 DEF TypeOK, Database
<1>6. \A p \in cfg.periods : FoldAll(db.emaSnaps[p].reducer, tail) \in Reducer
  <2> HIDE DEF tail
  <2> QED
    BY <1>2, <1>3, FoldAllType DEF Snapshot
<1>7. all \in Reducer
  <2> HIDE DEF upTo, snap
  <2> QED
    BY <1>2, <1>5, FoldAllType, EmptyReducerType DEF Snapshot
<1>8. [all EXCEPT !.bars = Recent(@, HistoryLimit)] \in Reducer
  <2> HIDE DEF all
  <2> QED
    BY <1>7 DEF Reducer, Recent
<1>9. Checkpoint.reducer.samples + Cardinality(tail) \in Nat
  <2> HIDE DEF tail
  <2> QED
    BY <1>2, <1>4, FS_CardinalityType DEF Snapshot, Reducer
<1>10. Latest(upTo) \in upTo
  <2>1. upTo # {} /\ \A b \in upTo : b.t <= db.cursor.t
    BY <1>1 DEF Restorable, At, UpTo, Bar
  <2>2. db.cursor.t \in Nat
    BY <1>1 DEF Bar
  <2> HIDE DEF upTo
  <2> QED
    BY <1>2, <2>1, <2>2, LatestIsLast
<1>11. Latest(upTo) \in Bar /\ Latest(upTo).t <= db.cursor.t
  BY <1>10 DEF UpTo
<1>12. Restored(S) = [ema |-> [p \in cfg.periods |-> FoldAll(db.emaSnaps[p].reducer, tail)],
                      market |-> [all EXCEPT !.bars = Recent(@, HistoryLimit)],
                      last |-> Latest(upTo),
                      count |-> Checkpoint.reducer.samples + Cardinality(tail),
                      forming |-> None, projected |-> Unprojected]
  BY DEF Restored
<1> HIDE DEF upTo, tail, snap, all
<1> QED
  BY <1>6, <1>8, <1>9, <1>11, <1>12, UnprojectedType, NoneIsNoBar DEF Memory

\* CommitClosed, also when it only acknowledges: the store ends on a cursor
\* at the bar that was offered and not behind the old one.
LEMMA CommittedType ==
  ASSUME TypeOK, NEW bar \in Bar, ~ConflictsWithCursor(db, bar)
  PROVE  /\ Committed(bar) \in Database
         /\ Committed(bar).cursor # None /\ Committed(bar).cursor.t = bar.t
         /\ db.cursor # None => db.cursor.t <= bar.t
         /\ Committed(bar).cursor # db.cursor /\ db.cursor # None => db.cursor.t < bar.t
<1>1. /\ cfg \in Configs /\ cfg \in Config /\ cfg.periods \in SUBSET Periods
      /\ lane \in Memory(cfg.periods, DOMAIN lane.projected) /\ db \in Database
      /\ db.cursor \in Bar \cup {None}
  BY ConfigType DEF TypeOK, Database
<1> DEFINE m == Advance(lane, bar)
           d == CommitClosed(db, bar, PointsOf(m, bar), FrameOf("frame", cfg, m, bar))
<1>2. m \in Memory(cfg.periods, {})
  BY <1>1, AdvanceType
<1>3. PointsOf(m, bar) \in SUBSET Point /\ FrameOf("frame", cfg, m, bar) \in Row
  <2> HIDE DEF m
  <2> QED
    BY <1>1, <1>2, PointsOfType, FrameType
<1>4. d \in Database /\ d.cursor = bar
  <2> HIDE DEF m
  <2> QED
    BY <1>1, <1>3, CommitClosedType
<1>5. m.ema \in [cfg.periods -> Reducer] /\ m.market \in Reducer
  <2> HIDE DEF m
  <2> QED
    BY <1>2 DEF Memory
<1>6. /\ SaveSnapshots(d, cfg, m.ema, m.market, bar) \in Database
      /\ SaveSnapshots(d, cfg, m.ema, m.market, bar).cursor = bar
  <2> HIDE DEF m, d
  <2> QED
    BY <1>1, <1>4, <1>5, SaveSnapshotsType
<1>7. Commit(bar) \in Database /\ Commit(bar).cursor = bar
  BY <1>4, <1>6 DEF Commit
<1> QED
  BY <1>1, <1>7, NoneIsNoBar DEF Committed, AlreadyCommitted, ConflictsWithCursor, Bar

\* The rebuild transaction ends on the seed's last bar, or keeps the cursor
\* if the seed has none.
LEMMA RebuildTxType ==
  ASSUME TypeOK, HistoriesBounded
  PROVE  /\ Replay(cfg, op.seed) \in Memory(cfg.periods, {})
         /\ IF op.seed = {} THEN Replay(cfg, op.seed).last = None
                            ELSE Replay(cfg, op.seed).last \in op.seed
         /\ RebuildTx \in Database
         /\ RebuildTx.cursor = IF op.seed = {} THEN db.cursor ELSE Replay(cfg, op.seed).last
<1>1. /\ cfg \in Configs /\ cfg \in Config /\ op.seed \in SUBSET Bar /\ IsFiniteSet(op.seed)
      /\ clock \in Nat /\ db \in Database /\ \A b \in op.seed : b.t <= clock
  BY ConfigType DEF TypeOK, HistoriesBounded
<1> DEFINE m == Replay(cfg, op.seed)
           resets == IF op.rebuild /\ m.last # None THEN {FrameOf("reset", cfg, m, m.last)} ELSE {}
           d == RebuildSeries(db, PointsOfReplay(cfg, op.seed), resets, m.last)
<1>2. m \in Memory(cfg.periods, {}) /\ IF op.seed = {} THEN m.last = None ELSE m.last \in op.seed
  BY <1>1, ReplayType
<1>3. m.last \in Bar \cup {None} /\ (m.last = None <=> op.seed = {})
  <2> HIDE DEF m
  <2> QED
    BY <1>1, <1>2, NoneIsNoBar
<1>4. resets \in SUBSET Row
  <2> HIDE DEF m
  <2> QED
    BY <1>1, <1>2, <1>3, FrameType
<1>5. PointsOfReplay(cfg, op.seed) \in SUBSET Point
  BY <1>1, PointsOfReplayType
<1>6. d \in Database /\ d.cursor = IF m.last = None THEN db.cursor ELSE m.last
  <2> HIDE DEF m, resets
  <2> QED
    BY <1>1, <1>3, <1>4, <1>5, RebuildSeriesType
<1>7. m.ema \in [cfg.periods -> Reducer] /\ m.market \in Reducer
  <2> HIDE DEF m
  <2> QED
    BY <1>2 DEF Memory
<1>8. m.last # None => /\ SaveSnapshots(d, cfg, m.ema, m.market, m.last) \in Database
                       /\ SaveSnapshots(d, cfg, m.ema, m.market, m.last).cursor = d.cursor
  <2> HIDE DEF m, d
  <2> QED
    BY <1>1, <1>3, <1>6, <1>7, SaveSnapshotsType
<1>9. RebuildTx = IF m.last = None THEN d ELSE SaveSnapshots(d, cfg, m.ema, m.market, m.last)
  BY DEF RebuildTx
<1> HIDE DEF m, d
<1>10. RebuildTx \in Database /\ RebuildTx.cursor = IF op.seed = {} THEN db.cursor ELSE m.last
  BY <1>3, <1>6, <1>8, <1>9
<1> QED
  BY <1>2, <1>10 DEF m

-----------------------------------------------------------------------------
(* Every action preserves LaneInv.                                         *)

\* The types of the parts of the state, as the handlers read them.
LEMMA LaneTypes ==
  ASSUME LaneInv
  PROVE  /\ clock \in Nat /\ ohlc \subseteq Bar /\ op.seed \subseteq Bar
         /\ cfg \in Configs /\ db \in Database
         /\ lane \in Memory(cfg.periods, DOMAIN lane.projected)
         /\ spent \in [crashes : Nat, faults : Nat, repairs : Nat]
         /\ db.cursor # None => db.cursor \in Bar /\ db.cursor.t \in Nat
         /\ lane.last # None => lane.last \in Bar /\ lane.last.t \in Nat
<1>1. TypeOK
  BY DEF LaneInv
<1>2. /\ clock \in Nat /\ ohlc \subseteq Bar
      /\ cfg \in Configs /\ db \in Database
      /\ lane \in Memory(cfg.periods, DOMAIN lane.projected)
      /\ spent \in [crashes : Nat, faults : Nat, repairs : Nat]
  BY <1>1 DEF TypeOK
<1>3. op.seed \subseteq Bar
  BY <1>1 DEF TypeOK
<1>4. db.cursor \in Bar \cup {None}
  BY <1>2 DEF Database
<1>5. lane.last \in Bar \cup {None}
  BY <1>2 DEF Memory
<1>6. \A b \in Bar : b.t \in Nat
  BY DEF Bar
<1> QED
  BY <1>2, <1>3, <1>4, <1>5, <1>6

\* A bound on failures that is not used up leaves a count of failures.
LEMMA SpendType ==
  ASSUME LaneInv, NEW what \in {"crashes", "faults", "repairs"}, NEW limit, Spend(what, limit)
  PROVE  spent' \in [crashes : Nat, faults : Nat, repairs : Nat]
BY LaneTypes DEF Spend

\* The initial state.
LEMMA InitInv == Init => LaneInv
<1> SUFFICES ASSUME Init PROVE LaneInv
  OBVIOUS
<1>1. cfg \in Configs /\ lane \in Memory(cfg.periods, {}) /\ lane.last = None
  BY FreshType DEF Init
<1>2. lane.projected = Unprojected
  BY DEF Init, Fresh
<1>3. TypeOK
  BY <1>1, <1>2, EmptyDatabaseType, UnprojectedType DEF Init, TypeOK, Idle
<1>4. HistoriesBounded
  BY FS_EmptySet DEF Init, HistoriesBounded, Idle
<1>5. db.cursor = None
  BY DEF Init, EmptyDatabase
<1> QED
  BY <1>1, <1>3, <1>4, <1>5
     DEF Init, LaneInv, MemoryNeverAheadOfStore, PendingIsDurable, SeededFromStore, Idle

\* The end of a period changes the OHLC history only.
LEMMA CloseBarInv == LaneInv /\ CloseBar => LaneInv'
<1> SUFFICES ASSUME LaneInv, CloseBar PROVE LaneInv'
  OBVIOUS
<1>1. clock \in Nat /\ clock' = clock + 1 /\ ohlc \subseteq Bar
  BY DEF LaneInv, TypeOK, CloseBar
<1>2. PICK new : ohlc' = ohlc \cup new /\ (new = {} \/ \E v \in Values : new = {[t |-> clock + 1, v |-> v]})
  <2>1. CASE ohlc' = ohlc
    BY <2>1, Zenon
  <2>2. CASE \E v \in Values : ohlc' = ohlc \cup {[t |-> clock + 1, v |-> v]}
    BY <2>2, Zenon
  <2> QED
    BY <2>1, <2>2, Zenon DEF CloseBar
<1>3. ohlc' \subseteq Bar /\ ohlc \subseteq ohlc' /\ IsFiniteSet(ohlc')
  <2>1. CASE new = {}
    BY <1>1, <1>2, <2>1 DEF LaneInv, HistoriesBounded
  <2>2. ASSUME NEW v \in Values, new = {[t |-> clock + 1, v |-> v]}
        PROVE  ohlc' \subseteq Bar /\ IsFiniteSet(ohlc')
    <3> DEFINE bar == [t |-> clock + 1, v |-> v]
    <3>1. bar \in Bar
      BY <1>1 DEF Bar
    <3>2. ohlc' = ohlc \cup {bar} /\ IsFiniteSet(ohlc)
      BY <1>2, <2>2 DEF LaneInv, HistoriesBounded
    <3> HIDE DEF bar
    <3> QED
      BY <1>1, <3>1, <3>2, FS_AddElement
  <2> QED
    BY <1>2, <2>1, <2>2
<1>4. HistoriesBounded'
  BY <1>1, <1>2, <1>3 DEF LaneInv, TypeOK, HistoriesBounded, Bar, CloseBar
<1>5. TypeOK'
  BY <1>1, <1>3 DEF LaneInv, TypeOK, CloseBar, Memory, Reducer, Database
<1>6. MemoryNeverAheadOfStore' /\ PendingIsDurable'
  BY DEF LaneInv, CloseBar, MemoryNeverAheadOfStore, PendingIsDurable
<1>7. SeededFromStore => SeededFromStore'
  BY <1>3 DEF CloseBar, SeededFromStore
<1> QED
  BY <1>4, <1>5, <1>6, <1>7 DEF LaneInv

\* A repair changes the OHLC history and drops the connection.
LEMMA RepairInv == LaneInv /\ Repair => LaneInv'
<1> SUFFICES ASSUME LaneInv, Repair PROVE LaneInv'
  OBVIOUS
<1>1. PICK t \in 1..clock, v \in Values : ohlc' = (ohlc \ At(ohlc, t)) \cup {[t |-> t, v |-> v]}
  BY DEF Repair
<1>2. clock \in Nat /\ clock' = clock /\ ohlc \subseteq Bar /\ IsFiniteSet(ohlc)
  BY DEF LaneInv, TypeOK, HistoriesBounded, Repair
<1>3. IsFiniteSet(ohlc \ At(ohlc, t))
  BY <1>2, FS_Difference, Zenon
<1>4. ohlc' \subseteq Bar /\ ohlc' # {} /\ IsFiniteSet(ohlc')
  <2> DEFINE bar == [t |-> t, v |-> v]
             rest == ohlc \ At(ohlc, t)
  <2>1. bar \in Bar /\ rest \subseteq Bar /\ IsFiniteSet(rest) /\ ohlc' = rest \cup {bar}
    BY <1>1, <1>2, <1>3 DEF Bar
  <2> HIDE DEF bar, rest
  <2> QED
    BY <2>1, FS_AddElement
<1>5. HistoriesBounded'
  BY <1>1, <1>2, <1>4 DEF LaneInv, HistoriesBounded, Repair
<1>6. spent' \in [crashes : Nat, faults : Nat, repairs : Nat]
  BY DEF LaneInv, TypeOK, Repair, Spend
<1>7. TypeOK'
  BY <1>2, <1>4, <1>6 DEF LaneInv, TypeOK, Repair
<1>8. MemoryNeverAheadOfStore' /\ PendingIsDurable'
  BY DEF LaneInv, Repair, MemoryNeverAheadOfStore, PendingIsDurable
<1>9. SeededFromStore => SeededFromStore'
  BY <1>4 DEF Repair, SeededFromStore
<1> QED
  BY <1>5, <1>7, <1>8, <1>9 DEF LaneInv

\* Connect and Disconnect change the connection only.
LEMMA ConnectionInv == LaneInv /\ (Connect \/ Disconnect) => LaneInv'
<1> SUFFICES ASSUME LaneInv, Connect \/ Disconnect PROVE LaneInv'
  OBVIOUS
<1>1. /\ conn' \in {"down", "await"} /\ UNCHANGED <<clock, ohlc, cfg, lane, op, db>>
      /\ spent' \in [crashes : Nat, faults : Nat, repairs : Nat]
  BY DEF LaneInv, TypeOK, Connect, Disconnect, Spend, environment
<1>2. TypeOK'
  BY <1>1 DEF LaneInv, TypeOK
<1>3. HistoriesBounded' /\ MemoryNeverAheadOfStore' /\ PendingIsDurable'
  BY <1>1 DEF LaneInv, HistoriesBounded, MemoryNeverAheadOfStore, PendingIsDurable
<1>4. SeededFromStore => SeededFromStore'
  BY <1>1 DEF SeededFromStore
<1> QED
  BY <1>2, <1>3, <1>4 DEF LaneInv

\* A start and a crash leave a lane that stands on no bar and runs nothing.
LEMMA RestartInv == LaneInv /\ (Start \/ Crash) => LaneInv'
<1> SUFFICES ASSUME LaneInv, Start \/ Crash PROVE LaneInv'
  OBVIOUS
<1>1. /\ conn' \in {"down", "off"} /\ UNCHANGED <<clock, ohlc, db>>
      /\ cfg' \in Configs /\ lane' = Fresh(cfg') /\ op' \in {op, Idle}
      /\ spent' \in [crashes : Nat, faults : Nat, repairs : Nat]
  BY DEF LaneInv, TypeOK, Start, Crash, Spend, environment
<1>2. op' = Idle
  BY DEF LaneInv, PendingIsDurable, Start, Crash
<1>3. lane' \in Memory(cfg'.periods, {}) /\ lane'.last = None /\ lane'.projected = Unprojected
  BY <1>1, FreshType DEF Fresh
<1>4. TypeOK'
  BY <1>1, <1>2, <1>3, UnprojectedType DEF LaneInv, TypeOK, Idle
<1>5. HistoriesBounded'
  BY <1>1, <1>2, FS_EmptySet DEF LaneInv, HistoriesBounded, Idle
<1>6. MemoryNeverAheadOfStore' /\ PendingIsDurable'
  BY <1>2, <1>3 DEF MemoryNeverAheadOfStore, PendingIsDurable, Idle
<1>7. SeededFromStore => SeededFromStore'
  BY <1>1, <1>2 DEF SeededFromStore, Idle
<1> QED
  BY <1>4, <1>5, <1>6, <1>7 DEF LaneInv

\* A command that ends, or fails, without touching lane or store.
LEMMA StopInv ==
  ASSUME LaneInv, op' = Idle, conn' = "down" \/ (conn' = conn /\ lane.last # None /\ conn # "off"),
         UNCHANGED <<clock, ohlc, cfg, lane, db>>,
         spent' \in [crashes : Nat, faults : Nat, repairs : Nat]
  PROVE  LaneInv'
<1>1. TypeOK'
  BY DEF LaneInv, TypeOK, Idle
<1>2. HistoriesBounded'
  BY FS_EmptySet DEF LaneInv, HistoriesBounded, Idle
<1>3. MemoryNeverAheadOfStore' /\ PendingIsDurable'
  BY DEF LaneInv, MemoryNeverAheadOfStore, PendingIsDurable, Idle
<1>4. SeededFromStore => SeededFromStore'
  BY DEF SeededFromStore, Idle
<1> QED
  BY <1>1, <1>2, <1>3, <1>4 DEF LaneInv

\* applySeed up to its first store transaction.
LEMMA SeedInv == LaneInv /\ Seed => LaneInv'
<1> SUFFICES ASSUME LaneInv, NEW S \in Seeds, ApplySeed(S) PROVE LaneInv'
  BY DEF Seed
<1>1. /\ S \in SUBSET Bar /\ IsFiniteSet(S) /\ \A b \in S : b.t <= clock
      /\ S # {} => ohlc # {}
      /\ S = {} => EmptySeeds \/ ohlc = {}
  BY SeedsType DEF LaneInv
<1>2. UNCHANGED <<clock, ohlc, cfg, db>> /\ op = Idle /\ conn = "await"
  BY DEF ApplySeed, environment
<1>3. ASSUME conn' = "live", UNCHANGED spent,
             \/ op' = CatchingUp(S, TRUE) \/ op' = CatchingUp(S, FALSE)
             \/ op' = Rebuilding(S, TRUE) \/ op' = Rebuilding(S, FALSE),
             lane' \in Memory(cfg.periods, DOMAIN lane'.projected),
             DOMAIN lane'.projected \subseteq cfg.periods,
             lane'.last # None => db.cursor # None /\ lane'.last.t <= db.cursor.t,
             op'.pc = "catchup" => lane'.last # None,
             op'.pc = "rebuild" /\ S = {} => EmptySeeds \/ db.cursor = None
      PROVE  LaneInv'
  <2>1. PICK k \in {"catchup", "rebuild"}, r \in BOOLEAN :
             op' = [pc |-> k, seed |-> S, rebuild |-> r, next |-> None]
    BY <1>3, Zenon DEF CatchingUp, Rebuilding
  <2>2. TypeOK'
    BY <1>1, <1>2, <1>3, <2>1 DEF LaneInv, TypeOK
  <2>3. HistoriesBounded'
    BY <1>1, <1>2, <2>1 DEF LaneInv, HistoriesBounded
  <2>4. MemoryNeverAheadOfStore' /\ PendingIsDurable'
    BY <1>2, <1>3, <2>1 DEF MemoryNeverAheadOfStore, PendingIsDurable
  <2>5. ~EmptySeeds /\ SeededFromStore => SeededFromStore'
    BY <1>1, <1>2, <1>3, <2>1 DEF SeededFromStore
  <2> QED
    BY <2>2, <2>3, <2>4, <2>5 DEF LaneInv
<1>4. CASE /\ lane.last # None
           /\ op' = IF SeedConflictsWithHistory(S) THEN Rebuilding(S, TRUE) ELSE CatchingUp(S, TRUE)
           /\ conn' = "live"
           /\ UNCHANGED <<lane, spent>>
  <2>1. SeedConflictsWithHistory(S) => S # {}
    BY DEF SeedConflictsWithHistory, UpTo
  <2>2. Rebuilding(S, TRUE).pc = "rebuild" /\ CatchingUp(S, TRUE).pc = "catchup"
    BY DEF Rebuilding, CatchingUp
  <2> QED
    BY <1>3, <1>4, <2>1, <2>2, Zenon DEF LaneInv, TypeOK, MemoryNeverAheadOfStore
<1>5. CASE /\ lane.last = None /\ db.cursor = None
           /\ op' = Rebuilding(S, FALSE)
           /\ conn' = "live"
           /\ UNCHANGED <<lane, spent>>
  BY <1>3, <1>5 DEF LaneInv, TypeOK, MemoryNeverAheadOfStore, Rebuilding
<1>6. CASE /\ lane.last = None /\ db.cursor # None /\ Restorable(S)
           /\ lane' = Restored(S)
           /\ op' = CatchingUp(S, FALSE)
           /\ conn' = "live"
           /\ UNCHANGED spent
  <2>1. /\ lane' \in Memory(cfg.periods, {}) /\ lane'.last # None
        /\ lane'.last.t <= db.cursor.t
    BY <1>1, <1>6, RestoredType DEF LaneInv
  <2>2. DOMAIN lane'.projected = {}
    BY <2>1 DEF Memory
  <2>3. CatchingUp(S, FALSE).pc = "catchup"
    BY DEF CatchingUp
  <2> QED
    BY <1>3, <1>6, <2>1, <2>2, <2>3, Zenon
<1>7. CASE /\ lane.last = None /\ db.cursor # None /\ ~Restorable(S)
           /\ op' = Rebuilding(S, TRUE)
           /\ conn' = "live"
           /\ UNCHANGED <<lane, spent>>
  <2>1. S = {} => EmptySeeds \/ db.cursor = None
    BY <1>1 DEF LaneInv, SeededFromStore
  <2> QED
    BY <1>3, <1>7, <2>1 DEF LaneInv, TypeOK, MemoryNeverAheadOfStore, Rebuilding
<1>8. CASE /\ lane.last = None
           /\ Spend("faults", MaxFaults)
           /\ Fail
           /\ UNCHANGED lane
  <2>1. spent' \in [crashes : Nat, faults : Nat, repairs : Nat]
    BY <1>8, SpendType
  <2> QED
    BY <1>2, <1>8, <2>1, StopInv DEF Fail
<1> QED
  BY <1>4, <1>5, <1>6, <1>7, <1>8, Zenon DEF ApplySeed

\* A bar that fails: the command is over, or goes on as a rebuild.
LEMMA FailBarInv ==
  ASSUME LaneInv, FailBar, UNCHANGED <<clock, ohlc, cfg, lane>>,
         db' \in Database, spent' \in [crashes : Nat, faults : Nat, repairs : Nat],
         db.cursor # None => db'.cursor # None /\ db.cursor.t <= db'.cursor.t,
         op.rebuild => op.seed # {}, conn # "off", ~EmptySeeds => ohlc # {}
  PROVE  LaneInv'
<1>1. \/ op' = Rebuilding(op.seed, TRUE) /\ conn' = conn /\ op.seed # {}
      \/ op' = Idle /\ conn' = "down"
  BY Zenon DEF FailBar, Fail
<1>2. PICK k \in {"rebuild", "idle"}, S \in {op.seed, {}}, r \in BOOLEAN :
           /\ op' = [pc |-> k, seed |-> S, rebuild |-> r, next |-> None]
           /\ k = "rebuild" => S # {}
           /\ k = "idle" => conn' = "down"
           /\ conn' \in {conn, "down"}
  <2>1. CASE op' = Rebuilding(op.seed, TRUE) /\ conn' = conn /\ op.seed # {}
    BY <2>1, Zenon DEF Rebuilding
  <2>2. CASE op' = Idle /\ conn' = "down"
    BY <2>2, Zenon DEF Idle
  <2> QED
    BY <1>1, <2>1, <2>2, Zenon
<1>3. TypeOK'
  BY <1>2 DEF LaneInv, TypeOK
<1>4. HistoriesBounded'
  BY <1>2, FS_EmptySet, Zenon DEF LaneInv, HistoriesBounded
<1>5. MemoryNeverAheadOfStore'
  <2>1. lane.last # None => lane.last \in Bar /\ db.cursor \in Bar /\ lane.last.t <= db.cursor.t
    BY DEF LaneInv, TypeOK, MemoryNeverAheadOfStore, Database, Memory
  <2>2. db'.cursor # None => db'.cursor \in Bar
    BY DEF Database
  <2> QED
    BY <2>1, <2>2 DEF LaneInv, MemoryNeverAheadOfStore, Bar
<1>6. PendingIsDurable'
  BY <1>2 DEF PendingIsDurable
<1>7. ~EmptySeeds /\ SeededFromStore => SeededFromStore'
  BY <1>2 DEF SeededFromStore
<1> QED
  BY <1>3, <1>4, <1>5, <1>6, <1>7 DEF LaneInv

\* applyClosed, for a bar of the live stream or of a seed being caught up.
LEMMA ApplyClosedInv ==
  ASSUME LaneInv, NEW bar \in Bar, ApplyClosed(bar), ~EmptySeeds => ohlc # {}, op.pc \in {"idle", "catchup"},
         op.rebuild => op.seed # {}, conn # "off"
  PROVE  LaneInv'
<1>1. UNCHANGED <<clock, ohlc, cfg, lane>> /\ lane \in Memory(cfg.periods, DOMAIN lane.projected)
  BY DEF LaneInv, TypeOK, ApplyClosed, environment
<1>3. CASE /\ Rejected(bar) \/ ConflictsWithCursor(db, bar)
           /\ FailBar
           /\ UNCHANGED <<db, spent>>
  <2>1. db' \in Database /\ spent' \in [crashes : Nat, faults : Nat, repairs : Nat]
    BY <1>3, LaneTypes
  <2>2. db.cursor # None => db'.cursor # None /\ db.cursor.t <= db'.cursor.t
    BY <1>3, LaneTypes
  <2> QED
    BY <1>1, <1>3, <2>1, <2>2, FailBarInv
<1>4. ~ConflictsWithCursor(db, bar) =>
        /\ Committed(bar) \in Database /\ db \in Database
        /\ Committed(bar).cursor # None /\ Committed(bar).cursor.t = bar.t
        /\ db.cursor # None => db.cursor.t \in Nat /\ db.cursor.t <= bar.t
  BY CommittedType, Zenon DEF LaneInv, TypeOK, Database, Bar
<1>5. CASE /\ ~Rejected(bar) /\ ~ConflictsWithCursor(db, bar)
           /\ db' \in {db, Committed(bar)}
           /\ Spend("faults", MaxFaults)
           /\ FailBar
  <2>1. spent' \in [crashes : Nat, faults : Nat, repairs : Nat]
    BY <1>5, SpendType
  <2> QED
    BY <1>1, <1>4, <1>5, <2>1, FailBarInv
<1>6. CASE /\ ~Rejected(bar) /\ ~ConflictsWithCursor(db, bar)
           /\ db' = Committed(bar)
           /\ op' = Installing(Advance(lane, bar))
           /\ UNCHANGED <<conn, spent>>
  <2>1. Advance(lane, bar) \in Memory(cfg.periods, {}) /\ Advance(lane, bar).last = bar
    BY <1>1, AdvanceType
  <2>2. op'.pc = "install" /\ op'.next = Advance(lane, bar) /\ op'.seed = op.seed
    BY <1>6 DEF Installing, LaneInv, TypeOK
  <2>3. op' \in [pc : {"idle", "catchup", "rebuild", "install"}, seed : SUBSET Bar,
                 rebuild : BOOLEAN, next : Memory(cfg.periods, {}) \cup {None}]
    BY <1>6, <2>1, Zenon DEF Installing, LaneInv, TypeOK
  <2>4. TypeOK'
    BY <1>1, <1>4, <1>6, <2>1, <2>2, <2>3 DEF LaneInv, TypeOK
  <2>5. HistoriesBounded'
    BY <1>1, <2>2 DEF LaneInv, HistoriesBounded
  <2>6. MemoryNeverAheadOfStore'
    <3>1. lane.last # None => lane.last.t \in Nat /\ db.cursor.t \in Nat /\ db.cursor # None /\ lane.last.t <= db.cursor.t
      BY LaneTypes DEF LaneInv, MemoryNeverAheadOfStore
    <3>2. bar.t \in Nat
      BY DEF Bar
    <3> QED
      BY <1>1, <1>4, <1>6, <3>1, <3>2 DEF MemoryNeverAheadOfStore
  <2>7. PendingIsDurable'
    <3>1. bar.t \in Nat /\ bar # None /\ db'.cursor # None /\ db'.cursor.t = bar.t
      BY <1>4, <1>6, NoneIsNoBar DEF Bar
    <3>2. op'.next.last = bar /\ conn' = conn
      BY <1>6, <2>1, <2>2
    <3> QED
      BY <2>2, <3>1, <3>2 DEF PendingIsDurable
  <2>8. ~EmptySeeds /\ SeededFromStore => SeededFromStore'
    BY <1>1, <2>1, <2>2, NoneIsNoBar DEF SeededFromStore
  <2> QED
    BY <2>4, <2>5, <2>6, <2>7, <2>8 DEF LaneInv
<1> QED
  BY <1>3, <1>5, <1>6 DEF ApplyClosed

\* A closed bar from the socket.
LEMMA ReceiveClosedInv == LaneInv /\ ReceiveClosed => LaneInv'
<1> SUFFICES ASSUME LaneInv, conn = "live", op = Idle, NEW bar \in ohlc, ApplyClosed(bar)
             PROVE  LaneInv'
  BY DEF ReceiveClosed
<1>1. bar \in Bar /\ op.pc = "idle" /\ op.rebuild = FALSE
  BY DEF LaneInv, TypeOK, Idle
<1> QED
  BY <1>1, ApplyClosedInv

\* One turn of the catch-up loop.
LEMMA CatchUpInv == LaneInv /\ CatchUp => LaneInv'
<1> SUFFICES ASSUME LaneInv, CatchUp PROVE LaneInv'
  OBVIOUS
<1> DEFINE here == At(op.seed, lane.last.t)
           rest == After(op.seed, lane.last.t)
<1>1. /\ op.pc = "catchup" /\ conn # "off" /\ op.seed \subseteq Bar
      /\ lane.last # None
      /\ ~EmptySeeds /\ op.seed # {} => ohlc # {}
  <2>1. op.pc = "catchup"
    BY DEF CatchUp
  <2>2. conn # "off" /\ lane.last # None
    BY <2>1 DEF LaneInv, PendingIsDurable, Idle
  <2>3. ~EmptySeeds /\ op.seed # {} => ohlc # {}
    BY DEF LaneInv, SeededFromStore
  <2> QED
    BY <2>1, <2>2, <2>3, LaneTypes
<1>2. CASE /\ here \subseteq {lane.last} /\ rest = {}
           /\ op' = Idle
           /\ UNCHANGED <<environment, conn, cfg, lane, db, spent>>
  <2>1. spent' \in [crashes : Nat, faults : Nat, repairs : Nat]
    BY <1>2, LaneTypes
  <2> QED
    BY <1>1, <1>2, <2>1, StopInv DEF environment
<1>3. CASE /\ ~(here \subseteq {lane.last})
           /\ FailBar
           /\ UNCHANGED <<environment, cfg, lane, db, spent>>
  <2>1. op.seed # {}
    BY <1>3 DEF At
  <2>2. db' \in Database /\ spent' \in [crashes : Nat, faults : Nat, repairs : Nat]
    BY <1>3, LaneTypes
  <2>3. db.cursor # None => db'.cursor # None /\ db.cursor.t <= db'.cursor.t
    BY <1>3, LaneTypes
  <2>4. UNCHANGED <<clock, ohlc, cfg, lane>>
    BY <1>3 DEF environment
  <2> QED
    BY <1>1, <1>3, <2>1, <2>2, <2>3, <2>4, FailBarInv
<1>4. CASE /\ here \subseteq {lane.last} /\ rest # {}
           /\ ApplyClosed(Earliest(rest))
  <2>1. rest \subseteq op.seed /\ rest \in SUBSET Bar /\ rest # {}
    BY <1>1, <1>4 DEF After
  <2>2. Earliest(rest) \in Bar /\ op.seed # {}
    <3> HIDE DEF rest
    <3> QED
      BY <2>1, EarliestIsFirst
  <2>3. ApplyClosed(Earliest(rest))
    BY <1>4
  <2> HIDE DEF rest
  <2> QED
    BY <1>1, <2>2, <2>3, ApplyClosedInv DEF LaneInv, PendingIsDurable
<1> QED
  BY <1>2, <1>3, <1>4 DEF CatchUp

\* What is installed is already durable, so memory does not overtake it.
LEMMA InstallInv == LaneInv /\ Install => LaneInv'
<1> SUFFICES ASSUME LaneInv, Install PROVE LaneInv'
  OBVIOUS
<1>1. /\ op.pc = "install" /\ lane' = op.next /\ op.next \in Memory(cfg.periods, {})
      /\ UNCHANGED <<clock, ohlc, conn, cfg, db, spent>>
  BY DEF LaneInv, TypeOK, Install, environment
<1>2. DOMAIN lane'.projected = {}
  BY <1>1 DEF Memory
<1>3. PICK k \in {"idle", "catchup"}, r \in BOOLEAN :
        /\ op' = [pc |-> k, seed |-> op.seed, rebuild |-> r, next |-> None]
        /\ k = "catchup" => op.seed # {}
        /\ k = "idle" => op' = Idle
  <2>1. CASE op.seed = {}
    BY <2>1, Zenon DEF Install, Idle
  <2>2. CASE op.seed # {}
    BY <2>2 DEF Install, CatchingUp, LaneInv, TypeOK
  <2> QED
    BY <2>1, <2>2
<1>4. TypeOK'
  BY <1>1, <1>2, <1>3 DEF LaneInv, TypeOK
<1>5. HistoriesBounded'
  BY <1>1, <1>3 DEF LaneInv, HistoriesBounded
<1>6. MemoryNeverAheadOfStore'
  BY <1>1 DEF LaneInv, PendingIsDurable, MemoryNeverAheadOfStore
<1>7. PendingIsDurable'
  BY <1>1, <1>3 DEF LaneInv, PendingIsDurable, Idle
<1>8. SeededFromStore => SeededFromStore'
  BY <1>1, <1>3 DEF SeededFromStore
<1> QED
  BY <1>4, <1>5, <1>6, <1>7, <1>8 DEF LaneInv

\* rebuildSeed's transaction, committed, lost or ambiguous.
LEMMA RebuildInv == LaneInv /\ Rebuild => LaneInv'
<1> SUFFICES ASSUME LaneInv, Rebuild PROVE LaneInv'
  BY Zenon
<1>0. PICK m : m = Replay(cfg, op.seed)
  BY Zenon
<1> DEFINE refused == (\E b \in op.seed : ~Valid(b)) \/ MovesBackwards(db, m.last)
<1>1. /\ op.pc = "rebuild" /\ conn # "off"
      /\ UNCHANGED <<clock, ohlc, cfg, lane>>
  BY SMT, SMTT(30) DEF LaneInv, TypeOK, Rebuild, PendingIsDurable, Idle, environment
<1>2. /\ m \in Memory(cfg.periods, {}) /\ op.seed \subseteq Bar
      /\ IF op.seed = {} THEN m.last = None ELSE m.last \in op.seed
      /\ RebuildTx \in Database
      /\ RebuildTx.cursor = IF op.seed = {} THEN db.cursor ELSE m.last
  BY <1>0, RebuildTxType, Zenon DEF LaneInv, TypeOK
<1>3. /\ db.cursor # None => db.cursor \in Bar
      /\ m.last # None => m.last \in Bar
      /\ m.last = None <=> op.seed = {}
  BY <1>2, NoneIsNoBar, Zenon DEF LaneInv, TypeOK, Database, Memory
<1>4. ASSUME ~refused, db' \in {db, RebuildTx}
      PROVE  /\ db' \in Database
             /\ db.cursor # None => db'.cursor # None /\ db.cursor.t <= db'.cursor.t
  <2>1. CASE db' = db
    BY <2>1, LaneTypes, SMT, SMTT(30)
  <2>2. CASE db' = RebuildTx /\ op.seed = {}
    BY <1>2, <2>2, LaneTypes, SMT, SMTT(30)
  <2>3. CASE db' = RebuildTx /\ op.seed # {}
    <3>1. db'.cursor = m.last /\ m.last # None /\ m.last.t \in Nat
      BY <1>2, <1>3, <2>3, Zenon DEF Bar
    <3>2. db.cursor # None => ~(m.last.t < db.cursor.t)
      BY <1>4, <3>1, Zenon DEF MovesBackwards
    <3> QED
      BY <1>2, <2>3, <3>1, <3>2, LaneTypes, SMT, SMTT(30)
  <2> QED
    BY <1>4, <2>1, <2>2, <2>3, Zenon
<1>6. ASSUME ~refused, db' \in {db, RebuildTx}
      PROVE  MemoryNeverAheadOfStore'
  <2>1. db'.cursor # None => db'.cursor.t \in Nat
    BY <1>4, <1>6, Zenon DEF Database, Bar
  <2>2. lane.last # None => db.cursor # None /\ lane.last.t <= db.cursor.t
    BY Zenon DEF LaneInv, MemoryNeverAheadOfStore
  <2>3. /\ lane.last # None => lane.last.t \in Nat
        /\ db.cursor # None => db.cursor.t \in Nat
    BY LaneTypes, Zenon
  <2> QED
    BY <1>1, <1>4, <1>6, <2>1, <2>2, <2>3, SMTT(20), SMTT(30) DEF MemoryNeverAheadOfStore
<1>7. CASE /\ refused
           /\ Fail
           /\ UNCHANGED <<db, spent>>
  <2>1. spent' \in [crashes : Nat, faults : Nat, repairs : Nat]
    BY <1>7, LaneTypes, Zenon
  <2> QED
    BY <1>1, <1>7, <2>1, StopInv, Zenon DEF Fail
<1>8. CASE /\ ~refused
           /\ db' = RebuildTx
           /\ op' = [Idle EXCEPT !.pc = "install", !.next = m]
           /\ UNCHANGED <<conn, spent>>
  <2>0. db' = RebuildTx /\ UNCHANGED <<conn, spent>>
    BY <1>8, Zenon
  <2>1. op' = [pc |-> "install", seed |-> {}, rebuild |-> FALSE, next |-> m]
    BY <1>8, Zenon DEF Idle
  <2>2. TypeOK'
    BY <1>1, <1>2, <2>0, <2>1, Zenon DEF LaneInv, TypeOK
  <2>3. HistoriesBounded'
    BY <1>1, <2>1, FS_EmptySet, Zenon DEF LaneInv, HistoriesBounded
  <2>4. MemoryNeverAheadOfStore'
    BY <1>6, <1>8, Zenon
  <2>5. PendingIsDurable'
    <3>1. op'.pc = "install" /\ op'.seed = {} /\ op'.next.last = m.last /\ conn' # "off"
      BY <1>1, <2>0, <2>1, Zenon
    <3>2. m.last # None => db'.cursor = m.last /\ m.last.t \in Nat
      BY <1>2, <1>3, <2>0, Zenon DEF Bar
    <3> QED
      BY <3>1, <3>2, SMT, SMTT(30) DEF PendingIsDurable
  <2>6. SeededFromStore => SeededFromStore'
    BY <1>1, <1>2, <1>3, <2>0, <2>1, Zenon DEF SeededFromStore
  <2> QED
    BY <2>2, <2>3, <2>4, <2>5, <2>6, Zenon DEF LaneInv
<1>9. CASE /\ ~refused
           /\ db' \in {db, RebuildTx}
           /\ Spend("faults", MaxFaults)
           /\ Fail
  <2>1. op' = [pc |-> "idle", seed |-> {}, rebuild |-> FALSE, next |-> None] /\ conn' = "down"
    BY <1>9, Zenon DEF Fail, Idle
  <2>2. spent' \in [crashes : Nat, faults : Nat, repairs : Nat]
    BY <1>9, SpendType, Zenon
  <2>3. TypeOK'
    BY <1>1, <1>4, <1>9, <2>1, <2>2, Zenon DEF LaneInv, TypeOK
  <2>4. HistoriesBounded'
    BY <1>1, <2>1, FS_EmptySet, Zenon DEF LaneInv, HistoriesBounded
  <2>5. MemoryNeverAheadOfStore'
    BY <1>6, <1>9, Zenon
  <2>6. PendingIsDurable'
    BY <2>1, Zenon DEF PendingIsDurable
  <2>7. SeededFromStore => SeededFromStore'
    BY <1>1, <1>2, <1>3, <1>9, <2>1, Zenon DEF SeededFromStore
  <2> QED
    BY <2>3, <2>4, <2>5, <2>6, <2>7, Zenon DEF LaneInv
<1> QED
  BY <1>0, <1>7, <1>8, <1>9, Zenon DEF Rebuild

\* A forming candle touches the projection only.
LEMMA FormingInv == LaneInv /\ ApplyForming => LaneInv'
<1> SUFFICES ASSUME LaneInv, conn = "live", op = Idle,
                    NEW t \in {clock, clock + 1} \ {0}, NEW v \in Values,
                    UNCHANGED <<clock, ohlc, cfg, db, spent>>,
                    LET bar   == [t |-> t, v |-> v]
                        ready == {p \in cfg.periods : Ready(p, Fold(lane.ema[p], bar))}
                    IN  IF Valid(bar)
                          THEN /\ lane.last # None => bar.t >= lane.last.t
                               /\ lane' = [lane EXCEPT
                                    !.forming = bar,
                                    !.projected = [p \in ready |-> Fold(lane.ema[p], bar)]]
                               /\ UNCHANGED <<conn, op>>
                          ELSE Fail /\ UNCHANGED lane
             PROVE  LaneInv'
  BY Zenon DEF ApplyForming, environment
<1> DEFINE bar == [t |-> t, v |-> v]
           ready == {p \in cfg.periods : Ready(p, Fold(lane.ema[p], bar))}
           projection == [p \in ready |-> Fold(lane.ema[p], bar)]
<1>1. bar \in Bar
  BY SMT, SMTT(30) DEF LaneInv, TypeOK, Bar
<1>2. CASE ~Valid(bar)
  <2>1. Fail /\ UNCHANGED lane
    BY <1>2, Zenon
  <2> QED
    BY <2>1, StopInv, LaneTypes, Zenon DEF Fail
<1>3. CASE Valid(bar)
  <2>1. lane' = [lane EXCEPT !.forming = bar, !.projected = projection] /\ UNCHANGED <<conn, op>>
    BY <1>3, Zenon
  <2>2. projection \in [ready -> Reducer] /\ DOMAIN projection = ready /\ ready \subseteq cfg.periods
    <3>1. \A p \in cfg.periods : lane.ema[p] \in Reducer
      BY Zenon DEF LaneInv, TypeOK, Memory
    <3> HIDE DEF bar
    <3> QED
      BY <1>1, <3>1, FoldType, Zenon
  <2> HIDE DEF bar, ready, projection
  <2>3. lane' \in Memory(cfg.periods, ready) /\ lane'.projected = projection /\ lane'.last = lane.last
    BY <1>1, <2>1, <2>2, Zenon DEF LaneInv, TypeOK, Memory
  <2>4. TypeOK'
    BY <2>1, <2>2, <2>3, Zenon DEF LaneInv, TypeOK
  <2>5. HistoriesBounded' /\ MemoryNeverAheadOfStore' /\ PendingIsDurable'
    BY <2>1, <2>3, Zenon DEF LaneInv, HistoriesBounded, MemoryNeverAheadOfStore, PendingIsDurable, Idle
  <2>6. SeededFromStore => SeededFromStore'
    BY <2>1, <2>3, Zenon DEF SeededFromStore
  <2> QED
    BY <2>4, <2>5, <2>6, Zenon DEF LaneInv
<1> QED
  BY <1>2, <1>3, Zenon

-----------------------------------------------------------------------------
(* The theorems.                                                           *)

\* Every step of the lane, its environment and its failures keeps LaneInv.
LEMMA StepInv == LaneInv /\ [Next]_vars => LaneInv'
<1>1. ASSUME LaneInv, UNCHANGED vars PROVE LaneInv'
  <2>1. UNCHANGED <<clock, ohlc, conn, cfg, lane, op, db, spent>>
    BY <1>1, Zenon DEF vars
  <2>2. TypeOK'
    BY <1>1, <2>1, Zenon DEF LaneInv, TypeOK
  <2>3. HistoriesBounded' /\ MemoryNeverAheadOfStore' /\ PendingIsDurable'
    BY <1>1, <2>1, Zenon DEF LaneInv, HistoriesBounded, MemoryNeverAheadOfStore, PendingIsDurable
  <2>4. SeededFromStore => SeededFromStore'
    BY <2>1, Zenon DEF SeededFromStore
  <2> QED
    BY <1>1, <2>2, <2>3, <2>4, Zenon DEF LaneInv
<1> QED
  BY <1>1, CloseBarInv, RepairInv, ConnectionInv, RestartInv, SeedInv, ReceiveClosedInv,
     CatchUpInv, InstallInv, RebuildInv, FormingInv, Zenon
     DEF Next

\* LaneInv is an invariant.
THEOREM LaneInvariant == Spec => []LaneInv
BY InitInv, StepInv, PTL DEF Spec

\* TypeOK: the lane's memory always has the reducers of the running
\* configuration, and every variable its type.
THEOREM TypeCorrect == Spec => []TypeOK
<1>1. LaneInv => TypeOK
  BY Zenon DEF LaneInv
<1> QED
  BY <1>1, LaneInvariant, PTL

\* In-memory state advances only after the durable transaction commits.
THEOREM MemoryFollowsStore == Spec => []MemoryNeverAheadOfStore
<1>1. LaneInv => MemoryNeverAheadOfStore
  BY Zenon DEF LaneInv
<1> QED
  BY <1>1, LaneInvariant, PTL

\* What a step does to the store: nothing, a rebuild that is not behind the
\* cursor, or the commit of a bar that neither lane nor store refuses.
LEMMA StoreWrites ==
  ASSUME LaneInv, [Next]_vars, db' # db
  PROVE  \/ op.pc = "rebuild" /\ db' = RebuildTx /\ ~MovesBackwards(db, Replay(cfg, op.seed).last)
         \/ \E bar \in ohlc \cup op.seed :
              /\ (conn = "live" /\ op.pc = "idle") \/ op.pc = "catchup"
              /\ bar \in Bar /\ bar # lane.last /\ ~Rejected(bar)
              /\ ~ConflictsWithCursor(db, bar)
              /\ db' = Committed(bar)
<1>1. ReceiveClosed \/ CatchUp \/ Rebuild
  BY Zenon DEF Next, vars, CloseBar, Repair, Connect, Disconnect, Start, Crash, Seed, ApplySeed,
         Install, ApplyForming
<1>2. CASE ReceiveClosed
  <2>1. PICK bar \in ohlc : conn = "live" /\ op = Idle /\ ApplyClosed(bar)
    BY <1>2, Zenon DEF ReceiveClosed
  <2>2. bar \in Bar /\ op.pc = "idle"
    BY <2>1, Zenon DEF LaneInv, TypeOK, Idle
  <2> QED
    BY <2>1, <2>2, Zenon DEF ApplyClosed
<1>3. CASE CatchUp
  <2> DEFINE rest == After(op.seed, lane.last.t)
  <2>1. op.pc = "catchup" /\ rest # {} /\ ApplyClosed(Earliest(rest))
    BY <1>3, Zenon DEF CatchUp
  <2>2. rest \in SUBSET Bar
    BY Zenon DEF LaneInv, TypeOK, After
  <2> HIDE DEF rest
  <2>3. Earliest(rest) \in rest
    BY <2>1, <2>2, EarliestIsFirst, Zenon
  <2>4. Earliest(rest) \in Bar /\ Earliest(rest) \in op.seed
    BY <2>2, <2>3, Zenon DEF rest, After
  <2> QED
    BY <2>1, <2>4, Zenon DEF ApplyClosed
<1>4. CASE Rebuild
  BY <1>4, Zenon DEF Rebuild
<1> QED
  BY <1>1, <1>2, <1>3, <1>4, Zenon

\* No step moves the durable cursor back or loses it.
LEMMA StoreGoesForward ==
  ASSUME LaneInv, [Next]_vars, db.cursor # None
  PROVE  db'.cursor # None /\ db'.cursor.t >= db.cursor.t
<1>1. db.cursor \in Bar /\ db.cursor.t \in Nat
  BY Zenon DEF LaneInv, TypeOK, Database, Bar
<1>2. CASE db' = db
  BY <1>1, <1>2, SMT, SMTT(30)
<1>3. CASE db' # db /\ op.pc = "rebuild" /\ db' = RebuildTx
           /\ ~MovesBackwards(db, Replay(cfg, op.seed).last)
  <2>1. RebuildTx.cursor = (IF op.seed = {} THEN db.cursor ELSE Replay(cfg, op.seed).last)
        /\ (op.seed # {} => Replay(cfg, op.seed).last \in op.seed) /\ op.seed \subseteq Bar
    BY RebuildTxType, Zenon DEF LaneInv, TypeOK
  <2> QED
    <3>1. CASE op.seed = {}
      BY <1>1, <1>3, <2>1, <3>1, SMT, SMTT(30)
    <3>2. CASE op.seed # {}
      <4>1. db'.cursor = Replay(cfg, op.seed).last /\ db'.cursor \in Bar
        BY <1>3, <2>1, <3>2, Zenon
      <4>2. db'.cursor # None /\ db'.cursor.t \in Nat
        BY <4>1, NoneIsNoBar, Zenon DEF Bar
      <4> QED
        BY <1>1, <1>3, <4>1, <4>2, SMT, SMTT(30) DEF MovesBackwards
    <3> QED
      BY <3>1, <3>2, Zenon
<1>4. ASSUME NEW bar \in Bar, ~ConflictsWithCursor(db, bar), db' = Committed(bar)
      PROVE  db'.cursor # None /\ db'.cursor.t >= db.cursor.t
  BY <1>1, <1>4, CommittedType, Zenon DEF LaneInv, Bar
<1> QED
  BY <1>2, <1>3, <1>4, StoreWrites, Zenon

\* upsertCursor: no commit, rebuild, failure or restart moves the durable
\* cursor back or loses it.
THEOREM CursorMonotonic == Spec => CursorNeverMovesBack
<1>1. LaneInv /\ [Next]_vars
        => [db.cursor # None => db'.cursor # None /\ db'.cursor.t >= db.cursor.t]_vars
  BY StoreGoesForward, Zenon
<1> QED
  BY <1>1, LaneInvariant, PTL DEF Spec, CursorNeverMovesBack

\* The gap check of applyClosed suffices: if the OHLC service never answers
\* an empty seed, every bar committed outside a rebuild directly follows the
\* durable cursor.
THEOREM CommitsContiguous ==
  ASSUME ~EmptySeeds
  PROVE  Spec => CommitsAreContiguous
<1>1. LaneInv /\ [Next]_vars
        => [db'.cursor # db.cursor /\ db.cursor # None /\ op.pc # "rebuild"
              => db'.cursor.t = db.cursor.t + 1]_vars
  <2> SUFFICES ASSUME LaneInv, [Next]_vars,
                      db'.cursor # db.cursor, db.cursor # None, op.pc # "rebuild"
               PROVE  db'.cursor.t = db.cursor.t + 1
    BY Zenon
  <2>1. PICK bar \in Bar : /\ (conn = "live" /\ op.pc = "idle") \/ op.pc = "catchup"
                           /\ bar # lane.last /\ ~Rejected(bar)
                           /\ ~ConflictsWithCursor(db, bar)
                           /\ db' = Committed(bar)
    BY StoreWrites, Zenon
  <2>2. lane.last # None
    BY <2>1, Zenon DEF LaneInv, PendingIsDurable, SeededFromStore
  <2>3. db'.cursor.t = bar.t /\ db.cursor.t < bar.t
    BY <2>1, CommittedType, Zenon DEF LaneInv
  <2>4. lane.last.t \in Nat /\ bar.t \in Nat /\ db.cursor.t \in Nat
    BY <2>2, Zenon DEF LaneInv, TypeOK, Memory, Database, Bar
  <2>5. lane.last.t <= db.cursor.t
    BY <2>2, Zenon DEF LaneInv, MemoryNeverAheadOfStore
  <2>6. bar.t = lane.last.t + 1
    BY <2>1, <2>2, <2>3, <2>4, <2>5, SMTT(20), SMTT(30) DEF Rejected
  <2> QED
    BY <2>3, <2>4, <2>5, <2>6, SMT, SMTT(30)
<1> QED
  BY <1>1, LaneInvariant, PTL DEF Spec, CommitsAreContiguous

-----------------------------------------------------------------------------
(* The lane implements Journal.                                            *)

\* A closed bar the lane commits lies behind no bar memory stands on.
LEMMA ApplyClosedForward ==
  ASSUME LaneInv, NEW bar \in Bar, ApplyClosed(bar), op'.pc = "install"
  PROVE  InstallsForward'
<1>1. lane' = lane /\ lane \in Memory(cfg.periods, DOMAIN lane.projected)
  BY Zenon DEF ApplyClosed, LaneInv, TypeOK
<1>2. bar # lane.last /\ ~Rejected(bar) /\ op' = Installing(Advance(lane, bar))
  <2>1. ~FailBar
    BY SMT, SMTT(30) DEF FailBar, Fail, Idle, Rebuilding
  <2> QED
    BY <2>1, Zenon DEF ApplyClosed
<1>3. op'.next = Advance(lane, bar) /\ Advance(lane, bar).last = bar
  BY <1>1, <1>2, AdvanceType, SMT, SMTT(30) DEF Installing, LaneInv, TypeOK
<1>4. lane.last # None => lane.last.t \in Nat /\ bar.t \in Nat
  BY <1>1, Zenon DEF Memory, Bar
<1> QED
  BY <1>1, <1>2, <1>3, <1>4, SMT, SMTT(30) DEF InstallsForward, Rejected

\* InstallsForward is preserved by every step.
LEMMA StepForward == LaneInv /\ InstallsForward /\ [Next]_vars => InstallsForward'
<1> SUFFICES ASSUME LaneInv, InstallsForward, [Next]_vars, op'.pc = "install"
             PROVE  InstallsForward'
  BY Zenon DEF InstallsForward
<1>1. CASE op' = op /\ lane' = lane
  BY <1>1, Zenon DEF InstallsForward
<1>2. CASE ReceiveClosed
  <2>1. PICK bar \in ohlc : ApplyClosed(bar)
    BY <1>2, Zenon DEF ReceiveClosed
  <2> QED
    BY <2>1, ApplyClosedForward, Zenon DEF LaneInv, TypeOK
<1>3. CASE CatchUp
  <2> DEFINE rest == After(op.seed, lane.last.t)
  <2>1. rest # {} /\ ApplyClosed(Earliest(rest))
    <3>1. op' # Idle /\ ~FailBar
      BY SMTT(20), SMTT(30) DEF FailBar, Fail, Idle, Rebuilding
    <3> QED
      BY <1>3, <3>1, Zenon DEF CatchUp
  <2>2. rest \in SUBSET Bar
    BY Zenon DEF LaneInv, TypeOK, After
  <2> HIDE DEF rest
  <2>3. Earliest(rest) \in Bar
    BY <2>1, <2>2, EarliestIsFirst, Zenon
  <2> QED
    BY <2>1, <2>3, ApplyClosedForward, Zenon
<1>4. CASE Rebuild
  <2>0. PICK m : m = Replay(cfg, op.seed)
    BY Zenon
  <2>1. op'.next = m /\ lane' = lane /\ ~MovesBackwards(db, m.last)
    <3>1. ~Fail
      BY SMT, SMTT(30) DEF Fail, Idle
    <3>2. /\ op' = [Idle EXCEPT !.pc = "install", !.next = m]
          /\ lane' = lane /\ ~MovesBackwards(db, m.last)
      BY <1>4, <2>0, <3>1, Zenon DEF Rebuild
    <3> QED
      BY <3>2, Zenon DEF Idle
  <2>2. m.last # None => m.last \in Bar
    BY <2>0, RebuildTxType, Zenon DEF LaneInv, Memory
  <2>3. lane.last # None => /\ db.cursor # None /\ lane.last.t <= db.cursor.t
                            /\ lane.last.t \in Nat /\ db.cursor.t \in Nat
    BY Zenon DEF LaneInv, TypeOK, MemoryNeverAheadOfStore, Memory, Database, Bar
  <2> QED
    BY <2>1, <2>2, <2>3, SMT, SMTT(30) DEF InstallsForward, MovesBackwards, Bar
<1>5. op' # Idle /\ ~Fail
  BY SMT, SMTT(30) DEF Fail, Idle
<1>6. CASE Start
  <2>1. conn = "off" /\ op' = op
    BY <1>6, Zenon DEF Start
  <2> QED
    BY <1>5, <2>1, Zenon DEF LaneInv, PendingIsDurable
<1>7. CASE Crash \/ Install
  BY <1>5, <1>7, SMT, SMTT(30) DEF Crash, Install, CatchingUp
<1>8. CASE Seed
  <2>1. PICK S : \/ op' \in {CatchingUp(S, TRUE), CatchingUp(S, FALSE)}
                 \/ op' \in {Rebuilding(S, TRUE), Rebuilding(S, FALSE)}
    BY <1>5, <1>8, Zenon DEF Seed, ApplySeed
  <2> QED
    BY <2>1, SMTT(20), SMTT(30) DEF CatchingUp, Rebuilding
<1>9. CASE ApplyForming
  <2>1. op = Idle /\ op' \in {op, Idle}
    BY <1>9, Zenon DEF ApplyForming, Fail
  <2> QED
    BY <1>5, <2>1, Zenon
<1> QED
  BY <1>1, <1>2, <1>3, <1>4, <1>6, <1>7, <1>8, <1>9, Zenon
     DEF Next, vars, CloseBar, Repair, Connect, Disconnect

\* Memory changes its bar in a step of its own, and only to none, from none, or
\* to what a command has made durable.
LEMMA MemoryMoves ==
  ASSUME LaneInv, [Next]_vars, lane'.last # lane.last
  PROVE  /\ db' = db
         /\ \/ lane'.last = None
            \/ lane.last = None
            \/ op.pc = "install" /\ lane'.last = op.next.last
<1>1. CASE Start \/ Crash
  <2>1. db' = db /\ \E c : lane' = Fresh(c)
    BY <1>1, Zenon DEF Start, Crash
  <2> QED
    BY <2>1, SMT, SMTT(30) DEF Fresh
<1>2. CASE Seed
  BY <1>2, Zenon DEF Seed, ApplySeed
<1>3. CASE Install
  BY <1>3, Zenon DEF Install
<1>4. CASE ApplyForming
  <2>1. lane'.last = lane.last
    BY <1>4, Zenon DEF ApplyForming, LaneInv, TypeOK, Memory
  <2> QED
    BY <2>1, Zenon
<1> QED
  BY <1>1, <1>2, <1>3, <1>4, Zenon
     DEF Next, vars, CloseBar, Repair, Connect, Disconnect, ReceiveClosed, CatchUp,
         ApplyClosed, Rebuild

\* Every step of the lane is a step of the journal or changes no position.
LEMMA JournalStep ==
  LaneInv /\ LaneInv' /\ InstallsForward /\ [Next]_vars
    => [J!Next]_<<Position(db.cursor), Position(lane.last)>>
<1> SUFFICES ASSUME LaneInv, LaneInv', InstallsForward, [Next]_vars
             PROVE  [J!Next]_<<Position(db.cursor), Position(lane.last)>>
  BY Zenon
<1>1. /\ db.cursor # None => db.cursor.t \in Nat
      /\ db'.cursor # None => db'.cursor.t \in Nat
      /\ lane.last # None => lane.last.t \in Nat
      /\ lane'.last # None => lane'.last.t \in Nat
  BY Zenon DEF LaneInv, TypeOK, Memory, Database, Bar
<1>2. /\ Position(db.cursor) \in Nat /\ Position(db.cursor)' \in Nat
      /\ Position(lane.last) \in Nat /\ Position(lane.last)' \in Nat
  BY <1>1, Zenon DEF Position
<1>3. CASE lane'.last = lane.last
  <2>1. Position(lane.last)' = Position(lane.last)
    BY <1>3, Zenon DEF Position
  <2>2. Position(db.cursor) <= Position(db.cursor)'
    BY <1>1, StoreGoesForward, SMT, SMTT(30) DEF Position
  <2> QED
    BY <1>2, <2>1, <2>2, SMT, SMTT(30) DEF J!Next, J!Write
<1>4. CASE lane'.last # lane.last
  <2>1. db' = db /\ Position(db.cursor)' = Position(db.cursor)
    BY <1>4, MemoryMoves, Zenon DEF Position
  <2>2. Position(lane.last)' = 0 \/ Position(lane.last) <= Position(lane.last)'
    <3>1. CASE lane'.last = None \/ lane.last = None
      BY <1>2, <3>1, SMT, SMTT(30) DEF Position
    <3>2. CASE lane'.last # None /\ lane.last # None
      BY <1>1, <1>4, <3>2, MemoryMoves, Zenon DEF InstallsForward, Position
    <3> QED
      BY <3>1, <3>2, Zenon
  <2>3. Position(lane.last)' <= Position(db.cursor)
    BY <1>1, <1>2, <2>1, SMT, SMTT(30) DEF LaneInv, MemoryNeverAheadOfStore, Position
  <2> QED
    BY <1>2, <2>1, <2>2, <2>3, SMT, SMTT(30) DEF J!Next, J!Follow, J!Forget
<1> QED
  BY <1>3, <1>4, Zenon

\* The lane implements Journal: the store is written first and only forward,
\* memory follows it and falls back only by losing everything.
THEOREM LaneImplementsJournal == Spec => ImplementsJournal
<1>1. Init => J!Init
  <2>1. Init => lane.last = None
    <3>1. Fresh(cfg).last = None
      BY Zenon DEF Fresh
    <3> QED
      BY <3>1, Zenon DEF Init
  <2>2. EmptyDatabase.cursor = None
    BY Zenon DEF EmptyDatabase
  <2>3. Init => db.cursor = None
    BY <2>2, Zenon DEF Init
  <2> QED
    BY <2>1, <2>3, Zenon DEF J!Init, Position
<1>2. Init => InstallsForward
  BY SMT, SMTT(30) DEF Init, Idle, InstallsForward
<1> QED
  BY <1>1, <1>2, LaneInvariant, StepForward, JournalStep, PTL
     DEF Spec, ImplementsJournal, J!Spec

=============================================================================
