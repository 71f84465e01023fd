-------------------------- MODULE LaneHistoryProofs --------------------------
(***************************************************************************)
(* Proofs about what a lane has folded, on top of LaneInv: no bar is       *)
(* folded twice or skipped (CountsAgree), provisional values extend the    *)
(* reducers in memory (ProjectionFollowsReducers), and recovery is exact   *)
(* while OHLC history is not rewritten (RecoveryIsExact).                  *)
(***************************************************************************)
EXTENDS LaneProofs

-----------------------------------------------------------------------------
(* What a step does to memory, to a pending command and to the service.    *)

\* Memory is kept, lost, installed, restored from a checkpoint, or given
\* another projection.
LEMMA MemorySteps ==
  ASSUME LaneInv, [Next]_vars
  PROVE  \/ cfg' = cfg /\ lane' = lane
         \/ cfg' \in Configs /\ lane' = Fresh(cfg') /\ op' = Idle /\ db' = db /\ ohlc' = ohlc
         \/ cfg' = cfg /\ Install
         \/ \E S \in Seeds :
              /\ op = Idle /\ lane.last = None
              /\ db.cursor # None /\ Restorable(S) /\ lane' = Restored(S)
              /\ op' = CatchingUp(S, FALSE) /\ UNCHANGED <<cfg, db, ohlc>>
         \/ \E bar \in Bar, ready \in SUBSET cfg.periods :
              /\ lane.last # None => bar.t >= lane.last.t
              /\ lane' = [lane EXCEPT !.forming = bar,
                                      !.projected = [p \in ready |-> Fold(lane.ema[p], bar)]]
              /\ UNCHANGED <<cfg, op, db, ohlc>>
<1>1. CASE Start
  <2>1. op = Idle
    BY <1>1 DEF Start, LaneInv, PendingIsDurable
  <2> QED
    BY <1>1, <2>1, Zenon DEF Start, environment
<1>2. CASE Crash
  BY <1>2, LaneTypes, Zenon DEF Crash, environment
<1>3. CASE Seed
  BY <1>3, Zenon DEF Seed, ApplySeed, environment
<1>4. CASE Install
  BY <1>4 DEF Install
<1>5. CASE ApplyForming
  <2>1. PICK t \in {clock, clock + 1} \ {0}, v \in Values :
          LET bar   == [t |-> t, v |-> v]
              ready == {p \in cfg.periods : Ready(p, Fold(lane.ema[p], bar))}
          IN  IF Valid(bar)
                THEN /\ lane.last # None => bar.t >= lane.last.t
                     /\ lane' = [lane EXCEPT
                          !.forming = bar,
                          !.projected = [p \in ready |-> Fold(lane.ema[p], bar)]]
                     /\ UNCHANGED <<conn, op>>
                ELSE Fail /\ UNCHANGED lane
    BY <1>5, Zenon DEF ApplyForming
  <2> DEFINE bar == [t |-> t, v |-> v]
             ready == {p \in cfg.periods : Ready(p, Fold(lane.ema[p], bar))}
  <2>2. bar \in Bar /\ ready \in SUBSET cfg.periods /\ UNCHANGED <<cfg, db, ohlc>>
    BY <1>5, LaneTypes DEF Bar, ApplyForming, environment
  <2>3. CASE Valid(bar)
    <3>1. /\ lane.last # None => bar.t >= lane.last.t
          /\ lane' = [lane EXCEPT !.forming = bar,
                                  !.projected = [p \in ready |-> Fold(lane.ema[p], bar)]]
          /\ UNCHANGED op
      BY <2>1, <2>3
    <3> HIDE DEF bar, ready
    <3> QED
      BY <2>2, <3>1, Zenon
  <2>4. CASE ~Valid(bar)
    BY <2>1, <2>2, <2>4
  <2> QED
    BY <2>3, <2>4, Zenon
<1>6. CASE UNCHANGED vars
  BY <1>6 DEF vars
<1>7. CASE CloseBar \/ Repair \/ Connect \/ Disconnect \/ ReceiveClosed \/ CatchUp \/ Rebuild
  BY <1>7, Zenon DEF CloseBar, Repair, Connect, Disconnect, ReceiveClosed, CatchUp, ApplyClosed, Rebuild
<1> QED
  BY <1>1, <1>2, <1>3, <1>4, <1>5, <1>6, <1>7, Zenon DEF Next

\* A command waits with the memory it waited with, or has just computed one
\* from a bar it did not refuse, or from the seed of a rebuild.
LEMMA PendingSteps ==
  ASSUME LaneInv, [Next]_vars, op'.pc = "install"
  PROVE  /\ cfg' = cfg
         /\ \/ op' = op
            \/ \E bar \in ohlc \cup op.seed :
                 /\ bar \in Bar /\ bar # lane.last /\ ~Rejected(bar)
                 /\ op'.next = Advance(lane, bar) /\ ohlc' = ohlc
            \/ op'.next = Replay(cfg, op.seed) /\ ohlc' = ohlc
<1>1. op' # Idle /\ ~Fail /\ ~FailBar
  BY DEF Fail, Idle, FailBar, Rebuilding
<1>2. ASSUME NEW bar \in Bar, ApplyClosed(bar)
      PROVE  /\ bar # lane.last /\ ~Rejected(bar) /\ op'.next = Advance(lane, bar)
             /\ cfg' = cfg /\ ohlc' = ohlc
  <2>1. bar # lane.last /\ ~Rejected(bar) /\ op' = Installing(Advance(lane, bar))
    BY <1>1, <1>2 DEF ApplyClosed
  <2>2. op'.next = Advance(lane, bar)
    BY <2>1 DEF Installing, LaneInv, TypeOK
  <2> QED
    BY <1>2, <2>1, <2>2 DEF ApplyClosed, environment
<1>3. CASE ReceiveClosed
  <2>1. PICK bar \in ohlc : ApplyClosed(bar)
    BY <1>3 DEF ReceiveClosed
  <2> QED
    BY <1>2, <2>1, LaneTypes
<1>4. CASE CatchUp
  <2> DEFINE rest == After(op.seed, lane.last.t)
  <2>1. rest # {} /\ ApplyClosed(Earliest(rest))
    BY <1>1, <1>4 DEF CatchUp
  <2>2. rest \in SUBSET Bar /\ rest \subseteq op.seed
    BY LaneTypes DEF After
  <2> HIDE DEF rest
  <2>3. Earliest(rest) \in Bar /\ Earliest(rest) \in op.seed
    BY <2>1, <2>2, EarliestIsFirst
  <2> QED
    BY <1>2, <2>1, <2>3
<1>5. CASE Rebuild
  <2>1. op' = [Idle EXCEPT !.pc = "install", !.next = Replay(cfg, op.seed)]
    BY <1>1, <1>5 DEF Rebuild
  <2>2. op'.next = Replay(cfg, op.seed)
    BY <2>1 DEF Idle
  <2> QED
    BY <1>5, <2>2 DEF Rebuild, environment
<1>6. CASE Start
  <2>1. op = Idle
    BY <1>6 DEF Start, LaneInv, PendingIsDurable
  <2> QED
    BY <1>1, <1>6, <2>1 DEF Start
<1>7. CASE Crash \/ Install
  BY <1>1, <1>7 DEF Crash, Install, CatchingUp
<1>8. CASE Seed
  <2>1. PICK S : \/ op' \in {CatchingUp(S, TRUE), CatchingUp(S, FALSE)}
                 \/ op' \in {Rebuilding(S, TRUE), Rebuilding(S, FALSE)}
    BY <1>1, <1>8, Zenon DEF Seed, ApplySeed
  <2> QED
    BY <2>1 DEF CatchingUp, Rebuilding
<1>9. CASE ApplyForming
  <2>1. op = Idle /\ op' \in {op, Idle}
    BY <1>9 DEF ApplyForming, Fail
  <2> QED
    BY <1>1, <2>1
<1>10. CASE CloseBar \/ Repair \/ Connect \/ Disconnect
  BY <1>10 DEF CloseBar, Repair, Connect, Disconnect
<1>11. CASE UNCHANGED vars
  BY <1>11 DEF vars
<1> QED
  BY <1>3, <1>4, <1>5, <1>6, <1>7, <1>8, <1>9, <1>10, <1>11 DEF Next

-----------------------------------------------------------------------------
(* Provisional values.                                                     *)

\* A step keeps ProjectionInv: a fold, a replay, a restore and a restart
\* project nothing, and a forming candle projects the reducers in memory.
LEMMA ProjectionStep == LaneInv /\ ProjectionInv /\ [Next]_vars => ProjectionInv'
<1> SUFFICES ASSUME LaneInv, ProjectionInv, [Next]_vars PROVE ProjectionInv'
  OBVIOUS
<1>1. ASSUME op'.pc = "install"
      PROVE  op'.next.forming = None /\ op'.next.projected = Unprojected
  <2>1. CASE op' = op
    BY <1>1, <2>1 DEF ProjectionInv
  <2>2. ASSUME NEW bar, op'.next = Advance(lane, bar)
        PROVE  op'.next.forming = None /\ op'.next.projected = Unprojected
    BY <2>2 DEF Advance
  <2>3. CASE op'.next = Replay(cfg, op.seed)
    BY <2>3 DEF Replay
  <2> QED
    BY <1>1, <2>1, <2>2, <2>3, PendingSteps
<1>2. ASSUME lane'.forming = None, lane'.projected = Unprojected
      PROVE  ProjectionFollowsReducers'
  BY <1>2 DEF ProjectionFollowsReducers
<1>3. ProjectionFollowsReducers'
  <2>1. CASE lane' = lane
    BY <2>1 DEF ProjectionInv, ProjectionFollowsReducers
  <2>2. CASE lane' = Fresh(cfg')
    BY <1>2, <2>2 DEF Fresh
  <2>3. CASE Install
    <3>1. op.pc = "install" /\ lane' = op.next
      BY <2>3 DEF Install
    <3> QED
      BY <1>2, <3>1 DEF ProjectionInv
  <2>4. ASSUME NEW S, lane' = Restored(S) PROVE ProjectionFollowsReducers'
    BY <1>2, <2>4 DEF Restored
  <2>5. ASSUME NEW bar \in Bar, NEW ready \in SUBSET cfg.periods,
               lane.last # None => bar.t >= lane.last.t,
               lane' = [lane EXCEPT !.forming = bar,
                                    !.projected = [p \in ready |-> Fold(lane.ema[p], bar)]]
        PROVE  ProjectionFollowsReducers'
    <3>1. /\ lane'.forming = bar /\ lane'.projected = [p \in ready |-> Fold(lane.ema[p], bar)]
          /\ lane'.ema = lane.ema /\ lane'.last = lane.last
      BY <2>5, LaneTypes DEF Memory
    <3> QED
      BY <2>5, <3>1, NoneIsNoBar DEF ProjectionFollowsReducers
  <2> QED
    BY <2>1, <2>2, <2>3, <2>4, <2>5, MemorySteps, Zenon
<1> QED
  BY <1>1, <1>3 DEF ProjectionInv

\* The provisional values a lane serves always extend the reducers it has in
\* memory by its forming candle, which is not behind its last closed bar: no
\* close, rebuild, restore or restart leaves a projection of replaced
\* reducers behind (applyForming, applyClosed, rebuildSeed).
THEOREM ProjectionsAreCurrent == Spec => []ProjectionFollowsReducers
<1>1. Init => ProjectionInv
  BY DEF Init, Fresh, Idle, ProjectionInv, ProjectionFollowsReducers
<1>2. ProjectionInv => ProjectionFollowsReducers
  BY DEF ProjectionInv
<1> QED
  BY <1>1, <1>2, LaneInvariant, ProjectionStep, PTL DEF Spec

-----------------------------------------------------------------------------
(* No bar is folded twice or skipped.                                      *)

\* A fresh lane has folded nothing.
LEMMA FreshCounted ==
  ASSUME NEW c \in Configs
  PROVE  MemoryCounted(c.periods, Fresh(c))
BY FS_EmptySet DEF MemoryCounted, Fresh, EmptyReducer

\* A bar after all others is folded as one more bar.
LEMMA AdvanceCounted ==
  ASSUME NEW P, NEW Q, NEW m \in Memory(P, Q), MemoryCounted(P, m), NEW bar \in Bar,
         m.last # None => m.last.t < bar.t
  PROVE  /\ MemoryCounted(P, Advance(m, bar))
         /\ \A p \in P : Advance(m, bar).ema[p].bars = m.ema[p].bars \cup {bar}
<1> DEFINE n == Advance(m, bar)
<1>1. /\ n.last = bar /\ n.count = m.count + 1 /\ m.count \in Nat /\ bar.t \in Nat /\ bar # None
      /\ m.last # None => m.last.t \in Nat
  BY NoneIsNoBar DEF Advance, Memory, Bar
<1> SUFFICES ASSUME NEW p \in P
             PROVE  /\ IsFiniteSet(n.ema[p].bars)
                    /\ n.ema[p].samples = n.count /\ Cardinality(n.ema[p].bars) = n.count
                    /\ \A x \in n.ema[p].bars : n.last # None /\ x.t <= n.last.t
                    /\ n.ema[p].bars = m.ema[p].bars \cup {bar}
  BY DEF MemoryCounted
<1>2. /\ IsFiniteSet(m.ema[p].bars) /\ m.ema[p].bars \subseteq Bar
      /\ m.ema[p].samples = m.count /\ Cardinality(m.ema[p].bars) = m.count
      /\ \A x \in m.ema[p].bars : m.last # None /\ x.t <= m.last.t
  BY DEF MemoryCounted, Memory, Reducer
<1>3. n.ema[p].bars = m.ema[p].bars \cup {bar} /\ n.ema[p].samples = m.count + 1
  BY <1>2 DEF Advance, Fold, Memory
<1>4. bar \notin m.ema[p].bars /\ \A x \in m.ema[p].bars : x.t <= bar.t
  BY <1>1, <1>2 DEF Bar
<1>5. IsFiniteSet(n.ema[p].bars) /\ Cardinality(n.ema[p].bars) = m.count + 1
  <2> DEFINE old == m.ema[p].bars
  <2>1. IsFiniteSet(old) /\ bar \notin old /\ Cardinality(old) = m.count
    BY <1>2, <1>4
  <2>2. IsFiniteSet(old \cup {bar}) /\ Cardinality(old \cup {bar}) = Cardinality(old) + 1
    <3> HIDE DEF old
    <3> QED
      BY <2>1, FS_AddElement
  <2> QED
    BY <1>3, <2>1, <2>2
<1> QED
  BY <1>1, <1>3, <1>4, <1>5

\* A replay has folded its seed.
LEMMA ReplayCounted ==
  ASSUME NEW c \in Configs, NEW S \in SUBSET Bar, IsFiniteSet(S),
         NEW n \in Nat, \A b \in S : b.t <= n
  PROVE  /\ MemoryCounted(c.periods, Replay(c, S))
         /\ \A p \in c.periods : Replay(c, S).ema[p].bars = S
<1>1. /\ \A p \in c.periods : Replay(c, S).ema[p] = [samples |-> Cardinality(S), bars |-> S]
      /\ Replay(c, S).count = Cardinality(S)
      /\ S # {} => Replay(c, S).last = Latest(S)
  BY DEF Replay
<1>2. S # {} => Latest(S) \in S /\ Latest(S) # None /\ \A b \in S : b.t <= Latest(S).t
  BY LatestIsLast, NoneIsNoBar
<1> QED
  BY <1>1, <1>2 DEF MemoryCounted

\* A checkpoint and the seed's bars after it have no bar in common.
LEMMA RestoredCounted ==
  ASSUME LaneInv, NEW S \in SUBSET Bar, IsFiniteSet(S), \A b \in S : b.t <= clock,
         db.cursor # None, Restorable(S),
         \A p \in Periods : db.emaSnaps[p] # None => SnapshotCounted(db.emaSnaps[p], db.cursor)
  PROVE  /\ MemoryCounted(cfg.periods, Restored(S))
         /\ \A p \in cfg.periods :
              /\ Restored(S).ema[p].bars
                   = db.emaSnaps[p].reducer.bars \cup After(UpTo(S, db.cursor.t), Checkpoint.t)
              /\ db.emaSnaps[p].t = Checkpoint.t
         /\ Restored(S).last = Latest(UpTo(S, db.cursor.t))
         /\ Restored(S).last \in S /\ Restored(S).last.t = db.cursor.t
<1> DEFINE upTo == UpTo(S, db.cursor.t)
           tail == After(upTo, Checkpoint.t)
           m == Restored(S)
<1>1. /\ cfg \in Configs /\ cfg.periods \in SUBSET Periods /\ db \in Database
      /\ clock \in Nat /\ db.cursor \in Bar /\ db.cursor.t \in Nat
  BY LaneTypes, ConfigType
<1>2. /\ upTo \subseteq S /\ tail \subseteq upTo /\ \A b \in upTo : b.t <= db.cursor.t
      /\ \A b \in tail : b.t > Checkpoint.t
  BY DEF UpTo, After
<1>3. IsFiniteSet(upTo) /\ IsFiniteSet(tail) /\ Cardinality(tail) \in Nat
  <2> HIDE DEF upTo, tail
  <2> QED
    BY <1>2, FS_Subset, FS_CardinalityType
<1>4. PICK top \in upTo : top.t = db.cursor.t
  BY <1>1 DEF Restorable, At, UpTo
<1>5. m.last = Latest(upTo) /\ Latest(upTo) \in upTo /\ Latest(upTo).t = db.cursor.t
  <2>1. m.last = Latest(upTo)
    BY DEF Restored
  <2>2. upTo \in SUBSET Bar /\ top.t \in Nat
    BY <1>2, <1>4 DEF Bar
  <2> HIDE DEF upTo, m
  <2>3. Latest(upTo) \in upTo /\ \A b \in upTo : b.t <= Latest(upTo).t
    BY <1>1, <1>2, <1>4, <2>2, LatestIsLast
  <2>4. Latest(upTo).t \in Nat
    BY <2>2, <2>3 DEF Bar
  <2> QED
    BY <1>1, <1>2, <1>4, <2>1, <2>3, <2>4
<1>6. m.last # None /\ m.count = Checkpoint.reducer.samples + Cardinality(tail)
  <2>1. m.count = Checkpoint.reducer.samples + Cardinality(tail)
    BY DEF Restored
  <2> HIDE DEF m, upTo
  <2> QED
    BY <1>2, <1>5, <2>1, NoneIsNoBar
<1>7. ASSUME NEW p \in cfg.periods
      PROVE  /\ IsFiniteSet(m.ema[p].bars)
             /\ m.ema[p].samples = m.count /\ Cardinality(m.ema[p].bars) = m.count
             /\ \A x \in m.ema[p].bars : m.last # None /\ x.t <= m.last.t
             /\ m.ema[p].bars = db.emaSnaps[p].reducer.bars \cup tail
             /\ db.emaSnaps[p].t = Checkpoint.t
  <2> DEFINE s == db.emaSnaps[p]
             old == s.reducer.bars
  <2>1. s \in Snapshot /\ SnapshotCounted(s, db.cursor)
    BY <1>1 DEF Restorable, Database
  <2>2. s.t = Checkpoint.t /\ s.reducer.samples = Checkpoint.reducer.samples
    BY DEF Restorable
  <2>3. m.ema[p].samples = s.reducer.samples + Cardinality(tail) /\ m.ema[p].bars = old \cup tail
    BY DEF Restored, FoldAll
  <2>4. s.t \in Nat /\ old \subseteq Bar
    BY <2>1 DEF Snapshot, Reducer
  <2>5. /\ IsFiniteSet(old) /\ s.reducer.samples = Cardinality(old) /\ s.t <= db.cursor.t
        /\ \A x \in old : x.t <= s.t
    BY <2>1 DEF SnapshotCounted
  <2>6. old \cap tail = {} /\ \A x \in old \cup tail : x.t <= db.cursor.t
    <3>1. \A x \in old : x.t \in Nat
      BY <2>4 DEF Bar
    <3>2. \A x \in tail : x.t \in Nat
      BY <1>2 DEF Bar
    <3> HIDE DEF s, old, tail, upTo
    <3> QED
      BY <1>1, <1>2, <2>2, <2>4, <2>5, <3>1, <3>2
  <2>7. IsFiniteSet(old \cup tail) /\ Cardinality(old \cup tail) = Cardinality(old) + Cardinality(tail)
    <3> HIDE DEF s, old, tail
    <3>1. /\ IsFiniteSet(old \cup tail)
          /\ Cardinality(old \cup tail) = Cardinality(old) + Cardinality(tail) - Cardinality({})
      BY <1>3, <2>5, <2>6, FS_Union
    <3>2. Cardinality(old) \in Nat
      BY <2>5, FS_CardinalityType
    <3> QED
      BY <1>3, <3>1, <3>2, FS_EmptySet
  <2> HIDE DEF s, old, tail, m, upTo
  <2> QED
    BY <1>5, <1>6, <2>2, <2>3, <2>5, <2>6, <2>7 DEF s, old
<1> HIDE DEF m, upTo, tail
<1>8. MemoryCounted(cfg.periods, m)
  BY <1>7 DEF MemoryCounted
<1> QED
  BY <1>2, <1>5, <1>7, <1>8 DEF m, upTo, tail

\* A commit and a rebuild do not change what the service holds.
LEMMA HistorySteps ==
  ASSUME LaneInv, [Next]_vars, ohlc' # ohlc
  PROVE  (CloseBar \/ Repair) /\ UNCHANGED <<cfg, lane, op, db>>
<1>1. CloseBar \/ Repair
  BY Zenon DEF Next, vars, Connect, Disconnect, Start, Crash, Seed, ApplySeed, ReceiveClosed,
         CatchUp, ApplyClosed, Install, Rebuild, ApplyForming, environment
<1> QED
  BY <1>1, Zenon DEF CloseBar, Repair

\* What saving snapshots writes: the reducers of the configured periods.
LEMMA SaveSnapshotsWrites ==
  ASSUME NEW d \in Database, NEW c, NEW ema, NEW market, NEW bar, NEW p \in Periods
  PROVE  SaveSnapshots(d, c, ema, market, bar).emaSnaps[p]
           = IF p \in c.periods THEN [t |-> bar.t, reducer |-> ema[p]] ELSE d.emaSnaps[p]
BY DEF SaveSnapshots, Database

\* A snapshot is kept, or is the reducer that a commit or a rebuild has just
\* brought to the bar the cursor moves to.
LEMMA SnapshotSteps ==
  ASSUME LaneInv, [Next]_vars, NEW p \in Periods, db'.emaSnaps[p] # None
  PROVE  \/ db'.emaSnaps[p] = db.emaSnaps[p]
         \/ /\ p \in cfg.periods /\ ohlc' = ohlc
            /\ \E bar \in ohlc \cup op.seed :
                 /\ bar \in Bar /\ bar # lane.last /\ ~Rejected(bar)
                 /\ db'.emaSnaps[p] = [t |-> bar.t, reducer |-> Advance(lane, bar).ema[p]]
                 /\ db'.cursor = bar
         \/ /\ p \in cfg.periods /\ ohlc' = ohlc
            /\ op.seed # {} /\ db'.cursor = Replay(cfg, op.seed).last
            /\ db'.emaSnaps[p] = [t |-> Replay(cfg, op.seed).last.t,
                                  reducer |-> Replay(cfg, op.seed).ema[p]]
<1> SUFFICES ASSUME db'.emaSnaps[p] # db.emaSnaps[p]
             PROVE  \/ /\ p \in cfg.periods /\ ohlc' = ohlc
                       /\ \E bar \in ohlc \cup op.seed :
                            /\ bar \in Bar /\ bar # lane.last /\ ~Rejected(bar)
                            /\ db'.emaSnaps[p] = [t |-> bar.t, reducer |-> Advance(lane, bar).ema[p]]
                            /\ db'.cursor = bar
                    \/ /\ p \in cfg.periods /\ ohlc' = ohlc
                       /\ op.seed # {} /\ db'.cursor = Replay(cfg, op.seed).last
                       /\ db'.emaSnaps[p] = [t |-> Replay(cfg, op.seed).last.t,
                                             reducer |-> Replay(cfg, op.seed).ema[p]]
  BY Zenon
<1>1. db' # db /\ ohlc' = ohlc
  BY HistorySteps
<1>2. /\ cfg \in Configs /\ db \in Database
      /\ lane \in Memory(cfg.periods, DOMAIN lane.projected) /\ cfg.periods \in SUBSET Periods
  BY LaneTypes, ConfigType
<1>3. ASSUME NEW bar \in Bar, db' = Committed(bar)
      PROVE  /\ p \in cfg.periods /\ db'.cursor = bar
             /\ db'.emaSnaps[p] = [t |-> bar.t, reducer |-> Advance(lane, bar).ema[p]]
  <2>0. PICK m : m = Advance(lane, bar)
    OBVIOUS
  <2> DEFINE d == CommitClosed(db, bar, PointsOf(m, bar), FrameOf("frame", cfg, m, bar))
  <2>1. m \in Memory(cfg.periods, {})
    BY <1>2, <2>0, AdvanceType
  <2>2. d \in Database /\ d.cursor = bar
    BY <1>2, <2>1, PointsOfType, FrameType, CommitClosedType
  <2>3. d.emaSnaps = db.emaSnaps
    BY <1>2 DEF CommitClosed, Database
  <2>4. db' = d \/ db' = SaveSnapshots(d, cfg, m.ema, m.market, bar)
    BY <1>1, <1>3, <2>0 DEF Committed, Commit
  <2> HIDE DEF d
  <2>5. db' = SaveSnapshots(d, cfg, m.ema, m.market, bar)
    BY <2>3, <2>4
  <2>6. db'.cursor = d.cursor
    BY <2>2, <2>5 DEF SaveSnapshots, Database
  <2>7. db'.emaSnaps[p] = IF p \in cfg.periods THEN [t |-> bar.t, reducer |-> m.ema[p]]
                                              ELSE db.emaSnaps[p]
    BY <2>2, <2>3, <2>5, SaveSnapshotsWrites
  <2> QED
    BY <2>0, <2>2, <2>6, <2>7
<1>4. ASSUME db' = RebuildTx
      PROVE  /\ p \in cfg.periods /\ op.seed # {} /\ db'.cursor = Replay(cfg, op.seed).last
             /\ db'.emaSnaps[p] = [t |-> Replay(cfg, op.seed).last.t,
                                   reducer |-> Replay(cfg, op.seed).ema[p]]
  <2>0. PICK m : m = Replay(cfg, op.seed)
    OBVIOUS
  <2>1. /\ m \in Memory(cfg.periods, {}) /\ op.seed \subseteq Bar
        /\ IF op.seed = {} THEN m.last = None ELSE m.last \in op.seed
        /\ RebuildTx.cursor = IF op.seed = {} THEN db.cursor ELSE m.last
        /\ PointsOfReplay(cfg, op.seed) \in SUBSET Point
    <3>1. IsFiniteSet(op.seed) /\ \A b \in op.seed : b.t <= clock
      BY DEF LaneInv, HistoriesBounded
    <3> QED
      BY <1>2, <2>0, <3>1, LaneTypes, RebuildTxType, PointsOfReplayType DEF LaneInv
  <2> DEFINE resets == IF op.rebuild /\ m.last # None THEN {FrameOf("reset", cfg, m, m.last)} ELSE {}
             d == RebuildSeries(db, PointsOfReplay(cfg, op.seed), resets, m.last)
  <2>2. m.last \in Bar \cup {None}
    BY <2>1 DEF Memory
  <2>3. resets \in SUBSET Row
    BY <1>2, <2>1, <2>2, FrameType
  <2>4. d \in Database
    <3> HIDE DEF resets
    <3> QED
      BY <1>2, <2>1, <2>2, <2>3, RebuildSeriesType
  <2>5. d.emaSnaps[p] = None
    BY <1>2 DEF RebuildSeries, Database
  <2>6. db' = IF m.last = None THEN d ELSE SaveSnapshots(d, cfg, m.ema, m.market, m.last)
    BY <1>4, <2>0 DEF RebuildTx
  <2> HIDE DEF d
  <2>7. m.last # None /\ db' = SaveSnapshots(d, cfg, m.ema, m.market, m.last)
    BY <2>5, <2>6
  <2>8. /\ p \in cfg.periods /\ db'.emaSnaps[p] = [t |-> m.last.t, reducer |-> m.ema[p]]
    BY <2>4, <2>5, <2>7, SaveSnapshotsWrites
  <2> QED
    BY <1>4, <2>0, <2>1, <2>7, <2>8
<1> QED
  BY <1>1, <1>3, <1>4, StoreWrites, Zenon

\* A bar that is not refused lies after the bar memory stands on.
LEMMA AcceptedIsNew ==
  ASSUME LaneInv, NEW bar \in Bar, bar # lane.last, ~Rejected(bar)
  PROVE  lane.last # None => lane.last.t < bar.t
<1>1. lane.last # None => lane.last.t \in Nat
  BY LaneTypes
<1>2. bar.t \in Nat
  BY DEF Bar
<1> QED
  BY <1>1, <1>2 DEF Rejected

\* Every step keeps CountInv.
LEMMA CountStep == LaneInv /\ CountInv /\ [Next]_vars => CountInv'
<1> SUFFICES ASSUME LaneInv, CountInv, [Next]_vars PROVE CountInv'
  OBVIOUS
<1>1. /\ MemoryCounted(cfg.periods, lane)
      /\ op.pc = "install" => MemoryCounted(cfg.periods, op.next)
      /\ \A p \in Periods : db.emaSnaps[p] # None => SnapshotCounted(db.emaSnaps[p], db.cursor)
  BY DEF CountInv
<1>2. /\ cfg \in Configs /\ clock \in Nat /\ db \in Database
      /\ lane \in Memory(cfg.periods, DOMAIN lane.projected)
      /\ op.seed \in SUBSET Bar /\ IsFiniteSet(op.seed) /\ \A b \in op.seed : b.t <= clock
  BY LaneTypes DEF LaneInv, HistoriesBounded
<1>3. ASSUME NEW bar \in Bar, bar # lane.last, ~Rejected(bar)
      PROVE  /\ MemoryCounted(cfg.periods, Advance(lane, bar))
             /\ \A p \in cfg.periods : bar \in Advance(lane, bar).ema[p].bars
             /\ Advance(lane, bar).last = bar
  <2>1. lane.last # None => lane.last.t < bar.t
    BY <1>3, AcceptedIsNew
  <2> QED
    BY <1>1, <1>2, <2>1, AdvanceCounted, AdvanceType
<1>4. /\ MemoryCounted(cfg.periods, Replay(cfg, op.seed))
      /\ \A p \in cfg.periods : Replay(cfg, op.seed).ema[p].bars = op.seed
  BY <1>2, ReplayCounted
<1>5. op'.pc = "install" => MemoryCounted(cfg.periods, op.next)'
  <2> SUFFICES ASSUME op'.pc = "install" PROVE MemoryCounted(cfg'.periods, op'.next)
    OBVIOUS
  <2>1. CASE op' = op
    BY <1>1, <2>1, PendingSteps
  <2>2. CASE \E bar \in ohlc \cup op.seed : /\ bar \in Bar /\ bar # lane.last /\ ~Rejected(bar)
                                            /\ op'.next = Advance(lane, bar)
    BY <1>3, <2>2, PendingSteps
  <2>3. CASE op'.next = Replay(cfg, op.seed)
    BY <1>4, <2>3, PendingSteps
  <2> QED
    BY <2>1, <2>2, <2>3, PendingSteps
<1>6. MemoryCounted(cfg.periods, lane)'
  <2> SUFFICES MemoryCounted(cfg'.periods, lane')
    OBVIOUS
  <2>1. CASE cfg' = cfg /\ lane' = lane
    BY <1>1, <2>1
  <2>2. CASE cfg' \in Configs /\ lane' = Fresh(cfg')
    BY <2>2, FreshCounted
  <2>3. CASE cfg' = cfg /\ Install
    <3>1. op.pc = "install" /\ lane' = op.next
      BY <2>3 DEF Install
    <3> QED
      BY <1>1, <2>3, <3>1
  <2>4. ASSUME NEW S \in Seeds, db.cursor # None, Restorable(S), lane' = Restored(S), cfg' = cfg
        PROVE  MemoryCounted(cfg'.periods, lane')
    <3>1. S \in SUBSET Bar /\ IsFiniteSet(S) /\ \A b \in S : b.t <= clock
      BY SeedsType DEF LaneInv
    <3> QED
      BY <1>1, <2>4, <3>1, RestoredCounted
  <2>5. ASSUME NEW bar, NEW ready, cfg' = cfg,
               lane' = [lane EXCEPT !.forming = bar,
                                    !.projected = [p \in ready |-> Fold(lane.ema[p], bar)]]
        PROVE  MemoryCounted(cfg'.periods, lane')
    <3>1. lane'.ema = lane.ema /\ lane'.last = lane.last /\ lane'.count = lane.count
      BY <1>2, <2>5 DEF Memory
    <3> QED
      BY <1>1, <2>5, <3>1 DEF MemoryCounted
  <2> QED
    BY <2>1, <2>2, <2>3, <2>4, <2>5, MemorySteps, Zenon
<1>7. ASSUME NEW p \in Periods, db'.emaSnaps[p] # None
      PROVE  SnapshotCounted(db'.emaSnaps[p], db'.cursor)
  <2>1. CASE db'.emaSnaps[p] = db.emaSnaps[p]
    <3>1. SnapshotCounted(db.emaSnaps[p], db.cursor) /\ db.emaSnaps[p] \in Snapshot
      BY <1>1, <1>2, <1>7, <2>1 DEF Database
    <3>2. db.cursor # None /\ db.emaSnaps[p].t <= db.cursor.t /\ db.emaSnaps[p].t \in Nat
      BY <3>1 DEF SnapshotCounted, Snapshot
    <3>3. db'.cursor # None /\ db.cursor.t \in Nat /\ db'.cursor.t \in Nat /\ db'.cursor.t >= db.cursor.t
      <4>1. db'.cursor # None /\ db'.cursor.t >= db.cursor.t
        BY <3>2, StoreGoesForward
      <4>2. db.cursor.t \in Nat
        BY <3>2, LaneTypes
      <4>3. LaneInv'
        BY StepInv
      <4>4. db' \in Database
        BY <4>3 DEF LaneInv, TypeOK
      <4>5. db'.cursor.t \in Nat
        BY <4>1, <4>4 DEF Database, Bar
      <4> QED
        BY <4>1, <4>2, <4>5
    <3> QED
      BY <2>1, <3>1, <3>2, <3>3 DEF SnapshotCounted
  <2>2. ASSUME NEW m, NEW Q, m \in Memory(cfg.periods, Q), MemoryCounted(cfg.periods, m), p \in cfg.periods,
               m.last \in m.ema[p].bars, db'.cursor = m.last,
               db'.emaSnaps[p] = [t |-> m.last.t, reducer |-> m.ema[p]]
        PROVE  SnapshotCounted(db'.emaSnaps[p], db'.cursor)
    <3>1. /\ IsFiniteSet(m.ema[p].bars) /\ m.ema[p].samples = Cardinality(m.ema[p].bars)
          /\ \A x \in m.ema[p].bars : m.last # None /\ x.t <= m.last.t
      BY <2>2, Zenon DEF MemoryCounted
    <3>2. m.last.t \in Nat
      BY <2>2, <3>1, Zenon DEF Memory, Bar
    <3> QED
      BY <2>2, <3>1, <3>2, SMT, SMTT(30) DEF SnapshotCounted
  <2>3. ASSUME NEW bar \in Bar, bar # lane.last, ~Rejected(bar), p \in cfg.periods, db'.cursor = bar,
               db'.emaSnaps[p] = [t |-> bar.t, reducer |-> Advance(lane, bar).ema[p]]
        PROVE  SnapshotCounted(db'.emaSnaps[p], db'.cursor)
    <3>1. Advance(lane, bar) \in Memory(cfg.periods, {})
      BY <1>2, AdvanceType, Zenon
    <3> QED
      BY <1>3, <2>2, <2>3, <3>1, Zenon
  <2>4. ASSUME p \in cfg.periods, op.seed # {}, db'.cursor = Replay(cfg, op.seed).last,
               db'.emaSnaps[p] = [t |-> Replay(cfg, op.seed).last.t,
                                  reducer |-> Replay(cfg, op.seed).ema[p]]
        PROVE  SnapshotCounted(db'.emaSnaps[p], db'.cursor)
    <3>1. Replay(cfg, op.seed) \in Memory(cfg.periods, {}) /\ Replay(cfg, op.seed).last \in op.seed
      BY <1>2, <2>4, ReplayType, Zenon
    <3> QED
      BY <1>4, <2>2, <2>4, <3>1, Zenon
  <2> QED
    BY <1>7, <2>1, <2>3, <2>4, SnapshotSteps, Zenon
<1> QED
  BY <1>5, <1>6, <1>7 DEF CountInv

\* CountInv is an invariant.
THEOREM CountInvariant == Spec => []CountInv
<1>1. Init => CountInv
  <2> SUFFICES ASSUME Init PROVE CountInv
    BY Zenon
  <2>1. MemoryCounted(cfg.periods, lane)
    BY FreshCounted, Zenon DEF Init
  <2>2. op.pc # "install" /\ \A p \in Periods : db.emaSnaps[p] = None
    BY Zenon DEF Init, Idle, EmptyDatabase
  <2> QED
    BY <2>1, <2>2, Zenon DEF CountInv
<1> QED
  BY <1>1, LaneInvariant, CountStep, PTL DEF Spec

\* No bar is folded twice or skipped by one reducer only: every EMA of the
\* running configuration has folded count distinct bars, and every snapshot
\* has as many bars as it claims, ends at its own time and is not newer than
\* the cursor (applyClosed, rebuildSeed, restoreRecoverySeed).
THEOREM CountsAlwaysAgree == Spec => []CountsAgree
<1>1. LaneInv /\ CountInv => CountsAgree
  <2> SUFFICES ASSUME LaneInv, CountInv PROVE CountsAgree
    BY Zenon
  <2>1. \A p \in cfg.periods :
          lane.ema[p].samples = lane.count /\ Cardinality(lane.ema[p].bars) = lane.count
    BY Zenon DEF CountInv, MemoryCounted
  <2>2. ASSUME NEW p \in Periods, db.emaSnaps[p] # None
        PROVE  /\ db.emaSnaps[p].reducer.samples = Cardinality(db.emaSnaps[p].reducer.bars)
               /\ db.emaSnaps[p].t = Latest(db.emaSnaps[p].reducer.bars).t
               /\ db.emaSnaps[p].t <= db.cursor.t
    <3>0. PICK s : s = db.emaSnaps[p]
      BY Zenon
    <3>1. SnapshotCounted(s, db.cursor) /\ s \in Snapshot
      BY <2>2, <3>0, LaneTypes, Zenon DEF CountInv, Database
    <3>2. s.t \in Nat /\ s.reducer.bars \in SUBSET Bar
      BY <3>1, Zenon DEF Snapshot, Reducer
    <3>3. PICK x \in s.reducer.bars : x.t = s.t
      BY <3>1, Zenon DEF SnapshotCounted
    <3>4. \A y \in s.reducer.bars : y.t <= s.t
      BY <3>1, Zenon DEF SnapshotCounted
    <3>5. Latest(s.reducer.bars) \in s.reducer.bars /\ x.t <= Latest(s.reducer.bars).t
      BY <3>2, <3>3, <3>4, LatestIsLast, Zenon
    <3>6. Latest(s.reducer.bars).t \in Nat
      BY <3>2, <3>5, Zenon DEF Bar
    <3>7. s.t = Latest(s.reducer.bars).t
      BY <3>2, <3>3, <3>4, <3>5, <3>6, SMT, SMTT(30)
    <3> QED
      BY <3>0, <3>1, <3>7, Zenon DEF SnapshotCounted
  <2> QED
    BY <2>1, <2>2, Zenon DEF CountsAgree
<1> QED
  BY <1>1, LaneInvariant, CountInvariant, PTL

-----------------------------------------------------------------------------
(* Recovery is exact while OHLC history is not rewritten.                  *)

\* A seed, however late and however short, is the end of a prefix of the
\* service's history, so it misses no bar between two of its own.
LEMMA SeedsUnbroken ==
  ASSUME LaneInv, NEW S \in Seeds
  PROVE  Unbroken(S, ohlc)
<1>1. clock \in Nat /\ ohlc \subseteq Bar /\ IsFiniteSet(ohlc) /\ MaxLag \in Nat /\ SeedBars \in Nat
  BY LaneTypes, LaneAssumption, Zenon DEF LaneInv, HistoriesBounded
<1>2. CASE S = {}
  BY <1>2, Zenon DEF Unbroken
<1>3. ASSUME NEW lag \in 0..MaxLag, S = Recent(UpTo(ohlc, clock - lag), SeedBars)
      PROVE  Unbroken(S, ohlc)
  <2> DEFINE H == UpTo(ohlc, clock - lag)
  <2>1. H \subseteq ohlc /\ \A b \in ohlc : b \in H <=> b.t <= clock - lag
    BY Zenon DEF UpTo
  <2>2. S \subseteq H /\ \A b \in H : b \in S <=> Cardinality(After(H, b.t)) < SeedBars
    BY <1>3, Zenon DEF Recent
  <2> HIDE DEF H
  <2>3. ASSUME NEW x \in S, NEW z \in S, NEW y \in ohlc, x.t <= y.t, y.t <= z.t
        PROVE  y \in S
    <3>1. x.t \in Nat /\ y.t \in Nat /\ z.t \in Nat /\ clock - lag \in Int
      BY <1>1, <2>1, <2>2, <2>3, SMT, SMTT(30) DEF Bar
    <3>2. y \in H
      BY <2>1, <2>2, <2>3, <3>1, SMT, SMTT(30)
    <3>3. \A b \in H : b.t \in Nat
      BY <1>1, <2>1, Zenon DEF Bar
    <3>4. After(H, y.t) \subseteq After(H, x.t)
      BY <2>3, <3>1, <3>3, SMT, SMTT(30) DEF After
    <3>5. IsFiniteSet(After(H, x.t))
      <4>1. After(H, x.t) \subseteq ohlc
        BY <2>1, Zenon DEF After
      <4> QED
        BY <1>1, <4>1, FS_Subset, Zenon
    <3>6. /\ Cardinality(After(H, y.t)) <= Cardinality(After(H, x.t))
          /\ Cardinality(After(H, y.t)) \in Nat /\ Cardinality(After(H, x.t)) \in Nat
      BY <3>4, <3>5, FS_Subset, FS_CardinalityType, Zenon
    <3>7. Cardinality(After(H, x.t)) < SeedBars
      BY <2>2, Zenon
    <3> QED
      BY <1>1, <2>2, <3>2, <3>6, <3>7, SMT, SMTT(30)
  <2> QED
    BY <2>1, <2>2, <2>3, Zenon DEF Unbroken
<1> QED
  BY <1>2, <1>3, Zenon DEF Seeds

\* The bar of a new period comes after every bar of an older history.
LEMMA UnbrokenGrows ==
  ASSUME NEW h \in SUBSET Bar, NEW n \in Nat, \A b \in h : b.t <= n,
         NEW new, \A b \in new : b.t = n + 1, NEW S, Unbroken(S, h)
  PROVE  Unbroken(S, h \cup new)
<1>1. S \subseteq h
  BY Zenon DEF Unbroken
<1>2. ASSUME NEW x \in S, NEW z \in S, NEW y \in h \cup new, x.t <= y.t, y.t <= z.t
      PROVE  y \in S
  <2>1. z \in Bar /\ z.t \in Nat /\ z.t <= n
    BY <1>1, Zenon DEF Bar
  <2>2. y \notin new
    BY <1>2, <2>1, SMT, SMTT(30)
  <2> QED
    BY <1>2, <2>2, Zenon DEF Unbroken
<1> QED
  BY <1>1, <1>2, Zenon DEF Unbroken

\* The only bar at the next time extends an unbroken run; so does a first bar.
LEMMA AdvanceUnbroken ==
  ASSUME NEW h \in SUBSET Bar, \A x, y \in h : x.t = y.t => x = y,
         NEW S, Unbroken(S, h), NEW bar \in h,
         \A x \in S : x.t <= bar.t - 1,
         S # {} => \E x \in S : x.t = bar.t - 1
  PROVE  Unbroken(S \cup {bar}, h)
<1>1. S \subseteq h /\ bar.t \in Nat /\ \A x \in h : x.t \in Nat
  BY Zenon DEF Unbroken, Bar
<1>2. ASSUME NEW x \in S \cup {bar}, NEW z \in S \cup {bar}, NEW y \in h, x.t <= y.t, y.t <= z.t
      PROVE  y \in S \cup {bar}
  <2>1. y.t \in Nat /\ x.t \in Nat /\ z.t \in Nat /\ y.t <= bar.t
    BY <1>1, <1>2, SMT, SMTT(30)
  <2>2. CASE y.t = bar.t
    BY <2>2, Zenon
  <2>3. CASE y.t # bar.t
    <3>1. x \in S /\ y.t <= bar.t - 1
      BY <1>1, <1>2, <2>1, <2>3, SMT, SMTT(30)
    <3>2. PICK w \in S : w.t = bar.t - 1
      BY <3>1, Zenon
    <3> QED
      BY <1>2, <3>1, <3>2, Zenon DEF Unbroken
  <2> QED
    BY <2>2, <2>3, Zenon
<1> QED
  BY <1>1, <1>2, Zenon DEF Unbroken

\* A checkpoint whose bars end where the tail of the seed begins.
LEMMA RestoredUnbroken ==
  ASSUME NEW h \in SUBSET Bar, \A x, y \in h : x.t = y.t => x = y,
         NEW old, Unbroken(old, h), NEW S, Unbroken(S, h),
         NEW from \in Nat, NEW to \in Nat, from <= to,
         \E x \in old : x.t = from, \A x \in old : x.t <= from,
         \E x \in S : x.t = from
  PROVE  /\ Unbroken(old \cup After(UpTo(S, to), from), h)
         /\ \A b \in S : b.t = to => b \in old \cup After(UpTo(S, to), from)
<1> DEFINE tail == After(UpTo(S, to), from)
<1>1. old \subseteq h /\ S \subseteq h /\ \A x \in h : x.t \in Nat
  BY Zenon DEF Unbroken, Bar
<1>2. \A b \in S : b \in tail <=> b.t <= to /\ b.t > from
  BY <1>1, Zenon DEF After, UpTo
<1>3. tail \subseteq S
  BY Zenon DEF After, UpTo
<1>4. PICK w \in old : w.t = from
  BY Zenon
<1>5. PICK u \in S : u.t = from
  BY Zenon
<1> HIDE DEF tail
<1>6. ASSUME NEW x \in old \cup tail, NEW z \in old \cup tail, NEW y \in h, x.t <= y.t, y.t <= z.t
      PROVE  y \in old \cup tail
  <2>1. x.t \in Nat /\ y.t \in Nat /\ z.t \in Nat
    BY <1>1, <1>3, <1>6, Zenon
  <2>2. CASE y.t <= from
    <3>1. x \in old
      BY <1>2, <1>3, <1>6, <2>1, <2>2, SMT, SMTT(30)
    <3> QED
      BY <1>4, <1>6, <2>2, <3>1, Zenon DEF Unbroken
  <2>3. CASE y.t > from
    <3>1. z \in tail /\ z \in S
      BY <1>3, <1>6, <2>1, <2>3, SMT, SMTT(30)
    <3>2. y \in S
      BY <1>5, <1>6, <2>1, <2>3, <3>1, SMT, SMTT(30) DEF Unbroken
    <3> QED
      BY <1>2, <1>6, <2>1, <2>3, <3>1, <3>2, SMTT(20), SMTT(30)
  <2> QED
    BY <2>1, <2>2, <2>3, SMT, SMTT(30)
<1>7. ASSUME NEW b \in S, b.t = to
      PROVE  b \in old \cup tail
  <2>1. CASE to = from
    BY <1>1, <1>4, <1>7, <2>1, Zenon
  <2>2. CASE to # from
    BY <1>2, <1>7, <2>2, SMT, SMTT(30)
  <2> QED
    BY <2>1, <2>2, Zenon
<1>8. Unbroken(old \cup tail, h)
  BY <1>1, <1>3, <1>6, Zenon DEF Unbroken
<1> QED
  BY <1>7, <1>8, Zenon DEF tail

\* A command keeps its seed, drops it, or has just received it.
LEMMA SeedSteps ==
  ASSUME LaneInv, [Next]_vars
  PROVE  op'.seed = op.seed \/ op'.seed = {} \/ op'.seed \in Seeds
<1>1. Idle.seed = {}
  BY Zenon DEF Idle
<1>2. \A m : Installing(m).seed = op.seed /\ [Idle EXCEPT !.pc = "install", !.next = m].seed = {}
  BY Zenon DEF Installing, Idle, LaneInv, TypeOK
<1>0. /\ Fail => op'.seed = {}
      /\ FailBar => op'.seed = op.seed \/ op'.seed = {}
  <2>1. Fail => op'.seed = {}
    BY <1>1, Zenon DEF Fail
  <2>2. FailBar => op' = Rebuilding(op.seed, TRUE) \/ Fail
    BY Zenon DEF FailBar
  <2>3. Rebuilding(op.seed, TRUE).seed = op.seed
    BY Zenon DEF Rebuilding
  <2> QED
    BY <2>1, <2>2, <2>3, Zenon
<1>3. CASE Seed
  <2>1. PICK S \in Seeds : ApplySeed(S)
    BY <1>3, Zenon DEF Seed
  <2>2. \/ op' \in {CatchingUp(S, TRUE), CatchingUp(S, FALSE)}
        \/ op' \in {Rebuilding(S, TRUE), Rebuilding(S, FALSE)}
        \/ Fail
    BY <2>1, Zenon DEF ApplySeed
  <2>3. /\ CatchingUp(S, TRUE).seed = S /\ CatchingUp(S, FALSE).seed = S
        /\ Rebuilding(S, TRUE).seed = S /\ Rebuilding(S, FALSE).seed = S
    BY Zenon DEF CatchingUp, Rebuilding
  <2> QED
    BY <1>0, <2>2, <2>3, Zenon
<1>4. ASSUME NEW bar, ApplyClosed(bar) PROVE op'.seed = op.seed \/ op'.seed = {}
  <2>1. FailBar \/ op' = Installing(Advance(lane, bar))
    BY <1>4, Zenon DEF ApplyClosed
  <2> QED
    BY <1>0, <1>2, <2>1, Zenon
<1>5. CASE ReceiveClosed \/ CatchUp
  <2>1. FailBar \/ op' = Idle \/ \E bar : ApplyClosed(bar)
    BY <1>5, Zenon DEF ReceiveClosed, CatchUp
  <2> QED
    BY <1>0, <1>1, <1>4, <2>1, Zenon
<1>6. CASE Install
  BY <1>1, <1>6, Zenon DEF Install, CatchingUp
<1>7. CASE Rebuild
  BY <1>1, <1>2, <1>7, Zenon DEF Rebuild, Fail
<1>8. CASE ApplyForming
  BY <1>1, <1>8, Zenon DEF ApplyForming, Fail
<1>9. CASE CloseBar \/ Repair \/ Connect \/ Disconnect \/ Start \/ Crash \/ UNCHANGED vars
  BY <1>1, <1>9, Zenon DEF CloseBar, Repair, Connect, Disconnect, Start, Crash, vars
<1> QED
  BY <1>3, <1>5, <1>6, <1>7, <1>8, <1>9, Zenon DEF Next

\* Repairs are counted and never forgotten.
LEMMA RepairsOnlyGrow ==
  ASSUME LaneInv, [Next]_vars, spent'.repairs = 0
  PROVE  spent.repairs = 0 /\ ~Repair
<1>1. spent \in [crashes : Nat, faults : Nat, repairs : Nat]
  BY LaneTypes, Zenon
<1>2. CASE spent' = spent
  BY <1>1, <1>2, SMT, SMTT(30) DEF Repair, Spend
<1>3. ASSUME NEW what \in {"crashes", "faults"}, NEW limit, Spend(what, limit)
      PROVE  spent'.repairs = spent.repairs
  BY <1>1, <1>3, Zenon DEF Spend
<1>4. ASSUME Repair PROVE spent'.repairs = spent.repairs + 1
  BY <1>1, <1>4, Zenon DEF Repair, Spend
<1>5. ~Repair
  <2>1. spent.repairs \in Nat
    BY <1>1, Zenon
  <2> QED
    BY <1>4, <2>1, SMT, SMTT(30)
<1>6. \/ spent' = spent \/ Spend("faults", MaxFaults) \/ Spend("crashes", MaxCrashes)
  BY <1>5, Zenon DEF Next, vars, CloseBar, Connect, Disconnect, Start, Crash, Seed, ApplySeed,
         ReceiveClosed, CatchUp, ApplyClosed, Install, Rebuild, ApplyForming
<1> QED
  BY <1>2, <1>3, <1>5, <1>6, Zenon

\* A bar of the service that the lane does not refuse extends its EMAs by the
\* next bar of the service's history.
LEMMA MemoryStaysUnbroken ==
  ASSUME LaneInv, CountInv, HistoryInv, NEW bar \in ohlc, bar # lane.last, ~Rejected(bar)
  PROVE  MemoryUnbroken(cfg.periods, Advance(lane, bar), ohlc)
<1>1. /\ ohlc \in SUBSET Bar /\ bar \in Bar /\ bar.t \in Nat /\ bar # None
      /\ lane \in Memory(cfg.periods, DOMAIN lane.projected)
      /\ \A x, y \in ohlc : x.t = y.t => x = y
      /\ lane.last # None => lane.last.t \in Nat
  BY LaneTypes, NoneIsNoBar, Zenon DEF HistoryInv, Bar
<1>2. lane.last # None => lane.last.t = bar.t - 1
  BY <1>1, SMT, SMTT(30) DEF Rejected
<1>3. Advance(lane, bar).last = bar
  BY Zenon DEF Advance
<1>4. ASSUME NEW p \in cfg.periods
      PROVE  /\ bar \in Advance(lane, bar).ema[p].bars
             /\ Unbroken(Advance(lane, bar).ema[p].bars, ohlc)
  <2> DEFINE old == lane.ema[p].bars
  <2>1. Advance(lane, bar).ema[p].bars = old \cup {bar}
    <3>1. lane.last # None => lane.last.t < bar.t
      BY <1>1, AcceptedIsNew, Zenon
    <3> QED
      BY <1>1, <3>1, AdvanceCounted, SMTT(20), SMTT(30) DEF CountInv
  <2>2. \A x \in old : lane.last # None /\ x.t <= lane.last.t
    BY Zenon DEF CountInv, MemoryCounted
  <2>3. Unbroken(old, ohlc) /\ (old # {} => lane.last \in old)
    <3>1. CASE lane.last = None
      <4>1. old = {}
        BY <2>2, <3>1, Zenon
      <4> QED
        BY <4>1, Zenon DEF Unbroken
    <3>2. CASE lane.last # None
      BY <3>2, Zenon DEF HistoryInv, MemoryUnbroken
    <3> QED
      BY <3>1, <3>2, Zenon
  <2> HIDE DEF old
  <2>4. Unbroken(old \cup {bar}, ohlc)
    <3>1. \A x \in old : x.t <= bar.t - 1
      BY <1>2, <2>2, Zenon
    <3>2. old # {} => \E x \in old : x.t = bar.t - 1
      BY <1>2, <2>2, <2>3, Zenon
    <3> QED
      BY <1>1, <2>3, <3>1, <3>2, AdvanceUnbroken, Zenon
  <2> QED
    BY <2>1, <2>4, Zenon
<1> QED
  BY <1>3, <1>4, Zenon DEF MemoryUnbroken

\* A restored lane continues its checkpoint with the seed's bars, up to the
\* bar the cursor stands on.
LEMMA RestoreStaysUnbroken ==
  ASSUME LaneInv, CountInv, HistoryInv, NEW S \in Seeds, db.cursor # None, Restorable(S)
  PROVE  MemoryUnbroken(cfg.periods, Restored(S), ohlc)
<1>1. /\ S \in SUBSET Bar /\ IsFiniteSet(S) /\ \A b \in S : b.t <= clock
      /\ Unbroken(S, ohlc)
  BY SeedsType, SeedsUnbroken, Zenon DEF LaneInv
<1>2. /\ ohlc \in SUBSET Bar /\ \A x, y \in ohlc : x.t = y.t => x = y
      /\ db \in Database /\ db.cursor.t \in Nat /\ cfg.periods \in SUBSET Periods
  BY LaneTypes, ConfigType, Zenon DEF HistoryInv
<1>3. /\ \A p \in cfg.periods :
           /\ Restored(S).ema[p].bars
                = db.emaSnaps[p].reducer.bars \cup After(UpTo(S, db.cursor.t), Checkpoint.t)
           /\ db.emaSnaps[p].t = Checkpoint.t
      /\ Restored(S).last \in S /\ Restored(S).last.t = db.cursor.t
  BY <1>1, RestoredCounted, Zenon DEF CountInv
<1>4. ASSUME NEW p \in cfg.periods
      PROVE  Restored(S).last \in Restored(S).ema[p].bars /\ Unbroken(Restored(S).ema[p].bars, ohlc)
  <2> DEFINE old == db.emaSnaps[p].reducer.bars
             from == Checkpoint.t
  <2>1. db.emaSnaps[p] # None /\ db.emaSnaps[p] \in Snapshot
    BY <1>2, Zenon DEF Restorable, Database
  <2>2. SnapshotCounted(db.emaSnaps[p], db.cursor) /\ Unbroken(old, ohlc)
    BY <1>2, <2>1, Zenon DEF CountInv, HistoryInv
  <2>3. from \in Nat /\ from <= db.cursor.t
    BY <1>3, <2>1, <2>2, Zenon DEF Snapshot, SnapshotCounted
  <2>4. (\E x \in old : x.t = from) /\ (\A x \in old : x.t <= from)
    BY <1>3, <2>2, Zenon DEF SnapshotCounted
  <2>5. \E x \in S : x.t = from
    BY Zenon DEF Restorable, At
  <2>6. Restored(S).ema[p].bars = old \cup After(UpTo(S, db.cursor.t), from)
    BY <1>3, Zenon
  <2> HIDE DEF old, from
  <2>7. /\ Unbroken(old \cup After(UpTo(S, db.cursor.t), from), ohlc)
        /\ \A b \in S : b.t = db.cursor.t => b \in old \cup After(UpTo(S, db.cursor.t), from)
    BY <1>1, <1>2, <2>2, <2>3, <2>4, <2>5, RestoredUnbroken, Zenon
  <2> QED
    BY <1>3, <2>6, <2>7, Zenon
<1> QED
  BY <1>4, Zenon DEF MemoryUnbroken

\* As long as nothing is repaired, every step keeps HistoryInv.
LEMMA HistoryStep ==
  ASSUME LaneInv, CountInv, HistoryInv, [Next]_vars, ~Repair
  PROVE  HistoryInv'
<1>1. /\ clock \in Nat /\ ohlc \in SUBSET Bar /\ cfg \in Configs /\ cfg.periods \in SUBSET Periods
      /\ \A b \in ohlc \cup op.seed : b.t <= clock
      /\ op.seed \in SUBSET Bar /\ IsFiniteSet(op.seed)
  BY LaneTypes, ConfigType, Zenon DEF LaneInv, HistoriesBounded
<1>2. /\ \A x, y \in ohlc : x.t = y.t => x = y
      /\ Unbroken(op.seed, ohlc)
      /\ MemoryUnbroken(cfg.periods, lane, ohlc)
      /\ op.pc = "install" => MemoryUnbroken(cfg.periods, op.next, ohlc)
      /\ \A p \in Periods :
           db.emaSnaps[p] # None => Unbroken(db.emaSnaps[p].reducer.bars, ohlc)
  BY Zenon DEF HistoryInv
<1>3. CASE ohlc' # ohlc
  <2>1. CloseBar /\ UNCHANGED <<cfg, lane, op, db>>
    BY <1>3, HistorySteps, Zenon
  <2>2. PICK new : ohlc' = ohlc \cup new /\ \E v \in Values : new = {[t |-> clock + 1, v |-> v]}
    BY <1>3, <2>1, Zenon DEF CloseBar
  <2>3. (\A b \in new : b.t = clock + 1) /\ (\A x, y \in new : x = y)
    BY <2>2, SMTT(20), SMTT(30)
  <2>4. \A x, y \in ohlc' : x.t = y.t => x = y
    <3> SUFFICES ASSUME NEW x \in ohlc \cup new, NEW y \in ohlc \cup new, x.t = y.t PROVE x = y
      BY <2>2, Zenon
    <3>1. \A b \in ohlc : b.t \in Nat /\ b.t <= clock
      BY <1>1, Zenon DEF Bar
    <3> QED
      BY <1>1, <1>2, <2>3, <3>1, SMT, SMTT(30)
  <2>5. \A S : Unbroken(S, ohlc) => Unbroken(S, ohlc')
    BY <1>1, <2>2, <2>3, UnbrokenGrows, Zenon
  <2>6. \A m : MemoryUnbroken(cfg.periods, m, ohlc) => MemoryUnbroken(cfg.periods, m, ohlc')
    BY <2>5, Zenon DEF MemoryUnbroken
  <2>7. MemoryUnbroken(cfg.periods, lane, ohlc') /\ Unbroken(op.seed, ohlc')
    BY <1>2, <2>5, <2>6, Zenon
  <2>8. op.pc = "install" => MemoryUnbroken(cfg.periods, op.next, ohlc')
    BY <1>2, <2>6, Zenon
  <2>9. \A p \in Periods :
          db.emaSnaps[p] # None => Unbroken(db.emaSnaps[p].reducer.bars, ohlc')
    BY <1>2, <2>5, Zenon
  <2> QED
    BY <2>1, <2>4, <2>7, <2>8, <2>9, Zenon DEF HistoryInv
<1>4. CASE ohlc' = ohlc
  <2>1. ASSUME NEW bar \in ohlc \cup op.seed, bar # lane.last, ~Rejected(bar)
        PROVE  MemoryUnbroken(cfg.periods, Advance(lane, bar), ohlc)
    <3>1. bar \in ohlc
      BY <1>2, Zenon DEF Unbroken
    <3> QED
      BY <2>1, <3>1, MemoryStaysUnbroken, Zenon
  <2>2. MemoryUnbroken(cfg.periods, Replay(cfg, op.seed), ohlc)
    <3>1. \A p \in cfg.periods : Replay(cfg, op.seed).ema[p].bars = op.seed
      BY <1>1, ReplayCounted, Zenon
    <3>2. Replay(cfg, op.seed).last # None => Replay(cfg, op.seed).last \in op.seed
      BY <1>1, ReplayType, Zenon
    <3> QED
      BY <1>2, <3>1, <3>2, Zenon DEF MemoryUnbroken
  <2>3. Unbroken(op'.seed, ohlc)
    <3>1. Unbroken({}, ohlc)
      BY Zenon DEF Unbroken
    <3> QED
      BY <1>2, <3>1, SeedSteps, SeedsUnbroken, Zenon
  <2>4. op'.pc = "install" => MemoryUnbroken(cfg'.periods, op'.next, ohlc)
    BY <1>2, <2>1, <2>2, PendingSteps, Zenon
  <2>5. MemoryUnbroken(cfg'.periods, lane', ohlc)
    <3>1. CASE cfg' = cfg /\ lane' = lane
      BY <1>2, <3>1, Zenon
    <3>2. CASE lane' = Fresh(cfg')
      BY <3>2, Zenon DEF Fresh, MemoryUnbroken
    <3>3. CASE cfg' = cfg /\ Install
      <4>1. op.pc = "install" /\ lane' = op.next
        BY <3>3, Zenon DEF Install
      <4> QED
        BY <1>2, <3>3, <4>1, Zenon
    <3>4. ASSUME NEW S \in Seeds, db.cursor # None, Restorable(S), lane' = Restored(S), cfg' = cfg
          PROVE  MemoryUnbroken(cfg'.periods, lane', ohlc)
      BY <3>4, RestoreStaysUnbroken, Zenon
    <3>5. ASSUME NEW bar, NEW ready, cfg' = cfg,
                 lane' = [lane EXCEPT !.forming = bar,
                                      !.projected = [p \in ready |-> Fold(lane.ema[p], bar)]]
          PROVE  MemoryUnbroken(cfg'.periods, lane', ohlc)
      <4>1. lane'.ema = lane.ema /\ lane'.last = lane.last
        BY <3>5, LaneTypes, Zenon DEF Memory
      <4> QED
        BY <1>2, <3>5, <4>1, Zenon DEF MemoryUnbroken
    <3> QED
      BY <3>1, <3>2, <3>3, <3>4, <3>5, MemorySteps, Zenon
  <2>6. ASSUME NEW p \in Periods, db'.emaSnaps[p] # None
        PROVE  Unbroken(db'.emaSnaps[p].reducer.bars, ohlc)
    <3>1. CASE db'.emaSnaps[p] = db.emaSnaps[p]
      BY <1>2, <2>6, <3>1, Zenon
    <3>2. ASSUME p \in cfg.periods, NEW bar \in ohlc \cup op.seed, bar \in Bar, bar # lane.last,
                 ~Rejected(bar), db'.emaSnaps[p] = [t |-> bar.t, reducer |-> Advance(lane, bar).ema[p]]
          PROVE  Unbroken(db'.emaSnaps[p].reducer.bars, ohlc)
      <4>1. Advance(lane, bar).last # None
        BY <3>2, NoneIsNoBar, Zenon DEF Advance
      <4>2. Unbroken(Advance(lane, bar).ema[p].bars, ohlc)
        BY <2>1, <3>2, <4>1, Zenon DEF MemoryUnbroken
      <4> QED
        BY <3>2, <4>2, SMTT(20), SMTT(30)
    <3>3. ASSUME p \in cfg.periods,
                 db'.emaSnaps[p] = [t |-> Replay(cfg, op.seed).last.t,
                                    reducer |-> Replay(cfg, op.seed).ema[p]]
          PROVE  Unbroken(db'.emaSnaps[p].reducer.bars, ohlc)
      <4>1. Replay(cfg, op.seed).ema[p].bars = op.seed
        BY <1>1, <3>3, ReplayCounted, Zenon
      <4> QED
        BY <1>2, <3>3, <4>1, SMTT(20), SMTT(30)
    <3> QED
      BY <2>6, <3>1, <3>2, <3>3, SnapshotSteps, Zenon
  <2> QED
    BY <1>2, <1>4, <2>3, <2>4, <2>5, <2>6, Zenon DEF HistoryInv
<1> QED
  BY <1>3, <1>4, Zenon

\* Until the first repair, HistoryInv holds.
LEMMA HistoryInvariant == Spec => [](spent.repairs = 0 => HistoryInv)
<1> DEFINE I == spent.repairs = 0 => HistoryInv
<1>1. Init => I
  <2> SUFFICES ASSUME Init PROVE HistoryInv
    BY Zenon
  <2>1. ohlc = {} /\ op.seed = {} /\ op.pc # "install" /\ lane.last = None
        /\ \A p \in Periods : db.emaSnaps[p] = None
    BY Zenon DEF Init, Idle, Fresh, EmptyDatabase
  <2> QED
    BY <2>1, Zenon DEF HistoryInv, Unbroken, MemoryUnbroken
<1>2. LaneInv /\ CountInv /\ I /\ [Next]_vars => I'
  <2> SUFFICES ASSUME LaneInv, CountInv, I, [Next]_vars, spent'.repairs = 0
               PROVE  HistoryInv'
    BY Zenon
  <2> QED
    BY RepairsOnlyGrow, HistoryStep, Zenon
<1> HIDE DEF I
<1>3. Spec => []I
  BY <1>1, <1>2, LaneInvariant, CountInvariant, PTL DEF Spec
<1> QED
  BY <1>3, Zenon DEF I

\* Recovery from any crash point reproduces the uninterrupted run: as long as
\* the service's history has not been rewritten, every EMA has folded an
\* unbroken run of OHLC bars that ends at the lane's last bar, whatever
\* crashes, lost acknowledgements, restarts with other periods, late or empty
\* seeds came before (restoreRecoverySeed, applyClosed, rebuildSeed).
THEOREM RecoveryExact == Spec => [](spent.repairs = 0 => RecoveryIsExact)
<1>1. LaneInv /\ CountInv /\ HistoryInv => RecoveryIsExact
  <2> SUFFICES ASSUME LaneInv, CountInv, HistoryInv, lane.last # None, NEW p \in cfg.periods
               PROVE  lane.ema[p].bars = Since(UpTo(ohlc, lane.last.t), Earliest(lane.ema[p].bars).t)
    BY Zenon DEF RecoveryIsExact
  <2>0. PICK folded : folded = lane.ema[p].bars
    BY Zenon
  <2>1. lane.last \in folded /\ folded \subseteq ohlc
        /\ \A x, z \in folded, y \in ohlc : x.t <= y.t /\ y.t <= z.t => y \in folded
    BY <2>0, Zenon DEF HistoryInv, MemoryUnbroken, Unbroken
  <2>2. \A x \in folded : x.t <= lane.last.t
    BY <2>0, Zenon DEF CountInv, MemoryCounted
  <2>3. folded \in SUBSET Bar
    BY <2>1, LaneTypes, Zenon
  <2>4. Earliest(folded) \in folded /\ \A x \in folded : Earliest(folded).t <= x.t
    BY <2>1, <2>3, EarliestIsFirst, Zenon
  <2>5. \A y \in ohlc : y \in folded <=> y.t <= lane.last.t /\ y.t >= Earliest(folded).t
    <3>1. \A y \in ohlc : y.t \in Nat
      BY LaneTypes, Zenon DEF Bar
    <3> QED
      BY <2>1, <2>2, <2>4, <3>1, Zenon
  <2> QED
    BY <2>0, <2>1, <2>5, Zenon DEF Since, UpTo
<1>2. LaneInv /\ CountInv /\ (spent.repairs = 0 => HistoryInv) => (spent.repairs = 0 => RecoveryIsExact)
  BY <1>1, Zenon
<1> QED
  BY <1>2, LaneInvariant, CountInvariant, HistoryInvariant, PTL

=============================================================================
