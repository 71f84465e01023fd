-------------------------- MODULE LaneWindowProofs ---------------------------
(***************************************************************************)
(* A lane follows the corrections of the OHLC service: as long as it does  *)
(* not restore a checkpoint, a seeded lane's window is exactly the         *)
(* service's history over its range (OneHistory).                          *)
(***************************************************************************)
EXTENDS LaneHistoryProofs

-----------------------------------------------------------------------------
(* Windows, seeds and what folding does to them.                           *)

\* What Recent keeps: the end of a history, n bars of it or all.
LEMMA RecentEnds ==
  ASSUME NEW H \in SUBSET Bar, IsFiniteSet(H), NEW k \in Nat, \A b \in H : b.t <= k,
         \A x, y \in H : x.t = y.t => x = y, NEW n \in Nat \ {0}
  PROVE  /\ Recent(H, n) \subseteq H /\ IsFiniteSet(Recent(H, n))
         /\ Cardinality(Recent(H, n)) \in Nat /\ Cardinality(Recent(H, n)) <= n
         /\ EndOf(Recent(H, n), H)
         /\ \A y \in H : y \in Recent(H, n) \/ Cardinality(Recent(H, n)) >= n
         /\ \A b \in H : (\A c \in H : c.t <= b.t) => b \in Recent(H, n)
<1> DEFINE R == Recent(H, n)
<1>0. \A b \in H : b.t \in Nat
  BY DEF Bar
<1>1. R \subseteq H /\ \A b \in H : b \in R <=> Cardinality(After(H, b.t)) < n
  BY DEF Recent
<1>2. IsFiniteSet(R) /\ Cardinality(R) \in Nat
  BY <1>1, FS_Subset, FS_CardinalityType
<1>3. \A t : After(H, t) \subseteq H /\ IsFiniteSet(After(H, t)) /\ Cardinality(After(H, t)) \in Nat
  <2>1. \A t : After(H, t) \subseteq H
    BY DEF After
  <2> QED
    BY <2>1, FS_Subset, FS_CardinalityType
<1> HIDE DEF R
<1>4. EndOf(R, H)
  <2>1. ASSUME NEW x \in R, NEW y \in H, x.t <= y.t
        PROVE  y \in R
    <3>1. After(H, y.t) \subseteq After(H, x.t)
      BY <1>0, <1>1, <2>1 DEF After
    <3>2. Cardinality(After(H, y.t)) <= Cardinality(After(H, x.t))
      BY <1>3, <3>1, FS_Subset
    <3> QED
      BY <1>1, <1>3, <3>2
  <2> QED
    BY <1>1, <2>1 DEF EndOf
<1>5. Cardinality(R) <= n
  <2>1. CASE R = {}
    BY <2>1, FS_EmptySet
  <2>2. CASE R # {}
    <3>1. R \in SUBSET Bar
      BY <1>1
    <3>2. PICK e \in R : \A b \in R : e.t <= b.t
      BY <2>2, <3>1, EarliestIsFirst, Zenon
    <3>3. R \ {e} \subseteq After(H, e.t)
      BY <1>0, <1>1, <3>2 DEF After
    <3>4. Cardinality(R \ {e}) <= Cardinality(After(H, e.t)) /\ Cardinality(After(H, e.t)) < n
      BY <1>1, <1>3, <3>2, <3>3, FS_Subset
    <3>5. Cardinality(R \ {e}) = Cardinality(R) - 1
      BY <1>2, <3>2, FS_RemoveElement, Zenon
    <3> QED
      BY <1>2, <1>3, <3>4, <3>5
  <2> QED
    BY <2>1, <2>2
<1>6. ASSUME NEW y \in H, y \notin R
      PROVE  Cardinality(R) >= n
  <2> DEFINE out == H \ R
  <2>1. out \in SUBSET Bar /\ out # {} /\ \A b \in out : b.t <= k
    BY <1>6
  <2>2. PICK z \in out : \A b \in out : b.t <= z.t
    BY <2>1, LatestIsLast, Zenon
  <2>3. After(H, z.t) \subseteq R
    BY <1>0, <2>2 DEF After
  <2>4. Cardinality(After(H, z.t)) <= Cardinality(R)
    BY <1>2, <2>3, FS_Subset
  <2>5. ~(Cardinality(After(H, z.t)) < n)
    BY <1>1, <2>2
  <2> QED
    BY <1>2, <1>3, <2>4, <2>5
<1>7. ASSUME NEW b \in H, \A c \in H : c.t <= b.t
      PROVE  b \in R
  <2>1. After(H, b.t) = {}
    BY <1>0, <1>7 DEF After
  <2>2. Cardinality(After(H, b.t)) < n
    BY <2>1, FS_EmptySet
  <2> QED
    BY <1>1, <2>2
<1> QED
  BY <1>1, <1>2, <1>4, <1>5, <1>6, <1>7 DEF R

\* Folding the next bar keeps a window: its end moves on.
LEMMA AdvanceWindow ==
  ASSUME NEW P, NEW Q, NEW m \in Memory(P, Q), NEW h, MemoryWindowed(P, m, h), MemoryCounted(P, m),
         NEW bar \in Bar, m.last # None => m.last.t < bar.t, \E y \in h : y.t = bar.t
  PROVE  /\ Advance(m, bar).last = bar /\ bar # None /\ bar \in Advance(m, bar).market.bars
         /\ Advance(m, bar).market.bars \subseteq m.market.bars \cup {bar}
         /\ EndOf(Advance(m, bar).market.bars, m.market.bars \cup {bar})
         /\ \A x \in m.market.bars : x.t < bar.t
         /\ MemoryWindowed(P, Advance(m, bar), h)
<1> DEFINE W == m.market.bars
           H == W \cup {bar}
           V == Recent(H, HistoryLimit)
           a == Advance(m, bar)
<1>1. W \in SUBSET Bar /\ bar # None /\ bar.t \in Nat /\ HistoryLimit \in Nat \ {0}
  BY NoneIsNoBar, LaneAssumption DEF Memory, Reducer, Bar
<1>2. a.last = bar /\ a.market.bars = V /\ \A p \in P : a.ema[p].bars = m.ema[p].bars \cup {bar}
  BY DEF Advance, FoldMarket, Fold, Memory
<1>3. /\ IsFiniteSet(W) /\ (m.last = None => W = {}) /\ \A x \in W : x.t <= m.last.t
      /\ \A x, y \in W : x.t = y.t => x = y
      /\ \A x \in W : \E y \in h : y.t = x.t
      /\ \A p \in P : EndOf(W, m.ema[p].bars)
      /\ m.last # None => m.last \in W
  BY DEF MemoryWindowed, Dated
<1>4. \A x \in W : x.t \in Nat /\ x.t < bar.t
  <2>1. \A x \in W : x.t \in Nat /\ m.last # None /\ m.last.t \in Nat
    BY <1>1, <1>3 DEF Bar
  <2> QED
    BY <1>1, <1>3, <2>1
<1> HIDE DEF W, a
<1>5. /\ H \in SUBSET Bar /\ IsFiniteSet(H) /\ (\A b \in H : b.t <= bar.t)
      /\ \A x, y \in H : x.t = y.t => x = y
  BY <1>1, <1>3, <1>4, FS_AddElement
<1> HIDE DEF H
<1>6. /\ V \subseteq H /\ IsFiniteSet(V) /\ Cardinality(V) <= HistoryLimit /\ EndOf(V, H)
      /\ \A b \in H : (\A c \in H : c.t <= b.t) => b \in V
  BY <1>1, <1>5, RecentEnds
<1> HIDE DEF V
<1>7. bar \in V
  BY <1>5, <1>6 DEF H
<1>8. Dated(V, h)
  <2>1. \A x, y \in V : x.t = y.t => x = y
    BY <1>5, <1>6
  <2>2. \A x \in V : \E y \in h : y.t = x.t
    BY <1>3, <1>6 DEF H
  <2> QED
    BY <2>1, <2>2 DEF Dated
<1>9. ASSUME NEW p \in P
      PROVE  EndOf(V, m.ema[p].bars \cup {bar})
  <2>1. PICK E : E = m.ema[p].bars /\ EndOf(W, E)
    BY <1>3
  <2>2. V \subseteq E \cup {bar}
    BY <1>6, <2>1 DEF EndOf, H
  <2>3. ASSUME NEW x \in V, NEW y \in E \cup {bar}, x.t <= y.t
        PROVE  y \in V
    <3>1. CASE y = bar
      BY <1>7, <3>1
    <3>2. CASE y # bar /\ x = bar
      <4>1. y \in Bar /\ y.t \in Nat /\ m.last # None /\ m.last.t \in Nat /\ y.t <= m.last.t
        BY <2>1, <2>3, <3>2 DEF MemoryCounted, Memory, Reducer, Bar
      <4> QED
        BY <1>1, <2>3, <3>2, <4>1
    <3>3. CASE y # bar /\ x # bar
      BY <1>6, <2>1, <2>3, <3>3 DEF EndOf, H
    <3> QED
      BY <3>1, <3>2, <3>3
  <2> QED
    BY <2>1, <2>2, <2>3 DEF EndOf
<1>10. MemoryWindowed(P, a, h)
  <2>1. \A x \in V : x.t <= a.last.t
    BY <1>2, <1>5, <1>6
  <2>2. \A p \in P : EndOf(V, a.ema[p].bars)
    BY <1>2, <1>9
  <2> QED
    BY <1>1, <1>2, <1>6, <1>7, <1>8, <2>1, <2>2 DEF MemoryWindowed
<1>11. /\ a.last = bar /\ bar # None /\ bar \in a.market.bars
       /\ a.market.bars \subseteq W \cup {bar} /\ EndOf(a.market.bars, W \cup {bar})
       /\ \A x \in W : x.t < bar.t
  BY <1>1, <1>2, <1>4, <1>6, <1>7 DEF H
<1> QED
  BY <1>10, <1>11 DEF W, a

\* A replay has the end of its seed for a window, and all of it in its EMAs.
LEMMA ReplayWindow ==
  ASSUME NEW c, NEW S \in SUBSET Bar, IsFiniteSet(S), NEW k \in Nat, \A b \in S : b.t <= k,
         NEW h, Dated(S, h)
  PROVE  /\ EndOf(Replay(c, S).market.bars, S) /\ MemoryWindowed(c.periods, Replay(c, S), h)
         /\ S # {} => Replay(c, S).last \in S
<1> DEFINE V == Recent(S, HistoryLimit)
           a == Replay(c, S)
<1>1. /\ a.last = (IF S = {} THEN None ELSE Latest(S)) /\ a.market.bars = V
      /\ \A p \in c.periods : a.ema[p].bars = S
  BY DEF Replay
<1>2. HistoryLimit \in Nat \ {0} /\ \A x, y \in S : x.t = y.t => x = y
  BY LaneAssumption DEF Dated
<1>3. /\ V \subseteq S /\ IsFiniteSet(V) /\ Cardinality(V) <= HistoryLimit /\ EndOf(V, S)
      /\ \A b \in S : (\A x \in S : x.t <= b.t) => b \in V
  BY <1>2, RecentEnds
<1>4. S # {} => a.last \in S /\ a.last # None /\ \A b \in S : b.t <= a.last.t
  <2>1. S # {} => Latest(S) \in S /\ \A b \in S : b.t <= Latest(S).t
    BY LatestIsLast
  <2> QED
    BY <1>1, <2>1, NoneIsNoBar
<1> HIDE DEF V, a
<1>5. Dated(V, h)
  BY <1>3 DEF Dated
<1>6. IF a.last = None THEN V = {} ELSE a.last \in V
  BY <1>1, <1>3, <1>4
<1>7. \A x \in V : x.t <= a.last.t
  BY <1>3, <1>4
<1>8. MemoryWindowed(c.periods, a, h)
  BY <1>1, <1>3, <1>5, <1>6, <1>7 DEF MemoryWindowed
<1> QED
  BY <1>1, <1>3, <1>4, <1>8 DEF a

\* An exact window stays exact when the next bar of the service is folded.
LEMMA AdvanceExact ==
  ASSUME NEW P, NEW Q, NEW m \in Memory(P, Q), NEW h \in SUBSET Bar,
         MemoryWindowed(P, m, h), MemoryCounted(P, m), Dated(h, h), Exact(m, h),
         NEW bar \in h, m.last # None => bar.t = m.last.t + 1
  PROVE  Exact(Advance(m, bar), h)
<1>0. bar \in Bar /\ bar.t \in Nat /\ \A y \in h : y.t \in Nat
  BY DEF Bar
<1>1. m.last # None => m.last \in Bar /\ m.last.t \in Nat /\ m.last.t < bar.t
  <2>1. m.last \in Bar \cup {None}
    BY DEF Memory
  <2>2. m.last # None => m.last \in Bar /\ m.last.t \in Nat
    BY <2>1 DEF Bar
  <2> QED
    BY <1>0, <2>2
<1>9. /\ Advance(m, bar).last = bar /\ bar # None /\ bar \in Advance(m, bar).market.bars
      /\ Advance(m, bar).market.bars \subseteq m.market.bars \cup {bar}
      /\ EndOf(Advance(m, bar).market.bars, m.market.bars \cup {bar})
      /\ \A x \in m.market.bars : x.t < bar.t
      /\ MemoryWindowed(P, Advance(m, bar), h)
  <2>1. \E y \in h : y.t = bar.t
    OBVIOUS
  <2>2. bar \in Bar /\ (m.last # None => m.last.t < bar.t)
    BY <1>0, <1>1
  <2> QED
    BY <2>1, <2>2, AdvanceWindow, Zenon
<1> DEFINE W == m.market.bars
           V == Advance(m, bar).market.bars
<1>2. /\ Advance(m, bar).last = bar /\ bar # None /\ bar \in V
      /\ V \subseteq W \cup {bar} /\ EndOf(V, W \cup {bar})
      /\ \A x \in W : x.t < bar.t
  BY <1>9, Zenon
<1>3. m.last # None => EndOf(W, UpTo(h, m.last.t))
  BY DEF Exact
<1>4. m.last = None => W = {}
  BY DEF MemoryWindowed
<1> HIDE DEF W, V
<1>5. V \subseteq UpTo(h, bar.t)
  <2>1. ASSUME NEW x \in V PROVE x \in h /\ x.t <= bar.t
    <3>1. CASE x = bar
      BY <1>0, <3>1
    <3>2. CASE x \in W
      BY <1>0, <1>2, <1>3, <1>4, <3>2 DEF EndOf, UpTo
    <3> QED
      BY <1>2, <3>1, <3>2
  <2> QED
    BY <2>1 DEF UpTo
<1>6. ASSUME NEW x \in V, NEW y \in h, y.t <= bar.t, x.t <= y.t
      PROVE  y \in V
  <2>1. CASE y.t = bar.t
    BY <1>2, <2>1 DEF Dated
  <2>2. CASE y.t # bar.t
    <3>1. x \in W /\ m.last # None /\ y.t <= m.last.t
      BY <1>0, <1>1, <1>2, <1>4, <1>6, <2>2
    <3>2. y \in W
      BY <1>3, <1>6, <3>1 DEF EndOf, UpTo
    <3> QED
      BY <1>2, <1>6, <3>2 DEF EndOf
  <2> QED
    BY <2>1, <2>2
<1>7. EndOf(V, UpTo(h, bar.t))
  BY <1>5, <1>6 DEF EndOf, UpTo
<1> QED
  BY <1>2, <1>7 DEF Exact, V

\* What a rebuild installs is exact if its seed misses no bar between its own.
LEMMA ReplayExact ==
  ASSUME NEW c, NEW S \in SUBSET Bar, IsFiniteSet(S), NEW k \in Nat, \A b \in S : b.t <= k,
         NEW h \in SUBSET Bar, Dated(S, h), Unbroken(S, h)
  PROVE  Exact(Replay(c, S), h)
<1> DEFINE V == Replay(c, S).market.bars
           l == Replay(c, S).last
<1>1. /\ EndOf(V, S) /\ (S # {} => l \in S)
      /\ \A x \in V : x.t <= l.t
  BY ReplayWindow DEF MemoryWindowed
<1>2. S = {} => l = None
  BY DEF Replay
<1> HIDE DEF V, l
<1>3. ASSUME l # None PROVE EndOf(V, UpTo(h, l.t))
  <2>1. V \subseteq UpTo(h, l.t)
    BY <1>1 DEF EndOf, Unbroken, UpTo
  <2>2. \A x \in V, y \in h : y.t <= l.t /\ x.t <= y.t => y \in V
    BY <1>1, <1>2, <1>3 DEF EndOf, Unbroken
  <2> QED
    BY <2>1, <2>2 DEF EndOf, UpTo
<1> QED
  BY <1>3 DEF Exact, V, l

\* A catch-up that agrees with its seed still does after the seed's next bar.
LEMMA AdvanceAgrees ==
  ASSUME NEW P, NEW Q, NEW m \in Memory(P, Q), NEW h,
         MemoryWindowed(P, m, h), MemoryCounted(P, m),
         NEW S \in SUBSET Bar, Dated(S, h), Agrees(m, S),
         NEW bar \in S, m.last # None, bar.t = m.last.t + 1
  PROVE  Agrees(Advance(m, bar), S)
<1>0. /\ bar \in Bar /\ bar.t \in Nat /\ (\A y \in S : y.t \in Nat)
      /\ m.last.t \in Nat /\ m.last.t < bar.t
  <2>1. m.last \in Bar
    BY DEF Memory
  <2> QED
    BY <2>1 DEF Bar
<1>9. /\ Advance(m, bar).last = bar /\ bar # None /\ bar \in Advance(m, bar).market.bars
      /\ Advance(m, bar).market.bars \subseteq m.market.bars \cup {bar}
      /\ EndOf(Advance(m, bar).market.bars, m.market.bars \cup {bar})
      /\ \A x \in m.market.bars : x.t < bar.t
      /\ MemoryWindowed(P, Advance(m, bar), h)
  <2>1. \E y \in h : y.t = bar.t
    BY DEF Dated
  <2>2. bar \in Bar /\ (m.last # None => m.last.t < bar.t)
    BY <1>0
  <2> QED
    BY <2>1, <2>2, AdvanceWindow, Zenon
<1> DEFINE W == m.market.bars
           V == Advance(m, bar).market.bars
<1>1. /\ Advance(m, bar).last = bar /\ bar # None /\ bar \in V
      /\ V \subseteq W \cup {bar} /\ EndOf(V, W \cup {bar})
      /\ \A x \in W : x.t < bar.t
  BY <1>9, Zenon
<1>2. \A s \in S, x \in W : s.t <= m.last.t => (x.t <= s.t => s \in W) /\ (s.t <= x.t => x \in S)
  BY DEF Agrees, UpTo
<1>3. W \in SUBSET Bar
  BY DEF Memory, Reducer
<1> HIDE DEF W, V
<1>4. ASSUME NEW s \in S, s.t <= bar.t, NEW x \in V
      PROVE  (x.t <= s.t => s \in V) /\ (s.t <= x.t => x \in S)
  <2>0. s.t \in Nat /\ x.t \in Nat
    BY <1>0, <1>1, <1>3 DEF Bar
  <2>1. CASE s.t = bar.t
    <3>1. s = bar
      BY <2>1 DEF Dated
    <3>2. s.t <= x.t => x = bar
      BY <1>0, <1>1, <2>0, <2>1
    <3> QED
      BY <1>1, <3>1, <3>2
  <2>2. CASE s.t # bar.t
    <3>1. s.t <= m.last.t
      BY <1>0, <1>4, <2>0, <2>2
    <3>2. CASE x = bar
      BY <1>0, <1>4, <2>0, <2>2, <3>2
    <3>3. CASE x \in W
      <4>1. (x.t <= s.t => s \in W) /\ (s.t <= x.t => x \in S)
        BY <1>2, <3>1, <3>3
      <4> QED
        BY <1>1, <4>1 DEF EndOf
    <3> QED
      BY <1>1, <3>2, <3>3
  <2> QED
    BY <2>1, <2>2
<1> QED
  BY <1>1, <1>4 DEF Agrees, UpTo, V

\* A window that agrees with a full seed and has come to its end is exact: a bar
\* of the window before the seed would make the window longer than it may be.
LEMMA AgreedIsExact ==
  ASSUME NEW P, NEW Q, NEW m \in Memory(P, Q), NEW h \in SUBSET Bar, MemoryWindowed(P, m, h),
         NEW S \in SUBSET Bar, IsFiniteSet(S), S # {}, FullSeed(S, h), Agrees(m, S),
         m.last # None, \A s \in S : s.t <= m.last.t
  PROVE  Exact(m, h)
<1> DEFINE W == m.market.bars
<1>1. /\ W \in SUBSET Bar /\ IsFiniteSet(W) /\ Cardinality(W) \in Nat /\ Cardinality(W) <= HistoryLimit
      /\ m.last \in W /\ m.last.t \in Nat /\ \A x \in W : x.t <= m.last.t
      /\ \A x \in W : \E y \in h : y.t = x.t
  <2>1. W \in SUBSET Bar /\ m.last \in Bar
    BY DEF Memory, Reducer
  <2>2. /\ IsFiniteSet(W) /\ Cardinality(W) <= HistoryLimit
        /\ m.last \in W /\ \A x \in W : x.t <= m.last.t
        /\ \A x \in W : \E y \in h : y.t = x.t
    BY DEF MemoryWindowed, Dated
  <2> QED
    BY <2>1, <2>2, FS_CardinalityType DEF Bar
<1>2. \A s \in S, x \in W : (x.t <= s.t => s \in W) /\ (s.t <= x.t => x \in S)
  BY DEF Agrees, UpTo
<1>3. /\ S \subseteq h /\ \A x, z \in S, y \in h : x.t <= y.t /\ y.t <= z.t => y \in S
      /\ \A x \in S, y \in h : y.t <= x.t => y \in S \/ Cardinality(S) >= HistoryLimit
  BY DEF FullSeed, Unbroken
<1>4. /\ \A x \in W \cup S \cup h : x.t \in Nat
      /\ HistoryLimit \in Nat /\ Cardinality(S) \in Nat
  BY <1>1, LaneAssumption, FS_CardinalityType DEF Bar
<1> HIDE DEF W
<1>5. m.last \in S
  BY <1>1, <1>2
<1>6. ASSUME NEW x \in W, x \notin S
      PROVE  FALSE
  <2>1. \A s \in S : x.t < s.t
    BY <1>2, <1>4, <1>6
  <2>2. S \subseteq W
    BY <1>2, <1>4, <2>1
  <2>3. PICK y \in h : y.t = x.t
    BY <1>1
  <2>4. y \notin S
    BY <1>4, <2>1, <2>3
  <2>5. Cardinality(S) >= HistoryLimit
    BY <1>3, <1>4, <1>5, <2>1, <2>3, <2>4
  <2>6. Cardinality(S \cup {x}) = Cardinality(S) + 1
    BY <1>6, FS_AddElement, Zenon
  <2>7. S \cup {x} \subseteq W
    BY <1>6, <2>2
  <2>8. Cardinality(S \cup {x}) <= Cardinality(W)
    BY <1>1, <2>7, FS_Subset
  <2> QED
    BY <1>1, <1>4, <2>5, <2>6, <2>8
<1>7. W \subseteq UpTo(h, m.last.t)
  BY <1>1, <1>3, <1>6 DEF UpTo
<1>8. ASSUME NEW x \in W, NEW y \in h, y.t <= m.last.t, x.t <= y.t
      PROVE  y \in W
  <2>1. y \in S
    BY <1>3, <1>5, <1>6, <1>8
  <2> QED
    BY <1>2, <1>8, <2>1
<1>9. EndOf(W, UpTo(h, m.last.t))
  BY <1>7, <1>8 DEF EndOf, UpTo
<1> QED
  BY <1>9 DEF Exact, W

\* A seed that the lane does not find in conflict with its window agrees with it
\* (seedConflictsWithHistory).
LEMMA NoConflictAgrees ==
  ASSUME LaneInv, NEW h, MemoryWindowed(cfg.periods, lane, h), lane.last # None,
         NEW S \in SUBSET Bar, ~SeedConflictsWithHistory(S)
  PROVE  Agrees(lane, S)
<1>1. PICK W, U : W = lane.market.bars /\ U = UpTo(S, lane.last.t)
  OBVIOUS
<1>2. W \in SUBSET Bar /\ U \in SUBSET Bar /\ U \subseteq S
  BY <1>1, LaneTypes DEF Memory, Reducer, UpTo
<1>3. \A x, y \in W : x.t = y.t => x = y
  BY <1>1 DEF MemoryWindowed, Dated
<1>4. \A x \in W \cup U : x.t \in Nat
  BY <1>2 DEF Bar
<1>5. W # {} /\ U # {} =>
        /\ \A s \in Since(U, Earliest(W).t) : s \in W
        /\ \A b \in Since(W, Earliest(U).t) : At(U, b.t) # {}
  BY <1>1 DEF SeedConflictsWithHistory
<1>6. ASSUME NEW s \in U, NEW x \in W
      PROVE  (x.t <= s.t => s \in W) /\ (s.t <= x.t => x \in S)
  <2>1. PICK w, u : w = Earliest(W).t /\ u = Earliest(U).t
    OBVIOUS
  <2>2. w \in Nat /\ u \in Nat /\ (\A b \in W : w <= b.t) /\ (\A b \in U : u <= b.t)
    BY <1>2, <1>4, <1>6, <2>1, EarliestIsFirst
  <2>3. (\A b \in U : w <= b.t => b \in W) /\ (\A b \in W : u <= b.t => \E c \in U : c.t = b.t)
    BY <1>4, <1>5, <1>6, <2>1, <2>2 DEF Since, At
  <2>4. ASSUME x.t <= s.t PROVE s \in W
    BY <1>4, <1>6, <2>2, <2>3, <2>4
  <2>5. ASSUME s.t <= x.t PROVE x \in S
    <3>1. PICK c \in U : c.t = x.t
      BY <1>4, <1>6, <2>2, <2>3, <2>5
    <3>2. c \in W
      BY <1>4, <1>6, <2>2, <2>3, <3>1
    <3> QED
      BY <1>2, <1>3, <1>6, <3>1, <3>2
  <2> QED
    BY <2>4, <2>5
<1> QED
  BY <1>1, <1>6 DEF Agrees

\* A subscription asks for at least a window of bars, so what the service sends
\* is a full window or all it has, up to the seed's last bar.
LEMMA SeedsFull ==
  ASSUME LaneInv, Dated(ohlc, ohlc), HistoryLimit <= SeedBars, NEW S \in Seeds
  PROVE  FullSeed(S, ohlc) /\ Dated(S, ohlc)
<1>1. /\ clock \in Nat /\ ohlc \in SUBSET Bar /\ IsFiniteSet(ohlc) /\ \A b \in ohlc : b.t <= clock
      /\ MaxLag \in Nat /\ SeedBars \in Nat \ {0} /\ HistoryLimit \in Nat
  BY LaneTypes, LaneAssumption DEF LaneInv, HistoriesBounded
<1>2. Unbroken(S, ohlc) /\ S \subseteq ohlc
  BY SeedsUnbroken DEF Unbroken
<1>3. ASSUME NEW x \in S, NEW y \in ohlc, y.t <= x.t
      PROVE  y \in S \/ Cardinality(S) >= HistoryLimit
  <2>1. PICK lag \in 0..MaxLag : S = Recent(UpTo(ohlc, clock - lag), SeedBars)
    BY <1>3 DEF Seeds
  <2>2. PICK H : H = UpTo(ohlc, clock - lag)
    OBVIOUS
  <2>3. H \subseteq ohlc /\ \A b \in ohlc : b \in H <=> b.t <= clock - lag
    BY <2>2 DEF UpTo
  <2>4. H \in SUBSET Bar /\ IsFiniteSet(H) /\ (\A b \in H : b.t <= clock)
        /\ \A u, v \in H : u.t = v.t => u = v
    BY <1>1, <2>3, FS_Subset DEF Dated
  <2>5. /\ S \subseteq H /\ Cardinality(S) \in Nat
        /\ \A b \in H : b \in S \/ Cardinality(S) >= SeedBars
    BY <1>1, <2>1, <2>2, <2>4, RecentEnds
  <2>6. x.t \in Nat /\ y.t \in Nat /\ clock - lag \in Int /\ x.t <= clock - lag
    BY <1>1, <1>2, <2>3, <2>5, SMT, SMTT(30) DEF Bar
  <2>7. y \in H
    BY <1>3, <2>3, <2>6, SMT, SMTT(30)
  <2> QED
    BY <1>1, <2>5, <2>7
<1>4. Dated(S, ohlc)
  BY <1>2, Zenon DEF Dated
<1> QED
  BY <1>2, <1>3, <1>4 DEF FullSeed

-----------------------------------------------------------------------------
(* Every step keeps WindowInv.                                             *)

\* A bar that closes and a repair leave a bar at every time that had one, and
\* one bar per time.
LEMMA TimesOnlyGrow ==
  ASSUME LaneInv, Dated(ohlc, ohlc), [Next]_vars
  PROVE  Dated(ohlc, ohlc)' /\ \A y \in ohlc : \E z \in ohlc' : z.t = y.t
<1>1. clock \in Nat /\ ohlc \in SUBSET Bar /\ \A b \in ohlc : b.t \in Nat /\ b.t <= clock
  BY LaneTypes, Zenon DEF LaneInv, HistoriesBounded, Bar
<1>2. \A x, y \in ohlc : x.t = y.t => x = y
  BY Zenon DEF Dated
<1>3. CASE ohlc' = ohlc
  BY <1>3, Zenon DEF Dated
<1>4. CASE CloseBar /\ ohlc' # ohlc
  <2>1. PICK bar : ohlc' = ohlc \cup {bar} /\ \E v \in Values : bar = [t |-> clock + 1, v |-> v]
    BY <1>4, Zenon DEF CloseBar
  <2>2. bar.t = clock + 1
    BY <2>1, SMT, SMTT(30)
  <2>3. \A x, y \in ohlc' : x.t = y.t => x = y
    BY <1>1, <1>2, <2>1, <2>2, SMT, SMTT(30)
  <2> QED
    BY <2>1, <2>3, Zenon DEF Dated
<1>5. CASE Repair
  <2>1. PICK bar : ohlc' = (ohlc \ At(ohlc, bar.t)) \cup {bar}
    <3>1. PICK t \in 1..clock, v \in Values :
            ohlc' = (ohlc \ At(ohlc, t)) \cup {[t |-> t, v |-> v]}
      BY <1>5, Zenon DEF Repair
    <3>2. [t |-> t, v |-> v].t = t
      BY Zenon
    <3> QED
      BY <3>1, <3>2, Zenon
  <2>2. \A y \in ohlc : y \in At(ohlc, bar.t) <=> y.t = bar.t
    BY Zenon DEF At
  <2>3. \A x, y \in ohlc' : x.t = y.t => x = y
    BY <1>2, <2>1, <2>2, Zenon
  <2>4. \A y \in ohlc : \E z \in ohlc' : z.t = y.t
    BY <2>1, <2>2, Zenon
  <2> QED
    BY <2>3, <2>4, Zenon DEF Dated
<1> QED
  BY <1>3, <1>4, <1>5, HistorySteps, Zenon

\* Every step keeps what the windows and the seeds are made of.
LEMMA WindowsStep ==
  ASSUME LaneInv, CountInv, WindowsDated, NothingToRestore, HistoryLimit <= SeedBars, [Next]_vars
  PROVE  WindowsDated'
<1>1. /\ clock \in Nat /\ ohlc \in SUBSET Bar /\ cfg \in Configs
      /\ op.seed \in SUBSET Bar /\ IsFiniteSet(op.seed) /\ \A b \in op.seed : b.t <= clock
      /\ lane \in Memory(cfg.periods, DOMAIN lane.projected)
  BY LaneTypes, Zenon DEF LaneInv, HistoriesBounded
<1>2. /\ Dated(ohlc, ohlc) /\ Dated(op.seed, ohlc)
      /\ MemoryWindowed(cfg.periods, lane, ohlc)
      /\ op.pc = "install" => MemoryWindowed(cfg.periods, op.next, ohlc)
  BY Zenon DEF WindowsDated
<1>3. Dated(ohlc', ohlc')
  BY <1>2, TimesOnlyGrow, Zenon
<1>4. CASE ohlc' # ohlc
  <2>1. cfg' = cfg /\ lane' = lane /\ op' = op
    BY <1>4, HistorySteps, Zenon
  <2>2. \A S : Dated(S, ohlc) => Dated(S, ohlc')
    <3>1. \A y \in ohlc : \E z \in ohlc' : z.t = y.t
      BY <1>2, TimesOnlyGrow, Zenon
    <3> QED
      BY <3>1, Zenon DEF Dated
  <2>3. \A P, m : MemoryWindowed(P, m, ohlc) => MemoryWindowed(P, m, ohlc')
    BY <2>2, Zenon DEF MemoryWindowed
  <2> QED
    BY <1>2, <1>3, <2>1, <2>2, <2>3, Zenon DEF WindowsDated
<1>5. CASE ohlc' = ohlc
  <2>1. Dated(op'.seed, ohlc)
    <3>1. Dated({}, ohlc)
      BY Zenon DEF Dated
    <3> QED
      BY <1>2, <3>1, SeedSteps, SeedsFull, Zenon
  <2>2. ASSUME op'.pc = "install" PROVE MemoryWindowed(cfg'.periods, op'.next, ohlc)
    <3>1. CASE op' = op
      BY <1>2, <2>2, <3>1, PendingSteps, Zenon
    <3>2. ASSUME NEW bar \in ohlc \cup op.seed, bar \in Bar, bar # lane.last, ~Rejected(bar)
          PROVE  MemoryWindowed(cfg.periods, Advance(lane, bar), ohlc)
      <4>1. lane.last # None => lane.last.t < bar.t
        BY <3>2, AcceptedIsNew, Zenon
      <4>2. \E y \in ohlc : y.t = bar.t
        BY <1>2, Zenon DEF Dated
      <4>3. MemoryCounted(cfg.periods, lane)
        BY Zenon DEF CountInv
      <4> QED
        BY <1>1, <1>2, <3>2, <4>1, <4>2, <4>3, AdvanceWindow, Zenon
    <3>3. MemoryWindowed(cfg.periods, Replay(cfg, op.seed), ohlc)
      BY <1>1, <1>2, ReplayWindow, Zenon
    <3> QED
      BY <2>2, <3>1, <3>2, <3>3, PendingSteps, Zenon
  <2>3. MemoryWindowed(cfg'.periods, lane', ohlc)
    <3>1. CASE cfg' = cfg /\ lane' = lane
      BY <1>2, <3>1, Zenon
    <3>2. CASE lane' = Fresh(cfg')
      <4>1. /\ lane'.market.bars = {} /\ lane'.last = None
            /\ \A p \in cfg'.periods : lane'.ema[p].bars = {}
        BY <3>2, Zenon DEF Fresh, EmptyReducer
      <4>2. Cardinality({}) = 0 /\ IsFiniteSet({}) /\ HistoryLimit \in Nat
        BY FS_EmptySet, LaneAssumption, Zenon
      <4> QED
        BY <4>1, <4>2, SMT, SMTT(30) DEF MemoryWindowed, Dated, EndOf
    <3>3. CASE cfg' = cfg /\ Install
      <4>1. op.pc = "install" /\ lane' = op.next
        BY <3>3, Zenon DEF Install
      <4> QED
        BY <1>2, <3>3, <4>1, Zenon
    <3>4. ~(op = Idle /\ lane.last = None /\ db.cursor # None)
      BY Zenon DEF NothingToRestore
    <3>5. ASSUME NEW bar, NEW ready, cfg' = cfg,
                 lane' = [lane EXCEPT !.forming = bar,
                                      !.projected = [p \in ready |-> Fold(lane.ema[p], bar)]]
          PROVE  MemoryWindowed(cfg'.periods, lane', ohlc)
      <4>1. lane'.ema = lane.ema /\ lane'.last = lane.last /\ lane'.market = lane.market
        BY <1>1, <3>5, Zenon DEF Memory
      <4> QED
        BY <1>2, <3>5, <4>1, Zenon DEF MemoryWindowed
    <3> QED
      BY <3>1, <3>2, <3>3, <3>4, <3>5, MemorySteps, Zenon
  <2> QED
    BY <1>3, <1>5, <2>1, <2>2, <2>3, Zenon DEF WindowsDated
<1> QED
  BY <1>4, <1>5, Zenon

\* The seed that arrives is full; a lane that catches up with it agrees with it.
LEMMA SeedFollows ==
  ASSUME ~EmptySeeds, HistoryLimit <= SeedBars, LaneInv, WindowsDated, NothingToRestore,
         Seed, conn' = "live"
  PROVE  SeedFollowed'
<1>1. PICK S \in Seeds : ApplySeed(S)
  BY Zenon DEF Seed
<1>2. ohlc' = ohlc /\ FullSeed(S, ohlc) /\ S \in SUBSET Bar /\ (S = {} => ohlc = {})
  <2>1. LaneInv /\ Dated(ohlc, ohlc)
    BY Zenon DEF WindowsDated
  <2>2. FullSeed(S, ohlc)
    BY <2>1, SeedsFull, Zenon
  <2>3. S \in SUBSET Bar /\ (S = {} => ohlc = {})
    BY SeedsType, Zenon DEF LaneInv
  <2> QED
    BY <1>1, <2>2, <2>3, Zenon DEF ApplySeed, environment
<1>3. CASE \E r \in BOOLEAN : op' = Rebuilding(S, r)
  <2>1. op'.seed = S /\ op'.pc = "rebuild"
    BY <1>3, SMT, SMTT(30) DEF Rebuilding
  <2> QED
    BY <1>2, <2>1, Zenon DEF SeedFollowed
<1>4. CASE /\ lane.last # None /\ ~SeedConflictsWithHistory(S)
           /\ op' = CatchingUp(S, TRUE) /\ lane' = lane
  <2>1. op'.seed = S /\ op'.pc = "catchup"
    BY <1>4, Zenon DEF CatchingUp
  <2>2. MemoryWindowed(cfg.periods, lane, ohlc)
    BY Zenon DEF WindowsDated
  <2>3. Agrees(lane, S)
    BY <1>2, <1>4, <2>2, NoConflictAgrees, Zenon
  <2>4. S # {}
    BY <1>2, <1>4, <2>2, Zenon DEF MemoryWindowed, Dated
  <2> QED
    BY <1>2, <1>4, <2>1, <2>3, <2>4, Zenon DEF SeedFollowed
<1>5. ~Fail
  BY Zenon DEF Fail
<1>6. \/ \E r \in BOOLEAN : op' = Rebuilding(S, r)
      \/ /\ lane.last # None /\ ~SeedConflictsWithHistory(S)
         /\ op' = CatchingUp(S, TRUE) /\ lane' = lane
  <2>1. ~(op = Idle /\ lane.last = None /\ db.cursor # None)
    BY Zenon DEF NothingToRestore
  <2> QED
    BY <1>1, <1>5, <2>1, Zenon DEF ApplySeed
<1> QED
  BY <1>3, <1>4, <1>6, Zenon

\* A live bar that is folded keeps the window exact.
LEMMA ReceiveFollows ==
  ASSUME LaneInv, CountInv, WindowInv, ReceiveClosed, conn' = "live"
  PROVE  SeedFollowed'
<1>1. PICK bar \in ohlc : ApplyClosed(bar)
  BY Zenon DEF ReceiveClosed
<1>2. /\ conn = "live" /\ op = Idle /\ op.seed = {} /\ op.pc = "idle" /\ op.rebuild = FALSE
      /\ ohlc \in SUBSET Bar /\ bar \in Bar /\ bar.t \in Nat
      /\ lane \in Memory(cfg.periods, DOMAIN lane.projected)
  BY LaneTypes, Zenon DEF ReceiveClosed, Idle, Bar
<1>3. /\ FullSeed({}, ohlc) /\ Exact(lane, ohlc) /\ Dated(ohlc, ohlc)
      /\ MemoryWindowed(cfg.periods, lane, ohlc) /\ MemoryCounted(cfg.periods, lane)
  BY <1>2, Zenon DEF WindowInv, SeedFollowed, WindowsDated, CountInv
<1>4. ~FailBar
  BY <1>2, Zenon DEF FailBar, Fail
<1>5. /\ bar # lane.last /\ ~Rejected(bar) /\ op' = Installing(Advance(lane, bar))
      /\ ohlc' = ohlc /\ lane' = lane
  BY <1>1, <1>4, Zenon DEF ApplyClosed, environment
<1>6. op'.pc = "install" /\ op'.seed = {} /\ op'.next = Advance(lane, bar)
  BY <1>2, <1>5, Zenon DEF Installing, Idle
<1>7. lane.last # None => bar.t = lane.last.t + 1
  <2>1. lane.last # None => lane.last.t \in Nat
    BY LaneTypes, Zenon
  <2> QED
    BY <1>2, <1>5, <2>1, SMT, SMTT(30) DEF Rejected
<1>8. Exact(Advance(lane, bar), ohlc)
  BY <1>2, <1>3, <1>7, AdvanceExact, Zenon
<1> QED
  BY <1>3, <1>5, <1>6, <1>8, Zenon DEF SeedFollowed

\* A turn of the catch-up ends with an exact window, or folds a bar of its seed
\* on a window that agrees with it, or leaves the seed to a rebuild.
LEMMA CatchUpFollows ==
  ASSUME LaneInv, CountInv, WindowInv, CatchUp, conn' = "live"
  PROVE  SeedFollowed'
<1>1. op.pc = "catchup" /\ ohlc' = ohlc /\ lane' = lane
  BY Zenon DEF CatchUp, ApplyClosed, environment
<1>2. conn = "live"
  BY Zenon DEF CatchUp, ApplyClosed, FailBar, Fail
<1>3. PICK S, Q : S = op.seed /\ Q = DOMAIN lane.projected
  BY Zenon
<1>4. /\ FullSeed(S, ohlc) /\ Agrees(lane, S) /\ S # {} /\ Dated(S, ohlc)
      /\ MemoryWindowed(cfg.periods, lane, ohlc) /\ MemoryCounted(cfg.periods, lane)
  BY <1>1, <1>2, <1>3, Zenon DEF WindowInv, SeedFollowed, WindowsDated, CountInv
<1>5. /\ ohlc \in SUBSET Bar /\ S \in SUBSET Bar /\ IsFiniteSet(S)
      /\ lane \in Memory(cfg.periods, Q)
      /\ lane.last # None /\ lane.last.t \in Nat
  BY <1>1, <1>3, LaneTypes, Zenon DEF LaneInv, HistoriesBounded, PendingIsDurable
<1>6. CASE op' = Idle
  <2>1. After(S, lane.last.t) = {}
    <3>1. ~Fail
      BY Zenon DEF Fail
    <3>2. op' # Rebuilding(op.seed, TRUE)
      BY <1>6, Zenon DEF Rebuilding, Idle
    <3>3. \A m : op' # Installing(m)
      BY <1>6, LaneTypes, Zenon DEF Installing, Idle, LaneInv, TypeOK
    <3> QED
      BY <1>3, <3>1, <3>2, <3>3, Zenon DEF CatchUp, ApplyClosed, FailBar
  <2>2. \A s \in S : s.t <= lane.last.t
    BY <1>5, <2>1, SMT, SMTT(30) DEF After, Bar
  <2>3. Exact(lane, ohlc)
    BY <1>4, <1>5, <2>2, AgreedIsExact, Zenon
  <2>4. FullSeed({}, ohlc)
    BY Zenon DEF FullSeed, Unbroken
  <2>5. op'.pc = "idle" /\ op'.seed = {}
    BY <1>6, Zenon DEF Idle
  <2>6. op' = Idle'
    BY <1>6, Zenon DEF Idle
  <2> QED
    BY <1>1, <2>3, <2>4, <2>5, <2>6, Zenon DEF SeedFollowed
<1>7. CASE op' = Rebuilding(op.seed, TRUE)
  <2>1. op'.pc = "rebuild" /\ op'.seed = S
    BY <1>3, <1>7, Zenon DEF Rebuilding
  <2> QED
    BY <1>1, <1>4, <2>1, Zenon DEF SeedFollowed
<1>8. ASSUME NEW bar \in After(S, lane.last.t), bar # lane.last, ~Rejected(bar),
             op' = Installing(Advance(lane, bar))
      PROVE  SeedFollowed'
  <2>1. op'.pc = "install" /\ op'.seed = S /\ op'.next = Advance(lane, bar)
    BY <1>3, <1>8, Zenon DEF Installing, LaneInv, TypeOK
  <2>2. bar \in S /\ bar \in Bar /\ bar.t \in Nat /\ bar.t > lane.last.t
    BY <1>5, <1>8, Zenon DEF After, Bar
  <2>3. bar.t = lane.last.t + 1
    BY <1>5, <1>8, <2>2, Zenon DEF Rejected
  <2>4. Agrees(Advance(lane, bar), S)
    BY <1>4, <1>5, <2>2, <2>3, AdvanceAgrees, Zenon
  <2> QED
    BY <1>1, <1>4, <2>1, <2>4, Zenon DEF SeedFollowed
<1>9. \/ op' = Idle \/ op' = Rebuilding(op.seed, TRUE)
      \/ \E bar \in After(S, lane.last.t) :
           /\ bar # lane.last /\ ~Rejected(bar) /\ op' = Installing(Advance(lane, bar))
  <2>1. FailBar => op' = Rebuilding(op.seed, TRUE)
    BY Zenon DEF FailBar, Fail
  <2>2. ASSUME After(S, lane.last.t) # {} PROVE Earliest(After(S, lane.last.t)) \in After(S, lane.last.t)
    <3>1. After(S, lane.last.t) \in SUBSET Bar
      BY <1>5, Zenon DEF After
    <3> QED
      BY <2>2, <3>1, EarliestIsFirst, Zenon
  <2> QED
    BY <1>3, <2>1, <2>2, Zenon DEF CatchUp, ApplyClosed
<1> QED
  BY <1>6, <1>7, <1>8, <1>9, Zenon

\* The bar of a new period comes after every bar of memory.
LEMMA ExactGrows ==
  ASSUME NEW h \in SUBSET Bar, NEW n \in Nat, \A b \in h : b.t <= n,
         NEW new, \A b \in new : b.t = n + 1,
         NEW P, NEW Q, NEW m \in Memory(P, Q), MemoryWindowed(P, m, h), Exact(m, h)
  PROVE  Exact(m, h \cup new)
<1> SUFFICES ASSUME m.last # None PROVE EndOf(m.market.bars, UpTo(h \cup new, m.last.t))
  BY Zenon DEF Exact
<1>1. m.last \in m.market.bars /\ m.last \in Bar /\ m.last.t \in Nat
  <2>1. m.last \in m.market.bars /\ m.last \in Bar
    BY Zenon DEF MemoryWindowed, Memory
  <2> QED
    BY <2>1, Zenon DEF Bar
<1>2. m.last.t <= n
  BY <1>1, Zenon DEF MemoryWindowed, Dated
<1>3. UpTo(h \cup new, m.last.t) = UpTo(h, m.last.t)
  BY <1>1, <1>2, SMTT(20), SMTT(30) DEF UpTo
<1> QED
  BY <1>3, Zenon DEF Exact

\* A new period, an installation, a rebuild and a forming candle.
LEMMA CloseBarFollows ==
  ASSUME LaneInv, WindowInv, CloseBar, conn' = "live"
  PROVE  SeedFollowed'
<1>1. /\ clock \in Nat /\ ohlc \in SUBSET Bar /\ op.seed \in SUBSET Bar
      /\ \A b \in ohlc \cup op.seed : b.t <= clock /\ b.t \in Nat
      /\ lane \in Memory(cfg.periods, DOMAIN lane.projected)
      /\ op.pc = "install" => op.next \in Memory(cfg.periods, {})
  BY LaneTypes, Zenon DEF LaneInv, HistoriesBounded, TypeOK, Bar
<1>2. conn = "live" /\ lane' = lane /\ op' = op
  BY Zenon DEF CloseBar
<1>3. PICK new : ohlc' = ohlc \cup new /\ \A b \in new : b.t = clock + 1
  <2>1. PICK new : /\ ohlc' = ohlc \cup new
                   /\ new = {} \/ \E v \in Values : new = {[t |-> clock + 1, v |-> v]}
    <3>1. ohlc = ohlc \cup {}
      BY Zenon
    <3> QED
      BY <3>1, Zenon DEF CloseBar
  <2>2. \A b \in new : b.t = clock + 1
    BY <2>1, SMT, SMTT(30)
  <2> QED
    BY <2>1, <2>2, Zenon
<1>4. /\ SeedFollowed /\ MemoryWindowed(cfg.periods, lane, ohlc)
      /\ op.pc = "install" => MemoryWindowed(cfg.periods, op.next, ohlc)
  BY <1>2, Zenon DEF WindowInv, WindowsDated
<1>5. FullSeed(op.seed, ohlc')
  <2>1. Unbroken(op.seed, ohlc) /\ \A x \in op.seed, y \in ohlc :
          y.t <= x.t => y \in op.seed \/ Cardinality(op.seed) >= HistoryLimit
    BY <1>4, Zenon DEF SeedFollowed, FullSeed
  <2>2. Unbroken(op.seed, ohlc \cup new)
    BY <1>1, <1>3, <2>1, UnbrokenGrows, Zenon
  <2>3. \A x \in op.seed, y \in new : ~(y.t <= x.t)
    BY <1>1, <1>3, SMT, SMTT(30)
  <2> QED
    BY <1>3, <2>1, <2>2, <2>3, Zenon DEF FullSeed
<1>6. op.pc = "idle" => Exact(lane, ohlc')
  BY <1>1, <1>3, <1>4, ExactGrows, Zenon DEF SeedFollowed
<1>7. op.pc = "install" /\ op.seed = {} => Exact(op.next, ohlc')
  BY <1>1, <1>3, <1>4, ExactGrows, Zenon DEF SeedFollowed
<1> QED
  BY <1>2, <1>4, <1>5, <1>6, <1>7, Zenon DEF SeedFollowed, Idle

LEMMA InstallFollows ==
  ASSUME LaneInv, WindowInv, Install, conn' = "live"
  PROVE  SeedFollowed'
<1>1. /\ conn = "live" /\ ohlc' = ohlc /\ op.pc = "install" /\ lane' = op.next
      /\ op' = IF op.seed = {} THEN Idle ELSE CatchingUp(op.seed, op.rebuild)
  BY Zenon DEF Install, environment
<1>2. SeedFollowed
  BY <1>1, Zenon DEF WindowInv
<1>3. CASE op.seed = {}
  <2>1. op'.pc = "idle" /\ op'.seed = {} /\ op' = Idle'
    BY <1>1, <1>3, Zenon DEF Idle
  <2> QED
    BY <1>1, <1>2, <1>3, <2>1, Zenon DEF SeedFollowed
<1>4. CASE op.seed # {}
  <2>1. op'.pc = "catchup" /\ op'.seed = op.seed
    BY <1>1, <1>4, Zenon DEF CatchingUp
  <2> QED
    BY <1>1, <1>2, <1>4, <2>1, Zenon DEF SeedFollowed
<1> QED
  BY <1>3, <1>4, Zenon

LEMMA RebuildFollows ==
  ASSUME LaneInv, WindowInv, Rebuild, conn' = "live"
  PROVE  SeedFollowed'
<1>1. /\ conn = "live" /\ ohlc' = ohlc
      /\ op' = [Idle EXCEPT !.pc = "install", !.next = Replay(cfg, op.seed)]
  BY Zenon DEF Rebuild, Fail, environment
<1>2. /\ clock \in Nat /\ ohlc \in SUBSET Bar /\ op.seed \in SUBSET Bar /\ IsFiniteSet(op.seed)
      /\ \A b \in op.seed : b.t <= clock
  BY LaneTypes, Zenon DEF LaneInv, HistoriesBounded
<1>3. Dated(op.seed, ohlc) /\ Unbroken(op.seed, ohlc)
  BY <1>1, Zenon DEF WindowInv, WindowsDated, SeedFollowed, FullSeed
<1>4. Exact(Replay(cfg, op.seed), ohlc)
  BY <1>2, <1>3, ReplayExact, Zenon
<1>5. op'.pc = "install" /\ op'.seed = {} /\ op'.next = Replay(cfg, op.seed)
  BY <1>1, Zenon DEF Idle
<1>6. FullSeed({}, ohlc)
  BY Zenon DEF FullSeed, Unbroken
<1> QED
  BY <1>1, <1>4, <1>5, <1>6, Zenon DEF SeedFollowed

LEMMA FormingFollows ==
  ASSUME LaneInv, WindowInv, ApplyForming, conn' = "live"
  PROVE  SeedFollowed'
<1>1. conn = "live" /\ op = Idle /\ ohlc' = ohlc /\ ~Fail
  BY Zenon DEF ApplyForming, environment, Fail
<1>2. PICK bar, projected :
        /\ lane' = [lane EXCEPT !.forming = bar, !.projected = projected]
        /\ op' = op
  BY <1>1, Zenon DEF ApplyForming
<1>3. lane'.last = lane.last /\ lane'.market = lane.market
  BY <1>2, LaneTypes, Zenon DEF Memory
<1>4. SeedFollowed /\ op.pc = "idle" /\ op.seed = {}
  BY <1>1, Zenon DEF WindowInv, Idle
<1>5. Exact(lane', ohlc)
  BY <1>3, <1>4, Zenon DEF SeedFollowed, Exact
<1> QED
  BY <1>1, <1>2, <1>4, <1>5, Zenon DEF SeedFollowed, Idle

\* Every step of a lane that restores nothing keeps WindowInv.
LEMMA WindowStep ==
  ASSUME ~EmptySeeds, HistoryLimit <= SeedBars, LaneInv, CountInv, WindowInv, NothingToRestore,
         [Next]_vars
  PROVE  WindowInv'
<1>1. WindowsDated'
  BY WindowsStep, Zenon DEF WindowInv
<1>2. ASSUME conn' = "live" PROVE SeedFollowed'
  <2>1. CASE Seed
    BY <1>2, <2>1, SeedFollows, Zenon DEF WindowInv
  <2>2. CASE CloseBar
    BY <1>2, <2>2, CloseBarFollows, Zenon
  <2>3. CASE ReceiveClosed
    BY <1>2, <2>3, ReceiveFollows, Zenon
  <2>4. CASE CatchUp
    BY <1>2, <2>4, CatchUpFollows, Zenon
  <2>5. CASE Install
    BY <1>2, <2>5, InstallFollows, Zenon
  <2>6. CASE Rebuild
    BY <1>2, <2>6, RebuildFollows, Zenon
  <2>7. CASE ApplyForming
    BY <1>2, <2>7, FormingFollows, Zenon
  <2>8. CASE UNCHANGED vars
    BY <1>2, <2>8, Zenon DEF vars, WindowInv, SeedFollowed, Idle
  <2>9. ~(Repair \/ Connect \/ Disconnect \/ Start \/ Crash)
    BY <1>2, Zenon DEF Repair, Connect, Disconnect, Start, Crash
  <2> QED
    BY <2>1, <2>2, <2>3, <2>4, <2>5, <2>6, <2>7, <2>8, <2>9, Zenon DEF Next
<1> QED
  BY <1>1, <1>2, Zenon DEF WindowInv

-----------------------------------------------------------------------------
(* The theorems.                                                           *)

\* WindowInv is strong enough.
LEMMA WindowIsHistory == LaneInv /\ WindowInv => OneHistory
<1> SUFFICES ASSUME LaneInv, WindowInv, Synced PROVE
      LET window == lane.market.bars
          from   == Earliest(window).t
      IN  /\ window = Since(UpTo(ohlc, lane.last.t), from)
          /\ \A p \in cfg.periods : Since(lane.ema[p].bars, from) = window
  BY Zenon DEF OneHistory
<1>1. PICK W, from : W = lane.market.bars /\ from = Earliest(W).t
  BY Zenon
<1>2. conn = "live" /\ op.pc = "idle" /\ lane.last # None
  BY Zenon DEF Synced, Idle
<1>3. /\ EndOf(W, UpTo(ohlc, lane.last.t)) /\ lane.last \in W
      /\ \A p \in cfg.periods : EndOf(W, lane.ema[p].bars)
  BY <1>1, <1>2, Zenon DEF WindowInv, WindowsDated, SeedFollowed, MemoryWindowed, Exact
<1>4. ASSUME NEW H, EndOf(W, H) PROVE Since(H, from) = W
  <2>1. W \in SUBSET Bar
    BY <1>1, LaneTypes, Zenon DEF Memory, Reducer
  <2>2. PICK e \in W : e = Earliest(W) /\ \A b \in W : e.t <= b.t
    BY <1>3, <2>1, EarliestIsFirst, Zenon
  <2>3. e.t = from /\ from \in Nat /\ \A b \in W : b.t \in Nat /\ b.t >= from
    BY <1>1, <2>1, <2>2, Zenon DEF Bar
  <2>4. \A b \in H : b \in W <=> b.t >= from
    BY <1>4, <2>2, <2>3, Zenon DEF EndOf
  <2> QED
    BY <1>4, <2>4, Zenon DEF Since, EndOf
<1> QED
  BY <1>1, <1>3, <1>4, Zenon

\* OHLC seeds are authoritative (applySeed, seedConflictsWithHistory,
\* applyCatchUpSeed, rebuildSeed): in every behaviour in which memory is never
\* restored from a checkpoint, a seeded lane's window is exactly the service's
\* history over its range, whatever was repaired and however late the seeds
\* were, and so are the EMAs over that range.  It needs seeds that are not
\* empty and at least as long as the window.
THEOREM OneHistoryUnlessRestored ==
  ASSUME ~EmptySeeds, HistoryLimit <= SeedBars
  PROVE  Spec /\ []NothingToRestore => []OneHistory
<1>1. Init => WindowInv
  <2> SUFFICES ASSUME Init PROVE WindowInv
    BY Zenon
  <2>1. /\ ohlc = {} /\ op.seed = {} /\ op.pc # "install" /\ conn # "live"
        /\ lane.last = None /\ lane.market.bars = {}
        /\ \A p \in cfg.periods : lane.ema[p].bars = {}
    BY Zenon DEF Init, Idle, Fresh, EmptyReducer
  <2>2. IsFiniteSet({}) /\ Cardinality({}) = 0 /\ HistoryLimit \in Nat
    BY FS_EmptySet, LaneAssumption, Zenon
  <2> QED
    BY <2>1, <2>2, SMTT(20), SMTT(30) DEF WindowInv, WindowsDated, MemoryWindowed, Dated, EndOf
<1>2. LaneInv /\ CountInv /\ NothingToRestore /\ WindowInv /\ [Next]_vars => WindowInv'
  BY WindowStep, Zenon
<1> QED
  BY <1>1, <1>2, LaneInvariant, CountInvariant, WindowIsHistory, PTL DEF Spec

\* Without crashes and store failures an empty lane means an empty store.
LEMMA NeverRestores ==
  ASSUME ~EmptySeeds, MaxCrashes = 0, MaxFaults = 0
  PROVE  Spec => []NothingToRestore
<1> DEFINE R == /\ conn = "off" => db.cursor = None
                /\ db.cursor # None /\ op.pc # "install" => lane.last # None
<1>1. Init => R
  BY SMT, SMTT(30) DEF Init, EmptyDatabase
<1>2. LaneInv /\ R /\ [Next]_vars => R'
  <2> SUFFICES ASSUME LaneInv, R, [Next]_vars PROVE R'
    BY Zenon
  <2>1. \A what \in {"crashes", "faults"} : ~Spend(what, 0)
    BY LaneTypes, SMT, SMTT(30) DEF Spend
  <2>2. ~Crash /\ ~Spend("faults", MaxFaults)
    BY <2>1, Zenon DEF Crash
  <2>3. CASE Seed
    <3>1. PICK S \in Seeds : ApplySeed(S)
      BY <2>3, Zenon DEF Seed
    <3>2. db' = db /\ conn' # "off" /\ op.pc # "install"
      BY <3>1, Zenon DEF ApplySeed, Fail, Idle
    <3>3. lane.last = None => db.cursor = None
      BY <3>2, Zenon
    <3>4. db.cursor = None \/ lane' = lane
      BY <3>1, <3>3, Zenon DEF ApplySeed
    <3> QED
      BY <3>2, <3>3, <3>4, Zenon
  <2>4. conn = "off" => op = Idle
    BY Zenon DEF LaneInv, PendingIsDurable
  <2>5. ASSUME NEW bar, ApplyClosed(bar), op.pc # "install", conn # "off" PROVE R'
    <3>1. lane' = lane /\ conn' \in {conn, "down"}
      BY <2>5, Zenon DEF ApplyClosed, FailBar, Fail
    <3>2. db' = db \/ op' = Installing(Advance(lane, bar))
      BY <2>2, <2>5, Zenon DEF ApplyClosed
    <3>3. Installing(Advance(lane, bar)).pc = "install"
      BY Zenon DEF Installing, LaneInv, TypeOK
    <3> QED
      BY <2>5, <3>1, <3>2, <3>3, Zenon
  <2>6. CASE ReceiveClosed
    <3>1. conn # "off" /\ op.pc # "install" /\ \E bar : ApplyClosed(bar)
      BY <2>6, Zenon DEF ReceiveClosed, Idle
    <3> QED
      BY <2>5, <3>1, Zenon
  <2>7. CASE CatchUp
    <3>1. op.pc = "catchup" /\ conn # "off"
      <4>1. op.pc = "catchup"
        BY <2>7, Zenon DEF CatchUp
      <4> QED
        BY <2>4, <4>1, SMT, SMTT(30) DEF Idle
    <3>2. CASE \E bar : ApplyClosed(bar)
      BY <2>5, <3>1, <3>2, Zenon
    <3>3. CASE UNCHANGED <<lane, db>> /\ conn' \in {conn, "down"}
      BY <3>1, <3>3, Zenon
    <3> QED
      BY <2>7, <3>2, <3>3, Zenon DEF CatchUp, FailBar, Fail
  <2>8. CASE Install
    <3>1. op.pc = "install" /\ lane' = op.next /\ db' = db /\ conn' = conn
      BY <2>8, Zenon DEF Install
    <3>2. op.next.last = None => db.cursor = None
      BY <3>1, Zenon DEF LaneInv, SeededFromStore
    <3> QED
      BY <2>4, <3>1, <3>2, Zenon DEF Idle
  <2>9. CASE Rebuild
    <3>1. op.pc = "rebuild" /\ conn # "off" /\ lane' = lane /\ conn' \in {conn, "down"}
      <4>1. op.pc = "rebuild" /\ lane' = lane /\ conn' \in {conn, "down"}
        BY <2>9, Zenon DEF Rebuild, Fail
      <4> QED
        BY <2>4, <4>1, SMT, SMTT(30) DEF Idle
    <3>2. db' = db \/ op' = [Idle EXCEPT !.pc = "install", !.next = Replay(cfg, op.seed)]
      BY <2>2, <2>9, Zenon DEF Rebuild
    <3>3. [Idle EXCEPT !.pc = "install", !.next = Replay(cfg, op.seed)].pc = "install"
      BY Zenon DEF Idle
    <3> QED
      BY <3>1, <3>2, <3>3, Zenon
  <2>10. CASE ApplyForming
    <3>1. op.pc # "install" /\ conn = "live" /\ db' = db /\ conn' \in {conn, "down"}
      BY <2>10, Zenon DEF ApplyForming, Fail, Idle
    <3>2. lane'.last = lane.last
      <4>1. \/ lane' = lane
            \/ \E bar, projected : lane' = [lane EXCEPT !.forming = bar, !.projected = projected]
        BY <2>10, Zenon DEF ApplyForming
      <4> QED
        BY <4>1, LaneTypes, Zenon DEF Memory
    <3> QED
      BY <3>1, <3>2, Zenon
  <2>11. CASE Start
    BY <2>11, Zenon DEF Start
  <2>12. CASE CloseBar \/ Repair \/ Connect \/ Disconnect \/ UNCHANGED vars
    BY <2>12, Zenon DEF CloseBar, Repair, Connect, Disconnect, vars
  <2> QED
    BY <2>2, <2>3, <2>6, <2>7, <2>8, <2>9, <2>10, <2>11, <2>12, Zenon DEF Next
<1>3. R => NothingToRestore
  BY SMT, SMTT(30) DEF NothingToRestore, Idle
<1> HIDE DEF R
<1> QED
  BY <1>1, <1>2, <1>3, LaneInvariant, PTL DEF Spec

\* Memory follows the service's corrections: without crashes and store failures,
\* and whatever was repaired before, a seeded lane holds exactly the service's
\* history over the range of its window (seedConflictsWithHistory, rebuildSeed).
THEOREM OneHistoryHolds ==
  ASSUME ~EmptySeeds, HistoryLimit <= SeedBars, MaxCrashes = 0, MaxFaults = 0
  PROVE  Spec => []OneHistory
BY NeverRestores, OneHistoryUnlessRestored, PTL

=============================================================================
