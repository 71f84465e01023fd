------------------------------- MODULE Zones -------------------------------
(***************************************************************************)
(* Fair value gaps, order blocks and equal-high / equal-low liquidity, and *)
(* the transitions between the zones of two consecutive market states.     *)
(* ToTime of a zone is always the last bar's time and is left out.         *)
(***************************************************************************)
EXTENDS Candles

Gap(bars, i) == [up   |-> bars[i].l - bars[i - 2].h, down |-> bars[i - 2].l - bars[i].h]

\* The three bars that end at i leave a gap on the given side.
Gaps(bars, i, side) ==
  Gap(bars, i)[side] > 0 /\ \E j \in (i - 2)..i : SimpleMarubozu(bars[j])

\* A later bar has traded through the far edge of the gap.
Filled(bars, i, side) ==
  \E j \in (i + 1)..Len(bars) : IF side = "up" THEN bars[j].l <= bars[i - 2].h
                                               ELSE bars[j].h >= bars[i - 2].l

Grade(bars, i, side) ==
  IF \/ AtLeast(Gap(bars, i)[side], <<3, 10>>, Span(bars[i - 1]))
     \/ \A j \in (i - 2)..i : SimpleMarubozu(bars[j])
  THEN "strong" ELSE "weak"

\* zoneID hashes every field but the grade.
Zone(kind, side, grade, from, top, bottom) ==
  [id |-> <<kind, side, from, top, bottom>>, kind |-> kind, side |-> side,
   grade |-> grade, from |-> from, top |-> top, bottom |-> bottom]

GapZone(bars, i, side) ==
  Zone("fvg", side, Grade(bars, i, side), bars[i].t,
       IF side = "up" THEN bars[i].l ELSE bars[i - 2].l,
       IF side = "up" THEN bars[i - 2].h ELSE bars[i].h)

\* At most one side is possible at a position, so the order is the bars'.
DetectFVG(bars) ==
  LET start == Max({3, Len(bars) - config.FVGLookback + 1})
      at(i) == SelectSeq(<<"up", "down">>, LAMBDA side : Gaps(bars, i, side) /\ ~Filled(bars, i, side))
      zones == [n \in 1..Max({0, Len(bars) - start + 1}) |->
                  LET i == start + n - 1
                  IN  [k \in DOMAIN at(i) |-> GapZone(bars, i, at(i)[k])]]
  IN  KeepLast(FlattenSeq(zones), config.MaxFVGs)

\* For each gap, the nearest bar of the opposite colour among the four that
\* end where the gap begins.
DetectOrderBlocks(bars, gaps) ==
  LET gapIndex(gap)   == CHOOSE i \in DOMAIN bars : bars[i].t = gap.from
      opposite(gap)   == {i \in (gapIndex(gap) - 5)..(gapIndex(gap) - 2) \cap DOMAIN bars :
                            Up(bars[i]) = (gap.side = "down")}
      block(gap)      == LET b == bars[Max(opposite(gap))]
                         IN  Zone("order_block", gap.side, gap.grade, b.t, b.h, b.l)
      found           == SelectSeq(gaps, LAMBDA gap : opposite(gap) # {})
  IN  KeepLast([n \in DOMAIN found |-> block(found[n])], config.MaxOrderBlocks)

IntersectsZone(b, zone) == b.h >= zone.bottom /\ b.l <= zone.top /\ b.t > zone.from

AnnotateZoneStates(bars, zones) ==
  LET touched(zone) == \E i \in DOMAIN bars : IntersectsZone(bars[i], zone)
      State(zone)   == [state |-> IF touched(zone) THEN "touched" ELSE "active"]
  IN  [n \in DOMAIN zones |-> State(zones[n]) @@ zones[n]]

-----------------------------------------------------------------------------
(* zoneTransitions.  The code appends those of vanished zones in map       *)
(* order, which is random: the transitions of a bar are a set.             *)

AllZones(state) == ToSet(state.FVGs) \cup ToSet(state.OrderBlocks)

Ids(zones) == {zone.id : zone \in zones}

\* Duplicate identifiers agree on everything but the grade.
ById(zones, id) == CHOOSE zone \in zones : zone.id = id

Transition(zone, transition) == [id |-> zone.id, state |-> zone.state, transition |-> transition]

Invalidates(b, zone) ==
  /\ zone.kind = "order_block"
  /\ IF zone.side = "up" THEN b.c < zone.bottom ELSE b.c > zone.top

\* Mutant: a zone the bar does not reach leaves without a word.
FarewellUnreported(b, zone) ==
  IF ~IntersectsZone(b, zone) THEN {}
  ELSE {IF Invalidates(b, zone) THEN "invalidated" ELSE "mitigated"}

\* What becomes of a zone that is no longer in the state.
Farewell(b, zone) ==
  IF ~IntersectsZone(b, zone) THEN {"expired"}
  ELSE (IF zone.state # "touched" THEN {"touched"} ELSE {})
       \cup {IF Invalidates(b, zone) THEN "invalidated" ELSE "mitigated"}

ZoneTransitions(previous, current, b) ==
  LET before == AllZones(previous)
      after  == AllZones(current)
      gone   == {ById(before, id) : id \in Ids(before) \ Ids(after)}
  IN  {Transition(z, "created") : z \in {z \in after : z.id \notin Ids(before)}}
      \cup {Transition(z, "touched") :
              z \in {z \in after : /\ z.id \in Ids(before)
                                   /\ ById(before, z.id).state # "touched"
                                   /\ z.state = "touched"}}
      \cup UNION {{Transition(z, what) : what \in Farewell(b, z)} : z \in gone}

-----------------------------------------------------------------------------
(* detectLiquidity.  A cluster's running average price is sum / touches.   *)

ExtremumRange(bars) ==
  LET start == Max({6, Len(bars) - config.LiquidityLookback + 1})
  IN  (start + 2)..(Len(bars) - 2)

IsHigh(bars, i) == \A j \in (i - 2)..(i + 2) : bars[i].h >= bars[j].h

IsLow(bars, i) == \A j \in (i - 2)..(i + 2) : bars[i].l <= bars[j].l

\* |price - v| / v < tol, for a cluster price of sum / touches.
Near(cluster, v, tol) == Below(Dist(cluster.sum, v * cluster.touches), tol, v * cluster.touches)

AddToClusters(clusters, v) ==
  LET k == SelectInSeq(clusters, LAMBDA cl : Near(cl, v, config.LiquidityTol))
  IN  IF k = 0 THEN Append(clusters, [sum |-> v, touches |-> 1])
      ELSE [clusters EXCEPT ![k] = [sum |-> @.sum + v, touches |-> @.touches + 1]]

ClusterExtrema(prices) ==
  KeepLast(SelectSeq(FoldLeft(AddToClusters, <<>>, prices), LAMBDA cl : cl.touches >= 2),
           config.MaxClusters)

DetectLiquidity(bars) ==
  LET highs == SetToSortSeq({i \in ExtremumRange(bars) : IsHigh(bars, i)}, <)
      lows  == SetToSortSeq({i \in ExtremumRange(bars) : IsLow(bars, i)}, <)
  IN  [equal_high |-> ClusterExtrema([n \in DOMAIN highs |-> bars[highs[n]].h]),
       equal_low  |-> ClusterExtrema([n \in DOMAIN lows |-> bars[lows[n]].l])]

\* The last bar reaches past a level and closes back; one event per level.
LiquiditySweeps(liquidity, b) ==
  LET down(cl) == b.h * cl.touches > cl.sum /\ b.c * cl.touches < cl.sum
      up(cl)   == b.l * cl.touches < cl.sum /\ b.c * cl.touches > cl.sum
      events(levels, side) == [n \in DOMAIN levels |-> [side |-> side, t |-> b.t]]
  IN  events(SelectSeq(liquidity.equal_high, down), "down")
      \o events(SelectSeq(liquidity.equal_low, up), "up")

=============================================================================
