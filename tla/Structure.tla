----------------------------- MODULE Structure -----------------------------
(***************************************************************************)
(* Swings, breaks of structure and what is derived from them: labels,      *)
(* range, key levels, trend and the premium / discount leg.  A swing is    *)
(* [i, type, price, confirm]: its bar, "H" or "L", and the confirming bar. *)
(***************************************************************************)
EXTENDS Candles

Band(side, from, top, bottom) == [side |-> side, from |-> from, top |-> top, bottom |-> bottom]

Sign(type) == IF type = "H" THEN 1 ELSE -1

SideOf(type) == IF type = "H" THEN "up" ELSE "down"

\* v lies beyond the line, seen from swings of the given type.
Beyond(type, v, line) == IF type = "H" THEN v > line ELSE v < line

Extreme(b, type) == IF type = "H" THEN b.h ELSE b.l

-----------------------------------------------------------------------------
(* averageTrueRange, as fractions [n, d].                                  *)

TrueRange(bars, i) ==
  Max({Span(bars[i])} \cup
      (IF i = 1 THEN {} ELSE {Dist(bars[i].h, bars[i - 1].c), Dist(bars[i].l, bars[i - 1].c)}))

AverageTrueRange(bars) ==
  LET p == config.ATRPeriod
      sum[i \in 0..Len(bars)] == IF i = 0 THEN 0 ELSE sum[i - 1] + TrueRange(bars, i)
      out[i \in DOMAIN bars]  ==
        IF i <= p THEN [n |-> sum[i], d |-> i]
        ELSE LET last == out[i - 1]
             IN  [n |-> last.n * (p - 1) + TrueRange(bars, i) * last.d, d |-> last.d * p]
  IN  out

-----------------------------------------------------------------------------
(* zigzag.                                                                 *)

\* A move away from an extreme price is large enough to confirm it.
Reverses(move, price, atr) ==
  /\ AtLeast(move, config.MinSwingPct, price)
  /\ AtLeast(move * atr.d, config.ATRMult, atr.n)

Swing(bars, i, type, confirm) == [i |-> i, type |-> type, price |-> Extreme(bars[i], type), confirm |-> confirm]

ZigzagStep(bars, atr, z, i) ==
  LET hi == IF bars[i].h > bars[z.hi].h THEN i ELSE z.hi
      lo == IF bars[i].l < bars[z.lo].l THEN i ELSE z.lo
  IN  IF z.dir >= 0 /\ Reverses(bars[hi].h - bars[i].l, bars[hi].h, atr[i])
      THEN [dir |-> -1, hi |-> hi, lo |-> i, swings |-> Append(z.swings, Swing(bars, hi, "H", i))]
      ELSE IF z.dir <= 0 /\ Reverses(bars[i].h - bars[lo].l, bars[lo].l, atr[i])
      THEN [dir |-> 1, hi |-> i, lo |-> lo, swings |-> Append(z.swings, Swing(bars, lo, "L", i))]
      ELSE [z EXCEPT !.hi = hi, !.lo = lo]

Zigzag(bars) ==
  LET atr == AverageTrueRange(bars)
      z[i \in DOMAIN bars] == IF i = 1 THEN [dir |-> 0, hi |-> 1, lo |-> 1, swings |-> <<>>]
                              ELSE ZigzagStep(bars, atr, z[i - 1], i)
  IN  z[Len(bars)].swings

-----------------------------------------------------------------------------
(* mergeByValidPullback.                                                   *)

ValidPullback(bars, from, to, direction) ==
  \E i \in from..(to - 1) :
    /\ StructureMarubozu(bars[i], direction)
    /\ \/ StructureMarubozu(bars[i + 1], direction)
       \/ LET reference == MarubozuReference(bars, i)
          IN  /\ reference > 0
              /\ AtLeast(Span(bars[i]), config.BigVsReference, reference)
              /\ ~Above(Span(bars[i + 1]), config.OppositeSmallMax, Span(bars[i]))

\* The k-th swing pulls back too little to separate its neighbours.
Shallow(bars, swings, k) ==
  LET first   == swings[k - 1]
      middle  == swings[k]
      depth   == Dist(first.price, middle.price)
      impulse == IF k >= 3 THEN Dist(first.price, swings[k - 2].price)
                           ELSE Dist(swings[k + 1].price, middle.price)
  IN  /\ ~ValidPullback(bars, first.i, middle.i, Sign(middle.type))
      /\ impulse > 0
      /\ Below(depth, config.MinPullbackFrac, impulse)

\* Mutant: only the shallow swing is dropped.
MergeOneAt(swings, k) == RemoveAt(swings, k)

\* Drop the shallow swing and the weaker of its two neighbours.
MergeAt(swings, k) ==
  LET j == IF Beyond(swings[k - 1].type, swings[k - 1].price, swings[k + 1].price) THEN k ELSE k - 1
  IN  RemoveAt(RemoveAt(swings, j), j)

MergeByValidPullback(bars, swings) ==
  LET merged[n \in 0..Len(swings)] ==
        IF n = 0 THEN swings
        ELSE LET q       == merged[n - 1]
                 shallow == {k \in 2..(Len(q) - 1) : Shallow(bars, q, k)}
             IN  IF shallow = {} THEN q ELSE MergeAt(q, Min(shallow))
  IN  merged[Len(swings)]

-----------------------------------------------------------------------------
(* scanBreaks.                                                             *)

\* Does the breaking bar carry enough of its body past the line?
Penetrates(b, line, type) ==
  LET past == IF type = "H" THEN b.c - Max({b.o, line}) ELSE Min({b.o, line}) - b.c
  IN  Body(b) > 0 /\ Above(Max({0, past}), config.BreakBodyBeyond, Body(b))

TwoMarubozu(first, second, line, type) ==
  /\ StructureMarubozu(first, Sign(type)) /\ StructureMarubozu(second, Sign(type))
  /\ Beyond(type, second.c, line) /\ Beyond(type, second.c, first.c)
  /\ AtLeast(Span(second), config.SecondMaruMin, Span(first))

BigThenSmall(bars, i, line, type) ==
  LET first     == bars[i]
      second    == bars[i + 1]
      reference == MarubozuReference(bars, i)
  IN  /\ StructureMarubozu(first, Sign(type))
      /\ reference > 0 /\ AtLeast(Span(first), config.BigVsReference, reference)
      /\ Penetrates(first, line, type)
      /\ ~Above(Span(second), config.OppositeSmallMax, Span(first))
      /\ IF type = "H" THEN 2 * second.l >= first.h + first.l ELSE 2 * second.h <= first.h + first.l

\* Within PACWindow bars a close passes the extreme of the first two bars.
AfterPause(bars, i, type) ==
  LET end     == i + 1 + config.PACWindow
      extreme == IF type = "H" THEN Max({bars[i].h, bars[i + 1].h}) ELSE Min({bars[i].l, bars[i + 1].l})
      passes  == {j \in (i + 2)..Min({Len(bars), end}) : Beyond(type, bars[j].c, extreme)}
  IN  IF passes # {} THEN [status |-> "valid", confirm |-> Min(passes)]
      ELSE IF Len(bars) >= end THEN [status |-> "fake", confirm |-> i + 1]
      ELSE [status |-> "pending", confirm |-> 0]

\* Whether the close of bar i beyond the line is a break of structure.
EvaluateBreakout(bars, i, line, type) ==
  LET next       == [status |-> "valid", confirm |-> i + 1]
      closedBack == Beyond(type, line, bars[i + 1].c)
      strong     == StructureMarubozu(bars[i], Sign(type))
  IN  IF ~Beyond(type, bars[i].c, line) THEN [status |-> "none", confirm |-> 0]
      ELSE IF i = Len(bars) THEN [status |-> "pending", confirm |-> 0]
      ELSE IF TwoMarubozu(bars[i], bars[i + 1], line, type) THEN next
      ELSE IF BigThenSmall(bars, i, line, type) /\ ~closedBack THEN next
      ELSE IF (strong \/ Penetrates(bars[i], line, type)) /\ ~closedBack THEN next
      ELSE IF strong /\ ~closedBack THEN AfterPause(bars, i, type)
      ELSE [next EXCEPT !.status = "fake"]

FalseBreakZone(bars, line, at, type) ==
  LET start == Min({s \in 1..at : \A j \in s..(at - 1) : Beyond(type, Extreme(bars[j], type), line)})
      all   == {line} \cup {Extreme(bars[j], type) : j \in start..at}
  IN  Band(SideOf(type), bars[start].t, IF type = "H" THEN Max(all) ELSE line,
                                        IF type = "H" THEN line ELSE Min(all))

\* Mutant: the break is looked for from the start of the window.
BreakEventsFromStart(bars, last, swing, trend) ==
  LET type    == swing.type
      line    == last.price
      closes  == {j \in 1..swing.i : Beyond(type, bars[j].c, line)}
      result  == EvaluateBreakout(bars, Min(closes), line, type)
      event(kind, at) == [kind |-> kind, side |-> SideOf(type), price |-> line, t |-> bars[at].t]
      fake(at) == <<[zone |-> FalseBreakZone(bars, line, swing.i, type)] @@ event("FAKE", at)>>
  IN  IF closes = {} THEN fake(swing.i)
      ELSE CASE result.status = "valid" -> <<event(IF trend \notin {"range", SideOf(type)} THEN "CHoCH" ELSE "BOS",
                                                   result.confirm)>>
             [] result.status = "fake"  -> fake(Min(closes))
             [] OTHER                   -> <<>>

\* The event of a swing that passes the last swing of its type, if any.
BreakEvents(bars, last, swing, trend) ==
  LET type    == swing.type
      line    == last.price
      closes  == {j \in (last.i + 1)..swing.i : Beyond(type, bars[j].c, line)}
      result  == EvaluateBreakout(bars, Min(closes), line, type)
      event(kind, at) == [kind |-> kind, side |-> SideOf(type), price |-> line, t |-> bars[at].t]
      fake(at) == <<[zone |-> FalseBreakZone(bars, line, swing.i, type)] @@ event("FAKE", at)>>
  IN  IF closes = {} THEN fake(swing.i)
      ELSE CASE result.status = "valid" -> <<event(IF trend \notin {"range", SideOf(type)} THEN "CHoCH" ELSE "BOS",
                                                   result.confirm)>>
             [] result.status = "fake"  -> fake(Min(closes))
             [] OTHER                   -> <<>>

\* The scan goes on after a swing that brought the given events.
Scanned(s, swing, new) ==
  [last   |-> [s.last EXCEPT ![swing.type] = <<swing>>],
   trend  |-> IF new # <<>> /\ new[1].kind # "FAKE" THEN new[1].side ELSE s.trend,
   events |-> s.events \o new]

ScanStep(bars, s, swing) ==
  LET last   == s.last[swing.type]
      passes == last # <<>> /\ Beyond(swing.type, swing.price, last[1].price)
  IN  Scanned(s, swing, IF passes THEN BreakEvents(bars, last[1], swing, s.trend) ELSE <<>>)

ScanBreaks(bars, swings) ==
  LET s[k \in 0..Len(swings)] ==
        IF k = 0 THEN [last |-> [H |-> <<>>, L |-> <<>>], trend |-> "range", events |-> <<>>]
        ELSE ScanStep(bars, s[k - 1], swings[k])
  IN  s[Len(swings)].events

-----------------------------------------------------------------------------
(* labelSwings.                                                            *)

Confirmed(events) == SelectSeq(events, LAMBDA e : e.kind # "FAKE")

\* Side of the latest confirmed event up to t; of equal times, the later one.
TrendAt(events, t) ==
  LET upTo == {n \in DOMAIN events : events[n].t <= t}
      last == CHOOSE n \in upTo : \A m \in upTo : \/ events[m].t < events[n].t
                                                  \/ events[m].t = events[n].t /\ m <= n
  IN  IF upTo = {} THEN "unknown" ELSE events[last].side

LabelOf(bars, swings, events, k) ==
  LET type  == swings[k].type
      trend == TrendAt(Confirmed(events), bars[swings[k].i].t)
      prior == {j \in 1..(k - 1) : swings[j].type = type}
      grows == Beyond(type, swings[k].price, swings[Max(prior)].price)
  IN  IF trend = SideOf(IF type = "H" THEN "L" ELSE "H") THEN (IF type = "H" THEN "LH" ELSE "HL")
      ELSE IF prior = {} THEN ""
      ELSE IF type = "H" THEN (IF grows THEN "HH" ELSE "LH") ELSE (IF grows THEN "LL" ELSE "HL")

LabelSwings(bars, swings, events) ==
  [k \in DOMAIN swings |-> [label |-> LabelOf(bars, swings, events, k)] @@ swings[k]]

-----------------------------------------------------------------------------
(* detectRange, keyLevels, marketTrend, premiumDiscount.                   *)

PricesOf(swings, type) ==
  LET own == SelectSeq(swings, LAMBDA s : s.type = type)
  IN  [n \in DOMAIN own |-> own[n].price]

Median(prices) == SortSeq(prices, <)[(Len(prices) \div 2) + 1]

\* The range zone of the recent swings, or <<>>.
DetectRange(bars, swings) ==
  LET recent == KeepLast(swings, Max({config.RangeMinSwings, 6}))
      highs  == PricesOf(recent, "H")
      lows   == PricesOf(recent, "L")
      top    == Median(highs)
      bottom == Median(lows)
      wide(prices) == Above(2 * (Max(ToSet(prices)) - Min(ToSet(prices))),
                            <<3 * config.EqualTolerance[1], config.EqualTolerance[2]>>, top + bottom)
  IN  IF Len(highs) < 2 \/ Len(lows) < 2 \/ Len(recent) < config.RangeMinSwings THEN <<>>
      ELSE IF \/ wide(highs) \/ wide(lows) \/ top <= bottom
              \/ Above(2 * (top - bottom), config.RangeMaxHeight, top + bottom) THEN <<>>
      ELSE <<Band("flat", bars[recent[1].i].t, top, bottom)>>

\* A key level keeps the price of the swing that opened it.
AddToLevels(levels, swing) ==
  LET k == SelectInSeq(levels, LAMBDA lv : Below(Dist(lv.price, swing.price), config.LevelClusterTol, swing.price))
  IN  IF k = 0 THEN Append(levels, [price |-> swing.price, touches |-> 1, last |-> swing.i])
      ELSE [levels EXCEPT ![k] = [@ EXCEPT !.touches = @ + 1, !.last = Max({@, swing.i})]]

KeyLevels(bars, swings) ==
  LET established == SubSeq(swings, 1, Len(swings) - config.LevelSwingLag)
      price       == bars[Len(bars)].c
      near        == SelectSeq(FoldLeft(AddToLevels, <<>>, established),
                               LAMBDA lv : ~Above(Dist(lv.price, price), config.MaxLevelDistance, price))
      before(m, n) == \/ near[m].touches > near[n].touches
                      \/ near[m].touches = near[n].touches /\ near[m].last > near[n].last
                      \/ near[m].touches = near[n].touches /\ near[m].last = near[n].last /\ m < n
      sorted      == SetToSortSeq(DOMAIN near, before)
  IN  [n \in 1..Min({Len(near), config.MaxLevels}) |->
         [side    |-> IF near[sorted[n]].price >= price THEN "resistance" ELSE "support",
          price   |-> near[sorted[n]].price,
          touches |-> near[sorted[n]].touches]]

\* Both the last two highs and the last two lows move to the given side.
Moves(swings, side) ==
  \A type \in {"H", "L"} :
    LET p == PricesOf(swings, type)
    IN  /\ Len(p) >= 2
        /\ side = "up" => p[Len(p)] > p[Len(p) - 1]
        /\ side = "down" => p[Len(p)] < p[Len(p) - 1]

MarketTrend(swings, events, hasRange) ==
  LET breaks == Confirmed(events)
  IN  IF breaks # <<>> THEN breaks[Len(breaks)].side
      ELSE IF hasRange THEN "range"
      ELSE IF Moves(swings, "up") THEN "up"
      ELSE IF Moves(swings, "down") THEN "down"
      ELSE "range"

\* The last leg in the direction of the trend; points of interest are in
\* thousandths of a tick.
PremiumDiscount(bars, swings, trend) ==
  LET up     == trend # "down"
      ends   == {k \in DOMAIN swings : swings[k].type = IF up THEN "H" ELSE "L"}
      starts == {k \in 1..(Max(ends) - 1) : swings[k].type = IF up THEN "L" ELSE "H"}
      leg    == {swings[Max(ends)], swings[Max(starts)]}
      high   == (CHOOSE s \in leg : s.type = "H").price
      low    == (CHOOSE s \in leg : s.type = "L").price
      at(thousandths) == 1000 * low + thousandths * (high - low)
  IN  IF Len(swings) < 2 \/ ends = {} \/ (ends # {} /\ starts = {}) THEN <<>>
      ELSE IF high <= low THEN <<>>
      ELSE <<[from |-> Min({bars[s.i].t : s \in leg}), trend |-> trend, high |-> high, low |-> low,
              poiBottom |-> at(IF up THEN 200 ELSE 618), poiTop |-> at(IF up THEN 382 ELSE 800)]>>

=============================================================================
