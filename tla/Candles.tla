------------------------------ MODULE Candles ------------------------------
(***************************************************************************)
(* Candles as the market reducer reads them.  A price is a whole number of *)
(* ticks, so the ratios the code computes in floating point are exact and  *)
(* are compared by cross multiplication; a configured fraction is a pair   *)
(* <<numerator, denominator>>.  A history is a sequence, oldest bar first. *)
(***************************************************************************)
EXTENDS Integers, Sequences, SequencesExt, FiniteSets, FiniteSetsExt

CONSTANT config   \* MarketConfig, and the 8, 6, 12 and 3 the detectors keep

ASSUME ConfigAssumption ==
  {config.ATRPeriod, config.MaxLevels, config.RecentBars, config.FVGLookback,
   config.PatternLookback, config.LiquidityLookback, config.MaxFVGs,
   config.MaxOrderBlocks, config.MaxPatterns, config.MaxClusters} \subseteq Nat \ {0}

\* a / b compared with the fraction f, for b > 0.
AtLeast(a, f, b) == a * f[2] >= f[1] * b

Above(a, f, b) == a * f[2] > f[1] * b

Below(a, f, b) == a * f[2] < f[1] * b

Dist(a, b) == IF a > b THEN a - b ELSE b - a

\* The last n elements of q.
KeepLast(q, n) == SubSeq(q, IF Len(q) > n THEN Len(q) - n + 1 ELSE 1, Len(q))

-----------------------------------------------------------------------------
(* features.                                                               *)

Body(b) == Dist(b.c, b.o)

Span(b) == b.h - b.l

\* The divisor of BodyRatio and CloseLocation.  A bar without range (1e-9 in
\* the code) has no body and closes at its low, so both ratios are zero.
RatioBase(b) == IF Span(b) = 0 THEN 1 ELSE Span(b)

Up(b) == b.c >= b.o

Direction(b) == IF b.c > b.o THEN 1 ELSE IF b.c < b.o THEN -1 ELSE 0

SimpleMarubozu(b) == Above(Body(b), <<8, 10>>, RatioBase(b))

PinBar(b) == Below(Body(b), <<3, 10>>, RatioBase(b))

ClosesHigh(b) == AtLeast(b.c - b.l, <<9, 10>>, RatioBase(b))

ClosesLow(b) == AtLeast(b.h - b.c, <<9, 10>>, RatioBase(b)) \/ Span(b) = 0

LongBody(b) == AtLeast(Body(b), <<7, 10>>, RatioBase(b))

HalfBody(b) == AtLeast(Body(b), <<5, 10>>, RatioBase(b))

StructureMarubozu(b, direction) ==
  /\ Direction(b) = direction
  /\ \/ LongBody(b)
     \/ HalfBody(b) /\ IF direction > 0 THEN ClosesHigh(b) ELSE ClosesLow(b)

\* Widest of the last five marubozus before position i; 0 without any.
MarubozuReference(bars, i) ==
  LET found == {j \in 1..(i - 1) :
                  \/ LongBody(bars[j])
                  \/ HalfBody(bars[j]) /\ (ClosesHigh(bars[j]) \/ ClosesLow(bars[j]))}
      five  == {j \in found : Cardinality({k \in found : k > j}) < 5}
  IN  Max({0} \cup {Span(bars[j]) : j \in five})

-----------------------------------------------------------------------------
(* detectPatterns.                                                         *)

Engulfs(b, a) == AtLeast(Body(b), <<125, 100>>, Body(a))

\* Three marubozus in a row, each closing beyond the one before.
Marching(z, a, b, up) ==
  /\ \A x \in {z, a, b} : SimpleMarubozu(x) /\ Up(x) = up
  /\ IF up THEN a.c > z.c /\ b.c > a.c ELSE a.c < z.c /\ b.c < a.c

Star(z, a, b, up) ==
  /\ SimpleMarubozu(z) /\ Up(z) # up
  /\ Below(Body(a), <<4, 10>>, RatioBase(a))
  /\ SimpleMarubozu(b) /\ Up(b) = up
  /\ IF up THEN 2 * b.c > z.h + z.l ELSE 2 * b.c < z.h + z.l

TwoBar == <<"bull_engulfing", "bear_engulfing", "inside_bar">>

ThreeBar == <<"morning_star", "evening_star", "three_soldiers", "three_crows",
              "tweezer_bottom", "tweezer_top">>

\* Is the pattern kind completed by bar b, after a, after z?
Completes(kind, z, a, b) ==
  CASE kind = "bull_engulfing" -> Up(b) /\ ~Up(a) /\ Engulfs(b, a) /\ b.c > a.o /\ b.o < a.c
    [] kind = "bear_engulfing" -> ~Up(b) /\ Up(a) /\ Engulfs(b, a) /\ b.c < a.o /\ b.o > a.c
    [] kind = "inside_bar"     -> b.h < a.h /\ b.l > a.l
    [] kind = "morning_star"   -> Star(z, a, b, TRUE)
    [] kind = "evening_star"   -> Star(z, a, b, FALSE)
    [] kind = "three_soldiers" -> Marching(z, a, b, TRUE)
    [] kind = "three_crows"    -> Marching(z, a, b, FALSE)
    [] kind = "tweezer_bottom" -> PinBar(a) /\ PinBar(b) /\ Below(Dist(a.l, b.l), <<6, 10000>>, b.l)
    [] kind = "tweezer_top"    -> PinBar(a) /\ PinBar(b) /\ Below(Dist(a.h, b.h), <<6, 10000>>, b.h)

\* Mutant: three-bar patterns wait for a later bar.
PatternsAtLate(bars, i, start) ==
  LET kinds == SelectSeq(IF i = Len(bars) THEN TwoBar ELSE TwoBar \o ThreeBar,
                         LAMBDA k : Completes(k, bars[i - 2], bars[i - 1], bars[i]))
  IN  [n \in DOMAIN kinds |-> [kind |-> kinds[n], t |-> bars[i].t]]

\* The first bar looked at completes only two-bar patterns.
PatternsAt(bars, i, start) ==
  LET kinds == SelectSeq(IF i = start THEN TwoBar ELSE TwoBar \o ThreeBar,
                         LAMBDA k : Completes(k, bars[i - 2], bars[i - 1], bars[i]))
  IN  [n \in DOMAIN kinds |-> [kind |-> kinds[n], t |-> bars[i].t]]

DetectPatterns(bars) ==
  LET start == Max({4, Len(bars) - config.PatternLookback + 1})
  IN  KeepLast(FlattenSeq([n \in 1..Max({0, Len(bars) - start + 1}) |->
                             PatternsAt(bars, start + n - 1, start)]),
               config.MaxPatterns)

=============================================================================
