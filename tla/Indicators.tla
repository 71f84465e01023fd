----------------------------- MODULE Indicators -----------------------------
(***************************************************************************)
(* The EMA and market reducers of one series, driven the way a lane drives *)
(* them: a closed bar is reduced on clones, checkpointed every so many     *)
(* bars and installed; a restart restores the checkpoint and replays the   *)
(* bars after it; a correction rebuilds everything from the seed.  Lane    *)
(* models the store and the faults around these steps; here the reducers   *)
(* compute.  A consumer follows the frames the bars produce.               *)
(***************************************************************************)
EXTENDS Zones, Structure

CONSTANTS Shapes,          \* the candles [o, h, l, c] a bar can have
          Histories,       \* the candles closed before the lane's first seed
          Periods,         \* EMA periods
          HistoryLimit,    \* bars the market reducer keeps
          SeedBars,        \* bars OHLC sends in a seed
          SnapshotEvery,   \* bars between two checkpoints
          CorrectionReach,   \* how many bars back a correction is tried
          MaxCloses,       \* bound: bars closed
          MaxFaults,       \* bound: corrections and restarts
          MaxUpgrades      \* bound: restarts with a new market version

ASSUME HistoryAssumption ==
  /\ HistoryLimit >= Max({config.RecentBars, config.FVGLookback, config.LiquidityLookback})
  /\ Periods \subseteq Nat \ {0} /\ Periods # {} /\ SnapshotEvery \in Nat \ {0}

VARIABLES
  closed,     \* every closed bar OHLC holds
  market,     \* the market reducer: [bars, samples, state]
  ema,        \* the EMA reducer of every period: [samples, seedSum, value]
  saved,      \* the checkpoint: [at, market, ema]; market is <<>> under a new version
  consumer,   \* what a consumer of the frames knows: [zones, patterns]
  spent       \* [closes, faults, upgrades] used up of the bounds

vars == <<closed, market, ema, saved, consumer, spent>>

-----------------------------------------------------------------------------
(* The EMA reducer.  A value is a fraction [n, d].                         *)

NewEMA == [samples |-> 0, seedSum |-> 0, value |-> [n |-> 0, d |-> 1]]

\* Mutant: the recursion starts one close early.
EMAOnClosedEarly(e, p, close) ==
  LET samples == e.samples + 1
  IN  IF samples < p THEN [e EXCEPT !.samples = samples, !.seedSum = @ + close]
      ELSE [e EXCEPT !.samples = samples,
                     !.value = [n |-> 2 * close * @.d + (p - 1) * @.n, d |-> (p + 1) * @.d]]

EMAOnClosed(e, p, close) ==
  LET samples == e.samples + 1
      sum     == e.seedSum + close
  IN  IF samples < p THEN [e EXCEPT !.samples = samples, !.seedSum = sum]
      ELSE IF samples = p THEN [samples |-> samples, seedSum |-> sum, value |-> [n |-> sum, d |-> p]]
      ELSE [e EXCEPT !.samples = samples,
                     !.value = [n |-> 2 * close * @.d + (p - 1) * @.n, d |-> (p + 1) * @.d]]

ReduceEMAClosed(reducers, b) == [p \in Periods |-> EMAOnClosed(reducers[p], p, b.c)]

EMASnapshot(e, p) == [period |-> p, samples |-> e.samples, seedSum |-> e.seedSum, value |-> e.value]

\* Refused with another period, or with a value before readiness.
Restorable(snapshot, p) ==
  snapshot.period = p /\ (snapshot.samples < p => snapshot.value.n = 0)

RestoreEMA(snapshot) ==
  [samples |-> snapshot.samples, seedSum |-> snapshot.seedSum, value |-> snapshot.value]

Snapshots(reducers) == [p \in Periods |-> EMASnapshot(reducers[p], p)]

RestoreReducers(snapshots) == [p \in Periods |-> RestoreEMA(snapshots[p])]

CloneReducers(reducers) == RestoreReducers(Snapshots(reducers))

-----------------------------------------------------------------------------
(* EvaluateMarket and the market reducer.                                  *)

NoStructure == [Trend |-> "range", Swings |-> <<>>, Structure |-> <<>>, Ranges |-> <<>>,
                KeyLevels |-> <<>>, PremiumDiscount |-> <<>>]

\* The swings and what is derived from them, in the bars they were found in.
Described(bars, recent, swings, all, events, range, trend) ==
  [Trend |-> trend, Swings |-> LabelSwings(recent, swings, events), Structure |-> events,
   Ranges |-> range, KeyLevels |-> KeyLevels(bars, all),
   PremiumDiscount |-> PremiumDiscount(recent, swings, trend)]

WithBreaks(bars, recent, swings, all, events, range) ==
  Described(bars, recent, swings, all, events, range, MarketTrend(swings, events, range # <<>>))

WithSwings(bars, recent, swings) ==
  WithBreaks(bars, recent, swings,
             IF Len(bars) > Len(recent) THEN MergeByValidPullback(bars, Zigzag(bars)) ELSE swings,
             ScanBreaks(recent, swings), DetectRange(recent, swings))

StructureOf(bars) ==
  LET recent == KeepLast(bars, config.RecentBars)
  IN  IF Len(recent) < config.ATRPeriod + 4 THEN NoStructure
      ELSE WithSwings(bars, recent, MergeByValidPullback(recent, Zigzag(recent)))

NoFacts == [AsOf |-> 0, FVGs |-> <<>>, OrderBlocks |-> <<>>, Patterns |-> <<>>,
            Liquidity |-> [equal_high |-> <<>>, equal_low |-> <<>>], LiquiditySweeps |-> <<>>,
            PatternOccurrences |-> {}, ZoneTransitions |-> {}]

Detected(bars, gaps, liquidity) ==
  [NoFacts EXCEPT !.AsOf = bars[Len(bars)].t,
                  !.FVGs = AnnotateZoneStates(bars, gaps),
                  !.OrderBlocks = AnnotateZoneStates(bars, DetectOrderBlocks(bars, gaps)),
                  !.Patterns = DetectPatterns(bars),
                  !.Liquidity = liquidity,
                  !.LiquiditySweeps = LiquiditySweeps(liquidity, bars[Len(bars)])]

EvaluateMarket(bars) ==
  IF bars = <<>> THEN NoFacts @@ NoStructure
  ELSE Detected(bars, DetectFVG(bars), DetectLiquidity(bars)) @@ StructureOf(bars)

NewMarket == [bars |-> <<>>, samples |-> 0, state |-> EvaluateMarket(<<>>)]

PatternOccurrences(patterns, t) == {pattern \in ToSet(patterns) : pattern.t = t}

\* The state after bar b, with what b brought about.
Observed(previous, state, b) ==
  [state EXCEPT !.PatternOccurrences = PatternOccurrences(state.Patterns, b.t),
                !.ZoneTransitions = ZoneTransitions(previous, state, b)]

MarketOnClosed(m, b) ==
  LET bars == KeepLast(Append(m.bars, b), HistoryLimit)
  IN  [bars    |-> bars,
       samples |-> m.samples + 1,
       state   |-> Observed(m.state, EvaluateMarket(bars), b)]

\* Mutant: only the bars structure is read from are saved.
MarketSnapshotRecent(m) == [samples |-> m.samples, bars |-> KeepLast(m.bars, config.RecentBars)]

MarketSnapshot(m) == [samples |-> m.samples, bars |-> m.bars]

RestoreMarket(snapshot) ==
  [bars |-> snapshot.bars, samples |-> snapshot.samples, state |-> EvaluateMarket(snapshot.bars)]

CloneMarket(m) == RestoreMarket(MarketSnapshot(m))

SeedMarket(bars) ==
  LET kept == KeepLast(bars, HistoryLimit)
  IN  [bars |-> kept, samples |-> Len(bars), state |-> EvaluateMarket(kept)]

-----------------------------------------------------------------------------
(* What the lane does with them.                                           *)

Numbered(shapes) == [n \in DOMAIN shapes |-> [t |-> n] @@ shapes[n]]

\* One bar after another through a reducer.
ReplayMarket(m, bars) == FoldLeft(MarketOnClosed, m, bars)

ReplayEMA(reducers, bars) == FoldLeft(ReduceEMAClosed, reducers, bars)

\* closedCount of the lane.
ClosedCount(reducers) == reducers[Min(Periods)].samples

Checkpoint(at, m, reducers) ==
  [at |-> at, market |-> <<MarketSnapshot(m)>>, ema |-> Snapshots(reducers)]

\* A consumer takes a reset, or the first frame of a computation, as its
\* baseline, and applies the transitions and occurrences of later frames.
Baseline(state) ==
  [zones |-> {[id |-> z.id, state |-> z.state] : z \in AllZones(state)}, patterns |-> ToSet(state.Patterns)]

Follow(c, state) ==
  LET with(what) == {x \in state.ZoneTransitions : x.transition \in what}
      named      == {x.id : x \in with({"created", "touched", "mitigated", "invalidated", "expired"})}
      gone       == {x.id : x \in with({"mitigated", "invalidated", "expired"})}
      kept       == {z \in c.zones : z.id \notin named}
      new        == {[id |-> x.id, state |-> x.state] : x \in with({"created", "touched"})}
  IN  [zones    |-> kept \cup {z \in new : z.id \notin gone},
       patterns |-> c.patterns \cup state.PatternOccurrences]

\* rebuildSeed: new reducers over the seed, checkpointed at its last bar.
RebuiltMarket(bars) == ReplayMarket(NewMarket, KeepLast(bars, SeedBars))

RebuiltEMA(bars) == ReplayEMA([p \in Periods |-> NewEMA], KeepLast(bars, SeedBars))

RebuildSeed(bars) ==
  /\ closed' = bars
  /\ market' = RebuiltMarket(bars)
  /\ ema' = RebuiltEMA(bars)
  /\ saved' = Checkpoint(Len(bars), market', ema')
  /\ consumer' = Baseline(market'.state)

Init ==
  /\ closed \in {Numbered(shapes) : shapes \in Histories}
  /\ market = RebuiltMarket(closed)
  /\ ema = RebuiltEMA(closed)
  /\ saved = Checkpoint(Len(closed), market, ema)
  /\ consumer = Baseline(market.state)
  /\ spent = [closes |-> 0, faults |-> 0, upgrades |-> 0]

\* applyClosed: reduce on clones, commit, install.
ApplyClosed(shape) ==
  LET b == [t |-> Len(closed) + 1] @@ shape
  IN  /\ spent.closes < MaxCloses
      /\ closed' = Append(closed, b)
      /\ market' = MarketOnClosed(CloneMarket(market), b)
      /\ ema' = ReduceEMAClosed(CloneReducers(ema), b)
      /\ saved' = IF ClosedCount(ema') % SnapshotEvery = 0 THEN Checkpoint(b.t, market', ema') ELSE saved
      /\ consumer' = Follow(consumer, market'.state)
      /\ spent' = [spent EXCEPT !.closes = @ + 1]

\* A bar at or behind the cursor was corrected: the next seed conflicts.
Correct(t, shape) ==
  /\ spent.faults < MaxFaults
  /\ t > Len(closed) - CorrectionReach
  /\ closed[t] # [t |-> t] @@ shape
  /\ RebuildSeed([closed EXCEPT ![t] = [t |-> t] @@ shape])
  /\ spent' = [spent EXCEPT !.faults = @ + 1]

\* The bars of the seed after the checkpoint, up to the durable cursor.
AfterCheckpoint == SubSeq(closed, saved.at + 1, Len(closed))

\* restoreRecoverySeed: a checkpoint the seed covers, replayed to the cursor.
\* Without a market snapshot of the running version the seed is evaluated.
Recover(marketSnapshot) ==
  /\ Len(closed) - saved.at < SeedBars
  /\ \A p \in Periods : Restorable(saved.ema[p], p)
  /\ market' = IF marketSnapshot = <<>> THEN SeedMarket(KeepLast(closed, SeedBars))
               ELSE ReplayMarket(RestoreMarket(marketSnapshot[1]), AfterCheckpoint)
  /\ ema' = ReplayEMA(RestoreReducers(saved.ema), AfterCheckpoint)
  /\ UNCHANGED closed

Restart ==
  /\ spent.faults < MaxFaults
  /\ Recover(saved.market)
  /\ spent' = [spent EXCEPT !.faults = @ + 1]
  /\ UNCHANGED <<saved, consumer>>

\* The restart brings a new market algorithm: a computation without frames
\* yet, which its consumers start from the served state.
Upgrade ==
  /\ spent.upgrades < MaxUpgrades
  /\ Recover(<<>>)
  /\ saved' = [saved EXCEPT !.market = <<>>]
  /\ consumer' = Baseline(market'.state)
  /\ spent' = [spent EXCEPT !.upgrades = @ + 1]

Next ==
  \/ \E shape \in Shapes : ApplyClosed(shape)
  \/ \E t \in DOMAIN closed, shape \in Shapes : Correct(t, shape)
  \/ Restart
  \/ Upgrade

Spec == Init /\ [][Next]_vars

-----------------------------------------------------------------------------
(* Properties.                                                             *)

\* The transitions of the frames tell the whole story of the zones: a
\* consumer that starts from a baseline and applies only zone_transitions
\* knows after every bar which zones the state holds and which are touched.
TransitionsTellTheState ==
  consumer.zones = Baseline(market.state).zones

\* No pattern surfaces late: every pattern the state lists was an occurrence
\* in the frame of the bar that completed it.
PatternsAreAnnounced ==
  ToSet(market.state.Patterns) \subseteq consumer.patterns

\* What a state says apart from what its own bar brought about.
LastingFacts(state) == [state EXCEPT !.PatternOccurrences = {}, !.ZoneTransitions = {}]

\* A restart of the same version loses nothing: the checkpoint and the bars
\* replayed after it give the market state and the averages of the process
\* that crashed.
RestartKeepsFacts ==
  [][closed' = closed /\ saved' = saved =>
       /\ LastingFacts(market'.state) = LastingFacts(market.state)
       /\ ema' = ema]_vars

Power(x, n) == IF n = 0 THEN 1 ELSE x^n

SumOver(S, Term(_)) == MapThenSumSet(Term, S)

\* An average is the mean of its first closes, weighted against every later
\* close: the recursion of OnClosed, unrolled, over the bars it has seen.
EMAIsTheWeightedMean ==
  \A p \in Periods :
    LET n     == ema[p].samples
        close == [k \in 1..n |-> closed[Len(closed) - n + k].c]
        later == n - p
    IN  n >= p =>
          /\ ema[p].value.d = p * Power(p + 1, later)
          /\ ema[p].value.n = Power(p - 1, later) * SumOver(1..p, LAMBDA k : close[k])
               + 2 * p * SumOver((p + 1)..n, LAMBDA k : Power(p - 1, n - k) * Power(p + 1, k - p - 1) * close[k])

\* Published swings alternate, every high is above the lows beside it, and
\* none precedes the one before it, however often swings were merged.
SwingsAlternate ==
  LET s == market.state.Swings
  IN  \A k \in 1..(Len(s) - 1) :
        /\ s[k].type # s[k + 1].type
        /\ Beyond(s[k].type, s[k].price, s[k + 1].price)
        /\ s[k].i <= s[k + 1].i

\* However swings are merged, breaks are listed in the order in which they were
\* confirmed, and no bar confirms two of them.  So the break that decides the
\* trend (the last of the list, marketTrend) is the one that labels the newest
\* swings (the latest by time, after a sort that keeps no order among equal
\* times, labelSwings).
BreaksInOrder ==
  LET breaks == Confirmed(market.state.Structure)
  IN  /\ \A k \in 1..(Len(breaks) - 1) : breaks[k].t < breaks[k + 1].t
      /\ breaks # <<>> => market.state.Trend = TrendAt(breaks, market.state.AsOf)

=============================================================================
