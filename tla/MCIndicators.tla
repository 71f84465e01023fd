---------------------------- MODULE MCIndicators ----------------------------
EXTENDS Indicators

Candle(o, h, l, c) == [o |-> o, h |-> h, l |-> l, c |-> c]

MCConfig ==
  [MinSwingPct |-> <<1, 100>>, ATRPeriod |-> 2, ATRMult |-> <<1, 2>>, MinPullbackFrac |-> <<6, 10>>,
   EqualTolerance |-> <<5, 100>>, RangeMinSwings |-> 4, RangeMaxHeight |-> <<1, 1>>,
   SecondMaruMin |-> <<7, 10>>, BigVsReference |-> <<7, 10>>, BreakBodyBeyond |-> <<3, 10>>,
   OppositeSmallMax |-> <<3, 10>>, PACWindow |-> 1, LevelClusterTol |-> <<5, 100>>, LevelSwingLag |-> 1,
   MaxLevels |-> 2, MaxLevelDistance |-> <<50, 100>>, RecentBars |-> 9, FVGLookback |-> 5,
   PatternLookback |-> 4, LiquidityLookback |-> 10, LiquidityTol |-> <<5, 100>>,
   MaxFVGs |-> 2, MaxOrderBlocks |-> 2, MaxPatterns |-> 3, MaxClusters |-> 2]

UpLow == Candle(10, 16, 10, 16)
UpHigh == Candle(20, 26, 20, 26)
DownHigh == Candle(26, 26, 20, 20)
DownLow == Candle(16, 16, 10, 10)
Spike == Candle(18, 30, 17, 19)
Dip == Candle(18, 19, 6, 17)
Small == Candle(18, 19, 17, 18)
Peak == Candle(18, 25, 17, 19)

MCShapes == {UpLow, UpHigh, DownHigh, DownLow, Spike, Dip}

\* Histories that end two bars short of what they are named for: a series with
\* no average yet, one whose first break is decided by the next candles, an
\* invalidated order block, a liquidity sweep, a change of character, three
\* soldiers, and a second break of structure after a failed one.
Newborn == <<Small>>
Young == <<Small, DownLow, Peak, DownLow>>
Blocks == <<Small, DownHigh, DownHigh, DownHigh, DownLow, DownHigh, DownHigh, Small, DownLow>>
Levels == <<Small, Dip, Spike, DownLow, Spike, UpHigh, Dip, UpLow, UpHigh, DownHigh, UpLow>>
Turning == <<Small, DownHigh, DownLow, UpLow, Spike, DownHigh, DownLow, Dip, DownLow, UpLow>>
Rising == <<Small, Dip, UpHigh, Spike, DownLow, Candle(4, 10, 4, 10)>>
Breaking == <<DownHigh, UpHigh, UpHigh, DownLow, DownLow, Spike, DownHigh>>

MCHistories == {Newborn, Young, Blocks, Levels, Turning, Rising, Breaking}

=============================================================================
