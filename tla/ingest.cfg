SPECIFICATION FairSpec
CONSTANTS
  oneMinute = oneMinute
  fiveMinutes = fiveMinutes
  Series <- MCSeries
  Warmup = 2
  None = None
  MaxBars = 2
  MaxFaults = 1
  MaxOutages = 1
INVARIANTS IngestInv BarsAscend NothingLost NoGapReachesALane ReadyIsEarned
PROPERTY Recovers
