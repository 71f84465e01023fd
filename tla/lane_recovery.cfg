SPECIFICATION Spec
CONSTANTS
  a = a
  b = b
  bad = bad
  m1 = m1
  m2 = m2
  None = None
  Values = {a, bad}
  Invalid = {bad}
  Trades <- SameTrades
  MaxTrades = 100
  Periods = {1, 2}
  MarketVersions = {m1, m2}
  Configs <- Reconfigured
  MaxTime = 3
  MaxLag = 1
  MaxCrashes = 2
  MaxFaults = 1
  MaxRepairs = 0
  EmptySeeds = TRUE
  SnapshotEvery = 2
  HistoryLimit = 2
  SeedBars = 3
INVARIANTS TypeOK RecoveryIsExact PointsNeverStale
