SPECIFICATION Spec
CONSTANTS
  a = a
  b = b
  bad = bad
  m1 = m1
  m2 = m2
  None = None
  Values = {a, b}
  Invalid = {}
  Trades <- SameTrades
  MaxTrades = 100
  Periods = {1, 2}
  MarketVersions = {m1, m2}
  Configs <- OneConfig
  MaxTime = 3
  MaxLag = 0
  MaxCrashes = 0
  MaxFaults = 0
  MaxRepairs = 2
  EmptySeeds = FALSE
  SnapshotEvery = 2
  HistoryLimit = 2
  SeedBars = 3
PROPERTY ResetCarriesBaseline
