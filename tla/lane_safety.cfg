SPECIFICATION FairSpec
CONSTANTS
  a = a
  b = b
  bad = bad
  m1 = m1
  m2 = m2
  None = None
  Values = {a}
  Invalid = {}
  Trades <- SameTrades
  MaxTrades = 100
  Periods = {1, 2}
  MarketVersions = {m1, m2}
  Configs <- OneConfig
  MaxTime = 3
  MaxLag = 1
  MaxCrashes = 2
  MaxFaults = 2
  MaxRepairs = 2
  EmptySeeds = FALSE
  SnapshotEvery = 2
  HistoryLimit = 2
  SeedBars = 3
INVARIANTS LaneInv MemoryNeverAheadOfStore CountsAgree ProjectionFollowsReducers
PROPERTIES CursorNeverMovesBack CommitsAreContiguous ImplementsJournal EventuallyCaughtUp
