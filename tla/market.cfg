SPECIFICATION Spec
CONSTANTS
  config <- MCConfig
  Shapes <- MCShapes
  Histories <- MCHistories
  Periods = {1, 3}
  HistoryLimit = 12
  SeedBars = 12
  SnapshotEvery = 2
  CorrectionReach = 1
  MaxCloses = 2
  MaxFaults = 1
  MaxUpgrades = 1
CHECK_DEADLOCK FALSE
INVARIANTS TransitionsTellTheState PatternsAreAnnounced EMAIsTheWeightedMean SwingsAlternate BreaksInOrder
PROPERTY RestartKeepsFacts
