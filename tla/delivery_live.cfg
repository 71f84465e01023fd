SPECIFICATION FairSpec
CONSTANTS
  s1 = s1
  s2 = s2
  green = green
  red = red
  None = None
  Series = {s1}
  Colours = {green, red}
  BatchSize = 1
  AmbiguousCommits = TRUE
  MaxBars = 1
  MaxTrades = 2
  MaxFaults = 2
  MaxCrashes = 1
INVARIANT TransitionsAreLossless
PROPERTY OutboxDrains
