SPECIFICATION Spec
CONSTANTS
  s1 = s1
  s2 = s2
  green = green
  red = red
  None = None
  Series = {s1, s2}
  Colours = {green}
  BatchSize = 2
  AmbiguousCommits = FALSE
  MaxBars = 1
  MaxTrades = 1
  MaxFaults = 1
  MaxCrashes = 1
INVARIANTS NothingSkipped ConfirmedPrecedesNextCandle OutboxInv
PROPERTIES CompletedRowsAreDelivered VisibleInOrder
