SPECIFICATION Spec
CONSTANTS
  Periods <- MCPeriods
  Filters <- MCFilters
  HistoryLimit = 1
  MaxBars = 3
  Trades = 1
  MaxFaults = 1
INVARIANT ChartIsComplete
