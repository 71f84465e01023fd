SPECIFICATION Spec
CONSTANTS
  Periods <- MCPeriods
  Filters <- MCMarketFilters
  HistoryLimit = 1
  MaxBars = 3
  Trades = 1
  MaxFaults = 1
INVARIANT SameOccurrenceSameID
