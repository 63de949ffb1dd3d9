SPECIFICATION FairSpec
CONSTANTS
  f1 = f1  f2 = f2  p1 = p1  p2 = p2
  c1 = c1  c2 = c2  c3 = c3
  Filters <- MCFilters
  Packages <- MCPackages
  PkgOf <- MCPkgOf
  Contracts <- MCContracts3
  FilterOf <- MCFilterOf3
  InitialLog <- MCInitial
  InitialKnown <- MCPackages
  SkipAcs = {TRUE, FALSE}
  AutoReconnect = TRUE
  RewidenMin = 1
  RewidenMax = 2
  MaxSockets = 3
  MaxOffset = 5
  MaxFaults = 3
  MaxTokens = 0
\* A closed stream with no socket left has nothing to do.
CHECK_DEADLOCK FALSE
INVARIANTS ViewFollowsLedger
PROPERTIES CatchesUp
