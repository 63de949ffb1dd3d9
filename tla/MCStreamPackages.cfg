SPECIFICATION Spec
CONSTANTS
  f1 = f1  f2 = f2  p1 = p1  p2 = p2
  c1 = c1  c2 = c2  c3 = c3
  Filters <- MCFilters
  Packages <- MCPackages
  PkgOf <- MCPkgOf
  Contracts <- MCContracts1
  FilterOf <- MCFilterOf1
  InitialLog <- MCEmpty
  InitialKnown <- MCKnown
  SkipAcs = {TRUE, FALSE}
  AutoReconnect = TRUE
  RewidenMin = 1
  RewidenMax = 2
  MaxSockets = 3
  MaxOffset = 2
  MaxFaults = 2
  MaxTokens = 1
\* A closed stream with no socket left has nothing to do.
CHECK_DEADLOCK FALSE
INVARIANTS DroppedIsRetried EveryFilterAccounted
PROPERTIES StopIsFinal OffsetNeverRetreats NeverSilentlyDeaf
