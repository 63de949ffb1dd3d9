SPECIFICATION Spec
CONSTANTS
  transfer = transfer  quote = quote  archive = archive
  Effects <- MCEffects
  Archives <- MCArchives
  Target <- MCTarget
  Via <- MCVia
  WithContext <- MCWithContext
  Transaction <- MCTransaction
  Wanted <- MCWanted
  LostStatuses = {503}
  Careful = TRUE
  MaxSends <- MCMaxSends
  MaxRounds = 2
  MaxFaults = 1
CONSTRAINT FewUnderWay
\* Every command may have ended.
CHECK_DEADLOCK FALSE
INVARIANTS AppliedAtMostOnce ReportsAreTrue FoundIsLive
