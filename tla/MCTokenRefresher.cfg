SPECIFICATION FairRefresherSpec
CONSTANTS
  Lifetimes <- MCLifetimes
  RefreshDelay <- MCRefreshDelay
  MinRefresh = 1
  MaxTimerDelay = 12
  RetryBase = 1
  RetryMax = 6
  MaxFailures = 4
INVARIANTS RefreshOnTime
PROPERTIES QuietAfterStop TokenRecovers
