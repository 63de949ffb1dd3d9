SPECIFICATION FairSpec
CONSTANTS
  e1 = e1  e2 = e2  e3 = e3  e4 = e4  e5 = e5
  Events <- MCEvents
  Messages <- MCMessages
  Window <- MCWindow
  Ends <- MCEnds
  MaxQueue = 2
  Bounded = TRUE
  Validation = TRUE
  MaxCalls = 6
  MaxFaults = 1
\* A closed socket and a consumer that makes no more calls have nothing to do.
CHECK_DEADLOCK FALSE
INVARIANTS NthCallNthEvent CompleteWhenReady
PROPERTIES ImplementsFeed EveryCallAnswered
