SPECIFICATION FairSpec
CONSTANTS
  alice = alice  bob = bob  a1 = a1  a2 = a2  b1 = b1
  Users <- MCUsers
  Tokens <- MCTokens
  Owner <- MCOwner
  Exp <- MCExp
  Opaque <- MCOpaque
  NoParty = {}
  TimerMax = 2
  Careful = TRUE
  MaxTime = 3
  MaxPages = 2
  MaxFaults = 1
CHECK_DEADLOCK FALSE
INVARIANTS OneIdentity DerivingIsTrue
PROPERTIES LostIsDropped ExpiredIsDropped ComesIn
