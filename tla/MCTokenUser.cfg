SPECIFICATION Spec
CONSTANTS
  c1 = c1  c2 = c2  alice = alice  bob = bob
  Calls <- MCCalls
  Users <- MCUsers
  FirstUser = alice
  MaxAge = 1
  MaxClock = 2
  MaxTokens = 2
  MaxChanges = 1
SYMMETRY Symmetry
\* Every bound is reached and every call made.
CHECK_DEADLOCK FALSE
INVARIANTS AnswersAreOfTheCallsToken AnswersAreFresh
