SPECIFICATION FairReadsSpec
CONSTANTS
  c1 = c1  c2 = c2  c3 = c3
  Contracts <- MCContracts
  Wanted <- MCWanted
  Undecodable <- MCUndecodable
  Interface = FALSE
  OtherKinds = {"OffsetCheckpoint"}
  Limits <- MCLimits
  ServerLimit = 2
  ScanLimit = 2
  MaxOffset = 4
  MaxFaults = 1
\* The ledger may be at its bound and every read ended.
CHECK_DEADLOCK FALSE
CONSTRAINT OneReader
INVARIANTS ViewIsOfTheLedger ProbeIsFirst
PROPERTIES ImplementsFeed ReadEnds
