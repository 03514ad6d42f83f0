SPECIFICATION FairSpec
CONSTANTS
  NoHash = NoHash
  MaxSeq = 3
  MaxOpens = 1
  MaxCrashes = 0
  MaxFails = 0
  MaxResaves = 0
  MaxPending = 1
  EarlyWrite = FALSE
  Pools = {p1}
PROPERTY ShutdownCompletes
CHECK_DEADLOCK FALSE
