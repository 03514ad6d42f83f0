SPECIFICATION FairSpec
CONSTANTS
  NoHash = NoHash
  MaxSeq = 3
  MaxOpens = 2
  MaxCrashes = 0
  MaxFails = 0
  MaxResaves = 1
  MaxPending = 3
  EarlyWrite = FALSE
  Pools = {p1, p2, p3}
INVARIANT SequenceGrows
INVARIANT ShutdownKeepsAccepted
PROPERTY AcceptedWritten
CHECK_DEADLOCK FALSE
