SPECIFICATION Spec
CONSTANTS
  NoHash = NoHash
  MaxSeq = 2
  MaxOpens = 3
  MaxCrashes = 2
  MaxFails = 2
  MaxResaves = 0
  MaxPending = 1
  EarlyWrite = TRUE
  Pools = {p1, p2, p3}
INVARIANT IndexPointsToRecord
INVARIANT ChainLinked
INVARIANT TipCurrent
PROPERTY ImplementsLedger
CHECK_DEADLOCK FALSE
