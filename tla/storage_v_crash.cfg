SPECIFICATION Spec
CONSTANTS
  NoHash = NoHash
  MaxSeq = 3
  MaxOpens = 2
  MaxCrashes = 1
  MaxFails = 0
  MaxResaves = 0
  MaxPending = 1
  EarlyWrite = FALSE
  Pools = {p1, p2}
INVARIANT TipLoadable
CHECK_DEADLOCK FALSE
SYMMETRY Symmetry
