SPECIFICATION FairSpec
CONSTANTS
  a = a
  b = b
  c = c
  None = None
  Nodes = {a, b}
  Tables <- TwoTables
  Kinds = {"tx", "hash"}
  MaxRound = 2
  MaxTasks = 1
  MaxNet = 2
  Malformed = TRUE
PROPERTY RoundsGrow
PROPERTY RoundSpreads
CHECK_DEADLOCK FALSE
