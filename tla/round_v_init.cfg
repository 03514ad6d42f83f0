SPECIFICATION Spec
CONSTANTS
  a = a
  b = b
  c = c
  None = None
  Nodes = {a, b}
  Tables <- TwoTables
  Kinds = {"first"}
  MaxRound = 1
  MaxTasks = 1
  MaxNet = 1
  Malformed = TRUE
INVARIANT RoleByTable
