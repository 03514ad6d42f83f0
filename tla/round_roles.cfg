SPECIFICATION Spec
CONSTANTS
  a = a
  b = b
  c = c
  None = None
  Nodes = {a, b, c}
  Tables <- FullTables
  Kinds = {"first", "list", "vector", "matrix", "block"}
  MaxRound = 2
  MaxTasks = 1
  MaxNet = 1
  Malformed = FALSE
INVARIANT RoundAgreement
INVARIANT RoleByTable
INVARIANT GivenInRole
SYMMETRY Symmetry
