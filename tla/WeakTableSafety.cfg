SPECIFICATION Spec
CONSTANTS
  a = a
  b = b
  w = w
  w2 = w2
  Addr = {a, b}
  Foreign = {}
  Ints = {1}
  Modes = {"k", "v"}
  Walks = {w}
  MaxLives = 2
  MaxObjs = 2
  Fields = FALSE
CHECK_DEADLOCK FALSE
SYMMETRY Symmetry
INVARIANTS IndexExact DeadExact ReadsOwnAssignment TraversalExact
