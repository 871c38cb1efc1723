SPECIFICATION Spec
CONSTANTS
  Nil = Nil
  Over = Over
  Failed = Failed
  s1 = s1
  s2 = s2
  o1 = o1
  v1 = v1
  v2 = v2
  w1 = w1
  w2 = w2
  IntKeys = {1, 2}
  StrKeys = {s1}
  OtherKeys = {o1}
  Val = {v1}
  Walks = {w1}
  Hints = {0}
  Rooms = {}
  MaxListed = 0
  NilFields = FALSE
  deadIndexThreshold = 2
  keyIndexThreshold = 2
  promoteMinHash = 2
  maxTableEntries = 4
  maxVicinity = 1
  maxInt = 4
CHECK_DEADLOCK FALSE
SYMMETRY Symmetry
INVARIANTS TraversalSkipsNone
