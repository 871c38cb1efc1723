SPECIFICATION Spec
CONSTANTS
  Nil = Nil
  Over = Over
  Failed = Failed
  s1 = s1
  s2 = s2
  o1 = o1
  v1 = v1
  v2 = v2
  w1 = w1
  w2 = w2
  IntKeys <- StoreInts
  StrKeys = {s1}
  OtherKeys = {}
  Val = {v1, v2}
  Walks = {}
  Hints = {0}
  Rooms = {3}
  MaxListed = 2
  NilFields = FALSE
  deadIndexThreshold = 2
  keyIndexThreshold = 2
  promoteMinHash = 2
  maxTableEntries = 4
  maxVicinity = 1
  maxInt = 7
CHECK_DEADLOCK FALSE
SYMMETRY Symmetry
INVARIANTS StorageExact ActsAsAMap LengthIsABorder
