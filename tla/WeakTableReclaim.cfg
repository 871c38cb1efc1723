SPECIFICATION FairSpec
CONSTANTS
  a = a
  b = b
  w = w
  w2 = w2
  Addr = {a, b}
  Foreign = {}
  Ints = {}
  Modes = {"kv"}
  Walks = {}
  MaxLives = 1
  MaxObjs = 2
  Fields = TRUE
CHECK_DEADLOCK FALSE
PROPERTY EventuallyReclaimed
