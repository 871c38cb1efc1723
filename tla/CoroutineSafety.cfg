SPECIFICATION Spec
CONSTANTS
  Co = {c1, c2}
  Main = Main
  None = None
  Ctx = {x1, x2}
  MaxTbc <- OneEach
  MaxCloseDepth = 2
SYMMETRY CtxSymmetry
INVARIANTS
  TakeTurns
  SomebodyMoves
  HandshakesMeet
  VMOwnership
  CloseDrains
  ParkedIsRegistered
  CloseDepthBalanced
CHECK_DEADLOCK FALSE
