SPECIFICATION FairSpec
CONSTANTS
  Co = {c1, c2}
  Main = Main
  None = None
  Ctx = {x1}
  MaxTbc <- TwoForOne
  MaxCloseDepth = 2
PROPERTIES
  CloseReturns
  CancelUnwinds
CHECK_DEADLOCK FALSE
