SPECIFICATION Spec
CONSTANTS
  Roots = {"run", "co"}
  Kinds = {"pcall", "xpcall", "callback"}
  NLocals = 2
  InnerCloses = 1
  InnerAsked = 0
  InnerCaptures = FALSE
  MaxVars = 2
  MaxErr = 3
  MaxDepth = 4
  ClosingDepth = 2
  MaxTries = 1
  KillMidUnwind = FALSE
INVARIANTS PendingIsUnclosed StacksRestored ReportsLast HandlerIsLive
PROPERTIES ClosedInOrder
