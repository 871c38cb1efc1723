SPECIFICATION Spec
CONSTANTS
  Roots = {"run"}
  Kinds = {"pcall"}
  NLocals = 2
  InnerCloses = 2
  InnerAsked = 0
  InnerCaptures = FALSE
  MaxVars = 3
  MaxErr = 2
  MaxDepth = 2
  ClosingDepth = 2
  MaxTries = 1
  KillMidUnwind = FALSE
INVARIANTS PendingIsUnclosed
