SPECIFICATION FairSpec
CONSTANTS
  meet = meet
  pipe = pipe
  Chan = {meet, pipe}
  Size <- MCSize
  Host = {h1}
  Lua = {l1}
  MaxSends = 1
CHECK_DEADLOCK FALSE
INVARIANTS NoSendOnClosed SendersCounted
PROPERTIES Implements CloseReturns CloseReleases CancelReleases
