CONSTANTS
  info = info
  debug = debug
  NoMessage = NoMessage
  Client = {c1, c2}
  Message <- MCMessage
  Type <- MCType
  Levels = {2, 5}
SPECIFICATION SSpec
INVARIANTS
  SampleReturns
CHECK_DEADLOCK FALSE
