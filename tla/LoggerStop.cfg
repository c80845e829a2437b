CONSTANTS
  error = error
  info = info
  debug = debug
  NoMessage = NoMessage
  Client = {c1, c2}
  Message <- MCMessage
  Type <- MCType
  Levels = {2, 5}
SPECIFICATION LFairSpec
PROPERTIES
  LoggerStopReturns
CHECK_DEADLOCK FALSE
