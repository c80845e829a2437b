CONSTANTS
  error = error
  info = info
  debug = debug
  NoMessage = NoMessage
  Client = {c1, c2}
  Message <- MCMessage
  Type <- MCType
  Levels = {2, 5}
SPECIFICATION LFairSpec
INVARIANTS
  FirstInFirstOut
  StopFlushes
  NoSleepOverLoud
PROPERTIES
  DropsOnlyWhileStopping
  LoudMessageWritten
  MessageWritten
  IntervalStopReturns
CHECK_DEADLOCK FALSE
