CONSTANTS
  Byte <- Bytes
  WordSize = 2
  MaxSize = 40
  Word <- LittleEndian
  Size <- FromLittleEndian
  IntSize = 1
  IntWord <- OneByte
  IntOf <- FromOneByte
  LZ4 <- Literals
  UnLZ4 <- FromLiterals
  Refused = Refused
  Gone = Gone
  Name <- Names
  Content <- Contents3
  BlockBytes <- Blocks3
SPECIFICATION FASpec
INVARIANTS
  RestoredAreArchived
  NothingIsLost
  RefusedLeavesFile
CHECK_DEADLOCK FALSE
