CONSTANTS
  LineCounts = {0, 1, 3, 6}
  Width = 4
  Batches <- MCBatches
  Period = 1
  Skews <- MCSkews
  LastDay = 3
  MaxWritten = 6
SPECIFICATION LFSpec
INVARIANTS
  FileEndsWithTheNewest
PROPERTIES
  NoYoungFileRemoved
