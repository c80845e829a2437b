CONSTANTS
  j1 = j1
  j2 = j2
  j3 = j3
  j4 = j4
  High = High
  LongTerm = LongTerm
  Empty = Empty
  NoFile = NoFile
  pay1 = pay1
  pay2 = pay2
  Payload <- MCPayload
  Job <- MCJob
  Priority = {High, LongTerm}
  priority <- MCpriority
  Faults = {"crash", "full disk", "no open", "no remove", "clear priority"}
SYMMETRY BackupSymmetry
SPECIFICATION BSpec
INVARIANTS
  SavedJobSurvives
  WorksOnItsData
  WorkedOnceUnlessInterrupted
  CancelledStaysCancelled
CONSTRAINT FewErrors
CHECK_DEADLOCK FALSE
