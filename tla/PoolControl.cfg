CONSTANTS
  high = high
  low = low
  h1 = h1
  h2 = h2
  l1 = l1
  l2 = l2
  main = main
  other = other
  NoJob = NoJob
  Nobody = Nobody
  Client <- MCClient
  Thread <- MCThread
  Priority <- MCPriority
  priority <- MCpriority
  PriorityList <- MCPriorityList
  InitialPriorities <- Disjoint
  Worker <- Workers12
  Members = {1, 2}
  Job = {h1, l1, l2}
  Spawns <- SpawnsOne
  Unlucky = {1, 2}
  Menu <- ControlAndPush
SPECIFICATION TPFairSpec
INVARIANTS
  QueuesHoldTheQueued
PROPERTIES
  CallsReturnOrBlock
  GracefulStopDrains
  ImplementsWorkers
  ImplementsDispenser
CHECK_DEADLOCK FALSE
