CONSTANTS
  high = high
  low = low
  h1 = h1
  h2 = h2
  l1 = l1
  l2 = l2
  main = main
  other = other
  NoJob = NoJob
  Nobody = Nobody
  Client <- MCClient
  Thread <- MCThread
  Priority <- MCPriority
  priority <- MCpriority
  PriorityList <- MCPriorityList
  InitialPriorities <- Overlapping
  Worker <- Workers12
  Members = {1}
  Job = {h1}
  Spawns <- NoSpawns
  Unlucky = {2}
  Menu <- LiveCalls
SPECIFICATION TPFairSpec
PROPERTIES
  CallsReturn
  QueuedJobLeaves
