CONSTANTS
  a = a
  b = b
  Subtasks = {a, b}
  DependsOn <- DependsOnDef
  Orders <- OrdersDef
  Faults = {"store", "agent", "create", "start", "wait", "remove", "save"}
  MaxRuns = 2
  MaxFaults = 1
SPECIFICATION FairSpec
CHECK_DEADLOCK FALSE
INVARIANTS
  CompletedIsInWorkspace
  OneAgentAtWork
  ContainersAreOwned
PROPERTY
  CancelledRunsEnd
