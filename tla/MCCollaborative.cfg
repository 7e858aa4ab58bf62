CONSTANTS
  s1 = s1
  s2 = s2
  ghost = ghost
  Manager = manager
  Everybody = everybody
  Subtasks = {s1, s2}
  Plan <- PlanDef
  Requests <- RequestsDef
  MaxSpawns = 3
  MaxTalk = 2
  MaxAgents = 3
  MaxOthers = 3
  BusCap = 1
  MaxFaults = 1
SPECIFICATION FairSpec
CHECK_DEADLOCK FALSE
INVARIANTS
  FullWaitsForSomebody
  
  ApprovedOrOrphaned
PROPERTIES
  
  CancelledRunsReturn
