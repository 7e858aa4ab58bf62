SPECIFICATION FairSpec
CONSTANTS
  s1 = s1
  s2 = s2
  s3 = s3
  f1 = f1
  f2 = f2
  Nobody = Nobody
  Subtasks = {s1, s2, s3}
  Files = {f1, f2}
  Plans <- Typical
  Failing = {s1}
  MaxRuns = 2
  MaxAgents = 2
  MaxPerTask = 2
  MaxOthers = 1
  SpawnFaults = FALSE
INVARIANTS
  DependenciesFirst
  FileExclusion
  SkipsExact
  
PROPERTIES
  
  RunReturns
CHECK_DEADLOCK FALSE
