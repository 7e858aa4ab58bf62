SPECIFICATION Spec
CONSTANTS
  t1 = t1
  t2 = t2
  Tasks = {t1, t2}
  Configs <- BranchOrNot
  MaxRuns <- RunsDef
  MaxFaults = 1
CHECK_DEADLOCK FALSE
INVARIANTS
  MemoryIsOptIn
