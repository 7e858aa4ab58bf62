SPECIFICATION FairSpec
CONSTANTS
  t1 = t1
  t2 = t2
  c1 = c1
  c2 = c2
  a1 = a1
  a2 = a2
  a3 = a3
  Tasks = {t1, t2}
  Callers = {c1}
  Agents = {a1, a2}
  TaskOf <- TwoTasks
  CallerOf <- Split
  Stoppable = {t1}
  MaxAgents = 1
  MaxPerTask = 2
  Faults <- SomeFaults
INVARIANTS
  
  
  OrphansExplained
PROPERTIES
  ImplementsHandles
  SlotsReturn
  WaitersAnswered
CHECK_DEADLOCK FALSE
