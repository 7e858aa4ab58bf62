CONSTANTS
  Users = {u1, u2}
  Manners = {"patient", "hasty"}
  Questions = {q1}
  Goroutines = {g1, g2}
  MaxPlans = 2
  Faults = {"restart", "statement"}
SPECIFICATION Spec
SYMMETRY Alike
CHECK_DEADLOCK FALSE
INVARIANTS
  LifecycleInv
  WorksOnApprovedPlan
  PausedIsQuiet
  NobodyForgotten
PROPERTY FollowsTransitions
