SPECIFICATION SpecOneOf
CONSTANTS
  size = 5
  Chunks = {0, 1, 2, 3, 4, 5, 6, 7}
  MaxWritten = 40
  Nodes = {n1, n2, n3}
SYMMETRY NodesAreAlike
INVARIANTS
  RingInv
  ReadAllReturnsAll
  SkipMatches
  CyclesMatch
CHECK_DEADLOCK FALSE
