CONSTANTS
  Agents = {a1}
  Clients = {c1, c2}
  Wants <- WantsAll
  MaxChunks = 2
  MaxBreaks = 1
  CommandCap = 1
  OutputCap = 1
  SendCap = 1
SPECIFICATION FairSpec
CHECK_DEADLOCK FALSE
INVARIANTS
  NothingIsMissed
  FramesInOrder
PROPERTY
  BrokenClientsLeave
