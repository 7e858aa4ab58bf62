CONSTANTS
  p1 = p1
  c1 = c1
  c2 = c2
  c3 = c3
  Posters = {p1}
  Browsers = {c1, c2, c3}
  MaxMessages = 2
  Fragile = {c1}
  MaxFaults = 1
  ChannelCap = 1
  BackfillLimit = 2
SPECIFICATION FairBusSpec
CHECK_DEADLOCK FALSE

  
PROPERTY
  BrokenStreamsLeave
