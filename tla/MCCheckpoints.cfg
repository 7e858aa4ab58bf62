CONSTANTS
  Callers = {stop}
  AutoSaver = timer
  Readers = {resume}
  Cleaners = {cleaner}
  Files = {f1}
  MaxCheckpoints = 1
  MaxSaves = 2
  MaxWork = 2
  MaxCrashes = 1
SPECIFICATION FairSpec
CHECK_DEADLOCK FALSE
INVARIANTS
  RowsHaveDirectories
  

  
