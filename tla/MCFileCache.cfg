SPECIFICATION LiveSpec
CONSTANTS
  Key = {k1, k2}
  Client = {c1}
  Warmer = {g1}
  Full = 2
  MaxItems = 0
  MaxSize = 2
  MaxEntries = 4
  MaxWarm = 1
  MaxFaults = 1
  MaxCrashes = 1
INVARIANTS ShortOnlyAfterFailure IncompleteIsDropped OneWriterPerFile
PROPERTIES ReadersEnd 
CHECK_DEADLOCK FALSE
