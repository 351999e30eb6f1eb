SPECIFICATION LiveSpec
CONSTANTS
  Folder = {"f1", "f2"}
  Known0 = {"f1"}
  Selective = FALSE
  MayStop = TRUE
  MaxRequests = 1
  MaxChanges = 1
  MaxFaults = 1
INVARIANTS OneScan 
 
CHECK_DEADLOCK FALSE
