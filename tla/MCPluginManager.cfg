SPECIFICATION Spec
CONSTANTS
  Worker = {"w1", "w2"}
  Boot = "w1"
  Version = {1, 2, 3}
  Installed = 1
  Broken = {3}
  MaxOps = 2
  MaxInputs = 2
  MaxChanges = 2
  MaxFaults = 1
  MaxLoads = 3
INVARIANTS StopIsFinal ClosedOnce   
CHECK_DEADLOCK FALSE
