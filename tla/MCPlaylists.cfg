SPECIFICATION Spec
CONSTANTS
  Track = {t1, t2}
  Worker = {w1, w2}
  MaxPos = 3
  MaxAdd = 2
  Chunk = 1
  MaxOps = 3
  MaxFaults = 1
  MaxLosses = 1
INVARIANTS   SmartAtRest 
CHECK_DEADLOCK FALSE
SYMMETRY Symmetry
