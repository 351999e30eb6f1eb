SPECIFICATION WatchersSpec
CONSTANTS
  Library = {1, 2}
  Default = 1
  Path = {p1, p2, p3}
  p1 = p1
  p2 = p2
  p3 = p3
  NoPath = NoPath
  Session = {s1, s2}
  s1 = s1
  s2 = s2
  MaxInstances = 4
  MaxCalls = 3
SYMMETRY Symmetry
INVARIANTS NoLeakedWatcher ListedIsLive 
CHECK_DEADLOCK FALSE
