CONSTANTS
  Threads = {t1}
  Keys = {k1}
  Columns = {a, b}
  Starts = {{}, {k1}}
  Absent = absent
  Nobody = nobody
  MaxWrites = 3
  MaxDepth = 3
  MaxFailures = 1
SPECIFICATION Spec
INVARIANTS BrokenWriteLeavesNothing TriggersMirrorWrites
SYMMETRY Symmetry
CHECK_DEADLOCK FALSE
