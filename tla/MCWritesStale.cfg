CONSTANTS
  Threads = {t1}
  Keys = {k1}
  Columns = {a, b}
  Starts = {{}, {k1}}
  Absent = absent
  Nobody = nobody
  MaxWrites = 2
  MaxDepth = 1
  MaxFailures = 1
SPECIFICATION Spec
INVARIANT RolledBackStaysOut
SYMMETRY Symmetry
CHECK_DEADLOCK FALSE
