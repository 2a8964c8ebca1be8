CONSTANTS
  Threads = {t1, t2}
  Keys = {k1, k2}
  Columns = {a, b}
  Starts = {{}, {k1, k2}}
  Absent = absent
  Nobody = nobody
  MaxWrites = 2
  MaxDepth = 2
  MaxFailures = 1
SPECIFICATION Spec
INVARIANTS TypeOK LockedSnapshotHolds
PROPERTIES CommitsItsOwnWork ImplementsUnitOfWork
SYMMETRY Symmetry
CHECK_DEADLOCK FALSE
