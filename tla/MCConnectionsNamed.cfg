CONSTANTS
  Names = {main, other}
  Callbacks = {c1}
  Recursive = {}
  NoCallback = none
  MaxExecs = 2
  MaxWrites = 0
  MaxDepth = 3
SPECIFICATION Spec
INVARIANTS FlagsMatchStack NoLeakedSession
PROPERTY ImplementsUnitOfWork
SYMMETRY Symmetry
CHECK_DEADLOCK FALSE
