CONSTANTS
  Names = {main}
  Callbacks = {c1, c2}
  Recursive = {c2}
  NoCallback = none
  MaxExecs = 2
  MaxWrites = 1
  MaxDepth = 3
SPECIFICATION FairSpec
INVARIANTS TypeOK DoomedNeverDurable NoOrphanCallback IInv
PROPERTY EveryOperationEnds
CHECK_DEADLOCK FALSE
