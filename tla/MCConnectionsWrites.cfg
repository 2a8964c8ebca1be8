CONSTANTS
  Names = {main}
  Callbacks = {}
  Recursive = {}
  NoCallback = none
  MaxExecs = 3
  MaxWrites = 2
  MaxDepth = 3
SPECIFICATION Spec
INVARIANTS BrokenWriteNeverDurable OutcomeIsHonest
CHECK_DEADLOCK FALSE
