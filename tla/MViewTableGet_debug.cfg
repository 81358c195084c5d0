\* Point reads in a debug build: the cell store implements the row table.
CONSTANTS
  NPk = 2
  NCols = 2
  v1 = v1
  v2 = v2
  Vals <- MCVals
  MaxEpoch = 3
  Corruption = FALSE
  StrayCells = FALSE
  DebugAssertions = TRUE
  NONE = NONE
  DELETE = DELETE
  SHORT = SHORT
  PANIC = PANIC
SPECIFICATION Spec
INVARIANT TypeOK
PROPERTY RowTableSpec
