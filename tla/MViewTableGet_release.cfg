\* Point reads in a release build, where debug_assert! is compiled out.
CONSTANTS
  NPk = 2
  NCols = 2
  v1 = v1
  v2 = v2
  Vals <- MCVals
  MaxEpoch = 3
  Corruption = FALSE
  StrayCells = FALSE
  DebugAssertions = FALSE
  NONE = NONE
  DELETE = DELETE
  SHORT = SHORT
  PANIC = PANIC
SPECIFICATION Spec
INVARIANT GetRejectsInvalidIndex
