\* Snapshot iterators; single cells, stray ones past the last column included,
\* may also be written outside the writer.
CONSTANTS
  NPk = 2
  NCols = 2
  v1 = v1
  v2 = v2
  r1 = r1
  Vals <- MCVals
  Readers <- MCReaders
  MaxEpoch = 2
  SnapshotIter = TRUE
  Corruption = TRUE
  StrayCells = TRUE
  NONE = NONE
  DELETE = DELETE
  SHORT = SHORT
SPECIFICATION Spec
SYMMETRY ValSymmetry
INVARIANT CleanEndMeansComplete
