\* Snapshot iterators, raw partial writes and malformed keys: the iterator refines MViewScan, and a clean end means a whole snapshot (no symmetry: a temporal property).
CONSTANTS
  NPk = 2
  NCols = 2
  v1 = v1
  v2 = v2
  r1 = r1
  Vals <- MCVals
  Readers <- MCReaders
  MaxEpoch = 2
  SnapshotIter = TRUE
  Corruption = TRUE
  StrayCells = FALSE
  NONE = NONE
  DELETE = DELETE
  SHORT = SHORT
SPECIFICATION Spec
INVARIANT TypeOK
INVARIANT CleanEndMeansComplete
PROPERTY ScanRefinement
