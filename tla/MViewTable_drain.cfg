\* Snapshot iterators, flushes, raw partial writes and malformed keys, one datum:
\* a reader that keeps calling next() gets Ok(None) for good.
CONSTANTS
  NPk = 2
  NCols = 2
  v1 = v1
  v2 = v2
  r1 = r1
  Vals <- MCOneVal
  Readers <- MCReaders
  MaxEpoch = 3
  SnapshotIter = TRUE
  Corruption = TRUE
  StrayCells = FALSE
  NONE = NONE
  DELETE = DELETE
  SHORT = SHORT
SPECIFICATION FairSpec
PROPERTY ScanEnds
