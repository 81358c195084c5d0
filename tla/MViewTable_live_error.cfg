\* keyspace.iter() reading the live keyspace: a flush lands between two cells of a row.
CONSTANTS
  NPk = 2
  NCols = 2
  v1 = v1
  v2 = v2
  r1 = r1
  Vals <- MCVals
  Readers <- MCReaders
  MaxEpoch = 2
  SnapshotIter = FALSE
  Corruption = FALSE
  StrayCells = FALSE
  NONE = NONE
  DELETE = DELETE
  SHORT = SHORT
SPECIFICATION Spec
SYMMETRY ValSymmetry
INVARIANT NoSpuriousCorruption
