\* Two tables with prefix-free keyspace prefixes, each writer flushing once, one draining scan of t1.
CONSTANTS
  t1 = t1
  t2 = t2
  v1 = v1
  v2 = v2
  Tables <- MCTables
  Scanned <- MCScanned
  Prefix <- MCPrefixFree
  Vals <- MCVals
  PKs <- MCPks
  Orderings <- MCOrderings
  NCols = 2
  MaxEpoch = 1
  NONE = NONE
  DELETE = DELETE
SPECIFICATION Spec
INVARIANT TypeOK
INVARIANT ScanReadsOwnRows
INVARIANT ScanYieldsOwnTable
