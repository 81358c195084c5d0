\* Two tables with distinct keyspace prefixes, t1's a proper prefix of
\* t2's; the scan of t1 reads the store while both writers flush.
CONSTANTS
  t1 = t1
  t2 = t2
  v1 = v1
  v2 = v2
  Tables <- MCTables
  Scanned <- MCScanned
  Prefix <- MCPrefixNested
  Vals <- MCVals
  PKs <- MCPks
  Orderings <- MCOrderings
  NCols = 2
  MaxEpoch = 1
  NONE = NONE
  DELETE = DELETE
SPECIFICATION Spec
INVARIANT ScanReadsOwnRows
