\* Every pair of cell keys with two-column pks, under every pair of order types.
CONSTANTS
  Ints <- MCInts
  CellIdxs <- MCCellIdxs
  PkLen = 2
SPECIFICATION Spec
INVARIANT KeysInDeclaredOrder
