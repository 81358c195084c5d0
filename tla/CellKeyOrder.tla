--------------------------- MODULE CellKeyOrder ---------------------------
(***************************************************************************)
(* The order the store gives two cell keys of one table,                   *)
(*    serialize_pk(pk) ++ serialize_cell_idx(idx)                          *)
(* (table.rs, MViewTable::get, lines 74-82, and the keys ManagedMViewState *)
(* writes), against the order spec 3 and 4.4 require of them: pk by pk in  *)
(* the declared order, and within one pk column by column.  The state is   *)
(* the inputs of the two calls; it never changes.                          *)
(***************************************************************************)
EXTENDS PkEncoding

CONSTANTS
  Ints,        \* i32 values a pk column may take
  CellIdxs,    \* cell indices (u32)
  PkLen        \* number of pk columns

VARIABLES
  orderings,   \* the order type of each pk column
  pkA, idxA,   \* the first key's pk and cell index
  pkB, idxB    \* the second key's

vars == <<orderings, pkA, idxA, pkB, idxB>>

Pks == [1..PkLen -> Ints]

CellKeyBytes(pk, idx) == SerializePk(pk, orderings) \o SerializeCellIdx(idx)

Init ==
  /\ orderings \in [1..PkLen -> {Asc, Desc}]
  /\ pkA \in Pks /\ pkB \in Pks
  /\ idxA \in CellIdxs /\ idxB \in CellIdxs

Next == UNCHANGED vars

Spec == Init /\ [][Next]_vars

(* Byte order of two cell keys is the declared pk order, and for one pk   *)
(* the column order: so a scan meets the cells of a pk together, column 0 *)
(* first, and the pks in the order the orderings declare, which is what   *)
(* MViewTableIter::next relies on without ever decoding a pk.             *)
KeysInDeclaredOrder ==
  Before(CellKeyBytes(pkA, idxA), CellKeyBytes(pkB, idxB))
    <=> \/ DeclaredBefore(pkA, pkB, orderings)
        \/ pkA = pkB /\ idxA < idxB
=============================================================================
