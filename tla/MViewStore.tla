---------------------------- MODULE MViewStore ----------------------------
(***************************************************************************)
(* The keyspace of one materialized view and its single writer.           *)
(*                                                                         *)
(*  - kv : the table's keyspace.  A row with primary key p is stored as    *)
(*         one cell per column c under the key <<p, c>>, standing for      *)
(*         prefix ++ serialize_pk(p) ++ serialize_cell_idx(c) in           *)
(*         src/rust/stream/src/executor/mview/table.rs.  The pk encoder    *)
(*         is order preserving (spec 4.1), so pk p sorts before pk p+1;    *)
(*         the 4-byte big-endian suffix sorts the cells of a pk by column. *)
(*  - buffer, epoch : ManagedMViewState.  Its code is not under src/:      *)
(*         put, delete and flush follow the spec (4.5).                    *)
(* Modules that add readers extend this one and leave their own variables  *)
(* unchanged in StoreNext steps.                                           *)
(***************************************************************************)
EXTENDS Integers, Sequences, FiniteSets

CONSTANTS
  NPk,             \* number of primary keys; pk p is the p-th in key order
  NCols,           \* schema.len()
  Vals,            \* datums a cell may hold
  MaxEpoch,        \* bound on the number of writes to the keyspace
  Corruption,      \* TRUE: single cells may be written outside ManagedMViewState
  StrayCells,      \* TRUE: such a cell may carry the suffix schema.len()
  NONE,            \* an absent key / an empty buffer slot / no result
  DELETE,          \* a buffered delete
  SHORT            \* a key with fewer than 4 bytes after the keyspace prefix

ASSUME NPk \in Nat \ {0} /\ NCols \in Nat \ {0} /\ MaxEpoch \in Nat
ASSUME Corruption \in BOOLEAN /\ StrayCells \in BOOLEAN

PKs      == 1..NPk
Cols     == 0..(NCols - 1)
Row      == [Cols -> Vals]
CellKeys == PKs \X Cols
\* A cell under serialize_cell_idx(schema.len()), past the last column: no
\* writer of this schema makes one, but nothing in next() rejects it.
StrayKeys == IF StrayCells THEN PKs \X {NCols} ELSE {}
Keys     == CellKeys \cup StrayKeys \cup {SHORT}

VARIABLES
  kv,        \* the keyspace: Keys -> Vals \cup {NONE}
  buffer,    \* ManagedMViewState: pk -> Row \cup {DELETE, NONE}
  epoch      \* number of writes applied so far

storeVars == <<kv, buffer, epoch>>

(***************************************************************************)
(* Key order.  The keyspace iterator yields keys in byte order: SHORT      *)
(* (prefix ++ a byte below every pk encoding) first, then pk by pk, each   *)
(* pk's cells by their big-endian suffix, a stray cell after the last.     *)
(***************************************************************************)
Rank(k) == IF k = SHORT THEN 0 ELSE (k[1] - 1) * (NCols + 1) + k[2] + 1

\* The first key present in view whose rank is above cur, or NONE.
NextKey(view, cur) ==
  LET later == {k \in Keys : view[k] # NONE /\ Rank(k) > cur}
  IN  IF later = {} THEN NONE
      ELSE CHOOSE k \in later : \A j \in later : Rank(k) <= Rank(j)

RowOf(view, p)    == [c \in Cols |-> view[<<p, c>>]]
Complete(view, p) == \A c \in Cols : view[<<p, c>>] # NONE
Missing(view, p)  == \A c \in Cols : view[<<p, c>>] = NONE

\* Every pk is either complete or missing, and no malformed or stray key exists.
WellFormed(view) ==
  /\ view[SHORT] = NONE
  /\ \A k \in StrayKeys : view[k] = NONE
  /\ \A p \in PKs : Complete(view, p) \/ Missing(view, p)

\* The rows a view holds: a pk with every cell present has its row.
TableOf(view) == [p \in PKs |-> IF Complete(view, p) THEN RowOf(view, p) ELSE NONE]

EmptyKv     == [k \in Keys |-> NONE]
EmptyBuffer == [p \in PKs |-> NONE]

(***************************************************************************)
(* ManagedMViewState: a last-write-wins buffer and an atomic flush.        *)
(***************************************************************************)
put(pk, row) ==
  /\ buffer' = [buffer EXCEPT ![pk] = row]
  /\ UNCHANGED <<kv, epoch>>

delete(pk) ==
  /\ buffer' = [buffer EXCEPT ![pk] = DELETE]
  /\ UNCHANGED <<kv, epoch>>

\* Mutant: a buffered delete is written as a value instead of removing the cells.
ApplyBatch_tombstone(store) ==
  [k \in Keys |->
     IF k \notin CellKeys \/ buffer[k[1]] = NONE THEN store[k]
     ELSE IF buffer[k[1]] = DELETE THEN DELETE
     ELSE buffer[k[1]][k[2]]]

\* Mutant: a buffered put writes every column but the last (an off-by-one).
ApplyBatch_dropLastCol(store) ==
  [k \in Keys |->
     IF k \notin CellKeys \/ buffer[k[1]] = NONE THEN store[k]
     ELSE IF buffer[k[1]] = DELETE THEN NONE
     ELSE IF k[2] = NCols - 1 THEN store[k]
     ELSE buffer[k[1]][k[2]]]

\* The keyspace after one batch of the buffered mutations: NCols cell
\* writes for a Put, NCols cell deletes for a Delete, under the cell keys
\* of the schema only.
ApplyBatch(store) ==
  [k \in Keys |->
     IF k \notin CellKeys \/ buffer[k[1]] = NONE THEN store[k]
     ELSE IF buffer[k[1]] = DELETE THEN NONE
     ELSE buffer[k[1]][k[2]]]

flush ==
  /\ epoch < MaxEpoch
  /\ kv' = ApplyBatch(kv)
  /\ buffer' = EmptyBuffer
  /\ epoch' = epoch + 1

\* A batch commit that reports failure: the store applied all of it or
\* none of it, and the buffer is kept for a retry.
flushFailed ==
  /\ epoch < MaxEpoch
  /\ kv' \in {kv, ApplyBatch(kv)}
  /\ epoch' = epoch + 1
  /\ UNCHANGED buffer

\* A single cell written or deleted under the keyspace outside the writer,
\* as the corruption scenario of the spec (section 8, item 8) does.
rawWrite(k, v) ==
  /\ Corruption
  /\ epoch < MaxEpoch
  /\ kv' = [kv EXCEPT ![k] = v]
  /\ epoch' = epoch + 1
  /\ UNCHANGED buffer

StoreInit ==
  /\ kv = EmptyKv
  /\ buffer = EmptyBuffer
  /\ epoch = 0

StoreNext ==
  \/ \E p \in PKs, row \in Row : put(p, row)
  \/ \E p \in PKs : delete(p)
  \/ flush
  \/ flushFailed
  \/ \E k \in Keys, v \in Vals \cup {NONE} : rawWrite(k, v)

StoreTypeOK ==
  /\ kv \in [Keys -> Vals \cup {NONE}]
  /\ buffer \in [PKs -> Row \cup {DELETE, NONE}]
  /\ epoch \in 0..MaxEpoch
=============================================================================
