--------------------------- MODULE MViewTableGet ---------------------------
(***************************************************************************)
(* MViewTable::get of src/rust/stream/src/executor/mview/table.rs: a      *)
(* point read of one cell, against the keyspace ManagedMViewState writes   *)
(* (MViewStore).  The cell store with its point reads is shown to          *)
(* implement the row table of MViewRowTable.                               *)
(***************************************************************************)
EXTENDS MViewStore

CONSTANTS
  DebugAssertions,  \* TRUE: a debug build, where debug_assert! panics
  PANIC             \* the result of a get() that panicked

ASSUME DebugAssertions \in BOOLEAN

VARIABLE getRet   \* <<cell_idx, result>> of the last get(), or NONE

vars == <<storeVars, getRet>>

\* Mutant: the looked-up key is returned in place of the datum it holds.
get_returnKey(pk, idx) ==
  /\ getRet' = <<idx, CASE idx \in Cols   -> <<pk, idx>>
                        [] DebugAssertions -> PANIC
                        [] OTHER           -> NONE>>
  /\ UNCHANGED storeVars

(***************************************************************************)
(* get(pk, cell_idx): cell_idx < schema.len() is only a debug_assert!.     *)
(* Otherwise the cell key serialize_pk(pk) ++ serialize_cell_idx(cell_idx) *)
(* is read; an absent key is Ok(None), a present one its datum.  A release *)
(* build reads the key for an out-of-range index too: absent, it is        *)
(* Ok(None); present (a stray cell), schema.fields[cell_idx] panics.       *)
(***************************************************************************)
Present(k) == k \in Keys /\ kv[k] # NONE

get(pk, idx) ==
  /\ getRet' = <<idx, CASE idx \in Cols   -> kv[<<pk, idx>>]
                        [] DebugAssertions -> PANIC
                        [] Present(<<pk, idx>>) -> PANIC
                        [] OTHER           -> NONE>>
  /\ UNCHANGED storeVars

Init == StoreInit /\ getRet = NONE

Next ==
  \/ StoreNext /\ UNCHANGED getRet
  \/ \E p \in PKs, i \in 0..NCols : get(p, i)

Spec == Init /\ [][Next]_vars

TypeOK ==
  /\ StoreTypeOK
  /\ getRet \in {NONE} \cup ((0..NCols) \X (Vals \cup {NONE, PANIC}))

(***************************************************************************)
(* Refinement mapping: a pk's row is present exactly when all its cells    *)
(* are; a panic on a bad index is the abstract rejection.                  *)
(***************************************************************************)
RowTable == INSTANCE MViewRowTable
              WITH table <- TableOf(kv),
                   pending <- buffer,
                   getRet <- IF getRet # NONE /\ getRet[2] = PANIC
                               THEN <<getRet[1], "rejected">> ELSE getRet

(* The cells ManagedMViewState writes and get() reads behave as a table   *)
(* of whole rows: every flush makes each buffered put or delete visible   *)
(* in full, and every get returns the column of the row its pk has.       *)
RowTableSpec == RowTable!Spec

(* get() with cell_idx >= schema.len() never succeeds: the spec (section  *)
(* 7) has it rejected as an invalid argument before any I/O.              *)
GetRejectsInvalidIndex ==
  (getRet # NONE /\ getRet[1] \notin Cols) => getRet[2] = PANIC
=============================================================================
