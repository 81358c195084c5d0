--------------------------- MODULE MViewRowTable ---------------------------
(***************************************************************************)
(* What the materialized-view table promises its callers (spec 3, 4.3,     *)
(* 4.5): a table of whole rows keyed by pk.  Mutations are buffered with   *)
(* last-write-wins and become visible all at once when a flush commits;    *)
(* a commit that reports failure applied all of them or none.  get(pk, i)  *)
(* returns column i of pk's row, None when the row is absent, and rejects  *)
(* an index outside the schema.                                            *)
(***************************************************************************)
EXTENDS Integers

CONSTANTS NPk, NCols, Vals, NONE, DELETE

PKs  == 1..NPk
Cols == 0..(NCols - 1)
Row  == [Cols -> Vals]

VARIABLES
  table,     \* pk -> Row \cup {NONE}
  pending,   \* pk -> Row \cup {DELETE, NONE}: the buffered mutation
  getRet     \* <<index, result>> of the last get, or NONE

vars == <<table, pending, getRet>>

Applied == [p \in PKs |-> CASE pending[p] = NONE   -> table[p]
                            [] pending[p] = DELETE -> NONE
                            [] OTHER               -> pending[p]]

Put(p, row) == pending' = [pending EXCEPT ![p] = row] /\ UNCHANGED <<table, getRet>>
Delete(p)   == pending' = [pending EXCEPT ![p] = DELETE] /\ UNCHANGED <<table, getRet>>

Commit ==
  /\ table' = Applied
  /\ pending' = [p \in PKs |-> NONE]
  /\ UNCHANGED getRet

CommitFailed ==
  /\ table' \in {table, Applied}
  /\ UNCHANGED <<pending, getRet>>

Get(p, i) ==
  /\ getRet' = <<i, CASE i \notin Cols     -> "rejected"
                      [] table[p] = NONE   -> NONE
                      [] OTHER             -> table[p][i]>>
  /\ UNCHANGED <<table, pending>>

Init ==
  /\ table = [p \in PKs |-> NONE]
  /\ pending = [p \in PKs |-> NONE]
  /\ getRet = NONE

Next ==
  \/ \E p \in PKs : \/ \E row \in Row : Put(p, row)
                    \/ Delete(p)
                    \/ \E i \in 0..NCols : Get(p, i)
  \/ Commit
  \/ CommitFailed

Spec == Init /\ [][Next]_vars
=============================================================================
