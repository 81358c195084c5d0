---------------------------- MODULE MViewScan ----------------------------
(***************************************************************************)
(* What a scan of the materialized-view table promises (spec 4.3, 4.4):   *)
(* iterate() fixes the rows of the table as they are when it is called;    *)
(* each call of next() then returns the row with the next greater pk, or   *)
(* end-of-sequence when none is left, while the writer keeps replacing     *)
(* rows of the table.  A row is one atomic value here: there are no cells. *)
(* A table is also clean or corrupt: corrupt when the keyspace under it    *)
(* holds a partial row or a malformed key (spec 7).  A scan of a corrupt   *)
(* table may report errors and skip or stop short of rows, and the caller  *)
(* may keep calling; still it never returns a row the table does not hold  *)
(* or a row out of pk order.  A scan of a clean table never errors.        *)
(***************************************************************************)
EXTENDS Integers, Sequences

CONSTANTS NPk, NCols, Vals, NONE, Readers

PKs  == 1..NPk
Cols == 0..(NCols - 1)
Row  == [Cols -> Vals]

VARIABLES
  live,     \* pk -> Row \cup {NONE}: the committed table
  corrupt,  \* the committed table is corrupt
  rows,     \* per reader: the table its scan was opened on
  bad,      \* per reader: that table was corrupt
  call,     \* per reader: "closed", "idle", or "pull" (a next() call in progress)
  pos,      \* per reader: the pk of the last row returned, 0 before the first
  yielded,  \* per reader: the rows returned, as [pk, row]
  done      \* per reader: next() has returned end-of-sequence

vars == <<live, corrupt, rows, bad, call, pos, yielded, done>>

\* The pks after pos[r] that r's scan still has to return.
Ahead(r) == {p \in PKs : p > pos[r] /\ rows[r][p] # NONE}

\* The pks r may return next: the least one ahead, or on a corrupt table any.
Eligible(r) == {p \in Ahead(r) : bad[r] \/ \A o \in Ahead(r) : p <= o}

\* The keyspace changes: any set of rows at once, and it may turn corrupt.
Commit ==
  /\ live' \in [PKs -> Row \cup {NONE}]
  /\ corrupt' \in BOOLEAN
  /\ UNCHANGED <<rows, bad, call, pos, yielded, done>>

Open(r) ==
  /\ call[r] # "pull"
  /\ rows' = [rows EXCEPT ![r] = live]
  /\ bad' = [bad EXCEPT ![r] = corrupt]
  /\ call' = [call EXCEPT ![r] = "idle"]
  /\ pos' = [pos EXCEPT ![r] = 0]
  /\ yielded' = [yielded EXCEPT ![r] = <<>>]
  /\ done' = [done EXCEPT ![r] = FALSE]
  /\ UNCHANGED <<live, corrupt>>

Call(r) ==
  /\ call[r] = "idle"
  /\ call' = [call EXCEPT ![r] = "pull"]
  /\ UNCHANGED <<live, corrupt, rows, bad, pos, yielded, done>>

Yield(r) ==
  /\ call[r] = "pull"
  /\ \E p \in Eligible(r) :
       /\ pos' = [pos EXCEPT ![r] = p]
       /\ yielded' = [yielded EXCEPT ![r] = Append(@, [pk |-> p, row |-> rows[r][p]])]
  /\ call' = [call EXCEPT ![r] = "idle"]
  /\ UNCHANGED <<live, corrupt, rows, bad, done>>

\* End-of-sequence: nothing is left, or the table is corrupt.
End(r) ==
  /\ call[r] = "pull"
  /\ Ahead(r) = {} \/ bad[r]
  /\ call' = [call EXCEPT ![r] = "idle"]
  /\ done' = [done EXCEPT ![r] = TRUE]
  /\ UNCHANGED <<live, corrupt, rows, bad, pos, yielded>>

\* An error, only on a corrupt table; the caller keeps the iterator.
Fail(r) ==
  /\ call[r] = "pull"
  /\ bad[r]
  /\ call' = [call EXCEPT ![r] = "idle"]
  /\ UNCHANGED <<live, corrupt, rows, bad, pos, yielded, done>>

Init ==
  /\ live = [p \in PKs |-> NONE]
  /\ corrupt = FALSE
  /\ bad = [r \in Readers |-> FALSE]
  /\ rows = [r \in Readers |-> [p \in PKs |-> NONE]]
  /\ call = [r \in Readers |-> "closed"]
  /\ pos = [r \in Readers |-> 0]
  /\ yielded = [r \in Readers |-> <<>>]
  /\ done = [r \in Readers |-> FALSE]

Next ==
  \/ Commit
  \/ \E r \in Readers : Open(r) \/ Call(r) \/ Yield(r) \/ End(r) \/ Fail(r)

Spec == Init /\ [][Next]_vars
=============================================================================
