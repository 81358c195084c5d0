---------------------------- MODULE MViewTable ----------------------------
(***************************************************************************)
(* MViewTable::iter and MViewTableIter::next of                            *)
(* src/rust/stream/src/executor/mview/table.rs, run by reader tasks while  *)
(* ManagedMViewState writes the keyspace (MViewStore).                     *)
(*                                                                         *)
(* next() is an async loop that awaits inner.next() once per cell.  Each   *)
(* Pull* action is one turn of that loop, so the writer's flushes          *)
(* interleave with a row being read.  Whether inner reads a snapshot       *)
(* taken by keyspace.iter() or the live keyspace is the store's business   *)
(* (spec 5), and is the constant SnapshotIter.                             *)
(***************************************************************************)
EXTENDS MViewStore

CONSTANTS
  Readers,         \* caller tasks of iter / next
  SnapshotIter     \* TRUE: keyspace.iter() reads the keyspace as it was when opened

ASSUME SnapshotIter \in BOOLEAN

VARIABLES
  phase,     \* per reader: "closed" (no iterator), "idle", "pull" (inside next())
  snap,      \* per reader: the snapshot the open iterator reads
  cursor,    \* per reader: Rank of the last key inner.next() returned
  pkBuf,     \* per reader: pk_buf of the current next() call
  restored,  \* per reader: restored of the current next() call
  rowBytes,  \* per reader: row_bytes of the current next() call, one datum per cell
  startRow,  \* ghost, per reader: the row of pk_buf in the keyspace when its first cell was read
  out,       \* ghost, per reader: rows the open iterator yielded, as [pk, row, start]
  scanErr,   \* ghost, per reader: the open iterator has returned an error
  ended      \* ghost, per reader: the open iterator has returned Ok(None)

scanVars == <<phase, snap, cursor, pkBuf, restored, rowBytes, startRow, out, scanErr, ended>>
vars     == <<storeVars, scanVars>>

\* The keyspace as reader r's open iterator reads it.
View(r) == IF SnapshotIter THEN snap[r] ELSE kv

(***************************************************************************)
(* MViewTable::iter: a fresh iterator from the start of the keyspace.     *)
(***************************************************************************)
\* Mutant: a reopened iterator reads the snapshot of the one before it.
iter_oldSnap(r) ==
  /\ phase[r] # "pull"
  /\ phase' = [phase EXCEPT ![r] = "idle"]
  /\ cursor' = [cursor EXCEPT ![r] = -1]
  /\ out' = [out EXCEPT ![r] = <<>>]
  /\ scanErr' = [scanErr EXCEPT ![r] = FALSE]
  /\ ended' = [ended EXCEPT ![r] = FALSE]
  /\ UNCHANGED <<storeVars, snap, pkBuf, restored, rowBytes, startRow>>

iter(r) ==
  /\ phase[r] # "pull"
  /\ phase' = [phase EXCEPT ![r] = "idle"]
  /\ snap' = [snap EXCEPT ![r] = IF SnapshotIter THEN kv ELSE EmptyKv]
  /\ cursor' = [cursor EXCEPT ![r] = -1]
  /\ out' = [out EXCEPT ![r] = <<>>]
  /\ scanErr' = [scanErr EXCEPT ![r] = FALSE]
  /\ ended' = [ended EXCEPT ![r] = FALSE]
  /\ UNCHANGED <<storeVars, pkBuf, restored, rowBytes, startRow>>

(***************************************************************************)
(* MViewTableIter::next: a call starts with fresh locals pk_buf, restored  *)
(* and row_bytes, then loops.                                              *)
(***************************************************************************)
next(r) ==
  /\ phase[r] = "idle"
  /\ phase' = [phase EXCEPT ![r] = "pull"]
  /\ pkBuf' = [pkBuf EXCEPT ![r] = NONE]
  /\ restored' = [restored EXCEPT ![r] = 0]
  /\ rowBytes' = [rowBytes EXCEPT ![r] = <<>>]
  /\ UNCHANGED <<storeVars, snap, cursor, startRow, out, scanErr, ended>>

\* The key inner.next() returns next, or NONE when it is exhausted.
Inner(r) == NextKey(View(r), cursor[r])

\* Keys that pass the key.len() check: a pk and a 4-byte suffix, whatever
\* column the suffix names.
LongKeys == Keys \ {SHORT}

\* The call returns an error; the caller still holds the iterator.
Fail(r) ==
  /\ phase' = [phase EXCEPT ![r] = "idle"]
  /\ scanErr' = [scanErr EXCEPT ![r] = TRUE]
  /\ UNCHANGED <<pkBuf, restored, rowBytes, startRow, out, ended>>

\* Mutant: None => return Ok(None), whatever restored is.
PullEnd_anyRestored(r) ==
  /\ phase[r] = "pull"
  /\ Inner(r) = NONE
  /\ phase' = [phase EXCEPT ![r] = "idle"]
  /\ ended' = [ended EXCEPT ![r] = TRUE]
  /\ UNCHANGED <<storeVars, snap, cursor, pkBuf, restored, rowBytes, startRow, out, scanErr>>

\* None if restored == 0 => return Ok(None)
PullEnd(r) ==
  /\ phase[r] = "pull"
  /\ Inner(r) = NONE
  /\ restored[r] = 0
  /\ phase' = [phase EXCEPT ![r] = "idle"]
  /\ ended' = [ended EXCEPT ![r] = TRUE]
  /\ UNCHANGED <<storeVars, snap, cursor, pkBuf, restored, rowBytes, startRow, out, scanErr>>

\* None => Err("incomplete item")
PullEndIncomplete(r) ==
  /\ phase[r] = "pull"
  /\ Inner(r) = NONE
  /\ restored[r] # 0
  /\ Fail(r)
  /\ UNCHANGED <<storeVars, snap, cursor>>

\* Mutant: the error leaves the short key in front of the cursor.
PullCorruptedKey_keepKey(r) ==
  /\ phase[r] = "pull"
  /\ Inner(r) = SHORT
  /\ Fail(r)
  /\ UNCHANGED <<storeVars, snap, cursor>>

\* key.len() < prefix.len() + 4 => Err("corrupted key"); the key is consumed.
PullCorruptedKey(r) ==
  /\ phase[r] = "pull"
  /\ Inner(r) = SHORT
  /\ cursor' = [cursor EXCEPT ![r] = Rank(SHORT)]
  /\ Fail(r)
  /\ UNCHANGED <<storeVars, snap>>

\* restored != 0 and pk_buf != cur_pk_buf => Err("incomplete item").
PullPkChanged(r) ==
  LET k == Inner(r) IN
  /\ phase[r] = "pull"
  /\ k \in LongKeys
  /\ restored[r] # 0 /\ pkBuf[r] # k[1]
  /\ cursor' = [cursor EXCEPT ![r] = Rank(k)]
  /\ Fail(r)
  /\ UNCHANGED <<storeVars, snap>>

\* Mutant: the key is appended to row_bytes instead of the value.
Restore_appendKey(r, k) ==
  /\ cursor' = [cursor EXCEPT ![r] = Rank(k)]
  /\ pkBuf' = [pkBuf EXCEPT ![r] = k[1]]
  /\ startRow' = [startRow EXCEPT ![r] =
                    IF restored[r] = 0 THEN RowOf(View(r), k[1]) ELSE @]
  /\ restored' = [restored EXCEPT ![r] = @ + 1]
  /\ rowBytes' = [rowBytes EXCEPT ![r] = Append(@, k)]

\* Adopt the pk of the first cell, append the cell's value, count it.
Restore(r, k) ==
  /\ cursor' = [cursor EXCEPT ![r] = Rank(k)]
  /\ pkBuf' = [pkBuf EXCEPT ![r] = k[1]]
  /\ startRow' = [startRow EXCEPT ![r] =
                    IF restored[r] = 0 THEN RowOf(View(r), k[1]) ELSE @]
  /\ restored' = [restored EXCEPT ![r] = @ + 1]
  /\ rowBytes' = [rowBytes EXCEPT ![r] = Append(@, View(r)[k])]

\* The cell joins the row: its pk is the row's, its suffix is not looked at.
CellFits(r, k) == k \in LongKeys /\ (restored[r] = 0 \/ pkBuf[r] = k[1])

\* A cell of the current row that does not complete it: continue the loop.
PullCell(r) ==
  LET k == Inner(r) IN
  /\ phase[r] = "pull"
  /\ CellFits(r, k)
  /\ restored[r] + 1 # NCols
  /\ Restore(r, k)
  /\ UNCHANGED <<storeVars, snap, phase, out, scanErr, ended>>

\* The schema.len()-th cell: break, deserialize row_bytes and return the row.
PullRowDone(r) ==
  LET k == Inner(r) IN
  /\ phase[r] = "pull"
  /\ CellFits(r, k)
  /\ restored[r] + 1 = NCols
  /\ Restore(r, k)
  /\ phase' = [phase EXCEPT ![r] = "idle"]
  /\ out' = [out EXCEPT ![r] =
               Append(@, [pk |-> k[1], row |-> rowBytes'[r], start |-> startRow'[r]])]
  /\ UNCHANGED <<storeVars, snap, scanErr, ended>>

Pull(r) ==
  \/ PullEnd(r)
  \/ PullEndIncomplete(r)
  \/ PullCorruptedKey(r)
  \/ PullPkChanged(r)
  \/ PullCell(r)
  \/ PullRowDone(r)

Init ==
  /\ StoreInit
  /\ phase = [r \in Readers |-> "closed"]
  /\ snap = [r \in Readers |-> EmptyKv]
  /\ cursor = [r \in Readers |-> -1]
  /\ pkBuf = [r \in Readers |-> NONE]
  /\ restored = [r \in Readers |-> 0]
  /\ rowBytes = [r \in Readers |-> <<>>]
  /\ startRow = [r \in Readers |-> [c \in Cols |-> NONE]]
  /\ out = [r \in Readers |-> <<>>]
  /\ scanErr = [r \in Readers |-> FALSE]
  /\ ended = [r \in Readers |-> FALSE]

Next ==
  \/ StoreNext /\ UNCHANGED scanVars
  \/ \E r \in Readers : iter(r) \/ next(r) \/ Pull(r)

Spec == Init /\ [][Next]_vars

\* A caller that drains its iterator: it keeps calling next(), also after
\* an error, and each call's loop is polled until it returns, since
\* inner.next() always answers.  The writer may stop at any time.
FairSpec == Spec /\ \A r \in Readers : WF_vars(next(r)) /\ WF_vars(Pull(r))

(***************************************************************************)
(* Properties                                                              *)
(***************************************************************************)
MaybeRow == [Cols -> Vals \cup {NONE}]

TypeOK ==
  /\ StoreTypeOK
  /\ phase \in [Readers -> {"closed", "idle", "pull"}]
  /\ snap \in [Readers -> [Keys -> Vals \cup {NONE}]]
  /\ cursor \in [Readers -> -1..(NPk * (NCols + 1))]
  /\ pkBuf \in [Readers -> PKs \cup {NONE}]
  /\ restored \in [Readers -> 0..NCols]
  /\ rowBytes \in [Readers -> Seq(Vals)]
  /\ startRow \in [Readers -> MaybeRow]
  /\ out \in [Readers -> Seq([pk : PKs, row : Seq(Vals), start : MaybeRow])]
  /\ scanErr \in [Readers -> BOOLEAN]
  /\ ended \in [Readers -> BOOLEAN]

\* The complete rows of view in pk order, as <<pk, row>>.
PkOrder      == [i \in 1..NPk |-> i]
RowsOf(view) ==
  LET ps == SelectSeq(PkOrder, LAMBDA p : Complete(view, p))
  IN  [i \in 1..Len(ps) |-> <<ps[i], [c \in 1..NCols |-> view[<<ps[i], c - 1>>]]>>]

(* Every row next() yields is, column for column, the row its pk had in   *)
(* the keyspace when next() read that row's first cell: next() never      *)
(* stitches a row from cells of two pks or of two writes, even when the   *)
(* caller keeps calling next() after an error.                            *)
ScanRowsConsistent ==
  \A r \in Readers : \A i \in 1..Len(out[r]) :
    \A c \in Cols : out[r][i].row[c + 1] = out[r][i].start[c]

(* When an iterator has returned Ok(None) and never an error, it has       *)
(* yielded exactly the complete rows of its snapshot, in pk order, and     *)
(* the snapshot held no partial row and no malformed key: corruption is    *)
(* never passed over silently.                                             *)
CleanEndMeansComplete ==
  \A r \in Readers :
    (SnapshotIter /\ ended[r] /\ ~scanErr[r]) =>
      /\ WellFormed(snap[r])
      /\ [i \in 1..Len(out[r]) |-> <<out[r][i].pk, out[r][i].row>>] = RowsOf(snap[r])

(* With every write going through ManagedMViewState's atomic flush, no    *)
(* call of next() ever reports "incomplete item" or "corrupted key".       *)
NoSpuriousCorruption ==
  ~Corruption => \A r \in Readers : ~scanErr[r]

(***************************************************************************)
(* Refinement of MViewScan.  A table is the complete rows of a keyspace,   *)
(* corrupt when the keyspace is not WellFormed;                            *)
(* a reader's position is the pk of the last row it yielded; a yielded     *)
(* row is its row_bytes read back column by column.  The cell-by-cell      *)
(* steps of next() (PullCell) and the writer's put/delete are stutters.    *)
(***************************************************************************)
LastPk(r) == IF out[r] = <<>> THEN 0 ELSE out[r][Len(out[r])].pk

Scan == INSTANCE MViewScan
          WITH live    <- TableOf(kv),
               corrupt <- ~WellFormed(kv),
               rows    <- [r \in Readers |-> TableOf(snap[r])],
               bad     <- [r \in Readers |-> ~WellFormed(snap[r])],
               call    <- phase,
               pos     <- [r \in Readers |-> LastPk(r)],
               yielded <- [r \in Readers |-> [i \in 1..Len(out[r]) |->
                             [pk |-> out[r][i].pk,
                              row |-> [c \in Cols |-> out[r][i].row[c + 1]]]]],
               done    <- ended

(* With a snapshot iterator, iter/next behave as MViewScan: iter() fixes   *)
(* the table as it is; on a clean table each next() returns the row of the *)
(* next greater pk, or end-of-sequence when there is none, and never an    *)
(* error; on a corrupt one, even when the caller goes on after an error,   *)
(* it returns only rows of the table, whole and in increasing pk order.    *)
ScanRefinement == Scan!Spec

(* A caller that keeps calling next() on one iterator gets Ok(None) in    *)
(* the end and keeps getting it, even on a corrupted keyspace and after   *)
(* errors: every error consumes the key that exposed it, so errors cannot *)
(* repeat forever.  Only a caller that reopens the table forever escapes. *)
ScanEnds ==
  \A r \in Readers : []<>(phase[r] = "closed" \/ ended[r]) \/ []<><<iter(r)>>_vars
=============================================================================
