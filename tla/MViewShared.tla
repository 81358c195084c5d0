---------------------------- MODULE MViewShared ----------------------------
(***************************************************************************)
(* Several materialized views over one state store, as the test           *)
(* test_multi_mview_table_iter of src/rust/stream/src/executor/mview/      *)
(* table.rs builds them: each table has its keyspace                       *)
(* (Keyspace::executor_root(state_store, id)), its ManagedMViewState, its  *)
(* MViewTable and one scan reading it.                                     *)
(*                                                                         *)
(* Keys are byte strings (sequences of naturals) so that the prefix scan   *)
(* of keyspace.iter() and the slicing of MViewTableIter::next act on them  *)
(* as the code does:                                                       *)
(*    key = Prefix[t] \o serialize_pk(p) \o serialize_cell_idx(c)          *)
(* with the encoder of PkEncoding: pks are tuples of i32 under the         *)
(* declared Orderings, so the store's byte order has to give the declared  *)
(* pk order by itself; next() never decodes a pk.                          *)
(***************************************************************************)
EXTENDS PkEncoding, Integers, Sequences, FiniteSets
LOCAL INSTANCE SequencesExt

CONSTANTS
  Tables,          \* the tables sharing the store
  Scanned,         \* the tables whose scan is run
  Prefix,          \* Tables -> Seq(Nat): the keyspace prefix of each table
  PKs,             \* primary keys of each table: tuples of i32
  Orderings,       \* the order type of each pk column
  NCols,           \* schema.len(), the same for every table
  Vals,            \* datums a cell may hold
  MaxEpoch,        \* bound on the flushes of each table's writer; it buffers
                   \* nothing after its last one
  NONE,            \* an absent key / an empty buffer slot
  DELETE           \* a buffered delete

ASSUME \A t \in Tables : Prefix[t] \in Seq(Nat)
ASSUME Scanned \subseteq Tables
ASSUME \A p \in PKs : DOMAIN p = DOMAIN Orderings /\ \A i \in DOMAIN p : p[i] \in I32Min..I32Max

Cols      == 0..(NCols - 1)
Row       == [Cols -> Vals]
SuffixLen == 4

\* serialize_pk(pk) of each pk, computed once.
PkBytes == [p \in PKs |-> SerializePk(p, Orderings)]

\* prefix ++ serialize_pk(pk) ++ serialize_cell_idx(idx)
CellKey(t, p, c) == Prefix[t] \o PkBytes[p] \o SerializeCellIdx(c)
KeyOf == [t \in Tables |-> [p \in PKs |-> [c \in Cols |-> CellKey(t, p, c)]]]
Keys  == {KeyOf[t][p][c] : t \in Tables, p \in PKs, c \in Cols}

\* Distinct tables never write the same key.
ASSUME \A t, u \in Tables, p, q \in PKs, c, d \in Cols :
         CellKey(t, p, c) = CellKey(u, q, d) => t = u

VARIABLES
  kv,        \* the shared store: Keys -> Vals \cup {NONE}
  buffer,    \* per table: its ManagedMViewState buffer, pk -> Row \cup {DELETE, NONE}
  epoch,     \* per table: flushes done
  phase,     \* per table's scan: "closed", "idle" or "pull" (inside next())
  snap,      \* per table's scan: the store as keyspace.iter() opened it
  cursor,    \* per table's scan: the last key inner.next() returned, <<>> at first
  pkBuf,     \* per table's scan: pk_buf of the current next() call
  restored,  \* per table's scan: restored of the current next() call
  rowBytes,  \* per table's scan: row_bytes of the current next() call
  out,       \* ghost, per table's scan: the rows yielded, as [pk, row]
  scanErr,   \* ghost, per table's scan: next() has returned an error
  ended      \* ghost, per table's scan: next() has returned Ok(None)

writeVars == <<kv, buffer, epoch>>
scanVars  == <<phase, snap, cursor, pkBuf, restored, rowBytes, out, scanErr, ended>>
vars      == <<writeVars, scanVars>>

(***************************************************************************)
(* ManagedMViewState of table t (spec 4.5): buffer, then one atomic batch  *)
(* of the table's cell writes and deletes.                                 *)
(***************************************************************************)
put(t, p, row) ==
  /\ epoch[t] < MaxEpoch
  /\ buffer' = [buffer EXCEPT ![t][p] = row]
  /\ UNCHANGED <<kv, epoch, scanVars>>

delete(t, p) ==
  /\ epoch[t] < MaxEpoch
  /\ buffer' = [buffer EXCEPT ![t][p] = DELETE]
  /\ UNCHANGED <<kv, epoch, scanVars>>

flush(t) ==
  /\ epoch[t] < MaxEpoch
  /\ kv' = [k \in Keys |->
              LET cells == {pc \in PKs \X Cols : KeyOf[t][pc[1]][pc[2]] = k /\ buffer[t][pc[1]] # NONE}
              IN  IF cells = {} THEN kv[k]
                  ELSE LET pc == CHOOSE pc \in cells : TRUE
                       IN  IF buffer[t][pc[1]] = DELETE THEN NONE ELSE buffer[t][pc[1]][pc[2]]]
  /\ buffer' = [buffer EXCEPT ![t] = [p \in PKs |-> NONE]]
  /\ epoch' = [epoch EXCEPT ![t] = @ + 1]
  /\ UNCHANGED scanVars

(***************************************************************************)
(* The scan of table t: MViewTable::iter opens keyspace.iter() on the      *)
(* table's prefix; MViewTableIter::next groups cells by the pk bytes       *)
(* between the prefix and the suffix.                                      *)
(***************************************************************************)
iter(t) ==
  /\ phase[t] = "closed"
  /\ phase' = [phase EXCEPT ![t] = "idle"]
  /\ snap' = [snap EXCEPT ![t] = kv]
  /\ UNCHANGED <<writeVars, cursor, pkBuf, restored, rowBytes, out, scanErr, ended>>

next(t) ==
  /\ phase[t] = "idle"
  /\ phase' = [phase EXCEPT ![t] = "pull"]
  /\ pkBuf' = [pkBuf EXCEPT ![t] = <<>>]
  /\ restored' = [restored EXCEPT ![t] = 0]
  /\ rowBytes' = [rowBytes EXCEPT ![t] = <<>>]
  /\ UNCHANGED <<writeVars, snap, cursor, out, scanErr, ended>>

\* inner.next(): the first key of the table's range after the cursor, or NONE.
Inner(t) ==
  LET later == {k \in Keys : /\ snap[t][k] # NONE /\ IsPrefix(Prefix[t], k)
                             /\ Before(cursor[t], k)}
  IN  IF later = {} THEN NONE ELSE CHOOSE k \in later : \A j \in later \ {k} : Before(k, j)

\* Mutant: the slice starts one byte early, at the last prefix byte.
CurPk_fromPrefixEnd(t, k) == SubSeq(k, Len(Prefix[t]), Len(k) - SuffixLen)

\* key[prefix.len() .. key.len() - 4]
CurPk(t, k) == SubSeq(k, Len(Prefix[t]) + 1, Len(k) - SuffixLen)

Fail(t, k) ==
  /\ cursor' = [cursor EXCEPT ![t] = k]
  /\ phase' = [phase EXCEPT ![t] = "idle"]
  /\ scanErr' = [scanErr EXCEPT ![t] = TRUE]
  /\ UNCHANGED <<writeVars, snap, pkBuf, restored, rowBytes, out, ended>>

PullEnd(t) ==
  /\ Inner(t) = NONE
  /\ IF restored[t] = 0
       THEN /\ phase' = [phase EXCEPT ![t] = "idle"]
            /\ ended' = [ended EXCEPT ![t] = TRUE]
            /\ UNCHANGED <<writeVars, snap, cursor, pkBuf, restored, rowBytes, out, scanErr>>
       ELSE Fail(t, cursor[t])

\* Mutant: the row breaks one cell late.
RowComplete_late(t) == restored[t] + 1 > NCols

\* restored == self.schema.len() after restored += 1
RowComplete(t) == restored[t] + 1 = NCols

\* Mutant: the key is appended to row_bytes instead of the value.
Restore_appendKey(t, k) ==
  /\ cursor' = [cursor EXCEPT ![t] = k]
  /\ pkBuf' = [pkBuf EXCEPT ![t] = CurPk(t, k)]
  /\ restored' = [restored EXCEPT ![t] = @ + 1]
  /\ rowBytes' = [rowBytes EXCEPT ![t] = Append(@, k)]

\* pk_buf adopted on the first cell, the value appended, restored += 1.
Restore(t, k) ==
  /\ cursor' = [cursor EXCEPT ![t] = k]
  /\ pkBuf' = [pkBuf EXCEPT ![t] = CurPk(t, k)]
  /\ restored' = [restored EXCEPT ![t] = @ + 1]
  /\ rowBytes' = [rowBytes EXCEPT ![t] = Append(@, snap[t][k])]

\* One turn of the loop on a key: the length check, the pk check, then the
\* cell is restored and the row returned once schema.len() cells are in.
PullKey(t) ==
  LET k == Inner(t) IN
  /\ k # NONE
  /\ \/ /\ Len(k) < Len(Prefix[t]) + SuffixLen
        /\ Fail(t, k)
     \/ /\ Len(k) >= Len(Prefix[t]) + SuffixLen
        /\ restored[t] # 0 /\ pkBuf[t] # CurPk(t, k)
        /\ Fail(t, k)
     \/ /\ Len(k) >= Len(Prefix[t]) + SuffixLen
        /\ restored[t] = 0 \/ pkBuf[t] = CurPk(t, k)
        /\ Restore(t, k)
        /\ IF RowComplete(t)
             THEN /\ phase' = [phase EXCEPT ![t] = "idle"]
                  /\ out' = [out EXCEPT ![t] =
                               Append(@, [pk |-> CurPk(t, k), row |-> rowBytes'[t]])]
             ELSE UNCHANGED <<phase, out>>
        /\ UNCHANGED <<writeVars, snap, scanErr, ended>>

Pull(t) == phase[t] = "pull" /\ (PullEnd(t) \/ PullKey(t))

Init ==
  /\ kv = [k \in Keys |-> NONE]
  /\ buffer = [t \in Tables |-> [p \in PKs |-> NONE]]
  /\ epoch = [t \in Tables |-> 0]
  /\ phase = [t \in Tables |-> "closed"]
  /\ snap = [t \in Tables |-> [k \in Keys |-> NONE]]
  /\ cursor = [t \in Tables |-> <<>>]
  /\ pkBuf = [t \in Tables |-> <<>>]
  /\ restored = [t \in Tables |-> 0]
  /\ rowBytes = [t \in Tables |-> <<>>]
  /\ out = [t \in Tables |-> <<>>]
  /\ scanErr = [t \in Tables |-> FALSE]
  /\ ended = [t \in Tables |-> FALSE]

Next ==
  \/ \E t \in Tables :
        \/ \E p \in PKs, row \in Row : put(t, p, row)
        \/ \E p \in PKs : delete(t, p)
        \/ flush(t)
  \/ \E t \in Scanned :
        \/ iter(t)
        \/ next(t)
        \/ Pull(t)

Spec == Init /\ [][Next]_vars

TypeOK ==
  /\ kv \in [Keys -> Vals \cup {NONE}]
  /\ buffer \in [Tables -> [PKs -> Row \cup {DELETE, NONE}]]
  /\ epoch \in [Tables -> 0..MaxEpoch]
  /\ phase \in [Tables -> {"closed", "idle", "pull"}]
  /\ snap \in [Tables -> [Keys -> Vals \cup {NONE}]]
  /\ cursor \in [Tables -> Keys \cup {<<>>}]
  /\ restored \in [Tables -> 0..NCols]
  /\ \A t \in Tables : rowBytes[t] \in Seq(Vals) /\ Len(rowBytes[t]) = restored[t]
  /\ scanErr \in [Tables -> BOOLEAN] /\ ended \in [Tables -> BOOLEAN]

\* The row of table t with pk p in the snapshot its scan reads, in column order.
SnapRow(t, p) == [i \in 1..NCols |-> snap[t][KeyOf[t][p][i - 1]]]
\* The pks of table t with every cell present in that snapshot.
SnapPks(t) == {p \in PKs : \A c \in Cols : snap[t][KeyOf[t][p][c]] # NONE}

(* Every row next() yields on table t's iterator has the pk bytes of one  *)
(* of t's own primary keys, and is that row of t as the iterator's        *)
(* snapshot holds it: no cell written under another table's keyspace      *)
(* prefix ever lands in it, while every writer of the store flushes.      *)
ScanReadsOwnRows ==
  \A t \in Tables : \A i \in DOMAIN out[t] :
     \E p \in PKs : out[t][i].pk = PkBytes[p] /\ out[t][i].row = SnapRow(t, p)

(* A scan that reached Ok(None) has met no error, and has yielded each   *)
(* complete row of its own table's snapshot exactly once (spec 8.6, 8.7). *)
ScanYieldsOwnTable ==
  \A t \in Tables :
     ended[t] => /\ ~scanErr[t]
                 /\ {out[t][i].pk : i \in DOMAIN out[t]} = {PkBytes[p] : p \in SnapPks(t)}
                 /\ Len(out[t]) = Cardinality(SnapPks(t))

=============================================================================
