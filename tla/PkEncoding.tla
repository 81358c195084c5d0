---------------------------- MODULE PkEncoding ----------------------------
(***************************************************************************)
(* The cell key of src/rust/stream/src/executor/mview/table.rs:            *)
(*    prefix ++ serialize_pk(&pk, &sort_key_serializer)                     *)
(*           ++ serialize_cell_idx(cell_idx as u32)                         *)
(* serialize_pk, serialize_cell_idx and OrderedRowsSerializer come from    *)
(* the parent module mview (imported with a glob use), not in this repo.  *)
(* They are modelled from spec 3 and 4.1 with the memcomparable scheme the *)
(* serializer writes to (memcomparable::Deserializer reads the cells back  *)
(* in get):                                                                 *)
(*  - a datum of a non-nullable column is Some: a tag byte 1, then the      *)
(*    value;                                                                *)
(*  - an i32 is big-endian with its sign bit flipped, so two's-complement   *)
(*    negatives sort below the non-negatives;                               *)
(*  - a Descending column is serialized in reverse: every byte inverted;    *)
(*  - the cell index is a big-endian u32.                                   *)
(* Bytes are naturals below 256; a key is a sequence of them.              *)
(***************************************************************************)
EXTENDS Integers, Sequences
LOCAL INSTANCE SequencesExt

\* OrderType::Ascending / OrderType::Descending
Asc  == "asc"
Desc == "desc"

I32Min == -2147483647 - 1
I32Max == 2147483647

\* Byte k (0 the least significant) of the two's-complement form of x:
\* \div is floor division and % is non-negative, so negatives come out right.
ByteOf(x, k) == (x \div (2 ^ (8 * k))) % 256

\* (x as u32) ^ (1 << 31), big-endian.
SerializeI32(x) == <<(ByteOf(x, 3) + 128) % 256, ByteOf(x, 2), ByteOf(x, 1), ByteOf(x, 0)>>

\* A Descending column goes through a reversed serializer: every byte inverted.
Reversed(bytes) == [i \in DOMAIN bytes |-> 255 - bytes[i]]

\* Mutant: the column's order type is not applied.
SerializeDatum_ignoreOrder(x, order) == <<1>> \o SerializeI32(x)

\* Some(x) of an Int32 column under the column's order type.
SerializeDatum(x, order) ==
  LET bytes == <<1>> \o SerializeI32(x)
  IN  IF order = Desc THEN Reversed(bytes) ELSE bytes

\* serialize_pk: the pk's datums in pk-column order, each under its order type.
SerializePk(pk, orderings) ==
  FlattenSeq([i \in DOMAIN pk |-> SerializeDatum(pk[i], orderings[i])])

\* serialize_cell_idx: the column index as a big-endian u32.
SerializeCellIdx(c) == <<ByteOf(c, 3), ByteOf(c, 2), ByteOf(c, 1), ByteOf(c, 0)>>

\* Byte order of the store: a proper prefix first, else the first byte that differs.
Before(a, b) ==
  \/ IsStrictPrefix(a, b)
  \/ \E i \in 1..Len(a) : /\ i <= Len(b)
                          /\ SubSeq(a, 1, i - 1) = SubSeq(b, 1, i - 1)
                          /\ a[i] < b[i]

\* The declared order of two pks (spec 3): the first column where they
\* differ decides, ascending or descending as that column is declared.
DeclaredBefore(a, b, orderings) ==
  \E i \in DOMAIN a :
     /\ \A j \in 1..(i - 1) : a[j] = b[j]
     /\ IF orderings[i] = Asc THEN a[i] < b[i] ELSE a[i] > b[i]
=============================================================================
