-------------------------- MODULE PercentileDisc --------------------------
(***************************************************************************)
(* The percentile_disc aggregator of src/src/expr/src/agg/percentile_disc *)
(* .rs.  update / update_range append the non-NULL datums of the visible  *)
(* rows of a chunk to data; get_output picks data[ceil(f * n) - 1] (data[0]*)
(* for f = 0); output is get_output followed by reset.                     *)
(*                                                                         *)
(* The fraction is a rational [num, den] and f * n is computed exactly:    *)
(* the f64 product is not modelled.  data is taken in arrival order: the   *)
(* WITHIN GROUP ordering is applied by the caller before update.           *)
(***************************************************************************)
EXTENDS Integers, Sequences

CONSTANTS
  Vals,       \* datums of the aggregated column
  Fractions,  \* fraction literals the aggregate may be built with, or NONE
  MaxChunk,   \* rows per input chunk
  MaxInput,   \* bound on the visible rows fed between two resets
  NONE,       \* SQL NULL: a NULL datum, a NULL fraction, a NULL result
  PANIC,      \* get_output panics (an index out of bounds or an overflow)
  NOVALUE     \* no position reaches the fraction: SQL raises an error

ASSUME \A f \in Fractions : f = NONE \/ (f.num \in Int /\ f.den \in Nat \ {0})

VARIABLES
  fractions,  \* PercentileDisc.fractions, fixed by build()
  data,       \* PercentileDisc.data
  input,      \* ghost: the visible datums, NULLs included, fed since the last reset
  result      \* ghost: [out, seen] of the last get_output / output call, or NONE

vars == <<fractions, data, input, result>>

ChunkRow == [vis : BOOLEAN, datum : Vals \cup {NONE}]
Chunks   == UNION {[1..n -> ChunkRow] : n \in 0..MaxChunk}

\* The datum at column 0 of each visible row of chunk with index in lo..hi-1,
\* as input.rows_in(lo..hi) yields them.
RowsIn(chunk, lo, hi) ==
  LET idx == SelectSeq([i \in 1..(hi - lo) |-> lo + i], LAMBDA i : chunk[i].vis)
  IN  [j \in 1..Len(idx) |-> chunk[idx[j]].datum]

NonNull(s) == SelectSeq(s, LAMBDA d : d # NONE)

\* Mutant: NULL datums are pushed too.
AddDatums_keepNulls(ds) ==
  /\ Len(input) + Len(ds) <= MaxInput
  /\ data' = data \o ds
  /\ input' = input \o ds
  /\ UNCHANGED <<fractions, result>>

\* add_datum over a sequence of datums: NULLs are skipped.
AddDatums(ds) ==
  /\ Len(input) + Len(ds) <= MaxInput
  /\ data' = data \o NonNull(ds)
  /\ input' = input \o ds
  /\ UNCHANGED <<fractions, result>>

update(chunk) == AddDatums(RowsIn(chunk, 0, Len(chunk)))

update_range(chunk, lo, hi) == AddDatums(RowsIn(chunk, lo, hi))

\* ceil(a / b) for b > 0.
CeilDiv(a, b) == -((-a) \div b)

\* f64::ceil(rn) as usize: a negative float saturates to 0.
AsUsize(x) == IF x < 0 THEN 0 ELSE x

\* Mutant: no special case for a zero fraction.
PercentileAt_noZeroCase(f, d) ==
  IF f # NONE /\ d # <<>>
    THEN LET i == AsUsize(CeilDiv(f.num * Len(d), f.den)) - 1
         IN  IF i \in 0..(Len(d) - 1) THEN d[i + 1] ELSE PANIC
    ELSE NONE

\* The body of get_output for fraction f and data d.
PercentileAt(f, d) ==
  IF f # NONE /\ d # <<>>
    THEN IF f.num = 0 THEN d[1]
         ELSE LET i == AsUsize(CeilDiv(f.num * Len(d), f.den)) - 1
              IN  IF i \in 0..(Len(d) - 1) THEN d[i + 1] ELSE PANIC
    ELSE NONE

get_output_value == PercentileAt(fractions, data)

get_output ==
  /\ result' = [out |-> get_output_value, seen |-> input]
  /\ UNCHANGED <<fractions, data, input>>

reset ==
  /\ data' = <<>>
  /\ input' = <<>>
  /\ UNCHANGED <<fractions, result>>

\* Mutant: reset runs before get_output.
output_resetFirst ==
  /\ result' = [out |-> PercentileAt(fractions, <<>>), seen |-> input]
  /\ data' = <<>>
  /\ input' = <<>>
  /\ UNCHANGED fractions

output ==
  /\ result' = [out |-> get_output_value, seen |-> input]
  /\ data' = <<>>
  /\ input' = <<>>
  /\ UNCHANGED fractions

Init ==
  /\ fractions \in Fractions
  /\ data = <<>>
  /\ input = <<>>
  /\ result = NONE

Next ==
  \/ \E c \in Chunks : \/ update(c)
                       \/ \E lo, hi \in 0..Len(c) : lo <= hi /\ update_range(c, lo, hi)
  \/ get_output
  \/ output
  \/ reset

Spec == Init /\ [][Next]_vars

(***************************************************************************)
(* Reference: the first value of the ordered set whose position k (of n)   *)
(* has k / n >= f; NULL when f is NULL or no non-NULL value was fed.       *)
(***************************************************************************)
RECURSIVE FirstReaching(_, _, _)
FirstReaching(s, f, k) ==
  IF k > Len(s) THEN NOVALUE
  ELSE IF k * f.den >= f.num * Len(s) THEN s[k]
  ELSE FirstReaching(s, f, k + 1)

PercentileDiscRef(seen, f) ==
  LET s == NonNull(seen) IN
  IF f = NONE \/ s = <<>> THEN NONE ELSE FirstReaching(s, f, 1)

TypeOK ==
  /\ fractions \in Fractions
  /\ data \in Seq(Vals) /\ Len(data) <= MaxInput
  /\ input \in Seq(Vals \cup {NONE}) /\ Len(input) <= MaxInput
  /\ result \in {NONE} \cup [out : Vals \cup {NONE, PANIC}, seen : Seq(Vals \cup {NONE})]

(* Every result of get_output or output is the discrete percentile of the *)
(* non-NULL datums of the visible rows fed by update / update_range since *)
(* the aggregator was built or last reset (by reset or by output).        *)
OutputIsPercentileDisc ==
  result # NONE => result.out = PercentileDiscRef(result.seen, fractions)

(***************************************************************************)
(* The slt examples of the doc comment of percentile_disc.rs: the table t  *)
(* holds 1, 2, 3 (x), 10, 20, 30 (y), ... inserted in that order.         *)
(***************************************************************************)
SltExamples ==
  LET col(a) == <<a, 2 * a, 3 * a>>
      frac(n, d) == [num |-> n, den |-> d]
  IN  { [f |-> frac(0, 1),     d |-> col(1),     expect |-> 1],
        [f |-> frac(33, 100),  d |-> col(10),    expect |-> 10],
        [f |-> frac(34, 100),  d |-> col(100),   expect |-> 200],
        [f |-> frac(67, 100),  d |-> col(1000),  expect |-> 3000],
        [f |-> frac(1, 1),     d |-> col(10000), expect |-> 30000],
        [f |-> NONE,           d |-> col(1000),  expect |-> NONE] }

(* The body of get_output gives the results the doc comment's slt queries *)
(* expect, and so does the SQL definition: the examples exercise the zero *)
(* branch, a product just below an integer (0.33 * 3) and just above one. *)
(* It holds of constants only, so TLC checks it once, before any state.   *)
ASSUME SltExamplesHold ==
  \A e \in SltExamples :
     /\ PercentileAt(e.f, e.d) = e.expect
     /\ PercentileDiscRef(e.d, e.f) = e.expect
=============================================================================
