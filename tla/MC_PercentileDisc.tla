------------------------ MODULE MC_PercentileDisc ------------------------
(* The fractions of the slt examples in percentile_disc.rs, and 1/2. *)
EXTENDS PercentileDisc

Frac(n, d) == [num |-> n, den |-> d]

MCFractions == {NONE, Frac(0, 1), Frac(33, 100), Frac(34, 100), Frac(1, 2),
                Frac(67, 100), Frac(1, 1)}

\* A negative literal: nothing in build() or get_output checks the range.
MCFractionsOutOfRange == {Frac(-1, 2)}
=============================================================================
