------------------------- MODULE MC_MViewTableGet -------------------------
(* Small instances of MViewTableGet for TLC. *)
EXTENDS MViewTableGet, TLC

CONSTANTS v1, v2

MCVals == {v1, v2}

\* Datums are only compared for equality, so they are interchangeable.
ValSymmetry == Permutations(MCVals)
=============================================================================
