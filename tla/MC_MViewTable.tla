--------------------------- MODULE MC_MViewTable ---------------------------
(* Small instances of MViewTable for TLC: two pks, two columns, two datums. *)
EXTENDS MViewTable, TLC

CONSTANTS v1, v2, r1

MCVals    == {v1, v2}
MCReaders == {r1}

\* Termination does not depend on the datums: one is enough.
MCOneVal  == {v1}

\* Datums are only compared for equality, so they are interchangeable.
ValSymmetry == Permutations(MCVals)
=============================================================================
