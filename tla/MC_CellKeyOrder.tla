-------------------------- MODULE MC_CellKeyOrder --------------------------
(* Two-column pks over values around zero and at the ends of the i32      *)
(* range, and cell indices on both sides of a byte boundary.               *)
EXTENDS CellKeyOrder

MCInts     == {I32Min, -1, 0, 1, I32Max}
MCCellIdxs == {0, 1, 255, 256}
=============================================================================
