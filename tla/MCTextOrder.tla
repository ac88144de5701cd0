---------------------------- MODULE MCTextOrder -----------------------------
(* Columns and texts for TLC.                                              *)
EXTENDS TextOrder, TLC

CONSTANTS a, b, r1, r2, r3

Symmetry == Permutations(Columns) \cup Permutations(Rows)
=============================================================================
