------------------------------ MODULE MCListe ------------------------------
(* An instance of Liste for TLC: one cell more than the longest list has   *)
(* keys.  The cells are interchangeable.                                   *)
EXTENDS Liste, TLC

Symmetry == Permutations(Cells)

=============================================================================
