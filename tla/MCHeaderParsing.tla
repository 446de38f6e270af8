--------------------------- MODULE MCHeaderParsing ---------------------------
(* An instance of HeaderParsing for TLC.                                   *)
EXTENDS HeaderParsing

OneLength == {2}
Digits == [n \in 0 .. 2 |-> ToString(n)]

=============================================================================
