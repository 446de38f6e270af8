---------------------------- MODULE MCConnection ----------------------------
(* Instances of Connection for TLC.                                        *)
EXTENDS Connection

Digits == [n \in 0 .. 12 |-> ToString(n)]

\* A block of one symbol, one of several buffers that looks like messages (what the
\* first read leaves of it is a DELETE), and one with a NUL byte in it.
MixedBlocks == {<<SP>>,
                <<"x", "DELETE", SP, "o", SP, NL, "OK", SP, NL, "z", NL>>,
                <<NUL, "y">>}

=============================================================================
