---------------------------- MODULE MCObjectStore ----------------------------
(* Instances of ObjectServerRefinement for TLC.                            *)
EXTENDS ObjectServerRefinement, TLC

CONSTANTS u1, u2, o1, a, b, c1, c2

TwoUsers == {u1, u2}
OneUser == {u1}
OneObject == {o1}
TwoValues == {a, b}
OneValue == {a}
TwoConns == {c1, c2}

\* A block of one unit and one that takes two writes.
Sizes == a :> 2 @@ b :> 1
OneSize == a :> 2

\* What blocks may spell: any request but a REGISTER.
SessionRequests == {r \in Requests : r.cmd # "REGISTER"}

\* Connections are interchangeable, and so are users.
Symmetry == Permutations(Users) \cup Permutations(Conns)

=============================================================================
