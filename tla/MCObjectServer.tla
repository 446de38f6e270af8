--------------------------- MODULE MCObjectServer ---------------------------
(* Instances of ObjectServer for TLC.                                      *)
EXTENDS ObjectServer, TLC

CONSTANTS u1, u2, o1, a, b, c1, c2

TwoUsers == {u1, u2}
OneUser == {u1}
OneObject == {o1}
NoObjects == {}
TwoValues == {a, b}
OneValue == {a}
TwoConns == {c1, c2}

\* A block of one unit and one that takes two writes.
Sizes == a :> 2 @@ b :> 1
OneSize == a :> 2
UnitSize == a :> 1

\* What blocks may spell: nothing, any request but a REGISTER, requests without a
\* block that change the lists.
Nothing == {}
SessionRequests == {r \in Requests : r.cmd # "REGISTER"}
ListRequests == {r \in Requests : r.cmd \in {"REGISTER", "LEAVE"}}

\* Connections are interchangeable, and so are users.
Symmetry == Permutations(Users) \cup Permutations(Conns)

=============================================================================
