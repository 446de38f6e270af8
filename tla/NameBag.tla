------------------------------ MODULE NameBag ------------------------------
(***************************************************************************)
(* What a list of names promises to the code that uses it: it is a bag of  *)
(* names, and each operation returns what the bag says.  Statistics is     *)
(* written with such bags.                                                 *)
(***************************************************************************)
EXTENDS Integers

CONSTANT Keys

VARIABLES
    usable,     \* is there a list
    names,      \* how often each name is in it
    called,     \* the last operation and its name
    result      \* what it returned

Empty == [k \in Keys |-> 0]

Init == usable = FALSE /\ names = Empty /\ called = <<>> /\ result = 0

Return(operation, res) == called' = operation /\ result' = res

Create == Return(<<"create">>, 0) /\ ~usable /\ usable' = TRUE /\ names' = Empty

Destroy == Return(<<"destroy">>, 0) /\ usable /\ usable' = FALSE /\ names' = Empty

Insert(k) ==
    /\ Return(<<"insert", k>>, 0)
    /\ usable /\ names' = [names EXCEPT ![k] = @ + 1]
    /\ UNCHANGED usable

\* One occurrence of the name is removed.
Delete(k) ==
    /\ Return(<<"delete", k>>, 0)
    /\ usable /\ names[k] > 0 /\ names' = [names EXCEPT ![k] = @ - 1]
    /\ UNCHANGED usable

Member(k) ==
    /\ called' = <<"member", k>>
    /\ result' = IF usable /\ names[k] > 0 THEN 1 ELSE 0
    /\ UNCHANGED <<usable, names>>

\* There is no memory, no list, or no such name: nothing has changed.
Fail ==
    /\ \/ Return(<<"create">>, -1)
       \/ Return(<<"destroy">>, -1) /\ ~usable
       \/ \E k \in Keys :
            \/ Return(<<"insert", k>>, -1)
            \/ Return(<<"delete", k>>, -1) /\ (~usable \/ names[k] = 0)
    /\ UNCHANGED <<usable, names>>

Next == Create \/ Destroy \/ Fail \/ \E k \in Keys : Insert(k) \/ Delete(k) \/ Member(k)

Spec == Init /\ [][Next]_<<usable, names, called, result>>

=============================================================================
