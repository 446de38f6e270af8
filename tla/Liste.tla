------------------------------- MODULE Liste -------------------------------
(***************************************************************************)
(* The sorted list of liste.c, as cells linked on the heap.  The last cell *)
(* has no key; it ends every loop.  A list is used by one thread at a time *)
(* (its callers hold mutex_stats), so each operation is one step.          *)
(***************************************************************************)
EXTENDS Integers, FiniteSets, FiniteSetsExt

CONSTANTS
    Keys,       \* the names, as numbers in the order of strcmp
    Cells,      \* the cells malloc can return
    NULL

ASSUME KeysAssumption == Keys \subseteq Nat /\ NULL \notin Keys \cup Cells

VARIABLES
    head,       \* the head of the list, or NULL when there is no list
    key, next,  \* of each cell
    allocated,  \* the cells malloc has returned and free has not had back
    called,     \* the last operation and its parameter
    result      \* what it returned

heapVars == <<head, key, next, allocated>>
vars == <<heapVars, called, result>>

Free == Cells \ allocated

Init ==
    /\ head = NULL /\ allocated = {} /\ called = <<>> /\ result = 0
    /\ key = [c \in Cells |-> NULL] /\ next = [c \in Cells |-> NULL]

\* The cells a loop visits that starts at the head and goes on from each cell of P:
\* they are in every set that has the head and, with a cell of P, the next.
Visited(P) ==
    LET closed == {S \in SUBSET Cells : head \in S /\ \A p \in S \cap P : next[p] \in S}
    IN {c \in Cells : \A S \in closed : c \in S}

Keyed == {p \in Cells : key[p] # NULL}

\* The loop while (p->key && compare(p->key, str) < bound) p = p->next: the cell where
\* it stops, after the cell before that one.
Walk(str, bound) ==
    LET P == {p \in Keyed : key[p] - str < bound}
        cells == Visited(P)
        p == CHOOSE c \in cells : c \notin P
    IN <<IF p = head THEN NULL ELSE CHOOSE q \in cells : next[q] = p, p>>

Return(operation, res) == called' = operation /\ result' = res

\* malloc may fail at any time.
createList ==
    \/ /\ head = NULL
       /\ \E c \in Free :
            /\ head' = c
            /\ key' = [key EXCEPT ![c] = NULL]
            /\ next' = [next EXCEPT ![c] = NULL]
            /\ allocated' = allocated \cup {c}
       /\ Return(<<"create">>, 0)
    \/ head = NULL /\ Return(<<"create">>, -1) /\ UNCHANGED heapVars

\* EINVAL, or malloc has failed.
insertFails(str) == Return(<<"insert", str>>, -1) /\ UNCHANGED heapVars

\* A variant with a fault: the new cell is the first, whatever its key.
insertCellFirst(str, c) ==
    /\ key' = [key EXCEPT ![c] = str]
    /\ next' = [next EXCEPT ![c] = head]
    /\ head' = c

\* The new cell goes after every key that is not greater.
insertCell(str, c) ==
    LET at == Walk(str, 1) IN
    /\ key' = [key EXCEPT ![c] = str]
    /\ next' = IF at[1] = NULL THEN [next EXCEPT ![c] = at[2]]
               ELSE [next EXCEPT ![c] = at[2], ![at[1]] = c]
    /\ head' = IF head = at[2] THEN c ELSE head

\* strdup does not fail here (its result is not looked at).
insertList(str) ==
    \/ insertFails(str)
    \/ /\ head # NULL
       /\ \E c \in Free : insertCell(str, c) /\ allocated' = allocated \cup {c}
       /\ Return(<<"insert", str>>, 0)

\* A variant with a fault: the cell is unlinked and not freed.
deleteCellKept(at) ==
    LET p == at[2] IN
    /\ head' = IF p = head THEN next[p] ELSE head
    /\ next' = IF at[1] = NULL THEN next ELSE [next EXCEPT ![at[1]] = next[p]]
    /\ UNCHANGED <<key, allocated>>

deleteCell(at) ==
    LET p == at[2] IN
    /\ head' = IF p = head THEN next[p] ELSE head
    /\ next' = IF at[1] = NULL THEN next ELSE [next EXCEPT ![at[1]] = next[p]]
    /\ allocated' = allocated \ {p}
    /\ UNCHANGED key

\* A variant with a fault: an element whose key is at the head is not found.
deleteListAfter(str) ==
    IF head # NULL /\ key[Walk(str, 0)[2]] = str /\ Walk(str, 0)[1] # NULL
    THEN deleteCell(Walk(str, 0)) /\ Return(<<"delete", str>>, 0)
    ELSE Return(<<"delete", str>>, -1) /\ UNCHANGED heapVars

deleteList(str) ==
    IF head # NULL /\ key[Walk(str, 0)[2]] = str
    THEN deleteCell(Walk(str, 0)) /\ Return(<<"delete", str>>, 0)
    ELSE Return(<<"delete", str>>, -1) /\ UNCHANGED heapVars

isInList(str) ==
    /\ Return(<<"member", str>>,
              IF head # NULL /\ key[Walk(str, 0)[2]] = str THEN 1 ELSE 0)
    /\ UNCHANGED heapVars

\* The cells of the list, to the one without a key.
Reachable == IF head = NULL THEN {} ELSE Visited(Keyed)

\* Called at exit: the callers do not use the list again.
destroyList ==
    IF head = NULL THEN Return(<<"destroy">>, -1) /\ UNCHANGED heapVars
    ELSE /\ allocated' = allocated \ Reachable
         /\ head' = NULL /\ Return(<<"destroy">>, 0)
         /\ UNCHANGED <<key, next>>

Next ==
    \/ createList \/ destroyList
    \/ \E str \in Keys : insertList(str) \/ deleteList(str) \/ isInList(str)

Spec == Init /\ [][Next]_vars

----------------------------------------------------------------------------
(* Properties.                                                             *)

\* "Le stringhe sono mantenute secondo l'ordine lessicografico" (relazione.lyx:877):
\* every loop of liste.c stops at the first key that is too great.
Sorted ==
    \A c \in Reachable : key[c] # NULL /\ key[next[c]] # NULL => key[c] <= key[next[c]]

\* The cells in use are the cells of the list: none is lost, and none that has been
\* freed is still linked.
CellsInUse == Reachable = allocated

Names == LET cells == Reachable IN [k \in Keys |-> Cardinality({c \in cells : key[c] = k})]

Bag == INSTANCE NameBag WITH names <- Names, usable <- head # NULL

\* The list is the bag of the names inserted and not deleted, and each operation
\* returns what the bag says.
ImplementsNameBag == Bag!Spec

=============================================================================
