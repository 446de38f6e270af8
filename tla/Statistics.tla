----------------------------- MODULE Statistics -----------------------------
(***************************************************************************)
(* The statistics_t of serverapi.h: four counters and two lists of client  *)
(* names, all of them read and written only while mutex_stats is held.     *)
(* Each action below is one critical section of that mutex, so it is one   *)
(* atomic step.                                                            *)
(*                                                                         *)
(* A list_t is abstracted to the bag of the names it holds (liste.c keeps  *)
(* the list sorted and lets a name occur more than once).  The counters    *)
(* are unsigned long in C; they are integers here, a negative value        *)
(* standing for one that has wrapped around zero.                          *)
(***************************************************************************)
EXTENDS StoreNames, Integers

VARIABLES
    nusers,         \* number of users of the store
    nonline,        \* number of users online
    nfiles,         \* number of objects in the store
    dimension,      \* sum of the sizes of the objects
    allclients,     \* bag of the names of all users
    onlineclients   \* bag of the names of the users online

statsVars == <<nusers, nonline, nfiles, dimension, allclients, onlineclients>>

StatsTypeOK ==
    /\ nusers \in Nat
    /\ nonline \in Int
    /\ nfiles \in Int
    /\ dimension \in Int
    /\ allclients \in [Users -> Nat]
    /\ onlineclients \in [Users -> Nat]

createList == [u \in Users |-> 0]

\* initializeStatistics, up to the call of getDirCounters.
StatsInit ==
    /\ nusers = 0
    /\ nonline = 0
    /\ nfiles = 0
    /\ dimension = 0
    /\ allclients = createList
    /\ onlineclients = createList

----------------------------------------------------------------------------
isInList(list, name) == name \in Users /\ list[name] > 0

insertList(list, name) == [list EXCEPT ![name] = @ + 1]

\* Only applied to a name that isInList: deleteList returns -1 otherwise.
deleteList(list, name) == [list EXCEPT ![name] = @ - 1]

----------------------------------------------------------------------------
checkIfOnline(username) == isInList(onlineclients, username)

\* A variant with a fault: a name is listed again each time it registers.
addClientAgain(username) ==
    /\ allclients' = insertList(allclients, username)
    /\ nusers' = nusers + 1
    /\ onlineclients' = insertList(onlineclients, username)
    /\ nonline' = nonline + 1
    /\ UNCHANGED <<nfiles, dimension>>

\* A variant with a fault: only the first registration of a name puts it online.
addClientFirst(username) ==
    IF isInList(allclients, username) THEN UNCHANGED statsVars ELSE addClientAgain(username)

addClientOnline(username) ==
    /\ IF isInList(allclients, username)
       THEN UNCHANGED <<allclients, nusers>>
       ELSE /\ allclients' = insertList(allclients, username)
            /\ nusers' = nusers + 1
    /\ onlineclients' = insertList(onlineclients, username)
    /\ nonline' = nonline + 1
    /\ UNCHANGED <<nfiles, dimension>>

\* A variant with a fault: the name is removed without looking for it.
removeClientBlindly(username) ==
    /\ onlineclients' = deleteList(onlineclients, username)
    /\ nonline' = nonline - 1
    /\ UNCHANGED <<nusers, nfiles, dimension, allclients>>

\* A variant with a fault: the client is counted off and stays in the list.
removeClientCount(username) ==
    /\ nonline' = IF checkIfOnline(username) THEN nonline - 1 ELSE nonline
    /\ UNCHANGED <<nusers, nfiles, dimension, allclients, onlineclients>>

removeClientOnline(username) ==
    /\ IF checkIfOnline(username)
       THEN /\ onlineclients' = deleteList(onlineclients, username)
            /\ nonline' = nonline - 1
       ELSE UNCHANGED <<onlineclients, nonline>>
    /\ UNCHANGED <<nusers, nfiles, dimension, allclients>>

\* A variant with a fault: the size is forgotten.
addFileUnsized(file_size) ==
    /\ nfiles' = nfiles + 1
    /\ UNCHANGED <<nusers, nonline, dimension, allclients, onlineclients>>

addFile(file_size) ==
    /\ nfiles' = nfiles + 1
    /\ dimension' = dimension + file_size
    /\ UNCHANGED <<nusers, nonline, allclients, onlineclients>>

\* A variant with a fault: the size stays in the sum.
subtractFileUnsized(st_size) ==
    /\ nfiles' = nfiles - 1
    /\ UNCHANGED <<nusers, nonline, dimension, allclients, onlineclients>>

\* The counter updates of removeFile, after an unlink that succeeded.
subtractFile(st_size) ==
    /\ nfiles' = nfiles - 1
    /\ dimension' = dimension - st_size
    /\ UNCHANGED <<nusers, nonline, allclients, onlineclients>>

\* getDirCounters on a user's directory.
countUser(username) ==
    /\ allclients' = insertList(allclients, username)
    /\ nusers' = nusers + 1
    /\ UNCHANGED <<nonline, nfiles, dimension, onlineclients>>

=============================================================================
