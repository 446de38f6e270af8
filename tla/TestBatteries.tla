--------------------------- MODULE TestBatteries ---------------------------
(***************************************************************************)
(* The tests of the repository: test_script.sh runs client.c, once to      *)
(* store and then to retrieve or delete, and testsum.sh sums up the lines  *)
(* the clients have logged.  Each run of client.c is a process of its own. *)
(*                                                                         *)
(* The server keeps what it has been asked to keep, may refuse a request,  *)
(* and after one that it has not done may answer later ones of the same    *)
(* connection as if they had failed, or give them the answer of another    *)
(* one (see ObjectServer).  A call made when the server has closed the     *)
(* connection ends the process: SIGPIPE (see Connection).  A call that     *)
(* never returns is no step: then nothing is summed.                       *)
(***************************************************************************)
EXTENDS Integers, FiniteSets

CONSTANTS
    Clients,    \* names of clients
    Retrievers, \* those of them that run test 2 after test 1; the others run test 3
    OBJ_NUMBER  \* objects each client stores

ASSUME ClientsAssumption == Retrievers \subseteq Clients /\ IsFiniteSet(Clients)
ASSUME ObjectsAssumption == OBJ_NUMBER \in Nat

Objects == 1 .. OBJ_NUMBER

\* The calls a process makes, numbered: one for each object between these two.
CONNECT == 0
DISCONNECT == OBJ_NUMBER + 1

\* A process: a client in the first round, or in the second.
Processes == Clients \X {1, 2}

Test(p) == IF p[2] = 1 THEN 1 ELSE IF p[1] \in Retrievers THEN 2 ELSE 3

VARIABLES
    round,      \* 0 before the first clients, 3 when testsum.sh runs
    serving,    \* is the server listening
    pc, i,      \* of each process: where it is, the object it is at
    stats,      \* the statistics of each process
    stored,     \* the objects each client has in the store
    log,        \* the lines of testout.log that are still to be read
    summary,    \* what testsum.sh has counted, for each test
    made,       \* history: the operations on objects
    failed,     \* ... the calls that have failed
    refused     \* ... the calls the server has refused, or closed the connection in

scriptVars == <<round, serving>>
history == <<made, failed, refused>>
vars == <<scriptVars, pc, i, stats, stored, log, summary, history>>

Init ==
    /\ round = 0 /\ serving = FALSE
    /\ pc = [p \in Processes |-> "none"] /\ i = [p \in Processes |-> 1]
    /\ stats = [p \in Processes |->
                   [ok_connection |-> 0, ok_disconnection |-> 0, operations |-> 0,
                    ok_operations |-> 0, ko_operations |-> 0]]
    /\ stored = [c \in Clients |-> {}]
    /\ log = {} /\ made = {} /\ failed = {} /\ refused = {}
    /\ summary = [t \in 1 .. 3 |-> [total |-> 0, testg |-> 0, testb |-> 0, testf |-> 0]]

----------------------------------------------------------------------------
(* test_script.sh.                                                         *)

\* The server is started in the background: the clients do not wait for it.
Listen ==
    /\ ~serving /\ serving' = TRUE
    /\ UNCHANGED <<round, pc, i, stats, stored, log, summary, history>>

\* A variant with a fault: the second round does not wait for the first.
LaunchAtOnce ==
    /\ round < 2
    /\ round' = round + 1
    /\ pc' = [p \in Processes |-> IF p[2] = round' THEN "connect" ELSE pc[p]]
    /\ UNCHANGED <<serving, i, stats, stored, log, summary, history>>

\* wait: all the processes of the round have ended.
Launch ==
    /\ round < 3
    /\ \A p \in Processes : p[2] <= round => pc[p] \in {"exited", "killed"}
    /\ round' = round + 1
    /\ pc' = [p \in Processes |-> IF p[2] = round' THEN "connect" ELSE pc[p]]
    /\ UNCHANGED <<serving, i, stats, stored, log, summary, history>>

----------------------------------------------------------------------------
(* client.c.                                                               *)

Goto(p, l) == pc' = [pc EXCEPT ![p] = l]

\* A call has returned 1 or 0.
Called(p, call, ok) == failed' = IF ok = 1 THEN failed ELSE failed \cup {<<p, call>>}

\* The server may refuse any call: it is full, or out of threads or descriptors.
Refuse(p, call) == refused' = refused \cup {<<p, call>>}

\* The processes whose name the server lists online.
Online(c) == {p \in Processes : p[1] = c /\ pc[p] = "test"}

\* The server has closed the connection (it is stopping, or could not make a worker),
\* or what it sends overruns a block: the process dies in its next call, and the
\* line of its statistics is never written.
Die(p) ==
    /\ pc[p] \in {"connect", "test"}
    /\ LET call == IF pc[p] = "connect" THEN CONNECT ELSE i[p]
       IN Called(p, call, 0) /\ Refuse(p, call)
    /\ Goto(p, "killed")
    /\ UNCHANGED <<scriptVars, i, stats, stored, log, summary, made>>

os_connect(p) ==
    \E ok \in {0, 1} :
        /\ pc[p] = "connect"
        /\ \/ /\ ok = (IF serving /\ Online(p[1]) = {} THEN 1 ELSE 0)
              /\ UNCHANGED refused
           \/ ok = 0 /\ Refuse(p, CONNECT)
        /\ Called(p, CONNECT, ok)
        /\ stats' = [stats EXCEPT ![p].ok_connection = ok, ![p].operations = @ + 1]
        /\ Goto(p, IF ok = 1 THEN "test" ELSE "log")
        /\ UNCHANGED <<scriptVars, i, stored, log, summary, made>>

\* A variant with a fault: an operation that has failed is not counted.
CountOk(p, ok) ==
    stats' = [stats EXCEPT ![p].operations = @ + ok, ![p].ok_operations = @ + ok]

Count(p, ok) ==
    stats' = [stats EXCEPT ![p].operations = @ + 1, ![p].ok_operations = @ + ok,
                           ![p].ko_operations = @ + 1 - ok]

\* One round of the loop of test1, test2 or test3.
Operation(p, ok) ==
    /\ pc[p] = "test" /\ i[p] <= OBJ_NUMBER
    /\ Count(p, ok)
    /\ i' = [i EXCEPT ![p] = @ + 1]
    /\ made' = made \cup {<<p, i[p]>>}
    /\ Called(p, i[p], ok)
    /\ UNCHANGED <<scriptVars, pc, log, summary>>

\* The server still holds the error of an earlier call.
StaleError(p) == stats[p].ko_operations > 0

test1(p) ==
    /\ Test(p) = 1
    /\ \/ \E ok \in {1} \cup (IF StaleError(p) THEN {0} ELSE {}) :
            /\ Operation(p, ok) /\ stored' = [stored EXCEPT ![p[1]] = @ \cup {i[p]}]
            /\ UNCHANGED refused
       \/ /\ Refuse(p, i[p])
          /\ Operation(p, 0) /\ stored' = [stored EXCEPT ![p[1]] = @ \ {i[p]}]

\* What is retrieved is compared with what test1 has stored.  After a failure it may
\* be another object, whose first bytes are the same.
test2(p) ==
    /\ Test(p) = 2
    /\ \/ \E ok \in {0, 1} :
            /\ StaleError(p) \/ ok = (IF i[p] \in stored[p[1]] THEN 1 ELSE 0)
            /\ Operation(p, ok) /\ UNCHANGED refused
       \/ Operation(p, 0) /\ Refuse(p, i[p])
    /\ UNCHANGED stored

test3(p) ==
    /\ Test(p) = 3
    /\ \/ /\ Operation(p, IF i[p] \in stored[p[1]] THEN 1 ELSE 0)
          /\ stored' = [stored EXCEPT ![p[1]] = @ \ {i[p]}]
          /\ UNCHANGED refused
       \/ Operation(p, 0) /\ Refuse(p, i[p]) /\ UNCHANGED stored

os_disconnect(p) ==
    \E ok \in {0, 1} :
        /\ pc[p] = "test" /\ i[p] > OBJ_NUMBER
        /\ \/ (ok = 1 \/ (Test(p) = 2 /\ StaleError(p))) /\ UNCHANGED refused
           \/ ok = 0 /\ Refuse(p, DISCONNECT)
        /\ Called(p, DISCONNECT, ok)
        /\ stats' = [stats EXCEPT ![p].ok_disconnection = ok, ![p].operations = @ + 1]
        /\ Goto(p, "log")
        /\ UNCHANGED <<scriptVars, i, stored, log, summary, made>>

\* What is printed for the disconnection is ok_connection.
Line(p) ==
    [process |-> p, test |-> Test(p),
     connection |-> stats[p].ok_connection, disconnection |-> stats[p].ok_connection,
     operations |-> stats[p].operations,
     succeded |-> stats[p].ok_operations, failed |-> stats[p].ko_operations]

LOG(p) ==
    /\ pc[p] = "log"
    /\ log' = log \cup {Line(p)}
    /\ Goto(p, "exited")
    /\ UNCHANGED <<scriptVars, i, stats, stored, summary, history>>

----------------------------------------------------------------------------
(* testsum.sh.                                                             *)

\* A variant with a fault: a battery with no failed operation has passed.
passedNoFailure(line) == line.failed = 0

\* Every operation, with the connection and the disconnection, has succeeded.
passed(line) == line.succeded + line.connection + line.disconnection = line.operations

\* The operations that failed are counted in the batteries that have not passed.
extract_info(line) ==
    /\ round = 3 /\ line \in log
    /\ log' = log \ {line}
    /\ summary' = [summary EXCEPT
          ![line.test].total = @ + 1,
          ![line.test].testg = IF passed(line) THEN @ + 1 ELSE @,
          ![line.test].testb = @ + line.succeded + line.failed,
          ![line.test].testf = IF passed(line) THEN @ ELSE @ + line.failed]
    /\ UNCHANGED <<scriptVars, pc, i, stats, stored, history>>

Terminated == round = 3 /\ log = {} /\ UNCHANGED vars

Next ==
    \/ Listen \/ Launch \/ Terminated
    \/ \E p \in Processes :
          os_connect(p) \/ test1(p) \/ test2(p) \/ test3(p) \/ os_disconnect(p) \/ LOG(p)
          \/ Die(p)
    \/ \E line \in log : extract_info(line)

Spec == Init /\ [][Next]_vars

----------------------------------------------------------------------------
(* Properties.                                                             *)

Summed == round = 3 /\ log = {}

FailedCalls(p) == {call \in CONNECT .. DISCONNECT : <<p, call>> \in failed}

Batteries(t) == {p \in Processes : Test(p) = t}

\* The process has logged its line.
Logged(p) == pc[p] = "exited"

\* The batteries that testsum.sh counts as passed are those in which no call of the
\* library has failed: "se tutte le operazioni sono andate a buon fine il test e'
\* passato" (testsum.sh:43).  The last call is the exception: what the line says of
\* the disconnection is what is known of the connection (client.c:193).  So are the
\* processes that are killed, which no line tells of.
PassedHaveNoFailure ==
    Summed => \A t \in 1 .. 3 :
        summary[t].testg =
            Cardinality({p \in Batteries(t) :
                            Logged(p) /\ FailedCalls(p) \subseteq {DISCONNECT}})

\* The operations testsum.sh counts are those the clients have made, if they lived to
\* say so, and those it counts as failed are those that have failed.
OperationsCounted ==
    Summed => \A t \in 1 .. 3 :
        /\ summary[t].testb =
            Cardinality({m \in made : Test(m[1]) = t /\ Logged(m[1])})
        /\ summary[t].testf =
            Cardinality({m \in made \cap failed : Test(m[1]) = t /\ Logged(m[1])})

\* An operation on an object in the second round fails only when the server has
\* refused it or one before it, or its client could not connect, or store the object
\* or one before it, or died in doing so, in the first: no process of the first round
\* is still at work.
FailuresExplained ==
    \A c \in Clients, o \in Objects :
        <<<<c, 2>>, o>> \in failed =>
            \E call \in CONNECT .. o :
                <<<<c, 1>>, call>> \in failed \/ <<<<c, 2>>, call>> \in refused

=============================================================================
