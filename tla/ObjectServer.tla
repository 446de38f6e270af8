---------------------------- MODULE ObjectServer ----------------------------
(***************************************************************************)
(* The object store server of server.c and serverapi.c: the main thread    *)
(* that accepts connections, one worker thread per connection, the signal  *)
(* thread, the statistics they share and the files they keep, together     *)
(* with the clients as the library api.c lets them behave.                 *)
(*                                                                         *)
(* The steps of a worker are its critical sections of mutex_stats and its  *)
(* system calls that another thread can observe; whatever lies between two *)
(* of them is local and belongs to the step before.                        *)
(*                                                                         *)
(* A STORE refused before its block is read leaves the block on the        *)
(* socket, and a RETRIEVE may be answered twice: from then on the two ends *)
(* of the connection are out of step (astray).  The client does not wait   *)
(* for the answers to its requests any more, and the worker parses what is *)
(* left of a block as its next header: it may spell any request, or none.  *)
(*                                                                         *)
(* The blocks have no NUL byte: what one does is in Connection.            *)
(***************************************************************************)
EXTENDS Statistics, FileStore

CONSTANTS
    NoObject, NoValue,  \* absent parameters of a request
    MaxRequests,        \* bound: requests of a connection after its REGISTER
    MaxLeftovers,       \* bound: requests parsed from what is left, beyond MaxRequests
    MaxRestarts,        \* bound: times the server is killed or stopped and run again
    Discipline,         \* when a second client may use the name of another
    Faults,             \* the system calls that may fail
    Spelled             \* the requests the blocks of the clients may spell

ASSUME NoParameterAssumption == NoObject \notin Objects /\ NoValue \notin Values
ASSUME BoundsAssumption ==
    MaxRequests \in Nat /\ MaxLeftovers \in Nat /\ MaxRestarts \in Nat

\* "any": clients share names freely.  "sequential": a client connects once the
\* previous connection of its name is closed, as the runs of test_script.sh do.
\* "exclusive": it also waits until the worker of that connection is gone.
ASSUME DisciplineAssumption == Discipline \in {"any", "sequential", "exclusive"}

ASSUME FaultsAssumption ==
    Faults \subseteq {"pthread_create", "select", "mkdir_store", "mkdir_user", "opendir",
                      "open", "fstat", "read", "write", "unlink"}

VARIABLES
    peer,       \* the name the client of each connection uses
    open,       \* is the connection open at both ends
    issued,     \* number of requests after REGISTER
    astray,     \* have the two ends of each connection got out of step
    renamed,    \* history: the names mixed up by a second REGISTER of a connection
    request,    \* the request on the socket or being served, or NoRequest
    reply,      \* the responses to the last request
    sent,       \* the data that followed a DATA response
    pc,             \* where each worker is in workerFunction
    userName,       \* workerFunction's userName
    worker_error,   \* workerFunction's worker_error
    left,           \* bytes a STORE or a RETRIEVE still has to transfer
    main,           \* where the main thread is
    scanned,        \* files getDirCounters has counted so far
    loop_breaker, global_failure, active_threads_counter,
    restarts        \* number of times the server has been run again

connVars == <<peer, open, issued, astray, renamed>>
ioVars == <<request, reply, sent>>
workerVars == <<pc, userName, worker_error, left>>
mainVars == <<main, scanned, loop_breaker, global_failure,
              active_threads_counter, restarts>>

vars == <<statsVars, fsVars, connVars, ioVars, workerVars, mainVars>>

----------------------------------------------------------------------------
\* obj is the header's nameParam: the name of a user or of an object.
Requests ==
    [cmd : {"REGISTER"}, obj : Users, val : {NoValue}]
    \cup [cmd : {"LEAVE"}, obj : {NoObject}, val : {NoValue}]
    \cup [cmd : {"DELETE", "RETRIEVE"}, obj : Objects, val : {NoValue}]
    \cup [cmd : {"STORE"}, obj : Objects, val : Values]

Request(cmd, obj, val) == [cmd |-> cmd, obj |-> obj, val |-> val]

NoRequest == Request("NONE", NoObject, NoValue)

ASSUME SpelledAssumption == Spelled \subseteq Requests

\* The blocks of this instance's clients spell no REGISTER.
NoRegisterSpelled == \A r \in Spelled : r.cmd # "REGISTER"

\* OK, KO, and the KO responses of messages.h that carry a message.  STRAY is
\* what a client out of step receives in the place of its answer.
Responses == {"OK", "KO", "KO_FATAL", "KO_IN_USE", "KO_NOT_FOUND", "DATA", "STRAY"}

Errors == {"NO_SERVERW_ERROR", "STORE_DIRECTORY_UNAVAILABLE",
           "CLIENT_DIRECTORY_UNAVAILABLE", "CLIENT_ALREADY_IN_USE",
           "SHARED_DATA_ERROR", "FILE_NOT_FOUND", "COMMUNICATION_ERROR",
           "DATA_ERROR"}

\* The steps of a request, after the first one.
Handling == {"register_check", "register_add", "delete_remove",
             "store_open", "storing", "retrieving"}

Looping == {"guard", "select"}

Ending == {"closing", "removing", "exiting"}

Locations == {"none", "exited"} \cup Looping \cup Handling \cup Ending

Live(c) == pc[c] \notin {"none", "exited"}

Path(c) == <<userName[c], request[c].obj>>

ConnTypeOK ==
    /\ peer \in [Conns -> Users \cup {NoUser}]
    /\ open \in [Conns -> BOOLEAN]
    /\ issued \in [Conns -> 0 .. MaxRequests + MaxLeftovers]
    /\ astray \in [Conns -> BOOLEAN]
    /\ renamed \in SUBSET Users

IOTypeOK ==
    /\ request \in [Conns -> Requests \cup {NoRequest}]
    /\ reply \in [Conns -> Seq(Responses)]
    /\ sent \in [Conns -> Contents]

WorkerTypeOK ==
    /\ pc \in [Conns -> Locations]
    /\ userName \in [Conns -> Users \cup {NoUser}]
    /\ worker_error \in [Conns -> Errors]
    /\ left \in [Conns -> Nat]

MainTypeOK ==
    /\ main \in {"scanning", "guard", "select", "waiting", "exited"}
    /\ scanned \in SUBSET Paths
    /\ loop_breaker \in BOOLEAN
    /\ global_failure \in BOOLEAN
    /\ active_threads_counter \in Int
    /\ restarts \in 0 .. MaxRestarts

\* Every variable has its type.
TypeOK ==
    /\ StatsTypeOK
    /\ FileStoreTypeOK
    /\ ConnTypeOK
    /\ IOTypeOK
    /\ WorkerTypeOK
    /\ MainTypeOK

\* The process starts on the data directory an earlier run has left: every
\* file in it is a whole object in the directory of a user.
Init ==
    /\ StatsInit
    /\ userdirs \in SUBSET Users
    /\ \E saved \in [Paths -> Values \cup {NoValue}] :
        /\ \A p \in Paths : p[1] \notin userdirs => saved[p] = NoValue
        /\ entry = [p \in Paths |-> IF saved[p] = NoValue THEN NoInode ELSE p]
        /\ inode = [i \in Inodes |->
                        IF i \in Paths
                        THEN IF saved[i] = NoValue THEN <<>> ELSE Whole(saved[i])
                        ELSE <<>>]
    /\ fd = [c \in Conns |-> NoInode]
    /\ offset = [c \in Conns |-> 0]
    /\ peer = [c \in Conns |-> NoUser]
    /\ open = [c \in Conns |-> FALSE]
    /\ issued = [c \in Conns |-> 0]
    /\ astray = [c \in Conns |-> FALSE]
    /\ renamed = {}
    /\ request = [c \in Conns |-> NoRequest]
    /\ reply = [c \in Conns |-> <<>>]
    /\ sent = [c \in Conns |-> <<>>]
    /\ pc = [c \in Conns |-> "none"]
    /\ userName = [c \in Conns |-> NoUser]
    /\ worker_error = [c \in Conns |-> "NO_SERVERW_ERROR"]
    /\ left = [c \in Conns |-> 0]
    /\ main = "scanning"
    /\ scanned = {}
    /\ loop_breaker = FALSE
    /\ global_failure = FALSE
    /\ active_threads_counter = 0
    /\ restarts = 0

----------------------------------------------------------------------------
(* Startup: initializeStatistics counts what is in the data directory      *)
(* before any other thread exists; mutex_stats is held throughout.         *)

ScanUser(u) ==
    /\ main = "scanning"
    /\ u \in userdirs
    /\ ~isInList(allclients, u)
    /\ countUser(u)
    /\ UNCHANGED <<fsVars, connVars, ioVars, workerVars, mainVars>>

ScanFile(p) ==
    /\ main = "scanning"
    /\ isInList(allclients, p[1])
    /\ p \in Stored \ scanned
    /\ addFile(Len(Content(p)))
    /\ scanned' = scanned \cup {p}
    /\ UNCHANGED <<fsVars, connVars, ioVars, workerVars, main, loop_breaker,
                   global_failure, active_threads_counter, restarts>>

\* The directories are read to their end; then the signal thread is created
\* and the socket bound.
Listen ==
    /\ main = "scanning"
    /\ \A u \in userdirs : isInList(allclients, u)
    /\ Stored \subseteq scanned
    /\ main' = "guard"
    /\ scanned' = {}
    /\ UNCHANGED <<statsVars, fsVars, connVars, ioVars, workerVars, loop_breaker,
                   global_failure, active_threads_counter, restarts>>

----------------------------------------------------------------------------
(* The main thread and the signal thread.                                  *)

MainGuard ==
    /\ main = "guard"
    /\ main' = IF loop_breaker \/ global_failure THEN "waiting" ELSE "select"
    /\ UNCHANGED <<statsVars, fsVars, connVars, ioVars, workerVars, scanned,
                   loop_breaker, global_failure, active_threads_counter, restarts>>

\* select times out.  When it fails main exits at once, without waiting for its
\* workers: that is the killed process of Restart (and Lifecycle's SelectFails).
AcceptTimeout ==
    /\ main = "select"
    /\ main' = "guard"
    /\ UNCHANGED <<statsVars, fsVars, connVars, ioVars, workerVars, scanned,
                   loop_breaker, global_failure, active_threads_counter, restarts>>

\* Names are personal: when may a client with name u connect.
MayConnect(u) ==
    \A d \in Conns : peer[d] = u =>
        CASE Discipline = "any" -> TRUE
          [] Discipline = "sequential" -> ~open[d]
          [] Discipline = "exclusive" -> ~Live(d)

\* The client of connection c runs os_connect(u): its REGISTER is on the
\* socket when main accepts the connection and creates the worker, both under
\* active_threads_mutex with the increment of the counter.
createWorker(c, u) ==
    /\ main = "select"
    /\ pc[c] = "none"
    /\ MayConnect(u)
    /\ main' = "guard"
    /\ peer' = [peer EXCEPT ![c] = u]
    /\ open' = [open EXCEPT ![c] = TRUE]
    /\ request' = [request EXCEPT ![c] = Request("REGISTER", u, NoValue)]
    /\ pc' = [pc EXCEPT ![c] = "guard"]
    /\ active_threads_counter' = active_threads_counter + 1
    /\ UNCHANGED <<statsVars, fsVars, issued, astray, renamed, reply, sent, userName,
                   worker_error, left, scanned, loop_breaker, global_failure, restarts>>

\* A variant with a fault: a thread that was not created is counted.
createWorkerMiscounts(c) ==
    /\ "pthread_create" \in Faults
    /\ main = "select"
    /\ pc[c] = "none"
    /\ main' = "guard"
    /\ pc' = [pc EXCEPT ![c] = "exited"]
    /\ active_threads_counter' = active_threads_counter + 1
    /\ UNCHANGED <<statsVars, fsVars, connVars, ioVars, userName, worker_error, left,
                   scanned, loop_breaker, global_failure, restarts>>

\* pthread_create fails: the connection is closed without an answer.
createWorkerFails(c) ==
    /\ "pthread_create" \in Faults
    /\ main = "select"
    /\ pc[c] = "none"
    /\ main' = "guard"
    /\ pc' = [pc EXCEPT ![c] = "exited"]
    /\ UNCHANGED <<statsVars, fsVars, connVars, ioVars, userName, worker_error, left,
                   scanned, loop_breaker, global_failure, active_threads_counter,
                   restarts>>

\* Any of the blocked signals, at any time after the thread is created.
sighandler ==
    /\ main \notin {"scanning", "exited"}
    /\ ~loop_breaker
    /\ loop_breaker' = TRUE
    /\ UNCHANGED <<statsVars, fsVars, connVars, ioVars, workerVars, main, scanned,
                   global_failure, active_threads_counter, restarts>>

\* A variant with a fault: main does not wait.
exitAtOnce ==
    /\ main = "waiting"
    /\ main' = "exited"
    /\ UNCHANGED <<statsVars, fsVars, connVars, ioVars, workerVars, scanned,
                   loop_breaker, global_failure, active_threads_counter, restarts>>

\* waitActiveThreads returns and main exits.
waitActiveThreads ==
    /\ main = "waiting"
    /\ active_threads_counter = 0
    /\ main' = "exited"
    /\ UNCHANGED <<statsVars, fsVars, connVars, ioVars, workerVars, scanned,
                   loop_breaker, global_failure, active_threads_counter, restarts>>

\* The process is killed at any point, or has exited (a select of main that fails
\* ends it too), and is run again: only the files outlive it.  Bounded by
\* MaxRestarts.
Restart ==
    /\ restarts < MaxRestarts
    /\ main # "scanning"
    /\ restarts' = restarts + 1
    /\ nusers' = 0 /\ nonline' = 0 /\ nfiles' = 0 /\ dimension' = 0
    /\ allclients' = createList /\ onlineclients' = createList
    /\ fd' = [c \in Conns |-> NoInode]
    /\ offset' = [c \in Conns |-> 0]
    /\ inode' = Freed(inode, entry, fd')
    /\ open' = [c \in Conns |-> FALSE]
    /\ request' = [c \in Conns |-> NoRequest]
    /\ issued' = [c \in Conns |-> 0]
    /\ renamed' = {}
    /\ reply' = [c \in Conns |-> <<>>]
    /\ sent' = [c \in Conns |-> <<>>]
    /\ pc' = [c \in Conns |-> IF Live(c) THEN "exited" ELSE pc[c]]
    /\ userName' = [c \in Conns |-> NoUser]
    /\ worker_error' = [c \in Conns |-> "NO_SERVERW_ERROR"]
    /\ left' = [c \in Conns |-> 0]
    /\ main' = "scanning"
    /\ scanned' = {}
    /\ loop_breaker' = FALSE
    /\ global_failure' = FALSE
    /\ active_threads_counter' = 0
    /\ UNCHANGED <<userdirs, entry, peer, astray>>

----------------------------------------------------------------------------
(* The clients.                                                            *)

\* The client, registered and with no answer pending, sends a request.
\* userName is set in the step that sends it the OK of its REGISTER.  A client out
\* of step takes something else for the answer to this request.
ClientRequest(c, r) ==
    /\ open[c]
    /\ pc[c] \in Looping
    /\ r.cmd # "REGISTER"
    /\ userName[c] # NoUser
    /\ request[c] = NoRequest
    /\ issued[c] < MaxRequests
    /\ issued' = [issued EXCEPT ![c] = @ + 1]
    /\ request' = [request EXCEPT ![c] = r]
    /\ reply' = [reply EXCEPT ![c] = IF astray[c] THEN <<"STRAY">> ELSE <<>>]
    /\ sent' = [sent EXCEPT ![c] = <<>>]
    /\ UNCHANGED <<statsVars, fsVars, peer, open, astray, renamed, workerVars, mainVars>>

\* The client closes its socket or dies, at any time.
ClientClose(c) ==
    /\ open[c]
    /\ open' = [open EXCEPT ![c] = FALSE]
    /\ UNCHANGED <<statsVars, fsVars, peer, issued, astray, renamed, ioVars, workerVars,
                   mainVars>>

----------------------------------------------------------------------------
(* workerFunction: the loop.                                               *)

\* A variant with a fault: the loop does not look at the signal.
LoopGuardDeaf(c) ==
    /\ pc[c] = "guard"
    /\ pc' = [pc EXCEPT ![c] = IF global_failure THEN "closing" ELSE "select"]
    /\ UNCHANGED <<statsVars, fsVars, connVars, ioVars, userName, worker_error, left,
                   mainVars>>

\* The conditions of the loop, before each select.
LoopGuard(c) ==
    /\ pc[c] = "guard"
    /\ pc' = [pc EXCEPT ![c] = IF loop_breaker \/ global_failure
                               THEN "closing" ELSE "select"]
    /\ UNCHANGED <<statsVars, fsVars, connVars, ioVars, userName, worker_error, left,
                   mainVars>>

\* A variant with a fault: the set of descriptors is not made anew for each select,
\* and what has arrived is not seen.
SelectUnset(c) ==
    /\ pc[c] = "select"
    /\ pc' = [pc EXCEPT ![c] = "guard"]
    /\ UNCHANGED <<statsVars, fsVars, connVars, ioVars, userName, worker_error, left,
                   mainVars>>

SelectTimeout(c) ==
    /\ pc[c] = "select"
    /\ request[c] = NoRequest /\ open[c]
    /\ pc' = [pc EXCEPT ![c] = "guard"]
    /\ UNCHANGED <<statsVars, fsVars, connVars, ioVars, userName, worker_error, left,
                   mainVars>>

\* The worker gives up its connection when select fails.
SelectFails(c) ==
    /\ pc[c] = "select"
    /\ "select" \in Faults
    /\ pc' = [pc EXCEPT ![c] = "closing"]
    /\ UNCHANGED <<statsVars, fsVars, connVars, ioVars, userName, worker_error, left,
                   mainVars>>

\* read returns the end of the stream, or what is left of a block.
Leftover(c) == pc[c] = "select" /\ request[c] = NoRequest /\ (~open[c] \/ astray[c])

\* A variant with a fault: the end of the stream is tried again.
ReadAgain(c) ==
    /\ Leftover(c)
    /\ pc' = [pc EXCEPT ![c] = "guard"]
    /\ UNCHANGED <<statsVars, fsVars, connVars, ioVars, userName, worker_error, left,
                   mainVars>>

\* read returns no header.
ReadNoHeader(c) ==
    /\ Leftover(c)
    /\ pc' = [pc EXCEPT ![c] = "closing"]
    /\ UNCHANGED <<statsVars, fsVars, connVars, ioVars, userName, worker_error, left,
                   mainVars>>

\* What is left of a block, or of the requests of a client out of step, is the
\* header r; the data that follow it are its block.  A request of the client read
\* together with what is before it is lost: it has not been sent.  Bounded by
\* MaxRequests and MaxLeftovers together.
LeftoverRequest(c, r) ==
    /\ Leftover(c)
    /\ astray[c]
    /\ r \in Spelled
    /\ issued[c] < MaxRequests + MaxLeftovers
    /\ issued' = [issued EXCEPT ![c] = @ + 1]
    /\ request' = [request EXCEPT ![c] = r]
    /\ reply' = [reply EXCEPT ![c] = <<"STRAY">>]
    /\ sent' = [sent EXCEPT ![c] = <<>>]
    /\ UNCHANGED <<statsVars, fsVars, peer, open, astray, renamed, workerVars, mainVars>>

\* A request has been read and parsed: registerFun and the others take over.
Dispatch(c, cmd) == pc[c] = "select" /\ request[c].cmd = cmd

\* The handler goes on at `next`, worker_error being e so far.
Continue(c, e, next) ==
    /\ worker_error' = [worker_error EXCEPT ![c] = e]
    /\ pc' = [pc EXCEPT ![c] = next]
    /\ UNCHANGED ioVars

\* The request is over without a response.  A worker whose worker_error is
\* COMMUNICATION_ERROR leaves the loop.
Finish(c, e, next) ==
    /\ worker_error' = [worker_error EXCEPT ![c] = e]
    /\ request' = [request EXCEPT ![c] = NoRequest]
    /\ pc' = [pc EXCEPT ![c] = IF e = "COMMUNICATION_ERROR" THEN "closing" ELSE next]

\* The request is over and writeToClient sends response r: worker_error stays
\* e if the client is there to receive it.
Answer(c, e, r, next) ==
    /\ Finish(c, IF open[c] THEN e ELSE "COMMUNICATION_ERROR", next)
    /\ reply' = IF open[c] THEN [reply EXCEPT ![c] = Append(@, r)] ELSE reply
    /\ UNCHANGED sent

\* From this step on the two ends are out of step if `now`.
GoesAstray(c, now) ==
    /\ astray' = [astray EXCEPT ![c] = @ \/ now]
    /\ UNCHANGED <<peer, open, issued, renamed>>

----------------------------------------------------------------------------
(* REGISTER: registerFun and its case in workerFunction.  checkIfOnline    *)
(* and addClientOnline are two critical sections.                          *)

Register(c) ==
    /\ Dispatch(c, "REGISTER")
    /\ \/ /\ mkdir(request[c].obj)
          /\ Continue(c, "NO_SERVERW_ERROR", "register_check")
          /\ UNCHANGED global_failure
       \/ /\ "mkdir_store" \in Faults
          /\ global_failure' = TRUE
          /\ Answer(c, "STORE_DIRECTORY_UNAVAILABLE", "KO_FATAL", "closing")
          /\ UNCHANGED userdirs
       \/ /\ "mkdir_user" \in Faults
          /\ Answer(c, "CLIENT_DIRECTORY_UNAVAILABLE", "KO", "closing")
          /\ UNCHANGED <<userdirs, global_failure>>
    /\ UNCHANGED <<statsVars, entry, inode, fd, offset, connVars, userName, left, main,
                   scanned, loop_breaker, active_threads_counter, restarts>>

RegisterCheck(c) ==
    /\ pc[c] = "register_check"
    /\ IF checkIfOnline(request[c].obj)
       THEN Answer(c, "CLIENT_ALREADY_IN_USE", "KO_IN_USE", "closing")
       ELSE Continue(c, worker_error[c], "register_add")
    /\ UNCHANGED <<statsVars, fsVars, connVars, userName, left, mainVars>>

\* strncpy copies the name and no terminator: over a name already there, that of
\* an earlier REGISTER of this connection, it may leave the tail of that name.
RegisterAdd(c) ==
    /\ pc[c] = "register_add"
    /\ addClientOnline(request[c].obj)
    /\ \E u \in Users :
        /\ userName[c] = NoUser => u = request[c].obj
        /\ userName' = [userName EXCEPT ![c] = u]
    /\ renamed' = IF userName[c] = NoUser THEN renamed
                  ELSE renamed \cup {userName[c], request[c].obj}
    /\ Answer(c, worker_error[c], "OK", "guard")
    /\ UNCHANGED <<fsVars, peer, open, issued, astray, left, mainVars>>

----------------------------------------------------------------------------
(* LEAVE: leaveFun does not reset worker_error, and its case always        *)
(* answers OK.                                                             *)

Leave(c) ==
    /\ Dispatch(c, "LEAVE")
    /\ LET e == IF checkIfOnline(userName[c]) THEN worker_error[c]
                ELSE "SHARED_DATA_ERROR"
       IN /\ global_failure' = (global_failure \/ e = "SHARED_DATA_ERROR")
          /\ Answer(c, e, "OK", "closing")
    /\ removeClientOnline(userName[c])
    /\ UNCHANGED <<fsVars, connVars, userName, left, main, scanned, loop_breaker,
                   active_threads_counter, restarts>>

----------------------------------------------------------------------------
(* removeFile: stat, unlink and the update of the counters, all under      *)
(* mutex_stats.  res is what it returns.                                   *)

\* A variant with a fault: the counters change and the file stays.
removeFileCount(p, res) ==
    /\ res = (IF entry[p] # NoInode THEN 0 ELSE -1)
    /\ IF res = 0 THEN subtractFile(Len(Content(p))) ELSE UNCHANGED statsVars
    /\ UNCHANGED fsVars

removeFile(p, res) ==
    \/ /\ res = 0
       /\ entry[p] # NoInode
       /\ subtractFile(Len(Content(p)))
       /\ unlink(p)
    \/ /\ res = -1
       /\ entry[p] = NoInode \/ "unlink" \in Faults
       /\ UNCHANGED <<statsVars, fsVars>>

----------------------------------------------------------------------------
(* DELETE: deleteFun looks the name up in the directory, then removes it.  *)

\* A variant with a fault: the file is not looked up before it is removed.
DeleteUnseen(c) ==
    /\ Dispatch(c, "DELETE")
    /\ Continue(c, "NO_SERVERW_ERROR", "delete_remove")
    /\ UNCHANGED <<statsVars, fsVars, connVars, userName, left, mainVars>>

Delete(c) ==
    /\ Dispatch(c, "DELETE")
    /\ \/ /\ "opendir" \in Faults
          /\ Answer(c, "CLIENT_DIRECTORY_UNAVAILABLE", "KO_FATAL", "closing")
       \/ /\ entry[Path(c)] = NoInode
          /\ Answer(c, "FILE_NOT_FOUND", "KO_NOT_FOUND", "guard")
       \/ /\ entry[Path(c)] # NoInode
          /\ Continue(c, "NO_SERVERW_ERROR", "delete_remove")
    /\ UNCHANGED <<statsVars, fsVars, connVars, userName, left, mainVars>>

DeleteRemove(c) ==
    /\ pc[c] = "delete_remove"
    /\ \/ /\ removeFile(Path(c), 0)
          /\ Answer(c, worker_error[c], "OK", "guard")
       \/ /\ removeFile(Path(c), -1)
          /\ Answer(c, "SHARED_DATA_ERROR", "KO", "guard")
    /\ UNCHANGED <<connVars, userName, left, mainVars>>

----------------------------------------------------------------------------
(* STORE: storeFun.  The old object is removed first; the new one is       *)
(* written as its data arrives and counted once it is complete.  What is   *)
(* already in the header's buffer is the first of the units to arrive.     *)

Store(c) ==
    /\ Dispatch(c, "STORE")
    /\ \E res \in {0, -1} : removeFile(Path(c), res)
    /\ left' = [left EXCEPT ![c] = Size[request[c].val]]
    /\ Continue(c, worker_error[c], "store_open")
    /\ UNCHANGED <<connVars, userName, mainVars>>

StoreOpen(c) ==
    /\ pc[c] = "store_open"
    /\ openTrunc(c, Path(c))
    /\ Continue(c, worker_error[c], "storing")
    /\ UNCHANGED <<statsVars, connVars, userName, left, mainVars>>

\* Nobody reads the block: what the header's buffer does not hold of it is left.
StoreOpenFails(c) ==
    /\ pc[c] = "store_open"
    /\ "open" \in Faults
    /\ Answer(c, "DATA_ERROR", "KO", "guard")
    /\ \E unread \in BOOLEAN : (unread => left[c] > 0) /\ GoesAstray(c, unread)
    /\ left' = [left EXCEPT ![c] = 0]
    /\ UNCHANGED <<statsVars, fsVars, userName, mainVars>>

\* A unit of data arrives; the result of write is not looked at.
StoreChunk(c) ==
    /\ pc[c] = "storing"
    /\ left[c] > 0
    /\ \/ write(c, request[c].val)
       \/ "write" \in Faults /\ UNCHANGED fsVars
    /\ left' = [left EXCEPT ![c] = @ - 1]
    /\ UNCHANGED <<statsVars, connVars, ioVars, pc, userName, worker_error, mainVars>>

\* A variant with a fault: the part of the block that has arrived stays in the store.
StoreAbortKeeps(c) ==
    /\ pc[c] = "storing"
    /\ left[c] > 0
    /\ ~open[c]
    /\ close(c)
    /\ Finish(c, "COMMUNICATION_ERROR", "closing")
    /\ left' = [left EXCEPT ![c] = 0]
    /\ UNCHANGED <<statsVars, connVars, reply, sent, userName, mainVars>>

\* The client has gone before its last byte: read returns 0.  The KO that is
\* then written reaches nobody.
StoreAbort(c) ==
    /\ pc[c] = "storing"
    /\ left[c] > 0
    /\ ~open[c]
    /\ \/ closeUnlink(c, Path(c))
       \/ "unlink" \in Faults /\ close(c)
    /\ Finish(c, "COMMUNICATION_ERROR", "closing")
    /\ left' = [left EXCEPT ![c] = 0]
    /\ UNCHANGED <<statsVars, connVars, reply, sent, userName, mainVars>>

\* A variant with a fault: the last unit of a block is not waited for.
StoreFinishEarly(c) ==
    /\ pc[c] = "storing"
    /\ left[c] <= 1
    /\ close(c)
    /\ addFile(Size[request[c].val])
    /\ Answer(c, worker_error[c],
              IF worker_error[c] = "NO_SERVERW_ERROR" THEN "OK" ELSE "KO", "guard")
    /\ left' = [left EXCEPT ![c] = 0]
    /\ UNCHANGED <<connVars, userName, mainVars>>

\* The answer is chosen by worker_error, which storeFun has not reset.
StoreFinish(c) ==
    /\ pc[c] = "storing"
    /\ left[c] = 0
    /\ close(c)
    /\ addFile(Size[request[c].val])
    /\ Answer(c, worker_error[c],
              IF worker_error[c] = "NO_SERVERW_ERROR" THEN "OK" ELSE "KO", "guard")
    /\ UNCHANGED <<connVars, userName, left, mainVars>>

----------------------------------------------------------------------------
(* RETRIEVE: retrieveFun sends a header with the length of the file and    *)
(* then that many bytes, read from the descriptor it has opened.           *)

\* The response to a RETRIEVE whose worker_error is e.
RetrieveError(e) == IF e = "FILE_NOT_FOUND" THEN "KO_NOT_FOUND" ELSE "KO"

Retrieve(c) ==
    /\ Dispatch(c, "RETRIEVE")
    /\ entry[Path(c)] # NoInode
    /\ IF open[c]
       THEN /\ openRead(c, Path(c))
            /\ left' = [left EXCEPT ![c] = Len(Content(Path(c)))]
            /\ reply' = [reply EXCEPT ![c] = Append(@, "DATA")]
            /\ pc' = [pc EXCEPT ![c] = "retrieving"]
            /\ UNCHANGED <<request, sent, worker_error>>
       ELSE /\ Finish(c, "COMMUNICATION_ERROR", "closing")
            /\ UNCHANGED <<fsVars, left, reply, sent>>
    /\ UNCHANGED <<statsVars, connVars, userName, mainVars>>

RetrieveFails(c) ==
    /\ Dispatch(c, "RETRIEVE")
    /\ \E e \in {"FILE_NOT_FOUND", "DATA_ERROR"} :
        /\ e = "FILE_NOT_FOUND" => entry[Path(c)] = NoInode \/ "open" \in Faults
        /\ e = "DATA_ERROR" => entry[Path(c)] # NoInode /\ "fstat" \in Faults
        /\ Answer(c, e, RetrieveError(e), "guard")
    /\ UNCHANGED <<statsVars, fsVars, connVars, userName, left, mainVars>>

AtEnd(c) == offset[c] >= Len(inode[fd[c]])

RetrieveChunk(c) ==
    /\ pc[c] = "retrieving"
    /\ left[c] > 0
    /\ ~AtEnd(c)
    /\ open[c]
    /\ sent' = [sent EXCEPT ![c] = Append(@, inode[fd[c]][offset[c] + 1])]
    /\ left' = [left EXCEPT ![c] = @ - 1]
    /\ offset' = [offset EXCEPT ![c] = @ + 1]
    /\ UNCHANGED <<statsVars, userdirs, entry, inode, fd, connVars, request, reply, pc,
                   userName, worker_error, mainVars>>

\* The client has gone (writen fails) or the file cannot be read; in the second
\* case the client takes the KO that is sent for the rest of the data.
RetrieveChunkFails(c) ==
    /\ pc[c] = "retrieving"
    /\ left[c] > 0
    /\ \/ /\ ~open[c] /\ ~AtEnd(c)
          /\ Finish(c, "COMMUNICATION_ERROR", "closing")
          /\ UNCHANGED <<reply, connVars>>
       \/ /\ "read" \in Faults
          /\ Finish(c, IF open[c] THEN "DATA_ERROR" ELSE "COMMUNICATION_ERROR", "guard")
          /\ reply' = [reply EXCEPT ![c] = <<"STRAY">>]
          /\ GoesAstray(c, TRUE)
    /\ close(c)
    /\ left' = [left EXCEPT ![c] = 0]
    /\ UNCHANGED <<statsVars, sent, userName, mainVars>>

\* The file has become shorter than the length announced: read returns 0, writen
\* sends nothing and succeeds, and the loop goes round without progress.
RetrieveSpin(c) ==
    /\ pc[c] = "retrieving"
    /\ left[c] > 0
    /\ AtEnd(c)
    /\ UNCHANGED vars

\* retrieveFun has not reset worker_error either: an error of an earlier
\* request is answered after the data of this one, and no request is waiting for
\* that answer.
RetrieveFinish(c) ==
    /\ pc[c] = "retrieving"
    /\ left[c] = 0
    /\ close(c)
    /\ IF worker_error[c] = "NO_SERVERW_ERROR"
       THEN Finish(c, worker_error[c], "guard") /\ UNCHANGED <<reply, sent>>
       ELSE Answer(c, worker_error[c], RetrieveError(worker_error[c]), "guard")
    /\ GoesAstray(c, worker_error[c] # "NO_SERVERW_ERROR")
    /\ UNCHANGED <<statsVars, userName, left, mainVars>>

----------------------------------------------------------------------------
(* The end of workerFunction.                                              *)

CloseSocket(c) ==
    /\ pc[c] = "closing"
    /\ open' = [open EXCEPT ![c] = FALSE]
    /\ request' = [request EXCEPT ![c] = NoRequest]
    /\ pc' = [pc EXCEPT ![c] = "removing"]
    /\ UNCHANGED <<statsVars, fsVars, peer, issued, astray, renamed, reply, sent,
                   userName, worker_error, left, mainVars>>

\* A variant with a fault: the worker ends and its name stays online.
endOnline(c) ==
    /\ pc[c] = "removing"
    /\ pc' = [pc EXCEPT ![c] = "exiting"]
    /\ UNCHANGED <<statsVars, fsVars, connVars, ioVars, userName, worker_error, left,
                   mainVars>>

forceRemoveClientOnline(c) ==
    /\ pc[c] = "removing"
    /\ removeClientOnline(userName[c])
    /\ pc' = [pc EXCEPT ![c] = "exiting"]
    /\ UNCHANGED <<fsVars, connVars, ioVars, userName, worker_error, left, mainVars>>

\* The thread and its locals end here, and what the client knew with them.
decrActiveThreads(c) ==
    /\ pc[c] = "exiting"
    /\ active_threads_counter' = active_threads_counter - 1
    /\ pc' = [pc EXCEPT ![c] = "exited"]
    /\ userName' = [userName EXCEPT ![c] = NoUser]
    /\ worker_error' = [worker_error EXCEPT ![c] = "NO_SERVERW_ERROR"]
    /\ issued' = [issued EXCEPT ![c] = 0]
    /\ reply' = [reply EXCEPT ![c] = <<>>]
    /\ sent' = [sent EXCEPT ![c] = <<>>]
    /\ UNCHANGED <<statsVars, fsVars, peer, open, astray, renamed, request, left, main,
                   scanned, loop_breaker, global_failure, restarts>>

----------------------------------------------------------------------------
Worker(c) ==
    \/ LoopGuard(c) \/ SelectTimeout(c) \/ SelectFails(c)
    \/ ReadNoHeader(c) \/ \E r \in Requests : LeftoverRequest(c, r)
    \/ Register(c) \/ RegisterCheck(c) \/ RegisterAdd(c)
    \/ Leave(c)
    \/ Delete(c) \/ DeleteRemove(c)
    \/ Store(c) \/ StoreOpen(c) \/ StoreOpenFails(c)
    \/ StoreChunk(c) \/ StoreAbort(c) \/ StoreFinish(c)
    \/ Retrieve(c) \/ RetrieveFails(c) \/ RetrieveChunk(c) \/ RetrieveChunkFails(c)
    \/ RetrieveSpin(c) \/ RetrieveFinish(c)
    \/ CloseSocket(c) \/ forceRemoveClientOnline(c) \/ decrActiveThreads(c)

Scan == (\E u \in Users : ScanUser(u)) \/ (\E p \in Paths : ScanFile(p)) \/ Listen

Main ==
    \/ MainGuard \/ AcceptTimeout \/ waitActiveThreads
    \/ \E c \in Conns, u \in Users : createWorker(c, u)
    \/ \E c \in Conns : createWorkerFails(c)

Client(c) == (\E r \in Requests : ClientRequest(c, r)) \/ ClientClose(c)

\* The process has exited for the last time.
Terminated == main = "exited" /\ UNCHANGED vars

Next ==
    \/ Scan \/ Main \/ sighandler \/ Restart
    \/ \E c \in Conns : Worker(c) \/ Client(c)
    \/ Terminated

Spec == Init /\ [][Next]_vars

\* Every thread keeps running.  A worker that waits for a unit of a block does
\* not wait for ever: the library sends the whole block or its process ends.
\* (A read that may fail would also let a fair worker out of RetrieveSpin, and an
\* open that fails leaves a block that may spell a STORE whose data never come:
\* neither is among the Faults of an instance that FairSpec is checked on.)
Fairness ==
    /\ WF_vars(Scan)
    /\ WF_vars(MainGuard \/ AcceptTimeout \/ waitActiveThreads)
    /\ \A c \in Conns : WF_vars(Worker(c))

FairSpec == Spec /\ Fairness

----------------------------------------------------------------------------
(* Safety.                                                                 *)

\* The workers that have registered u and have still to remove it for the last
\* time (forceRemoveClientOnline).
Sessions(u) == {c \in Conns : userName[c] = u /\ Live(c) /\ pc[c] # "exiting"}

\* Worker c serves a registered client.
Serving(c) == userName[c] # NoUser /\ pc[c] \in Looping \cup Handling

Storing(p) == \E c \in Conns : pc[c] = "storing" /\ Path(c) = p

\* The files the counters should account for.
Counted == IF main = "scanning" THEN scanned
           ELSE {p \in Stored : ~Storing(p)}

Lengths == [p \in Stored |-> Len(Content(p))]

\* The sum of the numbers f[x] over S, counted: each x stands for f[x] pairs.
Total(f, S) == Cardinality(UNION {{x} \X (1 .. f[x]) : x \in S})

\* The counters a SIGUSR1 prints agree with the lists printed below them, and
\* the list of all users holds each user once (addClientOnline, deleteList).
CountersMatchLists ==
    /\ nonline = Total(onlineclients, Users)
    /\ nusers = Cardinality({u \in Users : allclients[u] > 0})
    /\ \A u \in Users : allclients[u] <= 1 /\ (onlineclients[u] > 0 => allclients[u] = 1)

\* Whatever the order in which workers leave, are cut off and remove their name
\* twice, no name stays online once the sessions that registered it are over:
\* a client that died can always register again.  Excepted are the names a
\* connection has mixed up by registering twice, as a block left unread may spell:
\* its userName is overwritten, and nobody removes what it was.
NoGhostOnline ==
    \A u \in Users \ renamed : onlineclients[u] <= Cardinality(Sessions(u))

\* The counter waitActiveThreads waits on is the number of workers: a main that
\* has waited for it leaves no worker writing or updating the statistics.
WorkersCounted ==
    /\ active_threads_counter = Cardinality({c \in Conns : Live(c)})
    /\ main = "exited" => \A c \in Conns : ~Live(c)

\* The statistics count the objects there are: each file that is not being
\* stored, once, with its size; through overwrites, aborted stores and restarts.
AccountingExact ==
    /\ nfiles = Cardinality(Counted)
    /\ dimension = Total(Lengths, Counted)

\* A file nobody is storing holds one whole object: an aborted STORE, a signal
\* or an overwrite leaves no part of an object behind.
NoPartialObject ==
    \A p \in Stored : ~Storing(p) => \E v \in Values : Content(p) = Whole(v)

\* A client being served is listed online.
ServedIsOnline ==
    \A c \in Conns : Serving(c) => checkIfOnline(userName[c])

\* No request of a client stops the server for all of them.
NoGlobalFailure == ~global_failure

\* Once main has waited for its workers and exited, the statistics and the
\* directory are at rest: nobody is online and every file is counted.
QuiescentAtExit ==
    main = "exited" => nonline = 0 /\ nfiles = Cardinality(Stored)

----------------------------------------------------------------------------
(* What a step may do.                                                     *)

\* This step ends request cmd of c with response r.
Answered(c, cmd, r) ==
    /\ request[c].cmd = cmd
    /\ request'[c] = NoRequest
    /\ reply'[c] = Append(reply[c], r)

\* The object under c's path after this step is the block of its request.
HoldsBlock(c) ==
    entry'[Path(c)] # NoInode /\ inode'[entry'[Path(c)]] = Whole(request[c].val)

\* An OK is true when it is sent: the block is in the file, whole; the object is
\* gone; the client is online; the client is offline.
AckMeansDone ==
    [][\A c \in Conns :
        /\ Answered(c, "STORE", "OK") => HoldsBlock(c)
        /\ Answered(c, "DELETE", "OK") => entry'[Path(c)] = NoInode
        /\ Answered(c, "REGISTER", "OK") => onlineclients'[request[c].obj] = 1
        /\ Answered(c, "LEAVE", "OK") => onlineclients'[userName[c]] = 0]_vars

\* os_store "restituisce true se la memorizzazione ha avuto successo, false
\* altrimenti" (api.h:19): a KO means that the block has not been stored.
StoreRefusalMeansNotStored ==
    [][\A c \in Conns : Answered(c, "STORE", "KO") => ~HoldsBlock(c)]_vars

\* The data of a RETRIEVE served to its end is the object its path holds, whole.
RetrieveReturnsObject ==
    [][\A c \in Conns :
        pc[c] = "retrieving" /\ left[c] = 0 /\ pc'[c] # pc[c] =>
            /\ sent[c] = Content(Path(c))
            /\ \E v \in Values : sent[c] = Whole(v)]_vars

\* A client that waits for the end of its previous session is not refused.
NeverRefused ==
    [][\A c \in Conns : ~Answered(c, "REGISTER", "KO_IN_USE")]_vars

----------------------------------------------------------------------------
(* Liveness.                                                               *)

\* A RETRIEVE whose file has become shorter than the length it has announced: two
\* sessions of one name reach it, the one truncating the object the other sends.
Spinning(c) == pc[c] = "retrieving" /\ left[c] > 0 /\ AtEnd(c)

\* Every request is answered, or its connection closed; a RETRIEVE that spins is
\* the one exception.
RequestServed ==
    \A c \in Conns : request[c] # NoRequest ~> request[c] = NoRequest \/ Spinning(c)

\* The worker of a client that went away ends, and its name is freed with it,
\* unless it spins.
SessionEnds ==
    \A c \in Conns : Live(c) /\ ~open[c] ~> ~Live(c) \/ Spinning(c)

\* A signal stops the server, unless a worker spins.
SignalStops == loop_breaker ~> main = "exited" \/ \E c \in Conns : Spinning(c)

=============================================================================
