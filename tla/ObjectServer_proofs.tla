------------------------ MODULE ObjectServer_proofs -------------------------
(***************************************************************************)
(* What holds of ObjectServer for every value of its constants: the types  *)
(* of its variables, how many workers there are, and, when each name has   *)
(* one client at a time, why no session can disturb another or stop the    *)
(* server.                                                                 *)
(***************************************************************************)
EXTENDS ObjectServer, FiniteSetTheorems, TLAPS

\* What the place a worker has reached says of its request and its file.
WorkerOK(c) ==
    /\ Live(c) => peer[c] \in Users
    /\ pc[c] = "none" => ~astray[c]
    /\ Live(c) /\ astray[c] => userName[c] \in Users
    /\ request[c].cmd \in {"LEAVE", "DELETE", "RETRIEVE", "STORE"} => userName[c] \in Users
    /\ pc[c] \in {"none", "removing", "exiting", "exited"} => request[c] = NoRequest
    /\ pc[c] \in {"register_check", "register_add"} => request[c].cmd = "REGISTER"
    /\ pc[c] = "delete_remove" => request[c].cmd = "DELETE"
    /\ pc[c] \in {"store_open", "storing"} => request[c].cmd = "STORE"
    /\ pc[c] = "retrieving" => request[c].cmd = "RETRIEVE"
    /\ pc[c] \in {"storing", "retrieving"} => fd[c] \in Inodes

TypeInv == TypeOK /\ \A c \in Conns : WorkerOK(c)

-----------------------------------------------------------------------------
(* The shape of requests.                                                  *)

\* What the command of a request says of its parameters.
LEMMA RequestShape ==
    ASSUME NEW r \in Requests \cup {NoRequest}
    PROVE  /\ r.cmd \in {"NONE", "REGISTER", "LEAVE", "DELETE", "RETRIEVE", "STORE"}
           /\ r.cmd = "REGISTER" => r.obj \in Users
           /\ r.cmd \in {"DELETE", "RETRIEVE", "STORE"} => r.obj \in Objects
           /\ r.cmd = "STORE" => r.val \in Values
           /\ r.cmd = "NONE" <=> r = NoRequest
  BY DEF Requests, NoRequest, Request

\* NoRequest is no request of a client, and REGISTER is one.
LEMMA RequestMembers ==
    /\ NoRequest.cmd = "NONE"
    /\ \A u \in Users : LET r == Request("REGISTER", u, NoValue)
                       IN  r \in Requests /\ r.cmd = "REGISTER" /\ r.obj = u
  BY DEF Requests, NoRequest, Request

\* A connection that has received nothing yet, or a stray answer.
LEMMA NothingReceived ==
    <<>> \in Seq(Responses) /\ <<"STRAY">> \in Seq(Responses) /\ <<>> \in Contents
  BY DEF Contents, Responses

\* A worker that deals with a file has a path, and the block of a STORE a length.
LEMMA PathType ==
    ASSUME TypeInv, NEW c \in Conns,
           request[c].cmd \in {"DELETE", "RETRIEVE", "STORE"}
    PROVE  /\ Path(c) \in Paths
           /\ request[c].cmd = "STORE" =>
                  request[c].val \in Values /\ Size[request[c].val] \in Nat
  <1>1. request[c] \in Requests \cup {NoRequest} /\ userName[c] \in Users
    BY DEF TypeInv, TypeOK, IOTypeOK, WorkerOK
  <1>2. request[c].obj \in Objects
    BY <1>1, RequestShape
  <1>3. request[c].cmd = "STORE" => request[c].val \in Values
    BY <1>1, RequestShape
  <1>4. QED
    BY <1>1, <1>2, <1>3, SizeAssumption DEF Path, Paths

-----------------------------------------------------------------------------
(* The types of what the critical sections, the system calls and the ends  *)
(* of a request leave.                                                     *)

\* The counters and the lists, after each critical section.
LEMMA StatsTypes ==
    ASSUME StatsTypeOK
    PROVE  /\ \A u \in Users : addClientOnline(u) => StatsTypeOK'
           /\ \A u : removeClientOnline(u) => StatsTypeOK'
           /\ \A u \in Users : countUser(u) => StatsTypeOK'
           /\ \A n \in Nat : addFile(n) => StatsTypeOK'
           /\ \A n \in Nat : subtractFile(n) => StatsTypeOK'
           /\ UNCHANGED statsVars => StatsTypeOK'
  <1> USE DEF StatsTypeOK, insertList, deleteList, isInList
  <1>1. \A u \in Users : addClientOnline(u) => StatsTypeOK'
    BY DEF addClientOnline
  <1>2. \A u : removeClientOnline(u) => StatsTypeOK'
    BY DEF removeClientOnline, checkIfOnline
  <1>3. \A u \in Users : countUser(u) => StatsTypeOK'
    BY DEF countUser
  <1>4. \A n \in Nat : addFile(n) => StatsTypeOK'
    BY DEF addFile
  <1>5. \A n \in Nat : subtractFile(n) => StatsTypeOK'
    BY DEF subtractFile
  <1>6. UNCHANGED statsVars => StatsTypeOK'
    BY DEF statsVars
  <1>7. QED
    BY <1>1, <1>2, <1>3, <1>4, <1>5, <1>6

\* Freeing inodes leaves each a sequence of units.
LEMMA FreedType ==
    ASSUME NEW contents \in [Inodes -> Contents], NEW e, NEW f
    PROVE  Freed(contents, e, f) \in [Inodes -> Contents]
  BY DEF Freed, Contents

\* The directory and the files, after each system call on them.
LEMMA FileTypes ==
    ASSUME FileStoreTypeOK, NEW c \in Conns
    PROVE  /\ close(c) => FileStoreTypeOK'
           /\ UNCHANGED fsVars => FileStoreTypeOK'
           /\ \A p \in Paths :
                  /\ openTrunc(c, p) => FileStoreTypeOK' /\ fd'[c] \in Inodes
                  /\ entry[p] # NoInode /\ openRead(c, p) =>
                         FileStoreTypeOK' /\ fd'[c] \in Inodes
                  /\ unlink(p) => FileStoreTypeOK'
                  /\ closeUnlink(c, p) => FileStoreTypeOK'
                  /\ entry[p] # NoInode => Len(Content(p)) \in Nat
  <1> USE DEF FileStoreTypeOK
  <1>1. close(c) => FileStoreTypeOK'
    BY FreedType DEF close
  <1>2. UNCHANGED fsVars => FileStoreTypeOK'
    BY DEF fsVars
  <1>3. ASSUME NEW p \in Paths
        PROVE  /\ openTrunc(c, p) => FileStoreTypeOK' /\ fd'[c] \in Inodes
               /\ entry[p] # NoInode /\ openRead(c, p) =>
                      FileStoreTypeOK' /\ fd'[c] \in Inodes
               /\ unlink(p) => FileStoreTypeOK'
               /\ closeUnlink(c, p) => FileStoreTypeOK'
               /\ entry[p] # NoInode => Len(Content(p)) \in Nat
    <2>1. openTrunc(c, p) => FileStoreTypeOK' /\ fd'[c] \in Inodes
      BY DEF openTrunc, Contents
    <2>2. entry[p] # NoInode /\ openRead(c, p) => FileStoreTypeOK' /\ fd'[c] \in Inodes
      BY DEF openRead
    <2>3. unlink(p) => FileStoreTypeOK'
      BY FreedType DEF unlink
    <2>4. closeUnlink(c, p) => FileStoreTypeOK'
      BY FreedType DEF closeUnlink
    <2>5. entry[p] # NoInode => Len(Content(p)) \in Nat
      BY DEF Content, Contents
    <2>6. QED
      BY <2>1, <2>2, <2>3, <2>4, <2>5
  <1>4. QED
    BY <1>1, <1>2, <1>3

\* write leaves a sequence of units, whatever the offset it writes at.
LEMMA WriteType ==
    ASSUME FileStoreTypeOK, NEW c \in Conns, fd[c] \in Inodes,
           NEW v \in Values, write(c, v)
    PROVE  FileStoreTypeOK' /\ fd' = fd
  <1> DEFINE old == inode[fd[c]]
             pos == offset[c] + 1
             end == IF pos > Len(old) THEN pos ELSE Len(old)
             new == [n \in 1 .. end |-> IF n = pos THEN v
                                        ELSE IF n <= Len(old) THEN old[n]
                                        ELSE Hole]
  <1>1. old \in Seq(Values \cup {Hole}) /\ pos \in Nat /\ end \in Nat
    BY DEF FileStoreTypeOK, Contents
  <1>2. \A n \in 1 .. end : new[n] \in Values \cup {Hole}
    BY <1>1
  <1>3. new \in Contents
    <2>1. new \in [1 .. end -> Values \cup {Hole}]
      BY <1>2
    <2>2. QED
      BY <1>1, <2>1 DEF Contents
  <1> HIDE DEF new
  <1>4. inode' = [inode EXCEPT ![fd[c]] = new]
    BY DEF write, new
  <1>5. QED
    BY <1>1, <1>3, <1>4 DEF write, FileStoreTypeOK

\* removeFile, whatever it returns.
LEMMA RemoveTypes ==
    ASSUME StatsTypeOK, FileStoreTypeOK, NEW c \in Conns, NEW p \in Paths, NEW res,
           removeFile(p, res)
    PROVE  StatsTypeOK' /\ FileStoreTypeOK' /\ fd' = fd
  <1>1. CASE entry[p] # NoInode /\ subtractFile(Len(Content(p))) /\ unlink(p)
    BY <1>1, StatsTypes, FileTypes DEF unlink
  <1>2. CASE UNCHANGED <<statsVars, fsVars>>
    BY <1>2, StatsTypes, FileTypes DEF fsVars
  <1>3. QED
    BY <1>1, <1>2 DEF removeFile

\* A connection a step does not touch stays as it is.
LEMMA WorkerFrame ==
    ASSUME NEW d \in Conns, WorkerOK(d), peer'[d] = peer[d], pc'[d] = pc[d],
           astray'[d] = astray[d],
           request'[d] = request[d], userName'[d] = userName[d], fd'[d] = fd[d]
    PROVE  WorkerOK(d)'
  BY DEF WorkerOK, Live

\* The step that ends a request, with a response or without: a worker whose request
\* is over knows nothing but its name.
LEMMA RequestOver ==
    ASSUME TypeInv, NEW c \in Conns, Live(c),
           NEW e \in Errors, NEW r \in Responses, NEW next \in Looping \cup Ending,
           \/ Finish(c, e, next) /\ UNCHANGED <<reply, sent>>
           \/ Finish(c, e, next) /\ reply' = [reply EXCEPT ![c] = <<r>>] /\ sent' = sent
           \/ Answer(c, e, r, next),
           peer' = peer,
           \/ userName'[c] \in Users
           \/ userName'[c] = userName[c] /\ astray'[c] = astray[c],
           \A d \in Conns \ {c} :
               userName'[d] = userName[d] /\ fd'[d] = fd[d] /\ astray'[d] = astray[d]
    PROVE  /\ IOTypeOK'
           /\ pc' \in [Conns -> Locations]
           /\ worker_error' \in [Conns -> Errors]
           /\ \A d \in Conns : WorkerOK(d)'
  <1> USE DEF TypeInv, TypeOK, IOTypeOK, WorkerTypeOK
  <1>1. /\ "closing" \in Looping \cup Ending
        /\ Looping \cup Ending \subseteq Locations
        /\ "COMMUNICATION_ERROR" \in Errors
    BY DEF Locations, Looping, Ending, Errors
  <1>2. \E e2 \in Errors : Finish(c, e2, next)
    BY <1>1 DEF Answer
  <1>3. /\ pc' \in [Conns -> Locations]
        /\ worker_error' \in [Conns -> Errors]
        /\ request' \in [Conns -> Requests \cup {NoRequest}]
        /\ request'[c] = NoRequest
        /\ pc'[c] \in Looping \cup Ending
        /\ \A d \in Conns \ {c} : pc'[d] = pc[d] /\ request'[d] = request[d]
    BY <1>1, <1>2 DEF Finish
  <1>4. reply' \in [Conns -> Seq(Responses)] /\ sent' = sent
    <2>1. CASE UNCHANGED <<reply, sent>>
      BY <2>1
    <2>2. CASE Answer(c, e, r, next)
      <3>1. Append(reply[c], r) \in Seq(Responses)
        OBVIOUS
      <3>2. QED
        BY <2>2, <3>1 DEF Answer
    <2>3. CASE reply' = [reply EXCEPT ![c] = <<r>>] /\ sent' = sent
      BY <2>3
    <2>4. QED
      BY <2>1, <2>2, <2>3
  <1>5. WorkerOK(c)'
    BY <1>3, RequestMembers DEF WorkerOK, Live, Looping, Ending
  <1>6. \A d \in Conns \ {c} : WorkerOK(d)'
    BY <1>3, WorkerFrame
  <1>7. QED
    BY <1>3, <1>4, <1>5, <1>6

\* The step that leaves the rest of a request for a later one.
LEMMA RequestGoesOn ==
    ASSUME TypeInv, NEW c \in Conns, Live(c),
           NEW e \in Errors, NEW next \in Handling, Continue(c, e, next),
           peer' = peer, userName' = userName, astray' = astray,
           \A d \in Conns \ {c} : fd'[d] = fd[d],
           \/ next \in {"register_check", "register_add"} /\ request[c].cmd = "REGISTER"
           \/ next = "delete_remove" /\ request[c].cmd = "DELETE"
           \/ next = "store_open" /\ request[c].cmd = "STORE"
           \/ next = "storing" /\ request[c].cmd = "STORE" /\ fd'[c] \in Inodes
    PROVE  /\ IOTypeOK'
           /\ pc' \in [Conns -> Locations]
           /\ worker_error' \in [Conns -> Errors]
           /\ \A d \in Conns : WorkerOK(d)'
  <1> USE DEF TypeInv, TypeOK, IOTypeOK, WorkerTypeOK
  <1>1. /\ pc' \in [Conns -> Locations]
        /\ worker_error' \in [Conns -> Errors]
        /\ pc'[c] = next
        /\ \A d \in Conns \ {c} : pc'[d] = pc[d]
    BY DEF Continue, Locations
  <1>2. UNCHANGED <<request, reply, sent>>
    BY DEF Continue, ioVars
  <1>3. WorkerOK(c)'
    BY <1>1, <1>2 DEF WorkerOK, Live
  <1>4. \A d \in Conns \ {c} : WorkerOK(d)'
    BY <1>1, <1>2, WorkerFrame
  <1>5. QED
    BY <1>1, <1>2, <1>3, <1>4

-----------------------------------------------------------------------------
(* Every action preserves TypeInv.                                         *)

\* A user found in the store directory is counted.
LEMMA TypeInv_ScanUser ==
    ASSUME TypeInv, NEW u \in Users, ScanUser(u)
    PROVE  TypeInv'
  <1>1. StatsTypeOK'
    BY StatsTypes DEF TypeInv, TypeOK, ScanUser
  <1>2. FileStoreTypeOK'
    BY DEF TypeInv, TypeOK, FileStoreTypeOK, ScanUser, fsVars
  <1>3. ConnTypeOK' /\ IOTypeOK' /\ WorkerTypeOK' /\ MainTypeOK'
    BY RequestMembers
    DEF TypeInv, TypeOK, ScanUser, Locations, Looping, Handling, Ending, ConnTypeOK,
        IOTypeOK, WorkerTypeOK, MainTypeOK, connVars, ioVars, workerVars, mainVars
  <1>4. ASSUME NEW d \in Conns PROVE WorkerOK(d)'
    BY WorkerFrame DEF TypeInv, ScanUser, connVars, ioVars, workerVars, fsVars
  <1>5. QED
    BY <1>1, <1>2, <1>3, <1>4 DEF TypeInv, TypeOK

\* A file found in a user's directory is counted, with its length.
LEMMA TypeInv_ScanFile ==
    ASSUME TypeInv, NEW p \in Paths, ScanFile(p)
    PROVE  TypeInv'
  <1>1. StatsTypeOK'
    BY StatsTypes, FileTypes
    DEF TypeInv, TypeOK, FileStoreTypeOK, ScanFile, Stored, Content, Contents
  <1>2. FileStoreTypeOK'
    BY DEF TypeInv, TypeOK, FileStoreTypeOK, ScanFile, fsVars
  <1>3. ConnTypeOK' /\ IOTypeOK' /\ WorkerTypeOK' /\ MainTypeOK'
    BY RequestMembers
    DEF TypeInv, TypeOK, ScanFile, Locations, Looping, Handling, Ending, ConnTypeOK,
        IOTypeOK, WorkerTypeOK, MainTypeOK, connVars, ioVars, workerVars, mainVars
  <1>4. ASSUME NEW d \in Conns PROVE WorkerOK(d)'
    BY WorkerFrame DEF TypeInv, ScanFile, connVars, ioVars, workerVars, fsVars
  <1>5. QED
    BY <1>1, <1>2, <1>3, <1>4 DEF TypeInv, TypeOK

\* The scan ends.
LEMMA TypeInv_Listen ==
    ASSUME TypeInv, Listen
    PROVE  TypeInv'
  <1>1. StatsTypeOK'
    BY StatsTypes DEF TypeInv, TypeOK, Listen
  <1>2. FileStoreTypeOK'
    BY DEF TypeInv, TypeOK, FileStoreTypeOK, Listen, fsVars
  <1>3. ConnTypeOK' /\ IOTypeOK' /\ WorkerTypeOK' /\ MainTypeOK'
    BY RequestMembers
    DEF TypeInv, TypeOK, Listen, Locations, Looping, Handling, Ending, ConnTypeOK,
        IOTypeOK, WorkerTypeOK, MainTypeOK, connVars, ioVars, workerVars, mainVars
  <1>4. ASSUME NEW d \in Conns PROVE WorkerOK(d)'
    BY WorkerFrame DEF TypeInv, Listen, connVars, ioVars, workerVars, fsVars
  <1>5. QED
    BY <1>1, <1>2, <1>3, <1>4 DEF TypeInv, TypeOK

\* Main looks at the flags.
LEMMA TypeInv_MainGuard ==
    ASSUME TypeInv, MainGuard
    PROVE  TypeInv'
  <1>1. StatsTypeOK'
    BY StatsTypes DEF TypeInv, TypeOK, MainGuard
  <1>2. FileStoreTypeOK'
    BY DEF TypeInv, TypeOK, FileStoreTypeOK, MainGuard, fsVars
  <1>3. ConnTypeOK' /\ IOTypeOK' /\ WorkerTypeOK' /\ MainTypeOK'
    BY RequestMembers
    DEF TypeInv, TypeOK, MainGuard, Locations, Looping, Handling, Ending, ConnTypeOK,
        IOTypeOK, WorkerTypeOK, MainTypeOK, connVars, ioVars, workerVars, mainVars
  <1>4. ASSUME NEW d \in Conns PROVE WorkerOK(d)'
    BY WorkerFrame DEF TypeInv, MainGuard, connVars, ioVars, workerVars, fsVars
  <1>5. QED
    BY <1>1, <1>2, <1>3, <1>4 DEF TypeInv, TypeOK

\* Main's select times out.
LEMMA TypeInv_AcceptTimeout ==
    ASSUME TypeInv, AcceptTimeout
    PROVE  TypeInv'
  <1>1. StatsTypeOK'
    BY StatsTypes DEF TypeInv, TypeOK, AcceptTimeout
  <1>2. FileStoreTypeOK'
    BY DEF TypeInv, TypeOK, FileStoreTypeOK, AcceptTimeout, fsVars
  <1>3. ConnTypeOK' /\ IOTypeOK' /\ WorkerTypeOK' /\ MainTypeOK'
    BY RequestMembers
    DEF TypeInv, TypeOK, AcceptTimeout, Locations, Looping, Handling, Ending,
        ConnTypeOK, IOTypeOK, WorkerTypeOK, MainTypeOK, connVars, ioVars, workerVars,
        mainVars
  <1>4. ASSUME NEW d \in Conns PROVE WorkerOK(d)'
    BY WorkerFrame DEF TypeInv, AcceptTimeout, connVars, ioVars, workerVars, fsVars
  <1>5. QED
    BY <1>1, <1>2, <1>3, <1>4 DEF TypeInv, TypeOK

\* A signal sets loop_breaker.
LEMMA TypeInv_sighandler ==
    ASSUME TypeInv, sighandler
    PROVE  TypeInv'
  <1>1. StatsTypeOK'
    BY StatsTypes DEF TypeInv, TypeOK, sighandler
  <1>2. FileStoreTypeOK'
    BY DEF TypeInv, TypeOK, FileStoreTypeOK, sighandler, fsVars
  <1>3. ConnTypeOK' /\ IOTypeOK' /\ WorkerTypeOK' /\ MainTypeOK'
    BY RequestMembers
    DEF TypeInv, TypeOK, sighandler, Locations, Looping, Handling, Ending, ConnTypeOK,
        IOTypeOK, WorkerTypeOK, MainTypeOK, connVars, ioVars, workerVars, mainVars
  <1>4. ASSUME NEW d \in Conns PROVE WorkerOK(d)'
    BY WorkerFrame DEF TypeInv, sighandler, connVars, ioVars, workerVars, fsVars
  <1>5. QED
    BY <1>1, <1>2, <1>3, <1>4 DEF TypeInv, TypeOK

\* Main exits.
LEMMA TypeInv_waitActiveThreads ==
    ASSUME TypeInv, waitActiveThreads
    PROVE  TypeInv'
  <1>1. StatsTypeOK'
    BY StatsTypes DEF TypeInv, TypeOK, waitActiveThreads
  <1>2. FileStoreTypeOK'
    BY DEF TypeInv, TypeOK, FileStoreTypeOK, waitActiveThreads, fsVars
  <1>3. ConnTypeOK' /\ IOTypeOK' /\ WorkerTypeOK' /\ MainTypeOK'
    BY RequestMembers
    DEF TypeInv, TypeOK, waitActiveThreads, Locations, Looping, Handling, Ending,
        ConnTypeOK, IOTypeOK, WorkerTypeOK, MainTypeOK, connVars, ioVars, workerVars,
        mainVars
  <1>4. ASSUME NEW d \in Conns PROVE WorkerOK(d)'
    BY WorkerFrame DEF TypeInv, waitActiveThreads, connVars, ioVars, workerVars, fsVars
  <1>5. QED
    BY <1>1, <1>2, <1>3, <1>4 DEF TypeInv, TypeOK

\* The new worker has a client, and its REGISTER to read.
LEMMA TypeInv_createWorker ==
    ASSUME TypeInv, NEW c \in Conns, NEW u \in Users, createWorker(c, u)
    PROVE  TypeInv'
  <1>1. StatsTypeOK'
    BY StatsTypes DEF TypeInv, TypeOK, createWorker
  <1>2. FileStoreTypeOK'
    BY DEF TypeInv, TypeOK, FileStoreTypeOK, createWorker, fsVars
  <1>3. ConnTypeOK' /\ IOTypeOK' /\ WorkerTypeOK' /\ MainTypeOK'
    BY RequestMembers
    DEF TypeInv, TypeOK, createWorker, Locations, Looping, Handling, Ending, ConnTypeOK,
        IOTypeOK, WorkerTypeOK, MainTypeOK, connVars, ioVars, workerVars, mainVars
  <1>4. ASSUME NEW d \in Conns PROVE WorkerOK(d)'
    BY RequestShape, RequestMembers
    DEF TypeInv, TypeOK, WorkerOK, Live, createWorker, IOTypeOK, WorkerTypeOK,
        ConnTypeOK, connVars, ioVars, workerVars, fsVars, Looping, Handling, Ending
  <1>5. QED
    BY <1>1, <1>2, <1>3, <1>4 DEF TypeInv, TypeOK

\* A connection that got no worker has no request.
LEMMA TypeInv_createWorkerFails ==
    ASSUME TypeInv, NEW c \in Conns, createWorkerFails(c)
    PROVE  TypeInv'
  <1>1. StatsTypeOK'
    BY StatsTypes DEF TypeInv, TypeOK, createWorkerFails
  <1>2. FileStoreTypeOK'
    BY DEF TypeInv, TypeOK, FileStoreTypeOK, createWorkerFails, fsVars
  <1>3. ConnTypeOK' /\ IOTypeOK' /\ WorkerTypeOK' /\ MainTypeOK'
    BY RequestMembers
    DEF TypeInv, TypeOK, createWorkerFails, Locations, Looping, Handling, Ending,
        ConnTypeOK, IOTypeOK, WorkerTypeOK, MainTypeOK, connVars, ioVars, workerVars,
        mainVars
  <1>4. ASSUME NEW d \in Conns PROVE WorkerOK(d)'
    BY RequestShape, RequestMembers
    DEF TypeInv, TypeOK, WorkerOK, Live, createWorkerFails, IOTypeOK, WorkerTypeOK,
        ConnTypeOK, connVars, ioVars, workerVars, fsVars, Looping, Handling, Ending
  <1>5. QED
    BY <1>1, <1>2, <1>3, <1>4 DEF TypeInv, TypeOK

\* Of a process only the directory entries and what they name survive.
LEMMA TypeInv_Restart ==
    ASSUME TypeInv, Restart
    PROVE  TypeInv'
  <1>1. StatsTypeOK'
    BY DEF TypeInv, TypeOK, StatsTypeOK, Restart, createList
  <1>2. FileStoreTypeOK'
    BY FreedType DEF TypeInv, TypeOK, FileStoreTypeOK, Restart
  <1>3. ConnTypeOK' /\ IOTypeOK' /\ WorkerTypeOK' /\ MainTypeOK'
    <2>1. ConnTypeOK'
      BY BoundsAssumption DEF TypeInv, TypeOK, ConnTypeOK, Restart
    <2>2. IOTypeOK'
      BY NothingReceived DEF IOTypeOK, Restart
    <2>3. WorkerTypeOK'
      BY DEF TypeInv, TypeOK, WorkerTypeOK, Locations, Errors, Restart
    <2>4. MainTypeOK'
      <3>1. restarts \in 0 .. MaxRestarts /\ restarts < MaxRestarts
        BY DEF TypeInv, TypeOK, MainTypeOK, Restart
      <3>2. restarts' \in 0 .. MaxRestarts
        BY <3>1, BoundsAssumption DEF Restart
      <3>3. scanned' \in SUBSET Paths /\ active_threads_counter' \in Int
        BY DEF Restart
      <3>4. QED
        BY <3>2, <3>3 DEF MainTypeOK, Restart
    <2>5. QED
      BY <2>1, <2>2, <2>3, <2>4
  <1>4. ASSUME NEW d \in Conns PROVE WorkerOK(d)'
    BY RequestShape, RequestMembers
    DEF TypeInv, TypeOK, WorkerOK, Live, Restart, IOTypeOK, WorkerTypeOK, ConnTypeOK,
        connVars, ioVars, workerVars, fsVars, Looping, Handling, Ending
  <1>5. QED
    BY <1>1, <1>2, <1>3, <1>4 DEF TypeInv, TypeOK

\* Only a registered client sends a request that works on a path.
LEMMA TypeInv_ClientRequest ==
    ASSUME TypeInv, NEW c \in Conns, NEW r \in Requests, ClientRequest(c, r)
    PROVE  TypeInv'
  <1>1. StatsTypeOK'
    BY StatsTypes DEF TypeInv, TypeOK, ClientRequest
  <1>2. FileStoreTypeOK'
    BY DEF TypeInv, TypeOK, FileStoreTypeOK, ClientRequest, fsVars
  <1>3. ConnTypeOK' /\ IOTypeOK' /\ WorkerTypeOK' /\ MainTypeOK'
    BY BoundsAssumption, NothingReceived
    DEF TypeInv, TypeOK, ClientRequest, ConnTypeOK, IOTypeOK, WorkerTypeOK, MainTypeOK,
        connVars, ioVars, workerVars, mainVars
  <1>4. ASSUME NEW d \in Conns PROVE WorkerOK(d)'
    BY RequestShape, RequestMembers
    DEF TypeInv, TypeOK, WorkerOK, Live, ClientRequest, IOTypeOK, WorkerTypeOK,
        ConnTypeOK, connVars, ioVars, workerVars, fsVars, Looping, Handling, Ending
  <1>5. QED
    BY <1>1, <1>2, <1>3, <1>4 DEF TypeInv, TypeOK

\* A client closes its end.
LEMMA TypeInv_ClientClose ==
    ASSUME TypeInv, NEW c \in Conns, ClientClose(c)
    PROVE  TypeInv'
  <1>1. StatsTypeOK'
    BY StatsTypes DEF TypeInv, TypeOK, ClientClose
  <1>2. FileStoreTypeOK'
    BY DEF TypeInv, TypeOK, FileStoreTypeOK, ClientClose, fsVars
  <1>3. ConnTypeOK' /\ IOTypeOK' /\ WorkerTypeOK' /\ MainTypeOK'
    BY RequestMembers
    DEF TypeInv, TypeOK, ClientClose, Locations, Looping, Handling, Ending, ConnTypeOK,
        IOTypeOK, WorkerTypeOK, MainTypeOK, connVars, ioVars, workerVars, mainVars
  <1>4. ASSUME NEW d \in Conns PROVE WorkerOK(d)'
    BY WorkerFrame DEF TypeInv, ClientClose, connVars, ioVars, workerVars, fsVars
  <1>5. QED
    BY <1>1, <1>2, <1>3, <1>4 DEF TypeInv, TypeOK

\* A worker goes round its loop, or leaves it.
LEMMA TypeInv_LoopGuard ==
    ASSUME TypeInv, NEW c \in Conns, LoopGuard(c)
    PROVE  TypeInv'
  <1>1. StatsTypeOK'
    BY StatsTypes DEF TypeInv, TypeOK, LoopGuard
  <1>2. FileStoreTypeOK'
    BY DEF TypeInv, TypeOK, FileStoreTypeOK, LoopGuard, fsVars
  <1>3. ConnTypeOK' /\ IOTypeOK' /\ WorkerTypeOK' /\ MainTypeOK'
    BY RequestMembers
    DEF TypeInv, TypeOK, LoopGuard, Locations, Looping, Handling, Ending, ConnTypeOK,
        IOTypeOK, WorkerTypeOK, MainTypeOK, connVars, ioVars, workerVars, mainVars
  <1>4. ASSUME NEW d \in Conns PROVE WorkerOK(d)'
    BY RequestShape, RequestMembers
    DEF TypeInv, TypeOK, WorkerOK, Live, LoopGuard, IOTypeOK, WorkerTypeOK, ConnTypeOK,
        connVars, ioVars, workerVars, fsVars, Looping, Handling, Ending
  <1>5. QED
    BY <1>1, <1>2, <1>3, <1>4 DEF TypeInv, TypeOK

\* A worker's select times out.
LEMMA TypeInv_SelectTimeout ==
    ASSUME TypeInv, NEW c \in Conns, SelectTimeout(c)
    PROVE  TypeInv'
  <1>1. StatsTypeOK'
    BY StatsTypes DEF TypeInv, TypeOK, SelectTimeout
  <1>2. FileStoreTypeOK'
    BY DEF TypeInv, TypeOK, FileStoreTypeOK, SelectTimeout, fsVars
  <1>3. ConnTypeOK' /\ IOTypeOK' /\ WorkerTypeOK' /\ MainTypeOK'
    BY RequestMembers
    DEF TypeInv, TypeOK, SelectTimeout, Locations, Looping, Handling, Ending,
        ConnTypeOK, IOTypeOK, WorkerTypeOK, MainTypeOK, connVars, ioVars, workerVars,
        mainVars
  <1>4. ASSUME NEW d \in Conns PROVE WorkerOK(d)'
    BY RequestShape, RequestMembers
    DEF TypeInv, TypeOK, WorkerOK, Live, SelectTimeout, IOTypeOK, WorkerTypeOK,
        ConnTypeOK, connVars, ioVars, workerVars, fsVars, Looping, Handling, Ending
  <1>5. QED
    BY <1>1, <1>2, <1>3, <1>4 DEF TypeInv, TypeOK

\* A worker that reads no header leaves its loop.
LEMMA TypeInv_ReadNoHeader ==
    ASSUME TypeInv, NEW c \in Conns, ReadNoHeader(c)
    PROVE  TypeInv'
  <1>1. StatsTypeOK'
    BY StatsTypes DEF TypeInv, TypeOK, ReadNoHeader
  <1>2. FileStoreTypeOK'
    BY DEF TypeInv, TypeOK, FileStoreTypeOK, ReadNoHeader, fsVars
  <1>3. ConnTypeOK' /\ IOTypeOK' /\ WorkerTypeOK' /\ MainTypeOK'
    BY RequestMembers
    DEF TypeInv, TypeOK, ReadNoHeader, Locations, Looping, Handling, Ending, ConnTypeOK,
        IOTypeOK, WorkerTypeOK, MainTypeOK, connVars, ioVars, workerVars, mainVars
  <1>4. ASSUME NEW d \in Conns PROVE WorkerOK(d)'
    BY RequestShape, RequestMembers
    DEF TypeInv, TypeOK, WorkerOK, Live, ReadNoHeader, Leftover, IOTypeOK, WorkerTypeOK,
        ConnTypeOK, connVars, ioVars, workerVars, fsVars, Looping, Handling, Ending
  <1>5. QED
    BY <1>1, <1>2, <1>3, <1>4 DEF TypeInv, TypeOK

\* A worker whose select fails leaves its loop.
LEMMA TypeInv_SelectFails ==
    ASSUME TypeInv, NEW c \in Conns, SelectFails(c)
    PROVE  TypeInv'
  <1>1. StatsTypeOK'
    BY StatsTypes DEF TypeInv, TypeOK, SelectFails
  <1>2. FileStoreTypeOK'
    BY DEF TypeInv, TypeOK, FileStoreTypeOK, SelectFails, fsVars
  <1>3. ConnTypeOK' /\ IOTypeOK' /\ WorkerTypeOK' /\ MainTypeOK'
    BY RequestMembers
    DEF TypeInv, TypeOK, SelectFails, Locations, Looping, Handling, Ending, ConnTypeOK,
        IOTypeOK, WorkerTypeOK, MainTypeOK, connVars, ioVars, workerVars, mainVars
  <1>4. /\ pc' = [pc EXCEPT ![c] = "closing"] /\ pc[c] = "select"
        /\ UNCHANGED <<peer, astray, request, userName, fd>>
    BY DEF SelectFails, connVars, ioVars, fsVars
  <1>5. ASSUME NEW d \in Conns PROVE WorkerOK(d)'
    BY <1>4 DEF TypeInv, TypeOK, WorkerOK, Live, WorkerTypeOK
  <1>6. QED
    BY <1>1, <1>2, <1>3, <1>5 DEF TypeInv, TypeOK

\* A header left over makes a request of a connection that has a name.
LEMMA TypeInv_LeftoverRequest ==
    ASSUME TypeInv, NEW c \in Conns, NEW r \in Requests, LeftoverRequest(c, r)
    PROVE  TypeInv'
  <1>1. StatsTypeOK'
    BY StatsTypes DEF TypeInv, TypeOK, LeftoverRequest
  <1>2. FileStoreTypeOK'
    BY DEF TypeInv, TypeOK, FileStoreTypeOK, LeftoverRequest, fsVars
  <1>3. ConnTypeOK' /\ IOTypeOK' /\ WorkerTypeOK' /\ MainTypeOK'
    BY BoundsAssumption, NothingReceived
    DEF TypeInv, TypeOK, LeftoverRequest, ConnTypeOK, IOTypeOK, WorkerTypeOK, MainTypeOK,
        connVars, ioVars, workerVars, mainVars
  <1>4. ASSUME NEW d \in Conns PROVE WorkerOK(d)'
    BY RequestShape, RequestMembers
    DEF TypeInv, TypeOK, WorkerOK, Live, Leftover, LeftoverRequest, IOTypeOK,
        WorkerTypeOK, ConnTypeOK, workerVars, fsVars
  <1>5. QED
    BY <1>1, <1>2, <1>3, <1>4 DEF TypeInv, TypeOK

\* REGISTER, up to the directory of the user.
LEMMA TypeInv_Register ==
    ASSUME TypeInv, NEW c \in Conns, Register(c)
    PROVE  TypeInv'
  <1>1. Live(c)
    BY DEF Live, Register, Dispatch
  <1>2. StatsTypeOK'
    BY StatsTypes DEF TypeInv, TypeOK, Register
  <1>3. FileStoreTypeOK'
    <2>1. request[c] \in Requests \cup {NoRequest} /\ request[c].cmd = "REGISTER"
      BY DEF TypeInv, TypeOK, IOTypeOK, Register, Dispatch
    <2>2. request[c].obj \in Users
      BY <2>1, RequestShape
    <2>3. QED
      BY <2>2 DEF TypeInv, TypeOK, FileStoreTypeOK, Register, mkdir
  <1>4. /\ IOTypeOK'
        /\ pc' \in [Conns -> Locations]
        /\ worker_error' \in [Conns -> Errors]
        /\ \A d \in Conns : WorkerOK(d)'
    BY <1>1, RequestOver, RequestGoesOn
    DEF Register, Dispatch, connVars, fsVars, Errors, Responses, Looping, Handling,
        Ending
  <1>5. ConnTypeOK' /\ WorkerTypeOK' /\ MainTypeOK'
    BY <1>4
    DEF TypeInv, TypeOK, ConnTypeOK, WorkerTypeOK, MainTypeOK, Register, connVars,
        mainVars
  <1>6. QED
    BY <1>2, <1>3, <1>4, <1>5 DEF TypeInv, TypeOK

\* The name is refused, or free when it is looked up.
LEMMA TypeInv_RegisterCheck ==
    ASSUME TypeInv, NEW c \in Conns, RegisterCheck(c)
    PROVE  TypeInv'
  <1>1. Live(c)
    BY DEF Live, RegisterCheck, Dispatch
  <1>2. StatsTypeOK'
    BY StatsTypes DEF TypeInv, TypeOK, RegisterCheck
  <1>3. FileStoreTypeOK'
    BY FileTypes DEF TypeInv, TypeOK, RegisterCheck
  <1>4. /\ IOTypeOK'
        /\ pc' \in [Conns -> Locations]
        /\ worker_error' \in [Conns -> Errors]
        /\ \A d \in Conns : WorkerOK(d)'
    <2>1. \/ Answer(c, "CLIENT_ALREADY_IN_USE", "KO_IN_USE", "closing")
          \/ Continue(c, worker_error[c], "register_add")
      BY DEF RegisterCheck
    <2>2. /\ worker_error[c] \in Errors /\ "CLIENT_ALREADY_IN_USE" \in Errors
          /\ "KO_IN_USE" \in Responses
          /\ "closing" \in Looping \cup Ending /\ "register_add" \in Handling
      BY DEF TypeInv, TypeOK, WorkerTypeOK, Errors, Responses, Ending, Handling
    <2>3. request[c].cmd = "REGISTER" /\ UNCHANGED <<peer, astray, userName, fd>>
      BY DEF TypeInv, WorkerOK, RegisterCheck, connVars, fsVars
    <2>4. CASE Answer(c, "CLIENT_ALREADY_IN_USE", "KO_IN_USE", "closing")
      BY <1>1, <2>2, <2>3, <2>4, RequestOver
    <2>5. CASE Continue(c, worker_error[c], "register_add")
      BY <1>1, <2>2, <2>3, <2>5, RequestGoesOn
    <2>6. QED
      BY <2>1, <2>4, <2>5
  <1>5. ConnTypeOK' /\ WorkerTypeOK' /\ MainTypeOK'
    BY <1>4
    DEF TypeInv, TypeOK, ConnTypeOK, WorkerTypeOK, MainTypeOK, RegisterCheck, connVars,
        mainVars
  <1>6. QED
    BY <1>2, <1>3, <1>4, <1>5 DEF TypeInv, TypeOK

\* The name goes online: a user name, as the connection has a client.
LEMMA TypeInv_RegisterAdd ==
    ASSUME TypeInv, NEW c \in Conns, RegisterAdd(c)
    PROVE  TypeInv'
  <1>1. Live(c) /\ pc[c] = "register_add"
    BY DEF Live, RegisterAdd
  <1>2. request[c].obj \in Users
    <2>1. request[c] \in Requests \cup {NoRequest} /\ request[c].cmd = "REGISTER"
      BY <1>1 DEF TypeInv, TypeOK, IOTypeOK, WorkerOK
    <2>2. QED
      BY <2>1, RequestShape
  <1>3. PICK u \in Users : userName' = [userName EXCEPT ![c] = u]
    BY DEF RegisterAdd
  <1>4. StatsTypeOK'
    BY <1>2, StatsTypes DEF TypeInv, TypeOK, RegisterAdd
  <1>5. FileStoreTypeOK'
    BY FileTypes DEF TypeInv, TypeOK, RegisterAdd
  <1>6. renamed' \in SUBSET Users
    <2>1. userName[c] \in Users \cup {NoUser} /\ renamed \in SUBSET Users
      BY DEF TypeInv, TypeOK, ConnTypeOK, WorkerTypeOK
    <2>2. \/ renamed' = renamed
          \/ userName[c] # NoUser /\ renamed' = renamed \cup {userName[c], request[c].obj}
      BY DEF RegisterAdd
    <2>3. QED
      BY <1>2, <2>1, <2>2
  <1>7. /\ userName' \in [Conns -> Users \cup {NoUser}] /\ userName'[c] \in Users
        /\ \A d \in Conns \ {c} : userName'[d] = userName[d]
    BY <1>3 DEF TypeInv, TypeOK, WorkerTypeOK
  <1>8. /\ IOTypeOK'
        /\ pc' \in [Conns -> Locations]
        /\ worker_error' \in [Conns -> Errors]
        /\ \A d \in Conns : WorkerOK(d)'
    <2>1. Answer(c, worker_error[c], "OK", "guard") /\ UNCHANGED <<peer, astray, fd>>
      BY DEF RegisterAdd, fsVars
    <2>2. worker_error[c] \in Errors /\ "OK" \in Responses
          /\ "guard" \in Looping \cup Ending
      BY DEF TypeInv, TypeOK, WorkerTypeOK, Responses, Looping
    <2>3. QED
      BY <1>1, <1>7, <2>1, <2>2, RequestOver
  <1>9. ConnTypeOK' /\ WorkerTypeOK' /\ MainTypeOK'
    BY <1>6, <1>7, <1>8
    DEF TypeInv, TypeOK, ConnTypeOK, WorkerTypeOK, MainTypeOK, RegisterAdd, mainVars
  <1>10. QED
    BY <1>4, <1>5, <1>8, <1>9 DEF TypeInv, TypeOK

\* LEAVE always ends its request.
LEMMA TypeInv_Leave ==
    ASSUME TypeInv, NEW c \in Conns, Leave(c)
    PROVE  TypeInv'
  <1>1. Live(c)
    BY DEF Live, Leave, Dispatch
  <1>2. StatsTypeOK'
    BY StatsTypes DEF TypeInv, TypeOK, Leave
  <1>3. FileStoreTypeOK'
    BY FileTypes DEF TypeInv, TypeOK, Leave
  <1>4. /\ IOTypeOK'
        /\ pc' \in [Conns -> Locations]
        /\ worker_error' \in [Conns -> Errors]
        /\ \A d \in Conns : WorkerOK(d)'
    BY <1>1, RequestOver
    DEF TypeInv, TypeOK, WorkerTypeOK, Leave, connVars, fsVars, Errors, Responses,
        Looping, Handling, Ending
  <1>5. ConnTypeOK' /\ WorkerTypeOK' /\ MainTypeOK'
    BY <1>4
    DEF TypeInv, TypeOK, ConnTypeOK, WorkerTypeOK, MainTypeOK, Leave, connVars, mainVars
  <1>6. QED
    BY <1>2, <1>3, <1>4, <1>5 DEF TypeInv, TypeOK

\* DELETE looks the name up.
LEMMA TypeInv_Delete ==
    ASSUME TypeInv, NEW c \in Conns, Delete(c)
    PROVE  TypeInv'
  <1>1. Live(c)
    BY DEF Live, Delete, Dispatch
  <1>2. StatsTypeOK'
    BY StatsTypes DEF TypeInv, TypeOK, Delete
  <1>3. FileStoreTypeOK'
    BY FileTypes DEF TypeInv, TypeOK, Delete
  <1>4. /\ IOTypeOK'
        /\ pc' \in [Conns -> Locations]
        /\ worker_error' \in [Conns -> Errors]
        /\ \A d \in Conns : WorkerOK(d)'
    BY <1>1, RequestOver, RequestGoesOn
    DEF Delete, Dispatch, connVars, fsVars, Errors, Responses, Looping, Handling, Ending
  <1>5. ConnTypeOK' /\ WorkerTypeOK' /\ MainTypeOK'
    BY <1>4
    DEF TypeInv, TypeOK, ConnTypeOK, WorkerTypeOK, MainTypeOK, Delete, connVars,
        mainVars
  <1>6. QED
    BY <1>2, <1>3, <1>4, <1>5 DEF TypeInv, TypeOK

\* DELETE removes the file it has found.
LEMMA TypeInv_DeleteRemove ==
    ASSUME TypeInv, NEW c \in Conns, DeleteRemove(c)
    PROVE  TypeInv'
  <1>1. Live(c)
    BY DEF Live, DeleteRemove, Dispatch
  <1>2. request[c].cmd = "DELETE" /\ Path(c) \in Paths
    BY PathType DEF TypeInv, WorkerOK, DeleteRemove, Dispatch
  <1>3. StatsTypeOK'
    BY <1>2, RemoveTypes DEF TypeInv, TypeOK, DeleteRemove
  <1>4. FileStoreTypeOK'
    BY <1>2, RemoveTypes DEF TypeInv, TypeOK, DeleteRemove
  <1>5. /\ IOTypeOK'
        /\ pc' \in [Conns -> Locations]
        /\ worker_error' \in [Conns -> Errors]
        /\ \A d \in Conns : WorkerOK(d)'
    <2>1. PICK e \in {worker_error[c], "SHARED_DATA_ERROR"}, r \in {"OK", "KO"} :
              Answer(c, e, r, "guard")
      BY DEF DeleteRemove
    <2>2. e \in Errors /\ r \in Responses /\ "guard" \in Looping \cup Ending
      BY DEF TypeInv, TypeOK, WorkerTypeOK, Errors, Responses, Looping
    <2>3. UNCHANGED <<peer, astray, userName, fd>>
      BY <1>2, RemoveTypes DEF TypeInv, TypeOK, DeleteRemove, connVars
    <2>4. QED
      BY <1>1, <2>1, <2>2, <2>3, RequestOver
  <1>6. ConnTypeOK' /\ WorkerTypeOK' /\ MainTypeOK'
    BY <1>5
    DEF TypeInv, TypeOK, ConnTypeOK, WorkerTypeOK, MainTypeOK, DeleteRemove, connVars,
        mainVars
  <1>7. QED
    BY <1>3, <1>4, <1>5, <1>6 DEF TypeInv, TypeOK

\* STORE removes what the path holds; the block's length is a number.
LEMMA TypeInv_Store ==
    ASSUME TypeInv, NEW c \in Conns, Store(c)
    PROVE  TypeInv'
  <1>1. Live(c)
    BY DEF Live, Store, Dispatch
  <1>2. request[c].cmd = "STORE" /\ Path(c) \in Paths
    BY PathType DEF TypeInv, WorkerOK, Store, Dispatch
  <1>3. StatsTypeOK'
    BY <1>2, RemoveTypes DEF TypeInv, TypeOK, Store
  <1>4. FileStoreTypeOK'
    BY <1>2, RemoveTypes DEF TypeInv, TypeOK, Store
  <1>5. /\ IOTypeOK'
        /\ pc' \in [Conns -> Locations]
        /\ worker_error' \in [Conns -> Errors]
        /\ \A d \in Conns : WorkerOK(d)'
    BY <1>2, <1>1, RemoveTypes, RequestGoesOn
    DEF TypeInv, TypeOK, WorkerTypeOK, Store, connVars, Errors, Responses, Looping,
        Handling, Ending
  <1>6. ConnTypeOK' /\ WorkerTypeOK' /\ MainTypeOK'
    BY <1>5, <1>2, PathType
    DEF TypeInv, TypeOK, ConnTypeOK, WorkerTypeOK, MainTypeOK, Store, connVars, mainVars
  <1>7. QED
    BY <1>3, <1>4, <1>5, <1>6 DEF TypeInv, TypeOK

\* STORE opens a file and holds it.
LEMMA TypeInv_StoreOpen ==
    ASSUME TypeInv, NEW c \in Conns, StoreOpen(c)
    PROVE  TypeInv'
  <1>1. Live(c)
    BY DEF Live, StoreOpen, Dispatch
  <1>2. request[c].cmd = "STORE" /\ Path(c) \in Paths
    BY PathType DEF TypeInv, WorkerOK, StoreOpen, Dispatch
  <1>3. UNCHANGED <<peer, astray, userName>> /\ fd'[c] \in Inodes
        /\ \A d \in Conns \ {c} : fd'[d] = fd[d]
    BY <1>2, FileTypes
    DEF TypeInv, TypeOK, FileStoreTypeOK, StoreOpen, openTrunc, connVars
  <1>4. StatsTypeOK'
    BY StatsTypes DEF TypeInv, TypeOK, StoreOpen
  <1>5. FileStoreTypeOK'
    BY <1>2, FileTypes DEF TypeInv, TypeOK, StoreOpen
  <1>6. /\ IOTypeOK'
        /\ pc' \in [Conns -> Locations]
        /\ worker_error' \in [Conns -> Errors]
        /\ \A d \in Conns : WorkerOK(d)'
    BY <1>2, <1>1, <1>3, RequestGoesOn
    DEF TypeInv, TypeOK, WorkerTypeOK, StoreOpen, Errors, Responses, Looping, Handling,
        Ending
  <1>7. ConnTypeOK' /\ WorkerTypeOK' /\ MainTypeOK'
    BY <1>6
    DEF TypeInv, TypeOK, ConnTypeOK, WorkerTypeOK, MainTypeOK, StoreOpen, connVars,
        mainVars
  <1>8. QED
    BY <1>4, <1>5, <1>6, <1>7 DEF TypeInv, TypeOK

\* STORE gives up and drops what it had to read.
LEMMA TypeInv_StoreOpenFails ==
    ASSUME TypeInv, NEW c \in Conns, StoreOpenFails(c)
    PROVE  TypeInv'
  <1>1. Live(c) /\ userName[c] \in Users
    BY DEF Live, StoreOpenFails, TypeInv, WorkerOK
  <1>2. StatsTypeOK'
    BY StatsTypes DEF TypeInv, TypeOK, StoreOpenFails
  <1>3. FileStoreTypeOK'
    BY FileTypes DEF TypeInv, TypeOK, StoreOpenFails
  <1>4. PICK unread \in BOOLEAN : astray' = [astray EXCEPT ![c] = @ \/ unread]
    BY DEF StoreOpenFails, GoesAstray
  <1>5. astray' \in [Conns -> BOOLEAN] /\ \A d \in Conns \ {c} : astray'[d] = astray[d]
    BY <1>4 DEF TypeInv, TypeOK, ConnTypeOK
  <1>6. /\ IOTypeOK'
        /\ pc' \in [Conns -> Locations]
        /\ worker_error' \in [Conns -> Errors]
        /\ \A d \in Conns : WorkerOK(d)'
    BY <1>1, <1>5, RequestOver
    DEF StoreOpenFails, GoesAstray, fsVars, Errors, Responses, Looping
  <1>7. ConnTypeOK' /\ WorkerTypeOK' /\ MainTypeOK'
    BY <1>5, <1>6
    DEF TypeInv, TypeOK, ConnTypeOK, WorkerTypeOK, MainTypeOK, StoreOpenFails, GoesAstray,
        mainVars
  <1>8. QED
    BY <1>2, <1>3, <1>6, <1>7 DEF TypeInv, TypeOK

\* A STORE cut short closes and unlinks its file.
LEMMA TypeInv_StoreAbort ==
    ASSUME TypeInv, NEW c \in Conns, StoreAbort(c)
    PROVE  TypeInv'
  <1>1. Live(c)
    BY DEF Live, StoreAbort, Dispatch
  <1>2. request[c].cmd = "STORE" /\ Path(c) \in Paths
    BY PathType DEF TypeInv, WorkerOK, StoreAbort, Dispatch
  <1>3. StatsTypeOK'
    BY StatsTypes DEF TypeInv, TypeOK, StoreAbort
  <1>4. FileStoreTypeOK'
    BY <1>2, FileTypes DEF TypeInv, TypeOK, StoreAbort
  <1>5. /\ IOTypeOK'
        /\ pc' \in [Conns -> Locations]
        /\ worker_error' \in [Conns -> Errors]
        /\ \A d \in Conns : WorkerOK(d)'
    BY <1>1, RequestOver
    DEF TypeInv, TypeOK, FileStoreTypeOK, StoreAbort, close, closeUnlink, connVars,
        Errors, Responses, Looping, Handling, Ending
  <1>6. ConnTypeOK' /\ WorkerTypeOK' /\ MainTypeOK'
    BY <1>5
    DEF TypeInv, TypeOK, ConnTypeOK, WorkerTypeOK, MainTypeOK, StoreAbort, connVars,
        mainVars
  <1>7. QED
    BY <1>3, <1>4, <1>5, <1>6 DEF TypeInv, TypeOK

\* STORE closes its file and counts it.
LEMMA TypeInv_StoreFinish ==
    ASSUME TypeInv, NEW c \in Conns, StoreFinish(c)
    PROVE  TypeInv'
  <1>1. Live(c)
    BY DEF Live, StoreFinish, Dispatch
  <1>2. request[c].cmd = "STORE" /\ Path(c) \in Paths
    BY PathType DEF TypeInv, WorkerOK, StoreFinish, Dispatch
  <1>3. StatsTypeOK'
    BY <1>2, StatsTypes, PathType DEF TypeInv, TypeOK, StoreFinish
  <1>4. FileStoreTypeOK'
    BY FileTypes DEF TypeInv, TypeOK, StoreFinish
  <1>5. /\ IOTypeOK'
        /\ pc' \in [Conns -> Locations]
        /\ worker_error' \in [Conns -> Errors]
        /\ \A d \in Conns : WorkerOK(d)'
    <2>1. PICK r \in {"OK", "KO"} : Answer(c, worker_error[c], r, "guard")
      BY DEF StoreFinish
    <2>2. worker_error[c] \in Errors /\ r \in Responses /\ "guard" \in Looping \cup Ending
      BY DEF TypeInv, TypeOK, WorkerTypeOK, Responses, Looping
    <2>3. /\ UNCHANGED <<peer, astray, userName>>
          /\ \A d \in Conns \ {c} : userName'[d] = userName[d] /\ fd'[d] = fd[d]
      BY DEF TypeInv, TypeOK, FileStoreTypeOK, StoreFinish, close, connVars
    <2>4. QED
      BY <1>1, <2>1, <2>2, <2>3, RequestOver
  <1>6. ConnTypeOK' /\ WorkerTypeOK' /\ MainTypeOK'
    BY <1>5
    DEF TypeInv, TypeOK, ConnTypeOK, WorkerTypeOK, MainTypeOK, StoreFinish, connVars,
        mainVars
  <1>7. QED
    BY <1>3, <1>4, <1>5, <1>6 DEF TypeInv, TypeOK

\* RETRIEVE finds no file, or not its length.
LEMMA TypeInv_RetrieveFails ==
    ASSUME TypeInv, NEW c \in Conns, RetrieveFails(c)
    PROVE  TypeInv'
  <1>1. Live(c)
    BY DEF Live, RetrieveFails, Dispatch
  <1>2. StatsTypeOK'
    BY StatsTypes DEF TypeInv, TypeOK, RetrieveFails
  <1>3. FileStoreTypeOK'
    BY FileTypes DEF TypeInv, TypeOK, RetrieveFails
  <1>4. /\ IOTypeOK'
        /\ pc' \in [Conns -> Locations]
        /\ worker_error' \in [Conns -> Errors]
        /\ \A d \in Conns : WorkerOK(d)'
    BY <1>1, RequestOver
    DEF RetrieveFails, RetrieveError, connVars, fsVars, Errors, Responses, Looping,
        Handling, Ending
  <1>5. ConnTypeOK' /\ WorkerTypeOK' /\ MainTypeOK'
    BY <1>4
    DEF TypeInv, TypeOK, ConnTypeOK, WorkerTypeOK, MainTypeOK, RetrieveFails, connVars,
        mainVars
  <1>6. QED
    BY <1>2, <1>3, <1>4, <1>5 DEF TypeInv, TypeOK

\* RETRIEVE gives up and closes its file.
LEMMA TypeInv_RetrieveChunkFails ==
    ASSUME TypeInv, NEW c \in Conns, RetrieveChunkFails(c)
    PROVE  TypeInv'
  <1>1. Live(c) /\ userName[c] \in Users
    BY DEF Live, RetrieveChunkFails, TypeInv, WorkerOK
  <1>2. StatsTypeOK'
    BY StatsTypes DEF TypeInv, TypeOK, RetrieveChunkFails
  <1>3. FileStoreTypeOK'
    BY FileTypes DEF TypeInv, TypeOK, RetrieveChunkFails
  <1>4. astray' \in [Conns -> BOOLEAN] /\ \A d \in Conns \ {c} : astray'[d] = astray[d]
    BY DEF TypeInv, TypeOK, ConnTypeOK, RetrieveChunkFails, GoesAstray, connVars
  <1>5. UNCHANGED <<peer, open, issued, renamed>>
    BY DEF RetrieveChunkFails, GoesAstray, connVars
  <1>6. /\ IOTypeOK'
        /\ pc' \in [Conns -> Locations]
        /\ worker_error' \in [Conns -> Errors]
        /\ \A d \in Conns : WorkerOK(d)'
    <2>1. PICK e \in {"COMMUNICATION_ERROR", "DATA_ERROR"}, next \in {"closing", "guard"} :
              /\ Finish(c, e, next)
              /\ \/ UNCHANGED <<reply, sent>>
                 \/ reply' = [reply EXCEPT ![c] = <<"STRAY">>] /\ sent' = sent
      BY DEF RetrieveChunkFails
    <2>2. e \in Errors /\ next \in Looping \cup Ending /\ "STRAY" \in Responses
      BY DEF Errors, Responses, Looping, Ending
    <2>3. UNCHANGED userName /\ \A d \in Conns \ {c} : fd'[d] = fd[d]
      BY DEF TypeInv, TypeOK, FileStoreTypeOK, RetrieveChunkFails, close
    <2>4. QED
      BY <1>1, <1>4, <1>5, <2>1, <2>2, <2>3, RequestOver
  <1>7. ConnTypeOK' /\ WorkerTypeOK' /\ MainTypeOK'
    BY <1>4, <1>5, <1>6
    DEF TypeInv, TypeOK, ConnTypeOK, WorkerTypeOK, MainTypeOK, RetrieveChunkFails, mainVars
  <1>8. QED
    BY <1>2, <1>3, <1>6, <1>7 DEF TypeInv, TypeOK

\* RETRIEVE closes its file.
LEMMA TypeInv_RetrieveFinish ==
    ASSUME TypeInv, NEW c \in Conns, RetrieveFinish(c)
    PROVE  TypeInv'
  <1>1. Live(c) /\ userName[c] \in Users
    BY DEF Live, RetrieveFinish, TypeInv, WorkerOK
  <1>2. StatsTypeOK'
    BY StatsTypes DEF TypeInv, TypeOK, RetrieveFinish
  <1>3. FileStoreTypeOK'
    BY FileTypes DEF TypeInv, TypeOK, RetrieveFinish
  <1>4. astray' \in [Conns -> BOOLEAN] /\ \A d \in Conns \ {c} : astray'[d] = astray[d]
    BY DEF TypeInv, TypeOK, ConnTypeOK, RetrieveFinish, GoesAstray
  <1>5. UNCHANGED <<peer, open, issued, renamed>>
    BY DEF RetrieveFinish, GoesAstray
  <1>6. /\ IOTypeOK'
        /\ pc' \in [Conns -> Locations]
        /\ worker_error' \in [Conns -> Errors]
        /\ \A d \in Conns : WorkerOK(d)'
    <2>1. PICK r \in {"KO_NOT_FOUND", "KO"} :
              \/ Finish(c, worker_error[c], "guard") /\ UNCHANGED <<reply, sent>>
              \/ Answer(c, worker_error[c], r, "guard")
      BY DEF RetrieveFinish, RetrieveError
    <2>2. worker_error[c] \in Errors /\ r \in Responses /\ "guard" \in Looping \cup Ending
      BY DEF TypeInv, TypeOK, WorkerTypeOK, Responses, Looping
    <2>3. UNCHANGED userName /\ \A d \in Conns \ {c} : fd'[d] = fd[d]
      BY DEF TypeInv, TypeOK, FileStoreTypeOK, RetrieveFinish, close
    <2>4. QED
      BY <1>1, <1>4, <1>5, <2>1, <2>2, <2>3, RequestOver
  <1>7. ConnTypeOK' /\ WorkerTypeOK' /\ MainTypeOK'
    BY <1>4, <1>5, <1>6
    DEF TypeInv, TypeOK, ConnTypeOK, WorkerTypeOK, MainTypeOK, RetrieveFinish, mainVars
  <1>8. QED
    BY <1>2, <1>3, <1>6, <1>7 DEF TypeInv, TypeOK

\* A unit of the block is written, or lost.
LEMMA TypeInv_StoreChunk ==
    ASSUME TypeInv, NEW c \in Conns, StoreChunk(c)
    PROVE  TypeInv'
  <1>1. StatsTypeOK'
    BY StatsTypes DEF TypeInv, TypeOK, StoreChunk
  <1>2. FileStoreTypeOK'
    <2>1. fd[c] \in Inodes /\ request[c].val \in Values
      BY PathType DEF TypeInv, WorkerOK, StoreChunk
    <2>2. QED
      BY <2>1, WriteType, FileTypes DEF TypeInv, TypeOK, StoreChunk
  <1>3. ConnTypeOK' /\ IOTypeOK' /\ WorkerTypeOK' /\ MainTypeOK'
    BY DEF TypeInv, TypeOK, StoreChunk, ConnTypeOK, IOTypeOK, WorkerTypeOK, MainTypeOK,
           connVars, ioVars, workerVars, mainVars
  <1>4. ASSUME NEW d \in Conns PROVE WorkerOK(d)'
    <2>1. fd' = fd
      BY DEF StoreChunk, write, fsVars
    <2>2. QED
      BY <2>1, WorkerFrame DEF TypeInv, StoreChunk, connVars, ioVars
  <1>5. QED
    BY <1>1, <1>2, <1>3, <1>4 DEF TypeInv, TypeOK

\* RETRIEVE opens a file that exists and holds it, or finds its client gone.
LEMMA TypeInv_Retrieve ==
    ASSUME TypeInv, NEW c \in Conns, Retrieve(c)
    PROVE  TypeInv'
  <1>1. Live(c) /\ pc[c] = "select" /\ request[c].cmd = "RETRIEVE" /\ entry[Path(c)] # NoInode
    BY DEF Live, Retrieve, Dispatch
  <1>2. Path(c) \in Paths
    BY <1>1, PathType
  <1>3. CASE open[c]
    <2>1. StatsTypeOK'
      BY StatsTypes DEF TypeInv, TypeOK, Retrieve
    <2>2. /\ FileStoreTypeOK' /\ fd'[c] \in Inodes
          /\ \A d \in Conns \ {c} : fd'[d] = fd[d]
      BY <1>1, <1>2, <1>3, FileTypes
      DEF TypeInv, TypeOK, FileStoreTypeOK, Retrieve, openRead
    <2>3. reply' \in [Conns -> Seq(Responses)]
      <3>1. Append(reply[c], "DATA") \in Seq(Responses)
        BY DEF TypeInv, TypeOK, IOTypeOK, Responses
      <3>2. QED
        BY <1>3, <3>1 DEF TypeInv, TypeOK, IOTypeOK, Retrieve
    <2>4. left' \in [Conns -> Nat]
      BY <1>1, <1>2, <1>3, FileTypes DEF TypeInv, TypeOK, WorkerTypeOK, Retrieve
    <2>5. ConnTypeOK' /\ IOTypeOK' /\ WorkerTypeOK' /\ MainTypeOK'
      BY <1>3, <2>3, <2>4
      DEF TypeInv, TypeOK, Retrieve, Locations, Handling, ConnTypeOK, IOTypeOK,
          WorkerTypeOK, MainTypeOK, connVars, mainVars
    <2>6. pc' = [pc EXCEPT ![c] = "retrieving"]
      BY <1>3 DEF Retrieve
    <2>7. ASSUME NEW d \in Conns PROVE WorkerOK(d)'
      <3>1. CASE d = c
        BY <1>1, <1>3, <2>2, <2>6, <3>1
        DEF TypeInv, TypeOK, WorkerTypeOK, WorkerOK, Live, Retrieve, connVars
      <3>2. CASE d # c
        BY <1>3, <2>2, <2>6, <3>2, WorkerFrame
        DEF TypeInv, TypeOK, WorkerTypeOK, Retrieve, connVars
      <3>3. QED
        BY <3>1, <3>2
    <2>8. QED
      BY <2>1, <2>2, <2>5, <2>7 DEF TypeInv, TypeOK
  <1>4. CASE ~open[c]
    <2>1. StatsTypeOK' /\ FileStoreTypeOK'
      BY <1>4, StatsTypes, FileTypes DEF TypeInv, TypeOK, Retrieve
    <2>2. /\ IOTypeOK'
          /\ pc' \in [Conns -> Locations]
          /\ worker_error' \in [Conns -> Errors]
          /\ \A d \in Conns : WorkerOK(d)'
      BY <1>1, <1>4, RequestOver
      DEF Retrieve, connVars, fsVars, Errors, Responses, Ending
    <2>3. ConnTypeOK' /\ WorkerTypeOK' /\ MainTypeOK'
      BY <1>4, <2>2
      DEF TypeInv, TypeOK, ConnTypeOK, WorkerTypeOK, MainTypeOK, Retrieve, connVars,
          mainVars
    <2>4. QED
      BY <2>1, <2>2, <2>3 DEF TypeInv, TypeOK
  <1>5. QED
    BY <1>3, <1>4

\* The unit sent is one of those of the file, as the offset is before its end.
LEMMA TypeInv_RetrieveChunk ==
    ASSUME TypeInv, NEW c \in Conns, RetrieveChunk(c)
    PROVE  TypeInv'
  <1>1. StatsTypeOK'
    BY StatsTypes DEF TypeInv, TypeOK, RetrieveChunk
  <1>2. FileStoreTypeOK'
    BY DEF TypeInv, TypeOK, FileStoreTypeOK, RetrieveChunk
  <1>3. ConnTypeOK' /\ IOTypeOK' /\ WorkerTypeOK' /\ MainTypeOK'
    <2>1. fd[c] \in Inodes /\ offset[c] \in Nat /\ offset[c] < Len(inode[fd[c]])
      BY DEF TypeInv, TypeOK, FileStoreTypeOK, WorkerOK, RetrieveChunk, AtEnd, Contents
    <2>2. inode[fd[c]][offset[c] + 1] \in Values \cup {Hole}
      BY <2>1 DEF TypeInv, TypeOK, FileStoreTypeOK, Contents
    <2>3. sent' \in [Conns -> Contents]
      BY <2>2 DEF TypeInv, TypeOK, IOTypeOK, RetrieveChunk, Contents
    <2>4. QED
      BY <2>3
      DEF TypeInv, TypeOK, RetrieveChunk, ConnTypeOK, IOTypeOK, WorkerTypeOK,
          MainTypeOK, connVars, ioVars, workerVars, mainVars
  <1>4. ASSUME NEW d \in Conns PROVE WorkerOK(d)'
    BY WorkerFrame DEF TypeInv, RetrieveChunk, connVars
  <1>5. QED
    BY <1>1, <1>2, <1>3, <1>4 DEF TypeInv, TypeOK

\* The worker closes its socket, and drops what the client had sent.
LEMMA TypeInv_CloseSocket ==
    ASSUME TypeInv, NEW c \in Conns, CloseSocket(c)
    PROVE  TypeInv'
  <1>1. StatsTypeOK'
    BY StatsTypes DEF TypeInv, TypeOK, CloseSocket
  <1>2. FileStoreTypeOK'
    BY DEF TypeInv, TypeOK, FileStoreTypeOK, CloseSocket, fsVars
  <1>3. ConnTypeOK' /\ IOTypeOK' /\ WorkerTypeOK' /\ MainTypeOK'
    BY BoundsAssumption, NothingReceived
    DEF TypeInv, TypeOK, CloseSocket, Locations, Looping, Handling, Ending, Errors,
        ConnTypeOK, IOTypeOK, WorkerTypeOK, MainTypeOK, connVars, ioVars, workerVars,
        mainVars
  <1>4. ASSUME NEW d \in Conns PROVE WorkerOK(d)'
    BY RequestShape, RequestMembers
    DEF TypeInv, TypeOK, WorkerOK, Live, CloseSocket, IOTypeOK, WorkerTypeOK,
        ConnTypeOK, connVars, ioVars, workerVars, fsVars, Looping, Handling, Ending
  <1>5. QED
    BY <1>1, <1>2, <1>3, <1>4 DEF TypeInv, TypeOK

\* The worker removes its name for the last time.
LEMMA TypeInv_forceRemoveClientOnline ==
    ASSUME TypeInv, NEW c \in Conns, forceRemoveClientOnline(c)
    PROVE  TypeInv'
  <1>1. StatsTypeOK'
    BY StatsTypes DEF TypeInv, TypeOK, forceRemoveClientOnline
  <1>2. FileStoreTypeOK'
    BY DEF TypeInv, TypeOK, FileStoreTypeOK, forceRemoveClientOnline, fsVars
  <1>3. ConnTypeOK' /\ IOTypeOK' /\ WorkerTypeOK' /\ MainTypeOK'
    BY BoundsAssumption, NothingReceived
    DEF TypeInv, TypeOK, forceRemoveClientOnline, Locations, Looping, Handling, Ending,
        Errors, ConnTypeOK, IOTypeOK, WorkerTypeOK, MainTypeOK, connVars, ioVars,
        workerVars, mainVars
  <1>4. ASSUME NEW d \in Conns PROVE WorkerOK(d)'
    BY RequestShape, RequestMembers
    DEF TypeInv, TypeOK, WorkerOK, Live, forceRemoveClientOnline, IOTypeOK,
        WorkerTypeOK, ConnTypeOK, connVars, ioVars, workerVars, fsVars, Looping,
        Handling, Ending
  <1>5. QED
    BY <1>1, <1>2, <1>3, <1>4 DEF TypeInv, TypeOK

\* The worker ends and its locals with it.
LEMMA TypeInv_decrActiveThreads ==
    ASSUME TypeInv, NEW c \in Conns, decrActiveThreads(c)
    PROVE  TypeInv'
  <1>1. StatsTypeOK'
    BY StatsTypes DEF TypeInv, TypeOK, decrActiveThreads
  <1>2. FileStoreTypeOK'
    BY DEF TypeInv, TypeOK, FileStoreTypeOK, decrActiveThreads, fsVars
  <1>3. ConnTypeOK' /\ IOTypeOK' /\ WorkerTypeOK' /\ MainTypeOK'
    BY BoundsAssumption, NothingReceived
    DEF TypeInv, TypeOK, decrActiveThreads, Locations, Looping, Handling, Ending,
        Errors, ConnTypeOK, IOTypeOK, WorkerTypeOK, MainTypeOK, connVars, ioVars,
        workerVars, mainVars
  <1>4. ASSUME NEW d \in Conns PROVE WorkerOK(d)'
    BY RequestShape, RequestMembers
    DEF TypeInv, TypeOK, WorkerOK, Live, decrActiveThreads, IOTypeOK, WorkerTypeOK,
        ConnTypeOK, connVars, ioVars, workerVars, fsVars, Looping, Handling, Ending
  <1>5. QED
    BY <1>1, <1>2, <1>3, <1>4 DEF TypeInv, TypeOK

-----------------------------------------------------------------------------
(* TypeInv is an invariant.                                                *)

\* Whole objects, in the directories of users, are a well-typed store.
LEMMA TypeInv_Init == Init => TypeInv
  <1> SUFFICES ASSUME Init PROVE TypeInv
    OBVIOUS
  <1>1. StatsTypeOK
    BY DEF Init, StatsInit, StatsTypeOK, createList
  <1>2. FileStoreTypeOK
    <2>1. \A v \in Values : Whole(v) \in Contents
      BY SizeAssumption DEF Whole, Contents
    <2>2. <<>> \in Contents /\ Paths \subseteq Inodes
      BY DEF Contents, Inodes
    <2>3. PICK saved \in [Paths -> Values \cup {NoValue}] :
              /\ entry = [p \in Paths |-> IF saved[p] = NoValue THEN NoInode ELSE p]
              /\ inode = [i \in Inodes |->
                              IF i \in Paths
                              THEN IF saved[i] = NoValue THEN <<>> ELSE Whole(saved[i])
                              ELSE <<>>]
      BY DEF Init
    <2>4. inode \in [Inodes -> Contents]
      <3>1. \A i \in Paths : saved[i] = NoValue \/ saved[i] \in Values
        BY <2>3
      <3>2. QED
        BY <2>1, <2>2, <2>3, <3>1
    <2>5. entry \in [Paths -> Inodes \cup {NoInode}]
      BY <2>2, <2>3
    <2>6. QED
      BY <2>4, <2>5 DEF Init, FileStoreTypeOK
  <1>3. ConnTypeOK
    BY BoundsAssumption DEF Init, ConnTypeOK
  <1>4. IOTypeOK
    BY NothingReceived DEF Init, IOTypeOK
  <1>5. WorkerTypeOK
    BY DEF Init, WorkerTypeOK, Locations, Errors
  <1>6. MainTypeOK
    <2>1. restarts \in 0 .. MaxRestarts
      BY BoundsAssumption DEF Init
    <2>2. scanned \in SUBSET Paths /\ active_threads_counter \in Int
      BY DEF Init
    <2>3. QED
      BY <2>1, <2>2 DEF Init, MainTypeOK
  <1>7. ASSUME NEW c \in Conns PROVE WorkerOK(c)
    BY RequestMembers DEF Init, WorkerOK, Live
  <1>8. QED
    BY <1>1, <1>2, <1>3, <1>4, <1>5, <1>6, <1>7 DEF TypeInv, TypeOK

\* A step that changes nothing.
LEMMA TypeInv_Stutter ==
    ASSUME TypeInv, UNCHANGED vars
    PROVE  TypeInv'
  <1>1. TypeOK'
    BY DEF TypeInv, TypeOK, StatsTypeOK, FileStoreTypeOK, ConnTypeOK, IOTypeOK,
           WorkerTypeOK,
           MainTypeOK, vars, statsVars, fsVars, connVars, ioVars, workerVars, mainVars
  <1>2. ASSUME NEW c \in Conns PROVE WorkerOK(c)'
    BY WorkerFrame DEF TypeInv, vars, fsVars, connVars, ioVars, workerVars
  <1>3. QED
    BY <1>1, <1>2 DEF TypeInv

\* Every step of a worker.
LEMMA TypeInv_Worker ==
    ASSUME TypeInv, NEW c \in Conns, Worker(c)
    PROVE  TypeInv'
  BY TypeInv_LoopGuard, TypeInv_SelectTimeout, TypeInv_SelectFails, TypeInv_ReadNoHeader,
     TypeInv_LeftoverRequest, TypeInv_Register,
     TypeInv_RegisterCheck, TypeInv_RegisterAdd, TypeInv_Leave, TypeInv_Delete,
     TypeInv_DeleteRemove, TypeInv_Store, TypeInv_StoreOpen, TypeInv_StoreOpenFails,
     TypeInv_StoreChunk, TypeInv_StoreAbort, TypeInv_StoreFinish, TypeInv_Retrieve,
     TypeInv_RetrieveFails, TypeInv_RetrieveChunk, TypeInv_RetrieveChunkFails,
     TypeInv_RetrieveFinish, TypeInv_CloseSocket, TypeInv_forceRemoveClientOnline,
     TypeInv_decrActiveThreads, TypeInv_Stutter
  DEF Worker, RetrieveSpin

\* Every step of the system.
LEMMA TypeInv_Next == TypeInv /\ [Next]_vars => TypeInv'
  <1> SUFFICES ASSUME TypeInv, [Next]_vars PROVE TypeInv'
    OBVIOUS
  <1>1. CASE Scan
    BY <1>1, TypeInv_ScanUser, TypeInv_ScanFile, TypeInv_Listen DEF Scan
  <1>2. CASE Main
    BY <1>2, TypeInv_MainGuard, TypeInv_AcceptTimeout, TypeInv_waitActiveThreads,
       TypeInv_createWorker, TypeInv_createWorkerFails DEF Main
  <1>3. CASE sighandler \/ Restart
    BY <1>3, TypeInv_sighandler, TypeInv_Restart
  <1>4. ASSUME NEW c \in Conns, Worker(c) \/ Client(c)
        PROVE  TypeInv'
    BY <1>4, TypeInv_Worker, TypeInv_ClientRequest, TypeInv_ClientClose DEF Client
  <1>5. CASE Terminated \/ UNCHANGED vars
    BY <1>5, TypeInv_Stutter DEF Terminated
  <1>6. QED
    BY <1>1, <1>2, <1>3, <1>4, <1>5 DEF Next

\* TypeInv is inductive.
LEMMA TypeInvariant == Spec => []TypeInv
  BY TypeInv_Init, TypeInv_Next, PTL DEF Spec

\* Every variable keeps its type, whatever the names, the clients, the faults and
\* the number of restarts.
THEOREM TypeCorrect == Spec => []TypeOK
  <1>1. TypeInv => TypeOK
    BY DEF TypeInv
  <1>2. QED
    BY <1>1, TypeInvariant, PTL

-----------------------------------------------------------------------------
(* The workers and the names they serve.                                   *)

LiveConns == {c \in Conns : Live(c)}

\* No worker ends but in decrActiveThreads, and no step of a worker is another's.
LEMMA WorkerStep ==
    ASSUME TypeInv, NEW c \in Conns, Worker(c)
    PROVE  /\ Live(c)
           /\ main' = main /\ peer' = peer
           /\ \A d \in Conns \ {c} : /\ pc'[d] = pc[d]
                                     /\ userName'[d] = userName[d]
                                     /\ request'[d] = request[d]
                                     /\ worker_error'[d] = worker_error[d]
           /\ \/ decrActiveThreads(c)
              \/ /\ active_threads_counter' = active_threads_counter
                 /\ pc'[c] \notin {"none", "exited"}
  <1> USE DEF TypeInv, TypeOK, WorkerTypeOK, IOTypeOK, Live, Looping, Handling, Ending
  <1>1. CASE \/ LoopGuard(c) \/ SelectTimeout(c) \/ SelectFails(c) \/ RetrieveSpin(c)
             \/ ReadNoHeader(c) \/ \E r \in Requests : LeftoverRequest(c, r)
    BY <1>1
    DEF LoopGuard, SelectTimeout, SelectFails, Leftover, ReadNoHeader, LeftoverRequest,
        RetrieveSpin, vars, connVars, ioVars, workerVars, mainVars
  <1>2. CASE Register(c) \/ RegisterCheck(c) \/ RegisterAdd(c) \/ Leave(c)
    BY <1>2
    DEF Register, RegisterCheck, RegisterAdd, Leave, Dispatch, Continue, Answer, Finish,
        connVars, ioVars, mainVars
  <1>3. CASE Delete(c) \/ DeleteRemove(c) \/ Store(c) \/ StoreOpen(c)
    BY <1>3
    DEF Delete, DeleteRemove, Store, StoreOpen, Dispatch, Continue, Answer, Finish,
        connVars, ioVars, mainVars
  <1>4. CASE StoreOpenFails(c) \/ StoreChunk(c) \/ StoreAbort(c) \/ StoreFinish(c)
    BY <1>4
    DEF GoesAstray, StoreOpenFails, StoreChunk, StoreAbort, StoreFinish, Answer, Finish,
        connVars, ioVars, mainVars
  <1>5. CASE \/ Retrieve(c) \/ RetrieveFails(c) \/ RetrieveChunk(c)
             \/ RetrieveChunkFails(c) \/ RetrieveFinish(c)
    BY <1>5
    DEF Retrieve, RetrieveFails, RetrieveChunk, RetrieveChunkFails, GoesAstray,
        RetrieveFinish, Dispatch, Answer, Finish, connVars, mainVars
  <1>6. CASE CloseSocket(c) \/ forceRemoveClientOnline(c) \/ decrActiveThreads(c)
    BY <1>6
    DEF CloseSocket, forceRemoveClientOnline, decrActiveThreads, connVars, ioVars,
        mainVars
  <1>7. QED
    BY <1>1, <1>2, <1>3, <1>4, <1>5, <1>6 DEF Worker

-----------------------------------------------------------------------------
(* The counter of the threads.                                             *)

\* A step that changes neither the workers nor the counter.
LEMMA CounterFrame ==
    ASSUME WorkersCounted, \A c \in Conns : Live(c)' = Live(c),
           active_threads_counter' = active_threads_counter,
           main' = "exited" => main = "exited"
    PROVE  WorkersCounted'
  <1>1. {c \in Conns : Live(c)}' = {c \in Conns : Live(c)}
    OBVIOUS
  <1>2. QED
    BY <1>1 DEF WorkersCounted

\* WorkersCounted is inductive, given the types.
LEMMA WorkersCounted_Next == TypeInv /\ WorkersCounted /\ [Next]_vars => WorkersCounted'
  <1> SUFFICES ASSUME TypeInv, WorkersCounted, [Next]_vars PROVE WorkersCounted'
    OBVIOUS
  <1>1. IsFiniteSet(LiveConns) /\ active_threads_counter = Cardinality(LiveConns)
    BY InodesAssumption, FS_Subset DEF LiveConns, WorkersCounted
  <1>2. ASSUME NEW c \in Conns, NEW u \in Users, createWorker(c, u)
        PROVE  WorkersCounted'
    <2>1. LiveConns' = LiveConns \cup {c} /\ c \notin LiveConns
      BY <1>2 DEF createWorker, LiveConns, Live, TypeInv, TypeOK, WorkerTypeOK
    <2>2. Cardinality(LiveConns') = Cardinality(LiveConns) + 1
      BY <1>1, <2>1, FS_AddElement
    <2>3. QED
      BY <1>1, <1>2, <2>2 DEF createWorker, WorkersCounted, LiveConns
  <1>3. ASSUME NEW c \in Conns, decrActiveThreads(c)
        PROVE  WorkersCounted'
    <2>1. LiveConns' = LiveConns \ {c} /\ c \in LiveConns
      BY <1>3 DEF decrActiveThreads, LiveConns, Live, TypeInv, TypeOK, WorkerTypeOK
    <2>2. Cardinality(LiveConns') = Cardinality(LiveConns) - 1
      BY <1>1, <2>1, FS_RemoveElement
    <2>3. main' # "exited"
      BY <1>3, <2>1 DEF decrActiveThreads, WorkersCounted, LiveConns
    <2>4. QED
      BY <1>1, <1>3, <2>2, <2>3 DEF decrActiveThreads, WorkersCounted, LiveConns
  <1>4. CASE waitActiveThreads
    <2>1. LiveConns = {}
      BY <1>1, <1>4, FS_EmptySet DEF waitActiveThreads
    <2>2. \A c \in Conns : Live(c)' = Live(c)
      BY <1>4 DEF waitActiveThreads, workerVars, Live
    <2>3. {c \in Conns : Live(c)}' = {c \in Conns : Live(c)}
      BY <2>2
    <2>4. QED
      BY <1>4, <2>1, <2>2, <2>3 DEF waitActiveThreads, WorkersCounted, LiveConns
  <1>5. CASE Restart
    <2>1. LiveConns' = {}
      BY <1>5 DEF Restart, LiveConns, Live
    <2>2. QED
      BY <1>5, <2>1, FS_EmptySet DEF Restart, WorkersCounted, LiveConns
  <1>6. ASSUME NEW c \in Conns, Worker(c)
        PROVE  WorkersCounted'
    BY <1>3, <1>6, WorkerStep, CounterFrame DEF Live
  <1>7. ASSUME NEW c \in Conns, createWorkerFails(c) \/ Client(c)
        PROVE  WorkersCounted'
    BY <1>7, CounterFrame
    DEF createWorkerFails, Client, ClientRequest, ClientClose, workerVars, mainVars, Live,
        TypeInv, TypeOK, WorkerTypeOK
  <1>8. CASE Scan \/ MainGuard \/ AcceptTimeout \/ sighandler \/ UNCHANGED vars
    BY <1>8, CounterFrame
    DEF Scan, ScanUser, ScanFile, Listen, MainGuard, AcceptTimeout, sighandler, vars,
        workerVars, mainVars, Live
  <1>9. QED
    BY <1>2, <1>4, <1>5, <1>6, <1>7, <1>8 DEF Next, Main, Terminated

\* Under any discipline, with any faults and through restarts, the counter that
\* main waits on is the number of workers: main exits after the last of them.
THEOREM WorkersAreCounted == Spec => []WorkersCounted
  <1>1. Init => WorkersCounted
    <2> SUFFICES ASSUME Init PROVE WorkersCounted
      OBVIOUS
    <2>1. {c \in Conns : Live(c)} = {}
      BY DEF Init, Live
    <2>2. QED
      BY <2>1, FS_EmptySet DEF Init, WorkersCounted
  <1>2. QED
    BY <1>1, WorkersCounted_Next, TypeInvariant, PTL DEF Spec

-----------------------------------------------------------------------------
(* One client at a time for each name, and one name for each client.       *)

\* What a step of a worker does to its name.
LEMMA NameStep ==
    ASSUME TypeInv, NEW c \in Conns, Worker(c)
    PROVE  \/ /\ RegisterAdd(c) /\ userName'[c] \in Users
              /\ userName[c] = NoUser => userName'[c] = request[c].obj /\ renamed' = renamed
           \/ decrActiveThreads(c) /\ userName'[c] = NoUser /\ renamed' = renamed
           \/ /\ ~RegisterAdd(c) /\ ~decrActiveThreads(c)
              /\ userName'[c] = userName[c] /\ renamed' = renamed
  BY DEF Worker, LoopGuard, SelectTimeout, SelectFails, Leftover, ReadNoHeader,
         LeftoverRequest, RetrieveSpin, Register, RegisterCheck, RegisterAdd, Leave, Delete,
         DeleteRemove, Store, StoreOpen, GoesAstray, StoreOpenFails, StoreChunk, StoreAbort,
         StoreFinish, Retrieve, RetrieveFails, RetrieveChunk, RetrieveChunkFails,
         GoesAstray, RetrieveFinish, CloseSocket, forceRemoveClientOnline,
         decrActiveThreads, vars, connVars, workerVars, TypeInv, TypeOK, WorkerTypeOK

\* A worker registers once, under the name of its client: until its REGISTER is
\* answered it has no name, and no worker keeps its name when it ends.
RegistersOnce ==
    /\ renamed = {}
    /\ \A c \in Conns :
        /\ ~Live(c) => userName[c] = NoUser
        /\ request[c].cmd = "REGISTER" => userName[c] = NoUser /\ request[c].obj = peer[c]

\* RegistersOnce is inductive, given the types, when no block spells a REGISTER.
LEMMA RegistersOnce_Next ==
    ASSUME NoRegisterSpelled, TypeInv, RegistersOnce, [Next]_vars
    PROVE  RegistersOnce'
  <1>1. ASSUME NEW c \in Conns, Worker(c)
        PROVE  RegistersOnce'
    <2>1. ASSUME NEW d \in Conns \ {c}
          PROVE  /\ ~Live(d)' => userName'[d] = NoUser
                 /\ request'[d].cmd = "REGISTER" =>
                        userName'[d] = NoUser /\ request'[d].obj = peer'[d]
      BY <1>1, WorkerStep DEF RegistersOnce, Live
    <2>2. peer' = peer /\ (decrActiveThreads(c) \/ Live(c)')
      BY <1>1, WorkerStep DEF Live
    <2>3. CASE RegisterAdd(c)
      <3>1. request'[c] = NoRequest /\ ~decrActiveThreads(c) /\ request[c].cmd = "REGISTER"
        BY <2>3
        DEF RegisterAdd, decrActiveThreads, Answer, Finish, TypeInv, TypeOK, WorkerOK,
            IOTypeOK
      <3>2. userName[c] = NoUser /\ Live(c)'
        BY <2>2, <3>1 DEF RegistersOnce
      <3>3. renamed' = {}
        BY <2>3, <3>2 DEF RegisterAdd, RegistersOnce
      <3>4. QED
        BY <2>1, <3>1, <3>2, <3>3, RequestMembers DEF RegistersOnce
    <2>4. CASE decrActiveThreads(c)
      <3>1. userName'[c] = NoUser /\ renamed' = renamed /\ request' = request
        BY <2>4 DEF decrActiveThreads, TypeInv, TypeOK, WorkerTypeOK
      <3>2. QED
        BY <2>1, <2>2, <3>1 DEF RegistersOnce
    <2>5. CASE ~RegisterAdd(c) /\ ~decrActiveThreads(c)
      <3>1. request'[c] = request[c] \/ request'[c].cmd # "REGISTER"
        <4>1. CASE \E r \in Requests : LeftoverRequest(c, r)
          BY <4>1 DEF LeftoverRequest, NoRegisterSpelled, TypeInv, TypeOK, IOTypeOK
        <4>2. CASE ~\E r \in Requests : LeftoverRequest(c, r)
          <5>1. request'[c] \in {request[c], NoRequest}
            BY <1>1, <2>5, <4>2
            DEF Worker, LoopGuard, SelectTimeout, SelectFails, ReadNoHeader, RetrieveSpin,
                Register, RegisterCheck, Leave, Delete, DeleteRemove, Store, StoreOpen,
                StoreOpenFails, StoreChunk, StoreAbort, StoreFinish, Retrieve,
                RetrieveFails, RetrieveChunk, RetrieveChunkFails, RetrieveFinish,
                CloseSocket, forceRemoveClientOnline, Continue, Answer, Finish, vars,
                ioVars, TypeInv, TypeOK, IOTypeOK
          <5>2. QED
            BY <5>1, RequestMembers
        <4>3. QED
          BY <4>1, <4>2
      <3>2. userName'[c] = userName[c] /\ Live(c)' /\ renamed' = renamed
        BY <1>1, <2>2, <2>5, NameStep
      <3>3. QED
        BY <2>1, <2>2, <3>1, <3>2 DEF RegistersOnce
    <2>6. QED
      BY <2>3, <2>4, <2>5
  <1>2. ASSUME NEW c \in Conns, NEW u \in Users, createWorker(c, u)
        PROVE  RegistersOnce'
    <2>1. /\ request'[c].obj = u /\ peer'[c] = u /\ userName' = userName
          /\ userName[c] = NoUser /\ renamed' = renamed
      BY <1>2, RequestMembers
      DEF createWorker, RegistersOnce, Live, TypeInv, TypeOK, ConnTypeOK, IOTypeOK
    <2>2. ASSUME NEW d \in Conns \ {c}
          PROVE  Live(d)' = Live(d) /\ request'[d] = request[d] /\ peer'[d] = peer[d]
      BY <1>2
      DEF createWorker, Live, TypeInv, TypeOK, ConnTypeOK, IOTypeOK, WorkerTypeOK
    <2>3. QED
      BY <2>1, <2>2 DEF RegistersOnce
  <1>3. CASE Restart
    BY <1>3, RequestMembers DEF Restart, RegistersOnce
  <1>4. ASSUME NEW c \in Conns, createWorkerFails(c) \/ Client(c)
        PROVE  RegistersOnce'
    BY <1>4
    DEF createWorkerFails, Client, ClientRequest, ClientClose, RegistersOnce, Live, ioVars,
        connVars, workerVars, TypeInv, TypeOK, WorkerTypeOK, IOTypeOK
  <1>5. CASE \/ Scan \/ MainGuard \/ AcceptTimeout \/ sighandler \/ waitActiveThreads
             \/ UNCHANGED vars
    BY <1>5
    DEF Scan, ScanUser, ScanFile, Listen, MainGuard, AcceptTimeout, sighandler,
        waitActiveThreads, RegistersOnce, Live, vars, ioVars, connVars, workerVars
  <1>6. QED
    BY <1>1, <1>2, <1>3, <1>4, <1>5 DEF Next, Main, Terminated

\* A client has a name only after its REGISTER, and no worker keeps it when it ends.
LEMMA RegistersOnceInvariant ==
    ASSUME NoRegisterSpelled
    PROVE  Spec => []RegistersOnce
  <1>1. Init => RegistersOnce
    BY RequestMembers DEF Init, RegistersOnce
  <1>2. TypeInv /\ RegistersOnce /\ [Next]_vars => RegistersOnce'
    BY RegistersOnce_Next
  <1>3. QED
    BY <1>1, <1>2, TypeInvariant, PTL DEF Spec

\* A name has one worker, which registers no other name and forgets it when it ends.
OneWorkerPerName ==
    /\ \A c, d \in Conns : Live(c) /\ Live(d) /\ peer[c] = peer[d] => c = d
    /\ \A c \in Conns : userName[c] # NoUser => Live(c) /\ userName[c] = peer[c]

\* A step that changes no worker's peer, life or name.
LEMMA NamesFrame ==
    ASSUME OneWorkerPerName,
           \A c \in Conns : /\ Live(c)' = Live(c) /\ peer'[c] = peer[c]
                            /\ userName'[c] = userName[c]
    PROVE  OneWorkerPerName'
  BY DEF OneWorkerPerName

\* OneWorkerPerName is inductive under the exclusive discipline, given the types.
LEMMA OneWorkerPerName_Next ==
    ASSUME Discipline = "exclusive", TypeInv, RegistersOnce, OneWorkerPerName, [Next]_vars
    PROVE  OneWorkerPerName'
  <1>1. ASSUME NEW c \in Conns, NEW u \in Users, createWorker(c, u)
        PROVE  OneWorkerPerName'
    <2>1. \A d \in Conns : Live(d) => peer[d] # u
      BY <1>1 DEF createWorker, MayConnect
    <2>2. /\ peer'[c] = u /\ userName[c] = NoUser /\ userName' = userName
          /\ \A d \in Conns \ {c} : peer'[d] = peer[d] /\ Live(d)' = Live(d)
      BY <1>1
      DEF createWorker, OneWorkerPerName, Live, TypeInv, TypeOK, ConnTypeOK, WorkerTypeOK
    <2>3. QED
      BY <2>1, <2>2 DEF OneWorkerPerName
  <1>2. ASSUME NEW c \in Conns, Worker(c)
        PROVE  OneWorkerPerName'
    <2>1. /\ peer' = peer
          /\ \A d \in Conns : Live(d)' => Live(d)
          /\ \A d \in Conns \ {c} : Live(d)' = Live(d) /\ userName'[d] = userName[d]
      BY <1>2, WorkerStep DEF Live
    <2>2. userName'[c] # NoUser => userName'[c] = peer[c] /\ Live(c)'
      <3>1. CASE RegisterAdd(c)
        <4>1. request[c].cmd = "REGISTER" /\ ~decrActiveThreads(c)
          BY <3>1 DEF RegisterAdd, decrActiveThreads, TypeInv, WorkerOK
        <4>2. userName[c] = NoUser /\ request[c].obj = peer[c]
          BY <4>1 DEF RegistersOnce
        <4>3. QED
          BY <1>2, <3>1, <4>1, <4>2, WorkerStep, NameStep DEF Live
      <3>2. CASE ~RegisterAdd(c)
        BY <1>2, <3>2, WorkerStep, NameStep DEF OneWorkerPerName, Live
      <3>3. QED
        BY <3>1, <3>2
    <2>3. QED
      BY <2>1, <2>2 DEF OneWorkerPerName
  <1>3. CASE Restart
    BY <1>3 DEF Restart, Live, OneWorkerPerName
  <1>4. ASSUME NEW c \in Conns, createWorkerFails(c) \/ Client(c)
        PROVE  OneWorkerPerName'
    BY <1>4, NamesFrame
    DEF createWorkerFails, Client, ClientRequest, ClientClose, connVars, workerVars, Live,
        TypeInv, TypeOK, WorkerTypeOK
  <1>5. CASE \/ Scan \/ MainGuard \/ AcceptTimeout \/ sighandler \/ waitActiveThreads
             \/ UNCHANGED vars
    BY <1>5, NamesFrame
    DEF Scan, ScanUser, ScanFile, Listen, MainGuard, AcceptTimeout, sighandler,
        waitActiveThreads, vars, connVars, workerVars, Live
  <1>6. QED
    BY <1>1, <1>2, <1>3, <1>4, <1>5 DEF Next, Main, Terminated

\* Who waits for the worker of his previous session meets no second one.
LEMMA NamesInvariant ==
    ASSUME Discipline = "exclusive", NoRegisterSpelled
    PROVE  Spec => []OneWorkerPerName
  <1>1. Init => OneWorkerPerName
    BY DEF Init, OneWorkerPerName, Live
  <1>2. TypeInv /\ RegistersOnce /\ OneWorkerPerName /\ [Next]_vars => OneWorkerPerName'
    BY OneWorkerPerName_Next
  <1>3. QED
    BY <1>1, <1>2, RegistersOnceInvariant, TypeInvariant, PTL DEF Spec

\* The request of a worker that registers.
LEMMA RegisterTypes ==
    ASSUME TypeInv, NEW c \in Conns, RegisterAdd(c) \/ RegisterCheck(c)
    PROVE  request[c].cmd = "REGISTER" /\ request[c].obj \in Users /\ Live(c)
  <1>1. request[c] \in Requests \cup {NoRequest} /\ request[c].cmd = "REGISTER" /\ Live(c)
    BY DEF TypeInv, TypeOK, IOTypeOK, WorkerOK, RegisterAdd, RegisterCheck, Live
  <1>2. QED
    BY <1>1, RequestShape

-----------------------------------------------------------------------------
(* What a session relies on stays true until it ends.                      *)

\* The list of the online clients, after a step of a worker: only its own name is
\* removed, and a worker that goes on serving has not removed it.
LEMMA OnlineStep ==
    ASSUME TypeInv, NEW c \in Conns, Worker(c)
    PROVE  /\ \A u \in Users : u # userName[c] /\ onlineclients[u] > 0 => onlineclients'[u] > 0
           /\ Serving(c)' => \/ RegisterAdd(c)
                             \/ Serving(c) /\ UNCHANGED <<onlineclients, userName>>
  <1> USE DEF TypeInv, TypeOK, StatsTypeOK, WorkerTypeOK, Serving, Looping, Handling
  <1>1. CASE \/ LoopGuard(c) \/ SelectTimeout(c) \/ SelectFails(c) \/ RetrieveSpin(c)
             \/ ReadNoHeader(c) \/ \E r \in Requests : LeftoverRequest(c, r)
    BY <1>1
    DEF LoopGuard, SelectTimeout, SelectFails, Leftover, ReadNoHeader, LeftoverRequest,
        RetrieveSpin, vars, statsVars, workerVars
  <1>2. CASE RegisterAdd(c)
    <2>1. PICK n \in Users : n = request[c].obj
      BY <1>2, RegisterTypes
    <2>2. onlineclients' = [onlineclients EXCEPT ![n] = @ + 1]
      BY <1>2, <2>1 DEF RegisterAdd, addClientOnline, insertList
    <2>3. QED
      BY <1>2, <2>2
  <1>3. CASE Register(c) \/ RegisterCheck(c)
    BY <1>3 DEF Register, RegisterCheck, Dispatch, Continue, Answer, Finish, statsVars
  <1>4. CASE Leave(c) \/ forceRemoveClientOnline(c)
    <2>1. pc'[c] \notin Looping \cup Handling
      BY <1>4 DEF Leave, forceRemoveClientOnline, Answer, Finish
    <2>2. removeClientOnline(userName[c])
      BY <1>4 DEF Leave, forceRemoveClientOnline
    <2>3. \A u \in Users : u # userName[c] => onlineclients'[u] = onlineclients[u]
      BY <2>2 DEF removeClientOnline, deleteList
    <2>4. QED
      BY <2>1, <2>3
  <1>5. CASE Delete(c) \/ DeleteRemove(c) \/ Store(c) \/ StoreOpen(c)
    BY <1>5
    DEF Delete, DeleteRemove, Store, StoreOpen, Dispatch, Continue, Answer, Finish,
        statsVars, removeFile, subtractFile
  <1>6. CASE StoreOpenFails(c) \/ StoreChunk(c) \/ StoreAbort(c) \/ StoreFinish(c)
    BY <1>6
    DEF GoesAstray, StoreOpenFails, StoreChunk, StoreAbort, StoreFinish, Answer, Finish,
        statsVars, addFile
  <1>7. CASE \/ Retrieve(c) \/ RetrieveFails(c) \/ RetrieveChunk(c)
             \/ RetrieveChunkFails(c) \/ RetrieveFinish(c)
    BY <1>7
    DEF Retrieve, RetrieveFails, RetrieveChunk, RetrieveChunkFails, GoesAstray,
        RetrieveFinish, Dispatch, Answer, Finish, statsVars
  <1>8. CASE CloseSocket(c) \/ decrActiveThreads(c)
    BY <1>8 DEF CloseSocket, decrActiveThreads, statsVars
  <1>9. QED
    BY <1>1, <1>2, <1>3, <1>4, <1>5, <1>6, <1>7, <1>8 DEF Worker

\* A step that touches neither the sessions nor the list of the online clients.
LEMMA OnlineFrame ==
    ASSUME ServedIsOnline, onlineclients' = onlineclients,
           \A c \in Conns : Serving(c)' => Serving(c) /\ userName'[c] = userName[c]
    PROVE  ServedIsOnline'
  BY DEF ServedIsOnline, checkIfOnline, isInList

\* ServedIsOnline is inductive when a name has one worker.
LEMMA ServedIsOnline_Next ==
    TypeInv /\ RegistersOnce /\ OneWorkerPerName /\ ServedIsOnline /\ [Next]_vars
        => ServedIsOnline'
  <1> SUFFICES ASSUME TypeInv, RegistersOnce, OneWorkerPerName, ServedIsOnline, [Next]_vars
               PROVE  ServedIsOnline'
    OBVIOUS
  <1>1. ASSUME NEW c \in Conns, Worker(c), NEW d \in Conns, Serving(d)'
        PROVE  checkIfOnline(userName[d])'
    <2>1. CASE d = c /\ RegisterAdd(c)
      <3>1. PICK n \in Users : n = request[c].obj
        BY <2>1, RegisterTypes
      <3>2. userName'[c] = n
        BY <2>1, <3>1, RegisterTypes
        DEF RegisterAdd, RegistersOnce, TypeInv, TypeOK, WorkerTypeOK
      <3>3. onlineclients' = [onlineclients EXCEPT ![n] = @ + 1] /\ onlineclients[n] \in Nat
        BY <2>1, <3>1
        DEF RegisterAdd, addClientOnline, insertList, TypeInv, TypeOK, StatsTypeOK
      <3>4. onlineclients'[n] > 0
        BY <3>3 DEF TypeInv, TypeOK, StatsTypeOK
      <3>5. QED
        BY <2>1, <3>2, <3>4 DEF checkIfOnline, isInList
    <2>2. CASE d = c /\ ~RegisterAdd(c)
      BY <1>1, <2>2, OnlineStep DEF ServedIsOnline, checkIfOnline, isInList
    <2>3. CASE d # c
      <3>1. Serving(d) /\ userName'[d] = userName[d] /\ userName[d] \in Users
        BY <1>1, <2>3, WorkerStep DEF Serving, TypeInv, TypeOK, WorkerTypeOK
      <3>2. userName[d] # userName[c]
        BY <1>1, <2>3, <3>1, WorkerStep DEF OneWorkerPerName, Serving
      <3>3. onlineclients'[userName[d]] > 0
        BY <1>1, <3>1, <3>2, OnlineStep DEF ServedIsOnline, checkIfOnline, isInList
      <3>4. QED
        BY <3>1, <3>3 DEF checkIfOnline, isInList
    <2>4. QED
      BY <2>1, <2>2, <2>3
  <1>2. ASSUME NEW c \in Conns, NEW u \in Users, createWorker(c, u)
        PROVE  ServedIsOnline'
    <2>1. userName[c] = NoUser
      BY <1>2 DEF createWorker, OneWorkerPerName, Live
    <2>2. QED
      BY <1>2, <2>1, OnlineFrame
      DEF createWorker, statsVars, Serving, TypeInv, TypeOK, WorkerTypeOK
  <1>3. CASE Restart
    BY <1>3 DEF Restart, ServedIsOnline, Serving
  <1>4. ASSUME NEW c \in Conns, createWorkerFails(c) \/ Client(c)
        PROVE  ServedIsOnline'
    BY <1>4, OnlineFrame
    DEF createWorkerFails, Client, ClientRequest, ClientClose, statsVars, workerVars,
        Serving, Looping, Handling, TypeInv, TypeOK, WorkerTypeOK
  <1>5. CASE \/ Scan \/ MainGuard \/ AcceptTimeout \/ sighandler \/ waitActiveThreads
             \/ UNCHANGED vars
    BY <1>5, OnlineFrame
    DEF Scan, ScanUser, ScanFile, Listen, MainGuard, AcceptTimeout, sighandler,
        waitActiveThreads, vars, statsVars, workerVars, Serving, countUser, addFile
  <1>6. QED
    BY <1>1, <1>2, <1>3, <1>4, <1>5 DEF Next, Main, Terminated, ServedIsOnline

\* A client being served stays online until it leaves, whatever the others do, when
\* each name has one client at a time.
THEOREM ServedAreOnline ==
    ASSUME Discipline = "exclusive", NoRegisterSpelled
    PROVE  Spec => []ServedIsOnline
  <1>1. Init => ServedIsOnline
    BY DEF Init, ServedIsOnline, Serving
  <1>2. QED
    BY <1>1, ServedIsOnline_Next, NamesInvariant, RegistersOnceInvariant, TypeInvariant, PTL
    DEF Spec

-----------------------------------------------------------------------------
(* No session stops the server.                                            *)

\* No worker has met SHARED_DATA_ERROR, and the file a DELETE has found is there
\* until its worker removes it.
NoSharedDataError ==
    /\ ~global_failure
    /\ \A c \in Conns : /\ worker_error[c] # "SHARED_DATA_ERROR"
                        /\ pc[c] = "delete_remove" => entry[Path(c)] # NoInode

\* The paths that disappear in a step of a worker are under the name it serves.
LEMMA EntryStep ==
    ASSUME TypeInv, NEW c \in Conns, Worker(c), NEW p \in Paths,
           entry[p] # NoInode, p[1] # userName[c]
    PROVE  entry'[p] # NoInode
  <1> USE DEF TypeInv, TypeOK, FileStoreTypeOK
  <1>1. \A q : unlink(q) \/ closeUnlink(c, q) => q = p \/ entry'[p] # NoInode
    BY DEF unlink, closeUnlink
  <1>2. Path(c) # p
    BY DEF Path, Paths
  <1>3. CASE DeleteRemove(c) \/ Store(c)
    BY <1>1, <1>2, <1>3 DEF DeleteRemove, Store, removeFile, fsVars
  <1>4. CASE StoreOpen(c)
    BY <1>4, InodesAssumption DEF StoreOpen, openTrunc
  <1>5. CASE StoreAbort(c)
    BY <1>1, <1>2, <1>5 DEF StoreAbort, close
  <1>6. CASE ~(DeleteRemove(c) \/ Store(c) \/ StoreOpen(c) \/ StoreAbort(c))
    BY <1>6
    DEF Worker, LoopGuard, SelectTimeout, SelectFails, Leftover, ReadNoHeader,
        LeftoverRequest, RetrieveSpin, Register, RegisterCheck, RegisterAdd, Leave, Delete,
        StoreOpenFails, GoesAstray, StoreChunk, StoreFinish, Retrieve, RetrieveFails,
        RetrieveChunk, RetrieveChunkFails, GoesAstray, RetrieveFinish, CloseSocket,
        forceRemoveClientOnline, decrActiveThreads, vars, fsVars, mkdir, write, openRead,
        close
  <1>7. QED
    BY <1>3, <1>4, <1>5, <1>6

\* The errors a worker meets when its client is online, the file it deletes is there
\* and the system calls on the store do not fail.
LEMMA ErrorStep ==
    ASSUME TypeInv, ServedIsOnline, NoSharedDataError, NEW c \in Conns, Worker(c),
           Faults \cap {"mkdir_store", "unlink"} = {}
    PROVE  ~global_failure' /\ worker_error'[c] # "SHARED_DATA_ERROR"
  <1> USE DEF TypeInv, TypeOK, WorkerTypeOK, NoSharedDataError
  <1>1. CASE \/ LoopGuard(c) \/ SelectTimeout(c) \/ SelectFails(c) \/ RetrieveSpin(c)
             \/ ReadNoHeader(c) \/ \E r \in Requests : LeftoverRequest(c, r)
             \/ CloseSocket(c) \/ forceRemoveClientOnline(c) \/ decrActiveThreads(c)
    BY <1>1
    DEF LoopGuard, SelectTimeout, SelectFails, Leftover, ReadNoHeader, LeftoverRequest,
        RetrieveSpin, CloseSocket, forceRemoveClientOnline, decrActiveThreads, vars,
        workerVars, mainVars
  <1>2. CASE Register(c) \/ RegisterCheck(c) \/ RegisterAdd(c)
    BY <1>2
    DEF Register, RegisterCheck, RegisterAdd, Continue, Answer, Finish, mainVars
  <1>3. CASE Leave(c)
    <2>1. userName[c] \in Users /\ pc[c] = "select"
      BY <1>3 DEF Leave, Dispatch, WorkerOK
    <2>2. checkIfOnline(userName[c])
      BY <2>1, UsersAssumption DEF ServedIsOnline, Serving, Looping
    <2>3. QED
      BY <1>3, <2>2 DEF Leave, Answer, Finish
  <1>4. CASE DeleteRemove(c)
    <2>1. ~removeFile(Path(c), -1)
      BY <1>4 DEF DeleteRemove, removeFile
    <2>2. QED
      BY <1>4, <2>1 DEF DeleteRemove, Answer, Finish, mainVars
  <1>5. CASE Delete(c) \/ Store(c) \/ StoreOpen(c) \/ StoreOpenFails(c) \/ StoreChunk(c)
    BY <1>5
    DEF Delete, Store, StoreOpen, StoreOpenFails, GoesAstray, StoreChunk, Continue, Answer,
        Finish, mainVars
  <1>6. CASE StoreAbort(c) \/ StoreFinish(c) \/ Retrieve(c) \/ RetrieveFails(c)
    BY <1>6
    DEF StoreAbort, StoreFinish, Retrieve, RetrieveFails, Answer, Finish, mainVars
  <1>7. CASE RetrieveChunk(c) \/ RetrieveChunkFails(c) \/ RetrieveFinish(c)
    BY <1>7
    DEF RetrieveChunk, RetrieveChunkFails, GoesAstray, RetrieveFinish, Answer, Finish,
        mainVars
  <1>8. QED
    BY <1>1, <1>2, <1>3, <1>4, <1>5, <1>6, <1>7 DEF Worker

\* The file a DELETE has just found is still there.
LEMMA DeleteFinds ==
    ASSUME TypeInv, NEW c \in Conns, Worker(c), pc'[c] = "delete_remove"
    PROVE  entry'[Path(c)'] # NoInode
  <1> USE DEF TypeInv, TypeOK, WorkerTypeOK
  <1>1. Delete(c)
    BY DEF Worker, LoopGuard, SelectTimeout, SelectFails, Leftover, ReadNoHeader,
           LeftoverRequest, RetrieveSpin, Register, RegisterCheck, RegisterAdd, Leave,
           DeleteRemove, Store, StoreOpen, GoesAstray, StoreOpenFails, StoreChunk,
           StoreAbort, StoreFinish, Retrieve, RetrieveFails, RetrieveChunk,
           RetrieveChunkFails, GoesAstray, RetrieveFinish, CloseSocket,
           forceRemoveClientOnline, decrActiveThreads, Continue, Answer, Finish, vars,
           workerVars
  <1>2. QED
    BY <1>1 DEF Delete, Continue, Answer, Finish, Path, ioVars, fsVars

\* NoSharedDataError is inductive when names have one worker, whose client stays
\* online, and the system calls on the store do not fail.
LEMMA NoSharedDataError_Next ==
    ASSUME Faults \cap {"mkdir_store", "unlink"} = {},
           TypeInv, OneWorkerPerName, ServedIsOnline, NoSharedDataError, [Next]_vars
    PROVE  NoSharedDataError'
  <1>1. ASSUME NEW c \in Conns, Worker(c)
        PROVE  NoSharedDataError'
    <2>1. ~global_failure' /\ worker_error'[c] # "SHARED_DATA_ERROR"
      BY <1>1, ErrorStep
    <2>2. pc'[c] = "delete_remove" => entry'[Path(c)'] # NoInode
      BY <1>1, DeleteFinds
    <2>3. ASSUME NEW d \in Conns \ {c}
          PROVE  /\ worker_error'[d] # "SHARED_DATA_ERROR"
                 /\ pc'[d] = "delete_remove" => entry'[Path(d)'] # NoInode
      <3>1. worker_error'[d] # "SHARED_DATA_ERROR"
        BY <1>1, WorkerStep DEF NoSharedDataError
      <3>2. ASSUME pc'[d] = "delete_remove"
            PROVE  entry'[Path(d)'] # NoInode
        <4>1. pc[d] = "delete_remove" /\ Path(d)' = Path(d)
          BY <1>1, <3>2, WorkerStep DEF Path
        <4>2. Live(d) /\ userName[d] \in Users /\ Path(d) \in Paths
          BY <4>1, PathType DEF TypeInv, WorkerOK, Live
        <4>3. Path(d)[1] # userName[c]
          BY <1>1, <4>2, WorkerStep, UsersAssumption DEF OneWorkerPerName, Path
        <4>4. QED
          BY <1>1, <4>1, <4>2, <4>3, EntryStep DEF NoSharedDataError
      <3>3. QED
        BY <3>1, <3>2
    <2>4. QED
      BY <2>1, <2>2, <2>3 DEF NoSharedDataError
  <1>2. ASSUME NEW c \in Conns, NEW u \in Users, createWorker(c, u)
        PROVE  NoSharedDataError'
    BY <1>2
    DEF createWorker, NoSharedDataError, Path, fsVars, TypeInv, TypeOK, WorkerTypeOK,
        IOTypeOK
  <1>3. CASE Restart
    BY <1>3 DEF Restart, NoSharedDataError, Live
  <1>4. ASSUME NEW c \in Conns, createWorkerFails(c) \/ Client(c)
        PROVE  NoSharedDataError'
    <2>1. CASE createWorkerFails(c)
      BY <2>1
      DEF createWorkerFails, NoSharedDataError, Path, fsVars, ioVars, TypeInv, TypeOK,
          WorkerTypeOK
    <2>2. CASE ClientClose(c)
      BY <2>2
      DEF ClientClose, NoSharedDataError, Path, fsVars, ioVars, workerVars, mainVars
    <2>3. ASSUME NEW r \in Requests, ClientRequest(c, r)
          PROVE  NoSharedDataError'
      <3>1. UNCHANGED <<fsVars, workerVars, mainVars>> /\ pc[c] # "delete_remove"
        BY <2>3 DEF ClientRequest, Looping
      <3>2. \A d \in Conns \ {c} : request'[d] = request[d]
        BY <2>3 DEF ClientRequest, TypeInv, TypeOK, IOTypeOK
      <3>3. QED
        BY <3>1, <3>2 DEF NoSharedDataError, Path, fsVars, workerVars, mainVars
    <2>4. QED
      BY <1>4, <2>1, <2>2, <2>3 DEF Client
  <1>5. CASE \/ Scan \/ MainGuard \/ AcceptTimeout \/ sighandler \/ waitActiveThreads
             \/ UNCHANGED vars
    BY <1>5
    DEF Scan, ScanUser, ScanFile, Listen, MainGuard, AcceptTimeout, sighandler,
        waitActiveThreads, NoSharedDataError, Path, vars, fsVars, ioVars, workerVars,
        mainVars
  <1>6. QED
    BY <1>1, <1>2, <1>3, <1>4, <1>5 DEF Next, Main, Terminated

\* No request stops the server for all its clients, when each name has one client at
\* a time and the store directory can be used.
THEOREM ServerKeepsServing ==
    ASSUME Discipline = "exclusive", NoRegisterSpelled,
           Faults \cap {"mkdir_store", "unlink"} = {}
    PROVE  Spec => []NoGlobalFailure
  <1>1. Init => NoSharedDataError
    BY DEF Init, NoSharedDataError
  <1>2. TypeInv /\ OneWorkerPerName /\ ServedIsOnline /\ NoSharedDataError /\ [Next]_vars
            => NoSharedDataError'
    BY NoSharedDataError_Next
  <1>3. NoSharedDataError => NoGlobalFailure
    BY DEF NoSharedDataError, NoGlobalFailure
  <1>4. QED
    BY <1>1, <1>2, <1>3, ServedAreOnline, NamesInvariant, TypeInvariant, PTL DEF Spec

-----------------------------------------------------------------------------
(* Names are freed with their sessions.                                    *)

\* The sessions of a name are finitely many.
LEMMA SessionsFinite ==
    \A u : IsFiniteSet(Sessions(u)) /\ Cardinality(Sessions(u)) \in Nat
  <1>1. \A u : Sessions(u) \subseteq Conns
    BY DEF Sessions
  <1>2. QED
    BY <1>1, InodesAssumption, FS_Subset, FS_CardinalityType

\* A step after which no name is listed more often and every session goes on.
LEMMA GhostFrame ==
    ASSUME NoGhostOnline, TypeInv, TypeInv', renamed \subseteq renamed',
           \A u \in Users : onlineclients'[u] <= onlineclients[u],
           \A u \in Users, c \in Conns : c \in Sessions(u) => c \in Sessions(u)'
    PROVE  NoGhostOnline'
  <1> SUFFICES ASSUME NEW u \in Users \ renamed'
               PROVE  onlineclients'[u] <= Cardinality(Sessions(u)')
    BY Zenon DEF NoGhostOnline
  <1>1. Sessions(u) \subseteq Sessions(u)' /\ Sessions(u)' \subseteq Conns
    BY DEF Sessions
  <1>2. IsFiniteSet(Sessions(u)')
    BY <1>1, InodesAssumption, FS_Subset
  <1>3. /\ Cardinality(Sessions(u)) <= Cardinality(Sessions(u)')
        /\ Cardinality(Sessions(u)) \in Nat /\ Cardinality(Sessions(u)') \in Nat
    BY <1>1, <1>2, FS_Subset, FS_CardinalityType
  <1>4. onlineclients[u] \in Nat /\ onlineclients'[u] \in Nat
    BY DEF TypeInv, TypeOK, StatsTypeOK
  <1>5. onlineclients[u] <= Cardinality(Sessions(u)) /\ onlineclients'[u] <= onlineclients[u]
    BY DEF NoGhostOnline
  <1>6. QED
    BY <1>3, <1>4, <1>5

\* REGISTER adds a name and the session that will remove it; a second one of the
\* same connection mixes up its two names and leaves the others as they are.
LEMMA NoGhostOnline_RegisterAdd ==
    ASSUME TypeInv, TypeInv', NoGhostOnline, NEW c \in Conns, RegisterAdd(c)
    PROVE  NoGhostOnline'
  <1> USE DEF TypeInv, TypeOK, StatsTypeOK, WorkerTypeOK
  <1>1. PICK n \in Users : n = request[c].obj
    BY RegisterTypes
  <1>2. Live(c) /\ pc[c] = "register_add"
    BY DEF RegisterAdd, Live
  <1>3. PICK w \in Users :
            userName' = [userName EXCEPT ![c] = w] /\ (userName[c] = NoUser => w = n)
    BY <1>1 DEF RegisterAdd
  <1>4. /\ onlineclients' = [onlineclients EXCEPT ![n] = @ + 1]
        /\ \E next \in {"guard", "closing"} : pc' = [pc EXCEPT ![c] = next]
    BY <1>1 DEF RegisterAdd, addClientOnline, insertList, Answer, Finish
  <1>5. ASSUME NEW u \in Users
        PROVE  /\ onlineclients[u] \in Nat /\ Cardinality(Sessions(u)) \in Nat
               /\ u \notin renamed => onlineclients[u] <= Cardinality(Sessions(u))
    BY SessionsFinite DEF NoGhostOnline
  <1>6. CASE userName[c] = NoUser
    <2>1. renamed' = renamed
      BY <1>6 DEF RegisterAdd
    <2>2. /\ Sessions(n)' = Sessions(n) \cup {c}
          /\ c \notin Sessions(n)
          /\ \A u \in Users \ {n} : Sessions(u)' = Sessions(u)
      BY <1>2, <1>3, <1>4, <1>6, UsersAssumption DEF Sessions, Live
    <2>3. Cardinality(Sessions(n)') = Cardinality(Sessions(n)) + 1
      BY <2>2, SessionsFinite, FS_AddElement
    <2>4. ASSUME NEW u \in Users \ renamed
          PROVE  onlineclients'[u] <= Cardinality(Sessions(u)')
      <3>1. CASE u = n
        BY <1>4, <1>5, <2>3, <3>1
      <3>2. CASE u # n
        BY <1>4, <1>5, <2>2, <3>2
      <3>3. QED
        BY <3>1, <3>2
    <2>5. QED
      BY <2>1, <2>4, Zenon DEF NoGhostOnline
  <1>7. CASE userName[c] # NoUser
    <2>1. renamed' = renamed \cup {userName[c], n}
      BY <1>1, <1>7 DEF RegisterAdd
    <2>2. ASSUME NEW u \in Users \ renamed'
          PROVE  onlineclients'[u] <= Cardinality(Sessions(u)')
      <3>1. u \notin renamed /\ u # n /\ u # userName[c]
        BY <2>1
      <3>2. Sessions(u) \subseteq Sessions(u)' /\ Sessions(u)' \subseteq Conns
        BY <1>2, <1>3, <1>4, <3>1 DEF Sessions, Live
      <3>3. IsFiniteSet(Sessions(u)')
        BY <3>2, InodesAssumption, FS_Subset
      <3>4. /\ Cardinality(Sessions(u)) <= Cardinality(Sessions(u)')
            /\ Cardinality(Sessions(u)') \in Nat
        BY <3>2, <3>3, FS_Subset, FS_CardinalityType
      <3>5. onlineclients'[u] = onlineclients[u]
        BY <1>4, <3>1
      <3>6. QED
        BY <1>5, <3>1, <3>4, <3>5
    <2>3. QED
      BY <2>2, Zenon DEF NoGhostOnline
  <1>8. QED
    BY <1>6, <1>7

\* The last removal of a name by a worker that ends.
LEMMA NoGhostOnline_Remove ==
    ASSUME TypeInv, NoGhostOnline, NEW c \in Conns, forceRemoveClientOnline(c)
    PROVE  NoGhostOnline'
  <1> USE DEF TypeInv, TypeOK, StatsTypeOK, WorkerTypeOK
  <1>1. /\ removeClientOnline(userName[c]) /\ userName' = userName /\ renamed' = renamed
        /\ pc' = [pc EXCEPT ![c] = "exiting"] /\ pc[c] = "removing"
    BY DEF forceRemoveClientOnline, connVars
  <1>2. \A u \in Users :
            /\ u # userName[c] => onlineclients'[u] = onlineclients[u]
            /\ u = userName[c] => \/ onlineclients[u] = 0 /\ onlineclients'[u] = 0
                                  \/ onlineclients'[u] = onlineclients[u] - 1
    BY <1>1 DEF removeClientOnline, deleteList, checkIfOnline, isInList
  <1>3. \A u \in Users : Sessions(u)' = Sessions(u) \ {c}
    BY <1>1 DEF Sessions, Live
  <1>4. ASSUME NEW u \in Users \ renamed
        PROVE  onlineclients'[u] <= Cardinality(Sessions(u)')
    <2>1. IsFiniteSet(Sessions(u)) /\ Cardinality(Sessions(u)) \in Nat
      BY SessionsFinite
    <2>2. IsFiniteSet(Sessions(u) \ {c}) /\ Cardinality(Sessions(u) \ {c}) \in Nat
      BY <2>1, FS_Subset, FS_CardinalityType
    <2>3. onlineclients[u] \in Nat /\ onlineclients[u] <= Cardinality(Sessions(u))
      BY DEF NoGhostOnline
    <2>4. CASE u = userName[c]
      <3>1. c \in Sessions(u)
        BY <1>1, <2>4 DEF Sessions, Live
      <3>2. Cardinality(Sessions(u) \ {c}) = Cardinality(Sessions(u)) - 1
        BY <2>1, <3>1, FS_RemoveElement
      <3>3. /\ Cardinality(Sessions(u)') = Cardinality(Sessions(u)) - 1
            /\ Cardinality(Sessions(u)') \in Nat
        BY <1>3, <2>2, <3>2
      <3>4. CASE onlineclients[u] = 0 /\ onlineclients'[u] = 0
        BY <3>3, <3>4
      <3>5. CASE onlineclients'[u] = onlineclients[u] - 1
        BY <2>1, <2>3, <3>3, <3>5
      <3>6. QED
        BY <1>2, <2>4, <3>4, <3>5
    <2>5. CASE u # userName[c]
      <3>1. Sessions(u) \ {c} = Sessions(u)
        BY <2>5 DEF Sessions
      <3>2. QED
        BY <1>2, <1>3, <2>3, <2>5, <3>1
    <2>6. QED
      BY <2>4, <2>5
  <1>5. QED
    BY <1>1, <1>4, Zenon DEF NoGhostOnline

\* Nothing else a worker does adds a name or ends a session.
LEMMA SessionStep ==
    ASSUME TypeInv, NEW c \in Conns, Worker(c),
           ~RegisterAdd(c), ~forceRemoveClientOnline(c)
    PROVE  /\ \A u \in Users : onlineclients'[u] <= onlineclients[u]
           /\ pc[c] = "exiting" \/ pc'[c] \notin {"none", "exiting", "exited"}
  <1> USE DEF TypeInv, TypeOK, StatsTypeOK, WorkerTypeOK, Looping, Handling
  <1>1. CASE \/ LoopGuard(c) \/ SelectTimeout(c) \/ SelectFails(c) \/ RetrieveSpin(c)
             \/ ReadNoHeader(c) \/ \E r \in Requests : LeftoverRequest(c, r)
             \/ CloseSocket(c) \/ decrActiveThreads(c)
    BY <1>1
    DEF LoopGuard, SelectTimeout, SelectFails, Leftover, ReadNoHeader, LeftoverRequest,
        RetrieveSpin, CloseSocket, decrActiveThreads, vars, statsVars, workerVars
  <1>2. CASE Register(c) \/ RegisterCheck(c)
    BY <1>2 DEF Register, RegisterCheck, Continue, Answer, Finish, statsVars
  <1>3. CASE Leave(c)
    <2>1. pc'[c] = "closing" /\ removeClientOnline(userName[c])
      BY <1>3 DEF Leave, Answer, Finish
    <2>2. \A u \in Users : onlineclients'[u] <= onlineclients[u]
      BY <2>1 DEF removeClientOnline, deleteList
    <2>3. QED
      BY <2>1, <2>2
  <1>4. CASE Delete(c) \/ DeleteRemove(c) \/ Store(c) \/ StoreOpen(c)
    BY <1>4
    DEF Delete, DeleteRemove, Store, StoreOpen, Continue, Answer, Finish, statsVars,
        removeFile, subtractFile
  <1>5. CASE StoreOpenFails(c) \/ StoreChunk(c) \/ StoreAbort(c) \/ StoreFinish(c)
    BY <1>5
    DEF GoesAstray, StoreOpenFails, StoreChunk, StoreAbort, StoreFinish, Answer, Finish,
        statsVars, addFile
  <1>6. CASE \/ Retrieve(c) \/ RetrieveFails(c) \/ RetrieveChunk(c)
             \/ RetrieveChunkFails(c) \/ RetrieveFinish(c)
    BY <1>6
    DEF Retrieve, RetrieveFails, RetrieveChunk, RetrieveChunkFails, GoesAstray,
        RetrieveFinish, Answer, Finish, statsVars
  <1>7. QED
    BY <1>1, <1>2, <1>3, <1>4, <1>5, <1>6 DEF Worker

\* NoGhostOnline is inductive, given the types.
LEMMA NoGhostOnline_Next ==
    TypeInv /\ NoGhostOnline /\ [Next]_vars => NoGhostOnline'
  <1> SUFFICES ASSUME TypeInv, NoGhostOnline, [Next]_vars
               PROVE  NoGhostOnline'
    OBVIOUS
  <1>1. TypeInv'
    BY TypeInv_Next
  <1>2. ASSUME NEW c \in Conns, Worker(c)
        PROVE  NoGhostOnline'
    <2>1. CASE RegisterAdd(c)
      BY <1>1, <2>1, NoGhostOnline_RegisterAdd
    <2>2. CASE forceRemoveClientOnline(c)
      BY <2>2, NoGhostOnline_Remove
    <2>3. CASE ~RegisterAdd(c) /\ ~forceRemoveClientOnline(c)
      <3>1. /\ \A u \in Users : onlineclients'[u] <= onlineclients[u]
            /\ pc[c] = "exiting" \/ pc'[c] \notin {"none", "exiting", "exited"}
        BY <1>2, <2>3, SessionStep
      <3>2. renamed' = renamed /\ (pc[c] # "exiting" => userName'[c] = userName[c])
        BY <1>2, <2>3, NameStep DEF decrActiveThreads
      <3>3. \A u \in Users, d \in Conns : d \in Sessions(u) => d \in Sessions(u)'
        BY <1>2, <3>1, <3>2, WorkerStep DEF Sessions, Live
      <3>4. QED
        BY <1>1, <3>1, <3>2, <3>3, GhostFrame
    <2>4. QED
      BY <2>1, <2>2, <2>3
  <1>3. CASE Restart
    <2>1. \A u \in Users : onlineclients'[u] = 0
      BY <1>3 DEF Restart, createList
    <2>2. ASSUME NEW u \in Users
          PROVE  IsFiniteSet(Sessions(u)') /\ Cardinality(Sessions(u)') \in Nat
      <3>1. Sessions(u)' \subseteq Conns
        BY DEF Sessions
      <3>2. QED
        BY <3>1, InodesAssumption, FS_Subset, FS_CardinalityType
    <2>3. QED
      BY <2>1, <2>2 DEF NoGhostOnline
  <1>4. ASSUME NEW c \in Conns,
               createWorkerFails(c) \/ Client(c) \/ \E u \in Users : createWorker(c, u)
        PROVE  NoGhostOnline'
    <2>1. onlineclients' = onlineclients /\ renamed' = renamed
      BY <1>4
      DEF createWorkerFails, createWorker, Client, ClientRequest, ClientClose, statsVars,
          connVars
    <2>2. \A u \in Users, d \in Conns : d \in Sessions(u) => d \in Sessions(u)'
      BY <1>4
      DEF createWorkerFails, createWorker, Client, ClientRequest, ClientClose, workerVars,
          Sessions, Live, TypeInv, TypeOK, WorkerTypeOK
    <2>3. QED
      BY <1>1, <2>1, <2>2, GhostFrame DEF TypeInv, TypeOK, StatsTypeOK
  <1>5. CASE \/ Scan \/ MainGuard \/ AcceptTimeout \/ sighandler \/ waitActiveThreads
             \/ UNCHANGED vars
    <2>1. UNCHANGED <<onlineclients, renamed, workerVars>>
      BY <1>5
      DEF Scan, ScanUser, ScanFile, Listen, MainGuard, AcceptTimeout, sighandler,
          waitActiveThreads, countUser, addFile, vars, statsVars, connVars
    <2>2. \A u \in Users, d \in Conns : d \in Sessions(u) => d \in Sessions(u)'
      BY <2>1 DEF Sessions, Live, workerVars
    <2>3. QED
      BY <1>1, <2>1, <2>2, GhostFrame DEF TypeInv, TypeOK, StatsTypeOK
  <1>6. QED
    BY <1>2, <1>3, <1>4, <1>5 DEF Next, Main, Terminated

\* Under any discipline no name stays online when the sessions that registered it are
\* over: the two removals of LEAVE and of the end of the worker suffice, except for
\* the names a connection has mixed up.
THEOREM NamesAreFreed == Spec => []NoGhostOnline
  <1>1. Init => NoGhostOnline
    BY SessionsFinite DEF Init, StatsInit, createList, NoGhostOnline
  <1>2. QED
    BY <1>1, NoGhostOnline_Next, TypeInvariant, PTL DEF Spec

-----------------------------------------------------------------------------
(* REGISTER is not refused to a client that has waited.                    *)

\* What is appended to the responses can be told from what was there.
LEMMA AppendFacts ==
    \A s \in Seq(Responses) : \A a, b \in Responses :
        /\ Append(s, a) = Append(s, b) => a = b
        /\ Append(s, a) # s
        /\ Append(s, a) # <<>>
  <1> SUFFICES ASSUME NEW s \in Seq(Responses), NEW a \in Responses, NEW b \in Responses
               PROVE  /\ Append(s, a) = Append(s, b) => a = b
                      /\ Append(s, a) # s
                      /\ Append(s, a) # <<>>
    OBVIOUS
  <1>1. /\ Append(s, a)[Len(s) + 1] = a /\ Append(s, b)[Len(s) + 1] = b
        /\ Len(Append(s, a)) = Len(s) + 1 /\ Len(s) \in Nat
    OBVIOUS
  <1>2. QED
    BY <1>1

\* A REGISTER is refused by the check of its name alone.
LEMMA RefusedByCheck ==
    ASSUME TypeInv, [Next]_vars, NEW c \in Conns, Answered(c, "REGISTER", "KO_IN_USE")
    PROVE  RegisterCheck(c) /\ checkIfOnline(request[c].obj)
  <1>1. /\ request[c].cmd = "REGISTER" /\ request'[c] = NoRequest
        /\ request[c] # NoRequest
        /\ reply'[c] = Append(reply[c], "KO_IN_USE")
        /\ reply[c] \in Seq(Responses)
    BY RequestMembers DEF Answered, TypeInv, TypeOK, IOTypeOK
  <1>2. \A r \in Responses : reply'[c] = Append(reply[c], r) => r = "KO_IN_USE"
    BY <1>1, AppendFacts DEF Responses
  <1>3. reply'[c] # reply[c] /\ reply'[c] # <<>>
    BY <1>1, AppendFacts DEF Responses
  <1>4. ASSUME NEW d \in Conns, Worker(d)
        PROVE  RegisterCheck(c) /\ checkIfOnline(request[c].obj)
    <2>1. d = c
      BY <1>1, <1>4, WorkerStep
    <2>2. \A e, next, r : r \in Responses /\ Answer(c, e, r, next) => r = "KO_IN_USE"
      BY <1>2, <1>3 DEF Answer, TypeInv, TypeOK, IOTypeOK
    <2>3. ~Register(c) /\ ~RegisterAdd(c)
      BY <1>3, <2>2 DEF Register, RegisterAdd, Responses, Continue, ioVars
    <2>4. CASE RegisterCheck(c)
      BY <1>3, <2>4 DEF RegisterCheck, Continue, ioVars
    <2>5. CASE \/ LoopGuard(c) \/ SelectTimeout(c) \/ SelectFails(c) \/ RetrieveSpin(c)
               \/ ReadNoHeader(c) \/ \E r \in Requests : LeftoverRequest(c, r)
               \/ CloseSocket(c) \/ forceRemoveClientOnline(c) \/ decrActiveThreads(c)
      BY <1>1, <1>3, <2>5
      DEF LoopGuard, SelectTimeout, SelectFails, Leftover, ReadNoHeader, LeftoverRequest,
          RetrieveSpin, CloseSocket, forceRemoveClientOnline, decrActiveThreads, WorkerOK,
          TypeInv, vars, ioVars
    <2>6. CASE \/ Leave(c) \/ Delete(c) \/ DeleteRemove(c) \/ Store(c) \/ StoreOpen(c)
               \/ StoreOpenFails(c) \/ StoreChunk(c) \/ StoreAbort(c) \/ StoreFinish(c)
      BY <1>1, <2>6
      DEF Leave, Delete, DeleteRemove, Store, StoreOpen, StoreOpenFails, GoesAstray,
          StoreChunk, StoreAbort, StoreFinish, Dispatch, WorkerOK, TypeInv
    <2>7. CASE \/ Retrieve(c) \/ RetrieveFails(c) \/ RetrieveChunk(c)
               \/ RetrieveChunkFails(c) \/ RetrieveFinish(c)
      BY <1>1, <2>7
      DEF Retrieve, RetrieveFails, RetrieveChunk, RetrieveChunkFails, GoesAstray,
          RetrieveFinish, Dispatch, WorkerOK, TypeInv
    <2>8. QED
      BY <1>4, <2>1, <2>3, <2>4, <2>5, <2>6, <2>7 DEF Worker
  <1>5. ~Restart
    BY <1>3 DEF Restart
  <1>6. ASSUME NEW d \in Conns,
               createWorkerFails(d) \/ Client(d) \/ \E u \in Users : createWorker(d, u)
        PROVE  FALSE
    BY <1>1, <1>3, <1>6, RequestMembers
    DEF createWorkerFails, createWorker, Client, ClientRequest, ClientClose, ioVars,
        TypeInv, TypeOK, IOTypeOK
  <1>7. ~(\/ Scan \/ MainGuard \/ AcceptTimeout \/ sighandler \/ waitActiveThreads
          \/ UNCHANGED vars)
    BY <1>3
    DEF Scan, ScanUser, ScanFile, Listen, MainGuard, AcceptTimeout, sighandler,
        waitActiveThreads, vars, ioVars
  <1>8. QED
    BY <1>4, <1>5, <1>6, <1>7 DEF Next, Main, Terminated

\* A client that has waited for the worker of the previous session of its name can
\* always register: the worker removes the name before it is seen to be gone.  No
\* block may spell a REGISTER, or a name could stay online with nobody to remove it.
THEOREM WhoWaitsIsNotRefused ==
    ASSUME Discipline = "exclusive", NoRegisterSpelled
    PROVE  Spec => NeverRefused
  <1>1. ASSUME TypeInv, OneWorkerPerName, RegistersOnce, NoGhostOnline, [Next]_vars,
               NEW c \in Conns
        PROVE  ~Answered(c, "REGISTER", "KO_IN_USE")
    <2> SUFFICES ASSUME Answered(c, "REGISTER", "KO_IN_USE") PROVE FALSE
      OBVIOUS
    <2>1. RegisterCheck(c) /\ checkIfOnline(request[c].obj)
      BY <1>1, RefusedByCheck
    <2>2. PICK n \in Users : n = request[c].obj /\ n = peer[c] /\ onlineclients[n] > 0
      <3>1. request[c].obj \in Users /\ request[c].obj = peer[c]
        BY <1>1, <2>1, RegisterTypes DEF RegistersOnce
      <3>2. QED
        BY <2>1, <3>1 DEF checkIfOnline, isInList
    <2>3. onlineclients[n] \in Nat /\ onlineclients[n] <= Cardinality(Sessions(n))
      BY <1>1 DEF NoGhostOnline, RegistersOnce, TypeInv, TypeOK, StatsTypeOK
    <2>4. Sessions(n) # {}
      BY <2>2, <2>3, FS_EmptySet
    <2>5. PICK d \in Conns : userName[d] = n /\ Live(d)
      BY <2>4 DEF Sessions
    <2>6. Live(c) /\ userName[c] = NoUser
      BY <1>1, <2>1 DEF RegisterCheck, Live, RegistersOnce, WorkerOK, TypeInv
    <2>7. d = c
      BY <1>1, <2>2, <2>5, <2>6, UsersAssumption DEF OneWorkerPerName
    <2>8. QED
      BY <2>2, <2>5, <2>6, <2>7, UsersAssumption
  <1>2. TypeInv /\ OneWorkerPerName /\ RegistersOnce /\ NoGhostOnline /\ [Next]_vars
            => [\A c \in Conns : ~Answered(c, "REGISTER", "KO_IN_USE")]_vars
    BY <1>1
  <1>3. QED
    BY <1>2, NamesAreFreed, NamesInvariant, RegistersOnceInvariant, TypeInvariant, PTL
    DEF Spec, NeverRefused

=============================================================================
