------------------- MODULE ObjectServerRefinement_proofs --------------------
(***************************************************************************)
(* The files of the store, for every value of the constants: when each     *)
(* name has one client at a time, a worker writes and reads the file its   *)
(* path names and no other, so what is stored, answered and retrieved is   *)
(* one whole object.  The counters of the statistics agree with the lists  *)
(* under any discipline and with any faults, and under that one they count *)
(* the objects there are, through overwrites, aborted stores and restarts. *)
(* And the object server implements the object store: each step of the     *)
(* server is the step a client may see, or no step at all.                 *)
(***************************************************************************)
EXTENDS ObjectServerRefinement, ObjectServer_proofs

\* No file has two names.
OneNamePerFile ==
    \A p, q \in Paths : entry[p] # NoInode /\ entry[p] = entry[q] => p = q

\* A worker that transfers an object has the file of its path open.  A STORE has
\* written the units that have arrived, a RETRIEVE has sent the units before its offset.
FileOK(c) ==
    /\ pc[c] \in {"storing", "retrieving"} => entry[Path(c)] = fd[c]
    /\ pc[c] = "store_open" => left[c] = Size[request[c].val]
    /\ pc[c] = "storing" =>
           /\ inode[fd[c]] = [n \in 1 .. offset[c] |-> request[c].val]
           /\ offset[c] + left[c] = Size[request[c].val]
    /\ pc[c] = "retrieving" =>
           /\ offset[c] + left[c] = Len(inode[fd[c]])
           /\ sent[c] = [n \in 1 .. offset[c] |-> inode[fd[c]][n]]

\* What a client has received when its request is sent: it takes something else for the
\* answer when the two ends are out of step.
Before(c) == IF astray[c] THEN <<"STRAY">> ELSE <<>>

\* A connection is closed before its worker removes the name, and nothing is answered
\* before the end of a request but the header of the data.  A worker that has lost its
\* client leaves the loop, and a DELETE has forgotten the errors of earlier requests.
SocketOK(c) ==
    /\ pc[c] \in {"none", "removing", "exiting", "exited"} => ~open[c]
    /\ pc[c] = "none" => reply[c] = <<>> /\ sent[c] = <<>>
    /\ request[c] # NoRequest /\ pc[c] # "retrieving" =>
           reply[c] = Before(c) /\ sent[c] = <<>>
    /\ pc[c] = "retrieving" => reply[c] = Append(Before(c), "DATA")
    /\ worker_error[c] = "COMMUNICATION_ERROR" => pc[c] \in Ending
    /\ pc[c] = "delete_remove" => worker_error[c] = "NO_SERVERW_ERROR"

SocketsOK == \A c \in Conns : SocketOK(c)

FilesInv == OneNamePerFile /\ \A c \in Conns : FileOK(c)

-----------------------------------------------------------------------------
(* What a step of a worker leaves of the files and connections of others.  *)

\* A connection the worker does not serve keeps its file, its answers and its state.
LEMMA WorkerLocal ==
    ASSUME TypeInv, NEW c \in Conns, Worker(c), NEW d \in Conns \ {c}
    PROVE  /\ fd'[d] = fd[d] /\ offset'[d] = offset[d] /\ left'[d] = left[d]
           /\ reply'[d] = reply[d] /\ sent'[d] = sent[d] /\ open'[d] = open[d]
           /\ astray'[d] = astray[d]
  <1> USE DEF TypeInv, TypeOK, WorkerTypeOK, IOTypeOK, ConnTypeOK, FileStoreTypeOK
  <1>1. CASE \/ LoopGuard(c) \/ SelectTimeout(c) \/ SelectFails(c) \/ RetrieveSpin(c)
             \/ ReadNoHeader(c) \/ \E r \in Requests : LeftoverRequest(c, r)
    BY <1>1
    DEF LoopGuard, SelectTimeout, SelectFails, Leftover, ReadNoHeader, LeftoverRequest,
        RetrieveSpin, vars, fsVars, connVars, ioVars, workerVars
  <1>2. CASE Register(c) \/ RegisterCheck(c) \/ RegisterAdd(c) \/ Leave(c)
    BY <1>2
    DEF Register, RegisterCheck, RegisterAdd, Leave, Continue, Answer, Finish, fsVars,
        connVars, ioVars
  <1>3. CASE Delete(c) \/ DeleteRemove(c) \/ Store(c) \/ StoreOpen(c)
    BY <1>3
    DEF Delete, DeleteRemove, Store, StoreOpen, Continue, Answer, Finish, removeFile,
        unlink, openTrunc, fsVars, connVars, ioVars
  <1>4. CASE StoreOpenFails(c) \/ StoreChunk(c) \/ StoreAbort(c) \/ StoreFinish(c)
    BY <1>4
    DEF StoreOpenFails, GoesAstray, StoreChunk, StoreAbort, StoreFinish, Answer, Finish,
        write, close, closeUnlink, fsVars, connVars, ioVars
  <1>5. CASE \/ Retrieve(c) \/ RetrieveFails(c) \/ RetrieveChunk(c)
             \/ RetrieveChunkFails(c) \/ RetrieveFinish(c)
    BY <1>5
    DEF Retrieve, RetrieveFails, RetrieveChunk, RetrieveChunkFails, GoesAstray,
        RetrieveFinish, Answer, Finish, openRead, close, fsVars, connVars
  <1>6. CASE CloseSocket(c) \/ forceRemoveClientOnline(c) \/ decrActiveThreads(c)
    BY <1>6
    DEF CloseSocket, forceRemoveClientOnline, decrActiveThreads, fsVars, connVars, ioVars
  <1>7. QED
    BY <1>1, <1>2, <1>3, <1>4, <1>5, <1>6 DEF Worker

\* The entry and the contents of a path stay as they are.
Kept(q) ==
    /\ entry'[q] = entry[q]
    /\ entry[q] # NoInode => inode'[entry[q]] = inode[entry[q]]

\* What is freed has no name.
LEMMA FreedKeeps ==
    ASSUME NEW contents, NEW e, NEW f, NEW q \in Paths, e[q] \in Inodes
    PROVE  Freed(contents, e, f)[e[q]] = contents[e[q]]
  BY DEF Freed

\* A system call on one path, or on the file of one path, leaves all others alone.
LEMMA CallsKeepOthers ==
    ASSUME FileStoreTypeOK, OneNamePerFile, NEW c \in Conns
    PROVE  /\ UNCHANGED fsVars \/ close(c) =>
                  OneNamePerFile' /\ \A q \in Paths : Kept(q)
           /\ \A p \in Paths :
                  /\ openRead(c, p) => OneNamePerFile' /\ \A q \in Paths : Kept(q)
                  /\ \/ unlink(p) \/ closeUnlink(c, p) \/ openTrunc(c, p)
                     \/ entry[p] = fd[c] /\ fd[c] # NoInode /\ \E v : write(c, v)
                     => OneNamePerFile' /\ \A q \in Paths \ {p} : Kept(q)
  <1> USE DEF FileStoreTypeOK, OneNamePerFile, Kept
  <1>1. UNCHANGED fsVars => OneNamePerFile' /\ \A q \in Paths : Kept(q)
    BY DEF fsVars
  <1>2. close(c) => OneNamePerFile' /\ \A q \in Paths : Kept(q)
    BY FreedKeeps DEF close
  <1>3. ASSUME NEW p \in Paths, openRead(c, p)
        PROVE  OneNamePerFile' /\ \A q \in Paths : Kept(q)
    BY <1>3 DEF openRead
  <1>4. ASSUME NEW p \in Paths, unlink(p) \/ closeUnlink(c, p)
        PROVE  OneNamePerFile' /\ \A q \in Paths \ {p} : Kept(q)
    <2>1. entry' = [entry EXCEPT ![p] = NoInode] /\ \E f : inode' = Freed(inode, entry', f)
      BY <1>4 DEF unlink, closeUnlink
    <2>2. PICK f : inode' = Freed(inode, entry', f)
      BY <2>1
    <2>3. ASSUME NEW q \in Paths \ {p}
          PROVE  Kept(q)
      <3>1. entry'[q] = entry[q]
        BY <2>1
      <3>2. entry'[q] \in Inodes => inode'[entry'[q]] = inode[entry'[q]]
        BY <2>2, FreedKeeps
      <3>3. QED
        BY <3>1, <3>2
    <2>4. OneNamePerFile'
      BY <2>1
    <2>5. QED
      BY <2>3, <2>4
  <1>5. ASSUME NEW p \in Paths, openTrunc(c, p)
        PROVE  OneNamePerFile' /\ \A q \in Paths \ {p} : Kept(q)
    <2>1. PICK i \in Inodes :
              /\ \A q \in Paths \ {p} : entry[q] # i
              /\ entry' = [entry EXCEPT ![p] = i]
              /\ inode' = [inode EXCEPT ![i] = <<>>]
      BY <1>5 DEF openTrunc, FreeInodes
    <2>2. QED
      BY <2>1
  <1>6. ASSUME NEW p \in Paths, entry[p] = fd[c], fd[c] # NoInode, NEW v, write(c, v)
        PROVE  OneNamePerFile' /\ \A q \in Paths \ {p} : Kept(q)
    <2>1. /\ entry' = entry
          /\ \E new : inode' = [inode EXCEPT ![entry[p]] = new]
      BY <1>6 DEF write
    <2>2. QED
      BY <1>6, <2>1
  <1>7. QED
    BY <1>1, <1>2, <1>3, <1>4, <1>5, <1>6

\* A worker touches no path but the one of its request.
LEMMA WorkerKeepsOthers ==
    ASSUME TypeInv, OneNamePerFile, NEW c \in Conns, FileOK(c), Worker(c)
    PROVE  OneNamePerFile' /\ \A q \in Paths \ {Path(c)} : Kept(q)
  <1> USE DEF TypeInv, TypeOK
  <1>1. CASE DeleteRemove(c) \/ Store(c)
    <2>1. Path(c) \in Paths
      BY <1>1, PathType DEF DeleteRemove, Store, Dispatch, WorkerOK
    <2>2. UNCHANGED fsVars \/ unlink(Path(c))
      BY <1>1 DEF DeleteRemove, Store, removeFile
    <2>3. QED
      BY <2>1, <2>2, CallsKeepOthers
  <1>2. CASE StoreOpen(c) \/ StoreAbort(c)
    <2>1. Path(c) \in Paths
      BY <1>2, PathType DEF StoreOpen, StoreAbort, WorkerOK
    <2>2. openTrunc(c, Path(c)) \/ closeUnlink(c, Path(c)) \/ close(c)
      BY <1>2 DEF StoreOpen, StoreAbort
    <2>3. QED
      BY <2>1, <2>2, CallsKeepOthers
  <1>3. CASE StoreChunk(c)
    <2>1. Path(c) \in Paths /\ entry[Path(c)] = fd[c] /\ fd[c] # NoInode
      BY <1>3, PathType, InodesAssumption DEF StoreChunk, WorkerOK, FileOK
    <2>2. UNCHANGED fsVars \/ write(c, request[c].val)
      BY <1>3 DEF StoreChunk
    <2>3. QED
      BY <2>1, <2>2, CallsKeepOthers
  <1>4. CASE Retrieve(c)
    <2>1. Path(c) \in Paths
      BY <1>4, PathType DEF Retrieve, Dispatch
    <2>2. UNCHANGED fsVars \/ openRead(c, Path(c))
      BY <1>4 DEF Retrieve
    <2>3. QED
      BY <2>1, <2>2, CallsKeepOthers
  <1>5. CASE StoreFinish(c) \/ RetrieveChunkFails(c) \/ RetrieveFinish(c)
    BY <1>5, CallsKeepOthers DEF StoreFinish, RetrieveChunkFails, RetrieveFinish
  <1>6. CASE \/ LoopGuard(c) \/ SelectTimeout(c) \/ SelectFails(c) \/ RetrieveSpin(c)
             \/ ReadNoHeader(c) \/ \E r \in Requests : LeftoverRequest(c, r)
             \/ Register(c) \/ RegisterCheck(c) \/ RegisterAdd(c) \/ Leave(c) \/ Delete(c)
             \/ StoreOpenFails(c) \/ RetrieveFails(c) \/ RetrieveChunk(c)
             \/ CloseSocket(c) \/ forceRemoveClientOnline(c) \/ decrActiveThreads(c)
    <2>1. entry' = entry /\ inode' = inode
      BY <1>6
      DEF LoopGuard, SelectTimeout, SelectFails, Leftover, ReadNoHeader, LeftoverRequest,
          RetrieveSpin, Register, RegisterCheck, RegisterAdd, Leave, Delete, StoreOpenFails,
          RetrieveFails, RetrieveChunk, CloseSocket, forceRemoveClientOnline,
          decrActiveThreads, vars, fsVars
    <2>2. QED
      BY <2>1 DEF OneNamePerFile, Kept
  <1>7. QED
    BY <1>1, <1>2, <1>3, <1>4, <1>5, <1>6 DEF Worker

-----------------------------------------------------------------------------
(* What is written and what is sent.                                       *)

\* Sequences given by their elements.
LEMMA SequenceFacts ==
    /\ \A f : <<>> = [n \in 1 .. 0 |-> f[n]]
    /\ \A v : <<>> = [n \in 1 .. 0 |-> v]
    /\ \A S : \A s \in Seq(S) : s = [n \in 1 .. Len(s) |-> s[n]]
  <1>1. \A S : \A s \in Seq(S) : s = [n \in 1 .. Len(s) |-> s[n]]
    OBVIOUS
  <1>2. 1 .. 0 = {} /\ <<>> = [n \in {} |-> {}]
    OBVIOUS
  <1>3. QED
    BY <1>1, <1>2

\* The elements of a sequence to which one more has been appended.
LEMMA AppendElement ==
    ASSUME NEW S, NEW s \in Seq(S), NEW k \in Nat, NEW f, s = [n \in 1 .. k |-> f[n]]
    PROVE  Append(s, f[k + 1]) = [n \in 1 .. k + 1 |-> f[n]]
  <1>1. Len(s) = k
    OBVIOUS
  <1>2. Append(s, f[k + 1]) =
            [n \in 1 .. Len(s) + 1 |-> IF n <= Len(s) THEN s[n] ELSE f[k + 1]]
    OBVIOUS
  <1>3. QED
    BY <1>1, <1>2

\* A unit more of a block: the file is as long as the offset, so no hole is left.
LEMMA WriteAppends ==
    ASSUME FileStoreTypeOK, NEW c \in Conns, fd[c] \in Inodes, NEW v, write(c, v),
           inode[fd[c]] = [n \in 1 .. offset[c] |-> v]
    PROVE  /\ inode'[fd[c]] = [n \in 1 .. offset[c] + 1 |-> v]
           /\ offset'[c] = offset[c] + 1 /\ entry' = entry /\ fd' = fd
  <1> DEFINE old == inode[fd[c]]
             pos == offset[c] + 1
             end == IF pos > Len(old) THEN pos ELSE Len(old)
             new == [n \in 1 .. end |-> IF n = pos THEN v
                                        ELSE IF n <= Len(old) THEN old[n]
                                        ELSE Hole]
  <1>1. offset[c] \in Nat /\ old = [n \in 1 .. offset[c] |-> v] /\ old \in Seq(Values \cup {Hole})
    BY DEF FileStoreTypeOK, Contents
  <1>2. Len(old) = offset[c]
    BY <1>1
  <1>3. end = pos
    BY <1>1, <1>2
  <1>4. new = [n \in 1 .. pos |-> v]
    BY <1>1, <1>2, <1>3
  <1> HIDE DEF new
  <1>5. inode' = [inode EXCEPT ![fd[c]] = new] /\ offset'[c] = pos
    BY DEF write, new, FileStoreTypeOK
  <1>6. QED
    BY <1>4, <1>5 DEF write, FileStoreTypeOK

\* The files of a worker that transfers nothing new.
LEMMA FileFrame ==
    ASSUME NEW d \in Conns, FileOK(d),
           pc'[d] = pc[d], request'[d] = request[d], userName'[d] = userName[d],
           fd'[d] = fd[d], offset'[d] = offset[d], left'[d] = left[d], sent'[d] = sent[d],
           pc[d] \in {"storing", "retrieving"} =>
               entry'[Path(d)] = entry[Path(d)] /\ inode'[fd[d]] = inode[fd[d]]
    PROVE  FileOK(d)'
  BY DEF FileOK, Path

\* The next unit of a block is written, at the end of the file.
LEMMA FileOK_StoreChunk ==
    ASSUME TypeInv, "write" \notin Faults, NEW c \in Conns, FileOK(c), StoreChunk(c)
    PROVE  FileOK(c)'
  <1> USE DEF TypeInv, TypeOK, FileStoreTypeOK, WorkerTypeOK
  <1>1. fd[c] \in Inodes /\ write(c, request[c].val)
    BY DEF StoreChunk, WorkerOK
  <1>2. /\ inode'[fd[c]] = [n \in 1 .. offset[c] + 1 |-> request[c].val]
        /\ offset'[c] = offset[c] + 1 /\ entry' = entry /\ fd' = fd
    BY <1>1, WriteAppends DEF StoreChunk, FileOK
  <1>3. /\ left'[c] = left[c] - 1 /\ left[c] \in Nat /\ offset[c] \in Nat
        /\ UNCHANGED <<request, pc, userName>> /\ pc[c] = "storing"
    BY DEF StoreChunk, ioVars
  <1>4. offset[c] + 1 + (left[c] - 1) = offset[c] + left[c]
    BY <1>3
  <1>5. QED
    BY <1>2, <1>3, <1>4 DEF FileOK, Path

\* The next unit of the file is sent.
LEMMA FileOK_RetrieveChunk ==
    ASSUME TypeInv, NEW c \in Conns, FileOK(c), RetrieveChunk(c)
    PROVE  FileOK(c)'
  <1> USE DEF TypeInv, TypeOK, FileStoreTypeOK, WorkerTypeOK
  <1> DEFINE f == inode[fd[c]]
  <1>1. /\ sent' = [sent EXCEPT ![c] = Append(@, f[offset[c] + 1])]
        /\ left'[c] = left[c] - 1 /\ offset'[c] = offset[c] + 1
        /\ left[c] \in Nat /\ offset[c] \in Nat
        /\ UNCHANGED <<entry, inode, fd, request, pc, userName>> /\ pc[c] = "retrieving"
    BY DEF RetrieveChunk
  <1>2. sent[c] = [n \in 1 .. offset[c] |-> f[n]] /\ offset[c] + left[c] = Len(f)
    BY <1>1 DEF FileOK
  <1>3. sent'[c] = Append(sent[c], f[offset[c] + 1])
    BY <1>1 DEF IOTypeOK
  <1>4. sent'[c] = [n \in 1 .. offset[c] + 1 |-> f[n]]
    <2>1. sent[c] \in Seq(Values \cup {Hole})
      BY DEF IOTypeOK, Contents
    <2>2. offset[c] \in Nat
      BY <1>1
    <2> HIDE DEF f
    <2>3. Append(sent[c], f[offset[c] + 1]) = [n \in 1 .. offset[c] + 1 |-> f[n]]
      BY <1>2, <2>1, <2>2, AppendElement
    <2>4. QED
      BY <1>3, <2>3
  <1>5. offset[c] + 1 + (left[c] - 1) = offset[c] + left[c]
    BY <1>1
  <1>6. QED
    BY <1>1, <1>2, <1>4, <1>5 DEF FileOK, Path

\* A step of a worker keeps its own file in step with its transfer.
LEMMA FileOK_Worker ==
    ASSUME TypeInv, "write" \notin Faults, NEW c \in Conns, FileOK(c), SocketOK(c), Worker(c)
    PROVE  FileOK(c)'
  <1> USE DEF TypeInv, TypeOK, FileStoreTypeOK, WorkerTypeOK
  <1>1. CASE Store(c)
    <2>1. pc'[c] = "store_open" /\ request' = request /\ left'[c] = Size[request[c].val]
      BY <1>1 DEF Store, Continue, ioVars
    <2>2. QED
      BY <2>1 DEF FileOK
  <1>2. CASE StoreOpen(c)
    <2>1. /\ Path(c) \in Paths /\ pc[c] = "store_open"
          /\ request[c].val \in Values /\ Size[request[c].val] \in Nat
      BY <1>2, PathType DEF StoreOpen, WorkerOK
    <2>2. /\ entry'[Path(c)] = fd'[c] /\ inode'[fd'[c]] = <<>> /\ offset'[c] = 0
          /\ UNCHANGED <<request, userName, left>> /\ pc'[c] = "storing"
      BY <1>2, <2>1 DEF StoreOpen, openTrunc, Continue, ioVars
    <2>3. left[c] = Size[request[c].val] /\ <<>> = [n \in 1 .. 0 |-> request[c].val]
      BY <2>1, SequenceFacts DEF FileOK
    <2>4. QED
      BY <2>1, <2>2, <2>3 DEF FileOK, Path
  <1>3. CASE StoreChunk(c)
    BY <1>3, FileOK_StoreChunk
  <1>4. CASE Retrieve(c)
    <2>1. Path(c) \in Paths
      BY <1>4, PathType DEF Retrieve, Dispatch
    <2>2. CASE open[c]
      <3>1. /\ fd'[c] = entry[Path(c)] /\ offset'[c] = 0 /\ entry' = entry /\ inode' = inode
            /\ left'[c] = Len(inode[entry[Path(c)]]) /\ pc'[c] = "retrieving"
            /\ UNCHANGED <<request, sent, userName>>
        BY <1>4, <2>1, <2>2 DEF Retrieve, openRead, Content
      <3>2. request[c] # NoRequest /\ pc[c] = "select"
        BY <1>4, RequestMembers DEF Retrieve, Dispatch
      <3>3. sent[c] = <<>> /\ <<>> = [n \in 1 .. 0 |-> inode[fd'[c]][n]]
        BY <3>2, SequenceFacts DEF SocketOK, Before
      <3>4. Len(inode[entry[Path(c)]]) \in Nat
        BY <1>4, <2>1 DEF Retrieve, Contents
      <3>5. QED
        BY <3>1, <3>3, <3>4 DEF FileOK, Path
    <2>3. CASE ~open[c]
      BY <1>4, <2>3 DEF Retrieve, Finish, FileOK
    <2>4. QED
      BY <2>2, <2>3
  <1>5. CASE RetrieveChunk(c)
    BY <1>5, FileOK_RetrieveChunk
  <1>6. CASE RetrieveSpin(c)
    BY <1>6 DEF RetrieveSpin, FileOK, Path, vars, fsVars, ioVars, workerVars
  <1>7. CASE \/ LoopGuard(c) \/ SelectTimeout(c) \/ SelectFails(c) \/ Register(c)
             \/ ReadNoHeader(c) \/ \E r \in Requests : LeftoverRequest(c, r)
             \/ RegisterCheck(c) \/ RegisterAdd(c) \/ Leave(c) \/ Delete(c) \/ DeleteRemove(c)
             \/ StoreOpenFails(c) \/ StoreAbort(c) \/ StoreFinish(c) \/ RetrieveFails(c)
             \/ RetrieveChunkFails(c) \/ RetrieveFinish(c) \/ CloseSocket(c)
             \/ forceRemoveClientOnline(c) \/ decrActiveThreads(c)
    <2>1. ASSUME NEW r \in Requests, LeftoverRequest(c, r)
          PROVE  pc'[c] \notin {"store_open", "storing", "retrieving"}
      BY <2>1 DEF LeftoverRequest, Leftover, workerVars
    <2>2. pc'[c] \notin {"store_open", "storing", "retrieving"}
      BY <1>7, <2>1
      DEF LoopGuard, SelectTimeout, SelectFails, ReadNoHeader, Register, RegisterCheck,
          RegisterAdd, Leave, Delete, DeleteRemove, StoreOpenFails, StoreAbort,
          StoreFinish, RetrieveFails, RetrieveChunkFails, RetrieveFinish, CloseSocket,
          forceRemoveClientOnline, decrActiveThreads, Continue, Answer, Finish
    <2>3. QED
      BY <2>2 DEF FileOK
  <1>8. QED
    BY <1>1, <1>2, <1>3, <1>4, <1>5, <1>6, <1>7 DEF Worker

-----------------------------------------------------------------------------
(* The invariants of the sockets and of the files.                         *)

\* What a step of a worker does to its own connection.
LEMMA SocketOK_Worker ==
    ASSUME TypeInv, NEW c \in Conns, SocketOK(c), Worker(c)
    PROVE  SocketOK(c)'
  <1> USE DEF TypeInv, TypeOK, ConnTypeOK, IOTypeOK, WorkerTypeOK, SocketOK, Before,
             Ending
  <1>1. CASE \/ LoopGuard(c) \/ SelectTimeout(c) \/ SelectFails(c) \/ RetrieveSpin(c)
             \/ ReadNoHeader(c) \/ \E r \in Requests : LeftoverRequest(c, r)
    BY <1>1
    DEF LoopGuard, SelectTimeout, SelectFails, Leftover, ReadNoHeader, LeftoverRequest,
        RetrieveSpin, vars, connVars, ioVars, workerVars
  <1>2. CASE \/ Register(c) \/ RegisterCheck(c) \/ RegisterAdd(c) \/ Leave(c) \/ Delete(c)
             \/ DeleteRemove(c) \/ StoreOpenFails(c) \/ StoreAbort(c) \/ StoreFinish(c)
             \/ RetrieveFails(c) \/ RetrieveChunkFails(c) \/ RetrieveFinish(c)
    <2>1. CASE \/ RegisterAdd(c) \/ Leave(c) \/ DeleteRemove(c) \/ StoreOpenFails(c)
               \/ StoreAbort(c) \/ StoreFinish(c) \/ RetrieveFails(c)
               \/ RetrieveChunkFails(c) \/ RetrieveFinish(c)
      <3>1. /\ request'[c] = NoRequest
            /\ \/ pc'[c] = "closing"
               \/ pc'[c] = "guard" /\ worker_error'[c] # "COMMUNICATION_ERROR"
        BY <2>1
        DEF RegisterAdd, Leave, DeleteRemove, StoreOpenFails, StoreAbort, StoreFinish,
            RetrieveFails, RetrieveChunkFails, RetrieveFinish, Answer, Finish
      <3>2. QED
        BY <3>1
    <2>2. CASE Register(c) \/ RegisterCheck(c) \/ Delete(c)
      <3>1. \/ pc'[c] = "closing" /\ request'[c] = NoRequest
            \/ /\ pc'[c] = "guard" /\ request'[c] = NoRequest
               /\ worker_error'[c] # "COMMUNICATION_ERROR"
            \/ /\ pc'[c] \in {"register_check", "register_add", "delete_remove"}
               /\ pc[c] \in {"select", "register_check"} /\ request[c] # NoRequest
               /\ worker_error'[c] \in {"NO_SERVERW_ERROR", worker_error[c]}
               /\ pc'[c] = "delete_remove" => worker_error'[c] = "NO_SERVERW_ERROR"
               /\ UNCHANGED <<ioVars, astray>>
        BY <2>2, RequestMembers
        DEF Register, RegisterCheck, Delete, Continue, Answer, Finish, Dispatch, connVars,
            WorkerOK
      <3>2. QED
        BY <3>1 DEF ioVars
    <2>3. QED
      BY <1>2, <2>1, <2>2
  <1>3. CASE Store(c) \/ StoreOpen(c) \/ StoreChunk(c)
    <2>1. request[c].cmd = "STORE"
      BY <1>3 DEF Store, StoreOpen, StoreChunk, Dispatch, WorkerOK
    <2>2. /\ pc[c] \in {"select", "store_open", "storing"}
          /\ pc'[c] \in {"store_open", "storing"} /\ UNCHANGED <<ioVars, astray>>
          /\ worker_error'[c] = worker_error[c]
      BY <1>3 DEF Store, StoreOpen, StoreChunk, Dispatch, Continue, connVars
    <2>3. QED
      BY <2>1, <2>2, RequestMembers DEF ioVars
  <1>4. CASE Retrieve(c)
    <2>1. reply[c] = Before(c)
      BY <1>4, RequestMembers DEF Retrieve, Dispatch
    <2>2. CASE open[c]
      <3>1. /\ pc'[c] = "retrieving" /\ Before(c)' = Before(c) /\ open' = open
            /\ reply'[c] = Append(reply[c], "DATA")
            /\ worker_error' = worker_error /\ pc[c] = "select"
        BY <1>4, <2>2 DEF Retrieve, Dispatch, Before, connVars
      <3>2. QED
        BY <2>1, <3>1
    <2>3. CASE ~open[c]
      BY <1>4, <2>3 DEF Retrieve, Finish, connVars
    <2>4. QED
      BY <2>2, <2>3
  <1>5. CASE RetrieveChunk(c)
    BY <1>5 DEF RetrieveChunk, connVars
  <1>6. CASE CloseSocket(c) \/ forceRemoveClientOnline(c) \/ decrActiveThreads(c)
    BY <1>6
    DEF CloseSocket, forceRemoveClientOnline, decrActiveThreads, connVars, ioVars, WorkerOK
  <1>7. QED
    BY <1>1, <1>2, <1>3, <1>4, <1>5, <1>6 DEF Worker

\* SocketsOK is inductive, given the types.
LEMMA SocketsOK_Next ==
    ASSUME TypeInv, SocketsOK, [Next]_vars
    PROVE  SocketsOK'
  <1> USE DEF TypeInv, TypeOK, ConnTypeOK, IOTypeOK, WorkerTypeOK, SocketsOK, Before,
             Ending
  <1>1. ASSUME NEW c \in Conns, Worker(c), NEW d \in Conns
        PROVE  SocketOK(d)'
    <2>1. CASE d = c
      BY <1>1, <2>1, SocketOK_Worker
    <2>2. CASE d # c
      <3>1. /\ pc'[d] = pc[d] /\ request'[d] = request[d]
            /\ worker_error'[d] = worker_error[d] /\ astray'[d] = astray[d]
            /\ reply'[d] = reply[d] /\ sent'[d] = sent[d] /\ open'[d] = open[d]
        BY <1>1, <2>2, WorkerStep, WorkerLocal
      <3>2. QED
        BY <3>1 DEF SocketOK
    <2>3. QED
      BY <2>1, <2>2
  <1>2. ASSUME NEW c \in Conns,
               createWorkerFails(c) \/ \E u \in Users : createWorker(c, u),
               NEW d \in Conns
        PROVE  SocketOK(d)'
    <2>1. WorkerOK(d) /\ SocketOK(d) /\ pc[c] = "none"
      BY <1>2 DEF createWorkerFails, createWorker
    <2>2. CASE createWorkerFails(c)
      BY <2>1, <2>2 DEF createWorkerFails, SocketOK, connVars, ioVars, WorkerOK
    <2>3. ASSUME NEW u \in Users, createWorker(c, u)
          PROVE  SocketOK(d)'
      BY <2>1, <2>3 DEF createWorker, SocketOK, WorkerOK
    <2>4. QED
      BY <1>2, <2>2, <2>3
  <1>3. ASSUME NEW c \in Conns, Client(c), NEW d \in Conns
        PROVE  SocketOK(d)'
    <2>1. ASSUME NEW r \in Requests, ClientRequest(c, r)
          PROVE  SocketOK(d)'
      <3>1. /\ pc' = pc /\ open' = open /\ pc[c] \in Looping
            /\ request' = [request EXCEPT ![c] = r]
            /\ astray' = astray /\ worker_error' = worker_error
            /\ reply' = [reply EXCEPT ![c] = IF astray[c] THEN <<"STRAY">> ELSE <<>>]
            /\ sent' = [sent EXCEPT ![c] = <<>>]
        BY <2>1 DEF ClientRequest, workerVars
      <3>2. CASE d = c
        BY <3>1, <3>2 DEF SocketOK, Looping
      <3>3. CASE d # c
        BY <3>1, <3>3 DEF SocketOK
      <3>4. QED
        BY <3>2, <3>3
    <2>2. ASSUME ClientClose(c)
          PROVE  SocketOK(d)'
      BY <2>2 DEF ClientClose, SocketOK, ioVars, workerVars
    <2>3. QED
      BY <1>3, <2>1, <2>2 DEF Client
  <1>4. CASE Restart
    BY <1>4 DEF Restart, SocketOK, Live
  <1>5. CASE \/ Scan \/ MainGuard \/ AcceptTimeout \/ sighandler \/ waitActiveThreads
             \/ UNCHANGED vars
    <2>1. UNCHANGED <<connVars, ioVars, workerVars>>
      BY <1>5
      DEF Scan, ScanUser, ScanFile, Listen, MainGuard, AcceptTimeout, sighandler,
          waitActiveThreads, vars
    <2>2. QED
      BY <2>1 DEF SocketOK, connVars, ioVars, workerVars
  <1>6. QED
    BY <1>1, <1>2, <1>3, <1>4, <1>5 DEF Next, Main, Terminated

\* What is known of the sockets, under any discipline.
LEMMA SocketsInvariant == Spec => []SocketsOK
  <1>1. Init => SocketsOK
    BY DEF Init, SocketsOK, SocketOK
  <1>2. TypeInv /\ SocketsOK /\ [Next]_vars => SocketsOK'
    BY SocketsOK_Next
  <1>3. QED
    BY <1>1, <1>2, TypeInvariant, PTL DEF Spec

\* Two workers never have the same path.
LEMMA PathsApart ==
    ASSUME OneWorkerPerName, NEW c \in Conns, NEW d \in Conns \ {c}, Live(c),
           userName[d] # NoUser
    PROVE  Path(d) # Path(c)
  BY DEF OneWorkerPerName, Path

\* A step of another worker leaves alone the file a worker transfers.
LEMMA FileOK_Other ==
    ASSUME TypeInv, OneWorkerPerName, FilesInv, NEW c \in Conns, Worker(c),
           NEW d \in Conns \ {c}
    PROVE  FileOK(d)'
  <1>1. CASE pc[d] \in {"storing", "retrieving"}
    <2>1. /\ userName[d] \in Users /\ fd[d] \in Inodes
          /\ request[d].cmd \in {"DELETE", "RETRIEVE", "STORE"}
      BY <1>1 DEF TypeInv, WorkerOK
    <2>2. Path(d) \in Paths /\ entry[Path(d)] = fd[d] /\ entry[Path(d)] # NoInode
      BY <1>1, <2>1, PathType, InodesAssumption DEF FilesInv, FileOK
    <2>3. Path(d) # Path(c)
      BY <2>1, WorkerStep, PathsApart, UsersAssumption
    <2>4. Kept(Path(d))
      BY <2>2, <2>3, WorkerKeepsOthers DEF FilesInv
    <2>5. QED
      BY <2>2, <2>4, WorkerStep, WorkerLocal, FileFrame DEF FilesInv, Kept
  <1>2. CASE pc[d] \notin {"storing", "retrieving"}
    BY <1>2, WorkerStep, WorkerLocal, FileFrame DEF FilesInv
  <1>3. QED
    BY <1>1, <1>2

\* FilesInv is inductive when a name has one worker.
LEMMA FilesInv_Next ==
    ASSUME "write" \notin Faults,
           TypeInv, OneWorkerPerName, SocketsOK, FilesInv, [Next]_vars
    PROVE  FilesInv'
  <1> USE DEF TypeInv, TypeOK, ConnTypeOK, IOTypeOK, WorkerTypeOK, FilesInv
  <1>1. ASSUME NEW c \in Conns, Worker(c)
        PROVE  FilesInv'
    BY <1>1, WorkerKeepsOthers, FileOK_Worker, FileOK_Other DEF SocketsOK
  <1>2. ASSUME NEW c \in Conns,
               createWorkerFails(c) \/ \E u \in Users : createWorker(c, u)
        PROVE  FilesInv'
    <2>1. /\ UNCHANGED <<fsVars, userName, left, sent>>
          /\ pc'[c] \in {"guard", "exited"}
          /\ \A d \in Conns \ {c} : pc'[d] = pc[d] /\ request'[d] = request[d]
      BY <1>2 DEF createWorkerFails, createWorker, ioVars
    <2>2. ASSUME NEW d \in Conns
          PROVE  FileOK(d)'
      <3>1. CASE d = c
        BY <2>1, <3>1 DEF FileOK
      <3>2. CASE d # c
        BY <2>1, <3>2, FileFrame DEF fsVars
      <3>3. QED
        BY <3>1, <3>2
    <2>3. QED
      BY <2>1, <2>2 DEF OneNamePerFile, fsVars
  <1>3. ASSUME NEW c \in Conns, Client(c)
        PROVE  FilesInv'
    <2>1. /\ UNCHANGED <<fsVars, workerVars>>
          /\ pc[c] \in Looping \/ UNCHANGED ioVars
          /\ \A d \in Conns \ {c} : request'[d] = request[d] /\ sent'[d] = sent[d]
      BY <1>3 DEF Client, ClientRequest, ClientClose, ioVars
    <2>2. ASSUME NEW d \in Conns
          PROVE  FileOK(d)'
      <3>1. CASE d = c /\ pc[c] \in Looping
        BY <2>1, <3>1 DEF FileOK, Looping, workerVars
      <3>2. CASE d # c \/ UNCHANGED ioVars
        BY <2>1, <3>2, FileFrame DEF fsVars, ioVars, workerVars
      <3>3. QED
        BY <2>1, <3>1, <3>2
    <2>3. QED
      BY <2>1, <2>2 DEF OneNamePerFile, fsVars
  <1>4. CASE Restart
    BY <1>4 DEF Restart, FileOK, OneNamePerFile, Live
  <1>5. CASE \/ Scan \/ MainGuard \/ AcceptTimeout \/ sighandler \/ waitActiveThreads
             \/ UNCHANGED vars
    <2>1. UNCHANGED <<fsVars, ioVars, workerVars>>
      BY <1>5
      DEF Scan, ScanUser, ScanFile, Listen, MainGuard, AcceptTimeout, sighandler,
          waitActiveThreads, vars
    <2>2. QED
      BY <2>1 DEF FileOK, OneNamePerFile, Path, fsVars, ioVars, workerVars
  <1>6. QED
    BY <1>1, <1>2, <1>3, <1>4, <1>5 DEF Next, Main, Terminated

\* No inode is shared and every transfer is in step with its file, whatever the workers
\* of other names do.
LEMMA FilesInvariant ==
    ASSUME Discipline = "exclusive", NoRegisterSpelled, "write" \notin Faults
    PROVE  Spec => []FilesInv
  <1>1. Init => FilesInv
    BY InodesAssumption DEF Init, FilesInv, FileOK, OneNamePerFile
  <1>2. TypeInv /\ OneWorkerPerName /\ SocketsOK /\ FilesInv /\ [Next]_vars => FilesInv'
    BY FilesInv_Next
  <1>3. QED
    BY <1>1, <1>2, TypeInvariant, NamesInvariant, SocketsInvariant, PTL DEF Spec

-----------------------------------------------------------------------------
(* Only whole objects are stored.                                          *)

\* A STORE that has received its last unit has written the whole block.
LEMMA StoreFinishHolds ==
    ASSUME TypeInv, NEW c \in Conns, FileOK(c), StoreFinish(c)
    PROVE  /\ HoldsBlock(c) /\ entry' = entry
           /\ Path(c) \in Paths /\ request[c].val \in Values
  <1> USE DEF TypeInv, TypeOK, FileStoreTypeOK
  <1>1. /\ Path(c) \in Paths /\ request[c].val \in Values /\ Size[request[c].val] \in Nat
        /\ fd[c] \in Inodes /\ entry[Path(c)] = fd[c] /\ offset[c] \in Nat
    BY PathType DEF StoreFinish, WorkerOK, FileOK
  <1>2. offset[c] = Size[request[c].val] /\ inode[fd[c]] = Whole(request[c].val)
    BY <1>1 DEF StoreFinish, FileOK, Whole
  <1>3. entry' = entry /\ inode' = Freed(inode, entry, fd')
    BY DEF StoreFinish, close
  <1>4. inode'[fd[c]] = inode[fd[c]]
    BY <1>1, <1>3, FreedKeeps
  <1>5. QED
    BY <1>1, <1>2, <1>3, <1>4, InodesAssumption DEF HoldsBlock

\* What a step of a worker leaves at the path of its request: the whole block, nothing,
\* a file it goes on writing, or what was there.
LEMMA OwnPathStep ==
    ASSUME "unlink" \notin Faults, TypeInv, OneNamePerFile, NEW c \in Conns, FileOK(c),
           Worker(c), Path(c) \in Paths
    PROVE  \/ HoldsBlock(c) /\ request[c].val \in Values
           \/ entry'[Path(c)] = NoInode
           \/ pc'[c] = "storing" /\ userName' = userName /\ request' = request
           \/ Kept(Path(c)) /\ pc[c] # "storing"
  <1> USE DEF TypeInv, TypeOK, FileStoreTypeOK, WorkerTypeOK
  <1>1. CASE StoreFinish(c)
    BY <1>1, StoreFinishHolds
  <1>2. CASE StoreAbort(c)
    BY <1>2 DEF StoreAbort, closeUnlink
  <1>3. CASE StoreOpen(c) \/ StoreChunk(c)
    BY <1>3 DEF StoreOpen, StoreChunk, Continue, ioVars
  <1>4. CASE DeleteRemove(c) \/ Store(c)
    <2>1. UNCHANGED fsVars \/ unlink(Path(c))
      BY <1>4 DEF DeleteRemove, Store, removeFile
    <2>2. pc[c] # "storing"
      BY <1>4 DEF DeleteRemove, Store, Dispatch
    <2>3. QED
      BY <2>1, <2>2 DEF unlink, Kept, fsVars
  <1>5. CASE Retrieve(c) \/ RetrieveChunkFails(c) \/ RetrieveFinish(c)
    <2>1. UNCHANGED fsVars \/ openRead(c, Path(c)) \/ close(c)
      BY <1>5 DEF Retrieve, RetrieveChunkFails, RetrieveFinish
    <2>2. pc[c] # "storing"
      BY <1>5 DEF Retrieve, RetrieveChunkFails, RetrieveFinish, Dispatch
    <2>3. QED
      BY <2>1, <2>2, CallsKeepOthers
  <1>6. CASE \/ LoopGuard(c) \/ SelectTimeout(c) \/ SelectFails(c) \/ RetrieveSpin(c)
             \/ ReadNoHeader(c) \/ \E r \in Requests : LeftoverRequest(c, r)
             \/ Register(c) \/ RegisterCheck(c) \/ RegisterAdd(c) \/ Leave(c) \/ Delete(c)
             \/ StoreOpenFails(c) \/ RetrieveFails(c) \/ RetrieveChunk(c)
             \/ CloseSocket(c) \/ forceRemoveClientOnline(c) \/ decrActiveThreads(c)
    <2>1. entry' = entry /\ inode' = inode /\ pc[c] # "storing"
      BY <1>6
      DEF LoopGuard, SelectTimeout, SelectFails, Leftover, ReadNoHeader, LeftoverRequest,
          RetrieveSpin, Register, RegisterCheck, RegisterAdd, Leave, Delete, StoreOpenFails,
          RetrieveFails, RetrieveChunk, CloseSocket, forceRemoveClientOnline,
          decrActiveThreads, Dispatch, vars, fsVars
    <2>2. QED
      BY <2>1 DEF Kept
  <1>7. QED
    BY <1>1, <1>2, <1>3, <1>4, <1>5, <1>6 DEF Worker

\* Nobody but the worker of a path stores an object there.
LEMMA StoringElsewhere ==
    ASSUME TypeInv, OneWorkerPerName, NEW c \in Conns, Worker(c), NEW p \in Paths
    PROVE  /\ p # Path(c) => (Storing(p) => Storing(p)')
           /\ p = Path(c) /\ pc[c] # "storing" => ~Storing(p)
           /\ p = Path(c) /\ pc'[c] # "storing" => ~Storing(p)'
           /\ p # Path(c) => (Storing(p)' => Storing(p))
  <1>1. ASSUME NEW d \in Conns \ {c}
        PROVE  /\ pc'[d] = pc[d] /\ Path(d)' = Path(d)
               /\ pc[d] = "storing" => Path(d) # Path(c)
    <2>1. pc'[d] = pc[d] /\ Path(d)' = Path(d)
      BY WorkerStep DEF Path
    <2>2. pc[d] = "storing" => userName[d] # NoUser
      BY UsersAssumption DEF TypeInv, WorkerOK
    <2>3. QED
      BY <2>1, <2>2, WorkerStep, PathsApart
  <1>2. pc'[c] = "storing" => Path(c)' = Path(c)
    <2>1. pc'[c] = "storing" => StoreOpen(c) \/ StoreChunk(c)
      BY DEF Worker, LoopGuard, SelectTimeout, SelectFails, Leftover, ReadNoHeader,
             LeftoverRequest, RetrieveSpin, Register, RegisterCheck, RegisterAdd, Leave,
             Delete, DeleteRemove, Store, StoreOpenFails, StoreAbort, StoreFinish, Retrieve,
             RetrieveFails, RetrieveChunk, RetrieveChunkFails, RetrieveFinish,
             CloseSocket, forceRemoveClientOnline, decrActiveThreads, Continue, Answer,
             Finish, vars, workerVars, TypeInv, TypeOK, WorkerTypeOK
    <2>2. QED
      BY <2>1 DEF StoreOpen, StoreChunk, Continue, Path, ioVars
  <1>3. QED
    BY <1>1, <1>2 DEF Storing

\* A step of a worker leaves whole objects.
LEMMA NoPartialObject_Worker ==
    ASSUME "unlink" \notin Faults, TypeInv, OneWorkerPerName, FilesInv, NoPartialObject,
           NEW c \in Conns, Worker(c), NEW p \in Paths, entry'[p] # NoInode, ~Storing(p)'
    PROVE  \E v \in Values : inode'[entry'[p]] = Whole(v)
  <1>1. CASE Kept(p) /\ ~Storing(p)
    BY <1>1 DEF Kept, NoPartialObject, Stored, Content
  <1>2. CASE p # Path(c)
    BY <1>1, <1>2, WorkerKeepsOthers, StoringElsewhere DEF FilesInv
  <1>3. CASE p = Path(c)
    <2>1. CASE HoldsBlock(c) /\ request[c].val \in Values
      BY <1>3, <2>1 DEF HoldsBlock
    <2>2. CASE pc'[c] = "storing" /\ userName' = userName /\ request' = request
      BY <1>3, <2>2 DEF Storing, Path
    <2>3. CASE Kept(p) /\ pc[c] # "storing"
      BY <1>1, <1>3, <2>3, StoringElsewhere
    <2>4. QED
      BY <1>3, <2>1, <2>2, <2>3, OwnPathStep DEF FilesInv
  <1>4. QED
    BY <1>2, <1>3

\* A step that leaves the files and the transfers alone.
LEMMA ObjectsFrame ==
    ASSUME NoPartialObject, entry' = entry, inode' = inode,
           \A c \in Conns : pc[c] = "storing" => pc'[c] = "storing" /\ Path(c)' = Path(c)
    PROVE  NoPartialObject'
  <1>1. \A p \in Paths : Storing(p) => Storing(p)'
    BY DEF Storing
  <1>2. QED
    BY <1>1 DEF NoPartialObject, Stored, Content

\* NoPartialObject is inductive with FilesInv, while the process is not killed.
LEMMA NoPartialObject_Next ==
    ASSUME "unlink" \notin Faults, MaxRestarts = 0,
           TypeInv, OneWorkerPerName, FilesInv, NoPartialObject, [Next]_vars
    PROVE  NoPartialObject'
  <1> USE DEF TypeInv, TypeOK, IOTypeOK, WorkerTypeOK
  <1>1. ASSUME NEW c \in Conns, Worker(c)
        PROVE  NoPartialObject'
    BY <1>1, NoPartialObject_Worker DEF NoPartialObject, Stored, Content
  <1>2. ASSUME NEW c \in Conns,
               createWorkerFails(c) \/ Client(c) \/ \E u \in Users : createWorker(c, u)
        PROVE  NoPartialObject'
    BY <1>2, ObjectsFrame
    DEF createWorkerFails, createWorker, Client, ClientRequest, ClientClose, Path, Looping,
        fsVars, ioVars, workerVars
  <1>3. ~Restart
    BY DEF Restart, MainTypeOK
  <1>4. CASE \/ Scan \/ MainGuard \/ AcceptTimeout \/ sighandler \/ waitActiveThreads
             \/ UNCHANGED vars
    <2>1. UNCHANGED <<fsVars, ioVars, workerVars>>
      BY <1>4
      DEF Scan, ScanUser, ScanFile, Listen, MainGuard, AcceptTimeout, sighandler,
          waitActiveThreads, vars
    <2>2. QED
      BY <2>1, ObjectsFrame DEF Path, fsVars, ioVars, workerVars
  <1>5. QED
    BY <1>1, <1>2, <1>3, <1>4 DEF Next, Main, Terminated

\* What is in the data directory when the process starts are whole objects.
LEMMA NoPartialObject_Init == Init => NoPartialObject
  <1> SUFFICES ASSUME Init PROVE NoPartialObject
    OBVIOUS
  <1>1. PICK saved \in [Paths -> Values \cup {NoValue}] :
            /\ entry = [p \in Paths |-> IF saved[p] = NoValue THEN NoInode ELSE p]
            /\ inode = [i \in Inodes |->
                            IF i \in Paths
                            THEN IF saved[i] = NoValue THEN <<>> ELSE Whole(saved[i])
                            ELSE <<>>]
    BY DEF Init
  <1>2. ASSUME NEW p \in Stored
        PROVE  Content(p) = Whole(saved[p]) /\ saved[p] \in Values
    BY <1>1, <1>2 DEF Stored, Content, Inodes
  <1>3. QED
    BY <1>2 DEF NoPartialObject, Stored

\* Whatever the clients of other names do, and whenever a client goes away, a file that
\* nobody is storing is one whole object.  Without a kill in the middle of a STORE,
\* and on a disk where write and unlink do what they are told.
THEOREM StoredObjectsAreWhole ==
    ASSUME Discipline = "exclusive", NoRegisterSpelled,
           {"write", "unlink"} \cap Faults = {}, MaxRestarts = 0
    PROVE  Spec => []NoPartialObject
  <1>1. TypeInv /\ OneWorkerPerName /\ FilesInv /\ NoPartialObject /\ [Next]_vars
            => NoPartialObject'
    BY NoPartialObject_Next
  <1>2. Spec => []FilesInv
    BY FilesInvariant
  <1>3. QED
    BY <1>1, <1>2, NoPartialObject_Init, TypeInvariant, NamesInvariant, PTL DEF Spec

\* A RETRIEVE with nothing left to send has sent all of the file at its path, which
\* nobody else is storing.
LEMMA AllIsSent ==
    ASSUME TypeInv, OneWorkerPerName, FilesInv,
           NEW c \in Conns, pc[c] = "retrieving", left[c] = 0
    PROVE  /\ Path(c) \in Stored /\ ~Storing(Path(c))
           /\ sent[c] = Content(Path(c))
  <1> USE DEF TypeInv, TypeOK, FileStoreTypeOK
  <1>1. /\ Path(c) \in Paths /\ userName[c] # NoUser /\ fd[c] \in Inodes
        /\ entry[Path(c)] = fd[c] /\ offset[c] \in Nat
    BY PathType, UsersAssumption DEF WorkerOK, FilesInv, FileOK
  <1> DEFINE f == inode[fd[c]]
  <1>2. f \in Seq(Values \cup {Hole})
    BY <1>1 DEF Contents
  <1>3. sent[c] = f
    <2>1. /\ offset[c] + 0 = Len(f)
          /\ sent[c] = [n \in 1 .. offset[c] |-> f[n]]
      BY DEF FilesInv, FileOK
    <2>2. offset[c] = Len(f)
      BY <1>1, <2>1
    <2>3. QED
      BY <1>2, <2>1, <2>2, SequenceFacts
  <1>4. ~Storing(Path(c))
    <2>1. ASSUME NEW d \in Conns, pc[d] = "storing"
          PROVE  Path(d) # Path(c)
      BY <1>1, <2>1, PathsApart, UsersAssumption DEF WorkerOK, Live
    <2>2. QED
      BY <2>1 DEF Storing
  <1>5. QED
    BY <1>1, <1>3, <1>4, InodesAssumption DEF Stored, Content

\* What a RETRIEVE has sent when it ends is the object its path holds, whole, however
\* many steps of other workers it took.
THEOREM WhatIsRetrievedIsStored ==
    ASSUME Discipline = "exclusive", NoRegisterSpelled,
           {"write", "unlink"} \cap Faults = {}, MaxRestarts = 0
    PROVE  Spec => RetrieveReturnsObject
  <1>1. ASSUME TypeInv, OneWorkerPerName, FilesInv, NoPartialObject,
               NEW c \in Conns, pc[c] = "retrieving", left[c] = 0
        PROVE  sent[c] = Content(Path(c)) /\ \E v \in Values : sent[c] = Whole(v)
    BY <1>1, AllIsSent DEF NoPartialObject
  <1>2. TypeInv /\ OneWorkerPerName /\ FilesInv /\ NoPartialObject
            => [\A c \in Conns :
                    pc[c] = "retrieving" /\ left[c] = 0 /\ pc'[c] # pc[c] =>
                        /\ sent[c] = Content(Path(c))
                        /\ \E v \in Values : sent[c] = Whole(v)]_vars
    BY <1>1
  <1>3. Spec => []FilesInv
    BY FilesInvariant
  <1>4. QED
    BY <1>2, <1>3, StoredObjectsAreWhole, TypeInvariant, NamesInvariant, PTL
    DEF RetrieveReturnsObject

-----------------------------------------------------------------------------
(* An OK is true when it is sent.                                          *)

\* Only the worker of a connection answers on it, and OK is the answer of four steps.
LEMMA AnsweredOK ==
    ASSUME TypeInv, [Next]_vars, NEW c \in Conns,
           NEW cmd \in {"STORE", "DELETE", "REGISTER", "LEAVE"}, Answered(c, cmd, "OK")
    PROVE  \/ cmd = "STORE" /\ StoreFinish(c)
           \/ cmd = "DELETE" /\ DeleteRemove(c) /\ entry'[Path(c)] = NoInode
           \/ cmd = "REGISTER" /\ RegisterAdd(c)
           \/ cmd = "LEAVE" /\ Leave(c)
  <1> USE DEF TypeInv, TypeOK, IOTypeOK
  <1>1. /\ request[c].cmd = cmd /\ request'[c] = NoRequest /\ request[c] # NoRequest
        /\ reply'[c] = Append(reply[c], "OK") /\ reply[c] \in Seq(Responses)
    BY RequestMembers DEF Answered
  <1>2. /\ reply'[c] # reply[c] /\ reply'[c] # <<>>
        /\ \A r \in Responses : reply'[c] = Append(reply[c], r) => r = "OK"
    BY <1>1, AppendFacts DEF Responses
  <1>3. ASSUME NEW d \in Conns, Worker(d)
        PROVE  \/ cmd = "STORE" /\ StoreFinish(c)
               \/ cmd = "DELETE" /\ DeleteRemove(c) /\ entry'[Path(c)] = NoInode
               \/ cmd = "REGISTER" /\ RegisterAdd(c)
               \/ cmd = "LEAVE" /\ Leave(c)
    <2>1. d = c
      BY <1>1, <1>3, WorkerStep
    <2>2. \A e, next, r : r \in Responses /\ Answer(c, e, r, next) => r = "OK"
      BY <1>2 DEF Answer
    <2>3. /\ ~Register(c) /\ ~RegisterCheck(c) /\ ~Delete(c) /\ ~StoreOpenFails(c)
          /\ ~Store(c) /\ ~StoreOpen(c) /\ ~StoreChunk(c) /\ ~StoreAbort(c)
      BY <1>2, <2>2
      DEF Register, RegisterCheck, Delete, StoreOpenFails, Store, StoreOpen, StoreChunk,
          StoreAbort, Responses, Continue, ioVars
    <2>4. ~(\/ LoopGuard(c) \/ SelectTimeout(c) \/ SelectFails(c) \/ RetrieveSpin(c)
            \/ ReadNoHeader(c) \/ \E r \in Requests : LeftoverRequest(c, r)
            \/ CloseSocket(c) \/ forceRemoveClientOnline(c) \/ decrActiveThreads(c))
      BY <1>1, <1>2
      DEF LoopGuard, SelectTimeout, SelectFails, Leftover, ReadNoHeader, LeftoverRequest,
          RetrieveSpin, CloseSocket, forceRemoveClientOnline, decrActiveThreads, WorkerOK,
          vars, ioVars
    <2>5. ~(\/ Retrieve(c) \/ RetrieveFails(c) \/ RetrieveChunk(c)
            \/ RetrieveChunkFails(c) \/ RetrieveFinish(c))
      BY <1>1
      DEF Retrieve, RetrieveFails, RetrieveChunk, RetrieveChunkFails, 
          RetrieveFinish, Dispatch, WorkerOK
    <2>6. DeleteRemove(c) => cmd = "DELETE" /\ entry'[Path(c)] = NoInode
      <3>1. DeleteRemove(c) => removeFile(Path(c), 0) /\ request[c].cmd = "DELETE"
        BY <2>2 DEF DeleteRemove, Responses, WorkerOK
      <3>2. DeleteRemove(c) => Path(c) \in Paths
        BY <3>1, PathType
      <3>3. QED
        BY <1>1, <3>1, <3>2 DEF removeFile, unlink, FileStoreTypeOK
    <2>7. /\ StoreFinish(c) => cmd = "STORE"
          /\ RegisterAdd(c) => cmd = "REGISTER"
          /\ Leave(c) => cmd = "LEAVE"
      BY <1>1 DEF StoreFinish, RegisterAdd, Leave, Dispatch, WorkerOK
    <2>8. QED
      BY <1>3, <2>1, <2>3, <2>4, <2>5, <2>6, <2>7 DEF Worker
  <1>4. ~Restart
    BY <1>2 DEF Restart
  <1>5. ASSUME NEW d \in Conns,
               createWorkerFails(d) \/ Client(d) \/ \E u \in Users : createWorker(d, u)
        PROVE  FALSE
    BY <1>1, <1>2, <1>5
    DEF createWorkerFails, createWorker, Client, ClientRequest, ClientClose, ioVars
  <1>6. ~(\/ Scan \/ MainGuard \/ AcceptTimeout \/ sighandler \/ waitActiveThreads
          \/ UNCHANGED vars)
    BY <1>2
    DEF Scan, ScanUser, ScanFile, Listen, MainGuard, AcceptTimeout, sighandler,
        waitActiveThreads, vars, ioVars
  <1>7. QED
    BY <1>3, <1>4, <1>5, <1>6 DEF Next, Main, Terminated

\* A name is online at most once, and only during the one session of its user.
LEMMA OnlineOnce ==
    ASSUME TypeInv, OneWorkerPerName, RegistersOnce, NoGhostOnline, NEW u \in Users
    PROVE  /\ onlineclients[u] \in {0, 1}
           /\ onlineclients[u] = 1 => \E c \in Conns : c \in Sessions(u)
  <1>1. onlineclients[u] \in Nat /\ onlineclients[u] <= Cardinality(Sessions(u))
    <2>1. u \in Users \ renamed
      BY DEF RegistersOnce
    <2>2. onlineclients[u] <= Cardinality(Sessions(u))
      BY <2>1, Zenon DEF NoGhostOnline
    <2>3. QED
      BY <2>2 DEF TypeInv, TypeOK, StatsTypeOK
  <1>2. \A c, d \in Sessions(u) : c = d
    BY UsersAssumption DEF Sessions, OneWorkerPerName
  <1>3. CASE Sessions(u) = {}
    BY <1>1, <1>3, FS_EmptySet
  <1>4. CASE Sessions(u) # {}
    <2>1. PICK c \in Conns : c \in Sessions(u)
      BY <1>4 DEF Sessions
    <2>2. Sessions(u) = {c}
      BY <1>2, <2>1
    <2>3. Cardinality(Sessions(u)) = 1
      BY <2>2, FS_Singleton
    <2>4. QED
      BY <1>1, <2>1, <2>3
  <1>5. QED
    BY <1>3, <1>4

\* A name is not online before its REGISTER is answered: no other worker has it.
LEMMA NotOnlineYet ==
    ASSUME TypeInv, OneWorkerPerName, RegistersOnce, NoGhostOnline,
           NEW c \in Conns, Live(c), userName[c] = NoUser, NEW u \in Users, u = peer[c]
    PROVE  onlineclients[u] = 0
  <1>1. ASSUME NEW d \in Sessions(u) PROVE FALSE
    BY <1>1, UsersAssumption DEF Sessions, OneWorkerPerName
  <1>2. QED
    BY <1>1, OnlineOnce

\* Under the exclusive discipline, when the client reads OK the object is in its file,
\* whole, or gone; the name is listed once, or no more.
THEOREM AcksAreTrue ==
    ASSUME Discipline = "exclusive", NoRegisterSpelled, "write" \notin Faults
    PROVE  Spec => AckMeansDone
  <1>1. ASSUME TypeInv, OneWorkerPerName, RegistersOnce, NoGhostOnline, FilesInv,
               [Next]_vars, NEW c \in Conns
        PROVE  /\ Answered(c, "STORE", "OK") => HoldsBlock(c)
               /\ Answered(c, "DELETE", "OK") => entry'[Path(c)] = NoInode
               /\ Answered(c, "REGISTER", "OK") => onlineclients'[request[c].obj] = 1
               /\ Answered(c, "LEAVE", "OK") => onlineclients'[userName[c]] = 0
    <2> USE DEF TypeInv, TypeOK, StatsTypeOK
    <2>1. Answered(c, "STORE", "OK") => HoldsBlock(c)
      BY <1>1, AnsweredOK, StoreFinishHolds DEF FilesInv
    <2>2. Answered(c, "DELETE", "OK") => entry'[Path(c)] = NoInode
      BY <1>1, AnsweredOK
    <2>3. ASSUME Answered(c, "REGISTER", "OK")
          PROVE  onlineclients'[request[c].obj] = 1
      <3>1. RegisterAdd(c)
        BY <1>1, <2>3, AnsweredOK
      <3>2. PICK u \in Users : u = request[c].obj
        BY <1>1, <3>1, RegisterTypes
      <3>3. Live(c) /\ userName[c] = NoUser /\ u = peer[c]
        BY <1>1, <3>1, <3>2, RegisterTypes DEF RegistersOnce
      <3>4. onlineclients[u] = 0
        BY <1>1, <3>2, <3>3, NotOnlineYet
      <3>5. QED
        BY <1>1, <3>1, <3>2, <3>4 DEF RegisterAdd, addClientOnline, insertList
    <2>4. ASSUME Answered(c, "LEAVE", "OK")
          PROVE  onlineclients'[userName[c]] = 0
      <3>1. Leave(c)
        BY <1>1, <2>4, AnsweredOK
      <3>2. PICK u \in Users : u = userName[c]
        BY <1>1, <3>1 DEF Leave, Dispatch, WorkerOK
      <3>3. onlineclients[u] \in {0, 1}
        BY <1>1, OnlineOnce
      <3>4. removeClientOnline(u)
        BY <3>1, <3>2 DEF Leave
      <3>5. QED
        BY <1>1, <3>2, <3>3, <3>4
        DEF removeClientOnline, checkIfOnline, isInList, deleteList
    <2>5. QED
      BY <2>1, <2>2, <2>3, <2>4
  <1>2. TypeInv /\ OneWorkerPerName /\ RegistersOnce /\ NoGhostOnline /\ FilesInv
            /\ [Next]_vars
            => [\A c \in Conns :
                    /\ Answered(c, "STORE", "OK") => HoldsBlock(c)
                    /\ Answered(c, "DELETE", "OK") => entry'[Path(c)] = NoInode
                    /\ Answered(c, "REGISTER", "OK") => onlineclients'[request[c].obj] = 1
                    /\ Answered(c, "LEAVE", "OK") => onlineclients'[userName[c]] = 0]_vars
    BY <1>1
  <1>3. QED
    BY <1>2, FilesInvariant, NamesAreFreed, NamesInvariant, RegistersOnceInvariant,
       TypeInvariant, PTL
    DEF Spec, AckMeansDone

-----------------------------------------------------------------------------
(* The sums.                                                               *)

\* The pairs Total counts.
Pairs(f, S) == UNION {{x} \X (1 .. f[x]) : x \in S}

\* As many pairs as the number says.
LEMMA FirstNumbers ==
    ASSUME NEW n \in Nat
    PROVE  IsFiniteSet(1 .. n) /\ Cardinality(1 .. n) = n
  <1>1. /\ IsFiniteSet(1 .. n)
        /\ Cardinality(1 .. n) = IF 1 > n THEN 0 ELSE n - 1 + 1
    BY FS_Interval
  <1>2. QED
    BY <1>1

\* A sum counts finitely many pairs.
LEMMA PairsFinite ==
    ASSUME NEW S, IsFiniteSet(S), NEW f, \A x \in S : f[x] \in Nat
    PROVE  IsFiniteSet(Pairs(f, S))
  <1> DEFINE F == {{x} \X (1 .. f[x]) : x \in S}
             G == [x \in S |-> {x} \X (1 .. f[x])]
  <1>1. G \in Surjection(S, F)
    BY DEF Surjection
  <1>2. IsFiniteSet(F)
    BY <1>1, FS_Surjection
  <1>3. ASSUME NEW x \in S
        PROVE  IsFiniteSet({x} \X (1 .. f[x]))
    BY FS_Singleton, FirstNumbers, FS_Product
  <1>4. \A T \in F : IsFiniteSet(T)
    BY <1>3
  <1>5. IsFiniteSet(UNION F)
    BY <1>2, <1>4, FS_UNION
  <1>6. QED
    BY <1>5 DEF Pairs

\* One element of a sum taken apart.
LEMMA TotalSplit ==
    ASSUME NEW S, IsFiniteSet(S), NEW f, \A x \in S : f[x] \in Nat, NEW s \in S
    PROVE  /\ Total(f, S) \in Nat
           /\ Total(f, S) = Total(f, S \ {s}) + f[s]
  <1> DEFINE A == Pairs(f, S \ {s})
             B == {s} \X (1 .. f[s])
  <1>1. Pairs(f, S) = A \cup B /\ A \cap B = {}
    BY DEF Pairs
  <1>2. IsFiniteSet(A) /\ IsFiniteSet(Pairs(f, S))
    <2>1. IsFiniteSet(S \ {s})
      BY FS_RemoveElement
    <2>2. QED
      BY <2>1, PairsFinite
  <1>3. IsFiniteSet(B) /\ Cardinality(B) = f[s]
    <2>1. f[s] \in Nat /\ IsFiniteSet(1 .. f[s]) /\ Cardinality(1 .. f[s]) = f[s]
      BY FirstNumbers
    <2>2. IsFiniteSet({s}) /\ Cardinality({s}) = 1
      BY FS_Singleton
    <2>3. QED
      BY <2>1, <2>2, FS_Product
  <1>4. Cardinality(A \cap B) = 0
    BY <1>1, FS_EmptySet
  <1>5. Cardinality(A \cup B) = Cardinality(A) + f[s] /\ Cardinality(A) \in Nat
    <2> HIDE DEF A, B
    <2>1. Cardinality(A \cup B) = Cardinality(A) + Cardinality(B) - Cardinality(A \cap B)
      BY <1>2, <1>3, FS_Union
    <2>2. Cardinality(A) \in Nat
      BY <1>2, FS_CardinalityType
    <2>3. QED
      BY <1>3, <1>4, <2>1, <2>2
  <1>6. Total(f, S) = Cardinality(Pairs(f, S)) /\ Total(f, S \ {s}) = Cardinality(A)
    BY DEF Total, Pairs
  <1>7. Total(f, S) \in Nat
    BY <1>2, <1>6, FS_CardinalityType
  <1>8. QED
    BY <1>1, <1>5, <1>6, <1>7

\* A sum depends on the elements it is over.
LEMMA TotalSame ==
    ASSUME NEW S, NEW f, NEW g, \A x \in S : f[x] = g[x]
    PROVE  Total(f, S) = Total(g, S)
  <1>1. {{x} \X (1 .. f[x]) : x \in S} = {{x} \X (1 .. g[x]) : x \in S}
    OBVIOUS
  <1>2. QED
    BY <1>1 DEF Total

\* A sum of nothing, or of zeros.
LEMMA TotalNothing ==
    ASSUME NEW S, NEW f, \A x \in S : f[x] = 0
    PROVE  Total(f, S) = 0
  <1>1. UNION {{x} \X (1 .. f[x]) : x \in S} = {}
    <2>1. \A x \in S : 1 .. f[x] = {}
      OBVIOUS
    <2>2. QED
      BY <2>1
  <1>2. QED
    BY <1>1, FS_EmptySet DEF Total

\* A list with one name more or less.
LEMMA TotalStep ==
    ASSUME NEW S, IsFiniteSet(S), NEW f \in [S -> Nat], NEW s \in S, NEW n \in Nat
    PROVE  Total([f EXCEPT ![s] = n], S) = Total(f, S) - f[s] + n
  <1> DEFINE g == [f EXCEPT ![s] = n]
  <1>1. g \in [S -> Nat] /\ g[s] = n /\ \A x \in S \ {s} : g[x] = f[x]
    OBVIOUS
  <1> HIDE DEF g
  <1>2. Total(g, S \ {s}) = Total(f, S \ {s})
    BY <1>1, TotalSame
  <1>3. /\ Total(g, S) \in Nat /\ Total(f, S) \in Nat
        /\ Total(g, S) = Total(g, S \ {s}) + n
        /\ Total(f, S) = Total(f, S \ {s}) + f[s]
    BY <1>1, TotalSplit
  <1>4. f[s] \in Nat /\ Total(f, S \ {s}) \in Nat
    <2>1. IsFiniteSet(S \ {s})
      BY FS_RemoveElement
    <2>2. IsFiniteSet(Pairs(f, S \ {s}))
      BY <2>1, PairsFinite
    <2>3. QED
      BY <2>2, FS_CardinalityType DEF Total, Pairs
  <1>5. QED
    BY <1>2, <1>3, <1>4 DEF g

-----------------------------------------------------------------------------
(* The counters and the lists.                                             *)

listVars == <<nusers, nonline, allclients, onlineclients>>

\* What a step does to the lists and to the counters of their names.
LEMMA ListsStep ==
    ASSUME TypeInv, [Next]_vars
    PROVE  \/ UNCHANGED listVars
           \/ nusers' = 0 /\ nonline' = 0 /\ allclients' = createList /\ onlineclients' = createList
           \/ \E u \in Users : countUser(u) /\ ~isInList(allclients, u)
           \/ \E u \in Users : addClientOnline(u)
           \/ \E u \in Users \cup {NoUser} : removeClientOnline(u)
  <1> USE DEF listVars
  <1>1. ASSUME NEW c \in Conns, Worker(c)
        PROVE  \/ UNCHANGED listVars
               \/ \E u \in Users : addClientOnline(u)
               \/ \E u \in Users \cup {NoUser} : removeClientOnline(u)
    <2>1. CASE RegisterAdd(c)
      BY <2>1, RegisterTypes DEF RegisterAdd
    <2>2. CASE Leave(c) \/ forceRemoveClientOnline(c)
      BY <2>2 DEF Leave, forceRemoveClientOnline, TypeInv, TypeOK, WorkerTypeOK
    <2>3. CASE DeleteRemove(c) \/ Store(c) \/ StoreFinish(c)
      BY <2>3
      DEF DeleteRemove, Store, StoreFinish, removeFile, subtractFile, addFile, statsVars
    <2>4. CASE \/ LoopGuard(c) \/ SelectTimeout(c) \/ SelectFails(c) \/ RetrieveSpin(c)
               \/ ReadNoHeader(c) \/ \E r \in Requests : LeftoverRequest(c, r)
               \/ Register(c) \/ RegisterCheck(c) \/ Delete(c) \/ StoreOpen(c)
               \/ StoreOpenFails(c) \/ StoreChunk(c) \/ StoreAbort(c) \/ Retrieve(c)
               \/ RetrieveFails(c) \/ RetrieveChunk(c) \/ RetrieveChunkFails(c)
               \/ RetrieveFinish(c) \/ CloseSocket(c) \/ decrActiveThreads(c)
      BY <2>4
      DEF LoopGuard, SelectTimeout, SelectFails, Leftover, ReadNoHeader, LeftoverRequest,
          RetrieveSpin, Register, RegisterCheck, Delete, StoreOpen, StoreOpenFails,
          StoreChunk, StoreAbort, Retrieve, RetrieveFails, RetrieveChunk,
          RetrieveChunkFails, RetrieveFinish, CloseSocket, decrActiveThreads,
          vars, statsVars
    <2>5. QED
      BY <1>1, <2>1, <2>2, <2>3, <2>4 DEF Worker
  <1>2. CASE Scan
    BY <1>2 DEF Scan, ScanUser, ScanFile, Listen, addFile, statsVars
  <1>3. ASSUME NEW c \in Conns,
               createWorkerFails(c) \/ Client(c) \/ \E u \in Users : createWorker(c, u)
        PROVE  UNCHANGED listVars
    BY <1>3
    DEF createWorkerFails, createWorker, Client, ClientRequest, ClientClose, statsVars
  <1>4. CASE \/ MainGuard \/ AcceptTimeout \/ sighandler \/ waitActiveThreads \/ Restart
             \/ UNCHANGED vars
    BY <1>4
    DEF MainGuard, AcceptTimeout, sighandler, waitActiveThreads, Restart, vars, statsVars
  <1>5. QED
    BY <1>1, <1>2, <1>3, <1>4 DEF Next, Main, Terminated

\* CountersMatchLists is inductive, given the types.
LEMMA CountersMatchLists_Next ==
    ASSUME TypeInv, CountersMatchLists, [Next]_vars
    PROVE  CountersMatchLists'
  <1> DEFINE Listed == {u \in Users : allclients[u] > 0}
  <1> USE DEF TypeInv, TypeOK, StatsTypeOK, CountersMatchLists
  <1>1. /\ IsFiniteSet(Users) /\ IsFiniteSet(Listed)
        /\ onlineclients \in [Users -> Nat] /\ allclients \in [Users -> Nat]
        /\ nonline = Total(onlineclients, Users) /\ nusers = Cardinality(Listed)
    BY UsersAssumption, FS_Subset
  <1>2. ASSUME NEW u \in Users, ~isInList(allclients, u), allclients' = insertList(allclients, u)
        PROVE  Cardinality(Listed') = nusers + 1
    <2>1. Listed' = Listed \cup {u} /\ u \notin Listed
      BY <1>1, <1>2 DEF isInList, insertList
    <2> HIDE DEF Listed
    <2>2. Cardinality(Listed \cup {u}) = Cardinality(Listed) + 1
      BY <1>1, <2>1, FS_AddElement
    <2>3. QED
      BY <1>1, <2>1, <2>2
  <1>3. ASSUME NEW u \in Users, onlineclients' = insertList(onlineclients, u)
        PROVE  Total(onlineclients', Users) = nonline + 1
    <2>1. onlineclients[u] + 1 \in Nat /\ onlineclients[u] \in Nat /\ nonline \in Int
      BY <1>1
    <2>2. Total(onlineclients', Users)
              = Total(onlineclients, Users) - onlineclients[u] + (onlineclients[u] + 1)
      BY <1>1, <1>3, <2>1, TotalStep DEF insertList
    <2>3. QED
      BY <1>1, <2>1, <2>2
  <1>4. ASSUME NEW u \in Users, isInList(onlineclients, u),
               onlineclients' = deleteList(onlineclients, u)
        PROVE  Total(onlineclients', Users) = nonline - 1
    <2>1. onlineclients[u] - 1 \in Nat /\ onlineclients[u] \in Nat /\ nonline \in Int
      BY <1>1, <1>4 DEF isInList
    <2>2. Total(onlineclients', Users)
              = Total(onlineclients, Users) - onlineclients[u] + (onlineclients[u] - 1)
      BY <1>1, <1>4, <2>1, TotalStep DEF deleteList
    <2>3. QED
      BY <1>1, <2>1, <2>2
  <1>5. CASE UNCHANGED listVars
    BY <1>5 DEF listVars
  <1>6. CASE /\ nusers' = 0 /\ nonline' = 0
             /\ allclients' = createList /\ onlineclients' = createList
    <2>1. Listed' = {} /\ \A u \in Users : onlineclients'[u] = 0
      BY <1>6 DEF createList
    <2>2. Total(onlineclients', Users) = 0
      BY <2>1, TotalNothing
    <2>3. QED
      BY <1>6, <2>1, <2>2, FS_EmptySet DEF createList
  <1>7. ASSUME NEW u \in Users, countUser(u), ~isInList(allclients, u)
        PROVE  CountersMatchLists'
    <2>1. Cardinality(Listed') = nusers + 1
      BY <1>2, <1>7 DEF countUser
    <2>2. QED
      BY <1>1, <1>7, <2>1 DEF countUser, isInList, insertList
  <1>8. ASSUME NEW u \in Users, addClientOnline(u)
        PROVE  CountersMatchLists'
    <2>1. nonline' = Total(onlineclients', Users)
      BY <1>3, <1>8 DEF addClientOnline
    <2>2. nusers' = Cardinality(Listed')
      BY <1>1, <1>2, <1>8 DEF addClientOnline
    <2>3. \A v \in Users :
              allclients'[v] <= 1 /\ (onlineclients'[v] > 0 => allclients'[v] = 1)
      BY <1>1, <1>8 DEF addClientOnline, isInList, insertList
    <2>4. QED
      BY <2>1, <2>2, <2>3
  <1>9. ASSUME NEW u \in Users \cup {NoUser}, removeClientOnline(u)
        PROVE  CountersMatchLists'
    <2>1. nonline' = Total(onlineclients', Users)
      BY <1>1, <1>4, <1>9 DEF removeClientOnline, checkIfOnline, isInList
    <2>2. QED
      BY <1>1, <1>9, <2>1 DEF removeClientOnline, checkIfOnline, isInList, deleteList
  <1>10. QED
    BY <1>5, <1>6, <1>7, <1>8, <1>9, ListsStep

\* Under any discipline, with any faults and through restarts, the numbers of users that
\* a SIGUSR1 prints are those of the lists below them, and every user who is online is
\* among the users, once.
THEOREM CountersAgreeWithLists == Spec => []CountersMatchLists
  <1>1. Init => CountersMatchLists
    <2> SUFFICES ASSUME Init PROVE CountersMatchLists
      OBVIOUS
    <2>1. /\ \A u \in Users : onlineclients[u] = 0 /\ allclients[u] = 0
          /\ nonline = 0 /\ nusers = 0
      BY DEF Init, StatsInit, createList
    <2>2. Total(onlineclients, Users) = 0
      BY <2>1, TotalNothing
    <2>3. {u \in Users : allclients[u] > 0} = {}
      BY <2>1
    <2>4. QED
      BY <2>1, <2>2, <2>3, FS_EmptySet DEF CountersMatchLists
  <1>2. TypeInv /\ CountersMatchLists /\ [Next]_vars => CountersMatchLists'
    BY CountersMatchLists_Next
  <1>3. QED
    BY <1>1, <1>2, TypeInvariant, PTL DEF Spec

-----------------------------------------------------------------------------
(* The counters and the files.                                             *)

\* No worker runs while the directories are read, and what is counted then is there.
ScanOK ==
    main = "scanning" => scanned \subseteq Stored /\ \A c \in Conns : ~Live(c)

\* A STORE creates its file: the old one has been removed and counted off.
NewFileOK == \A c \in Conns : pc[c] = "store_open" => entry[Path(c)] = NoInode

AccountInv == ScanOK /\ NewFileOK /\ AccountingExact

\* ScanOK is inductive, under any discipline.
LEMMA ScanOK_Next == TypeInv /\ ScanOK /\ [Next]_vars => ScanOK'
  <1> SUFFICES ASSUME TypeInv, ScanOK, [Next]_vars PROVE ScanOK'
    OBVIOUS
  <1>1. ASSUME NEW c \in Conns, Worker(c)
        PROVE  ScanOK'
    BY <1>1, WorkerStep DEF ScanOK
  <1>2. ASSUME NEW c \in Conns, createWorkerFails(c) \/ \E u \in Users : createWorker(c, u)
        PROVE  ScanOK'
    BY <1>2 DEF createWorkerFails, createWorker, ScanOK
  <1>3. ASSUME NEW c \in Conns, Client(c)
        PROVE  ScanOK'
    BY <1>3
    DEF Client, ClientRequest, ClientClose, ScanOK, Stored, Live, fsVars, workerVars,
        mainVars
  <1>4. CASE Restart \/ Listen \/ MainGuard \/ AcceptTimeout \/ waitActiveThreads
    BY <1>4
    DEF Restart, Listen, MainGuard, AcceptTimeout, waitActiveThreads, ScanOK, Stored, Live
  <1>5. CASE \/ sighandler \/ UNCHANGED vars \/ \E u \in Users : ScanUser(u)
             \/ \E p \in Paths : ScanFile(p)
    BY <1>5
    DEF sighandler, ScanUser, ScanFile, ScanOK, Stored, Live, vars, fsVars, workerVars,
        mainVars
  <1>6. QED
    BY <1>1, <1>2, <1>3, <1>4, <1>5 DEF Next, Main, Scan, Terminated

\* A worker that is about to open its file has just removed the old one.
LEMMA StoreRemoves ==
    ASSUME "unlink" \notin Faults, TypeInv, NEW c \in Conns, Worker(c), pc'[c] = "store_open"
    PROVE  entry'[Path(c)'] = NoInode
  <1> USE DEF TypeInv, TypeOK, WorkerTypeOK, FileStoreTypeOK
  <1>1. Store(c)
    BY DEF Worker, LoopGuard, SelectTimeout, SelectFails, Leftover, ReadNoHeader,
           LeftoverRequest, RetrieveSpin, Register, RegisterCheck, RegisterAdd, Leave,
           Delete, DeleteRemove, StoreOpen, StoreOpenFails, StoreChunk,
           StoreAbort, StoreFinish, Retrieve, RetrieveFails, RetrieveChunk,
           RetrieveChunkFails, RetrieveFinish, CloseSocket,
           forceRemoveClientOnline, decrActiveThreads, Continue, Answer, Finish, vars,
           workerVars
  <1>2. Path(c)' = Path(c) /\ Path(c) \in Paths
    BY <1>1, PathType DEF Store, Dispatch, Continue, Path, ioVars
  <1>3. QED
    BY <1>1, <1>2 DEF Store, removeFile, unlink, fsVars

\* NewFileOK is inductive when a name has one worker and unlink does not fail.
LEMMA NewFileOK_Next ==
    ASSUME "unlink" \notin Faults,
           TypeInv, OneWorkerPerName, FilesInv, NewFileOK, [Next]_vars
    PROVE  NewFileOK'
  <1> USE DEF TypeInv, TypeOK, IOTypeOK, WorkerTypeOK
  <1>1. ASSUME NEW c \in Conns, Worker(c), NEW d \in Conns, pc'[d] = "store_open"
        PROVE  entry'[Path(d)'] = NoInode
    <2>1. CASE d = c
      BY <1>1, <2>1, StoreRemoves
    <2>2. CASE d # c
      <3>1. /\ pc[d] = "store_open" /\ Path(d)' = Path(d) /\ WorkerOK(d)
            /\ entry[Path(d)] = NoInode
        BY <1>1, <2>2, WorkerStep DEF NewFileOK, Path
      <3>2. Path(d) # Path(c) /\ Path(d) \in Paths
        <4>1. request[d].cmd = "STORE" /\ userName[d] \in Users
          BY <3>1 DEF WorkerOK
        <4>2. QED
          BY <1>1, <2>2, <4>1, WorkerStep, PathsApart, PathType, UsersAssumption
      <3>3. Kept(Path(d))
        BY <1>1, <3>2, WorkerKeepsOthers DEF FilesInv
      <3>4. QED
        BY <3>1, <3>3 DEF Kept
    <2>3. QED
      BY <2>1, <2>2
  <1>2. ASSUME NEW c \in Conns,
               createWorkerFails(c) \/ Client(c) \/ \E u \in Users : createWorker(c, u)
        PROVE  NewFileOK'
    BY <1>2
    DEF createWorkerFails, createWorker, Client, ClientRequest, ClientClose, NewFileOK,
        Path, Looping, fsVars, ioVars, workerVars
  <1>3. CASE Restart
    BY <1>3 DEF Restart, NewFileOK, Live
  <1>4. CASE \/ Scan \/ MainGuard \/ AcceptTimeout \/ sighandler \/ waitActiveThreads
             \/ UNCHANGED vars
    <2>1. UNCHANGED <<fsVars, ioVars, workerVars>>
      BY <1>4
      DEF Scan, ScanUser, ScanFile, Listen, MainGuard, AcceptTimeout, sighandler,
          waitActiveThreads, vars
    <2>2. QED
      BY <2>1 DEF NewFileOK, Path, fsVars, ioVars, workerVars
  <1>5. QED
    BY <1>1, <1>2, <1>3, <1>4 DEF Next, Main, Terminated, NewFileOK

\* What is counted are files, finitely many of them.
LEMMA CountedType ==
    ASSUME TypeInv, ScanOK
    PROVE  /\ Counted \subseteq Stored /\ IsFiniteSet(Counted)
           /\ \A p \in Stored : Lengths[p] = Len(Content(p)) /\ Lengths[p] \in Nat
  <1>1. Counted \subseteq Stored /\ Stored \subseteq Paths
    BY DEF Counted, ScanOK, Stored
  <1>2. IsFiniteSet(Paths)
    BY UsersAssumption, ObjectsAssumption, FS_Product DEF Paths
  <1>3. IsFiniteSet(Counted)
    <2>1. Counted \in SUBSET Paths
      BY <1>1
    <2>2. QED
      BY <1>2, <2>1, FS_Subset
  <1>4. ASSUME NEW p \in Stored
        PROVE  Lengths[p] = Len(Content(p)) /\ Lengths[p] \in Nat
    <2>1. Content(p) \in Seq(Values \cup {Hole})
      BY <1>4 DEF Stored, Content, TypeInv, TypeOK, FileStoreTypeOK, Contents
    <2>2. QED
      BY <2>1 DEF Lengths
  <1>5. QED
    BY <1>1, <1>3, <1>4

\* A file more, the others being as long as they were.
LEMMA TotalOneMore ==
    ASSUME NEW S, IsFiniteSet(S), NEW s, s \notin S, NEW T, T = S \cup {s},
           NEW f, NEW g, \A x \in S : f[x] \in Nat /\ g[x] = f[x], g[s] \in Nat
    PROVE  /\ Cardinality(T) = Cardinality(S) + 1
           /\ Total(g, T) = Total(f, S) + g[s]
           /\ Cardinality(S) \in Nat /\ Total(f, S) \in Nat
  <1>1. /\ IsFiniteSet(T) /\ Cardinality(T) = Cardinality(S) + 1
        /\ Cardinality(S) \in Nat
    BY FS_AddElement, FS_CardinalityType
  <1>2. Total(f, S) \in Nat
    BY PairsFinite, FS_CardinalityType DEF Total, Pairs
  <1>3. Total(g, S) = Total(f, S)
    BY TotalSame
  <1>4. T \ {s} = S /\ s \in T /\ \A x \in T : g[x] \in Nat
    OBVIOUS
  <1>5. Total(g, T) = Total(g, T \ {s}) + g[s]
    BY <1>1, <1>4, TotalSplit
  <1>6. QED
    BY <1>1, <1>2, <1>3, <1>4, <1>5

\* A step that leaves the counters and what they count.
LEMMA AccountFrame ==
    ASSUME AccountingExact, nfiles' = nfiles, dimension' = dimension, Counted' = Counted,
           \A p \in Counted : Lengths'[p] = Lengths[p]
    PROVE  AccountingExact'
  <1>1. Total(Lengths', Counted) = Total(Lengths, Counted)
    BY TotalSame
  <1>2. Total(Lengths, Counted)' = Total(Lengths', Counted')
    BY DEF Total
  <1>3. QED
    BY <1>1, <1>2 DEF AccountingExact

\* One more file is counted.
LEMMA AccountMore ==
    ASSUME TypeInv, ScanOK, AccountingExact,
           NEW p \in Paths \ Counted, Counted' = Counted \cup {p},
           \A q \in Counted : Lengths'[q] = Lengths[q],
           Lengths'[p] \in Nat, addFile(Lengths'[p])
    PROVE  AccountingExact'
  <1>1. IsFiniteSet(Counted) /\ \A q \in Counted : Lengths[q] \in Nat
    BY CountedType
  <1>2. /\ Cardinality(Counted') = Cardinality(Counted) + 1
        /\ Total(Lengths', Counted') = Total(Lengths, Counted) + Lengths'[p]
    BY <1>1, TotalOneMore
  <1>3. Total(Lengths, Counted)' = Total(Lengths', Counted')
    BY DEF Total
  <1>4. QED
    BY <1>2, <1>3 DEF AccountingExact, addFile

\* A file that was counted is gone.
LEMMA AccountLess ==
    ASSUME TypeInv, ScanOK, AccountingExact,
           NEW p \in Counted, Counted' = Counted \ {p},
           \A q \in Counted' : Lengths'[q] = Lengths[q], subtractFile(Lengths[p])
    PROVE  AccountingExact'
  <1>1. IsFiniteSet(Counted') /\ \A q \in Counted : Lengths[q] \in Nat
    BY CountedType, FS_RemoveElement
  <1>2. Counted = Counted' \cup {p} /\ p \notin Counted'
    OBVIOUS
  <1>3. \A q \in Counted' : Lengths'[q] \in Nat /\ Lengths[q] = Lengths'[q]
    BY <1>1
  <1>4. /\ Cardinality(Counted) = Cardinality(Counted') + 1
        /\ Total(Lengths, Counted) = Total(Lengths', Counted') + Lengths[p]
        /\ Cardinality(Counted') \in Nat /\ Total(Lengths', Counted') \in Nat
    BY <1>1, <1>2, <1>3, TotalOneMore
  <1>5. Total(Lengths, Counted)' = Total(Lengths', Counted')
    BY DEF Total
  <1>6. Lengths[p] \in Nat
    BY <1>1
  <1>7. QED
    BY <1>4, <1>5, <1>6 DEF AccountingExact, subtractFile

\* What a step of a worker does to the counters and to the file at its path: a file that
\* is counted is removed and counted off, a file that was being stored is complete and
\* counted, or nothing is counted and the file stays counted or uncounted as it was.
LEMMA CountStep ==
    ASSUME "unlink" \notin Faults, TypeInv, NewFileOK, OneNamePerFile,
           NEW c \in Conns, FileOK(c), Worker(c)
    PROVE  \/ /\ Path(c) \in Stored /\ subtractFile(Len(Content(Path(c))))
              /\ pc[c] # "storing" /\ entry'[Path(c)] = NoInode
           \/ /\ Path(c) \in Stored /\ addFile(Size[request[c].val])
              /\ pc[c] = "storing" /\ pc'[c] # "storing"
              /\ HoldsBlock(c) /\ request[c].val \in Values
           \/ /\ UNCHANGED <<nfiles, dimension>>
              /\ Path(c) \in Paths =>
                     \/ Kept(Path(c)) /\ pc[c] # "storing" /\ pc'[c] # "storing"
                     \/ /\ entry[Path(c)] = NoInode \/ pc[c] = "storing"
                        /\ \/ entry'[Path(c)] = NoInode
                           \/ pc'[c] = "storing" /\ Path(c)' = Path(c)
  <1> USE DEF TypeInv, TypeOK, FileStoreTypeOK, WorkerTypeOK
  <1>1. CASE StoreFinish(c)
    <2>1. HoldsBlock(c) /\ entry' = entry /\ Path(c) \in Paths /\ request[c].val \in Values
      BY <1>1, StoreFinishHolds
    <2>2. addFile(Size[request[c].val])
      BY <1>1 DEF StoreFinish
    <2>3. pc[c] = "storing" /\ pc'[c] # "storing"
      BY <1>1 DEF StoreFinish, Answer, Finish
    <2>4. Path(c) \in Stored
      BY <2>1 DEF HoldsBlock, Stored
    <2>5. QED
      BY <2>1, <2>2, <2>3, <2>4
  <1>2. CASE StoreAbort(c)
    BY <1>2 DEF StoreAbort, closeUnlink, statsVars
  <1>3. CASE StoreOpen(c) \/ StoreChunk(c)
    BY <1>3
    DEF StoreOpen, StoreChunk, Continue, NewFileOK, Path, statsVars, ioVars
  <1>4. CASE DeleteRemove(c) \/ Store(c)
    <2>1. Path(c) \in Paths
      BY <1>4, PathType DEF DeleteRemove, Store, Dispatch, WorkerOK
    <2>2. pc[c] # "storing" /\ pc'[c] # "storing"
      BY <1>4 DEF DeleteRemove, Store, Dispatch, Continue, Answer, Finish
    <2>3. removeFile(Path(c), 0) \/ removeFile(Path(c), -1)
      BY <1>4 DEF DeleteRemove, Store
    <2>4. QED
      BY <2>1, <2>2, <2>3 DEF removeFile, unlink, Stored, Kept, statsVars, fsVars
  <1>5. CASE Retrieve(c) \/ RetrieveChunkFails(c) \/ RetrieveFinish(c)
    <2>1. UNCHANGED fsVars \/ openRead(c, Path(c)) \/ close(c)
      BY <1>5 DEF Retrieve, RetrieveChunkFails, RetrieveFinish
    <2>2. pc[c] # "storing" /\ pc'[c] # "storing" /\ UNCHANGED <<nfiles, dimension>>
      BY <1>5
      DEF Retrieve, RetrieveChunkFails, RetrieveFinish, Dispatch, Answer,
          Finish, statsVars
    <2>3. QED
      BY <2>1, <2>2, CallsKeepOthers
  <1>6. CASE \/ LoopGuard(c) \/ SelectTimeout(c) \/ SelectFails(c) \/ RetrieveSpin(c)
             \/ ReadNoHeader(c) \/ \E r \in Requests : LeftoverRequest(c, r)
             \/ Register(c) \/ RegisterCheck(c) \/ RegisterAdd(c) \/ Leave(c) \/ Delete(c)
             \/ StoreOpenFails(c) \/ RetrieveFails(c) \/ RetrieveChunk(c)
             \/ CloseSocket(c) \/ forceRemoveClientOnline(c) \/ decrActiveThreads(c)
    <2>1. entry' = entry /\ inode' = inode /\ UNCHANGED <<nfiles, dimension>>
      BY <1>6
      DEF LoopGuard, SelectTimeout, SelectFails, Leftover, ReadNoHeader, LeftoverRequest,
          RetrieveSpin, Register, RegisterCheck, RegisterAdd, Leave, Delete, StoreOpenFails,
          RetrieveFails, RetrieveChunk, CloseSocket, forceRemoveClientOnline,
          decrActiveThreads, addClientOnline, removeClientOnline, vars, fsVars, statsVars
    <2>2. pc[c] # "storing" /\ pc'[c] # "storing"
      BY <1>6
      DEF LoopGuard, SelectTimeout, SelectFails, Leftover, ReadNoHeader, LeftoverRequest,
          RetrieveSpin, Register, RegisterCheck, RegisterAdd, Leave, Delete, StoreOpenFails,
          RetrieveFails, RetrieveChunk, CloseSocket, forceRemoveClientOnline,
          decrActiveThreads, Dispatch, Continue, Answer, Finish, vars, workerVars
    <2>3. QED
      BY <2>1, <2>2 DEF Kept
  <1>7. QED
    BY <1>1, <1>2, <1>3, <1>4, <1>5, <1>6 DEF Worker

\* A step of a worker counts what it does.
LEMMA AccountingExact_Worker ==
    ASSUME "unlink" \notin Faults, TypeInv, OneWorkerPerName, FilesInv, AccountInv,
           NEW c \in Conns, Worker(c)
    PROVE  AccountingExact'
  <1>0. PICK p : p = Path(c)
    OBVIOUS
  <1>1. /\ Counted = {q \in Stored : ~Storing(q)}
        /\ Counted' = {q \in Stored' : ~Storing(q)'}
    BY WorkerStep DEF Counted, AccountInv, ScanOK
  <1>2. \A q \in Stored : Lengths[q] = Len(Content(q)) /\ Lengths[q] \in Nat
    BY CountedType DEF AccountInv
  <1>3. \A q \in Paths : q \in Stored /\ Kept(q) => q \in Stored' /\ Lengths'[q] = Lengths[q]
    BY DEF Kept, Stored, Lengths, Content
  <1>4. ASSUME NEW q \in Paths \ {p}
        PROVE  /\ q \in Counted' <=> q \in Counted
               /\ q \in Counted => Lengths'[q] = Lengths[q]
    <2>1. Kept(q) /\ (Storing(q)' <=> Storing(q))
      BY <1>0, WorkerKeepsOthers, StoringElsewhere DEF FilesInv
    <2>2. QED
      BY <1>1, <1>3, <2>1 DEF Kept, Stored
  <1>5. Counted \subseteq Paths /\ Counted' \subseteq Paths
    BY <1>1 DEF Stored
  <1>6. CASE /\ p \in Stored /\ subtractFile(Len(Content(p)))
             /\ pc[c] # "storing" /\ entry'[p] = NoInode
    <2>1. p \in Counted /\ p \notin Counted'
      BY <1>0, <1>1, <1>6, StoringElsewhere DEF Stored
    <2>2. Counted' = Counted \ {p}
      BY <1>4, <1>5, <2>1
    <2>3. QED
      BY <1>2, <1>4, <1>5, <1>6, <2>1, <2>2, AccountLess DEF AccountInv
  <1>7. CASE /\ p \in Stored /\ addFile(Size[request[c].val])
             /\ pc[c] = "storing" /\ pc'[c] # "storing"
             /\ HoldsBlock(c) /\ request[c].val \in Values
    <2>1. p \in Paths /\ Storing(p) /\ ~Storing(p)'
      BY <1>0, <1>7, StoringElsewhere DEF Stored, Storing
    <2>2. p \notin Counted /\ p \in Counted'
      BY <1>0, <1>1, <1>7, <2>1 DEF HoldsBlock, Stored
    <2>3. Counted' = Counted \cup {p}
      BY <1>4, <1>5, <2>2
    <2>4. Lengths'[p] = Size[request[c].val] /\ Size[request[c].val] \in Nat
      <3>1. Size[request[c].val] \in Nat /\ p \in Stored'
        BY <1>1, <1>7, <2>2, SizeAssumption
      <3>2. Lengths'[p] = Len(Whole(request[c].val))
        BY <1>0, <1>7, <3>1 DEF HoldsBlock, Lengths, Content
      <3>3. QED
        BY <3>1, <3>2 DEF Whole
    <2>5. QED
      BY <1>4, <1>5, <1>7, <2>1, <2>2, <2>3, <2>4, AccountMore DEF AccountInv
  <1>8. CASE /\ UNCHANGED <<nfiles, dimension>>
             /\ p \in Paths =>
                    \/ Kept(p) /\ pc[c] # "storing" /\ pc'[c] # "storing"
                    \/ /\ entry[p] = NoInode \/ pc[c] = "storing"
                       /\ \/ entry'[p] = NoInode
                          \/ pc'[c] = "storing" /\ Path(c)' = p
    <2>1. CASE p \notin Paths
      <3>1. Counted' = Counted /\ \A q \in Counted : Lengths'[q] = Lengths[q]
        BY <1>4, <1>5, <2>1
      <3>2. QED
        BY <1>8, <3>1, AccountFrame DEF AccountInv
    <2>2. CASE p \in Paths /\ Kept(p) /\ pc[c] # "storing" /\ pc'[c] # "storing"
      <3>1. ~Storing(p) /\ ~Storing(p)'
        BY <1>0, <2>2, StoringElsewhere
      <3>2. (p \in Counted' <=> p \in Counted) /\ (p \in Counted => Lengths'[p] = Lengths[p])
        BY <1>1, <1>3, <2>2, <3>1 DEF Kept, Stored
      <3>3. Counted' = Counted /\ \A q \in Counted : Lengths'[q] = Lengths[q]
        BY <1>4, <1>5, <3>2
      <3>4. QED
        BY <1>8, <3>3, AccountFrame DEF AccountInv
    <2>3. CASE /\ p \in Paths
               /\ entry[p] = NoInode \/ pc[c] = "storing"
               /\ entry'[p] = NoInode \/ (pc'[c] = "storing" /\ Path(c)' = p)
      <3>1. p \notin Counted /\ p \notin Counted'
        BY <1>0, <1>1, <2>3 DEF Stored, Storing
      <3>2. Counted' = Counted /\ \A q \in Counted : Lengths'[q] = Lengths[q]
        BY <1>4, <1>5, <3>1
      <3>3. QED
        BY <1>8, <3>2, AccountFrame DEF AccountInv
    <2>4. QED
      BY <1>8, <2>1, <2>2, <2>3
  <1>9. QED
    BY <1>0, <1>6, <1>7, <1>8, CountStep DEF AccountInv, FilesInv

\* Outside the workers, files are counted while the directories are read, and what is
\* counted does not change when the server begins to listen or is run again.
LEMMA AccountingExact_Next ==
    ASSUME "unlink" \notin Faults, TypeInv, OneWorkerPerName, FilesInv, AccountInv,
           [Next]_vars
    PROVE  AccountingExact'
  <1> USE DEF AccountInv
  <1>1. ASSUME NEW c \in Conns, Worker(c)
        PROVE  AccountingExact'
    BY <1>1, AccountingExact_Worker
  <1>2. ASSUME NEW p \in Paths, ScanFile(p)
        PROVE  AccountingExact'
    <2>1. Lengths' = Lengths /\ Lengths[p] = Len(Content(p)) /\ Lengths[p] \in Nat
      BY <1>2, CountedType DEF ScanFile, Lengths, Stored, Content, fsVars
    <2>2. Counted = scanned /\ Counted' = scanned \cup {p} /\ p \notin scanned
      BY <1>2 DEF ScanFile, Counted
    <2>3. addFile(Lengths'[p])
      BY <1>2, <2>1 DEF ScanFile
    <2>4. QED
      BY <2>1, <2>2, <2>3, AccountMore
  <1>3. CASE Listen
    <2>1. Counted = scanned /\ scanned = Stored /\ main' = "guard"
      BY <1>3 DEF Listen, Counted, ScanOK
    <2>2. Stored' = Stored /\ Lengths' = Lengths
      BY <1>3 DEF Listen, Stored, Lengths, Content, fsVars
    <2>3. \A p \in Paths : ~Storing(p)'
      BY <1>3 DEF Listen, ScanOK, Storing, Live, workerVars
    <2>4. Counted' = Stored
      BY <2>1, <2>2, <2>3 DEF Counted, Stored
    <2>5. QED
      BY <1>3, <2>1, <2>2, <2>4, AccountFrame DEF Listen, statsVars
  <1>4. CASE Restart
    <2>1. Counted' = {} /\ nfiles' = 0 /\ dimension' = 0
      BY <1>4 DEF Restart, Counted
    <2>2. Total(Lengths', {}) = 0
      BY TotalNothing
    <2>3. QED
      BY <2>1, <2>2, FS_EmptySet DEF AccountingExact, Total
  <1>5. ASSUME NEW c \in Conns,
               createWorkerFails(c) \/ Client(c) \/ \E u \in Users : createWorker(c, u)
        PROVE  AccountingExact'
    <2>1. UNCHANGED <<fsVars, statsVars, userName>> /\ (main' = "scanning" <=> main = "scanning")
      BY <1>5
      DEF createWorkerFails, createWorker, Client, ClientRequest, ClientClose, workerVars,
          mainVars
    <2>2. /\ main = "scanning" => scanned' = scanned
          /\ \A d \in Conns : \/ pc'[d] = pc[d] /\ request'[d] = request[d]
                              \/ pc'[d] # "storing" /\ pc[d] # "storing"
      BY <1>5
      DEF createWorkerFails, createWorker, Client, ClientRequest, ClientClose, workerVars,
          mainVars, ioVars, Looping, TypeInv, TypeOK, WorkerTypeOK, IOTypeOK
    <2>3. /\ Stored' = Stored /\ Lengths' = Lengths
          /\ \A p \in Paths : Storing(p)' <=> Storing(p)
      BY <2>1, <2>2 DEF Stored, Lengths, Content, Storing, Path, fsVars
    <2>4. Counted' = Counted
      BY <2>1, <2>2, <2>3 DEF Counted, Stored
    <2>5. QED
      BY <2>1, <2>3, <2>4, AccountFrame DEF statsVars
  <1>6. CASE \/ MainGuard \/ AcceptTimeout \/ sighandler \/ waitActiveThreads
             \/ UNCHANGED vars \/ \E u \in Users : ScanUser(u)
    <2>1. /\ UNCHANGED <<fsVars, ioVars, workerVars, scanned, nfiles, dimension>>
          /\ main' = "scanning" <=> main = "scanning"
      BY <1>6
      DEF MainGuard, AcceptTimeout, sighandler, waitActiveThreads, ScanUser, countUser,
          vars, statsVars, mainVars
    <2>2. /\ Stored' = Stored /\ Lengths' = Lengths
          /\ \A p \in Paths : Storing(p)' <=> Storing(p)
      BY <2>1 DEF Stored, Lengths, Content, Storing, Path, fsVars, ioVars, workerVars
    <2>3. Counted' = Counted
      BY <2>1, <2>2 DEF Counted, Stored
    <2>4. QED
      BY <2>1, <2>2, <2>3, AccountFrame
  <1>7. QED
    BY <1>1, <1>2, <1>3, <1>4, <1>5, <1>6 DEF Next, Main, Scan, Terminated

\* AccountInv holds initially, with no file counted, and is inductive.
LEMMA AccountInvariant ==
    ASSUME Discipline = "exclusive", NoRegisterSpelled, {"write", "unlink"} \cap Faults = {}
    PROVE  Spec => []AccountInv
  <1>1. Init => AccountInv
    <2> SUFFICES ASSUME Init PROVE AccountInv
      OBVIOUS
    <2>1. ScanOK /\ NewFileOK
      BY DEF Init, ScanOK, NewFileOK, Live
    <2>2. Counted = {} /\ nfiles = 0 /\ dimension = 0
      BY DEF Init, StatsInit, Counted
    <2>3. Total(Lengths, {}) = 0
      BY TotalNothing
    <2>4. QED
      BY <2>1, <2>2, <2>3, FS_EmptySet DEF AccountInv, AccountingExact
  <1>2. TypeInv /\ OneWorkerPerName /\ FilesInv /\ AccountInv /\ [Next]_vars => AccountInv'
    BY ScanOK_Next, NewFileOK_Next, AccountingExact_Next DEF AccountInv
  <1>3. Spec => []FilesInv
    BY FilesInvariant
  <1>4. QED
    BY <1>1, <1>2, <1>3, TypeInvariant, NamesInvariant, PTL DEF Spec

\* The statistics count the objects there are and the units they take, through
\* overwrites, aborted stores, a kill at any point and the scan of the next run: when
\* each name has one client at a time, and write and unlink do what they are told.
THEOREM StatisticsAreExact ==
    ASSUME Discipline = "exclusive", NoRegisterSpelled, {"write", "unlink"} \cap Faults = {}
    PROVE  Spec => []AccountingExact
  <1>1. AccountInv => AccountingExact
    BY DEF AccountInv
  <1>2. QED
    BY <1>1, AccountInvariant, PTL

\* When main exits the last worker has taken its name off the list and its file into
\* the count.
THEOREM AtRestAtExit ==
    ASSUME Discipline = "exclusive", NoRegisterSpelled, {"write", "unlink"} \cap Faults = {}
    PROVE  Spec => []QuiescentAtExit
  <1>1. ASSUME TypeInv, WorkersCounted, RegistersOnce, NoGhostOnline, CountersMatchLists,
               AccountingExact, main = "exited"
        PROVE  nonline = 0 /\ nfiles = Cardinality(Stored)
    <2>1. \A c \in Conns : pc[c] \in {"none", "exited"}
      BY <1>1 DEF WorkersCounted, Live
    <2>2. \A u \in Users : onlineclients[u] = 0
      <3>1. ASSUME NEW u \in Users PROVE onlineclients[u] = 0
        <4>1. Sessions(u) = {}
          BY <2>1 DEF Sessions, Live
        <4>2. onlineclients[u] <= Cardinality(Sessions(u))
          <5>1. u \in Users \ renamed
            BY <1>1 DEF RegistersOnce
          <5>2. QED
            BY <1>1, <5>1, Zenon DEF NoGhostOnline
        <4>3. QED
          BY <1>1, <4>1, <4>2, FS_EmptySet DEF TypeInv, TypeOK, StatsTypeOK
      <3>2. QED
        BY <3>1
    <2>3. nonline = 0
      BY <1>1, <2>2, TotalNothing DEF CountersMatchLists
    <2>4. Counted = Stored
      BY <1>1, <2>1 DEF Counted, Storing
    <2>5. QED
      BY <1>1, <2>3, <2>4 DEF AccountingExact
  <1>2. TypeInv /\ WorkersCounted /\ RegistersOnce /\ NoGhostOnline /\ CountersMatchLists
            /\ AccountingExact => QuiescentAtExit
    BY <1>1 DEF QuiescentAtExit
  <1>3. QED
    BY <1>2, TypeInvariant, WorkersAreCounted, RegistersOnceInvariant, NamesAreFreed,
       CountersAgreeWithLists, StatisticsAreExact, PTL

-----------------------------------------------------------------------------
(* The refinement.                                                         *)

\* What the steps below rely on.
RefInv ==
    /\ TypeInv /\ OneWorkerPerName /\ RegistersOnce /\ NoGhostOnline
    /\ ServedIsOnline /\ SocketsOK /\ FilesInv

-----------------------------------------------------------------------------
(* The object a file holds.                                                *)

\* A block that is not empty is found again in the file that holds all of it.
LEMMA ValueOfWhole ==
    ASSUME \A v \in Values : Size[v] # 0, NEW v \in Values
    PROVE  ValueOf(Whole(v)) = v
  <1>1. ASSUME NEW w \in Values, Whole(v) = Whole(w)
        PROVE  w = v
    <2>1. 1 \in 1 .. Size[v] /\ 1 \in 1 .. Size[w]
      BY SizeAssumption
    <2>2. Whole(v)[1] = v /\ Whole(w)[1] = w
      BY <2>1 DEF Whole
    <2>3. QED
      BY <1>1, <2>2
  <1>2. QED
    BY <1>1 DEF ValueOf

\* The part of a block that was written before a crash is the block or damaged: it is
\* not taken for another block.
LEMMA ValueOfPart ==
    ASSUME \A v \in Values : Size[v] # 0, NEW v \in Values, NEW k \in Nat
    PROVE  ValueOf([n \in 1 .. k |-> v]) \in {v, Damaged}
  <1> DEFINE part == [n \in 1 .. k |-> v]
  <1>1. ASSUME NEW w \in Values, part = Whole(w)
        PROVE  w = v
    <2>1. 1 \in 1 .. Size[w] /\ Whole(w)[1] = w
      BY SizeAssumption DEF Whole
    <2>2. DOMAIN part = 1 .. k /\ DOMAIN Whole(w) = 1 .. Size[w]
      BY DEF Whole
    <2>3. part[1] = v
      BY <1>1, <2>1, <2>2
    <2>4. QED
      BY <1>1, <2>1, <2>3
  <1> HIDE DEF part
  <1>2. ValueOf(part) \in {v, Damaged}
    BY <1>1 DEF ValueOf
  <1>3. QED
    BY <1>2 DEF part

\* A file nobody is storing holds an object, damaged or not.
LEMMA ObjectThere ==
    ASSUME NEW p \in Stored, ~Storing(p)
    PROVE  ObjectAt(p) # NoValue
  BY NoParameterAssumption, DamagedAssumption DEF ObjectAt, ValueOf

-----------------------------------------------------------------------------
(* What a step of a worker leaves of the objects and answers of others.    *)

\* A path that is kept and is stored by the same workers holds what it held.
LEMMA ObjectFrame ==
    ASSUME NEW p \in Paths, Kept(p), Storing(p)' <=> Storing(p)
    PROVE  ObjectAt(p)' = ObjectAt(p)
  <1>1. p \in Stored' <=> p \in Stored
    BY DEF Kept, Stored
  <1>2. p \in Stored => Content(p)' = Content(p)
    BY DEF Kept, Stored, Content
  <1>3. p \in Stored => ValueOf(Content(p))' = ValueOf(Content(p))
    BY <1>2 DEF ValueOf
  <1>4. QED
    BY <1>1, <1>3 DEF ObjectAt

\* A worker changes the object at the path of its request, and no other.
LEMMA ObjectsOfOthers ==
    ASSUME RefInv, NEW c \in Conns, Worker(c), NEW p \in Paths, p # Path(c)
    PROVE  ObjectAt(p)' = ObjectAt(p)
  <1>1. Kept(p)
    BY WorkerKeepsOthers DEF RefInv, FilesInv
  <1>2. Storing(p)' <=> Storing(p)
    BY StoringElsewhere DEF RefInv
  <1>3. QED
    BY <1>1, <1>2, ObjectFrame

LEMMA ObjectsChange ==
    ASSUME RefInv, NEW c \in Conns, Worker(c), NEW p \in Paths, p = Path(c),
           NEW x, ObjectAt(p)' = x
    PROVE  absObjects' = [absObjects EXCEPT ![p] = x]
  <1>1. \A q \in Paths \ {p} : ObjectAt(q)' = ObjectAt(q)
    BY ObjectsOfOthers
  <1>2. QED
    BY <1>1 DEF absObjects

\* The steps of a worker but those of STORE and DELETE change no object.
LEMMA ObjectsKept ==
    ASSUME RefInv, NEW c \in Conns, Worker(c),
           ~(\/ Store(c) \/ StoreOpen(c) \/ StoreAbort(c) \/ StoreFinish(c)
             \/ DeleteRemove(c))
    PROVE  absObjects' = absObjects
  <1> USE DEF RefInv, TypeInv, TypeOK, FileStoreTypeOK, WorkerTypeOK
  <1>1. PICK p : p = Path(c)
    OBVIOUS
  <1>2. ASSUME p \in Paths
        PROVE  ObjectAt(p)' = ObjectAt(p)
    <2>1. CASE StoreChunk(c)
      <3>1. pc[c] = "storing" /\ pc'[c] = "storing" /\ Path(c)' = p
        BY <1>1, <2>1 DEF StoreChunk, Path, ioVars
      <3>2. Storing(p) /\ Storing(p)'
        BY <1>1, <3>1 DEF Storing
      <3>3. QED
        BY <3>2 DEF ObjectAt
    <2>2. CASE Retrieve(c) \/ RetrieveChunkFails(c) \/ RetrieveFinish(c)
      <3>1. UNCHANGED fsVars \/ openRead(c, Path(c)) \/ close(c)
        BY <2>2 DEF Retrieve, RetrieveChunkFails, RetrieveFinish
      <3>2. pc[c] # "storing" /\ pc'[c] # "storing"
        BY <2>2
        DEF Retrieve, RetrieveChunkFails, RetrieveFinish, Dispatch, Answer,
            Finish
      <3>3. Kept(p)
        BY <1>1, <1>2, <3>1, CallsKeepOthers DEF FilesInv
      <3>4. QED
        BY <1>1, <1>2, <3>2, <3>3, StoringElsewhere, ObjectFrame
    <2>3. CASE \/ LoopGuard(c) \/ SelectTimeout(c) \/ SelectFails(c) \/ RetrieveSpin(c)
               \/ ReadNoHeader(c) \/ \E r \in Requests : LeftoverRequest(c, r)
               \/ Register(c) \/ RegisterCheck(c) \/ RegisterAdd(c) \/ Leave(c)
               \/ Delete(c) \/ StoreOpenFails(c) \/ RetrieveFails(c) \/ RetrieveChunk(c)
               \/ CloseSocket(c) \/ forceRemoveClientOnline(c) \/ decrActiveThreads(c)
      <3>1. entry' = entry /\ inode' = inode
        BY <2>3
        DEF LoopGuard, SelectTimeout, SelectFails, Leftover, ReadNoHeader, LeftoverRequest,
            RetrieveSpin, Register, RegisterCheck, RegisterAdd, Leave, Delete,
            StoreOpenFails, RetrieveFails, RetrieveChunk, CloseSocket,
            forceRemoveClientOnline, decrActiveThreads, vars, fsVars
      <3>2. pc[c] # "storing" /\ pc'[c] # "storing"
        BY <2>3
        DEF LoopGuard, SelectTimeout, SelectFails, Leftover, ReadNoHeader, LeftoverRequest,
            RetrieveSpin, Register, RegisterCheck, RegisterAdd, Leave, Delete,
            StoreOpenFails, RetrieveFails, RetrieveChunk, CloseSocket,
            forceRemoveClientOnline, decrActiveThreads, Dispatch, Continue, Answer, Finish,
            vars, workerVars
      <3>3. QED
        BY <1>1, <1>2, <3>1, <3>2, StoringElsewhere, ObjectFrame DEF Kept
    <2>4. QED
      BY <2>1, <2>2, <2>3 DEF Worker
  <1>3. \A q \in Paths : ObjectAt(q)' = ObjectAt(q)
    BY <1>1, <1>2, ObjectsOfOthers
  <1>4. QED
    BY <1>3 DEF absObjects

\* A request of this connection has failed, and its worker has not forgotten it.
Failing(c) == worker_error[c] \notin {"NO_SERVERW_ERROR", "COMMUNICATION_ERROR"}

\* A worker remembers its own errors, and gets out of step with its own client.
LEMMA ErrorsChange ==
    ASSUME RefInv, NEW c \in Conns, Worker(c)
    PROVE  /\ Failing(c)' => absRefused' = absRefused \cup {c}
           /\ ~Failing(c)' => absRefused' = absRefused \ {c}
           /\ c \in absRefused <=> Failing(c)
           /\ astray'[c] => absAstray' = absAstray \cup {c}
           /\ astray'[c] = astray[c] => absAstray' = absAstray
           /\ c \in absAstray <=> astray[c]
  <1>1. \A d \in Conns \ {c} : worker_error'[d] = worker_error[d] /\ astray'[d] = astray[d]
    BY WorkerStep, WorkerLocal DEF RefInv
  <1>2. QED
    BY <1>1 DEF absRefused, absAstray, Failing

\* A worker answers on its own connection.
LEMMA AnswersChange ==
    ASSUME RefInv, NEW c \in Conns, Worker(c)
    PROVE  absAnswer' = [absAnswer EXCEPT ![c] = AnswerTo(c)']
  <1>1. ASSUME NEW d \in Conns \ {c}
        PROVE  AnswerTo(d)' = AnswerTo(d)
    <2>1. open'[d] = open[d] /\ pc'[d] = pc[d] /\ reply'[d] = reply[d] /\ sent'[d] = sent[d]
      BY WorkerStep, WorkerLocal DEF RefInv
    <2>2. ValueOf(sent[d])' = ValueOf(sent[d])
      BY <2>1 DEF ValueOf
    <2>3. QED
      BY <2>1, <2>2 DEF AnswerTo
  <1>2. QED
    BY <1>1 DEF absAnswer

\* A step that a client does not see, but for an error that is forgotten.
LEMMA Unseen ==
    ASSUME RefInv, NEW c \in Conns, Worker(c), absObjects' = absObjects,
           onlineclients' = onlineclients, open' = open, request' = request,
           astray' = astray, AnswerTo(c)' = AnswerTo(c),
           worker_error'[c] \in {worker_error[c], "NO_SERVERW_ERROR"}
    PROVE  Abstract!Forget(c) \/ UNCHANGED Abstract!vars
  <1>1. absAnswer' = absAnswer
    BY AnswersChange DEF absAnswer
  <1>2. absOnline' = absOnline /\ absConnected' = absConnected
    BY DEF absOnline, absConnected, checkIfOnline, isInList
  <1>3. peer' = peer
    BY WorkerStep DEF RefInv
  <1>4. absAstray' = absAstray /\ absRefused' \in {absRefused, absRefused \ {c}}
    <2>1. ~Failing(c)' \/ (Failing(c)' /\ Failing(c))
      BY DEF Failing
    <2>2. QED
      BY <2>1, ErrorsChange DEF absAstray
  <1>5. QED
    BY <1>1, <1>2, <1>3, <1>4 DEF Abstract!vars, Abstract!Forget

\* What a client that gets r takes for the answer.
LEMMA FirstResponse ==
    ASSUME NEW c, NEW r \in Responses
    PROVE  /\ Append(Before(c), r) # <<>>
           /\ Head(Append(Before(c), r)) = IF astray[c] THEN "STRAY" ELSE r
  <1>1. /\ Append(<<>>, r) # <<>> /\ Head(Append(<<>>, r)) = r
        /\ Append(<<"STRAY">>, r) # <<>> /\ Head(Append(<<"STRAY">>, r)) = "STRAY"
    OBVIOUS
  <1>2. QED
    BY <1>1 DEF Before

\* The response that ends a request is the answer of the abstract store, and a client
\* that is gone or out of step gets none.
LEMMA Answering ==
    ASSUME RefInv, NEW c \in Conns, Worker(c), pc[c] # "retrieving", request[c] # NoRequest,
           NEW r \in Responses \ {"DATA", "STRAY"}, NEW e,
           NEW next \in {"guard", "closing"}, Answer(c, e, r, next), open' = open
    PROVE  Abstract!Answer(c, IF r = "OK" THEN "OK" ELSE "KO")
  <1> USE DEF RefInv, TypeInv, TypeOK, IOTypeOK, WorkerTypeOK
  <1>1. /\ reply[c] = Before(c) /\ reply \in [Conns -> Seq(Responses)]
        /\ pc'[c] \in {"guard", "closing"}
        /\ request' = [request EXCEPT ![c] = NoRequest]
    BY DEF SocketsOK, SocketOK, WorkerOK, Answer, Finish
  <1>2. peer' = peer /\ absConnected' = absConnected
    BY WorkerStep DEF absConnected
  <1>3. AnswerTo(c)' = IF c \in absConnected \ absAstray
                       THEN IF r = "OK" THEN "OK" ELSE "KO"
                       ELSE NoAnswer
    <2>1. CASE open[c]
      <3>1. reply'[c] = Append(Before(c), r)
        BY <1>1, <2>1 DEF Answer
      <3>2. reply'[c] # <<>> /\ Head(reply'[c]) = IF astray[c] THEN "STRAY" ELSE r
        BY <3>1, FirstResponse
      <3>3. QED
        BY <1>1, <2>1, <3>2 DEF AnswerTo, absConnected, absAstray
    <2>2. CASE ~open[c]
      BY <2>2 DEF AnswerTo, absConnected
    <2>3. QED
      BY <2>1, <2>2
  <1>4. QED
    BY <1>1, <1>2, <1>3, AnswersChange DEF Abstract!Answer

\* A request that is served leaves the errors of earlier ones as they are.
LEMMA ServingRequest ==
    ASSUME RefInv, NEW c \in Conns, Worker(c), pc[c] # "retrieving", request[c] # NoRequest,
           NEW r \in Responses \ {"DATA", "STRAY"},
           NEW next \in {"guard", "closing"}, Answer(c, worker_error[c], r, next),
           open' = open
    PROVE  Abstract!Serve(c, IF r = "OK" THEN "OK" ELSE "KO")
  <1>1. Abstract!Answer(c, IF r = "OK" THEN "OK" ELSE "KO")
    BY Answering
  <1>2. worker_error'[c] = IF open[c] THEN worker_error[c] ELSE "COMMUNICATION_ERROR"
    BY DEF Answer, Finish, RefInv, TypeInv, TypeOK, WorkerTypeOK
  <1>3. absRefused' = IF c \in absConnected THEN absRefused ELSE absRefused \ {c}
    <2>1. CASE open[c]
      <3>1. Failing(c)' <=> Failing(c)
        BY <1>2, <2>1 DEF Failing
      <3>2. absRefused' = absRefused
        BY <3>1, ErrorsChange
      <3>3. QED
        BY <2>1, <3>2 DEF absConnected
    <2>2. CASE ~open[c]
      <3>1. ~Failing(c)'
        BY <1>2, <2>2 DEF Failing
      <3>2. QED
        BY <2>2, <3>1, ErrorsChange DEF absConnected
    <2>3. QED
      BY <2>1, <2>2
  <1>4. QED
    BY <1>1, <1>3 DEF Abstract!Serve

\* A handler that goes on is not seen.
LEMMA GoingOn ==
    ASSUME RefInv, NEW c \in Conns, Worker(c), request[c] # NoRequest,
           pc[c] # "retrieving", NEW e \in {worker_error[c], "NO_SERVERW_ERROR"},
           NEW next, next # "retrieving", Continue(c, e, next),
           open' = open, astray' = astray, onlineclients' = onlineclients,
           absObjects' = absObjects
    PROVE  Abstract!Forget(c) \/ UNCHANGED Abstract!vars
  <1>1. /\ request' = request /\ reply' = reply /\ worker_error'[c] = e
        /\ pc'[c] # "retrieving" /\ reply[c] = Before(c)
    BY DEF Continue, ioVars, RefInv, SocketsOK, SocketOK, TypeInv, TypeOK, WorkerTypeOK
  <1>2. AnswerTo(c)' = AnswerTo(c)
    BY <1>1 DEF AnswerTo, Before
  <1>3. QED
    BY <1>1, <1>2, Unseen

\* A KO is a refusal; that of a STORE may leave the two ends out of step.
LEMMA Refusing ==
    ASSUME RefInv, NEW c \in Conns, Worker(c), pc[c] # "retrieving",
           request[c].cmd \in {"REGISTER", "STORE", "DELETE", "RETRIEVE"},
           NEW r \in {"KO", "KO_FATAL", "KO_IN_USE", "KO_NOT_FOUND"},
           NEW e \in Errors \ {"NO_SERVERW_ERROR", "COMMUNICATION_ERROR"},
           NEW next \in {"guard", "closing"}, Answer(c, e, r, next), open' = open,
           astray' = astray \/ (request[c].cmd = "STORE" /\ astray'[c]),
           onlineclients' = onlineclients, absObjects' = absObjects
    PROVE  Abstract!Refused(c)
  <1>1. request[c] # NoRequest
    BY RequestMembers
  <1>2. Abstract!Answer(c, IF r = "OK" THEN "OK" ELSE "KO")
    BY <1>1, Answering DEF Responses
  <1>3. Abstract!Answer(c, "KO")
    BY <1>2
  <1>4. absOnline' = absOnline
    BY DEF absOnline, checkIfOnline, isInList
  <1>5. absRefused' = IF c \in absConnected THEN absRefused \cup {c} ELSE absRefused \ {c}
    <2>1. worker_error'[c] = IF open[c] THEN e ELSE "COMMUNICATION_ERROR"
      BY DEF Answer, Finish, RefInv, TypeInv, TypeOK, WorkerTypeOK
    <2>2. Failing(c)' <=> open[c]
      BY <2>1 DEF Failing
    <2>3. QED
      BY <2>2, ErrorsChange DEF absConnected
  <1>6. \/ absAstray' = absAstray
        \/ request[c].cmd = "STORE" /\ absAstray' = absAstray \cup {c}
    BY ErrorsChange DEF absAstray
  <1>7. QED
    BY <1>3, <1>4, <1>5, <1>6 DEF Abstract!Refused

\* A request nobody waits for any more ends without an answer.
LEMMA Dropping ==
    ASSUME RefInv, NEW c \in Conns, Worker(c), ~open[c], open' = open, astray' = astray,
           request' = [request EXCEPT ![c] = NoRequest],
           worker_error'[c] \in {worker_error[c], "COMMUNICATION_ERROR"},
           onlineclients' = onlineclients, absObjects' = absObjects
    PROVE  Abstract!Dropped(c)
  <1>1. AnswerTo(c)' = AnswerTo(c)
    BY DEF AnswerTo
  <1>2. absAnswer' = absAnswer
    BY <1>1, AnswersChange DEF absAnswer
  <1>3. absOnline' = absOnline /\ absConnected' = absConnected /\ c \notin absConnected
    BY DEF absOnline, absConnected, checkIfOnline, isInList
  <1>4. peer' = peer
    BY WorkerStep DEF RefInv
  <1>5. absAstray' = absAstray /\ absRefused' \in {absRefused, absRefused \ {c}}
    <2>1. ~Failing(c)' \/ (Failing(c)' /\ Failing(c))
      BY DEF Failing
    <2>2. QED
      BY <2>1, ErrorsChange DEF absAstray
  <1>6. QED
    BY <1>2, <1>3, <1>4, <1>5 DEF Abstract!Dropped

-----------------------------------------------------------------------------
(* The steps of a worker.                                                  *)

\* LoopGuard, SelectTimeout, SelectFails, ReadNoHeader and RetrieveSpin are not seen, and
\* a thread that ends forgets its errors.
LEMMA Maps_Quiet ==
    ASSUME RefInv, NEW c \in Conns, Worker(c),
           \/ LoopGuard(c) \/ SelectTimeout(c) \/ SelectFails(c) \/ RetrieveSpin(c)
           \/ ReadNoHeader(c) \/ decrActiveThreads(c)
    PROVE  Abstract!Forget(c) \/ UNCHANGED Abstract!vars
  <1> USE DEF RefInv, TypeInv, TypeOK, WorkerTypeOK
  <1>1. /\ open' = open /\ request' = request /\ onlineclients' = onlineclients
        /\ astray' = astray /\ pc[c] # "storing" /\ pc[c] # "store_open"
        /\ worker_error'[c] \in {worker_error[c], "NO_SERVERW_ERROR"}
    BY DEF LoopGuard, SelectTimeout, SelectFails, Leftover, ReadNoHeader, RetrieveSpin,
           decrActiveThreads, vars, statsVars, connVars, ioVars, workerVars
  <1>2. absObjects' = absObjects
    <2>1. ~(\/ Store(c) \/ StoreOpen(c) \/ StoreAbort(c) \/ StoreFinish(c)
            \/ DeleteRemove(c))
      BY <1>1
      DEF LoopGuard, SelectTimeout, SelectFails, Leftover, ReadNoHeader, RetrieveSpin,
          decrActiveThreads, Store, StoreOpen, StoreAbort, StoreFinish, DeleteRemove,
          Dispatch, Continue, Answer, Finish, vars, ioVars, workerVars
    <2>2. QED
      BY <2>1, ObjectsKept
  <1>3. AnswerTo(c)' = AnswerTo(c)
    <2>1. CASE decrActiveThreads(c)
      <3>1. ~open[c]
        BY <2>1 DEF decrActiveThreads, SocketsOK, SocketOK
      <3>2. QED
        BY <1>1, <3>1 DEF AnswerTo
    <2>2. CASE \/ LoopGuard(c) \/ SelectTimeout(c) \/ SelectFails(c) \/ RetrieveSpin(c)
               \/ ReadNoHeader(c)
      <3>1. /\ UNCHANGED <<reply, sent>>
            /\ pc'[c] = pc[c] \/ (pc[c] # "retrieving" /\ pc'[c] # "retrieving")
        BY <2>2
        DEF LoopGuard, SelectTimeout, SelectFails, Leftover, ReadNoHeader, RetrieveSpin,
            vars, ioVars, workerVars
      <3>2. QED
        BY <1>1, <3>1 DEF AnswerTo, ValueOf
    <2>3. QED
      BY <2>1, <2>2
  <1>4. QED
    BY <1>1, <1>2, <1>3, Unseen

\* The user of a worker that waits for a request is online.
LEMMA AskerIsOnline ==
    ASSUME RefInv, NEW c \in Conns, pc[c] \in Looping, userName[c] # NoUser
    PROVE  peer[c] \in absOnline
  <1>1. userName[c] = peer[c] /\ Live(c) /\ checkIfOnline(userName[c])
    BY DEF RefInv, OneWorkerPerName, ServedIsOnline, Serving
  <1>2. peer[c] \in Users
    BY <1>1 DEF RefInv, TypeInv, WorkerOK
  <1>3. QED
    BY <1>1, <1>2 DEF absOnline

\* What is left of a block is taken for a request of its client.
LEMMA Maps_Leftover ==
    ASSUME NoRegisterSpelled, RefInv, NEW c \in Conns, Worker(c), NEW r \in Requests,
           LeftoverRequest(c, r)
    PROVE  Abstract!Ask(c, r)
  <1> USE DEF RefInv, TypeInv, TypeOK, IOTypeOK
  <1>1. /\ pc[c] = "select" /\ request[c] = NoRequest /\ astray[c] /\ r.cmd # "REGISTER"
        /\ request' = [request EXCEPT ![c] = r] /\ reply'[c] = <<"STRAY">>
        /\ UNCHANGED <<open, peer, pc, astray, worker_error, onlineclients>>
    BY DEF LeftoverRequest, Leftover, NoRegisterSpelled, workerVars, statsVars
  <1>2. absObjects' = absObjects
    <2>1. ~(\/ Store(c) \/ StoreOpen(c) \/ StoreAbort(c) \/ StoreFinish(c)
            \/ DeleteRemove(c))
      BY <1>1, RequestMembers
      DEF Store, StoreOpen, StoreAbort, StoreFinish, DeleteRemove, Dispatch
    <2>2. QED
      BY <2>1, ObjectsKept
  <1>3. absAnswer' = [absAnswer EXCEPT ![c] = NoAnswer]
    <2>1. AnswerTo(c)' = NoAnswer
      <3>1. <<"STRAY">> # <<>> /\ Head(<<"STRAY">>) = "STRAY"
        OBVIOUS
      <3>2. QED
        BY <1>1, <3>1 DEF AnswerTo
    <2>2. QED
      BY <2>1, AnswersChange
  <1>4. /\ absOnline' = absOnline /\ absConnected' = absConnected
        /\ absRefused' = absRefused /\ absAstray' = absAstray /\ c \in absAstray
    BY <1>1 DEF absOnline, absConnected, absRefused, absAstray, checkIfOnline, isInList
  <1>5. peer[c] \in absOnline
    <2>1. userName[c] # NoUser /\ pc[c] \in Looping
      BY <1>1, UsersAssumption DEF WorkerOK, Live, Looping
    <2>2. QED
      BY <2>1, AskerIsOnline
  <1>6. QED
    BY <1>1, <1>2, <1>3, <1>4, <1>5 DEF Abstract!Ask

\* The first two steps of REGISTER refuse the client, or are not seen.
LEMMA Maps_Register ==
    ASSUME RefInv, NEW c \in Conns, Worker(c), Register(c) \/ RegisterCheck(c)
    PROVE  Abstract!Refused(c) \/ Abstract!Forget(c) \/ UNCHANGED Abstract!vars
  <1>1. /\ open' = open /\ astray' = astray /\ onlineclients' = onlineclients
        /\ pc[c] \in {"select", "register_check"} /\ request[c].cmd = "REGISTER"
        /\ request[c] # NoRequest
    BY RequestMembers
    DEF Register, RegisterCheck, Dispatch, statsVars, connVars, RefInv, TypeInv, WorkerOK
  <1>2. absObjects' = absObjects
    BY <1>1, ObjectsKept
    DEF Store, StoreOpen, StoreAbort, StoreFinish, DeleteRemove, Dispatch
  <1>3. \/ \E e \in {worker_error[c], "NO_SERVERW_ERROR"} :
              Continue(c, e, "register_check") \/ Continue(c, e, "register_add")
        \/ \E e \in Errors \ {"NO_SERVERW_ERROR", "COMMUNICATION_ERROR"} :
              \E r \in {"KO", "KO_FATAL", "KO_IN_USE"} : Answer(c, e, r, "closing")
    BY DEF Register, RegisterCheck, Errors
  <1>4. QED
    BY <1>1, <1>2, <1>3, GoingOn, Refusing

\* The OK of a REGISTER puts a name online that was not.
LEMMA Maps_RegisterAdd ==
    ASSUME RefInv, NEW c \in Conns, Worker(c), RegisterAdd(c)
    PROVE  Abstract!Registered(c)
  <1> USE DEF RefInv, TypeInv, TypeOK, StatsTypeOK
  <1>1. /\ open' = open /\ pc[c] = "register_add" /\ request[c].cmd = "REGISTER"
        /\ astray' = astray /\ request[c] # NoRequest /\ Live(c) /\ userName[c] = NoUser
        /\ request[c].obj \in Users /\ request[c].obj = peer[c]
    BY RequestMembers, RegisterTypes DEF RegisterAdd, RegistersOnce
  <1>2. PICK u \in Users : u = peer[c] /\ u = request[c].obj
    BY <1>1
  <1>3. absObjects' = absObjects
    BY <1>1, ObjectsKept
    DEF Store, StoreOpen, StoreAbort, StoreFinish, DeleteRemove, Dispatch
  <1>4. Abstract!Serve(c, "OK")
    BY <1>1, ServingRequest DEF RegisterAdd, Responses
  <1>5. onlineclients[u] = 0 /\ absAstray' = absAstray
    BY <1>1, <1>2, NotOnlineYet DEF absAstray
  <1>6. onlineclients' = [onlineclients EXCEPT ![u] = @ + 1]
    BY <1>2 DEF RegisterAdd, addClientOnline, insertList
  <1>7. u \notin absOnline /\ absOnline' = absOnline \cup {u}
    BY <1>5, <1>6 DEF absOnline, checkIfOnline, isInList
  <1>8. QED
    BY <1>1, <1>2, <1>3, <1>4, <1>5, <1>7 DEF Abstract!Registered

\* The OK of a LEAVE takes the name off, which its session had put on.
LEMMA Maps_Leave ==
    ASSUME RefInv, NEW c \in Conns, Worker(c), Leave(c)
    PROVE  Abstract!Left(c)
  <1> USE DEF RefInv, TypeInv, TypeOK, StatsTypeOK
  <1>1. /\ open' = open /\ pc[c] = "select" /\ request[c].cmd = "LEAVE"
        /\ astray' = astray /\ request[c] # NoRequest /\ userName[c] \in Users
    BY RequestMembers DEF Leave, Dispatch, connVars, WorkerOK
  <1>2. PICK u \in Users : u = userName[c] /\ u = peer[c]
    BY <1>1, UsersAssumption DEF OneWorkerPerName
  <1>3. absObjects' = absObjects
    BY <1>1, ObjectsKept
    DEF Store, StoreOpen, StoreAbort, StoreFinish, DeleteRemove, Dispatch
  <1>4. checkIfOnline(u) /\ onlineclients[u] = 1
    <2>1. checkIfOnline(u)
      BY <1>1, <1>2, UsersAssumption DEF ServedIsOnline, Serving, Looping
    <2>2. QED
      BY <2>1, OnlineOnce DEF checkIfOnline, isInList
  <1>5. Abstract!Serve(c, "OK") /\ absAstray' = absAstray
    <2>1. Answer(c, worker_error[c], "OK", "closing")
      BY <1>2, <1>4 DEF Leave
    <2>2. QED
      BY <1>1, <2>1, ServingRequest DEF Responses, absAstray
  <1>6. onlineclients' = [onlineclients EXCEPT ![u] = @ - 1]
    BY <1>2, <1>4 DEF Leave, removeClientOnline, checkIfOnline, isInList, deleteList
  <1>7. u \in absOnline /\ absOnline' = absOnline \ {u}
    BY <1>4, <1>6 DEF absOnline, checkIfOnline, isInList
  <1>8. QED
    BY <1>1, <1>2, <1>3, <1>5, <1>7 DEF Abstract!Left

\* The path of a request is that of its client, in both stores, and nobody else stores
\* there.
LEMMA RequestPath ==
    ASSUME RefInv, NEW c \in Conns, Worker(c),
           request[c].cmd \in {"DELETE", "RETRIEVE", "STORE"}
    PROVE  /\ Path(c) \in Paths /\ Abstract!Path(c) = Path(c)
           /\ pc[c] # "storing" => ~Storing(Path(c))
           /\ pc'[c] # "storing" => \A p : p = Path(c) => ~Storing(p)'
           /\ request[c] # NoRequest /\ request[c] \in Requests
  <1> USE DEF RefInv, TypeInv, TypeOK, IOTypeOK
  <1>1. userName[c] \in Users /\ userName[c] = peer[c] /\ Path(c) \in Paths
    BY PathType, UsersAssumption DEF WorkerOK, OneWorkerPerName
  <1>2. PICK p \in Paths : p = Path(c)
    BY <1>1
  <1>3. pc[c] # "storing" => ~Storing(p)
    BY <1>2, StoringElsewhere
  <1>4. pc'[c] # "storing" => ~Storing(p)'
    BY <1>2, StoringElsewhere
  <1>5. request[c] # NoRequest
    BY RequestMembers
  <1>6. QED
    BY <1>1, <1>2, <1>3, <1>4, <1>5 DEF Path, Abstract!Path

\* DELETE and RETRIEVE are refused, or go on unseen.
LEMMA Maps_Lookup ==
    ASSUME RefInv, NEW c \in Conns, Worker(c), Delete(c) \/ RetrieveFails(c)
    PROVE  Abstract!Refused(c) \/ Abstract!Forget(c) \/ UNCHANGED Abstract!vars
  <1>1. /\ open' = open /\ astray' = astray /\ onlineclients' = onlineclients /\ pc[c] = "select"
        /\ request[c].cmd \in {"DELETE", "RETRIEVE"} /\ request[c] # NoRequest
    BY RequestMembers DEF Delete, RetrieveFails, Dispatch, statsVars, connVars
  <1>2. absObjects' = absObjects
    BY <1>1, ObjectsKept
    DEF Store, StoreOpen, StoreAbort, StoreFinish, DeleteRemove, Dispatch
  <1>3. \/ Continue(c, "NO_SERVERW_ERROR", "delete_remove")
        \/ \E e \in Errors \ {"NO_SERVERW_ERROR", "COMMUNICATION_ERROR"} :
            \E r \in {"KO", "KO_FATAL", "KO_NOT_FOUND"} :
                \E next \in {"guard", "closing"} : Answer(c, e, r, next)
    BY DEF Delete, RetrieveFails, RetrieveError, Errors
  <1>4. QED
    BY <1>1, <1>2, <1>3, GoingOn, Refusing

\* A DELETE removes the object, or is refused because there is none any more.
LEMMA Maps_DeleteRemove ==
    ASSUME "unlink" \notin Faults, RefInv, NEW c \in Conns, Worker(c), DeleteRemove(c)
    PROVE  Abstract!Deleted(c) \/ Abstract!Refused(c)
  <1> USE DEF RefInv, TypeInv, TypeOK, FileStoreTypeOK
  <1>1. /\ open' = open /\ astray' = astray /\ absAstray' = absAstray
        /\ pc[c] = "delete_remove" /\ request[c].cmd = "DELETE"
        /\ worker_error[c] = "NO_SERVERW_ERROR"
    BY DEF DeleteRemove, connVars, WorkerOK, SocketsOK, SocketOK, absAstray
  <1>2. /\ Path(c) \in Paths /\ Abstract!Path(c) = Path(c) /\ ~Storing(Path(c))
        /\ request[c] # NoRequest
    BY <1>1, RequestPath
  <1>3. PICK p \in Paths : p = Path(c)
    BY <1>2
  <1>4. onlineclients' = onlineclients
    BY DEF DeleteRemove, removeFile, subtractFile, statsVars
  <1>5. CASE removeFile(p, 0) /\ Answer(c, worker_error[c], "OK", "guard")
    <2>1. entry[p] # NoInode /\ entry'[p] = NoInode
      BY <1>5 DEF removeFile, unlink
    <2>2. ObjectAt(p)' = NoValue
      BY <2>1 DEF ObjectAt, Stored
    <2>3. absObjects[p] # NoValue /\ absObjects' = [absObjects EXCEPT ![p] = NoValue]
      <3>1. ObjectAt(p) # NoValue
        BY <1>2, <1>3, <2>1, ObjectThere DEF Stored
      <3>2. QED
        BY <1>3, <2>2, <3>1, ObjectsChange DEF absObjects
    <2>4. Abstract!Serve(c, "OK")
      BY <1>1, <1>2, <1>5, ServingRequest DEF Responses
    <2>5. absOnline' = absOnline /\ c \notin absRefused
      BY <1>1, <1>4 DEF absOnline, absRefused, checkIfOnline, isInList
    <2>6. QED
      BY <1>1, <1>2, <1>3, <2>3, <2>4, <2>5 DEF Abstract!Deleted
  <1>6. CASE removeFile(p, -1) /\ Answer(c, "SHARED_DATA_ERROR", "KO", "guard")
    <2>1. entry' = entry /\ entry[p] = NoInode
      BY <1>6 DEF removeFile, fsVars
    <2>2. ObjectAt(p)' = NoValue /\ ObjectAt(p) = NoValue
      BY <2>1 DEF ObjectAt, Stored
    <2>3. absObjects' = absObjects
      BY <1>3, <2>2, ObjectsChange DEF absObjects
    <2>4. QED
      BY <1>1, <1>4, <1>6, <2>3, Refusing DEF Errors
  <1>7. QED
    BY <1>3, <1>5, <1>6 DEF DeleteRemove

\* From its first step, a STORE has removed the object it replaces.
LEMMA Maps_StoreBegins ==
    ASSUME "unlink" \notin Faults, RefInv, NEW c \in Conns, Worker(c), Store(c) \/ StoreOpen(c)
    PROVE  Abstract!Overwrite(c)
  <1> USE DEF RefInv, TypeInv, TypeOK, FileStoreTypeOK, WorkerTypeOK
  <1>1. /\ open' = open /\ request' = request /\ onlineclients' = onlineclients
        /\ astray' = astray /\ worker_error' = worker_error
        /\ pc[c] \in {"select", "store_open"} /\ request[c].cmd = "STORE"
    BY DEF Store, StoreOpen, Dispatch, Continue, removeFile, subtractFile, statsVars,
           connVars, ioVars, WorkerOK
  <1>2. Path(c) \in Paths /\ Abstract!Path(c) = Path(c) /\ request[c] # NoRequest
    BY <1>1, RequestPath
  <1>3. PICK p \in Paths : p = Path(c)
    BY <1>2
  <1>4. ObjectAt(p)' = NoValue
    <2>1. CASE Store(c)
      <3>1. entry'[p] = NoInode
        BY <1>3, <2>1 DEF Store, removeFile, unlink, fsVars
      <3>2. QED
        BY <3>1 DEF ObjectAt, Stored
    <2>2. CASE StoreOpen(c)
      <3>1. pc'[c] = "storing" /\ Path(c)' = p
        BY <1>1, <1>3, <2>2 DEF StoreOpen, Continue, Path
      <3>2. Storing(p)'
        BY <3>1 DEF Storing
      <3>3. QED
        BY <3>2 DEF ObjectAt
    <2>3. QED
      BY <2>1, <2>2
  <1>5. absObjects' = [absObjects EXCEPT ![p] = NoValue]
    BY <1>3, <1>4, ObjectsChange
  <1>6. absAnswer' = absAnswer
    <2>1. /\ reply' = reply /\ pc'[c] # "retrieving" /\ reply[c] = Before(c)
      BY <1>1, <1>2 DEF Store, StoreOpen, Continue, ioVars, SocketsOK, SocketOK
    <2>2. AnswerTo(c)' = AnswerTo(c)
      BY <1>1, <2>1 DEF AnswerTo, Before
    <2>3. QED
      BY <2>2, AnswersChange DEF absAnswer
  <1>7. /\ absOnline' = absOnline /\ absConnected' = absConnected /\ peer' = peer
        /\ absRefused' = absRefused /\ absAstray' = absAstray
    BY <1>1, WorkerStep
    DEF absOnline, absConnected, absRefused, absAstray, checkIfOnline, isInList
  <1>8. QED
    BY <1>1, <1>2, <1>3, <1>5, <1>6, <1>7 DEF Abstract!Overwrite

\* A STORE that cannot open its file is refused; its data are not seen while they arrive;
\* one whose client has gone is dropped and leaves no object.
LEMMA Maps_StoreFails ==
    ASSUME "unlink" \notin Faults, RefInv, NEW c \in Conns, Worker(c),
           StoreOpenFails(c) \/ StoreChunk(c) \/ StoreAbort(c)
    PROVE  \/ Abstract!Refused(c) \/ Abstract!Dropped(c) \/ Abstract!Forget(c)
           \/ UNCHANGED Abstract!vars
  <1> USE DEF RefInv, TypeInv, TypeOK, FileStoreTypeOK, WorkerTypeOK, IOTypeOK
  <1>1. /\ open' = open /\ onlineclients' = onlineclients
        /\ pc[c] \in {"store_open", "storing"} /\ request[c].cmd = "STORE"
    BY DEF StoreOpenFails, GoesAstray, StoreChunk, StoreAbort, statsVars, connVars, WorkerOK
  <1>2. CASE StoreOpenFails(c)
    <2>1. Answer(c, "DATA_ERROR", "KO", "guard") /\ (astray' = astray \/ astray'[c])
      BY <1>2 DEF StoreOpenFails, GoesAstray, ConnTypeOK
    <2>2. absObjects' = absObjects
      <3>1. entry' = entry /\ request'[c] = NoRequest /\ pc[c] = "store_open"
        BY <1>2 DEF StoreOpenFails, Answer, Finish, fsVars
      <3>2. ~(\/ Store(c) \/ StoreOpen(c) \/ StoreAbort(c) \/ StoreFinish(c)
              \/ DeleteRemove(c))
        BY <1>1, <3>1, RequestMembers
        DEF Store, StoreOpen, StoreAbort, StoreFinish, DeleteRemove, Dispatch, Continue,
            ioVars
      <3>3. QED
        BY <3>2, ObjectsKept
    <2>3. QED
      BY <1>1, <2>1, <2>2, Refusing DEF Errors
  <1>3. CASE StoreChunk(c)
    <2>1. /\ request' = request /\ pc' = pc /\ reply' = reply /\ sent' = sent
          /\ astray' = astray /\ worker_error' = worker_error
          /\ pc[c] = "storing" /\ left[c] > 0
      BY <1>3 DEF StoreChunk, connVars, ioVars
    <2>2. ~(\/ Store(c) \/ StoreOpen(c) \/ StoreAbort(c) \/ StoreFinish(c)
            \/ DeleteRemove(c))
      BY <2>1
      DEF Store, StoreOpen, StoreAbort, StoreFinish, DeleteRemove, Dispatch, Finish
    <2>3. absObjects' = absObjects
      BY <2>2, ObjectsKept
    <2>4. AnswerTo(c)' = AnswerTo(c)
      BY <1>1, <2>1 DEF AnswerTo, ValueOf
    <2>5. QED
      BY <1>1, <2>1, <2>3, <2>4, Unseen
  <1>4. CASE StoreAbort(c)
    <2>1. PICK p \in Paths : p = Path(c)
      BY <1>1, RequestPath
    <2>2. /\ ~open[c] /\ pc[c] = "storing" /\ entry'[p] = NoInode
          /\ request' = [request EXCEPT ![c] = NoRequest] /\ astray' = astray
          /\ worker_error'[c] = "COMMUNICATION_ERROR"
      BY <1>4, <2>1 DEF StoreAbort, closeUnlink, Finish, connVars
    <2>3. ObjectAt(p) = NoValue /\ ObjectAt(p)' = NoValue
      BY <2>1, <2>2 DEF ObjectAt, Stored, Storing
    <2>4. absObjects' = absObjects
      BY <2>1, <2>3, ObjectsChange DEF absObjects
    <2>5. QED
      BY <1>1, <2>2, <2>4, Dropping
  <1>5. QED
    BY <1>2, <1>3, <1>4

\* A STORE that has all its data has stored the block, whether it answers OK or KO.
LEMMA Maps_StoreFinish ==
    ASSUME \A v \in Values : Size[v] # 0, RefInv, NEW c \in Conns, Worker(c), StoreFinish(c)
    PROVE  Abstract!Stored(c)
  <1> USE DEF RefInv, TypeInv, TypeOK, FileStoreTypeOK, WorkerTypeOK
  <1>1. /\ open' = open /\ onlineclients' = onlineclients
        /\ pc[c] = "storing" /\ pc'[c] # "storing" /\ request[c].cmd = "STORE"
        /\ worker_error[c] # "COMMUNICATION_ERROR" /\ astray' = astray
    BY DEF StoreFinish, addFile, Answer, Finish, connVars, WorkerOK, SocketsOK, SocketOK,
           Ending
  <1>2. /\ Path(c) \in Paths /\ Abstract!Path(c) = Path(c) /\ request[c] # NoRequest
        /\ \A p : p = Path(c) => ~Storing(p)'
    BY <1>1, RequestPath
  <1>3. PICK p \in Paths : p = Path(c)
    BY <1>2
  <1>4. /\ entry'[p] # NoInode /\ inode'[entry'[p]] = Whole(request[c].val)
        /\ request[c].val \in Values
    BY <1>3, StoreFinishHolds DEF FilesInv, HoldsBlock
  <1>5. ObjectAt(p)' = ValueOf(Whole(request[c].val))
    <2>1. p \in Stored' /\ ~Storing(p)'
      BY <1>2, <1>3, <1>4 DEF Stored
    <2>2. Content(p)' = Whole(request[c].val)
      BY <1>4 DEF Content
    <2>3. QED
      BY <2>1, <2>2 DEF ObjectAt, ValueOf
  <1>6. absObjects' = [absObjects EXCEPT ![p] = request[c].val]
    <2>1. ObjectAt(p)' = request[c].val
      BY <1>4, <1>5, ValueOfWhole
    <2>2. QED
      BY <1>3, <2>1, ObjectsChange
  <1>7. PICK ans \in {"OK", "KO"} :
            Abstract!Serve(c, ans) /\ (ans = "KO" <=> c \in absRefused)
    <2>1. PICK r \in {"OK", "KO"} : /\ Answer(c, worker_error[c], r, "guard")
                                    /\ r = "KO" <=> worker_error[c] # "NO_SERVERW_ERROR"
      BY DEF StoreFinish
    <2>2. pc[c] # "retrieving" /\ r \in Responses \ {"DATA", "STRAY"}
      BY <1>1 DEF Responses
    <2>3. Abstract!Serve(c, IF r = "OK" THEN "OK" ELSE "KO")
      <3> HIDE DEF RefInv
      <3>1. QED
        BY <1>1, <1>2, <2>1, <2>2, ServingRequest
    <2>4. Abstract!Serve(c, r)
      <3>1. r = IF r = "OK" THEN "OK" ELSE "KO"
        OBVIOUS
      <3>2. QED
        BY <2>3, <3>1
    <2>5. r = "KO" <=> c \in absRefused
      <3>1. worker_error[c] # "NO_SERVERW_ERROR" <=> Failing(c)
        BY <1>1 DEF Failing
      <3>2. Failing(c) <=> c \in absRefused
        BY DEF Failing, absRefused
      <3>3. QED
        BY <2>1, <3>1, <3>2
    <2>6. QED
      BY <2>4, <2>5
  <1>8. absOnline' = absOnline /\ absAstray' = absAstray
    BY <1>1 DEF absOnline, absAstray, checkIfOnline, isInList
  <1>9. QED
    BY <1>1, <1>2, <1>3, <1>6, <1>7, <1>8 DEF Abstract!Stored

\* The data of a RETRIEVE are not seen before its end; one whose client has gone is
\* dropped.
LEMMA Maps_Retrieve ==
    ASSUME RefInv, NEW c \in Conns, Worker(c), Retrieve(c) \/ RetrieveChunk(c)
    PROVE  Abstract!Dropped(c) \/ Abstract!Forget(c) \/ UNCHANGED Abstract!vars
  <1> USE DEF RefInv, TypeInv, TypeOK, FileStoreTypeOK, WorkerTypeOK, IOTypeOK
  <1>1. /\ open' = open /\ astray' = astray /\ onlineclients' = onlineclients
        /\ pc[c] \in {"select", "retrieving"} /\ request[c].cmd = "RETRIEVE"
    BY DEF Retrieve, RetrieveChunk, Dispatch, statsVars, connVars, WorkerOK
  <1>2. absObjects' = absObjects
    BY <1>1, ObjectsKept
    DEF Store, StoreOpen, StoreAbort, StoreFinish, DeleteRemove, Dispatch
  <1>3. CASE /\ open[c] /\ request' = request /\ pc'[c] = "retrieving"
             /\ reply[c] = Before(c) \/ pc[c] = "retrieving"
             /\ worker_error' = worker_error
    <2>1. AnswerTo(c)' = AnswerTo(c)
      BY <1>1, <1>3 DEF AnswerTo, Before
    <2>2. QED
      BY <1>1, <1>2, <1>3, <2>1, Unseen
  <1>4. CASE Retrieve(c)
    <2>1. reply[c] = Before(c)
      BY <1>1, <1>4, RequestMembers DEF Retrieve, Dispatch, SocketsOK, SocketOK
    <2>2. CASE open[c]
      BY <1>3, <1>4, <2>1, <2>2 DEF Retrieve
    <2>3. CASE ~open[c]
      <3>1. /\ request' = [request EXCEPT ![c] = NoRequest]
            /\ worker_error'[c] = "COMMUNICATION_ERROR"
        BY <1>4, <2>3 DEF Retrieve, Finish
      <3>2. QED
        BY <1>1, <1>2, <2>3, <3>1, Dropping
    <2>4. QED
      BY <2>2, <2>3
  <1>5. CASE RetrieveChunk(c)
    BY <1>3, <1>5 DEF RetrieveChunk
  <1>6. QED
    BY <1>4, <1>5

\* A RETRIEVE is cut off when its client has gone; when the file cannot be read, its
\* client gets no answer and is out of step.
LEMMA Maps_RetrieveFails ==
    ASSUME RefInv, NEW c \in Conns, Worker(c), RetrieveChunkFails(c)
    PROVE  Abstract!Dropped(c) \/ Abstract!Refused(c)
  <1> USE DEF RefInv, TypeInv, TypeOK, FileStoreTypeOK, WorkerTypeOK, IOTypeOK
  <1>1. /\ open' = open /\ onlineclients' = onlineclients
        /\ pc[c] = "retrieving" /\ request[c].cmd = "RETRIEVE"
        /\ request' = [request EXCEPT ![c] = NoRequest]
    BY DEF RetrieveChunkFails, GoesAstray, Finish, statsVars, connVars, WorkerOK
  <1>2. absObjects' = absObjects
    BY <1>1, ObjectsKept
    DEF Store, StoreOpen, StoreAbort, StoreFinish, DeleteRemove, Dispatch
  <1>3. CASE ~open[c] /\ astray' = astray /\ worker_error'[c] = "COMMUNICATION_ERROR"
    BY <1>1, <1>2, <1>3, Dropping
  <1>4. CASE /\ reply'[c] = <<"STRAY">> /\ astray'[c] /\ pc'[c] # "retrieving"
             /\ worker_error'[c] = IF open[c] THEN "DATA_ERROR" ELSE "COMMUNICATION_ERROR"
    <2>1. AnswerTo(c)' = NoAnswer
      <3>1. <<"STRAY">> # <<>> /\ Head(<<"STRAY">>) = "STRAY"
        OBVIOUS
      <3>2. QED
        BY <1>4, <3>1 DEF AnswerTo
    <2>2. /\ absOnline' = absOnline /\ absConnected' = absConnected /\ peer' = peer
          /\ absAstray' = absAstray \cup {c}
      BY <1>1, <1>4, WorkerStep, ErrorsChange
      DEF absOnline, absConnected, checkIfOnline, isInList
    <2>3. Abstract!Answer(c, NoAnswer)
      BY <1>1, <2>1, <2>2, AnswersChange DEF Abstract!Answer
    <2>4. absRefused' = IF c \in absConnected THEN absRefused \cup {c}
                        ELSE absRefused \ {c}
      <3>1. Failing(c)' <=> open[c]
        BY <1>4 DEF Failing
      <3>2. QED
        BY <3>1, ErrorsChange DEF absConnected
    <2>5. QED
      BY <1>1, <1>2, <2>2, <2>3, <2>4 DEF Abstract!Refused
  <1>5. QED
    BY <1>3, <1>4 DEF RetrieveChunkFails, GoesAstray, Finish, connVars, ConnTypeOK

\* What the client has received at the end of a RETRIEVE is the object at its path.
LEMMA Maps_RetrieveFinish ==
    ASSUME RefInv, NEW c \in Conns, Worker(c), RetrieveFinish(c)
    PROVE  Abstract!Retrieved(c)
  <1> USE DEF RefInv, TypeInv, TypeOK, FileStoreTypeOK, WorkerTypeOK, IOTypeOK
  <1>1. /\ open' = open /\ onlineclients' = onlineclients
        /\ pc[c] = "retrieving" /\ left[c] = 0 /\ request[c].cmd = "RETRIEVE"
        /\ reply[c] = Append(Before(c), "DATA") /\ sent' = sent
        /\ worker_error[c] # "COMMUNICATION_ERROR"
        /\ request' = [request EXCEPT ![c] = NoRequest] /\ pc'[c] # "retrieving"
    BY DEF RetrieveFinish, GoesAstray, Answer, Finish, statsVars, connVars, WorkerOK,
           SocketsOK, SocketOK, Ending
  <1>2. absObjects' = absObjects
    BY <1>1, ObjectsKept
    DEF Store, StoreOpen, StoreAbort, StoreFinish, DeleteRemove, Dispatch
  <1>3. /\ Path(c) \in Paths /\ Abstract!Path(c) = Path(c)
        /\ Path(c) \in Stored /\ ~Storing(Path(c)) /\ sent[c] = Content(Path(c))
    BY <1>1, RequestPath, AllIsSent
  <1>4. absObjects[Path(c)] = ValueOf(sent[c]) /\ absObjects[Path(c)] # NoValue
    <2>1. ObjectAt(Path(c)) = ValueOf(sent[c])
      BY <1>3 DEF ObjectAt
    <2>2. ObjectAt(Path(c)) # NoValue
      BY <1>3, ObjectThere
    <2>3. QED
      BY <1>3, <2>1, <2>2 DEF absObjects
  <1>5. AnswerTo(c)' = IF c \in absConnected \ absAstray THEN absObjects[Path(c)]
                       ELSE NoAnswer
    <2>1. CASE open[c]
      <3>1. \/ reply'[c] = reply[c]
            \/ reply'[c] = Append(reply[c], RetrieveError(worker_error[c]))
        BY <1>1, <2>1 DEF RetrieveFinish, Answer
      <3>2. reply'[c] # <<>> /\ Head(reply'[c]) = Head(reply[c])
        <4>1. RetrieveError(worker_error[c]) \in Responses
          BY DEF RetrieveError, Responses
        <4>2. PICK r \in Responses : r = RetrieveError(worker_error[c])
          BY <4>1
        <4>3. PICK s \in Seq(Responses) : s = reply[c]
          OBVIOUS
        <4>4. s # <<>>
          BY <1>1, <4>3, FirstResponse DEF Responses
        <4>5. Append(s, r) # <<>> /\ Head(Append(s, r)) = Head(s)
          <5>1. Len(s) \in Nat /\ Len(s) > 0 /\ Len(Append(s, r)) = Len(s) + 1
            BY <4>4
          <5>2. Append(s, r)[1] = s[1]
            BY <5>1
          <5>3. Append(s, r) # <<>>
            <6>1. Len(<<>>) = 0
              OBVIOUS
            <6>2. Len(Append(s, r)) # 0
              BY <5>1
            <6>3. QED
              BY <6>1, <6>2
          <5>4. Head(s) = s[1] /\ Head(Append(s, r)) = Append(s, r)[1]
            BY <5>1, <5>3
          <5>5. QED
            BY <5>2, <5>3, <5>4
        <4>6. QED
          BY <3>1, <4>2, <4>3, <4>4, <4>5
      <3>3. Head(reply[c]) = IF astray[c] THEN "STRAY" ELSE "DATA"
        BY <1>1, FirstResponse DEF Responses
      <3>4. ValueOf(sent[c])' = ValueOf(sent[c])
        BY <1>1 DEF ValueOf
      <3>5. QED
        BY <1>1, <1>4, <2>1, <3>2, <3>3, <3>4 DEF AnswerTo, absConnected, absAstray
    <2>2. CASE ~open[c]
      BY <1>1, <2>2 DEF AnswerTo, absConnected
    <2>3. QED
      BY <2>1, <2>2
  <1>6. /\ absOnline' = absOnline /\ absConnected' = absConnected /\ peer' = peer
    BY <1>1, WorkerStep DEF absOnline, absConnected, checkIfOnline, isInList
  <1>7. Abstract!Answer(c, absObjects[Path(c)])
    BY <1>1, <1>5, <1>6, AnswersChange DEF Abstract!Answer
  <1>8. /\ worker_error'[c] = IF open[c] \/ worker_error[c] = "NO_SERVERW_ERROR"
                              THEN worker_error[c] ELSE "COMMUNICATION_ERROR"
        /\ astray' = [astray EXCEPT ![c] = @ \/ worker_error[c] # "NO_SERVERW_ERROR"]
    BY DEF RetrieveFinish, Answer, Finish, GoesAstray
  <1>9. absRefused' = IF c \in absConnected THEN absRefused ELSE absRefused \ {c}
    <2>1. CASE open[c]
      <3>1. Failing(c)' <=> Failing(c)
        BY <1>8, <2>1 DEF Failing
      <3>2. absRefused' = absRefused
        BY <3>1, ErrorsChange
      <3>3. QED
        BY <2>1, <3>2 DEF absConnected
    <2>2. CASE ~open[c]
      <3>1. ~Failing(c)'
        BY <1>8, <2>2 DEF Failing
      <3>2. QED
        BY <2>2, <3>1, ErrorsChange DEF absConnected
    <2>3. QED
      BY <2>1, <2>2
  <1>10. absAstray' = IF c \in absRefused THEN absAstray \cup {c} ELSE absAstray
    <2>1. Failing(c) <=> worker_error[c] # "NO_SERVERW_ERROR"
      BY <1>1 DEF Failing
    <2>2. CASE Failing(c)
      <3>1. astray'[c]
        BY <1>8, <2>1, <2>2 DEF ConnTypeOK
      <3>2. QED
        BY <2>2, <3>1, ErrorsChange
    <2>3. CASE ~Failing(c)
      <3>1. astray'[c] = astray[c]
        BY <1>8, <2>1, <2>3 DEF ConnTypeOK
      <3>2. QED
        BY <2>3, <3>1, ErrorsChange
    <2>4. QED
      BY <2>2, <2>3
  <1>11. QED
    BY <1>1, <1>2, <1>3, <1>4, <1>7, <1>9, <1>10
    DEF Abstract!Retrieved, Abstract!Serve, absOnline, checkIfOnline, isInList

\* Closing the socket hangs up, or drops the request of a client that has gone.
LEMMA Maps_CloseSocket ==
    ASSUME RefInv, NEW c \in Conns, Worker(c), CloseSocket(c)
    PROVE  Abstract!HangUp(c) \/ Abstract!Dropped(c)
  <1> USE DEF RefInv, TypeInv, TypeOK, ConnTypeOK, IOTypeOK
  <1>1. /\ open' = [open EXCEPT ![c] = FALSE] /\ onlineclients' = onlineclients
        /\ request' = [request EXCEPT ![c] = NoRequest] /\ pc[c] = "closing"
        /\ UNCHANGED <<peer, astray, worker_error>>
    BY DEF CloseSocket, statsVars
  <1>2. absObjects' = absObjects
    BY <1>1, ObjectsKept
    DEF Store, StoreOpen, StoreAbort, StoreFinish, DeleteRemove, Dispatch
  <1>3. CASE ~open[c]
    <2>1. open' = open
      BY <1>1, <1>3
    <2>2. QED
      BY <1>1, <1>2, <1>3, <2>1, Dropping
  <1>4. CASE open[c]
    <2>1. c \in absConnected /\ absConnected' = absConnected \ {c}
      BY <1>1, <1>4 DEF absConnected
    <2>2. AnswerTo(c)' = NoAnswer
      BY <1>1 DEF AnswerTo
    <2>3. absOnline' = absOnline /\ absRefused' = absRefused /\ absAstray' = absAstray
      BY <1>1 DEF absOnline, absRefused, absAstray, checkIfOnline, isInList
    <2>4. QED
      BY <1>1, <1>2, <2>1, <2>2, <2>3, AnswersChange DEF Abstract!HangUp
  <1>5. QED
    BY <1>3, <1>4

\* The name of a client is removed when its connection is closed.
LEMMA Maps_Remove ==
    ASSUME RefInv, NEW c \in Conns, Worker(c), forceRemoveClientOnline(c)
    PROVE  \/ \E u \in Users : Abstract!Departed(u)
           \/ Abstract!Forget(c) \/ UNCHANGED Abstract!vars
  <1> USE DEF RefInv, TypeInv, TypeOK, StatsTypeOK, WorkerTypeOK
  <1>1. /\ open' = open /\ request' = request /\ reply' = reply /\ peer' = peer
        /\ astray' = astray /\ worker_error' = worker_error
        /\ pc[c] = "removing" /\ ~open[c] /\ removeClientOnline(userName[c])
    BY DEF forceRemoveClientOnline, connVars, ioVars, SocketsOK, SocketOK
  <1>2. absObjects' = absObjects
    BY <1>1, ObjectsKept
    DEF Store, StoreOpen, StoreAbort, StoreFinish, DeleteRemove, Dispatch
  <1>3. AnswerTo(c)' = AnswerTo(c)
    BY <1>1 DEF AnswerTo
  <1>4. CASE userName[c] \notin Users
    <2>1. onlineclients' = onlineclients
      BY <1>1, <1>4 DEF removeClientOnline, checkIfOnline, isInList
    <2>2. QED
      BY <1>1, <1>2, <1>3, <2>1, Unseen
  <1>5. CASE userName[c] \in Users
    <2>1. PICK u \in Users : u = userName[c] /\ u = peer[c]
      BY <1>5, UsersAssumption DEF OneWorkerPerName
    <2>2. \A d \in absConnected : peer[d] # u
      <3>1. ASSUME NEW d \in Conns, open[d], peer[d] = u
            PROVE  FALSE
        <4>1. Live(d) /\ Live(c)
          BY <1>1, <3>1 DEF SocketsOK, SocketOK, Live
        <4>2. d = c
          BY <2>1, <3>1, <4>1 DEF OneWorkerPerName
        <4>3. QED
          BY <1>1, <3>1, <4>2
      <3>2. QED
        BY <3>1 DEF absConnected
    <2>3. absOnline' = absOnline \ {u}
      <3>1. onlineclients[u] \in {0, 1}
        BY OnlineOnce
      <3>2. QED
        BY <1>1, <2>1, <3>1
        DEF removeClientOnline, checkIfOnline, isInList, deleteList, absOnline
    <2>4. /\ absAnswer' = absAnswer /\ absConnected' = absConnected
          /\ absRefused' = absRefused /\ absAstray' = absAstray
      BY <1>1, <1>3, AnswersChange DEF absAnswer, absConnected, absRefused, absAstray
    <2>5. QED
      BY <1>1, <1>2, <2>2, <2>3, <2>4 DEF Abstract!Departed
  <1>6. QED
    BY <1>4, <1>5

\* Every step of a worker is a step of the store, or is not seen.
LEMMA Maps_Worker ==
    ASSUME NoRegisterSpelled, "unlink" \notin Faults, \A v \in Values : Size[v] # 0,
           RefInv, NEW c \in Conns, Worker(c)
    PROVE  [Abstract!Next]_(Abstract!vars)
  <1>1. CASE \/ LoopGuard(c) \/ SelectTimeout(c) \/ SelectFails(c) \/ RetrieveSpin(c)
             \/ ReadNoHeader(c) \/ decrActiveThreads(c)
    BY <1>1, Maps_Quiet DEF Abstract!Next
  <1>2. CASE Register(c) \/ RegisterCheck(c) \/ RegisterAdd(c) \/ Leave(c)
    BY <1>2, Maps_Register, Maps_RegisterAdd, Maps_Leave DEF Abstract!Next
  <1>3. CASE Delete(c) \/ RetrieveFails(c) \/ DeleteRemove(c)
    BY <1>3, Maps_Lookup, Maps_DeleteRemove DEF Abstract!Next
  <1>4. CASE \/ Store(c) \/ StoreOpen(c) \/ StoreOpenFails(c) \/ StoreChunk(c)
             \/ StoreAbort(c) \/ StoreFinish(c)
    BY <1>4, Maps_StoreBegins, Maps_StoreFails, Maps_StoreFinish DEF Abstract!Next
  <1>5. CASE \/ Retrieve(c) \/ RetrieveChunk(c) \/ RetrieveChunkFails(c)
             \/ RetrieveFinish(c)
    BY <1>5, Maps_Retrieve, Maps_RetrieveFails, Maps_RetrieveFinish DEF Abstract!Next
  <1>6. CASE CloseSocket(c) \/ forceRemoveClientOnline(c)
    BY <1>6, Maps_CloseSocket, Maps_Remove DEF Abstract!Next
  <1>7. ASSUME NEW r \in Requests, LeftoverRequest(c, r)
        PROVE  [Abstract!Next]_(Abstract!vars)
    BY <1>7, Maps_Leftover DEF Abstract!Next
  <1>8. QED
    BY <1>1, <1>2, <1>3, <1>4, <1>5, <1>6, <1>7 DEF Worker

-----------------------------------------------------------------------------
(* The steps of the others.                                                *)

\* A step that leaves the files, the list and the connections alone.
LEMMA UnseenByAll ==
    ASSUME UNCHANGED <<fsVars, peer, open, ioVars, onlineclients, astray, worker_error>>,
           \A c \in Conns : \/ pc'[c] = pc[c] /\ userName'[c] = userName[c]
                            \/ /\ {pc[c], pc'[c]} \cap {"storing", "retrieving"} = {}
    PROVE  UNCHANGED Abstract!vars
  <1>1. \A p \in Paths : Kept(p) /\ (Storing(p)' <=> Storing(p))
    BY DEF Kept, Storing, Path, fsVars, ioVars
  <1>2. absObjects' = absObjects
    BY <1>1, ObjectFrame DEF absObjects
  <1>3. \A c \in Conns : AnswerTo(c)' = AnswerTo(c)
    BY DEF AnswerTo, ValueOf, ioVars
  <1>4. QED
    BY <1>2, <1>3
    DEF Abstract!vars, absOnline, absConnected, absAnswer, absRefused, absAstray,
        checkIfOnline, isInList, ioVars

\* A client connects when nobody uses its name, in either store.
LEMMA Maps_createWorker ==
    ASSUME Discipline = "exclusive", RefInv, NEW c \in Conns, NEW u \in Users,
           createWorker(c, u)
    PROVE  \E r \in Requests : Abstract!Connect(c, u, r)
  <1> USE DEF RefInv, TypeInv, TypeOK, ConnTypeOK, IOTypeOK, WorkerTypeOK, StatsTypeOK
  <1> DEFINE r == Request("REGISTER", u, NoValue)
  <1>1. /\ pc[c] = "none" /\ ~open[c] /\ reply[c] = <<>> /\ request[c] = NoRequest
        /\ \A d \in Conns : peer[d] = u => ~Live(d)
    BY DEF createWorker, MayConnect, SocketsOK, SocketOK, WorkerOK
  <1>2. u \notin absOnline
    <2>1. ASSUME onlineclients[u] = 1
          PROVE  FALSE
      <3>1. PICK d \in Conns : d \in Sessions(u)
        BY <2>1, OnlineOnce
      <3>2. Live(d) /\ peer[d] = u
        BY <3>1, UsersAssumption DEF Sessions, OneWorkerPerName
      <3>3. QED
        BY <1>1, <3>2
    <2>2. onlineclients[u] = 0
      BY <2>1, OnlineOnce
    <2>3. QED
      BY <2>2 DEF absOnline, checkIfOnline, isInList
  <1>3. \A d \in absConnected : peer[d] # u
    BY <1>1 DEF absConnected, SocketsOK, SocketOK, Live
  <1>4. c \notin absConnected /\ absConnected' = absConnected \cup {c}
    BY <1>1 DEF createWorker, absConnected
  <1>5. absObjects' = absObjects
    <2>1. \A p \in Paths : Storing(p)' <=> Storing(p)
      BY <1>1 DEF createWorker, Storing, Path
    <2>2. \A p \in Paths : Kept(p)
      BY DEF createWorker, Kept, fsVars
    <2>3. QED
      BY <2>1, <2>2, ObjectFrame DEF absObjects
  <1>6. absAnswer' = absAnswer
    <2>1. \A d \in Conns : AnswerTo(d)' = AnswerTo(d)
      BY <1>1 DEF createWorker, AnswerTo, ValueOf
    <2>2. QED
      BY <2>1 DEF absAnswer
  <1>7. absOnline' = absOnline /\ absRefused' = absRefused /\ absAstray' = absAstray
    BY DEF createWorker, absOnline, absRefused, absAstray, checkIfOnline, isInList,
           statsVars
  <1>8. r \in Requests /\ r.cmd = "REGISTER"
    BY DEF Requests, Request
  <1>9. /\ peer' = [peer EXCEPT ![c] = u]
        /\ request' = [request EXCEPT ![c] = r]
    BY DEF createWorker
  <1> HIDE DEF r
  <1>10. QED
    BY <1>1, <1>2, <1>3, <1>4, <1>5, <1>6, <1>7, <1>8, <1>9 DEF Abstract!Connect

\* A client asks when it is online, and may go at any time.
LEMMA Maps_Client ==
    ASSUME RefInv, NEW c \in Conns, Client(c)
    PROVE  (\E r \in Requests : Abstract!Ask(c, r)) \/ Abstract!HangUp(c)
  <1> USE DEF RefInv, TypeInv, TypeOK, ConnTypeOK, IOTypeOK, WorkerTypeOK
  <1>1. absOnline' = absOnline /\ absRefused' = absRefused /\ absAstray' = absAstray
    BY DEF Client, ClientRequest, ClientClose, absOnline, absRefused, absAstray,
           checkIfOnline, isInList, statsVars, workerVars
  <1>2. absObjects' = absObjects
    <2>1. \A p \in Paths : Kept(p)
      BY DEF Client, ClientRequest, ClientClose, Kept, fsVars
    <2>2. \A p \in Paths : Storing(p)' <=> Storing(p)
      BY DEF Client, ClientRequest, ClientClose, Storing, Path, Looping, workerVars, ioVars
    <2>3. QED
      BY <2>1, <2>2, ObjectFrame DEF absObjects
  <1>3. ASSUME NEW r \in Requests, ClientRequest(c, r)
        PROVE  Abstract!Ask(c, r)
    <2>1. /\ open[c] /\ open' = open /\ peer' = peer /\ pc' = pc /\ pc[c] \in Looping
          /\ request[c] = NoRequest /\ request' = [request EXCEPT ![c] = r]
          /\ \E s \in {<<>>, <<"STRAY">>} : reply' = [reply EXCEPT ![c] = s]
          /\ sent' = [sent EXCEPT ![c] = <<>>]
          /\ r.cmd # "REGISTER" /\ userName[c] # NoUser
      BY <1>3 DEF ClientRequest, workerVars
    <2>2. c \in absConnected /\ absConnected' = absConnected
      BY <2>1 DEF absConnected
    <2>3. peer[c] \in absOnline
      BY <2>1, AskerIsOnline
    <2>4. absAnswer' = [absAnswer EXCEPT ![c] = NoAnswer]
      <3>1. AnswerTo(c)' = NoAnswer
        <4>1. <<"STRAY">> # <<>> /\ Head(<<"STRAY">>) = "STRAY"
          OBVIOUS
        <4>2. reply'[c] = <<>> \/ reply'[c] = <<"STRAY">>
          BY <2>1
        <4>3. QED
          BY <4>1, <4>2 DEF AnswerTo
      <3>2. \A d \in Conns \ {c} : AnswerTo(d)' = AnswerTo(d)
        BY <2>1 DEF AnswerTo, ValueOf
      <3>3. QED
        BY <3>1, <3>2 DEF absAnswer
    <2>5. QED
      BY <1>1, <1>2, <2>1, <2>2, <2>3, <2>4 DEF Abstract!Ask
  <1>4. ASSUME ClientClose(c)
        PROVE  Abstract!HangUp(c)
    <2>1. /\ open[c] /\ open' = [open EXCEPT ![c] = FALSE]
          /\ UNCHANGED <<peer, pc, request, reply, sent>>
      BY <1>4 DEF ClientClose, ioVars, workerVars
    <2>2. c \in absConnected /\ absConnected' = absConnected \ {c}
      BY <2>1 DEF absConnected
    <2>3. absAnswer' = [absAnswer EXCEPT ![c] = NoAnswer]
      <3>1. AnswerTo(c)' = NoAnswer
        BY <2>1 DEF AnswerTo
      <3>2. \A d \in Conns \ {c} : AnswerTo(d)' = AnswerTo(d)
        BY <2>1 DEF AnswerTo, ValueOf
      <3>3. QED
        BY <3>1, <3>2 DEF absAnswer
    <2>4. QED
      BY <1>1, <1>2, <2>1, <2>2, <2>3 DEF Abstract!HangUp
  <1>5. QED
    BY <1>3, <1>4 DEF Client

\* What a kill leaves at a path is what was there; where a STORE was writing, the block it
\* was writing, or a damaged object.
LEMMA Maps_Restart ==
    ASSUME \A v \in Values : Size[v] # 0, RefInv, Restart
    PROVE  Abstract!Crash
  <1> USE DEF RefInv, TypeInv, TypeOK, FileStoreTypeOK
  <1>1. /\ entry' = entry /\ inode' = Freed(inode, entry, fd') /\ peer' = peer
        /\ onlineclients' = createList /\ open' = [c \in Conns |-> FALSE]
        /\ request' = [c \in Conns |-> NoRequest]
        /\ \A c \in Conns : pc'[c] \in {"none", "exited"}
        /\ worker_error' = [c \in Conns |-> "NO_SERVERW_ERROR"] /\ astray' = astray
    BY DEF Restart, Live
  <1>2. ASSUME NEW p \in Paths
        PROVE  /\ Kept(p) /\ ~Storing(p)'
               /\ p \in Stored => ObjectAt(p)' = ValueOf(Content(p))
               /\ p \notin Stored => ObjectAt(p)' = NoValue
    <2>1. Kept(p)
      BY <1>1, FreedKeeps DEF Kept
    <2>2. ~Storing(p)'
      BY <1>1 DEF Storing
    <2>3. p \in Stored => p \in Stored' /\ Content(p)' = Content(p)
      BY <1>1, <2>1 DEF Kept, Stored, Content
    <2>4. p \in Stored => ValueOf(Content(p))' = ValueOf(Content(p))
      BY <2>3 DEF ValueOf
    <2>5. p \notin Stored => p \notin Stored'
      BY <1>1 DEF Stored
    <2>6. QED
      BY <2>1, <2>2, <2>3, <2>4, <2>5 DEF ObjectAt
  <1>3. ASSUME NEW p \in Paths
        PROVE  ObjectAt(p)' \in Abstract!Survivors(p)
    <2>1. absObjects[p] = ObjectAt(p)
      BY DEF absObjects
    <2>2. CASE ~(p \in Stored /\ Storing(p))
      <3>1. ObjectAt(p)' = ObjectAt(p)
        BY <1>2, <2>2 DEF ObjectAt
      <3>2. QED
        BY <2>1, <3>1 DEF Abstract!Survivors
    <2>3. CASE p \in Stored /\ Storing(p)
      <3>1. PICK c \in Conns : pc[c] = "storing" /\ Path(c) = p
        BY <2>3 DEF Storing
      <3>2. /\ request[c].cmd = "STORE" /\ request[c].val \in Values
            /\ userName[c] = peer[c]
        <4>1. request[c] \in Requests \cup {NoRequest} /\ request[c].cmd = "STORE"
          BY <3>1 DEF WorkerOK, IOTypeOK
        <4>2. request[c].val \in Values
          BY <4>1, RequestShape
        <4>3. userName[c] \in Users /\ userName[c] # NoUser
          BY <4>1, UsersAssumption DEF WorkerOK
        <4>4. userName[c] = peer[c]
          BY <3>1, <4>3 DEF OneWorkerPerName
        <4>5. QED
          BY <4>1, <4>2, <4>4
      <3>3. Content(p) = [n \in 1 .. offset[c] |-> request[c].val] /\ offset[c] \in Nat
        <4>1. entry[p] = fd[c]
          BY <3>1 DEF FilesInv, FileOK
        <4>2. inode[fd[c]] = [n \in 1 .. offset[c] |-> request[c].val]
          BY <3>1 DEF FilesInv, FileOK
        <4>3. QED
          BY <4>1, <4>2 DEF Content
      <3>4. ObjectAt(p)' \in {request[c].val, Damaged}
        BY <1>2, <2>3, <3>2, <3>3, ValueOfPart
      <3>5. absObjects[p] = NoValue
        BY <2>1, <2>3 DEF ObjectAt
      <3>6. Abstract!Path(c) = p
        BY <3>1, <3>2 DEF Path, Abstract!Path
      <3>7. QED
        BY <3>2, <3>4, <3>5, <3>6 DEF Abstract!Survivors
    <2>4. QED
      BY <2>2, <2>3
  <1>4. /\ absObjects' \in [Paths -> Values \cup {NoValue, Damaged}]
        /\ \A p \in Paths : absObjects'[p] \in Abstract!Survivors(p)
    <2>1. \A p \in Paths : ObjectAt(p)' \in Values \cup {NoValue, Damaged}
      BY <1>2 DEF ValueOf
    <2>2. QED
      BY <1>3, <2>1 DEF absObjects
  <1>5. absOnline' = {} /\ absConnected' = {}
    BY <1>1 DEF absOnline, absConnected, checkIfOnline, isInList, createList
  <1>6. absAnswer' = [c \in Conns |-> NoAnswer] /\ absRefused' = {} /\ absAstray' = absAstray
    BY <1>1 DEF absAnswer, absRefused, absAstray, AnswerTo
  <1>7. /\ request' = [c \in Conns |-> NoRequest]
        /\ UNCHANGED peer
    BY <1>1
  <1> HIDE DEF RefInv, TypeInv, TypeOK, FileStoreTypeOK
  <1>8. QED
    BY <1>4, <1>5, <1>6, <1>7 DEF Abstract!Crash, Abstract!Paths, Paths

\* What the server does outside the workers is a step of a client, a crash, or not seen.
LEMMA Maps_Next ==
    ASSUME Discipline = "exclusive", NoRegisterSpelled, "unlink" \notin Faults,
           \A v \in Values : Size[v] # 0, RefInv, [Next]_vars
    PROVE  [Abstract!Next]_(Abstract!vars)
  <1>1. ASSUME NEW c \in Conns, Worker(c)
        PROVE  [Abstract!Next]_(Abstract!vars)
    BY <1>1, Maps_Worker
  <1>2. ASSUME NEW c \in Conns, NEW u \in Users, createWorker(c, u)
        PROVE  [Abstract!Next]_(Abstract!vars)
    BY <1>2, Maps_createWorker DEF Abstract!Next
  <1>3. ASSUME NEW c \in Conns, Client(c)
        PROVE  [Abstract!Next]_(Abstract!vars)
    BY <1>3, Maps_Client DEF Abstract!Next
  <1>4. CASE Restart
    BY <1>4, Maps_Restart DEF Abstract!Next
  <1>5. ASSUME NEW c \in Conns, createWorkerFails(c)
        PROVE  UNCHANGED Abstract!vars
    BY <1>5, UnseenByAll
    DEF createWorkerFails, statsVars, connVars, RefInv, TypeInv, TypeOK, WorkerTypeOK
  <1>6. CASE \/ Scan \/ MainGuard \/ AcceptTimeout \/ sighandler \/ waitActiveThreads
             \/ UNCHANGED vars
    <2>1. UNCHANGED <<fsVars, peer, open, ioVars, onlineclients, astray, worker_error, pc,
                      userName>>
      BY <1>6
      DEF Scan, ScanUser, ScanFile, Listen, MainGuard, AcceptTimeout, sighandler,
          waitActiveThreads, countUser, addFile, vars, statsVars, connVars, workerVars
    <2>2. QED
      BY <2>1, UnseenByAll
  <1>7. QED
    BY <1>1, <1>2, <1>3, <1>4, <1>5, <1>6 DEF Next, Main, Terminated

\* The store starts with the objects an earlier run has left.
LEMMA Maps_Init ==
    ASSUME \A v \in Values : Size[v] # 0, Init
    PROVE  Abstract!Init
  <1>1. PICK saved \in [Paths -> Values \cup {NoValue}] :
            /\ entry = [p \in Paths |-> IF saved[p] = NoValue THEN NoInode ELSE p]
            /\ inode = [i \in Inodes |->
                            IF i \in Paths
                            THEN IF saved[i] = NoValue THEN <<>> ELSE Whole(saved[i])
                            ELSE <<>>]
    BY DEF Init
  <1>2. ASSUME NEW p \in Paths
        PROVE  ObjectAt(p) = saved[p]
    <2>1. ~Storing(p)
      BY DEF Init, Storing
    <2>2. CASE saved[p] = NoValue
      BY <1>1, <2>2 DEF ObjectAt, Stored
    <2>3. CASE saved[p] # NoValue
      <3>1. p \in Stored /\ Content(p) = Whole(saved[p])
        BY <1>1, <2>3, InodesAssumption DEF Stored, Content, Inodes
      <3>2. saved[p] \in Values
        BY <1>1, <2>3
      <3>3. QED
        BY <2>1, <3>1, <3>2, ValueOfWhole DEF ObjectAt
    <2>4. QED
      BY <2>2, <2>3
  <1>3. absObjects \in [Paths -> Values \cup {NoValue}]
    BY <1>1, <1>2 DEF absObjects
  <1>4. /\ absOnline = {} /\ absConnected = {} /\ absAnswer = [c \in Conns |-> NoAnswer]
        /\ absRefused = {} /\ absAstray = {}
    BY DEF Init, StatsInit, createList, absOnline, absConnected, absAnswer, absRefused,
           absAstray, AnswerTo, checkIfOnline, isInList
  <1>5. peer = [c \in Conns |-> NoUser] /\ request = [c \in Conns |-> NoRequest]
    BY DEF Init
  <1>6. QED
    BY <1>3, <1>4, <1>5 DEF Abstract!Init, Abstract!Paths, Paths

\* Every behaviour of the server, with any number of users, objects, blocks and
\* connections, with kills and with system calls that fail, is one the abstract store
\* allows: when each name has one client at a time, no block left unread spells a second
\* REGISTER, the disk does what write and unlink are told, and no block is empty.  (A
\* crash leaves an empty file of a STORE that has written nothing, which could not be told
\* from an empty block.)
THEOREM ServerImplementsStore ==
    ASSUME Discipline = "exclusive", NoRegisterSpelled,
           {"write", "unlink"} \cap Faults = {}, \A v \in Values : Size[v] # 0
    PROVE  Spec => ImplementsObjectStore
  <1>1. Init => Abstract!Init
    BY Maps_Init
  <1>2. RefInv /\ [Next]_vars => [Abstract!Next]_(Abstract!vars)
    BY Maps_Next
  <1>3. Spec => []RefInv
    <2>1. Spec => []FilesInv
      BY FilesInvariant
    <2>2. QED
      BY <2>1, TypeInvariant, NamesInvariant, RegistersOnceInvariant, NamesAreFreed,
         ServedAreOnline, SocketsInvariant, PTL DEF RefInv
  <1>4. QED
    BY <1>1, <1>2, <1>3, PTL DEF Spec, ImplementsObjectStore, Abstract!Spec

=============================================================================
