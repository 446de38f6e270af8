----------------------------- MODULE Connection -----------------------------
(***************************************************************************)
(* One connection: a process that calls the library api.c, the worker that *)
(* serves it, and the two byte streams between them.  A read takes what is *)
(* on the stream, up to the size of its buffer, so a message may arrive    *)
(* with the one before it, or in pieces.                                   *)
(*                                                                         *)
(* The file calls of the worker may fail.  What a refused STORE leaves of  *)
(* its block on the stream is read as the next header, by the same parser. *)
(*                                                                         *)
(* The other connections, and what they do to the files and the names, are *)
(* in ObjectServer.                                                        *)
(***************************************************************************)
EXTENDS Messages

CONSTANTS
    Objects,        \* words that are the names of objects
    Blocks,         \* the blocks the process stores: sequences of symbols
    Absent,         \* no object
    Elsewhere,      \* stands for the names a leftover block may spell beside Objects
    Faults,         \* the calls on files that may fail
    BufferSize,     \* BUFFER_SIZE, in symbols
    ResponseSize,   \* BUFFER_RESPONSE_SIZE - 1, in symbols
    SizeModulus,    \* size_t counts modulo this
    MaxCalls        \* bound: calls of the library after os_connect

\* The buffers hold a header (config.h:15 and :18), which has up to 8 and 6 symbols.
ASSUME SizesAssumption ==
    /\ Names # {} /\ Objects \subseteq Names
    /\ Blocks \subseteq Seq(UNION {Range(b) : b \in Blocks})
    /\ Absent \notin Seq(UNION {Range(b) : b \in Blocks})
    /\ \A b \in Blocks : b # <<>> /\ 0 .. Len(b) \subseteq DOMAIN Decimal
                      /\ Len(b) < SizeModulus
    /\ SizeModulus \in Nat \ {0} /\ MaxCalls \in Nat
    /\ BufferSize \in Nat /\ BufferSize >= 8 /\ ResponseSize \in Nat /\ ResponseSize >= 6

ASSUME FaultsAssumption ==
    Faults \subseteq {"open", "fstat", "read", "write", "opendir", "unlink"}

Files == Objects \cup {Elsewhere}

VARIABLES
    toServer, toClient,     \* what has been written and not read
    clientOpen, serverOpen, \* is each end open
    store,                  \* the objects of the user, Absent or a sequence
    \* the process and the library
    at,             \* where the process is
    call,           \* its last call of the library: which, of what object and block
    result,         \* what that call returned: 0 or NULL, or else 1
    unsent,         \* what the call has still to write
    data, size,     \* the block os_retrieve returns: what is in it, its length
    left_data_len,  \* os_retrieve's left_data_len
    calls,
    \* the worker
    worker,         \* where the worker is
    object, left,   \* the object of a STORE or RETRIEVE, what is still to transfer
    worker_error,
    \* history
    lost,           \* has the last STORE lost a part of its block in a write
    astray          \* have the two ends got out of step

clientVars == <<at, call, result, unsent, data, size, left_data_len, calls>>
workerVars == <<worker, object, left, worker_error, lost, astray>>
vars == <<toServer, toClient, clientOpen, serverOpen, store, clientVars, workerVars>>

Call(cmd, obj, block) == [cmd |-> cmd, obj |-> obj, block |-> block]

StoreCalls == {Call("STORE", o, b) : o \in Objects, b \in Blocks}

NameCalls == {Call(cmd, o, <<>>) : cmd \in {"RETRIEVE", "DELETE"}, o \in Objects}

Calls == StoreCalls \cup NameCalls \cup {Call("LEAVE", "", <<>>)}

Init ==
    /\ toServer = <<>> /\ toClient = <<>>
    /\ clientOpen = TRUE /\ serverOpen = TRUE
    /\ store = [f \in Files |-> Absent]
    /\ at = "connect" /\ call = Call("REGISTER", CHOOSE n \in Names : TRUE, <<>>)
    /\ result = 0 /\ unsent = <<>>
    /\ data = <<>> /\ size = 0 /\ left_data_len = 0 /\ calls = 0
    /\ worker = "select" /\ object = "" /\ left = 0
    /\ worker_error = "NO_SERVERW_ERROR" /\ lost = FALSE /\ astray = FALSE

Smaller(m, n) == IF m < n THEN m ELSE n

\* What a read into a buffer of n symbols takes of a stream, and what it leaves.
Prefix(s, n) == SubSeq(s, 1, Smaller(n, Len(s)))
Suffix(s, n) == SubSeq(s, n + 1, Len(s))

----------------------------------------------------------------------------
(* The library, and a process that goes on after a call that has failed.   *)

\* write to a socket whose other end is closed raises SIGPIPE.
Write(text, next) ==
    IF serverOpen
    THEN toServer' = toServer \o text /\ at' = next /\ UNCHANGED clientOpen
    ELSE at' = "killed" /\ clientOpen' = FALSE /\ UNCHANGED toServer

\* The header is written by one write, and arrives in one piece.
SendHeader(c) ==
    /\ call' = c /\ result' = 0
    /\ Write(RequestHeader(c.cmd, c.obj, Len(c.block)),
             IF c.block = <<>> THEN "reply" ELSE "send")
    /\ unsent' = c.block
    /\ UNCHANGED <<toClient, serverOpen, store, data, size, left_data_len, workerVars>>

os_connect == at = "connect" /\ SendHeader(call) /\ UNCHANGED calls

\* os_store, os_retrieve, os_delete and os_disconnect.
os_call(c) ==
    /\ at = "idle" /\ calls < MaxCalls
    /\ calls' = calls + 1
    /\ SendHeader(c)

\* The rest of the request: the kernel passes on any part of it at a time.  When the
\* server closes in the middle of it, the write returns what it has written, and
\* os_store does not look.
SendRest ==
    /\ at = "send"
    /\ IF serverOpen \/ unsent = call.block
       THEN \E n \in 1 .. Len(unsent) :
                /\ Write(Prefix(unsent, n), IF n = Len(unsent) THEN "reply" ELSE "send")
                /\ unsent' = Suffix(unsent, n)
       ELSE at' = "reply" /\ unsent' = <<>> /\ UNCHANGED <<toServer, clientOpen>>
    /\ UNCHANGED <<toClient, serverOpen, store, call, result, data, size, left_data_len,
                   calls, workerVars>>

\* A failed os_connect and an os_disconnect end the use of the library.
Return(res) ==
    /\ result' = res
    /\ at' = IF call.cmd = "LEAVE" \/ (call.cmd = "REGISTER" /\ res = 0)
             THEN "left" ELSE "idle"

Raw == Prefix(toClient, ResponseSize)

Answered ==
    LET r == getResponseHeader(Raw) IN r.error = "NO_MSG_ERROR" /\ r.cmd \in {"OK", "DATA"}

\* processResponseHeader, or the read of os_disconnect.  The end of the stream is
\* an empty read.
ReadReply ==
    /\ at = "reply"
    /\ toClient # <<>> \/ ~serverOpen
    /\ toClient' = Suffix(toClient, Len(Raw))
    /\ UNCHANGED <<toServer, clientOpen, serverOpen, store, call, unsent, calls, workerVars>>

ReturnReply ==
    /\ ReadReply
    /\ call.cmd = "RETRIEVE" => ~Answered
    /\ Return(IF (IF call.cmd = "LEAVE" THEN Raw = OKResponse ELSE Answered) THEN 1 ELSE 0)
    /\ UNCHANGED <<data, size, left_data_len>>

\* A variant with a fault: the data that came with the header are not subtracted.
RetrieveReplyUncounted ==
    LET r == getResponseHeader(Raw) IN
    /\ ReadReply
    /\ call.cmd = "RETRIEVE" /\ Answered
    /\ left_data_len' = r.len
    /\ data' = r.data
    /\ size' = r.len
    /\ IF left_data_len' = 0 THEN Return(1) ELSE at' = "data" /\ UNCHANGED result

\* os_retrieve goes on when the response is no KO.  left_data_len is unsigned.
RetrieveReply ==
    LET r == getResponseHeader(Raw) IN
    /\ ReadReply
    /\ call.cmd = "RETRIEVE" /\ Answered
    /\ left_data_len' = (r.len - Len(r.data)) % SizeModulus
    /\ data' = r.data
    /\ size' = (left_data_len' + Len(r.data)) % SizeModulus
    /\ IF left_data_len' = 0 THEN Return(1) ELSE at' = "data" /\ UNCHANGED result

\* The rest of the object, read a buffer at a time whatever is still due.
RetrieveRead ==
    LET chunk == Prefix(toClient, BufferSize) IN
    /\ at = "data" /\ toClient # <<>>
    /\ toClient' = Suffix(toClient, Len(chunk))
    /\ data' = data \o chunk
    /\ left_data_len' = (left_data_len - Len(chunk)) % SizeModulus
    /\ IF left_data_len' = 0 THEN Return(1) ELSE UNCHANGED <<at, result>>
    /\ UNCHANGED <<toServer, clientOpen, serverOpen, store, call, unsent, size, calls,
                   workerVars>>

\* At the end of the stream read returns 0, and the loop goes round.
RetrieveSpin ==
    /\ at = "data" /\ toClient = <<>> /\ ~serverOpen
    /\ UNCHANGED vars

\* The process ends, or is killed.
Exit ==
    /\ \/ at \in {"idle", "left"} /\ at' = "ended"
       \/ at \notin {"ended", "killed"} /\ at' = "killed"
    /\ clientOpen' = FALSE
    /\ UNCHANGED <<toServer, toClient, serverOpen, store, call, result, unsent, data, size,
                   left_data_len, calls, workerVars>>

----------------------------------------------------------------------------
(* The worker.                                                             *)

\* writeToClient: the worker goes on, or ends with the connection.
Reply(text, next) ==
    /\ toClient' = IF clientOpen THEN toClient \o text ELSE toClient
    /\ worker' = IF clientOpen THEN next ELSE "closing"

Worked == UNCHANGED <<clientOpen, serverOpen, clientVars>>

\* One read takes the header and what follows it.
ReadRequest(p) ==
    LET raw == Prefix(toServer, BufferSize) IN
    /\ worker = "select" /\ toServer # <<>>
    /\ toServer' = Suffix(toServer, Len(raw))
    /\ Worked

Refuse(p) ==
    /\ ReadRequest(p) /\ p.error # "NO_MSG_ERROR"
    /\ worker' = "closing"
    /\ UNCHANGED <<toClient, store, object, left, worker_error, lost, astray>>

\* The name may be in use, or a directory not be made.  A second REGISTER, left of
\* a block, leads to the directory of another user (of whose objects none is kept
\* here).
Register(p) ==
    /\ ReadRequest(p) /\ p.cmd = "REGISTER"
    /\ Reply(OKResponse, "select") \/ Reply(KOMessage, "closing")
    /\ store' \in {store} \cup (IF astray THEN {[f \in Files |-> Absent]} ELSE {})
    /\ UNCHANGED <<object, left, worker_error, lost, astray>>

Leave(p) ==
    /\ ReadRequest(p) /\ p.cmd = "LEAVE"
    /\ Reply(OKResponse, "closing")
    /\ UNCHANGED <<store, object, left, worker_error, lost, astray>>

FileOf(name) == IF \E o \in Objects : name = <<o>> THEN Head(name) ELSE Elsewhere

Delete(p) ==
    LET o == FileOf(p.name) IN
    /\ ReadRequest(p) /\ p.cmd = "DELETE"
    /\ \/ /\ store[o] # Absent
          /\ Reply(OKResponse, "select")
          /\ worker_error' = "NO_SERVERW_ERROR"
          /\ store' = [store EXCEPT ![o] = Absent]
       \/ /\ store[o] # Absent /\ "unlink" \in Faults
          /\ Reply(KOResponse, "select")
          /\ worker_error' = "SHARED_DATA_ERROR"
          /\ UNCHANGED store
       \/ /\ store[o] = Absent
          /\ Reply(KOMessage, "select")
          /\ worker_error' = "FILE_NOT_FOUND"
          /\ UNCHANGED store
       \/ /\ "opendir" \in Faults
          /\ Reply(KOMessage, "closing")
          /\ worker_error' = "CLIENT_DIRECTORY_UNAVAILABLE"
          /\ UNCHANGED store
    /\ UNCHANGED <<object, left, lost, astray>>

\* write, to a file that holds `contents`.  When the disk is full a part of this
\* chunk is written and nothing of those that follow, and nobody looks.
WriteChunk(f, contents, chunk) ==
    LET full == worker = "storing" /\ lost
    IN \E n \in 0 .. Len(chunk) :
        /\ IF full THEN n = 0 ELSE n = Len(chunk) \/ "write" \in Faults
        /\ store' = [store EXCEPT ![f] = contents \o Prefix(chunk, n)]
        /\ lost' = (full \/ n < Len(chunk))

\* A variant with a fault: the data that came with the header are not written.
StoreDropsPrefix(p) ==
    /\ ReadRequest(p) /\ p.cmd = "STORE"
    /\ object' = FileOf(p.name)
    /\ store' = [store EXCEPT ![FileOf(p.name)] = <<>>]
    /\ lost' = FALSE
    /\ left' = p.len - Len(p.data)
    /\ worker' = "storing"
    /\ UNCHANGED <<toClient, worker_error, astray>>

\* The old object, removed or truncated, gives way to the data that came with the
\* header.
Store(p) ==
    /\ ReadRequest(p) /\ p.cmd = "STORE"
    /\ object' = FileOf(p.name)
    /\ WriteChunk(FileOf(p.name), <<>>, p.data)
    /\ left' = p.len - Len(p.data)
    /\ worker' = "storing"
    /\ UNCHANGED <<toClient, worker_error, astray>>

\* The old object has been removed, if it could be, when open fails.  The rest of
\* the block stays where it is, unread.
StoreOpenFails(p) ==
    /\ ReadRequest(p) /\ p.cmd = "STORE"
    /\ "open" \in Faults
    /\ Reply(KOResponse, "select")
    /\ worker_error' = "DATA_ERROR"
    /\ \/ store' = [store EXCEPT ![FileOf(p.name)] = Absent]
       \/ "unlink" \in Faults /\ UNCHANGED store
    /\ astray' = (astray \/ toServer' # <<>> \/ unsent # <<>>)
    /\ UNCHANGED <<object, left, lost>>

Retrieve(p) ==
    LET o == FileOf(p.name) IN
    /\ ReadRequest(p) /\ p.cmd = "RETRIEVE"
    /\ store[o] # Absent
    /\ Reply(DataHeader(Len(store[o])), "retrieving")
    /\ object' = o /\ left' = Len(store[o])
    /\ UNCHANGED <<store, worker_error, lost, astray>>

\* open or fstat fails, for want of a file or not.
RetrieveFails(p) ==
    LET o == FileOf(p.name) IN
    /\ ReadRequest(p) /\ p.cmd = "RETRIEVE"
    /\ \/ /\ store[o] = Absent \/ "open" \in Faults
          /\ Reply(KOMessage, "select")
          /\ worker_error' = "FILE_NOT_FOUND"
       \/ /\ store[o] # Absent /\ "fstat" \in Faults
          /\ Reply(KOResponse, "select")
          /\ worker_error' = "DATA_ERROR"
    /\ UNCHANGED <<store, object, left, lost, astray>>

StoreRead ==
    LET chunk == Prefix(toServer, Smaller(left, BufferSize)) IN
    /\ worker = "storing" /\ left > 0 /\ toServer # <<>>
    /\ toServer' = Suffix(toServer, Len(chunk))
    /\ WriteChunk(object, store[object], chunk)
    /\ left' = left - Len(chunk)
    /\ Worked
    /\ UNCHANGED <<toClient, worker, object, worker_error, astray>>

StoreAbort ==
    /\ worker = "storing" /\ left > 0 /\ toServer = <<>> /\ ~clientOpen
    /\ \/ store' = [store EXCEPT ![object] = Absent]
       \/ "unlink" \in Faults /\ UNCHANGED store
    /\ worker' = "closing"
    /\ Worked
    /\ UNCHANGED <<toServer, toClient, object, left, worker_error, lost, astray>>

StoreFinish ==
    /\ worker = "storing" /\ left = 0
    /\ Reply(IF worker_error = "NO_SERVERW_ERROR" THEN OKResponse ELSE KOResponse, "select")
    /\ Worked
    /\ UNCHANGED <<toServer, store, object, left, worker_error, lost, astray>>

\* A variant with a fault: each piece is read from the start of the file.
RetrieveSendStart ==
    /\ worker = "retrieving" /\ left > 0
    /\ Reply(Prefix(store[object], Smaller(left, BufferSize)), "retrieving")
    /\ left' = left - Smaller(left, BufferSize)
    /\ Worked
    /\ UNCHANGED <<toServer, store, object, worker_error, lost, astray>>

RetrieveSend ==
    /\ worker = "retrieving" /\ left > 0
    /\ Reply(Prefix(Suffix(store[object], Len(store[object]) - left), BufferSize),
             "retrieving")
    /\ left' = left - Smaller(left, BufferSize)
    /\ Worked
    /\ UNCHANGED <<toServer, store, object, worker_error, lost, astray>>

\* read fails: a KO follows what has been sent of the object.
RetrieveSendFails ==
    /\ worker = "retrieving" /\ left > 0
    /\ "read" \in Faults
    /\ Reply(KOResponse, "select")
    /\ worker_error' = "DATA_ERROR"
    /\ astray' = TRUE
    /\ Worked
    /\ UNCHANGED <<toServer, store, object, left, lost>>

\* A variant with a fault: a RETRIEVE that succeeds is answered twice.
RetrieveFinishTwice ==
    /\ worker = "retrieving" /\ left = 0
    /\ Reply(OKResponse, "select")
    /\ Worked
    /\ UNCHANGED <<toServer, store, object, left, worker_error, lost, astray>>

\* An error of an earlier request is answered after the data.
RetrieveFinish ==
    /\ worker = "retrieving" /\ left = 0
    /\ IF worker_error = "NO_SERVERW_ERROR"
       THEN worker' = "select" /\ UNCHANGED <<toClient, astray>>
       ELSE Reply(KOMessage, "select") /\ astray' = TRUE
    /\ Worked
    /\ UNCHANGED <<toServer, store, object, left, worker_error, lost>>

\* The loop ends: the stream has ended, or, at any time, the server has been told
\* to stop.
LoopEnds ==
    /\ worker = "select"
    /\ worker' = "closing"
    /\ Worked
    /\ UNCHANGED <<toServer, toClient, store, object, left, worker_error, lost, astray>>

\* The worker closes the socket, or the process is killed.
Close ==
    /\ \/ worker = "closing" /\ worker' = "closed"
       \/ worker \notin {"closed", "dead"} /\ worker' = "dead"
    /\ serverOpen' = FALSE
    /\ UNCHANGED <<toServer, toClient, clientOpen, store, clientVars, object, left,
                   worker_error, lost, astray>>

----------------------------------------------------------------------------
Library ==
    \/ os_connect \/ SendRest \/ ReturnReply \/ RetrieveReply
    \/ RetrieveRead \/ RetrieveSpin

Worker ==
    \/ \E p \in {parseRequestHeader(Prefix(toServer, BufferSize))} :
        \/ Refuse(p) \/ Register(p) \/ Leave(p) \/ Delete(p)
        \/ Store(p) \/ StoreOpenFails(p) \/ Retrieve(p) \/ RetrieveFails(p)
    \/ StoreRead \/ StoreAbort \/ StoreFinish
    \/ RetrieveSend \/ RetrieveSendFails \/ RetrieveFinish
    \/ LoopEnds \/ Close

Terminated == ~clientOpen /\ ~serverOpen /\ UNCHANGED vars

Next == Library \/ (\E c \in Calls : os_call(c)) \/ Exit \/ Worker \/ Terminated

Spec == Init /\ [][Next]_vars

----------------------------------------------------------------------------
(* Properties.                                                             *)

\* Three things put the two ends out of step for good (astray): a RETRIEVE that is
\* answered twice because an earlier request failed (server.c:345), a STORE whose
\* file cannot be opened, which leaves a part of its block unread (serverapi.c:119),
\* and a file that cannot be read to its end (serverapi.c:230), whose KO the caller
\* takes for data.  A block with a NUL byte does so as well: its part that arrives
\* with its header is measured short by strlen (messages.c:115 and :227).  And a
\* write that fails goes unnoticed (serverapi.c:127 and :153).  The properties
\* except them by name.

Returned(cmd) == at = "idle" /\ call.cmd = cmd /\ result = 1 /\ ~astray

HasZero(block) == Contains(block, NUL)

\* The call transfers a block with a NUL byte in it.
TransfersZero ==
    \/ HasZero(call.block)
    \/ call.cmd = "RETRIEVE" /\ store[call.obj] # Absent /\ HasZero(store[call.obj])

\* An os_store that returns true has stored the block, byte for byte, however the
\* request was cut by the reads of the server, and whichever end dies after it, if
\* no write has failed.
StoredIsSent == Returned("STORE") /\ ~lost => store[call.obj] = call.block

\* An os_retrieve that returns a block returns the object, whole.
RetrievedIsStored == Returned("RETRIEVE") => data = store[call.obj]

\* What os_retrieve reads fits the block "allocato dalla funzione, contenente i dati
\* precedentemente memorizzati" (api.h:25), although each read takes a whole buffer.
FitsBlock == ~astray => Len(data) <= size

\* Between two calls nothing is left on the streams: each answer is read by the
\* call it answers, and each request by the handler it is for.
InStep ==
    at = "idle" /\ worker = "select" /\ ~astray => toServer = <<>> /\ toClient = <<>>

\* The caller and the worker never both wait for the other to write: a call that
\* waits for an answer has a worker that has something to read or to send, or an end
\* of the stream to read.
NeverBothWait ==
    /\ at \in {"reply", "data"} /\ toClient = <<>> /\ toServer = <<>> /\ serverOpen
    /\ ~astray /\ ~TransfersZero
    => ~(worker = "select" \/ (worker = "storing" /\ left > 0))

\* Unless the server dies, os_retrieve never goes round its loop at the end of the
\* stream, for which nothing can arrive any more: "In caso di errore, restituisce
\* NULL" (api.h:26).
RetrieveEnds ==
    at = "data" /\ ~serverOpen /\ toClient = <<>>
    => worker = "dead" \/ astray \/ TransfersZero

=============================================================================
