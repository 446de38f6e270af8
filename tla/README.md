# objectStore2019: a TLA+ model

objectStore2019 is a small object store in C: a server that keeps blocks of
bytes on disk for named users, and a client library that talks to it over a
Unix socket. This directory models the server, the library, the protocol
between them and the tests, checks the models with TLC, and proves the main
invariants with TLAPS.
Everything is translated from the code of the build without `DEBUG`.

## 1. The system

| component | state | operations |
|---|---|---|
| main thread (`server.c` main, createWorker) | `loop_breaker`, `global_failure` | scan the store, accept, create a worker, wait for the workers, exit |
| signal thread (`server.c` sighandler) | `loop_breaker` | wait for one signal, set the flag, print statistics on SIGUSR1 |
| worker thread, one per connection (`server.c` workerFunction) | `userName`, `worker_error`, two breakers | select, read and parse a header, call a handler, answer; at the end close, remove the name, decrement the counter |
| handlers (`serverapi.c`) | none of their own | registerFun, leaveFun, storeFun, retrieveFun, deleteFun, writeToClient |
| statistics (`serverapi.c`, `serverapi.h`) | four counters and two lists of names, under `mutex_stats` | addClientOnline, removeClientOnline, checkIfOnline, addFile, removeFile, getDirCounters, printStatistics |
| count of workers (`serverapi.c`) | `active_threads_counter`, under `active_threads_mutex` | increment, decrActiveThreads, waitActiveThreads |
| list (`liste.c`) | sorted linked list of names | insertList, deleteList, isInList |
| files | `data/<user>/<object>` | mkdir, open, read, write, close, unlink |
| protocol (`messages.c`) | none | parseRequestHeader, getResponseHeader, writen |
| client library (`api.c`) | one socket | os_connect, os_store, os_retrieve, os_delete, os_disconnect |
| process lifecycle (`cleanup`) | the socket file, the mutexes, the lists | cleanup at exit |
| test client and scripts | - | three tests; 50 clients in two rounds that reuse names |

**How they interact.** Main creates a detached worker for each connection and
afterwards shares with it only two flags, the statistics, the counter of
workers and the file system. A worker serves one request at a time. The library
sends a request only when it has read the answer to the last one. A signal
reaches the signal thread alone, which sets a flag that main and the workers
look at between requests.

**What is hard.** Workers interleave at every critical section and every
observable system call. A client may die at any of those points, in the middle
of a block too. A name is removed from the online list twice, once by LEAVE and
once by the end of the worker. `worker_error` survives from a request to the
next. What a refused STORE does not read of its block is parsed as the next
request. STORE is a sequence (subtract and unlink the old file, create, write,
add) that can be cut anywhere. The process may be killed and run again on
whatever files it left. The hazards, each with its line, are listed in
`PROJECT.json`.

**What makes each part correct.**

- statistics: the counters agree with the lists and with the files, and no name
  outlives its sessions;
- workers: their number is what main waits on; none is left when main exits;
- sessions: a client being served is online, and is alone with its name;
- STORE, DELETE, RETRIEVE: an OK is true, what is retrieved is one whole object,
  and no part of an object is left behind;
- server: no request of a client stops it, a signal does, and every request and
  every abandoned session ends;
- process: main outlives the workers, what they share outlives them, and exit
  ends the process;
- protocol and library: a block goes and comes back byte for byte, each answer
  is read by the call it answers, and neither end waits for the other for ever;
- list: it is the bag of names that its users take it for;
- tests: what the summary says is what happened.

## 2. The modules

| module | models | |
|---|---|---|
| `StoreNames` | the names of users and objects | constants and their assumptions |
| `Statistics` | `statistics_t`: an operator per critical section of `mutex_stats` | a list is the bag of its names |
| `FileStore` | the POSIX calls the server relies on | external: paths name inodes, descriptors refer to inodes |
| `ObjectServer` | main, signal thread, workers, handlers and clients, over the two above | the system, at the granularity of critical sections |
| `ObjectStore` | what a user of the store sees | abstract specification |
| `ObjectServerRefinement` | the mapping from `ObjectServer` to `ObjectStore` | refinement |
| `Lifecycle` | main, signal thread, workers, `cleanup`, the mutexes, the condition variable, the socket file | the system, at the granularity of lock and unlock |
| `Messages` | the headers and the two parsers of `messages.c` | pure operators |
| `HeaderParsing` | every short buffer, and the language of requests they are compared with | |
| `Connection` | the library, one worker and the two streams between them, over `Messages` | the data plane of one connection |
| `Liste`, `NameBag` | the linked list of `liste.c`, and the bag it implements | refinement |
| `TestBatteries` | `client.c`, `test_script.sh`, `testsum.sh` | |
| `MC...` | finite constants for TLC | one per module that is run |
| `ObjectServer_proofs` | types, workers, sessions, errors | six theorems |
| `ObjectServerRefinement_proofs` | files, answers, what is retrieved, counters and statistics; each step of the server as a step of the store | seven theorems |
| `Lifecycle_proofs` | threads and mutexes | four theorems |
| `TestBatteries_proofs` | the sums of the tests and the reasons of their failures | three theorems |
| `Messages_proofs` | C strings, `strtok`, and what the parsers make of each message | lemmas |
| `HeaderParsing_proofs` | every message is understood, and nothing else | four theorems |
| `Connection_proofs` | the streams of a connection stay in step | seven theorems |
| `Liste_proofs` | the cells can be numbered; the list is the bag | four theorems |

The same code is looked at from three sides. `ObjectServer` has every worker,
file and name, and a message is one value. `Connection` has one worker, and a
message is a sequence of symbols cut by every read. `Lifecycle` has no requests,
and a mutex is taken in one step and released in another. What one of them
takes as atomic is what another one splits: `Statistics` has bags, and `Liste`
shows that the linked list is one; `ObjectServer` has one step for each
critical section, and `CounterExact` of `Lifecycle` shows that the mutex makes a
read and a write of the counter one step.

### ObjectServer

**State.** `pc`, `userName`, `worker_error` and `left` are the locals of each
worker that outlive a step; `request`, `reply` and `sent` are what is on its
socket; `peer`, `open` and `issued` belong to its client; `entry`, `inode`,
`fd` and `offset` to the file system. `astray` and `renamed` are history: the
connections whose ends are out of step, and the names that a connection has mixed
up. The counters are integers. In C they are `unsigned long`, and a negative value
stands for one that wrapped around zero.

**Steps.** A step of a worker is a critical section or a system call another
thread can observe. Local computation belongs to the step before it. An example,
STORE:

| action | code |
|---|---|
| `Store` | `removeFile` under `mutex_stats` (serverapi.c:117) |
| `StoreOpen`, `StoreOpenFails` | `open` (119) |
| `StoreChunk` | one unit written (127, 140, 153) |
| `StoreAbort` | `read` returns 0: `close`, `unlink`, the connection ends (141-148) |
| `StoreFinish` | `close`, `addFile`, and the answer (164-165, server.c:335-339) |

REGISTER is three steps (`mkdir`, the check of the name, its addition), LEAVE
one, DELETE two, RETRIEVE one for the open and the header, one per unit and one
for its end. `RetrieveSpin` is the loop that makes no progress when the file has
become shorter than the length announced. In `StoreAbort` the `close` and the
`unlink` are one step: nothing can be told from the state between them, since
the path still names the incomplete file.

**Data.** A block is a number of units, each standing for a piece of up to
`BUFFER_SIZE` bytes and identified by the block it is a part of, so that a mixed,
short or overwritten file can be told from a whole one.

**Clients.** A client registers (as os_connect does), sends up to
`MaxRequests` requests, and may close or die at any step. `Discipline` says when
a second client may use the name of a first:

- `"any"`: at any time;
- `"sequential"`: once the first connection is closed, as `test_script.sh` does
  when its second round reuses the names after `wait`;
- `"exclusive"`: once the worker of that connection is gone as well.

The code is right under `"exclusive"` and is not under `"sequential"`: that is
one of the findings.

**Faults.** `Faults` is the set of system calls that may fail. Each failure
follows the error path of the code. An error of main's select is not among them:
main then exits under its workers, which for the files and the clients is the kill of
`Restart`, and for the threads is in `Lifecycle`.

**Out of step.** Three errors put the two ends of a connection out of step
(`astray`): `open` fails in a STORE and the block stays on the socket
(serverapi.c:119), `read` fails in a RETRIEVE and a KO stands where data were
announced (229), or a RETRIEVE follows an error and is answered twice (server.c:345).
The client goes on, and takes something else for each answer. The worker parses what is
left of a block as its next header: `ReadNoHeader` when it is none, and
`LeftoverRequest(c, r)` when it spells the request `r`, which is then served like any
other. `Spelled` is the set of requests that the clients' blocks may spell, and
`MaxLeftovers` bounds how many are parsed beyond `MaxRequests`. A second REGISTER
overwrites `userName` by `strncpy` without a terminator: it may become any name
(`RegisterAdd`), and the old one is never removed from the list; both go to `renamed`.

### ObjectStore and the refinement

`ObjectStore` is what `api.h` promises: a map from paths to blocks, a set of users
online, and one request at a time per connection, which takes effect in the
step that answers it. What clients can see beyond that is in it too, as actions of
its own: a STORE removes the object it replaces before the new one has arrived
(`Overwrite`), a KO after a STORE promises nothing (`Stored`), the request of a
client that is gone may or may not take effect, and a crash leaves each object as
it was, or, when a STORE of it was under way, absent, whole or `Damaged`
(`Crash`). It says which connections have had a request refused (`refused`): only on
those is a STORE that succeeds answered KO, and a RETRIEVE answered twice. And it says
which are `astray`, and what may make them so: nothing is promised of the answers
there, but their requests still change only the objects of their own user.

`ObjectServerRefinement` maps a file that no worker is storing to the block it
holds, a file that is being stored to no object, the bag of names online to a set,
and the socket of a connection to the answer its client takes for that of its last
request: none (`NoAnswer`) when that is something else. All other variables
(locations, descriptors, offsets, counters, flags) disappear, so every step on them
alone must be a stutter. `ImplementsObjectStore` is `Abstract!Spec`.

### Lifecycle

`main`, `sig` and `worker` are the locations of the threads; `mutex_stats` and
`active_threads_mutex` hold their owner, `Nobody` or `"destroyed"`. The results of
the pthread calls are ignored in the code, so the lock of a destroyed mutex goes
on without it (`Lock`), an unlock by another thread does nothing, and destroying a
mutex that is held fails. `read` is the counter between the read and the write of
`active_threads_counter++`. `exit` is `Unlink`, `CleanupLock`, `CleanupUnlock`,
`Destroy`, `Exit`, whoever calls it and whatever he holds. `Kill` ends the process at
any step, and `Start` runs it again, with the socket file that is left. A worker's
requests are abstracted to critical sections of `mutex_stats` that may set
`global_failure`.

### Messages, HeaderParsing and Connection

A text is a sequence of symbols: space, newline and NUL, and words, each standing
for a run of other bytes. `strtok` follows the rules of `strtok_r` (leading
delimiters skipped, one consumed), `strlen` stops at NUL, and both parsers are
written from them in the order of their early returns. `HeaderParsing` enumerates
every buffer a read can return up to a bound, and states independently, by the words
of a text, which texts are requests.

In `Connection` each `read` takes a prefix of a stream, up to the size of its
buffer; `SendRest` passes on the block in pieces of any size. `os_retrieve` and
`storeFun` have their arithmetic, `left_data_len` modulo the width of `size_t`. Each
end may die at any step, and the server may be told to stop. `store` is the content
of the files of one user; `Elsewhere` stands for the files whose names only a block left
unread spells. `Faults` are the calls on files that may fail, with the answers of the
code: `open` leaves what is on the stream to be parsed by the same parser, `read` puts
a KO in the middle of the data, and `WriteChunk` is the unchecked `write`, which from
some byte on writes nothing more of this block.

### Liste and NameBag

Cells with `key` and `next` on a heap. A loop visits the least set of cells that has the
head and, with each cell it goes on from, the next (`Visited`); `Walk` is where the loop
that all operations share stops. What is in a cell that was freed stays there.
`called` and `result` record the last operation, so that the mapping to `NameBag`
compares what each call returned, and not the contents alone.

### TestBatteries

A process is one run of `client.c`. The two rounds, the `wait` between them, the
server that may not be listening when the first clients start, the counters of each
client, the line it logs and the sums over the lines are as in the code; the
server either does what it is asked or refuses, and after a refusal may go on
refusing as `worker_error` makes it, or send the answer of another call. It may close
the connection at any time (it stops, or could not make a worker): SIGPIPE then kills
the client in its next call (`Die`), and it logs no line.

## 3. What TLC checks

| run | instance | distinct states | shows |
|---|---|---|---|
| `exclusive` | 2 users, 2 connections of 2 requests, blocks of 1 and 2 units, a failing `open`, blocks that spell any request but a REGISTER | 1 780 000 | ServedIsOnline, AccountingExact, NoPartialObject, NoGlobalFailure, QuiescentAtExit, AckMeansDone, RetrieveReturnsObject, NeverRefused |
| `shared_names` | 2 users, 2 connections of 1 request and 1 leftover, any discipline, all 10 faults, blocks that spell a REGISTER or a LEAVE | 2 540 000 | TypeOK, WorkersCounted, CountersMatchLists, NoGhostOnline |
| `object_store` | 1 user, 2 connections of 2 requests and 1 leftover, 2 blocks that spell any request but a REGISTER, 6 faults, one crash or exit and restart | 70 000 | AckMeansDone, ImplementsObjectStore |
| `restart` | 2 users, 2 connections of 1 request and 1 leftover, a failing `open`, one crash or exit and restart | 340 000 | AccountingExact, ImplementsObjectStore |
| `liveness` | 1 user, 2 connections of 1 request, any discipline, failing `pthread_create` and `unlink`, fairness | 153 000 | RequestServed, SessionEnds, SignalStops |
| `lifecycle` | 2 workers, 2 starts, every fault, fairness | 20 000 | TypeOK, ListsLiveInSection, CounterExact, SocketFileExplained, StopEndsProcess, ExitEndsProcess |
| `headers` | texts of up to 5 symbols, messages with up to 3 symbols after them | 125 000 | RequestsUnderstood, ResponsesUnderstood, AcceptsExactlyRequests |
| `protocol` | 4 calls, blocks of 1, 2 and 11 symbols, buffers of 9 and 8, 6 faults | 3 190 000 | StoredIsSent, RetrievedIsStored, FitsBlock, InStep, NeverBothWait, RetrieveEnds |
| `names_list` | 3 names, 5 cells | 33 000 | Sorted, CellsInUse, ImplementsNameBag |
| `batteries` | 2 clients, 2 objects | 2 120 000 | PassedHaveNoFailure, OperationsCounted, FailuresExplained |
| `reused_name` | 1 user, sequential discipline | | violates NoGlobalFailure |
| `stale_error_store` | 1 user, exclusive discipline | | violates StoreRefusalMeansNotStored |

Users and connections of `ObjectServer` are symmetric, and so are the cells of
`Liste`; the reduction is used in the runs of those that check no liveness.

**Bounds.** The failures of the server that we know of need two workers of one
name, or one worker and two requests (an error and the request it spoils), or one
worker, a refused STORE and the request its block spells. The runs of the exclusive
discipline have two connections of two requests each, of which a leftover may be one, or of
one request and one leftover; `reused_name` has two workers of one name. What three
sequential connections of one name reach in `RetrieveSpin` (a worker that is still in
`open` when its successor's RETRIEVE has begun) two connections of one name reach under
the discipline `"any"`, where they need not wait for each other: so `liveness` has that
discipline, a saved object at the start, and a failing `unlink`, without which a STORE of
one request unlinks the file that the other worker reads and does not truncate it. `Spinning`
is reached there, and with more connections or requests only in more ways.
A block of two units is the smallest one that can be cut in the middle, and a second value of one unit makes an overwrite
change the length. One restart is enough because nothing but the files
crosses it. `Lifecycle` needs two workers, so that one is counted while the other is
created or ends, and two starts, so that the second finds what the first has left;
a third start finds nothing else. In `protocol` the request of the long block takes
two reads whatever the cut, its data spell messages, the part that the first read leaves
is a DELETE, and four calls are enough for an error, the request it spoils, and the two
calls that would show streams out of step. In `headers` the texts of up to five
symbols include the shortest request of each command and its misspellings; a block of length 2 is the smallest with a proper
part, and three symbols after a header are one more than it has. A list of
four names has a head, a middle, a last cell and equals. Deadlock
is checked in every run but `headers`, whose behaviours only enumerate buffers and
end at a bound; the other systems stop only in a state that is an end
(`Terminated`), and stutter there.

**Fairness.** `ObjectServer`: weak fairness of each worker, of main and of the
startup scan, with separate conditions because each is a thread that the kernel
schedules. No fairness is assumed of the signal or of the client's closing. A worker
in the middle of a block is taken to receive the next unit or the end of the stream:
`os_store` writes the whole block in one call, or its process ends. A client that
stops in the middle of that call and stays connected, or asks for an object and
never reads it, is outside the assumption, and would keep the server from stopping.
`liveness` leaves a failing `read` out of its faults: fairness of the worker would
then force the failure in `RetrieveSpin`, and hide a loop that makes no progress. It
leaves `open` out as well: a block left unread may spell a STORE whose data never come,
and a worker that waits for them is beyond that assumption on the clients.
`Lifecycle`: weak fairness of each thread; strong fairness of the steps that acquire
a mutex, since others may take it again and again and a pthread mutex does not starve
a thread for ever; and of a worker's leaving once it is told to (`LeaveWhenTold`),
which `liveness` shows of `ObjectServer` but for a worker that is `Spinning`. Nothing makes a signal come or an error
happen. `Connection` has no fairness; that nobody waits in vain is stated as safety
(`NeverBothWait`, `RetrieveEnds`, and the absence of deadlock).

**Runs that end in a violation.** Each one contradicts what the code's own
comments say.

| run | violated | what happens |
|---|---|---|
| `reused_name` | NoGlobalFailure | client 1 leaves and its connection closes; client 2 registers the name; worker 1 removes it again (server.c:380); client 2's LEAVE finds nothing and stops the server; serverapi.h:70 says LEAVE always succeeds |
| `stale_error_store` | StoreRefusalMeansNotStored | RETRIEVE of an absent object, then a STORE that stores and is answered KO (server.c:335); api.h:19 |

**Exceptions named in properties.** Where the code does not do what a property
says in one situation, the property excepts that situation by name, through a history
variable or a fault, and holds in all others. The situations are reachable in the
models:

| situation | where | excepted by |
|---|---|---|
| an error of main's select exits without waiting for the workers | server.c:81 | `failed = "select"` in ListsLiveInSection, CounterExact |
| an error of initializeStatistics exits with the mutex that cleanup locks | serverapi.c:335 | `failed # "init"` in ExitEndsProcess |
| a STORE whose `open` fails leaves its block unread; a RETRIEVE whose `read` fails has a KO in its data; a RETRIEVE after an error is answered twice | serverapi.c:119, :229, server.c:345 | `astray` in the properties of `Connection` and in `ObjectStore` |
| a block left unread registers a second name | server.c:236 | `renamed` in NoGhostOnline; no REGISTER in `Spelled` where the discipline is exclusive |
| a file becomes shorter while it is sent | serverapi.c:226 | `Spinning` in RequestServed, SessionEnds, SignalStops |
| a block with a NUL byte is measured short | messages.c:115, :227 | `TransfersZero` in NeverBothWait, RetrieveEnds |
| os_retrieve goes round its loop when the server has died | api.c:113 | `worker = "dead"` in RetrieveEnds |
| a failed disconnection is not in the log | client.c:193 | `DISCONNECT` in PassedHaveNoFailure |
| two REGISTERs of one name both pass the check | serverapi.c:80 | the discipline of the run |
| a full disk loses a part of a block unseen | serverapi.c:127, :153 | `lost` in StoredIsSent; no `write` fault where AckMeansDone is checked |
| a client that is killed logs no line | api.c:54, client.c:180 | `Logged` in PassedHaveNoFailure, OperationsCounted |
| a failing `unlink` makes a later LEAVE stop the server | server.c:272 | no `unlink` fault where NoGlobalFailure is checked |

**Mutants.** For each property of a passing run, `PROJECT.json` names a variant
of one definition (they stand in the modules just before the definition they
vary, marked "A variant with a fault") under which TLC finds the property
violated. The variants are used nowhere else.

## 4. What is proved

For all constants that meet the named assumptions of the modules: finite sets
of users, objects, connections, workers and test clients; any sizes of blocks, numbers
of requests, starts and restarts, and sets of faults but those that the second column
excludes.

| theorem | under | statement |
|---|---|---|
| `TypeCorrect` | any discipline | `Spec => []TypeOK` |
| `WorkersAreCounted` | any discipline | `Spec => []WorkersCounted` |
| `NamesAreFreed` | any discipline, any leftovers | `Spec => []NoGhostOnline` |
| `ServedAreOnline` | exclusive* | `Spec => []ServedIsOnline` |
| `ServerKeepsServing` | exclusive*; no fault of `mkdir_store`, `unlink` | `Spec => []NoGlobalFailure` |
| `WhoWaitsIsNotRefused` | exclusive* | `Spec => NeverRefused` |
| `StoredObjectsAreWhole` | exclusive*; no fault of `write`, `unlink`; no kill | `Spec => []NoPartialObject` |
| `WhatIsRetrievedIsStored` | exclusive*; no fault of `write`, `unlink`; no kill | `Spec => RetrieveReturnsObject` |
| `AcksAreTrue` | exclusive*; no fault of `write` | `Spec => AckMeansDone` |
| `CountersAgreeWithLists` | any discipline | `Spec => []CountersMatchLists` |
| `StatisticsAreExact` | exclusive*; no fault of `write`, `unlink` | `Spec => []AccountingExact` |
| `AtRestAtExit` | exclusive*; no fault of `write`, `unlink` | `Spec => []QuiescentAtExit` |
| `ServerImplementsStore` | exclusive*; no fault of `write`, `unlink`; no empty block | `Spec => ImplementsObjectStore` |
| `LifecycleTypes` | | `Spec => []TypeOK` (of `Lifecycle`) |
| `WorkersCountedExactly` | | `Spec => []CounterExact` |
| `ListsOutliveWorkers` | | `Spec => []ListsLiveInSection` |
| `OnlyKillsLeaveSockets` | | `Spec => []SocketFileExplained` |
| `SumsAreTrue` | | `Spec => []OperationsCounted` (of `TestBatteries`) |
| `PassedMeansPassed` | | `Spec => []PassedHaveNoFailure` |
| `FailuresHaveReasons` | | `Spec => []FailuresExplained` |
| `RequestsUnderstoodCorrect` | | `Spec => []RequestsUnderstood` (of `HeaderParsing`) |
| `ResponsesUnderstoodCorrect` | | `Spec => []ResponsesUnderstood` |
| `AcceptsExactlyRequestsCorrect` | | `Spec => []AcceptsExactlyRequests` |
| `ConnectionInvCorrect` | | `Spec => []ConnectionInv` (of `Connection`) |
| `StoredIsSentCorrect` | | `Spec => []StoredIsSent` |
| `RetrievedIsStoredCorrect` | | `Spec => []RetrievedIsStored` |
| `FitsBlockCorrect` | | `Spec => []FitsBlock` |
| `InStepCorrect` | | `Spec => []InStep` |
| `NeverBothWaitCorrect` | | `Spec => []NeverBothWait` |
| `RetrieveEndsCorrect` | | `Spec => []RetrieveEnds` |
| `ListInvCorrect` | | `Spec => []ListInv` (of `Liste`) |
| `SortedCorrect` | | `Spec => []Sorted` |
| `CellsInUseCorrect` | | `Spec => []CellsInUse` |
| `ListIsBag` | | `Spec => ImplementsNameBag` |

Exclusive* is the exclusive discipline and blocks that spell no REGISTER
(`NoRegisterSpelled`): a leftover REGISTER takes another user's name without regard to
any discipline. Every other leftover request is included. The theorems of `Connection`
hold while the two ends are in step, as their properties say.

The argument for `ObjectServer`:

- **Types.** `TypeOK` is not inductive: it does not say that a worker which
  handles a STORE has a name and an open file. `TypeInv` adds `WorkerOK(c)`:
  what each location of a worker implies of its request, its name, its
  descriptor and its peer. Every other proof rests on it.
- **Workers.** `WorkersCounted` is inductive given the types. One step adds a
  live connection, one removes it, and each changes the counter by one.
- **Names freed.** A session of `u` is a worker that registered `u` and has not
  made its last removal. The REGISTER of a worker without a name adds exactly one
  entry and one session; that of a worker which has one puts both names among
  `renamed`. The last removal takes one of each, or finds no entry. LEAVE takes
  an entry only.
- **Served are online.** Under the exclusive discipline, and as long as a worker
  registers once (`RegistersOnce`), `OneWorkerPerName` is inductive: live workers have
  distinct peers, and a worker's name is its peer's.
  So only the worker itself removes its name, and a worker that goes on serving
  has not.
- **Server keeps serving.** `NoSharedDataError` strengthens `NoGlobalFailure`:
  no worker has met that error, and the file that a DELETE has found is there
  until its worker removes it, as no other worker touches that directory. LEAVE
  finds its entry by `ServedIsOnline`.
- **Not refused.** A refusal needs an entry, an entry needs a session
  (`NoGhostOnline`), and the session is another live worker of the same name,
  which `OneWorkerPerName` excludes.

Both assumptions of `ServerKeepsServing` are needed: `reused_name` refutes it
under the sequential discipline; a failing `mkdir` of the store sets the flag at
once, and a failing `unlink` leaves a SHARED_DATA_ERROR that LEAVE then finds.

The argument for the files and the answers (`ObjectServerRefinement_proofs`):

- **One file, one worker.** `OneNamePerFile` says that no inode has two names, and
  `FileOK(c)` that a worker in the middle of a STORE or a RETRIEVE has open the inode
  that its path names now, that a STORE has written exactly the units that have
  arrived, and that a RETRIEVE has sent exactly the units before its offset. Neither is
  inductive without the other, nor without `OneWorkerPerName`: it is because no other
  live worker has the same user that nobody unlinks, truncates or writes that
  inode in between. Together (`FilesInv`) they hold through restarts and with every
  fault but a `write` that loses a part of a block.
- **Whole objects.** The only step that ends a STORE and leaves its file is
  `StoreFinish`, with `left` at zero: the units written are then the whole block.
  `StoreAbort` unlinks. A kill leaves a part of an object behind, which
  is why this theorem, alone with the one below, is about one run of the process.
- **Retrieved.** At the end of a RETRIEVE the offset is the length of the file, so
  what was sent is the file, and the file is whole by the theorem before.
- **Answers.** `SocketsOK`, which every behaviour has, says that nothing is answered
  before the end of a request but the header of the data. That REGISTER's OK means one
  entry, not two, needs `NoGhostOnline`: a name has at most the entries of its
  sessions, and under this discipline at most one session.

The argument for the statistics (in the same module):

- **Sums.** `Total(f, S)` is the sum of `f` over `S`, defined as the number of
  pairs of a member of `S` and a positive number up to its value. The prover has no
  induction over data, so a sum defined by recursion or by a fold could not be
  reasoned about; as a cardinality it can: `TotalSplit`, `TotalStep` and `TotalOneMore`
  follow from the theorems on finite sets, and are what every step of the counters
  needs.
- **Lists.** `CountersMatchLists` is inductive given the types. It holds under any
  discipline because each critical section changes a list and its counter together.
- **Objects.** `AccountingExact` is not inductive. `NewFileOK` adds that the file
  a STORE is about to create has no entry yet, so that creating it overwrites nothing
  that is counted; `ScanOK` that no worker runs while the startup scan adds up the
  files, and that what it has scanned is there. Between the `subtract` and the
  `add` of an overwrite the file is one that is being stored, which `Counted` leaves out.
- **At exit.** Main exits at a counter of zero, so by `WorkersCounted` there is no live
  worker, by `NoGhostOnline` no entry, and no file is being stored.

The refinement (at the end of that module) is step by step: one lemma for each
action, on the invariant `RefInv`, the conjunction of the ones above. A worker's
last step of a request is the store's action of that request. `removeFile` before
a STORE is `Overwrite`, or a stutter when there was nothing; the steps in the middle
of a block change no object, since a file that is being stored is none; a `StoreAbort`
ends a request whose effect was `Overwrite`. A kill is `Crash`: at a path
that was being stored it leaves, by `FileOK`, the first units of the block, which are
the block or a damaged object. A second answer, a failing `read` and a failing `open`
put the connection in `astray`; a leftover request is `Ask`, by a client that may be
gone. Two hypotheses are about the files: a `write` that loses a part leaves a
damaged object without a crash, and an `unlink` that fails a part of one. And an empty
block could not be told from the empty file that a kill leaves of a STORE that has
written nothing. That `Damaged` is no block is an assumption of the mapping.

The argument for `Lifecycle` is one inductive invariant, `IInv`, of five parts. None
of the properties is inductive alone: `CounterExact` says nothing of the counter while
the mutex is held, and `TypeOK` does not exclude a decrement at zero.

- `HolderInv`: a thread is inside a critical section of `active_threads_mutex` if
  and only if it holds it, unless `cleanup` has destroyed it.
- `CountInv`: the counter is the number of live workers but for one that main has
  created and not yet counted, and whoever is about to write the counter has read
  its present value. After the mutex is destroyed (an exit of main's select with
  workers alive) two of them may read the same value: the counter may then be too
  large, never too small, which is why it cannot wrap around zero.
- `PhaseInv`: there are workers only while main accepts or waits, or after that
  error; main leaves `waitActiveThreads` at a counter of zero, hence by `CountInv` with
  no worker.
- `SocketInv`: before bind the file is there only after a kill; `cleanup` removes it
  before anything else.
- the types of all but the flags, whose own invariant (`NextFlags`) is separate.

The argument for `TestBatteries` is one inductive invariant, `BatteriesInv`, which
`batteries` satisfies too:

- `CallsInv(p)`: the counters of a process are the number of its operations and of
  those that have failed, it has made them up to the object it is at (the call it is
  killed in is not one of them), and `operations` counts the connection and the
  disconnection on top. A line passes when all these agree, which is when nothing has
  failed (`PassedLine`).
- `LogInv` and `SummaryInv`: a line that is still to be read says what its process has
  counted, and the sums are those of the processes whose line has been read (`Read`).
  When everything is summed every process that was not killed has been read.
- `StoresInv` and `RoundsInv`: what the first round has got to and the second has
  not is stored, or its STORE has failed; and the second round runs only
  when the first has ended, which is where the `wait` of the script matters.

The argument for the protocol (`Messages_proofs`) is about what the C string functions
do to a text that starts with a word:

- A NUL-free text is its own C string, and a header followed by data is, as a C string,
  the header followed by the data up to their first NUL (`CStringAfter`). That the
  first of several places can be chosen at all (`LeastNumber`) comes from the library's
  well-founded ordering of the subsets of an interval.
- `strtok` on a text in which a word stands at `k` and a space at `k + 1` returns the word
  and the text from `k + 2` (`StrtokAt`), so a whole header is parsed in one pass over
  places known in advance.
- From these, one lemma per message: `RequestIsUnderstood`, `LeaveIsUnderstood`,
  `StoreIsUnderstood`, `ShortResponses`, `DataAreUnderstood`. They hold for any symbols in
  the data, spaces, newlines and words of the protocol among them, and say what is
  understood when there is a NUL: the part before it. `HeaderParsing_proofs` applies them
  to the buffers of that module, `Connection_proofs` to what a read returns.
- `AcceptsExactlyRequestsCorrect` is about any text, where spaces stand together, at the
  start or nowhere. `IsRequest` finds the n-th word by counting the words that start
  before it; the parser finds it by calling `strtok` n times. `LeftBehind(t, n, s)` ties
  the two: `s` is what is left of `t` from a place where no word goes on and before which
  n words start, or all of them where they are fewer. `StrtokSteps` takes it from n to
  n + 1, and says that the token is the next word and how long the rest is. Four steps
  give the words a request has, and `NumberIsRead` what `strtol` makes of the third.

The argument for `Connection` is one inductive invariant, `ConnectionInv`, with a lemma
for each action. It says what the two streams hold, for each pair of a location of the
call and one of the worker, as pieces of one request and of its answer:

- `Unread`: the worker has read nothing, and what is on the stream and what the call has
  still to write are the header and the block, cut somewhere (in one write of `os_store`,
  anywhere).
- `Storing`: the stream holds the block from `m` to `n`, the call the rest, and `left` is
  the length less `m`; the file holds the block up to `m`, unless a write has failed.
- `Answer`: nothing, an OK or a KO, or a header of data and the object up to `m`, of which
  `Written` says what the worker has still to write. An OK to a STORE is there only when
  the file is the block.
- `Reading`: what `os_retrieve` has copied is the object up to `k`, the stream holds `k` to
  `m`, and `left_data_len` is the length less `k`.
- `Resting` and `ResultIsTrue`: between two calls both streams are empty, and what the
  last call returned is true.
- Where a block has a NUL the part that came with the header was measured short
  (messages.c:115, :227); `Storing` and `Reading` then say only that more bytes are awaited
  than will come, which is what `NeverBothWait` and `RetrieveEnds` except.
- All of it ends when the two ends get out of step (`astray`).

The properties then follow by cases on the locations. Three assumptions on the constants
carry the proof. A header, of at most 8 symbols for a request and 6 for an answer, fits the
buffers (config.h:15, :18), so that a read takes a header whole; lengths are less than `SizeModulus`, so that `left_data_len` does
not wrap while it counts down; and words contain neither space, newline nor NUL, which
is what a word stands for.

The argument for `Liste` is that the cells in use can be numbered (`ListInv`): there is a
sequence of cells without repetition, from the head to the one without a key, in the
order of `next` and in that of the keys, and it has all the cells in use. That the keys
are in order is said of any two cells and not of neighbours, so that no induction is
needed to know, at the key where a loop stops, that all later ones are as great.

- `LoopVisits`: a loop that passes the first cells and not the `k`-th visits the first `k`.
  The first `k` are one of the sets in `Visited`; and of the numbers of the cells that
  another of them leaves out, there would be a least one (`LeastIndex`).
- `WalkStops`: so there is a `k` where the loop of an operation stops, with every key
  below the bound before it and none after.
- `InsertKeepsList` and `DeleteKeepsList` number the cells anew, from `k` on.
- The refinement: the bag counts the cells in use that hold a name. A cell more is a name
  more (`NamesChange`), and `WalkFinds` says that a name that is not found is not there.

**Only model-checked.** Liveness (RequestServed, SessionEnds, SignalStops,
StopEndsProcess, ExitEndsProcess): liveness under fairness and ENABLED are out of
this prover's reach. The modules declare no RECURSIVE operator.

## 5. What is not modelled

- The loop in which `getResponseHeader` reads on for the rest of a KO
  (messages.c:166-197): the server writes each KO in one call.
- Failing `socket`, `connect` and `malloc` in the library, which make a call return 0
  or NULL and change nothing; a connection reset while data are unread.
- A client that sends its header in pieces (messages.c:41). The library does not:
  the header is one write of a few bytes. A server that reads half a header refuses it,
  or takes the other half for data.
- A read that fills `rawBuffer`, whose text has then no zero after it: undefined, as
  are FD_SET beyond FD_SETSIZE (server.c:186) and the use of destroyed lists, of which
  only the reachability is modelled.
- A failing `strdup` (liste.c:32) and, in `Statistics`, a failing `malloc` of the list
  (serverapi.c:503): `Liste` returns the -1 that its callers do not look at.
- A second server in the same directory (serverapi.c:371): no document says that it
  is meant to work. The statistics that SIGUSR1 may be too late to print
  (server.c:143): `Lifecycle` has the order of events, and nothing promises the text.
- The descriptor that `retrieveFun` leaves open when `fstat` fails, and what `malloc`
  returned when `accept` fails: resources nothing counts.
- Names with a "/" in them, or "." or "..", which lead to other directories or make `open`
  fail (`StoreNames`): `open` may fail for any name in the runs that have the fault, and
  that one user sees nothing of another's files is about single-component names.
- A NUL in a block, in `ObjectServer`: `Connection` has it.
- The exit of main when its select fails, in `ObjectServer`, beyond the kill it amounts to
  for files and clients: `Lifecycle` has it.
- Over-long names beyond the test of their length; the bytes of the blocks in
  `client.c`; the text that `printStatistics`, `printList` and `testsum.sh` print.
- The list test (`mytest.c`), which is empty without `DEBUG`, the build and the report.

## 6. Plan

Done, in this order: `StoreNames`, `Statistics`, `FileStore`, `ObjectServer` with its
runs and the proofs of types, of the worker count and of sessions; `ObjectStore` and the
refinement; `Lifecycle` and its proofs; `Messages`, `HeaderParsing`, `Connection`;
`Liste` and `NameBag`; `TestBatteries`; the proofs of the files, of the statistics, of the
refinement, of `TestBatteries`, of the parsers, of `Connection` and of `Liste`.

Left, by importance:

1. The list with a failing `strdup`, and `Statistics` over it.
2. Names of several components, and the directories they lead to.
