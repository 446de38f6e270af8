------------------------------ MODULE Lifecycle ------------------------------
(***************************************************************************)
(* The life of the server process: how main starts the threads and stops   *)
(* after them, and what each of them does with the two mutexes, the        *)
(* condition variable, the lists of the statistics and the socket file.    *)
(*                                                                         *)
(* ObjectServer takes a critical section as one step; here a mutex is      *)
(* acquired in one step and released in a later one, so that what happens  *)
(* between the two, or to a mutex that is destroyed or never released, can *)
(* be seen.  What the critical sections compute is left to ObjectServer.   *)
(***************************************************************************)
EXTENDS Integers, FiniteSets

CONSTANTS
    Workers,    \* identities of worker threads, used once in a run of the process
    MaxStarts,  \* bound: times the process is started
    Faults      \* what may fail

ASSUME WorkersAssumption ==
    IsFiniteSet(Workers) /\ Workers \cap {"main", "sig", "nobody", "destroyed"} = {}
ASSUME MaxStartsAssumption == MaxStarts \in Nat
\* "init": the store cannot be made or read.  "thread": pthread_create.
\* "select": the select of main's loop.
ASSUME FaultsAssumption == Faults \subseteq {"init", "thread", "select"}

VARIABLES
    main, sig, worker,  \* where each thread is
    mutex_stats,        \* who holds the mutex of the statistics
    active_threads_mutex,
    active_threads_counter,
    read,           \* the counter as its holder has read it
    woken,          \* has active_threads_cond been signalled since main waits
    loop_breaker, global_failure,
    signal,         \* the signal sent to the process
    lists,          \* the two lists of names: "none", "live", "destroyed"
    failed,         \* the error that made main exit at once: "none", "init", "select"
    socket,         \* does the socket file exist
    killed,         \* was the previous process killed
    starts

threadVars == <<main, sig, worker>>
countVars == <<active_threads_mutex, active_threads_counter, read, woken>>
flagVars == <<loop_breaker, global_failure, signal>>
runVars == <<failed, killed, starts>>
vars == <<threadVars, mutex_stats, countVars, flagVars, lists, socket, runVars>>

Nobody == "nobody"
Gone == {"none", "gone"}
Alive == {w \in Workers : worker[w] \notin Gone}

Starting == {"init", "sigthread", "bind"}
Accepting == {"guard", "select", "create", "creating", "counting"}
Waiting == {"wait", "waiting", "asleep"}
Cleaning == {"unlink", "lock", "unlock", "destroy", "exit"}

StateTypeOK ==
    /\ main \in {"off"} \cup Starting \cup Accepting \cup Waiting \cup Cleaning
    /\ sig \in {"none", "sigwait", "print", "printing", "done"}
    /\ worker \in [Workers -> Gone \cup {"run", "stats", "leave", "leaving"}]
    /\ mutex_stats \in Workers \cup {"main", "sig", Nobody, "destroyed"}
    /\ active_threads_mutex \in Workers \cup {"main", Nobody, "destroyed"}
    /\ active_threads_counter \in Nat
    /\ read \in Nat
    /\ failed \in {"none", "init", "select"}
    /\ signal \in {"none", "SIGUSR1", "SIGTERM"}
    /\ lists \in {"none", "live", "destroyed"}
    /\ starts \in 0 .. MaxStarts

FlagTypeOK ==
    /\ woken \in BOOLEAN /\ loop_breaker \in BOOLEAN /\ global_failure \in BOOLEAN
    /\ socket \in BOOLEAN /\ killed \in BOOLEAN

\* Every variable has its type; the counter, unsigned in C, never goes below zero.
TypeOK == StateTypeOK /\ FlagTypeOK

Init ==
    /\ main = "off" /\ sig = "none" /\ worker = [w \in Workers |-> "none"]
    /\ mutex_stats = Nobody
    /\ active_threads_mutex = Nobody /\ active_threads_counter = 0
    /\ read = 0 /\ woken = FALSE
    /\ loop_breaker = FALSE /\ global_failure = FALSE
    /\ signal = "none" /\ failed = "none"
    /\ lists = "none"
    /\ socket = FALSE
    /\ killed = FALSE
    /\ starts = 0

----------------------------------------------------------------------------
(* pthread_mutex_lock and pthread_mutex_unlock, whose results nobody looks *)
(* at: the lock of a destroyed mutex fails and its caller goes on.         *)

Lock(mutex, thread) ==
    \/ mutex = Nobody /\ mutex' = thread
    \/ mutex = "destroyed" /\ mutex' = mutex

Unlock(mutex, thread) == mutex' = IF mutex = thread THEN Nobody ELSE mutex

\* pthread_mutex_destroy fails on a mutex that is held.
DestroyMutex(mutex) == mutex' = IF mutex = Nobody THEN "destroyed" ELSE mutex

(* Startup.                                                                *)

\* main blocks the signals, and initializeStatistics takes the mutex.
Start ==
    /\ main = "off" /\ starts < MaxStarts
    /\ main' = "init"
    /\ starts' = starts + 1
    /\ Lock(mutex_stats, "main")
    /\ lists' = "live"
    /\ UNCHANGED <<sig, worker, countVars, flagVars, socket, failed, killed>>

\* A variant with a fault: the mutex is not released.
InitDoneHolds ==
    /\ main = "init"
    /\ main' = "sigthread"
    /\ UNCHANGED <<sig, worker, mutex_stats, countVars, flagVars, lists, socket, runVars>>

InitDone ==
    /\ main = "init"
    /\ main' = "sigthread"
    /\ Unlock(mutex_stats, "main")
    /\ UNCHANGED <<sig, worker, countVars, flagVars, lists, socket, runVars>>

\* exit inside initializeStatistics or getDirCounters: the mutex stays held.
InitFails ==
    /\ main = "init" /\ "init" \in Faults
    /\ main' = "unlink"
    /\ failed' = "init"
    /\ UNCHANGED <<sig, worker, mutex_stats, countVars, flagVars, lists, socket, killed,
                   starts>>

CreateSigThread ==
    /\ main = "sigthread"
    /\ \/ sig' = "sigwait" /\ main' = "bind"
       \/ "thread" \in Faults /\ main' = "unlink" /\ UNCHANGED sig
    /\ UNCHANGED <<worker, mutex_stats, countVars, flagVars, lists, socket, runVars>>

\* bind fails when the file is there already, and the process exits.
Bind ==
    /\ main = "bind"
    /\ main' = IF socket THEN "unlink" ELSE "guard"
    /\ socket' = TRUE
    /\ UNCHANGED <<sig, worker, mutex_stats, countVars, flagVars, lists, runVars>>

----------------------------------------------------------------------------
(* main's loop and createWorker.                                           *)

Guard ==
    /\ main = "guard"
    /\ main' = IF loop_breaker \/ global_failure THEN "wait" ELSE "select"
    /\ UNCHANGED <<sig, worker, mutex_stats, countVars, flagVars, lists, socket, runVars>>

\* The timeout, a failed accept, a connection, or an error that ends the process.
Select ==
    /\ main = "select"
    /\ \/ main' = "guard" /\ UNCHANGED failed
       \/ \E w \in Workers : worker[w] = "none" /\ main' = "create" /\ UNCHANGED failed
       \/ "select" \in Faults /\ main' = "unlink" /\ failed' = "select"
    /\ UNCHANGED <<sig, worker, mutex_stats, countVars, flagVars, lists, socket, killed,
                   starts>>

CreateLock ==
    /\ main = "create"
    /\ Lock(active_threads_mutex, "main")
    /\ main' = "creating"
    /\ UNCHANGED <<sig, worker, mutex_stats, active_threads_counter, read, woken,
                   flagVars, lists, socket, runVars>>

\* A variant with a fault: the mutex is released before the counter is incremented.
CreateThreadUnlocks ==
    /\ main = "creating"
    /\ \E w \in Workers :
        worker[w] = "none" /\ worker' = [worker EXCEPT ![w] = "run"]
    /\ main' = "counting" /\ read' = active_threads_counter
    /\ Unlock(active_threads_mutex, "main")
    /\ UNCHANGED <<sig, mutex_stats, active_threads_counter, woken, flagVars, lists,
                   socket, runVars>>

CreateThread ==
    /\ main = "creating"
    /\ \/ /\ \E w \in Workers :
                worker[w] = "none" /\ worker' = [worker EXCEPT ![w] = "run"]
          /\ main' = "counting" /\ read' = active_threads_counter
          /\ UNCHANGED active_threads_mutex
       \/ /\ "thread" \in Faults
          /\ main' = "guard" /\ Unlock(active_threads_mutex, "main")
          /\ UNCHANGED <<worker, read>>
    /\ UNCHANGED <<sig, mutex_stats, active_threads_counter, woken, flagVars, lists,
                   socket, runVars>>

CreateCount ==
    /\ main = "counting"
    /\ active_threads_counter' = read + 1
    /\ Unlock(active_threads_mutex, "main")
    /\ main' = "guard"
    /\ UNCHANGED <<sig, worker, mutex_stats, read, woken, flagVars, lists, socket, runVars>>

----------------------------------------------------------------------------
(* waitActiveThreads.                                                      *)

WaitLock ==
    /\ \/ main = "wait"
       \/ main = "asleep" /\ woken
    /\ Lock(active_threads_mutex, "main")
    /\ main' = "waiting"
    /\ UNCHANGED <<sig, worker, mutex_stats, active_threads_counter, read, woken,
                   flagVars, lists, socket, runVars>>

\* A variant with a fault: main does not wait for the workers.
WaitCheckOnce ==
    /\ main = "waiting"
    /\ Unlock(active_threads_mutex, "main")
    /\ main' = "unlink"
    /\ UNCHANGED <<sig, worker, mutex_stats, active_threads_counter, read, woken,
                   flagVars, lists, socket, runVars>>

\* The test of the while: exit, or pthread_cond_wait, which releases the mutex.
WaitCheck ==
    /\ main = "waiting"
    /\ Unlock(active_threads_mutex, "main")
    /\ main' = IF active_threads_counter > 0 THEN "asleep" ELSE "unlink"
    /\ woken' = FALSE
    /\ UNCHANGED <<sig, worker, mutex_stats, active_threads_counter, read, flagVars,
                   lists, socket, runVars>>

----------------------------------------------------------------------------
(* cleanup, run by exit, and the end of the process.                       *)

\* A variant with a fault: the file is left.
UnlinkNothing ==
    /\ main = "unlink"
    /\ main' = "lock"
    /\ UNCHANGED <<sig, worker, mutex_stats, countVars, flagVars, lists, socket, runVars>>

\* The socket file is removed, whoever bound it.
Unlink ==
    /\ main = "unlink"
    /\ socket' = FALSE
    /\ main' = "lock"
    /\ UNCHANGED <<sig, worker, mutex_stats, countVars, flagVars, lists, runVars>>

CleanupLock ==
    /\ main = "lock"
    /\ Lock(mutex_stats, "main")
    /\ lists' = "destroyed"
    /\ main' = "unlock"
    /\ UNCHANGED <<sig, worker, countVars, flagVars, socket, runVars>>

CleanupUnlock ==
    /\ main = "unlock"
    /\ Unlock(mutex_stats, "main")
    /\ main' = "destroy"
    /\ UNCHANGED <<sig, worker, countVars, flagVars, lists, socket, runVars>>

Destroy ==
    /\ main = "destroy"
    /\ DestroyMutex(mutex_stats)
    /\ DestroyMutex(active_threads_mutex)
    /\ main' = "exit"
    /\ UNCHANGED <<sig, worker, active_threads_counter, read, woken, flagVars, lists,
                   socket, runVars>>

\* Every thread, mutex and list ends with the process.
ProcessEnds ==
    /\ main' = "off" /\ sig' = "none" /\ worker' = [w \in Workers |-> "none"]
    /\ mutex_stats' = Nobody
    /\ active_threads_mutex' = Nobody /\ active_threads_counter' = 0
    /\ read' = 0 /\ woken' = FALSE
    /\ loop_breaker' = FALSE /\ global_failure' = FALSE
    /\ signal' = "none" /\ failed' = "none"
    /\ lists' = "none"
    /\ UNCHANGED <<socket, starts>>

Exit == main = "exit" /\ ProcessEnds /\ killed' = FALSE

\* SIGKILL, at any time: no cleanup.
Kill == main # "off" /\ ProcessEnds /\ killed' = TRUE

----------------------------------------------------------------------------
(* The signal thread.                                                      *)

\* A signal is sent once to each process; it waits until sigwait takes it.
Send(s) ==
    /\ main # "off" /\ signal = "none"
    /\ signal' = s
    /\ UNCHANGED <<threadVars, mutex_stats, countVars, loop_breaker, global_failure,
                   lists, socket, runVars>>

sighandler ==
    /\ sig = "sigwait" /\ signal # "none"
    /\ loop_breaker' = TRUE
    /\ sig' = IF signal = "SIGUSR1" THEN "print" ELSE "done"
    /\ UNCHANGED <<main, worker, mutex_stats, countVars, global_failure, signal, lists,
                   socket, runVars>>

PrintLock ==
    /\ sig = "print"
    /\ Lock(mutex_stats, "sig")
    /\ sig' = "printing"
    /\ UNCHANGED <<main, worker, countVars, flagVars, lists, socket, runVars>>

\* What is read of destroyed lists are not the statistics, and main may be gone first.
printStatistics ==
    /\ sig = "printing"
    /\ Unlock(mutex_stats, "sig")
    /\ sig' = "done"
    /\ UNCHANGED <<main, worker, countVars, flagVars, lists, socket, runVars>>

----------------------------------------------------------------------------
(* The workers.                                                            *)

\* A critical section of mutex_stats: the lists are read or changed in it.
StatsLock(w) ==
    /\ worker[w] = "run"
    /\ Lock(mutex_stats, w)
    /\ worker' = [worker EXCEPT ![w] = "stats"]
    /\ UNCHANGED <<main, sig, countVars, flagVars, lists, socket, runVars>>

\* ... after which the worker goes on, fails for all (global_failure), or, when
\* it was forceRemoveClientOnline, ends.  A worker always ends this way.
StatsUnlock(w) ==
    /\ worker[w] = "stats"
    /\ Unlock(mutex_stats, w)
    /\ \E next \in {"run", "leave"} : worker' = [worker EXCEPT ![w] = next]
    /\ global_failure' \in {global_failure, TRUE}
    /\ UNCHANGED <<main, sig, countVars, loop_breaker, signal, lists, socket, runVars>>

DecrLock(w) ==
    /\ worker[w] = "leave"
    /\ Lock(active_threads_mutex, w)
    /\ read' = active_threads_counter
    /\ worker' = [worker EXCEPT ![w] = "leaving"]
    /\ UNCHANGED <<main, sig, mutex_stats, active_threads_counter, woken, flagVars,
                   lists, socket, runVars>>

\* A variant with a fault: main is not woken.
DecrSilent(w) ==
    /\ worker[w] = "leaving"
    /\ active_threads_counter' = read - 1
    /\ Unlock(active_threads_mutex, w)
    /\ worker' = [worker EXCEPT ![w] = "gone"]
    /\ UNCHANGED <<main, sig, mutex_stats, read, woken, flagVars, lists, socket, runVars>>

decrActiveThreads(w) ==
    /\ worker[w] = "leaving"
    /\ active_threads_counter' = read - 1
    /\ woken' = TRUE
    /\ Unlock(active_threads_mutex, w)
    /\ worker' = [worker EXCEPT ![w] = "gone"]
    /\ UNCHANGED <<main, sig, mutex_stats, read, flagVars, lists, socket, runVars>>

----------------------------------------------------------------------------
Main ==
    \/ InitDone \/ InitFails \/ CreateSigThread \/ Bind
    \/ Guard \/ Select \/ CreateLock \/ CreateThread \/ CreateCount
    \/ WaitLock \/ WaitCheck
    \/ Unlink \/ CleanupLock \/ CleanupUnlock \/ Destroy \/ Exit

Sig == sighandler \/ PrintLock \/ printStatistics

Worker(w) == StatsLock(w) \/ StatsUnlock(w) \/ DecrLock(w) \/ decrActiveThreads(w)

Next ==
    \/ Start \/ Kill
    \/ \E s \in {"SIGUSR1", "SIGTERM"} : Send(s)
    \/ Main \/ Sig
    \/ \E w \in Workers : Worker(w)
    \/ main = "off" /\ starts = MaxStarts /\ UNCHANGED vars

Spec == Init /\ [][Next]_vars

\* A worker ends soon after a flag tells it to (but for the one that ObjectServer's
\* SignalStops excepts).
LeaveWhenTold(w) ==
    (loop_breaker \/ global_failure) /\ StatsUnlock(w) /\ worker'[w] = "leave"

\* Every thread keeps running; a mutex that is released again and again is
\* granted in the end (strong fairness of the steps that acquire one); a worker
\* goes through a finite number of critical sections once it is told to end.
Fairness ==
    /\ WF_vars(Main) /\ SF_vars(CleanupLock) /\ SF_vars(CreateLock) /\ SF_vars(WaitLock)
    /\ WF_vars(Sig)
    /\ \A w \in Workers :
        /\ SF_vars(StatsLock(w)) /\ SF_vars(DecrLock(w))
        /\ WF_vars(StatsUnlock(w))
        /\ SF_vars(LeaveWhenTold(w))
        /\ WF_vars(decrActiveThreads(w))

FairSpec == Spec /\ Fairness

----------------------------------------------------------------------------
(* Properties.                                                             *)

\* Whoever is inside a critical section of mutex_stats finds the lists there:
\* cleanup destroys them after the last worker ("aspetta finche' non e' 0 prima di
\* chiudere e killare tutto", server.c:381).  An error of main's select is the one
\* exit that does not wait.
ListsLiveInSection ==
    \A w \in Workers : worker[w] = "stats" => lists = "live" \/ failed = "select"

\* The counter is never short or long by an interrupted update, and main cleans
\* up what the workers share only when there are none, but for that error.
CounterExact ==
    /\ active_threads_mutex = Nobody => active_threads_counter = Cardinality(Alive)
    /\ main \in Cleaning => Alive = {} \/ failed = "select"

\* Only a process that was killed leaves its socket file behind; so a start fails
\* at bind at most once, and its own cleanup makes the next one succeed.
SocketFileExplained ==
    main \in {"off"} \cup Starting /\ socket => killed

\* A signal, or an error of one worker that stops the server, ends the process,
\* whatever the workers, the signal thread and main hold or wait for at that moment.
StopEndsProcess == loop_breaker \/ global_failure ~> main = "off"

\* exit ends the process, from startup as from the end of main: "sono fatali e
\* provocano la terminazione del processo" (relazione.lyx:522).  The exception is an
\* error of initializeStatistics, which exits with the mutex that cleanup locks.
ExitEndsProcess == main = "unlink" /\ failed # "init" ~> main = "off"

=============================================================================
