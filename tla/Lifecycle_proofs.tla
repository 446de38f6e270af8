------------------------- MODULE Lifecycle_proofs --------------------------
(***************************************************************************)
(* The threads, the mutexes and what they guard, for any number of workers *)
(* and of starts of the process, and whatever fails.                       *)
(***************************************************************************)
EXTENDS Lifecycle, FiniteSetTheorems, TLAPS

Inside == {"creating", "counting", "waiting"}

\* Who holds active_threads_mutex is inside a critical section of it, and who is
\* inside holds it, unless cleanup has destroyed it.
HolderInv ==
    /\ main \in Inside <=> active_threads_mutex = "main"
    /\ active_threads_mutex = "destroyed" => main = "exit"
    /\ \A w \in Workers :
        /\ active_threads_mutex = w => worker[w] = "leaving"
        /\ worker[w] = "leaving" => active_threads_mutex \in {w, "destroyed"}

\* The counter is exact but for the worker that main has created and not yet
\* counted.  Once the mutex is destroyed two workers may read the counter before
\* either writes it, so that it may be too large, and never too small.
CountInv ==
    /\ main = "counting" =>
        read = active_threads_counter /\ active_threads_counter + 1 = Cardinality(Alive)
    /\ main # "counting" /\ active_threads_mutex # "destroyed" =>
        active_threads_counter = Cardinality(Alive)
    /\ active_threads_mutex = "destroyed" => active_threads_counter >= Cardinality(Alive)
    /\ \A w \in Workers : worker[w] = "leaving" =>
        /\ read >= Cardinality(Alive)
        /\ active_threads_mutex # "destroyed" => read = Cardinality(Alive)

\* There are workers only while main accepts or waits, or after an error of select.
PhaseInv ==
    /\ main \in {"off"} \cup Starting => Alive = {}
    /\ main \in Cleaning => Alive = {} \/ failed = "select"
    /\ main \in Starting \cup Accepting \cup Waiting => lists = "live"

\* The file is there before bind only after a kill, and cleanup removes it first.
SocketInv ==
    /\ main \in {"off"} \cup Starting /\ socket => killed
    /\ main \in {"lock", "unlock", "destroy", "exit"} => ~socket

IInv == StateTypeOK /\ HolderInv /\ CountInv /\ PhaseInv /\ SocketInv

----------------------------------------------------------------------------
(* How the set of live workers changes.                                    *)

LEMMA AliveCount ==
    /\ IsFiniteSet(Alive)
    /\ Cardinality(Alive) \in Nat
    /\ Cardinality(Alive) = 0 <=> Alive = {}
  <1>1. Alive \subseteq Workers
    BY DEF Alive
  <1>2. IsFiniteSet(Alive)
    BY <1>1, FS_Subset, WorkersAssumption
  <1>3. QED
    BY <1>2, FS_CardinalityType, FS_EmptySet

\* A thread that is created is one more.
LEMMA WorkerCreated ==
    ASSUME StateTypeOK, NEW w \in Workers, worker[w] = "none",
           worker' = [worker EXCEPT ![w] = "run"]
    PROVE  Cardinality(Alive') = Cardinality(Alive) + 1
  <1>1. Alive' = Alive \cup {w} /\ w \notin Alive
    BY DEF Alive, Gone, StateTypeOK
  <1>2. QED
    BY <1>1, AliveCount, FS_AddElement

\* A thread that ends is one less.
LEMMA WorkerEnded ==
    ASSUME StateTypeOK, NEW w \in Workers, worker[w] = "leaving",
           worker' = [worker EXCEPT ![w] = "gone"]
    PROVE  /\ Cardinality(Alive) > 0
           /\ Cardinality(Alive') = Cardinality(Alive) - 1
           /\ Alive' \subseteq Alive
  <1>1. Alive' = Alive \ {w} /\ w \in Alive
    BY DEF Alive, Gone, StateTypeOK
  <1>2. Cardinality(Alive') = Cardinality(Alive) - 1
    BY <1>1, AliveCount, FS_RemoveElement
  <1>3. Alive # {}
    BY <1>1
  <1>4. QED
    BY <1>1, <1>2, <1>3, AliveCount

\* Nothing else changes the set.
LEMMA WorkerGoesOn ==
    ASSUME StateTypeOK, NEW w \in Workers, worker[w] \notin Gone,
           NEW x, x \notin Gone, worker' = [worker EXCEPT ![w] = x]
    PROVE  Alive' = Alive
  BY DEF Alive, Gone, StateTypeOK

LEMMA WorkersUnchanged ==
    ASSUME worker' = worker
    PROVE  Alive' = Alive
  BY DEF Alive

----------------------------------------------------------------------------
(* One lemma per group of actions.                                         *)

LEMMA InitIInv == Init => IInv
  <1> SUFFICES ASSUME Init PROVE IInv
    OBVIOUS
  <1>1. StateTypeOK
    BY MaxStartsAssumption DEF Init, StateTypeOK, Gone, Nobody
  <1>2. Alive = {}
    BY DEF Init, Alive, Gone
  <1>3. Cardinality(Alive) = 0
    BY <1>2, AliveCount
  <1>4. HolderInv
    BY WorkersAssumption DEF Init, HolderInv, Inside, Nobody
  <1>5. CountInv /\ PhaseInv /\ SocketInv
    BY <1>2, <1>3
    DEF Init, CountInv, PhaseInv, SocketInv, Nobody, Starting, Accepting, Waiting, Cleaning
  <1>6. QED
    BY <1>1, <1>4, <1>5 DEF IInv

LEMMA Startup ==
    ASSUME IInv, Start \/ InitDone \/ InitFails \/ CreateSigThread \/ Bind
    PROVE  IInv'
  <1> USE DEF IInv, Nobody
  <1>1. Alive' = Alive
    BY WorkersUnchanged
    DEF Start, InitDone, InitFails, CreateSigThread, Bind
  <1>2. StateTypeOK'
    BY MaxStartsAssumption
    DEF StateTypeOK, Start, InitDone, InitFails, CreateSigThread, Bind, Lock, Unlock,
        Starting,
        Accepting, Waiting, Cleaning, countVars, flagVars, runVars
  <1>3. HolderInv'
    BY DEF StateTypeOK, HolderInv, Inside, Start, InitDone, InitFails, CreateSigThread,
        Bind, countVars
  <1>4. CountInv'
    BY <1>1
    DEF CountInv, Start, InitDone, InitFails, CreateSigThread, Bind, countVars
  <1>5. PhaseInv' /\ SocketInv'
    BY <1>1
    DEF PhaseInv, SocketInv, Starting, Accepting, Waiting, Cleaning, Start, InitDone,
        InitFails, CreateSigThread, Bind, flagVars, runVars
  <1>6. QED
    BY <1>2, <1>3, <1>4, <1>5

LEMMA Looping ==
    ASSUME IInv, Guard \/ Select \/ CreateLock \/ CreateCount \/ WaitLock \/ WaitCheck
    PROVE  IInv'
  <1> USE DEF IInv, Nobody
  <1>1. Alive' = Alive /\ Cardinality(Alive) \in Nat
    BY WorkersUnchanged, AliveCount
    DEF Guard, Select, CreateLock, CreateCount, WaitLock, WaitCheck
  <1>2. StateTypeOK'
    BY
    DEF StateTypeOK, Guard, Select, CreateLock, CreateCount, WaitLock, WaitCheck, Lock,
        Unlock,
        Starting, Accepting, Waiting, Cleaning, countVars, flagVars, runVars
  <1>3. HolderInv'
    BY WorkersAssumption
    DEF StateTypeOK, HolderInv, Inside, Guard, Select, CreateLock, CreateCount,
        WaitLock, WaitCheck,
        Lock, Unlock, countVars
  <1>4. CountInv'
    BY <1>1
    DEF StateTypeOK, HolderInv, CountInv, Inside, Guard, Select, CreateLock,
        CreateCount, WaitLock,
        WaitCheck, Lock, Unlock, countVars
  <1>5. PhaseInv' /\ SocketInv'
    BY <1>1, AliveCount
    DEF StateTypeOK, HolderInv, CountInv, Inside, PhaseInv, SocketInv, Starting,
        Accepting, Waiting,
        Cleaning, Guard, Select, CreateLock, CreateCount, WaitLock, WaitCheck, flagVars,
        countVars, runVars
  <1>6. QED
    BY <1>2, <1>3, <1>4, <1>5

LEMMA Creating ==
    ASSUME IInv, CreateThread
    PROVE  IInv'
  <1> USE DEF IInv, Nobody
  <1>1. CASE main' = "guard"
    <2>1. /\ main = "creating" /\ worker' = worker /\ Alive' = Alive
          /\ active_threads_mutex = "main" /\ active_threads_mutex' = "nobody"
      BY <1>1, WorkersUnchanged DEF CreateThread, HolderInv, Inside, Unlock
    <2>2. StateTypeOK' /\ PhaseInv' /\ SocketInv'
      BY <1>1, <2>1
      DEF CreateThread, StateTypeOK, PhaseInv, SocketInv, Starting, Accepting, Waiting,
          Cleaning,
          flagVars, runVars
    <2>3. HolderInv' /\ CountInv'
      BY <1>1, <2>1, WorkersAssumption
      DEF CreateThread, StateTypeOK, HolderInv, CountInv, Inside
    <2>4. QED
      BY <2>2, <2>3
  <1>2. CASE main' = "counting"
    <2>1. PICK w \in Workers :
            worker[w] = "none" /\ worker' = [worker EXCEPT ![w] = "run"]
      BY <1>2 DEF CreateThread
    <2>2. /\ main = "creating" /\ read' = active_threads_counter
          /\ active_threads_mutex = "main" /\ active_threads_mutex' = "main"
      BY <1>2 DEF CreateThread, HolderInv, Inside
    <2>3. Cardinality(Alive') = Cardinality(Alive) + 1 /\ Cardinality(Alive) \in Nat
      BY <2>1, WorkerCreated, AliveCount
    <2>4. StateTypeOK' /\ PhaseInv' /\ SocketInv'
      BY <1>2, <2>1, <2>2
      DEF CreateThread, StateTypeOK, PhaseInv, SocketInv, Starting, Accepting, Waiting,
          Cleaning,
          Gone, flagVars, runVars
    <2>5. HolderInv'
      BY <1>2, <2>1, <2>2, WorkersAssumption DEF StateTypeOK, HolderInv, Inside
    <2>6. CountInv'
      BY <1>2, <2>1, <2>2, <2>3, <2>5, WorkersAssumption
      DEF CreateThread, StateTypeOK, HolderInv, CountInv, Inside
    <2>7. QED
      BY <2>4, <2>5, <2>6
  <1>3. QED
    BY <1>1, <1>2 DEF CreateThread

LEMMA Ending ==
    ASSUME IInv, Unlink \/ CleanupLock \/ CleanupUnlock \/ Destroy
    PROVE  IInv'
  <1> USE DEF IInv, Nobody
  <1>1. Alive' = Alive /\ Cardinality(Alive) \in Nat
    BY WorkersUnchanged, AliveCount DEF Unlink, CleanupLock, CleanupUnlock, Destroy
  <1>2. StateTypeOK'
    BY
    DEF StateTypeOK, Unlink, CleanupLock, CleanupUnlock, Destroy, Lock, Unlock,
        DestroyMutex,
        Starting, Accepting, Waiting, Cleaning, countVars, flagVars, runVars
  <1>3. HolderInv'
    BY WorkersAssumption
    DEF StateTypeOK, HolderInv, Inside, Unlink, CleanupLock, CleanupUnlock, Destroy,
        DestroyMutex,
        countVars
  <1>4. CountInv'
    BY <1>1
    DEF StateTypeOK, HolderInv, CountInv, Inside, Unlink, CleanupLock, CleanupUnlock,
        Destroy,
        DestroyMutex, countVars
  <1>5. PhaseInv' /\ SocketInv'
    BY <1>1
    DEF PhaseInv, SocketInv, Starting, Accepting, Waiting, Cleaning, Unlink, CleanupLock,
        CleanupUnlock, Destroy, flagVars, runVars
  <1>6. QED
    BY <1>2, <1>3, <1>4, <1>5

LEMMA EndOfProcess ==
    ASSUME IInv, Exit \/ Kill
    PROVE  IInv'
  <1> USE DEF IInv, Nobody
  <1>1. ProcessEnds /\ (killed' \/ main = "exit")
    BY DEF Exit, Kill
  <1>2. Alive' = {} /\ Cardinality(Alive') = 0
    <2>1. Alive' = {}
      BY <1>1 DEF ProcessEnds, Alive, Gone
    <2>2. QED
      BY <2>1, FS_EmptySet
  <1>3. StateTypeOK'
    BY <1>1 DEF ProcessEnds, StateTypeOK, Gone
  <1>4. HolderInv'
    BY <1>1, WorkersAssumption DEF ProcessEnds, HolderInv, Inside
  <1>5. CountInv'
    BY <1>1, <1>2 DEF ProcessEnds, CountInv
  <1>6. PhaseInv' /\ SocketInv'
    BY <1>1, <1>2
    DEF ProcessEnds, PhaseInv, SocketInv, Starting, Accepting, Waiting, Cleaning
  <1>7. QED
    BY <1>3, <1>4, <1>5, <1>6

LEMMA Signals ==
    ASSUME IInv, (\E s \in {"SIGUSR1", "SIGTERM"} : Send(s)) \/ Sig
    PROVE  IInv'
  <1> USE DEF IInv, Nobody
  <1>1. /\ Alive' = Alive
        /\ UNCHANGED <<main, worker, countVars, lists, socket, runVars>>
    BY WorkersUnchanged DEF Send, Sig, sighandler, PrintLock, printStatistics, threadVars
  <1>2. StateTypeOK'
    BY <1>1
    DEF StateTypeOK, Send, Sig, sighandler, PrintLock, printStatistics, Lock, Unlock,
        threadVars, countVars, flagVars, runVars
  <1>3. HolderInv' /\ CountInv'
    BY <1>1 DEF HolderInv, CountInv, countVars
  <1>4. PhaseInv' /\ SocketInv'
    BY <1>1 DEF PhaseInv, SocketInv, runVars
  <1>5. QED
    BY <1>2, <1>3, <1>4

LEMMA Working ==
    ASSUME IInv, NEW w \in Workers, StatsLock(w) \/ StatsUnlock(w)
    PROVE  IInv'
  <1> USE DEF IInv, Nobody
  <1>1. PICK x \in {"run", "stats", "leave"} : worker' = [worker EXCEPT ![w] = x]
    BY DEF StatsLock, StatsUnlock
  <1>2. /\ worker[w] \in {"run", "stats"}
        /\ UNCHANGED <<main, sig, countVars, signal, lists, socket, runVars>>
    BY DEF StatsLock, StatsUnlock, flagVars
  <1>3. Alive' = Alive
    BY <1>1, <1>2, WorkerGoesOn DEF Gone
  <1>4. StateTypeOK'
    <2>1. mutex_stats' \in Workers \cup {"main", "sig", "nobody", "destroyed"}
      BY DEF StateTypeOK, StatsLock, StatsUnlock, Lock, Unlock
    <2>2. QED
      BY <1>1, <1>2, <2>1 DEF StateTypeOK, countVars, runVars
  <1>5. HolderInv' /\ CountInv'
    BY <1>1, <1>2, <1>3 DEF StateTypeOK, HolderInv, CountInv, Gone, countVars
  <1>6. PhaseInv' /\ SocketInv'
    BY <1>2, <1>3 DEF PhaseInv, SocketInv, runVars
  <1>7. QED
    BY <1>4, <1>5, <1>6

LEMMA ReadingCount ==
    ASSUME IInv, NEW w \in Workers, DecrLock(w)
    PROVE  IInv'
  <1> USE DEF IInv, Nobody
  <1>1. /\ worker[w] = "leave" /\ worker' = [worker EXCEPT ![w] = "leaving"]
        /\ read' = active_threads_counter /\ Lock(active_threads_mutex, w)
        /\ UNCHANGED <<main, sig, mutex_stats, active_threads_counter, signal, lists,
                       socket, runVars>>
    BY DEF DecrLock, flagVars
  <1>2. Alive' = Alive /\ Cardinality(Alive) \in Nat
    BY <1>1, WorkerGoesOn, AliveCount DEF Gone
  <1>3. StateTypeOK'
    BY <1>1 DEF StateTypeOK, Lock, Gone, runVars
  <1>4. HolderInv'
    BY <1>1, WorkersAssumption DEF StateTypeOK, HolderInv, Inside, Lock
  <1>5. CountInv'
    BY <1>1, <1>2, WorkersAssumption DEF StateTypeOK, HolderInv, CountInv, Inside, Lock
  <1>6. PhaseInv' /\ SocketInv'
    BY <1>1, <1>2 DEF PhaseInv, SocketInv, runVars
  <1>7. QED
    BY <1>3, <1>4, <1>5, <1>6

LEMMA Uncounting ==
    ASSUME IInv, NEW w \in Workers, decrActiveThreads(w)
    PROVE  IInv'
  <1> USE DEF IInv, Nobody
  <1>1. /\ worker[w] = "leaving" /\ worker' = [worker EXCEPT ![w] = "gone"]
        /\ active_threads_counter' = read - 1
        /\ UNCHANGED <<main, sig, mutex_stats, read, flagVars, lists, socket, runVars>>
        /\ woken' = TRUE
        /\ Unlock(active_threads_mutex, w)
    BY DEF decrActiveThreads
  <1>2. /\ Cardinality(Alive) \in Nat /\ Cardinality(Alive) > 0
        /\ Cardinality(Alive') = Cardinality(Alive) - 1
        /\ Alive' \subseteq Alive
    BY <1>1, WorkerEnded, AliveCount
  <1>3. read >= Cardinality(Alive) /\ read \in Nat
    BY <1>1 DEF CountInv, StateTypeOK
  <1>4. StateTypeOK'
    BY <1>1, <1>2, <1>3 DEF StateTypeOK, Unlock, Gone, flagVars, runVars
  <1>5. PhaseInv' /\ SocketInv'
    BY <1>1, <1>2 DEF PhaseInv, SocketInv, runVars
  <1>6. HolderInv'
    BY <1>1, WorkersAssumption DEF StateTypeOK, HolderInv, Inside, Unlock
  <1>7. CountInv'
    BY <1>1, <1>2, <1>3, WorkersAssumption DEF StateTypeOK, HolderInv, CountInv,
        Inside, Unlock
  <1>8. QED
    BY <1>4, <1>5, <1>6, <1>7

LEMMA NextIInv == IInv /\ [Next]_vars => IInv'
  <1> SUFFICES ASSUME IInv, [Next]_vars PROVE IInv'
    OBVIOUS
  <1>1. CASE UNCHANGED vars
    BY <1>1
    DEF IInv, StateTypeOK, HolderInv, CountInv, PhaseInv, SocketInv, Alive, vars,
        threadVars,
        countVars, flagVars, runVars
  <1>2. CASE Start \/ Main
    BY <1>2, Startup, Looping, Creating, Ending, EndOfProcess DEF Main
  <1>3. CASE Kill \/ (\E s \in {"SIGUSR1", "SIGTERM"} : Send(s)) \/ Sig
    BY <1>3, EndOfProcess, Signals
  <1>4. CASE \E w \in Workers : Worker(w)
    BY <1>4, Working, ReadingCount, Uncounting DEF Worker
  <1>5. QED
    BY <1>1, <1>2, <1>3, <1>4 DEF Next

LEMMA IInvAlways == Spec => []IInv
  BY InitIInv, NextIInv, PTL DEF Spec

\* No step gives a flag another type.
LEMMA NextFlags == FlagTypeOK /\ [Next]_vars => FlagTypeOK'
  <1> SUFFICES ASSUME FlagTypeOK, [Next]_vars PROVE FlagTypeOK'
    OBVIOUS
  <1> USE DEF FlagTypeOK
  <1>1. CASE UNCHANGED vars
    BY <1>1, Zenon DEF vars, countVars, flagVars, runVars
  <1>2. CASE Start \/ InitDone \/ InitFails \/ CreateSigThread \/ Bind
    BY <1>2, Zenon
    DEF Start, InitDone, InitFails, CreateSigThread, Bind, countVars, flagVars, runVars
  <1>3. CASE Guard \/ Select \/ CreateLock \/ CreateThread \/ CreateCount
    BY <1>3, Zenon
    DEF Guard, Select, CreateLock, CreateThread, CreateCount, countVars, flagVars, runVars
  <1>4. CASE WaitLock \/ WaitCheck \/ Unlink \/ CleanupLock \/ CleanupUnlock \/ Destroy
    BY <1>4, Zenon
    DEF WaitLock, WaitCheck, Unlink, CleanupLock, CleanupUnlock, Destroy, countVars,
        flagVars, runVars
  <1>5. CASE Exit \/ Kill
    BY <1>5, Zenon DEF Exit, Kill, ProcessEnds
  <1>6. CASE (\E s \in {"SIGUSR1", "SIGTERM"} : Send(s)) \/ Sig
    BY <1>6, Zenon
    DEF Send, Sig, sighandler, PrintLock, printStatistics, countVars, flagVars, runVars
  <1>7. CASE \E w \in Workers : Worker(w)
    <2>1. PICK w \in Workers :
            StatsLock(w) \/ StatsUnlock(w) \/ DecrLock(w) \/ decrActiveThreads(w)
      BY <1>7, Zenon DEF Worker
    <2>2. CASE StatsUnlock(w)
      <3>1. global_failure' = global_failure \/ global_failure' = TRUE
        BY <2>2, Zenon DEF StatsUnlock
      <3>2. QED
        BY <2>2, <3>1, Zenon DEF StatsUnlock, countVars, runVars
    <2>3. CASE StatsLock(w) \/ DecrLock(w) \/ decrActiveThreads(w)
      BY <2>3, Zenon DEF StatsLock, DecrLock, decrActiveThreads, countVars, flagVars,
          runVars
    <2>4. QED
      BY <2>1, <2>2, <2>3
  <1>8. QED
    BY <1>1, <1>2, <1>3, <1>4, <1>5, <1>6, <1>7 DEF Next, Main

----------------------------------------------------------------------------
(* Theorems.                                                               *)

\* Every variable keeps its type; in particular no worker, not even one that finds
\* the mutex destroyed, counts below zero.
THEOREM LifecycleTypes == Spec => []TypeOK
  <1>1. IInv /\ FlagTypeOK => TypeOK
    BY DEF IInv, TypeOK
  <1>2. Init => FlagTypeOK
    BY Zenon DEF Init, FlagTypeOK
  <1>3. QED
    BY <1>1, <1>2, NextFlags, IInvAlways, PTL DEF Spec

\* Whenever nobody is changing it, the counter main waits on is the number of live
\* workers, although each update is a read and a write; and cleanup runs only when
\* there is none, but for an error of main's select.
THEOREM WorkersCountedExactly == Spec => []CounterExact
  <1>1. IInv => CounterExact
    BY WorkersAssumption DEF IInv, HolderInv, CountInv, PhaseInv, CounterExact, Inside,
        Nobody
  <1>2. QED
    BY <1>1, IInvAlways, PTL

\* No worker is in a critical section of the statistics when their lists are gone,
\* but for an error of main's select.
THEOREM ListsOutliveWorkers == Spec => []ListsLiveInSection
  <1>1. IInv => ListsLiveInSection
    <2> SUFFICES ASSUME IInv, NEW w \in Workers, worker[w] = "stats"
                 PROVE  lists = "live" \/ failed = "select"
      BY DEF ListsLiveInSection
    <2>1. Alive # {}
      BY DEF Alive, Gone
    <2>2. QED
      BY <2>1 DEF IInv, StateTypeOK, PhaseInv
  <1>2. QED
    BY <1>1, IInvAlways, PTL

\* A socket file found at startup has been left by a process that was killed.
THEOREM OnlyKillsLeaveSockets == Spec => []SocketFileExplained
  <1>1. IInv => SocketFileExplained
    BY DEF IInv, SocketInv, SocketFileExplained
  <1>2. QED
    BY <1>1, IInvAlways, PTL

=============================================================================
