------------------------ MODULE TestBatteries_proofs ------------------------
(***************************************************************************)
(* What testsum.sh reports is what the clients have done, and what fails   *)
(* has a reason, for any number of clients and of objects.                 *)
(***************************************************************************)
EXTENDS TestBatteries, FiniteSetTheorems, TLAPS

Counters ==
    [ok_connection : {0, 1}, ok_disconnection : {0, 1}, operations : Nat,
     ok_operations : Nat, ko_operations : Nat]

Sums == [total : Nat, testg : Nat, testb : Nat, testf : Nat]

TypeInv ==
    /\ round \in 0 .. 3
    /\ pc \in [Processes -> {"none", "connect", "test", "log", "exited", "killed"}]
    /\ i \in [Processes -> 1 .. OBJ_NUMBER + 1]
    /\ stats \in [Processes -> Counters]
    /\ stored \in [Clients -> SUBSET Objects]
    /\ summary \in [1 .. 3 -> Sums]
    /\ made \subseteq Processes \X Objects
    /\ failed \subseteq Processes \X (CONNECT .. DISCONNECT)

\* The script waits for all the processes of a round before the next one.
RoundsInv ==
    \A p \in Processes :
        /\ p[2] > round => pc[p] = "none"
        /\ p[2] < round => pc[p] \in {"exited", "killed"}

Made(p) == {m \in made : m[1] = p}
MadeFailed(p) == {m \in made \cap failed : m[1] = p}

\* The counters of a process, and what it has done up to the object it is at.
CallsInv(p) ==
    /\ stats[p].ok_operations + stats[p].ko_operations = i[p] - 1
    /\ Cardinality(Made(p)) = i[p] - 1
    /\ Cardinality(MadeFailed(p)) = stats[p].ko_operations
    /\ \A n \in Objects : /\ <<p, n>> \in made => n < i[p]
                          /\ <<p, n>> \in failed => <<p, n>> \in made \/ pc[p] = "killed"
    /\ pc[p] = "killed" => <<p, CONNECT>> \in failed \/ <<p, i[p]>> \in failed
    /\ pc[p] \in {"none", "connect"} => i[p] = 1 /\ <<p, CONNECT>> \notin failed
                                        /\ stats[p].operations = 0
    /\ pc[p] = "test" => /\ stats[p].ok_connection = 1 /\ stats[p].operations = i[p]
                         /\ <<p, CONNECT>> \notin failed
    /\ pc[p] \in {"log", "exited"} =>
        \/ /\ stats[p].ok_connection = 0 /\ stats[p].operations = 1 /\ i[p] = 1
           /\ <<p, CONNECT>> \in failed
        \/ /\ stats[p].ok_connection = 1 /\ stats[p].operations = OBJ_NUMBER + 2
           /\ i[p] = OBJ_NUMBER + 1 /\ <<p, CONNECT>> \notin failed

\* What the first round has got to and the second has not is stored, or its STORE has
\* failed.
StoresInv ==
    \A c \in Clients, o \in Objects :
        i[<<c, 2>>] <= o /\ o < i[<<c, 1>>] =>
            o \in stored[c] \/ <<<<c, 1>>, o>> \in failed

\* The lines that are still to be read tell what their processes have counted.
LogInv ==
    \A line \in log :
        /\ line.process \in Processes
        /\ pc[line.process] = "exited"
        /\ line = Line(line.process)

\* The processes whose lines have been read.
Read == {p \in Processes : pc[p] = "exited" /\ \A line \in log : line.process # p}

MadeRead(t) == {m \in made : Test(m[1]) = t /\ m[1] \in Read}
FailedRead(t) == {m \in made \cap failed : Test(m[1]) = t /\ m[1] \in Read}
PassedRead(t) == {p \in Batteries(t) : p \in Read /\ FailedCalls(p) \subseteq {DISCONNECT}}

SummaryInv ==
    \A t \in 1 .. 3 :
        /\ summary[t].testb = Cardinality(MadeRead(t))
        /\ summary[t].testf = Cardinality(FailedRead(t))
        /\ summary[t].testg = Cardinality(PassedRead(t))

BatteriesInv ==
    /\ TypeInv /\ RoundsInv /\ (\A p \in Processes : CallsInv(p))
    /\ StoresInv /\ FailuresExplained /\ LogInv /\ SummaryInv

-----------------------------------------------------------------------------
(* Finite sets, and what a step of one process leaves of the others.       *)

LEMMA FiniteSets ==
    ASSUME TypeInv
    PROVE  IsFiniteSet(Processes) /\ IsFiniteSet(made) /\ IsFiniteSet(failed)
  <1>1. IsFiniteSet({1, 2})
    <2>1. IsFiniteSet({1})
      BY FS_Singleton
    <2>2. {1, 2} = {1} \cup {2} /\ IsFiniteSet({1} \cup {2})
      BY <2>1, FS_AddElement
    <2>3. QED
      BY <2>1, <2>2
  <1>2. IsFiniteSet(Processes)
    BY <1>1, ClientsAssumption, FS_Product DEF Processes
  <1>3. IsFiniteSet(Objects) /\ IsFiniteSet(CONNECT .. DISCONNECT)
    BY ObjectsAssumption, FS_Interval DEF Objects, CONNECT, DISCONNECT
  <1>4. /\ IsFiniteSet(Processes \X Objects)
        /\ IsFiniteSet(Processes \X (CONNECT .. DISCONNECT))
    BY <1>2, <1>3, FS_Product
  <1>5. QED
    BY <1>2, <1>4, FS_Subset DEF TypeInv

\* Members of a sum of two sets with nothing in common.
LEMMA CardinalityOfSum ==
    ASSUME NEW S, NEW T, IsFiniteSet(S), IsFiniteSet(T), S \cap T = {}
    PROVE  Cardinality(S \cup T) = Cardinality(S) + Cardinality(T)
  <1>1. Cardinality(S \cap T) = 0
    BY FS_EmptySet
  <1>2. Cardinality(S) \in Nat /\ Cardinality(T) \in Nat
    BY FS_CardinalityType
  <1>3. Cardinality(S \cup T) = Cardinality(S) + Cardinality(T) - Cardinality(S \cap T)
    BY FS_Union
  <1>4. QED
    BY <1>1, <1>2, <1>3

\* A process that is not in its round runs no test.
LEMMA TestOfProcess ==
    ASSUME NEW p \in Processes
    PROVE  Test(p) \in 1 .. 3 /\ p = <<p[1], p[2]>> /\ p[1] \in Clients /\ p[2] \in {1, 2}
  BY DEF Processes, Test

\* A process whose calls, counters and place are left alone keeps what is true of it.
LEMMA OthersKeep ==
    ASSUME TypeInv, TypeInv', NEW q \in Processes, CallsInv(q),
           pc'[q] = pc[q], i'[q] = i[q], stats'[q] = stats[q],
           \A n : <<q, n>> \in made' <=> <<q, n>> \in made,
           \A n : <<q, n>> \in failed' <=> <<q, n>> \in failed
    PROVE  Made(q)' = Made(q) /\ MadeFailed(q)' = MadeFailed(q) /\ CallsInv(q)'
  <1>1. \A m \in made \cup made' : m = <<m[1], m[2]>>
    BY DEF TypeInv
  <1>2. Made(q)' = Made(q)
    BY <1>1 DEF Made
  <1>3. MadeFailed(q)' = MadeFailed(q)
    BY <1>1 DEF MadeFailed
  <1>4. QED
    BY <1>2, <1>3 DEF CallsInv

-----------------------------------------------------------------------------
(* The steps.                                                              *)

\* What test1, test2 and test3 do.
LEMMA OperationStep ==
    ASSUME TypeInv, NEW p \in Processes, test1(p) \/ test2(p) \/ test3(p)
    PROVE  /\ \E ok \in {0, 1} : Operation(p, ok)
           /\ stored' \in [Clients -> SUBSET Objects]
           /\ \A c \in Clients, o \in Objects :
                  o # i[p] \/ c # p[1] => (o \in stored'[c] <=> o \in stored[c])
  <1>1. p[1] \in Clients
    BY TestOfProcess
  <1>2. CASE test1(p)
    <2>1. \E ok \in {0, 1} : Operation(p, ok)
      BY <1>2 DEF test1
    <2>2. i[p] \in Objects
      BY <2>1, ObjectsAssumption DEF Operation, TypeInv, Objects
    <2>3. QED
      BY <1>1, <1>2, <2>1, <2>2 DEF test1, TypeInv
  <1>3. CASE test2(p)
    BY <1>3 DEF test2, TypeInv
  <1>4. CASE test3(p)
    BY <1>1, <1>4 DEF test3, TypeInv
  <1>5. QED
    BY <1>2, <1>3, <1>4

\* A process is killed in a call, which has then failed and has been refused.
LEMMA DieStep ==
    ASSUME TypeInv, NEW p \in Processes, Die(p)
    PROVE  \E call \in {CONNECT, i[p]} :
              /\ call \in CONNECT .. DISCONNECT
              /\ Called(p, call, 0) /\ Refuse(p, call) /\ Goto(p, "killed")
              /\ pc[p] \in {"connect", "test"}
              /\ UNCHANGED <<scriptVars, i, stats, stored, log, summary, made>>
  BY ObjectsAssumption DEF Die, TypeInv, CONNECT, DISCONNECT

\* A call that returns ok.
LEMMA CalledTypes ==
    ASSUME TypeInv, NEW p \in Processes, NEW call \in CONNECT .. DISCONNECT,
           NEW ok \in {0, 1}, Called(p, call, ok)
    PROVE  /\ failed' \subseteq Processes \X (CONNECT .. DISCONNECT)
           /\ failed \subseteq failed'
           /\ \A q, n : <<q, n>> \in failed' <=>
                  <<q, n>> \in failed \/ (ok = 0 /\ q = p /\ n = call)
  BY DEF Called, TypeInv

LEMMA CallNumbers ==
    /\ CONNECT \in CONNECT .. DISCONNECT /\ DISCONNECT \in CONNECT .. DISCONNECT
    /\ Objects \subseteq CONNECT .. DISCONNECT
    /\ CONNECT \notin Objects /\ DISCONNECT \notin Objects /\ CONNECT # DISCONNECT
  BY ObjectsAssumption DEF CONNECT, DISCONNECT, Objects

\* The types after each step.
LEMMA TypeStep ==
    ASSUME TypeInv, LogInv, [Next]_vars
    PROVE  TypeInv'
  <1> USE DEF TypeInv, history, scriptVars
  <1>1. CASE Listen \/ Terminated \/ UNCHANGED vars
    BY <1>1 DEF Listen, Terminated, vars
  <1>2. CASE Launch
    BY <1>2 DEF Launch
  <1>3. ASSUME NEW p \in Processes, os_connect(p)
        PROVE  TypeInv'
    <2>1. PICK ok \in {0, 1} :
              /\ Called(p, CONNECT, ok)
              /\ stats' = [stats EXCEPT ![p].ok_connection = ok, ![p].operations = @ + 1]
              /\ Goto(p, IF ok = 1 THEN "test" ELSE "log")
              /\ UNCHANGED <<scriptVars, i, stored, log, summary, made>>
      BY <1>3 DEF os_connect
    <2>2. stats' \in [Processes -> Counters]
      BY <2>1 DEF Counters
    <2>3. failed' \subseteq Processes \X (CONNECT .. DISCONNECT)
      BY <2>1, CalledTypes, CallNumbers
    <2>4. QED
      BY <2>1, <2>2, <2>3 DEF Goto
  <1>4. ASSUME NEW p \in Processes, test1(p) \/ test2(p) \/ test3(p)
        PROVE  TypeInv'
    <2>1. PICK ok \in {0, 1} : Operation(p, ok)
      BY <1>4, OperationStep
    <2>2. stored' \in [Clients -> SUBSET Objects]
      BY <1>4, OperationStep
    <2>3. i[p] \in Objects /\ i' \in [Processes -> 1 .. OBJ_NUMBER + 1]
      BY <2>1, ObjectsAssumption DEF Operation, Objects
    <2>4. stats' \in [Processes -> Counters]
      BY <2>1 DEF Operation, Count, Counters
    <2>5. failed' \subseteq Processes \X (CONNECT .. DISCONNECT)
      BY <2>1, <2>3, CalledTypes, CallNumbers DEF Operation
    <2>6. QED
      BY <2>1, <2>2, <2>3, <2>4, <2>5 DEF Operation
  <1>5. ASSUME NEW p \in Processes, os_disconnect(p)
        PROVE  TypeInv'
    <2>1. PICK ok \in {0, 1} :
              /\ Called(p, DISCONNECT, ok)
              /\ stats' = [stats EXCEPT ![p].ok_disconnection = ok,
                                        ![p].operations = @ + 1]
              /\ Goto(p, "log")
              /\ UNCHANGED <<scriptVars, i, stored, log, summary, made>>
      BY <1>5 DEF os_disconnect
    <2>2. stats' \in [Processes -> Counters]
      BY <2>1 DEF Counters
    <2>3. failed' \subseteq Processes \X (CONNECT .. DISCONNECT)
      BY <2>1, CalledTypes, CallNumbers
    <2>4. QED
      BY <2>1, <2>2, <2>3 DEF Goto
  <1>6. ASSUME NEW p \in Processes, LOG(p)
        PROVE  TypeInv'
    BY <1>6 DEF LOG, Goto
  <1>7. ASSUME NEW line \in log, extract_info(line)
        PROVE  TypeInv'
    <2>1. /\ line.test \in 1 .. 3 /\ line.succeded \in Nat /\ line.failed \in Nat
      <3>1. line.process \in Processes /\ line = Line(line.process)
        BY DEF LogInv
      <3>2. /\ line.test = Test(line.process)
            /\ line.succeded = stats[line.process].ok_operations
            /\ line.failed = stats[line.process].ko_operations
        BY <3>1 DEF Line
      <3>3. QED
        BY <3>1, <3>2, TestOfProcess DEF Counters
    <2>2. summary' \in [1 .. 3 -> Sums]
      BY <1>7, <2>1 DEF extract_info, Sums
    <2>3. QED
      BY <1>7, <2>2 DEF extract_info
  <1>8. ASSUME NEW p \in Processes, Die(p)
        PROVE  TypeInv'
    <2>1. PICK call \in {CONNECT, i[p]} :
              /\ call \in CONNECT .. DISCONNECT
              /\ Called(p, call, 0) /\ Goto(p, "killed")
              /\ UNCHANGED <<scriptVars, i, stats, stored, log, summary, made>>
      BY <1>8, DieStep
    <2>2. failed' \subseteq Processes \X (CONNECT .. DISCONNECT)
      BY <2>1, CalledTypes
    <2>3. QED
      BY <2>1, <2>2 DEF Goto
  <1>9. QED
    BY <1>1, <1>2, <1>3, <1>4, <1>5, <1>6, <1>7, <1>8 DEF Next

\* The second round starts after the first.
LEMMA RoundsStep ==
    ASSUME TypeInv, RoundsInv, [Next]_vars
    PROVE  RoundsInv'
  <1> USE DEF TypeInv, RoundsInv, scriptVars, history
  <1>1. CASE Listen \/ Terminated \/ UNCHANGED vars
    BY <1>1 DEF Listen, Terminated, vars
  <1>2. CASE Launch
    BY <1>2, TestOfProcess DEF Launch
  <1>3. ASSUME NEW p \in Processes,
               \/ os_connect(p) \/ test1(p) \/ test2(p) \/ test3(p) \/ os_disconnect(p)
               \/ LOG(p) \/ Die(p)
        PROVE  RoundsInv'
    <2>1. round' = round /\ pc[p] \notin {"none", "exited", "killed"}
      BY <1>3, OperationStep DEF os_connect, Operation, os_disconnect, LOG, Die
    <2>2. pc' = pc \/ \E l : Goto(p, l)
      BY <1>3, OperationStep DEF os_connect, Operation, os_disconnect, LOG, Die
    <2>3. QED
      BY <2>1, <2>2 DEF Goto
  <1>4. ASSUME NEW line \in log, extract_info(line)
        PROVE  RoundsInv'
    BY <1>4 DEF extract_info
  <1>5. QED
    BY <1>1, <1>2, <1>3, <1>4 DEF Next

\* An operation counts one for its process, and one more when it fails.
LEMMA OperationCounts ==
    ASSUME TypeInv, TypeInv', NEW p \in Processes, CallsInv(p),
           NEW ok \in {0, 1}, Operation(p, ok)
    PROVE  CallsInv(p)'
  <1> DEFINE m == <<p, i[p]>>
  <1>1. i[p] \in Objects /\ i'[p] = i[p] + 1 /\ i[p] \in Nat
    BY ObjectsAssumption DEF Operation, TypeInv, Objects
  <1>2. /\ stats'[p].operations = stats[p].operations + 1
        /\ stats'[p].ok_operations = stats[p].ok_operations + ok
        /\ stats'[p].ko_operations = stats[p].ko_operations + 1 - ok
        /\ stats'[p].ok_connection = stats[p].ok_connection
    BY DEF Operation, Count, TypeInv, Counters
  <1>3. /\ stats[p].operations \in Nat /\ stats[p].ok_operations \in Nat
        /\ stats[p].ko_operations \in Nat
    BY DEF TypeInv, Counters
  <1>4. m \notin made /\ m \notin failed /\ made' = made \cup {m} /\ pc[p] = "test"
    BY <1>1 DEF CallsInv, Operation
  <1>5. failed' = IF ok = 1 THEN failed ELSE failed \cup {m}
    BY DEF Operation, Called
  <1>6. Cardinality(Made(p)') = Cardinality(Made(p)) + 1
    <2>1. IsFiniteSet(Made(p)) /\ m \notin Made(p)
      BY <1>4, FiniteSets, FS_Subset DEF Made
    <2>2. Made(p)' = Made(p) \cup {m}
      BY <1>4 DEF Made
    <2>3. QED
      BY <2>1, <2>2, FS_AddElement
  <1>7. Cardinality(MadeFailed(p)') = Cardinality(MadeFailed(p)) + 1 - ok
    <2>1. IsFiniteSet(MadeFailed(p)) /\ m \notin MadeFailed(p)
      BY <1>4, FiniteSets, FS_Subset DEF MadeFailed
    <2>2. Cardinality(MadeFailed(p)) \in Nat
      BY <2>1, FS_CardinalityType
    <2>3. CASE ok = 1
      <3>1. MadeFailed(p)' = MadeFailed(p)
        BY <1>4, <1>5, <2>3 DEF MadeFailed
      <3>2. QED
        BY <2>2, <2>3, <3>1
    <2>4. CASE ok = 0
      <3>1. MadeFailed(p)' = MadeFailed(p) \cup {m}
        BY <1>4, <1>5, <2>4 DEF MadeFailed
      <3>2. Cardinality(MadeFailed(p)') = Cardinality(MadeFailed(p)) + 1
        BY <2>1, <3>1, FS_AddElement
      <3>3. QED
        BY <2>2, <2>4, <3>2
    <2>5. QED
      BY <2>3, <2>4
  <1>8. \A n \in Objects : /\ <<p, n>> \in made' => n < i'[p]
                           /\ <<p, n>> \in failed' => <<p, n>> \in made'
    BY <1>1, <1>4, <1>5, ObjectsAssumption DEF CallsInv, Objects
  <1>9. pc'[p] = "test" /\ pc[p] = "test" /\ <<p, CONNECT>> \notin failed'
    BY <1>1, <1>5, CallNumbers DEF Operation, CallsInv
  <1>10. QED
    BY <1>1, <1>2, <1>3, <1>6, <1>7, <1>8, <1>9 DEF CallsInv

\* A process counts its calls as it makes them, and nobody else counts them.
LEMMA CallsStep ==
    ASSUME TypeInv, RoundsInv, LogInv, \A q \in Processes : CallsInv(q), [Next]_vars,
           NEW p \in Processes
    PROVE  CallsInv(p)'
  <1> USE DEF scriptVars, history
  <1>0. TypeInv' /\ CallsInv(p)
    BY TypeStep
  <1>1. CASE Listen \/ Terminated \/ UNCHANGED vars \/ \E line \in log : extract_info(line)
    <2>1. UNCHANGED <<pc, i, stats, made, failed>>
      BY <1>1 DEF Listen, Terminated, vars, extract_info
    <2>2. QED
      BY <1>0, <2>1, OthersKeep
  <1>2. CASE Launch
    <2>1. UNCHANGED <<i, stats, made, failed>>
      BY <1>2 DEF Launch
    <2>2. pc'[p] = pc[p] \/ (pc[p] = "none" /\ pc'[p] = "connect")
      BY <1>2, TestOfProcess DEF Launch, TypeInv, RoundsInv
    <2>3. Made(p)' = Made(p) /\ MadeFailed(p)' = MadeFailed(p)
      BY <2>1 DEF Made, MadeFailed
    <2>4. QED
      BY <1>0, <2>1, <2>2, <2>3 DEF CallsInv
  <1>3. ASSUME NEW q \in Processes, os_connect(q)
        PROVE  CallsInv(p)'
    <2>1. PICK ok \in {0, 1} :
              /\ pc[q] = "connect"
              /\ Called(q, CONNECT, ok)
              /\ stats' = [stats EXCEPT ![q].ok_connection = ok, ![q].operations = @ + 1]
              /\ Goto(q, IF ok = 1 THEN "test" ELSE "log")
              /\ UNCHANGED <<scriptVars, i, stored, log, summary, made>>
      BY <1>3 DEF os_connect
    <2>2. \A r, n : <<r, n>> \in failed' <=>
                        <<r, n>> \in failed \/ (ok = 0 /\ r = q /\ n = CONNECT)
      BY <2>1 DEF Called
    <2>3. CASE p # q
      BY <1>0, <2>1, <2>2, <2>3, OthersKeep DEF Goto, TypeInv
    <2>4. CASE p = q
      <3>1. /\ stats'[p].operations = stats[p].operations + 1
            /\ stats'[p].ok_operations = stats[p].ok_operations
            /\ stats'[p].ko_operations = stats[p].ko_operations
            /\ stats'[p].ok_connection = ok
        BY <2>1, <2>4 DEF TypeInv, Counters
      <3>2. Made(p)' = Made(p) /\ i' = i /\ made' = made
        BY <2>1 DEF Made
      <3>3. MadeFailed(p)' = MadeFailed(p)
        <4>1. \A m \in made : m = <<m[1], m[2]>> /\ m[2] \in Objects
          BY DEF TypeInv
        <4>2. \A m \in made : m \in failed' <=> m \in failed
          BY <2>2, <4>1, CallNumbers
        <4>3. QED
          BY <3>2, <4>2 DEF MadeFailed
      <3>4. \A n \in Objects : <<p, n>> \in failed' => <<p, n>> \in failed
        BY <2>2, CallNumbers
      <3>5. pc'[p] = IF ok = 1 THEN "test" ELSE "log"
        BY <2>1, <2>4 DEF Goto, TypeInv
      <3>6. <<p, CONNECT>> \in failed' <=> ok = 0
        BY <1>0, <2>1, <2>2, <2>4 DEF CallsInv
      <3>7. QED
        BY <1>0, <2>1, <2>4, <3>1, <3>2, <3>3, <3>4, <3>5, <3>6 DEF CallsInv
    <2>5. QED
      BY <2>3, <2>4
  <1>4. ASSUME NEW q \in Processes, test1(q) \/ test2(q) \/ test3(q)
        PROVE  CallsInv(p)'
    <2>1. PICK ok \in {0, 1} : Operation(q, ok)
      BY <1>4, OperationStep
    <2>2. CASE p # q
      <3>1. i[q] \in CONNECT .. DISCONNECT
        BY <2>1, ObjectsAssumption DEF Operation, TypeInv, CONNECT, DISCONNECT
      <3>2. \A n : <<p, n>> \in failed' <=> <<p, n>> \in failed
        BY <2>1, <2>2, <3>1, CalledTypes DEF Operation
      <3>3. /\ pc' = pc /\ i'[p] = i[p] /\ stats'[p] = stats[p]
            /\ \A n : <<p, n>> \in made' <=> <<p, n>> \in made
        BY <2>1, <2>2 DEF Operation, Count, TypeInv
      <3>4. QED
        BY <1>0, <3>2, <3>3, OthersKeep
    <2>3. CASE p = q
      BY <1>0, <2>1, <2>3, OperationCounts
    <2>4. QED
      BY <2>2, <2>3
  <1>5. ASSUME NEW q \in Processes, os_disconnect(q)
        PROVE  CallsInv(p)'
    <2>1. PICK ok \in {0, 1} :
              /\ pc[q] = "test" /\ i[q] > OBJ_NUMBER
              /\ Called(q, DISCONNECT, ok)
              /\ stats' = [stats EXCEPT ![q].ok_disconnection = ok,
                                        ![q].operations = @ + 1]
              /\ Goto(q, "log")
              /\ UNCHANGED <<scriptVars, i, stored, log, summary, made>>
      BY <1>5 DEF os_disconnect
    <2>2. \A r, n : <<r, n>> \in failed' <=>
                        <<r, n>> \in failed \/ (ok = 0 /\ r = q /\ n = DISCONNECT)
      BY <2>1 DEF Called
    <2>3. CASE p # q
      BY <1>0, <2>1, <2>2, <2>3, OthersKeep DEF Goto, TypeInv
    <2>4. CASE p = q
      <3>1. /\ stats'[p].operations = stats[p].operations + 1
            /\ stats'[p].ok_operations = stats[p].ok_operations
            /\ stats'[p].ko_operations = stats[p].ko_operations
            /\ stats'[p].ok_connection = stats[p].ok_connection
        BY <2>1, <2>4 DEF TypeInv, Counters
      <3>2. Made(p)' = Made(p) /\ i' = i /\ made' = made
        BY <2>1 DEF Made
      <3>3. MadeFailed(p)' = MadeFailed(p)
        <4>1. \A m \in made : m = <<m[1], m[2]>> /\ m[2] \in Objects
          BY DEF TypeInv
        <4>2. \A m \in made : m \in failed' <=> m \in failed
          BY <2>2, <4>1, CallNumbers
        <4>3. QED
          BY <3>2, <4>2 DEF MadeFailed
      <3>4. \A n \in Objects \cup {CONNECT} : <<p, n>> \in failed' <=> <<p, n>> \in failed
        BY <2>2, CallNumbers
      <3>5. pc'[p] = "log" /\ i[p] = OBJ_NUMBER + 1
        BY <2>1, <2>4, ObjectsAssumption DEF Goto, TypeInv
      <3>6. QED
        BY <1>0, <2>1, <2>4, <3>1, <3>2, <3>3, <3>4, <3>5, ObjectsAssumption DEF CallsInv
    <2>5. QED
      BY <2>3, <2>4
  <1>6. ASSUME NEW q \in Processes, LOG(q)
        PROVE  CallsInv(p)'
    <2>1. /\ UNCHANGED <<i, stats, made, failed>>
          /\ pc'[p] = pc[p] \/ (pc[p] = "log" /\ pc'[p] = "exited")
      BY <1>6 DEF LOG, Goto, TypeInv
    <2>2. Made(p)' = Made(p) /\ MadeFailed(p)' = MadeFailed(p)
      BY <2>1 DEF Made, MadeFailed
    <2>3. QED
      BY <1>0, <2>1, <2>2 DEF CallsInv
  <1>7. ASSUME NEW q \in Processes, Die(q)
        PROVE  CallsInv(p)'
    <2>1. PICK call \in {CONNECT, i[q]} :
              /\ call \in CONNECT .. DISCONNECT
              /\ Called(q, call, 0) /\ Goto(q, "killed")
              /\ pc[q] \in {"connect", "test"}
              /\ UNCHANGED <<scriptVars, i, stats, stored, log, summary, made>>
      BY <1>7, DieStep
    <2>2. \A r, n : <<r, n>> \in failed' <=>
                        <<r, n>> \in failed \/ (r = q /\ n = call)
      BY <2>1 DEF Called
    <2>3. CASE p # q
      BY <1>0, <2>1, <2>2, <2>3, OthersKeep DEF Goto, TypeInv
    <2>4. CASE p = q
      <3>1. Made(p)' = Made(p) /\ i' = i /\ made' = made /\ stats' = stats
        BY <2>1 DEF Made
      <3>2. <<p, call>> \notin made
        BY <1>0, <2>1, <2>4, CallNumbers DEF CallsInv, TypeInv
      <3>3. MadeFailed(p)' = MadeFailed(p)
        <4>1. failed' = failed \cup {<<p, call>>}
          BY <2>1, <2>4 DEF Called
        <4>2. QED
          BY <3>1, <3>2, <4>1 DEF MadeFailed
      <3>4. pc'[p] = "killed"
        BY <2>1, <2>4 DEF Goto, TypeInv
      <3>5. <<p, CONNECT>> \in failed' \/ <<p, i'[p]>> \in failed'
        BY <2>1, <2>2, <2>4, <3>1
      <3>6. QED
        BY <1>0, <3>1, <3>3, <3>4, <3>5 DEF CallsInv
    <2>5. QED
      BY <2>3, <2>4
  <1>8. QED
    BY <1>1, <1>2, <1>3, <1>4, <1>5, <1>6, <1>7 DEF Next

\* History is kept.
LEMMA HistoryGrows ==
    ASSUME [Next]_vars
    PROVE  failed \subseteq failed' /\ refused \subseteq refused'
  <1> USE DEF scriptVars, history
  <1>1. CASE Listen \/ Launch \/ Terminated \/ UNCHANGED vars
              \/ \E line \in log : extract_info(line)
    BY <1>1 DEF Listen, Launch, Terminated, vars, extract_info
  <1>2. ASSUME NEW p \in Processes, os_connect(p) \/ os_disconnect(p) \/ LOG(p) \/ Die(p)
        PROVE  failed \subseteq failed' /\ refused \subseteq refused'
    BY <1>2 DEF os_connect, os_disconnect, LOG, Die, Called, Refuse
  <1>3. ASSUME NEW p \in Processes, test1(p) \/ test2(p) \/ test3(p)
        PROVE  failed \subseteq failed' /\ refused \subseteq refused'
    BY <1>3 DEF test1, test2, test3, Operation, Called, Refuse
  <1>4. QED
    BY <1>1, <1>2, <1>3 DEF Next

\* What is stored between the two rounds is there when the second comes to it.
LEMMA StoresStep ==
    ASSUME TypeInv, StoresInv, [Next]_vars
    PROVE  StoresInv'
  <1> USE DEF scriptVars, history
  <1>0. failed \subseteq failed'
    BY HistoryGrows
  <1>1. CASE UNCHANGED <<i, stored>>
    BY <1>0, <1>1 DEF StoresInv
  <1>2. ASSUME NEW p \in Processes, test1(p) \/ test2(p) \/ test3(p)
        PROVE  StoresInv'
    <2> SUFFICES ASSUME NEW c \in Clients, NEW o \in Objects,
                        i'[<<c, 2>>] <= o, o < i'[<<c, 1>>]
                 PROVE  o \in stored'[c] \/ <<<<c, 1>>, o>> \in failed'
      BY DEF StoresInv
    <2>1. <<c, 1>> \in Processes /\ <<c, 2>> \in Processes /\ o \in Nat
      BY ObjectsAssumption DEF Processes, Objects
    <2>2. i' = [i EXCEPT ![p] = @ + 1] /\ i[p] \in Nat
      BY <1>2, OperationStep DEF Operation, TypeInv
    <2>3. CASE o # i[p] \/ p \notin {<<c, 1>>, <<c, 2>>}
      <3>1. i[<<c, 2>>] <= o /\ o < i[<<c, 1>>]
        BY <2>1, <2>2, <2>3 DEF TypeInv
      <3>2. o # i[p] \/ c # p[1]
        BY <2>3, TestOfProcess
      <3>3. o \in stored'[c] <=> o \in stored[c]
        BY <1>2, <3>2, OperationStep
      <3>4. QED
        BY <1>0, <3>1, <3>3 DEF StoresInv
    <2>4. CASE p = <<c, 2>> /\ o = i[p]
      BY <2>1, <2>2, <2>4 DEF TypeInv
    <2>5. CASE p = <<c, 1>> /\ o = i[p]
      <3>1. test1(p)
        BY <1>2, <2>5 DEF test2, test3, Test
      <3>2. o \in stored'[c] \/ Operation(p, 0)
        BY <2>5, <3>1 DEF test1, TypeInv
      <3>3. QED
        BY <2>5, <3>2 DEF Operation, Called
    <2>6. QED
      BY <2>3, <2>4, <2>5
  <1>3. CASE \/ Listen \/ Launch \/ Terminated \/ UNCHANGED vars
             \/ \E p \in Processes : os_connect(p) \/ os_disconnect(p) \/ LOG(p) \/ Die(p)
             \/ \E line \in log : extract_info(line)
    <2>1. UNCHANGED <<i, stored>>
      BY <1>3
      DEF Listen, Launch, Terminated, vars, os_connect, os_disconnect, LOG, Die,
          extract_info
    <2>2. QED
      BY <1>1, <2>1
  <1>4. QED
    BY <1>2, <1>3 DEF Next

\* In the second round an operation fails for a reason that is past.
LEMMA FailuresStep ==
    ASSUME TypeInv, RoundsInv, \A p \in Processes : CallsInv(p), StoresInv,
           FailuresExplained, [Next]_vars
    PROVE  FailuresExplained'
  <1> USE DEF scriptVars, history
  <1>0. failed \subseteq failed' /\ refused \subseteq refused'
    BY HistoryGrows
  <1>1. SUFFICES ASSUME NEW c \in Clients, NEW o \in Objects,
                        <<<<c, 2>>, o>> \in failed' \ failed
                 PROVE  \E call \in CONNECT .. o :
                            \/ <<<<c, 1>>, call>> \in failed'
                            \/ <<<<c, 2>>, call>> \in refused'
    BY <1>0 DEF FailuresExplained
  <1> DEFINE p == <<c, 2>>
             first == <<c, 1>>
  <1>2. p \in Processes /\ first \in Processes /\ o \in CONNECT .. o /\ o \in Nat
    BY ObjectsAssumption DEF Processes, Objects, CONNECT
  <1>3. \/ (test2(p) \/ test3(p)) /\ Operation(p, 0) /\ o = i[p]
        \/ <<p, o>> \in refused'
    <2>1. CASE \/ Listen \/ Launch \/ Terminated \/ UNCHANGED vars
               \/ \E q \in Processes : LOG(q)
               \/ \E line \in log : extract_info(line)
      BY <1>1, <2>1 DEF Listen, Launch, Terminated, vars, LOG, extract_info
    <2>2. ASSUME NEW q \in Processes, os_connect(q) \/ os_disconnect(q)
          PROVE  FALSE
      BY <1>1, <2>2, CallNumbers DEF os_connect, os_disconnect, Called
    <2>3. ASSUME NEW q \in Processes, test1(q) \/ test2(q) \/ test3(q)
          PROVE  (test2(p) \/ test3(p)) /\ Operation(p, 0) /\ o = i[p]
      <3>1. PICK ok \in {0, 1} : Operation(q, ok)
        BY <2>3, OperationStep
      <3>2. q = p /\ o = i[p] /\ ok = 0
        BY <1>1, <3>1 DEF Operation, Called
      <3>3. ~test1(p)
        BY DEF test1, Test
      <3>4. QED
        BY <2>3, <3>1, <3>2, <3>3
    <2>4. ASSUME NEW q \in Processes, Die(q)
          PROVE  <<p, o>> \in refused'
      <3>1. PICK call : Called(q, call, 0) /\ Refuse(q, call)
        BY <2>4 DEF Die
      <3>2. q = p /\ call = o
        BY <1>1, <3>1 DEF Called
      <3>3. QED
        BY <3>1, <3>2 DEF Refuse
    <2>5. QED
      BY <2>1, <2>2, <2>3, <2>4 DEF Next
  <1>4. CASE <<p, o>> \in refused'
    BY <1>2, <1>4
  <1>5. CASE o \notin stored[c] /\ Operation(p, 0) /\ o = i[p]
    <2>1. pc[p] = "test" /\ round \in Nat
      BY <1>5 DEF Operation, TypeInv
    <2>2. pc[first] \in {"exited", "killed"}
      <3>1. ~(2 > round)
        BY <1>2, <2>1 DEF RoundsInv
      <3>2. 1 < round
        BY <2>1, <3>1
      <3>3. QED
        BY <1>2, <3>2 DEF RoundsInv
    <2>3. CASE <<first, CONNECT>> \in failed
      <3>1. CONNECT \in CONNECT .. o
        BY <1>2 DEF CONNECT
      <3>2. QED
        BY <1>0, <2>3, <3>1
    <2>4. CASE i[first] = OBJ_NUMBER + 1
      <3>1. i[p] <= o /\ o < i[first]
        BY <1>2, <1>5, <2>4, ObjectsAssumption DEF Objects
      <3>2. <<first, o>> \in failed
        BY <1>5, <3>1 DEF StoresInv
      <3>3. QED
        BY <1>0, <1>2, <3>2
    <2>5. CASE <<first, i[first]>> \in failed
      <3>1. CASE o < i[first]
        <4>1. i[p] <= o
          BY <1>2, <1>5 DEF TypeInv
        <4>2. <<first, o>> \in failed
          BY <1>5, <3>1, <4>1 DEF StoresInv
        <4>3. QED
          BY <1>0, <1>2, <4>2
      <3>2. CASE ~(o < i[first])
        <4>1. i[first] \in CONNECT .. o
          BY <1>2, <3>2, ObjectsAssumption DEF TypeInv, CONNECT
        <4>2. QED
          BY <1>0, <2>5, <4>1
      <3>3. QED
        BY <3>1, <3>2
    <2>6. QED
      BY <1>2, <2>2, <2>3, <2>4, <2>5 DEF CallsInv
  <1>6. CASE StaleError(p) /\ Operation(p, 0) /\ o = i[p]
    <2>1. MadeFailed(p) # {}
      <3>1. Cardinality(MadeFailed(p)) > 0
        BY <1>2, <1>6 DEF StaleError, CallsInv
      <3>2. QED
        BY <3>1, FS_EmptySet
    <2>2. PICK n \in Objects : <<p, n>> \in made /\ <<p, n>> \in failed
      BY <2>1 DEF MadeFailed, TypeInv
    <2>3. n < o /\ n \in Nat
      <3>1. n < i[p]
        BY <1>2, <2>2 DEF CallsInv
      <3>2. QED
        BY <1>6, <3>1, ObjectsAssumption DEF Objects
    <2>4. PICK call \in CONNECT .. n :
              <<first, call>> \in failed \/ <<p, call>> \in refused
      BY <2>2 DEF FailuresExplained
    <2>5. call \in CONNECT .. o
      BY <1>2, <2>3, <2>4 DEF CONNECT
    <2>6. QED
      BY <1>0, <2>4, <2>5
  <1>7. ASSUME test2(p) \/ test3(p), Operation(p, 0), o = i[p]
        PROVE  <<p, o>> \in refused' \/ o \notin stored[c] \/ StaleError(p)
    <2>1. stats'[p].ko_operations = stats[p].ko_operations + 1
          /\ stats[p].ko_operations \in Nat
      BY <1>2, <1>7 DEF Operation, Count, TypeInv, Counters
    <2>2. Operation(p, 1) => stats'[p].ko_operations = stats[p].ko_operations + 1 - 1
      BY <1>2 DEF Operation, Count, TypeInv, Counters
    <2>3. QED
      BY <1>7, <2>1, <2>2 DEF test2, test3, Refuse
  <1>8. QED
    BY <1>3, <1>4, <1>5, <1>6, <1>7

\* A line that has been logged stays true.
LEMMA LogStep ==
    ASSUME TypeInv, RoundsInv, LogInv, [Next]_vars
    PROVE  LogInv'
  <1> USE DEF scriptVars, history
  <1>1. ASSUME NEW p \in Processes, pc[p] = "exited"
        PROVE  pc'[p] = "exited" /\ Line(p)' = Line(p)
    <2>1. CASE Listen \/ Terminated \/ UNCHANGED vars \/ \E line \in log : extract_info(line)
      BY <1>1, <2>1 DEF Listen, Terminated, vars, extract_info, Line
    <2>2. CASE Launch
      BY <1>1, <2>2, TestOfProcess DEF Launch, Line, TypeInv, RoundsInv
    <2>3. ASSUME NEW q \in Processes,
                 os_connect(q) \/ os_disconnect(q) \/ LOG(q) \/ Die(q)
          PROVE  pc'[p] = "exited" /\ Line(p)' = Line(p)
      BY <1>1, <2>3 DEF os_connect, os_disconnect, LOG, Die, Goto, Line, TypeInv
    <2>4. ASSUME NEW q \in Processes, test1(q) \/ test2(q) \/ test3(q)
          PROVE  pc'[p] = "exited" /\ Line(p)' = Line(p)
      BY <1>1, <2>4, OperationStep DEF Operation, Count, Line, TypeInv
    <2>5. QED
      BY <2>1, <2>2, <2>3, <2>4 DEF Next
  <1>2. CASE log' \subseteq log
    BY <1>1, <1>2 DEF LogInv
  <1>3. ASSUME NEW p \in Processes, LOG(p)
        PROVE  LogInv'
    <2>1. log' = log \cup {Line(p)} /\ Line(p)' = Line(p) /\ pc'[p] = "exited"
      BY <1>3 DEF LOG, Line, Goto, TypeInv
    <2>2. Line(p).process = p
      BY DEF Line
    <2>3. QED
      BY <1>1, <2>1, <2>2 DEF LogInv
  <1>4. CASE \/ Listen \/ Launch \/ Terminated \/ UNCHANGED vars
             \/ \E p \in Processes : os_connect(p) \/ os_disconnect(p) \/ Die(p)
             \/ \E line \in log : extract_info(line)
    <2>1. log' \subseteq log
      BY <1>4
      DEF Listen, Launch, Terminated, vars, os_connect, os_disconnect, Die, extract_info
    <2>2. QED
      BY <1>2, <2>1
  <1>5. ASSUME NEW p \in Processes, test1(p) \/ test2(p) \/ test3(p)
        PROVE  LogInv'
    <2>1. log' = log
      BY <1>5, OperationStep DEF Operation
    <2>2. QED
      BY <1>2, <2>1
  <1>6. QED
    BY <1>3, <1>4, <1>5 DEF Next

-----------------------------------------------------------------------------
(* What testsum.sh counts.                                                 *)

\* A line passes when no call of its process has failed, but for the last.
LEMMA PassedLine ==
    ASSUME TypeInv, \A p \in Processes : CallsInv(p), LogInv, NEW line \in log
    PROVE  /\ passed(line) <=> FailedCalls(line.process) \subseteq {DISCONNECT}
           /\ passed(line) => line.failed = 0
  <1> DEFINE p == line.process
  <1>1. /\ p \in Processes /\ pc[p] = "exited" /\ CallsInv(p)
        /\ stats[p].ok_operations \in Nat /\ stats[p].ko_operations \in Nat
    BY DEF LogInv, TypeInv, Counters
  <1>2. /\ line.connection = stats[p].ok_connection
        /\ line.disconnection = stats[p].ok_connection
        /\ line.operations = stats[p].operations
        /\ line.succeded = stats[p].ok_operations
        /\ line.failed = stats[p].ko_operations
    BY DEF LogInv, Line
  <1>3. CASE /\ stats[p].ok_connection = 0 /\ stats[p].operations = 1 /\ i[p] = 1
             /\ <<p, CONNECT>> \in failed
    <2>1. ~passed(line)
      BY <1>1, <1>2, <1>3 DEF passed, CallsInv
    <2>2. CONNECT \in FailedCalls(p) \ {DISCONNECT}
      BY <1>3, CallNumbers DEF FailedCalls
    <2>3. QED
      BY <2>1, <2>2
  <1>4. CASE /\ stats[p].ok_connection = 1 /\ stats[p].operations = OBJ_NUMBER + 2
             /\ i[p] = OBJ_NUMBER + 1 /\ <<p, CONNECT>> \notin failed
    <2>1. stats[p].ok_operations + stats[p].ko_operations = OBJ_NUMBER
      BY <1>1, <1>4, ObjectsAssumption DEF CallsInv
    <2>2. passed(line) <=> stats[p].ko_operations = 0
      BY <1>1, <1>2, <1>4, <2>1, ObjectsAssumption DEF passed
    <2>3. stats[p].ko_operations = 0 <=> MadeFailed(p) = {}
      <3>1. IsFiniteSet(MadeFailed(p))
        BY FiniteSets, FS_Subset DEF MadeFailed
      <3>2. Cardinality(MadeFailed(p)) = stats[p].ko_operations
        BY <1>1 DEF CallsInv
      <3>3. QED
        BY <3>1, <3>2, FS_EmptySet
    <2>4. MadeFailed(p) = {} <=> \A n \in Objects : <<p, n>> \notin failed
      <3>1. \A n \in Objects : <<p, n>> \in failed => <<p, n>> \in MadeFailed(p)
        BY <1>1 DEF CallsInv, MadeFailed
      <3>2. \A m \in MadeFailed(p) : m[2] \in Objects /\ <<p, m[2]>> \in failed
        BY DEF MadeFailed, TypeInv
      <3>3. QED
        BY <3>1, <3>2
    <2>5. (\A n \in Objects : <<p, n>> \notin failed) <=> FailedCalls(p) \subseteq {DISCONNECT}
      <3>1. \A n \in CONNECT .. DISCONNECT : n = CONNECT \/ n = DISCONNECT \/ n \in Objects
        BY ObjectsAssumption DEF CONNECT, DISCONNECT, Objects
      <3>2. QED
        BY <1>4, <3>1, CallNumbers DEF FailedCalls
    <2>6. QED
      BY <1>2, <2>2, <2>3, <2>4, <2>5
  <1>5. QED
    BY <1>1, <1>3, <1>4 DEF CallsInv

\* A step that reads no line, and of no process whose line has been read.
LEMMA SummaryKept ==
    ASSUME TypeInv, TypeInv', SummaryInv, Read' = Read, summary' = summary,
           \A p \in Read : \A n :
               /\ <<p, n>> \in made' <=> <<p, n>> \in made
               /\ <<p, n>> \in failed' <=> <<p, n>> \in failed
    PROVE  SummaryInv'
  <1> SUFFICES ASSUME NEW t \in 1 .. 3
               PROVE  /\ MadeRead(t)' = MadeRead(t) /\ FailedRead(t)' = FailedRead(t)
                      /\ PassedRead(t)' = PassedRead(t)
    BY DEF SummaryInv
  <1>1. \A m \in made \cup made' : m = <<m[1], m[2]>>
    BY DEF TypeInv
  <1>2. MadeRead(t)' = MadeRead(t)
    BY <1>1 DEF MadeRead, Test
  <1>3. FailedRead(t)' = FailedRead(t)
    BY <1>1 DEF FailedRead, Test
  <1>4. \A p \in Read : FailedCalls(p)' = FailedCalls(p)
    BY DEF FailedCalls
  <1>5. PassedRead(t)' = PassedRead(t)
    BY <1>4 DEF PassedRead, Batteries, Test
  <1>6. QED
    BY <1>2, <1>3, <1>5

\* A line that is read adds what its process has done to the sums of its test.
LEMMA SummaryRead ==
    ASSUME TypeInv, \A p \in Processes : CallsInv(p), LogInv, SummaryInv,
           NEW line \in log, extract_info(line)
    PROVE  SummaryInv'
  <1> DEFINE p == line.process
  <1>0. /\ p \in Processes /\ pc[p] = "exited" /\ line = Line(p) /\ CallsInv(p)
        /\ UNCHANGED <<pc, i, stats, stored, made, failed>>
        /\ log' = log \ {line}
    BY DEF LogInv, extract_info, history
  <1>1. /\ line.test = Test(p) /\ line.succeded = stats[p].ok_operations
        /\ line.failed = stats[p].ko_operations
        /\ Test(p) \in 1 .. 3
        /\ stats[p].ok_operations \in Nat /\ stats[p].ko_operations \in Nat
    BY <1>0, TestOfProcess DEF Line, TypeInv, Counters
  <1>2. Read' = Read \cup {p} /\ p \notin Read
    <2>1. \A l \in log : l.process = p => l = line
      BY <1>0 DEF LogInv
    <2>2. QED
      BY <1>0, <2>1 DEF Read
  <1>3. /\ IsFiniteSet(Processes) /\ IsFiniteSet(made)
        /\ IsFiniteSet(Made(p)) /\ IsFiniteSet(MadeFailed(p))
    BY FiniteSets, FS_Subset DEF Made, MadeFailed
  <1>4. ASSUME NEW t \in 1 .. 3
        PROVE  /\ IsFiniteSet(MadeRead(t)) /\ IsFiniteSet(FailedRead(t))
               /\ IsFiniteSet(PassedRead(t))
    BY <1>3, FS_Subset DEF MadeRead, FailedRead, PassedRead, Batteries
  <1>5. ASSUME NEW t \in 1 .. 3
        PROVE  /\ summary'[t].testb = Cardinality(MadeRead(t)')
               /\ summary'[t].testf = Cardinality(FailedRead(t)')
               /\ summary'[t].testg = Cardinality(PassedRead(t)')
    <2>1. CASE t # Test(p)
      <3>1. summary'[t] = summary[t]
        BY <1>1, <2>1 DEF extract_info, TypeInv
      <3>2. MadeRead(t)' = MadeRead(t) /\ FailedRead(t)' = FailedRead(t)
        BY <1>0, <1>2, <2>1 DEF MadeRead, FailedRead, Test
      <3>3. PassedRead(t)' = PassedRead(t)
        BY <1>0, <1>2, <2>1 DEF PassedRead, Batteries, FailedCalls, Test
      <3>4. QED
        BY <3>1, <3>2, <3>3 DEF SummaryInv
    <2>2. CASE t = Test(p)
      <3>1. /\ summary'[t].testb = summary[t].testb + line.succeded + line.failed
            /\ summary'[t].testf =
                  IF passed(line) THEN summary[t].testf ELSE summary[t].testf + line.failed
            /\ summary'[t].testg =
                  IF passed(line) THEN summary[t].testg + 1 ELSE summary[t].testg
        BY <1>1, <2>2 DEF extract_info, TypeInv, Sums
      <3>2. /\ summary[t].testb = Cardinality(MadeRead(t))
            /\ summary[t].testf = Cardinality(FailedRead(t))
            /\ summary[t].testg = Cardinality(PassedRead(t))
            /\ summary[t].testb \in Nat /\ summary[t].testf \in Nat
        BY DEF SummaryInv, TypeInv, Sums
      <3>3. summary'[t].testb = Cardinality(MadeRead(t)')
        <4>1. MadeRead(t)' = MadeRead(t) \cup Made(p)
          BY <1>0, <1>2, <2>2 DEF MadeRead, Made, Test
        <4>2. MadeRead(t) \cap Made(p) = {}
          BY <1>2 DEF MadeRead, Made
        <4>3. Cardinality(MadeRead(t)') = Cardinality(MadeRead(t)) + Cardinality(Made(p))
          BY <1>3, <1>4, <4>1, <4>2, CardinalityOfSum
        <4>4. Cardinality(Made(p)) = line.succeded + line.failed
          BY <1>0, <1>1 DEF CallsInv
        <4>5. QED
          BY <1>1, <3>1, <3>2, <4>3, <4>4
      <3>4. summary'[t].testf = Cardinality(FailedRead(t)')
        <4>1. FailedRead(t)' = FailedRead(t) \cup MadeFailed(p)
          BY <1>0, <1>2, <2>2 DEF FailedRead, MadeFailed, Test
        <4>2. FailedRead(t) \cap MadeFailed(p) = {}
          BY <1>2 DEF FailedRead, MadeFailed
        <4>3. Cardinality(FailedRead(t)') =
                  Cardinality(FailedRead(t)) + Cardinality(MadeFailed(p))
          BY <1>3, <1>4, <4>1, <4>2, CardinalityOfSum
        <4>4. Cardinality(MadeFailed(p)) = line.failed
          BY <1>0, <1>1 DEF CallsInv
        <4>5. passed(line) => line.failed = 0
          BY PassedLine
        <4>6. QED
          BY <1>1, <3>1, <3>2, <4>3, <4>4, <4>5
      <3>5. summary'[t].testg = Cardinality(PassedRead(t)')
        <4>1. passed(line) <=> FailedCalls(p) \subseteq {DISCONNECT}
          BY PassedLine
        <4>2. p \in Batteries(t)
          BY <1>0, <2>2 DEF Batteries
        <4>3. CASE passed(line)
          <5>1. PassedRead(t)' = PassedRead(t) \cup {p} /\ p \notin PassedRead(t)
            BY <1>0, <1>2, <4>1, <4>2, <4>3
            DEF PassedRead, Batteries, FailedCalls, Test
          <5>2. QED
            BY <1>4, <3>1, <3>2, <4>3, <5>1, FS_AddElement
        <4>4. CASE ~passed(line)
          <5>1. PassedRead(t)' = PassedRead(t)
            BY <1>0, <1>2, <4>1, <4>4 DEF PassedRead, Batteries, FailedCalls, Test
          <5>2. QED
            BY <3>1, <3>2, <4>4, <5>1
        <4>5. QED
          BY <4>3, <4>4
      <3>6. QED
        BY <3>3, <3>4, <3>5
    <2>3. QED
      BY <2>1, <2>2
  <1>6. QED
    BY <1>5 DEF SummaryInv

LEMMA SummaryStep ==
    ASSUME TypeInv, RoundsInv, \A p \in Processes : CallsInv(p), LogInv, SummaryInv,
           [Next]_vars
    PROVE  SummaryInv'
  <1> USE DEF scriptVars, history
  <1>0. TypeInv'
    BY TypeStep
  <1>1. CASE Listen \/ Terminated \/ UNCHANGED vars
    <2>1. UNCHANGED <<pc, log, summary, made, failed>>
      BY <1>1 DEF Listen, Terminated, vars
    <2>2. QED
      BY <1>0, <2>1, SummaryKept DEF Read
  <1>2. CASE Launch
    <2>1. UNCHANGED <<log, summary, made, failed>>
      BY <1>2 DEF Launch
    <2>2. \A p \in Processes : pc'[p] = "exited" <=> pc[p] = "exited"
      BY <1>2, TestOfProcess DEF Launch, TypeInv, RoundsInv
    <2>3. QED
      BY <1>0, <2>1, <2>2, SummaryKept DEF Read
  <1>3. ASSUME NEW p \in Processes,
               \/ os_connect(p) \/ test1(p) \/ test2(p) \/ test3(p) \/ os_disconnect(p)
               \/ Die(p)
        PROVE  SummaryInv'
    <2>1. /\ pc[p] # "exited" /\ pc'[p] # "exited"
          /\ \A q \in Processes \ {p} : pc'[q] = pc[q]
          /\ UNCHANGED <<log, summary>>
      BY <1>3, OperationStep DEF os_connect, os_disconnect, Operation, Die, Goto, TypeInv
    <2>2. \A q, n : q # p => /\ <<q, n>> \in made' <=> <<q, n>> \in made
                             /\ <<q, n>> \in failed' <=> <<q, n>> \in failed
      BY <1>3, OperationStep DEF os_connect, os_disconnect, Operation, Die, Called
    <2>3. Read' = Read /\ p \notin Read
      BY <2>1 DEF Read
    <2>4. QED
      BY <1>0, <2>1, <2>2, <2>3, SummaryKept
  <1>4. ASSUME NEW p \in Processes, LOG(p)
        PROVE  SummaryInv'
    <2>1. /\ pc[p] = "log" /\ log' = log \cup {Line(p)}
          /\ \A q \in Processes \ {p} : pc'[q] = pc[q]
          /\ UNCHANGED <<summary, made, failed>>
      BY <1>4 DEF LOG, Goto, TypeInv
    <2>2. Line(p).process = p
      BY DEF Line
    <2>3. Read' = Read
      BY <2>1, <2>2 DEF Read
    <2>4. QED
      BY <1>0, <2>1, <2>3, SummaryKept
  <1>5. ASSUME NEW line \in log, extract_info(line)
        PROVE  SummaryInv'
    BY <1>5, SummaryRead
  <1>6. QED
    BY <1>1, <1>2, <1>3, <1>4, <1>5 DEF Next

-----------------------------------------------------------------------------
(* The inductive invariant and what it implies.                            *)

LEMMA BatteriesInit ==
    ASSUME Init
    PROVE  BatteriesInv
  <1>1. TypeInv
    BY ObjectsAssumption DEF Init, TypeInv, Counters, Sums
  <1>2. RoundsInv /\ StoresInv /\ FailuresExplained /\ LogInv
    <2>1. StoresInv
      <3>1. ASSUME NEW c \in Clients, NEW o \in Objects
            PROVE  ~(o < i[<<c, 1>>])
        BY ObjectsAssumption DEF Init, Processes, Objects
      <3>2. QED
        BY <3>1 DEF StoresInv
    <2>2. QED
      BY <2>1, TestOfProcess DEF Init, RoundsInv, FailuresExplained, LogInv
  <1>3. Cardinality({}) = 0
    BY FS_EmptySet
  <1>4. ASSUME NEW p \in Processes
        PROVE  CallsInv(p)
    <2>1. Made(p) = {} /\ MadeFailed(p) = {}
      BY DEF Init, Made, MadeFailed
    <2>2. QED
      BY <1>3, <2>1 DEF Init, CallsInv
  <1>5. SummaryInv
    <2>1. Read = {} /\ made = {}
      BY DEF Init, Read
    <2>2. \A t \in 1 .. 3 : MadeRead(t) = {} /\ FailedRead(t) = {} /\ PassedRead(t) = {}
      BY <2>1 DEF MadeRead, FailedRead, PassedRead
    <2>3. QED
      BY <1>3, <2>2 DEF Init, SummaryInv
  <1>6. QED
    BY <1>1, <1>2, <1>4, <1>5 DEF BatteriesInv

LEMMA BatteriesStep ==
    ASSUME BatteriesInv, [Next]_vars
    PROVE  BatteriesInv'
  <1> USE DEF BatteriesInv
  <1>1. TypeInv' /\ RoundsInv' /\ LogInv' /\ SummaryInv'
    BY TypeStep, RoundsStep, LogStep, SummaryStep
  <1>2. ASSUME NEW p \in Processes
        PROVE  CallsInv(p)'
    BY CallsStep
  <1>3. StoresInv' /\ FailuresExplained'
    BY StoresStep, FailuresStep
  <1>4. QED
    BY <1>1, <1>2, <1>3

LEMMA BatteriesInvariant == Spec => []BatteriesInv
  <1>1. Init => BatteriesInv
    BY BatteriesInit
  <1>2. BatteriesInv /\ [Next]_vars => BatteriesInv'
    BY BatteriesStep
  <1>3. QED
    BY <1>1, <1>2, PTL DEF Spec

\* When everything has been summed, every line that was logged has been read.
LEMMA AllRead ==
    ASSUME BatteriesInv, Summed
    PROVE  Read = {p \in Processes : Logged(p)}
  BY DEF Summed, Read, Logged

\* However many clients and objects, the operations and the failures that testsum.sh
\* reports for each test are those of the clients that lived to log them.
THEOREM SumsAreTrue == Spec => []OperationsCounted
  <1>1. BatteriesInv => OperationsCounted
    <2> SUFFICES ASSUME BatteriesInv, Summed, NEW t \in 1 .. 3
                 PROVE  /\ summary[t].testb =
                              Cardinality({m \in made : Test(m[1]) = t /\ Logged(m[1])})
                        /\ summary[t].testf =
                              Cardinality({m \in made \cap failed :
                                              Test(m[1]) = t /\ Logged(m[1])})
      BY DEF OperationsCounted
    <2>1. \A m \in made : m[1] \in Read <=> Logged(m[1])
      BY AllRead DEF BatteriesInv, TypeInv
    <2>2. MadeRead(t) = {m \in made : Test(m[1]) = t /\ Logged(m[1])}
      BY <2>1 DEF MadeRead
    <2>3. FailedRead(t) = {m \in made \cap failed : Test(m[1]) = t /\ Logged(m[1])}
      BY <2>1 DEF FailedRead
    <2>4. QED
      BY <2>2, <2>3 DEF BatteriesInv, SummaryInv
  <1>2. QED
    BY <1>1, BatteriesInvariant, PTL

\* A battery is reported as passed exactly when its process lived to log its line and
\* none of its calls has failed, but for the disconnection.
THEOREM PassedMeansPassed == Spec => []PassedHaveNoFailure
  <1>1. BatteriesInv => PassedHaveNoFailure
    <2> SUFFICES ASSUME BatteriesInv, Summed, NEW t \in 1 .. 3
                 PROVE  summary[t].testg =
                            Cardinality({p \in Batteries(t) :
                                Logged(p) /\ FailedCalls(p) \subseteq {DISCONNECT}})
      BY DEF PassedHaveNoFailure
    <2>1. PassedRead(t) = {p \in Batteries(t) :
                              Logged(p) /\ FailedCalls(p) \subseteq {DISCONNECT}}
      BY AllRead DEF PassedRead, Batteries
    <2>2. QED
      BY <2>1 DEF BatteriesInv, SummaryInv
  <1>2. QED
    BY <1>1, BatteriesInvariant, PTL

\* The second round fails only for what has been refused, or has failed in the first:
\* never because it came too early.
THEOREM FailuresHaveReasons == Spec => []FailuresExplained
  BY BatteriesInvariant, PTL DEF BatteriesInv

=============================================================================
