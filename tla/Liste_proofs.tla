---------------------------- MODULE Liste_proofs ----------------------------
(***************************************************************************)
(* The linked list of liste.c is the bag of names its users take it for,   *)
(* for any names and any number of cells: at every moment the cells in use *)
(* can be numbered from the head to the one without a key.                 *)
(***************************************************************************)
EXTENDS Liste, FiniteSetTheorems, WellFoundedInduction, TLAPS

\* s numbers the n cells of a list in the order of next, which is that of the keys.
Numbers(s, n) ==
    /\ s \in [1 .. n -> Cells]
    /\ \A i, j \in 1 .. n : s[i] = s[j] => i = j
    /\ head = s[1]
    /\ \A i \in 1 .. n - 1 : key[s[i]] \in Keys /\ next[s[i]] = s[i + 1]
    /\ \A i, j \in 1 .. n - 1 : i <= j => key[s[i]] <= key[s[j]]
    /\ key[s[n]] = NULL /\ next[s[n]] = NULL
    /\ allocated = {s[i] : i \in 1 .. n}

TypesInv ==
    /\ key \in [Cells -> Keys \cup {NULL}]
    /\ next \in [Cells -> Cells \cup {NULL}]
    /\ allocated \subseteq Cells /\ IsFiniteSet(allocated)

\* There is no list, and no cell in use, or the cells in use are the list.
ListInv ==
    /\ TypesInv
    /\ head = NULL => allocated = {}
    /\ head # NULL => \E n \in Nat \ {0} : \E s : Numbers(s, n)

-----------------------------------------------------------------------------
(* Loops.                                                                  *)

\* Of the numbers up to n that are in a set, one is the least.
LEMMA LeastIndex ==
  ASSUME NEW n \in Nat, NEW I \in SUBSET (1 .. n), I # {}
  PROVE  \E m \in I : \A k \in I : m <= k
  <1> DEFINE R == StrictSubsetOrdering(1 .. n)
             T == {1 .. k : k \in I}
  <1>1. IsWellFoundedOn(R, SUBSET (1 .. n))
    <2>1. IsFiniteSet(1 .. n)
      BY FS_Interval
    <2>2. QED
      BY <2>1, FS_FiniteSubsetsOfFinite, FS_StrictSubsetOrderingWellFounded
  <1>2. T \subseteq SUBSET (1 .. n) /\ T # {}
    <2>1. \A k \in I : 1 .. k \subseteq 1 .. n
      OBVIOUS
    <2>2. QED
      BY <2>1
  <1>3. PICK x \in T : \A y \in T : ~(<<y, x>> \in R)
    BY <1>1, <1>2, WFMin
  <1>4. PICK m \in I : x = 1 .. m
    BY <1>3
  <1>5. ASSUME NEW k \in I, k < m PROVE FALSE
    <2>1. 1 .. k \in T /\ 1 .. k \in SUBSET (1 .. n) /\ 1 .. m \in SUBSET (1 .. n)
      BY <1>2, <1>4
    <2>2. 1 .. k \subseteq 1 .. m /\ 1 .. k # 1 .. m
      <3>1. k \in Nat /\ m \in Nat /\ m \in 1 .. m /\ m \notin 1 .. k
        BY <1>5
      <3>2. QED
        BY <1>5, <3>1
    <2>3. <<1 .. k, 1 .. m>> \in R
      BY <2>1, <2>2 DEF StrictSubsetOrdering
    <2>4. QED
      BY <1>3, <1>4, <2>1, <2>3
  <1>6. QED
    BY <1>5

\* A loop that goes on from the first cells of the list and not from the k-th visits
\* the first k.
LEMMA LoopVisits ==
  ASSUME TypesInv, NEW n \in Nat \ {0}, NEW s, Numbers(s, n), NEW P,
         NEW k \in 1 .. n, \A i \in 1 .. k - 1 : s[i] \in P, s[k] \notin P
  PROVE  Visited(P) = {s[i] : i \in 1 .. k}
  <1> DEFINE V == {s[i] : i \in 1 .. k}
             Closed(S) == head \in S /\ \A p \in S \cap P : next[p] \in S
  <1>1. \A i \in 1 .. n : s[i] \in Cells
    BY DEF Numbers
  <1>2. Visited(P) = {c \in Cells : \A S \in SUBSET Cells : Closed(S) => c \in S}
    BY DEF Visited
  <1>3. Visited(P) \subseteq V
    <2>1. V \in SUBSET Cells
      BY <1>1
    <2>2. head \in V
      BY DEF Numbers
    <2>3. ASSUME NEW p \in V \cap P PROVE next[p] \in V
      <3>1. PICK i \in 1 .. k : p = s[i]
        BY <2>3
      <3>2. i # k
        BY <2>3, <3>1
      <3>3. i \in 1 .. n - 1 /\ i + 1 \in 1 .. k
        BY <3>2
      <3>4. next[s[i]] = s[i + 1]
        BY <3>3 DEF Numbers
      <3>5. QED
        BY <3>1, <3>3, <3>4
    <2>4. Closed(V)
      BY <2>2, <2>3
    <2> HIDE DEF V, Closed
    <2>5. QED
      BY <1>2, <2>1, <2>4
  <1>4. ASSUME NEW S \in SUBSET Cells, Closed(S) PROVE V \subseteq S
    <2> DEFINE I == {i \in 1 .. k : s[i] \notin S}
    <2>1. SUFFICES ASSUME I # {} PROVE FALSE
      OBVIOUS
    <2>2. PICK m \in I : \A i \in I : m <= i
      <3>1. I \in SUBSET (1 .. k) /\ k \in Nat
        OBVIOUS
      <3> HIDE DEF I
      <3>2. QED
        BY <2>1, <3>1, LeastIndex
    <2>3. m \in 1 .. k /\ s[m] \notin S
      BY <2>2
    <2>4. m # 1
      BY <1>4, <2>3 DEF Numbers
    <2>5. m - 1 \in 1 .. k - 1 /\ m - 1 \in 1 .. n - 1 /\ (m - 1) + 1 = m
      BY <2>3, <2>4
    <2>6. s[m - 1] \in S
      <3>1. m - 1 \notin I
        BY <2>2, <2>5
      <3>2. QED
        BY <2>5, <3>1
    <2>7. s[m - 1] \in P
      BY <2>5
    <2>8. next[s[m - 1]] = s[m]
      BY <2>5 DEF Numbers
    <2>9. QED
      BY <1>4, <2>3, <2>6, <2>7, <2>8
  <1>5. V \subseteq Visited(P)
    <2>1. V \subseteq Cells
      BY <1>1
    <2> HIDE DEF V, Closed
    <2>2. QED
      BY <1>2, <1>4, <2>1
  <1>6. QED
    BY <1>3, <1>5

\* The cells of the list are the cells in use.
LEMMA ReachableCells ==
  ASSUME ListInv
  PROVE  Reachable = allocated
  <1>1. CASE head = NULL
    BY <1>1 DEF ListInv, Reachable
  <1>2. CASE head # NULL
    <2>0. PICK n \in Nat \ {0} : \E s : Numbers(s, n)
      BY <1>2 DEF ListInv
    <2>1. PICK s : Numbers(s, n)
      BY <2>0
    <2>2. n \in 1 .. n /\ s[n] \notin Keyed
      BY <2>1 DEF Numbers, Keyed
    <2>3. ASSUME NEW i \in 1 .. n - 1 PROVE s[i] \in Keyed
      <3>1. s[i] \in Cells /\ key[s[i]] \in Keys
        BY <2>1 DEF Numbers
      <3>2. QED
        BY <3>1, KeysAssumption DEF Keyed
    <2>4. TypesInv
      BY DEF ListInv
    <2>5. Visited(Keyed) = {s[i] : i \in 1 .. n}
      BY <2>1, <2>2, <2>3, <2>4, LoopVisits
    <2>6. QED
      BY <1>2, <2>1, <2>5 DEF Reachable, Numbers
  <1>3. QED
    BY <1>1, <1>2

\* Where the loop of an operation stops: the keys before are below the bound, the keys
\* from there on are not.
Stops(s, n, str, bound, k) ==
    /\ k \in 1 .. n
    /\ \A i \in 1 .. k - 1 : key[s[i]] - str < bound
    /\ \A i \in k .. n - 1 : ~(key[s[i]] - str < bound)
    /\ Walk(str, bound) = <<IF k = 1 THEN NULL ELSE s[k - 1], s[k]>>

\* The keys of the cells of the list.
LEMMA KeysOfList ==
  ASSUME NEW n \in Nat \ {0}, NEW s, Numbers(s, n)
  PROVE  /\ n \in 1 .. n /\ 1 \in 1 .. n
         /\ \A i \in 1 .. n : s[i] \in Cells
         /\ \A i \in 1 .. n - 1 : i \in 1 .. n /\ key[s[i]] \in Nat /\ key[s[i]] # NULL
         /\ \A i \in 1 .. n : key[s[i]] # NULL => i \in 1 .. n - 1
  <1>1. n \in 1 .. n /\ 1 \in 1 .. n
    OBVIOUS
  <1>2. \A i \in 1 .. n : s[i] \in Cells
    BY DEF Numbers
  <1>3. \A i \in 1 .. n - 1 : i \in 1 .. n /\ key[s[i]] \in Keys
    BY DEF Numbers
  <1>4. \A i \in 1 .. n : i \in 1 .. n - 1 \/ i = n
    OBVIOUS
  <1>5. key[s[n]] = NULL
    BY DEF Numbers
  <1>6. QED
    BY <1>1, <1>2, <1>3, <1>4, <1>5, KeysAssumption

\* Every loop stops at a cell of the list, and has then passed all the keys below its
\* bound and no others: the keys are in order.
LEMMA WalkStops ==
  ASSUME TypesInv, NEW n \in Nat \ {0}, NEW s, Numbers(s, n),
         NEW str \in Keys, NEW bound \in {0, 1}
  PROVE  \E k \in 1 .. n : Stops(s, n, str, bound, k)
  <1> DEFINE P == {p \in Keyed : key[p] - str < bound}
             I == {i \in 1 .. n : s[i] \notin P}
             Before(i) == key[s[i]] - str < bound
  <1>1. /\ n \in 1 .. n /\ 1 \in 1 .. n
        /\ \A i \in 1 .. n : s[i] \in Cells
        /\ \A i \in 1 .. n - 1 : i \in 1 .. n /\ key[s[i]] \in Nat /\ key[s[i]] # NULL
    BY KeysOfList
  <1>2. str \in Nat
    BY KeysAssumption
  <1>3. \A i \in 1 .. n - 1 : s[i] \in P <=> Before(i)
    BY <1>1 DEF Keyed
  <1>4. n \in I
    <2>1. key[s[n]] = NULL
      BY DEF Numbers
    <2>2. QED
      BY <1>1, <2>1 DEF Keyed
  <1>5. PICK k \in I : \A i \in I : k <= i
    <2>1. I \in SUBSET (1 .. n) /\ I # {}
      BY <1>4
    <2> HIDE DEF I
    <2>2. QED
      BY <2>1, LeastIndex
  <1>6. k \in 1 .. n /\ s[k] \notin P
    BY <1>5
  <1>7. \A i \in 1 .. k - 1 : s[i] \in P /\ i \in 1 .. n - 1
    <2> TAKE i \in 1 .. k - 1
    <2>1. i \in 1 .. n - 1 /\ i \in 1 .. n /\ i < k
      BY <1>6
    <2>2. i \notin I
      BY <1>5, <2>1
    <2>3. QED
      BY <2>1, <2>2
  <1>8. \A i \in 1 .. k - 1 : key[s[i]] - str < bound
    BY <1>3, <1>7
  <1>9. \A i \in k .. n - 1 : ~(key[s[i]] - str < bound)
    <2> SUFFICES ASSUME NEW i \in k .. n - 1 PROVE ~Before(i)
      OBVIOUS
    <2>1. i \in 1 .. n - 1 /\ k \in 1 .. n - 1 /\ k <= i
      BY <1>6
    <2>2. key[s[k]] <= key[s[i]]
      BY <2>1 DEF Numbers
    <2>3. ~Before(k)
      BY <1>3, <1>6, <2>1
    <2>4. PICK a \in Nat, b \in Nat : a = key[s[k]] /\ b = key[s[i]]
      BY <1>1, <2>1
    <2>5. QED
      BY <1>2, <2>2, <2>3, <2>4
  <1>10. Visited(P) = {s[i] : i \in 1 .. k}
    <2> HIDE DEF P
    <2>1. QED
      BY <1>6, <1>7, LoopVisits
  <1>11. (CHOOSE c \in Visited(P) : c \notin P) = s[k]
    <2>1. s[k] \in Visited(P)
      BY <1>6, <1>10
    <2>2. \A c \in Visited(P) : c \notin P => c = s[k]
      <3> TAKE c \in Visited(P)
      <3>1. PICK i \in 1 .. k : c = s[i]
        BY <1>10
      <3>2. i \in 1 .. k - 1 \/ i = k
        BY <1>6
      <3>3. QED
        BY <1>7, <3>1, <3>2
    <2> HIDE DEF P
    <2>3. QED
      BY <1>6, <2>1, <2>2
  <1>12. s[k] = head <=> k = 1
    BY <1>1, <1>6 DEF Numbers
  <1>13. ASSUME k # 1
         PROVE  (CHOOSE q \in Visited(P) : next[q] = s[k]) = s[k - 1]
    <2>1. k - 1 \in 1 .. k /\ k - 1 \in 1 .. n - 1 /\ (k - 1) + 1 = k
      BY <1>6, <1>13
    <2>2. s[k - 1] \in Visited(P) /\ next[s[k - 1]] = s[k]
      BY <1>10, <2>1 DEF Numbers
    <2>3. \A q \in Visited(P) : next[q] = s[k] => q = s[k - 1]
      <3> SUFFICES ASSUME NEW q \in Visited(P), next[q] = s[k] PROVE q = s[k - 1]
        OBVIOUS
      <3>1. PICK i \in 1 .. k : q = s[i]
        BY <1>10
      <3>2. i # n
        <4>1. s[k] \in Cells /\ next[s[n]] = NULL
          BY <1>1, <1>6 DEF Numbers
        <4>2. QED
          BY <3>1, <4>1, KeysAssumption
      <3>3. i \in 1 .. n - 1 /\ i + 1 \in 1 .. n
        BY <1>6, <3>2
      <3>4. s[i + 1] = s[k]
        BY <3>1, <3>3 DEF Numbers
      <3>5. i + 1 = k
        BY <1>6, <3>3, <3>4 DEF Numbers
      <3>6. i = k - 1
        BY <1>6, <3>5
      <3>7. QED
        BY <3>1, <3>6
    <2> HIDE DEF P
    <2>4. QED
      BY <2>2, <2>3
  <1>14. Walk(str, bound) = <<IF k = 1 THEN NULL ELSE s[k - 1], s[k]>>
    <2> DEFINE stop == CHOOSE c \in Visited(P) : c \notin P
               prev(p) == CHOOSE q \in Visited(P) : next[q] = p
    <2>1. Walk(str, bound) = <<IF stop = head THEN NULL ELSE prev(stop), stop>>
      BY DEF Walk
    <2>2. stop = s[k] /\ (k # 1 => prev(s[k]) = s[k - 1])
      BY <1>11, <1>13
    <2> HIDE DEF stop, prev
    <2>3. QED
      BY <1>12, <2>1, <2>2
  <1>15. QED
    BY <1>6, <1>8, <1>9, <1>14 DEF Stops

-----------------------------------------------------------------------------
(* The operations.                                                         *)

\* The cell that insertList links in takes the number of the one where the loop stopped.
LEMMA InsertKeepsList ==
  ASSUME ListInv, NEW str \in Keys, NEW c \in Free, head # NULL,
         insertCell(str, c), allocated' = allocated \cup {c}
  PROVE  ListInv'
  <1>1. TypesInv /\ c \in Cells /\ c \notin allocated /\ str \in Nat /\ str # NULL
    BY KeysAssumption DEF ListInv, Free
  <1>0. PICK n \in Nat \ {0} : \E s : Numbers(s, n)
    BY DEF ListInv
  <1>2. PICK s : Numbers(s, n)
    BY <1>0
  <1>3. PICK k \in 1 .. n : Stops(s, n, str, 1, k)
    BY <1>1, <1>2, WalkStops
  <1>4. /\ n \in 1 .. n /\ 1 \in 1 .. n
        /\ \A i \in 1 .. n : s[i] \in Cells
        /\ \A i \in 1 .. n - 1 : i \in 1 .. n /\ key[s[i]] \in Nat /\ key[s[i]] # NULL
    BY <1>2, KeysOfList
  <1>5. \A i \in 1 .. n : s[i] # c
    BY <1>1, <1>2 DEF Numbers
  <1>6. \A i, j \in 1 .. n : s[i] = s[j] => i = j
    BY <1>2 DEF Numbers
  <1> DEFINE prev == IF k = 1 THEN NULL ELSE s[k - 1]
             r == [i \in 1 .. n + 1 |-> IF i < k THEN s[i] ELSE IF i = k THEN c ELSE s[i - 1]]
  <1>7. /\ key' = [key EXCEPT ![c] = str]
        /\ next' = IF prev = NULL THEN [next EXCEPT ![c] = s[k]]
                   ELSE [next EXCEPT ![c] = s[k], ![prev] = c]
        /\ head' = IF head = s[k] THEN c ELSE head
    <2>1. Walk(str, 1) = <<prev, s[k]>>
      BY <1>3 DEF Stops
    <2> HIDE DEF prev
    <2>2. Walk(str, 1)[1] = prev /\ Walk(str, 1)[2] = s[k]
      BY <2>1
    <2>3. QED
      BY <2>2 DEF insertCell
  <1>8. prev = NULL <=> k = 1
    <2>1. k # 1 => k - 1 \in 1 .. n
      OBVIOUS
    <2>2. QED
      BY <1>4, <2>1, KeysAssumption
  <1>9. /\ key' \in [Cells -> Keys \cup {NULL}] /\ next' \in [Cells -> Cells \cup {NULL}]
        /\ allocated' \subseteq Cells /\ IsFiniteSet(allocated')
    <2>1. key' \in [Cells -> Keys \cup {NULL}]
      BY <1>1, <1>7 DEF TypesInv
    <2>2. next' \in [Cells -> Cells \cup {NULL}]
      BY <1>1, <1>4, <1>7 DEF TypesInv
    <2>3. IsFiniteSet(allocated')
      BY <1>1, FS_AddElement DEF TypesInv
    <2>4. QED
      BY <1>1, <2>1, <2>2, <2>3 DEF TypesInv
  <1>10. /\ key'[c] = str /\ next'[c] = s[k]
         /\ \A i \in 1 .. n : key'[s[i]] = key[s[i]]
         /\ \A i \in 1 .. n : i # k - 1 => next'[s[i]] = next[s[i]]
         /\ k # 1 => next'[s[k - 1]] = c
    <2>1. key'[c] = str /\ \A i \in 1 .. n : key'[s[i]] = key[s[i]]
      BY <1>1, <1>4, <1>5, <1>7 DEF TypesInv
    <2>2. CASE k = 1
      <3>1. next' = [next EXCEPT ![c] = s[k]]
        BY <1>7, <1>8, <2>2
      <3>2. QED
        BY <1>1, <1>4, <1>5, <2>1, <2>2, <3>1 DEF TypesInv
    <2>3. CASE k # 1
      <3>1. prev = s[k - 1] /\ k - 1 \in 1 .. n
        BY <2>3
      <3>2. next' = [next EXCEPT ![c] = s[k], ![s[k - 1]] = c]
        BY <1>7, <1>8, <2>3, <3>1
      <3>3. s[k - 1] \in Cells /\ s[k - 1] # c
        BY <1>4, <1>5, <3>1
      <3>4. next'[c] = s[k] /\ next'[s[k - 1]] = c
        BY <1>1, <3>2, <3>3 DEF TypesInv
      <3>5. ASSUME NEW i \in 1 .. n, i # k - 1 PROVE next'[s[i]] = next[s[i]]
        <4>1. s[i] # c /\ s[i] # s[k - 1] /\ s[i] \in Cells
          BY <1>4, <1>5, <1>6, <3>1, <3>5
        <4>2. QED
          BY <1>1, <3>2, <4>1 DEF TypesInv
      <3>6. QED
        BY <2>1, <3>4, <3>5
    <2>4. QED
      BY <2>2, <2>3
  <1>11. /\ \A i \in 1 .. k - 1 : r[i] = s[i] /\ i \in 1 .. n /\ i \in 1 .. n + 1
         /\ r[k] = c
         /\ \A i \in k + 1 .. n + 1 : r[i] = s[i - 1] /\ i - 1 \in 1 .. n
         /\ \A i \in 1 .. n + 1 : i \in 1 .. k - 1 \/ i = k \/ i \in k + 1 .. n + 1
         /\ n + 1 \in k + 1 .. n + 1
    OBVIOUS
  <1>12. r \in [1 .. n + 1 -> Cells]
    BY <1>1, <1>4
  <1> HIDE DEF r
  <1>13. \A i, j \in 1 .. n + 1 : r[i] = r[j] => i = j
    <2> SUFFICES ASSUME NEW i \in 1 .. n + 1, NEW j \in 1 .. n + 1, r[i] = r[j] PROVE i = j
      OBVIOUS
    <2>1. CASE i = k
      BY <1>5, <1>11, <2>1
    <2>2. CASE j = k
      BY <1>5, <1>11, <2>2
    <2>3. CASE i # k /\ j # k
      <3> DEFINE Old(x) == IF x < k THEN x ELSE x - 1
      <3>1. \A x \in 1 .. n + 1 : x # k => r[x] = s[Old(x)] /\ Old(x) \in 1 .. n
        BY <1>11
      <3>2. Old(i) = Old(j)
        <4> HIDE DEF Old
        <4>1. QED
          BY <1>6, <2>3, <3>1
      <3>3. QED
        BY <2>3, <3>2
    <2>4. QED
      BY <2>1, <2>2, <2>3
  <1>14. head' = r[1]
    <2>1. head = s[1]
      BY <1>2 DEF Numbers
    <2>2. CASE k = 1
      BY <1>7, <1>11, <2>1, <2>2
    <2>3. CASE k # 1
      <3>1. s[k] # s[1] /\ 1 \in 1 .. k - 1
        BY <1>4, <1>6, <2>3
      <3>2. QED
        BY <1>7, <1>11, <2>1, <3>1
    <2>4. QED
      BY <2>2, <2>3
  <1>15. \A i \in 1 .. n - 1 : key[s[i]] \in Keys /\ next[s[i]] = s[i + 1]
    BY <1>2 DEF Numbers
  <1>16. \A i \in 1 .. n : key'[r[i]] \in Keys /\ next'[r[i]] = r[i + 1]
    <2> SUFFICES ASSUME NEW i \in 1 .. n PROVE key'[r[i]] \in Keys /\ next'[r[i]] = r[i + 1]
      OBVIOUS
    <2>1. CASE i < k - 1
      <3>1. i \in 1 .. k - 1 /\ i + 1 \in 1 .. k - 1 /\ i \in 1 .. n - 1 /\ i # k - 1
        BY <2>1
      <3>2. QED
        BY <1>10, <1>11, <1>15, <3>1
    <2>2. CASE i = k - 1
      <3>1. i \in 1 .. k - 1 /\ i + 1 = k /\ i \in 1 .. n - 1 /\ k # 1
        BY <2>2
      <3>2. QED
        BY <1>10, <1>11, <1>15, <2>2, <3>1
    <2>3. CASE i = k
      <3>1. i + 1 \in k + 1 .. n + 1 /\ (i + 1) - 1 = k
        BY <2>3
      <3>2. QED
        BY <1>10, <1>11, <2>3, <3>1
    <2>4. CASE i > k
      <3>1. /\ i \in k + 1 .. n + 1 /\ i + 1 \in k + 1 .. n + 1 /\ (i + 1) - 1 = (i - 1) + 1
            /\ i - 1 \in 1 .. n - 1 /\ i - 1 # k - 1
        BY <2>4
      <3>2. r[i] = s[i - 1] /\ r[i + 1] = s[(i - 1) + 1]
        BY <1>11, <3>1
      <3>3. QED
        BY <1>10, <1>11, <1>15, <3>1, <3>2
    <2>5. QED
      BY <2>1, <2>2, <2>3, <2>4
  <1>17. \A i, j \in 1 .. n : i <= j => key'[r[i]] <= key'[r[j]]
    <2> SUFFICES ASSUME NEW i \in 1 .. n, NEW j \in 1 .. n, i <= j
                 PROVE  key'[r[i]] <= key'[r[j]]
      OBVIOUS
    <2>1. /\ \A x \in 1 .. k - 1 : key[s[x]] - str < 1
          /\ \A x \in k .. n - 1 : ~(key[s[x]] - str < 1)
      BY <1>3 DEF Stops
    <2>2. \A x, y \in 1 .. n - 1 : x <= y => key[s[x]] <= key[s[y]]
      BY <1>2 DEF Numbers
    <2>3. \A x \in 1 .. k - 1 : key'[r[x]] = key[s[x]] /\ x \in 1 .. n - 1
      <3> TAKE x \in 1 .. k - 1
      <3>1. x \in 1 .. n - 1
        OBVIOUS
      <3>2. QED
        BY <1>10, <1>11, <3>1
    <2>4. \A x \in k + 1 .. n : key'[r[x]] = key[s[x - 1]] /\ x - 1 \in k .. n - 1
                                /\ x - 1 \in 1 .. n - 1
      <3> TAKE x \in k + 1 .. n
      <3>1. x \in k + 1 .. n + 1 /\ x - 1 \in k .. n - 1 /\ x - 1 \in 1 .. n - 1
        OBVIOUS
      <3>2. QED
        BY <1>10, <1>11, <3>1
    <2>5. key'[r[k]] = str
      BY <1>10, <1>11
    <2>6. CASE i < k /\ j < k
      <3>1. i \in 1 .. k - 1 /\ j \in 1 .. k - 1
        BY <2>6
      <3>2. QED
        BY <2>2, <2>3, <3>1
    <2>7. CASE i < k /\ j = k
      <3>1. i \in 1 .. k - 1
        BY <2>7
      <3>2. PICK a \in Nat : a = key[s[i]]
        BY <1>4, <2>3, <3>1
      <3>3. a <= str
        BY <1>1, <2>1, <3>1, <3>2
      <3>4. QED
        BY <2>3, <2>5, <2>7, <3>1, <3>2, <3>3
    <2>8. CASE i < k /\ j > k
      <3>1. i \in 1 .. k - 1 /\ j \in k + 1 .. n /\ i <= j - 1
        BY <2>8
      <3>2. QED
        BY <2>2, <2>3, <2>4, <3>1
    <2>9. CASE i = k /\ j = k
      BY <1>1, <2>5, <2>9
    <2>10. CASE i = k /\ j > k
      <3>1. j \in k + 1 .. n
        BY <2>10
      <3>2. PICK a \in Nat : a = key[s[j - 1]]
        BY <1>4, <2>4, <3>1
      <3>3. str <= a
        BY <1>1, <2>1, <2>4, <3>1, <3>2
      <3>4. QED
        BY <2>4, <2>5, <2>10, <3>1, <3>2, <3>3
    <2>11. CASE i > k
      <3>1. i \in k + 1 .. n /\ j \in k + 1 .. n /\ i - 1 <= j - 1
        BY <2>11
      <3>2. QED
        BY <2>2, <2>4, <3>1
    <2>12. QED
      BY <2>6, <2>7, <2>8, <2>9, <2>10, <2>11
  <1>18. key'[r[n + 1]] = NULL /\ next'[r[n + 1]] = NULL
    <2>1. r[n + 1] = s[n] /\ n # k - 1
      BY <1>11
    <2>2. key[s[n]] = NULL /\ next[s[n]] = NULL
      BY <1>2 DEF Numbers
    <2>3. QED
      BY <1>4, <1>10, <2>1, <2>2
  <1>19. allocated' = {r[i] : i \in 1 .. n + 1}
    <2>1. allocated = {s[i] : i \in 1 .. n}
      BY <1>2 DEF Numbers
    <2>2. \A i \in 1 .. n + 1 : r[i] = c \/ r[i] \in allocated
      BY <1>11, <2>1
    <2>3. ASSUME NEW x \in allocated PROVE \E i \in 1 .. n + 1 : r[i] = x
      <3>1. PICK i \in 1 .. n : x = s[i]
        BY <2>1
      <3>2. CASE i < k
        <4>1. i \in 1 .. k - 1
          BY <3>2
        <4>2. QED
          BY <1>11, <3>1, <4>1
      <3>3. CASE i >= k
        <4>1. i + 1 \in k + 1 .. n + 1 /\ (i + 1) - 1 = i /\ i + 1 \in 1 .. n + 1
          BY <3>3
        <4>2. QED
          BY <1>11, <3>1, <4>1
      <3>4. QED
        BY <3>2, <3>3
    <2>4. r[k] = c /\ k \in 1 .. n + 1
      BY <1>11
    <2>5. QED
      BY <2>2, <2>3, <2>4
  <1>20. Numbers(r, n + 1)'
    <2>1. (n + 1) - 1 = n
      OBVIOUS
    <2>2. QED
      BY <1>12, <1>13, <1>14, <1>16, <1>17, <1>18, <1>19, <2>1 DEF Numbers
  <1>21. head' # NULL
    BY <1>1, <1>7, KeysAssumption
  <1>22. n + 1 \in Nat \ {0}
    OBVIOUS
  <1>23. QED
    BY <1>9, <1>20, <1>21, <1>22 DEF ListInv, TypesInv

\* The loop of deleteList and isInList stops at a cell in use, and misses no name.
LEMMA WalkFinds ==
  ASSUME ListInv, head # NULL, NEW str \in Keys
  PROVE  /\ Walk(str, 0)[2] \in allocated
         /\ key[Walk(str, 0)[2]] # str => \A c \in allocated : key[c] # str
  <1>0. PICK n \in Nat \ {0} : \E s : Numbers(s, n)
    BY DEF ListInv
  <1>1. PICK s : Numbers(s, n)
    BY <1>0
  <1>2. PICK k \in 1 .. n : Stops(s, n, str, 0, k)
    BY <1>1, WalkStops DEF ListInv
  <1>3. Walk(str, 0)[2] = s[k]
    <2> DEFINE prev == IF k = 1 THEN NULL ELSE s[k - 1]
    <2>1. Walk(str, 0) = <<prev, s[k]>>
      BY <1>2 DEF Stops
    <2> HIDE DEF prev
    <2>2. QED
      BY <2>1
  <1>4. allocated = {s[i] : i \in 1 .. n}
    BY <1>1 DEF Numbers
  <1>5. ASSUME key[s[k]] # str, NEW i \in 1 .. n PROVE key[s[i]] # str
    <2>1. str \in Nat /\ str # NULL
      BY KeysAssumption
    <2>2. SUFFICES ASSUME key[s[i]] = str PROVE FALSE
      OBVIOUS
    <2>3. i \in 1 .. n - 1
      BY <1>1, <2>1, <2>2, KeysOfList
    <2>4. ~(i \in 1 .. k - 1)
      BY <1>2, <2>1, <2>2 DEF Stops
    <2>5. k \in 1 .. n - 1 /\ k <= i
      BY <2>3, <2>4
    <2>6. PICK a \in Nat : a = key[s[k]]
      BY <1>1, <2>5, KeysOfList
    <2>7. a <= str
      BY <1>1, <2>2, <2>3, <2>5, <2>6 DEF Numbers
    <2>8. ~(a - str < 0)
      <3>1. k \in k .. n - 1
        BY <2>5
      <3>2. QED
        BY <1>2, <2>6, <3>1 DEF Stops
    <2>9. QED
      BY <1>5, <2>1, <2>6, <2>7, <2>8
  <1>6. QED
    BY <1>3, <1>4, <1>5

\* Without the cell that deleteList unlinks, the cells after it have one number less.
LEMMA DeleteKeepsList ==
  ASSUME ListInv, NEW str \in Keys, head # NULL,
         key[Walk(str, 0)[2]] = str, deleteCell(Walk(str, 0))
  PROVE  ListInv' /\ head' # NULL
  <1>1. TypesInv /\ str \in Nat /\ str # NULL
    BY KeysAssumption DEF ListInv
  <1>0. PICK n \in Nat \ {0} : \E s : Numbers(s, n)
    BY DEF ListInv
  <1>2. PICK s : Numbers(s, n)
    BY <1>0
  <1>3. PICK k \in 1 .. n : Stops(s, n, str, 0, k)
    BY <1>1, <1>2, WalkStops
  <1>4. /\ n \in 1 .. n /\ 1 \in 1 .. n
        /\ \A i \in 1 .. n : s[i] \in Cells
        /\ \A i \in 1 .. n - 1 : i \in 1 .. n /\ key[s[i]] \in Nat /\ key[s[i]] # NULL
        /\ \A i \in 1 .. n : key[s[i]] # NULL => i \in 1 .. n - 1
    BY <1>2, KeysOfList
  <1>5. \A i, j \in 1 .. n : s[i] = s[j] => i = j
    BY <1>2 DEF Numbers
  <1> DEFINE prev == IF k = 1 THEN NULL ELSE s[k - 1]
             r == [i \in 1 .. n - 1 |-> IF i < k THEN s[i] ELSE s[i + 1]]
  <1>6. /\ key[s[k]] = str
        /\ head' = IF s[k] = head THEN next[s[k]] ELSE head
        /\ next' = IF prev = NULL THEN next ELSE [next EXCEPT ![prev] = next[s[k]]]
        /\ allocated' = allocated \ {s[k]} /\ key' = key
    <2>1. Walk(str, 0) = <<prev, s[k]>>
      BY <1>3 DEF Stops
    <2> HIDE DEF prev
    <2>2. Walk(str, 0)[1] = prev /\ Walk(str, 0)[2] = s[k]
      BY <2>1
    <2>3. QED
      BY <2>2 DEF deleteCell
  <1>7. k \in 1 .. n - 1 /\ n - 1 \in Nat \ {0} /\ k + 1 \in 1 .. n
    BY <1>1, <1>4, <1>6
  <1>8. \A i \in 1 .. n - 1 : key[s[i]] \in Keys /\ next[s[i]] = s[i + 1]
    BY <1>2 DEF Numbers
  <1>9. prev = NULL <=> k = 1
    <2>1. k # 1 => k - 1 \in 1 .. n
      OBVIOUS
    <2>2. QED
      BY <1>4, <2>1, KeysAssumption
  <1>10. /\ next' \in [Cells -> Cells \cup {NULL}]
         /\ \A i \in 1 .. n : i # k - 1 => next'[s[i]] = next[s[i]]
         /\ k # 1 => next'[s[k - 1]] = s[k + 1]
    <2>1. CASE k = 1
      <3>1. next' = next
        BY <1>6, <1>9, <2>1
      <3>2. QED
        BY <1>1, <2>1, <3>1 DEF TypesInv
    <2>2. CASE k # 1
      <3>1. prev = s[k - 1] /\ k - 1 \in 1 .. n
        BY <2>2
      <3>2. next' = [next EXCEPT ![s[k - 1]] = s[k + 1]]
        BY <1>6, <1>7, <1>8, <1>9, <2>2, <3>1
      <3>3. s[k - 1] \in Cells /\ s[k + 1] \in Cells
        BY <1>4, <1>7, <3>1
      <3>4. \A i \in 1 .. n : i # k - 1 => s[i] \in Cells /\ s[i] # s[k - 1]
        BY <1>4, <1>5, <3>1
      <3>5. QED
        BY <1>1, <3>2, <3>3, <3>4 DEF TypesInv
    <2>3. QED
      BY <2>1, <2>2
  <1>11. TypesInv'
    <2>1. allocated' \subseteq Cells /\ IsFiniteSet(allocated')
      BY <1>1, <1>6, FS_RemoveElement DEF TypesInv
    <2>2. QED
      BY <1>1, <1>6, <1>10, <2>1 DEF TypesInv
  <1>12. /\ \A i \in 1 .. k - 1 : r[i] = s[i] /\ i \in 1 .. n - 1 /\ i \in 1 .. n
         /\ \A i \in k .. n - 1 : r[i] = s[i + 1] /\ i + 1 \in 1 .. n
         /\ \A i \in 1 .. n - 1 : i \in 1 .. k - 1 \/ i \in k .. n - 1
    BY <1>7
  <1>13. r \in [1 .. n - 1 -> Cells]
    BY <1>4, <1>7
  <1> HIDE DEF r
  <1>14. \A i, j \in 1 .. n - 1 : r[i] = r[j] => i = j
    <2> SUFFICES ASSUME NEW i \in 1 .. n - 1, NEW j \in 1 .. n - 1, r[i] = r[j] PROVE i = j
      OBVIOUS
    <2> DEFINE Old(x) == IF x < k THEN x ELSE x + 1
    <2>1. \A x \in 1 .. n - 1 : r[x] = s[Old(x)] /\ Old(x) \in 1 .. n
      BY <1>12
    <2>2. Old(i) = Old(j)
      <3> HIDE DEF Old
      <3>1. QED
        BY <1>5, <2>1
    <2>3. QED
      BY <2>2
  <1>15. head' = r[1]
    <2>1. head = s[1]
      BY <1>2 DEF Numbers
    <2>2. CASE k = 1
      <3>1. 1 \in k .. n - 1
        BY <1>7, <2>2
      <3>2. QED
        BY <1>6, <1>7, <1>8, <1>12, <2>1, <2>2, <3>1
    <2>3. CASE k # 1
      <3>1. s[k] # s[1] /\ 1 \in 1 .. k - 1
        BY <1>4, <1>5, <2>3
      <3>2. QED
        BY <1>6, <1>12, <2>1, <3>1
    <2>4. QED
      BY <2>2, <2>3
  <1>16. \A i \in 1 .. n - 2 : key'[r[i]] \in Keys /\ next'[r[i]] = r[i + 1]
    <2> SUFFICES ASSUME NEW i \in 1 .. n - 2
                 PROVE  key'[r[i]] \in Keys /\ next'[r[i]] = r[i + 1]
      OBVIOUS
    <2>1. CASE i < k - 1
      <3>1. i \in 1 .. k - 1 /\ i + 1 \in 1 .. k - 1 /\ i \in 1 .. n - 1 /\ i # k - 1
        BY <2>1
      <3>2. QED
        BY <1>6, <1>8, <1>10, <1>12, <3>1
    <2>2. CASE i = k - 1
      <3>1. i \in 1 .. k - 1 /\ i + 1 = k /\ k \in k .. n - 1 /\ k # 1
        BY <1>7, <2>2
      <3>2. QED
        BY <1>6, <1>8, <1>10, <1>12, <2>2, <3>1
    <2>3. CASE i >= k
      <3>1. /\ i \in k .. n - 1 /\ i + 1 \in k .. n - 1 /\ i + 1 \in 1 .. n - 1
            /\ i + 1 \in 1 .. n /\ i + 1 # k - 1
        BY <2>3
      <3>2. r[i] = s[i + 1] /\ r[i + 1] = s[(i + 1) + 1]
        BY <1>12, <3>1
      <3>3. QED
        BY <1>6, <1>8, <1>10, <3>1, <3>2
    <2>4. QED
      BY <2>1, <2>2, <2>3
  <1>17. \A i, j \in 1 .. n - 2 : i <= j => key'[r[i]] <= key'[r[j]]
    <2> SUFFICES ASSUME NEW i \in 1 .. n - 2, NEW j \in 1 .. n - 2, i <= j
                 PROVE  key'[r[i]] <= key'[r[j]]
      OBVIOUS
    <2> DEFINE Old(x) == IF x < k THEN x ELSE x + 1
    <2>1. r[i] = s[Old(i)] /\ r[j] = s[Old(j)]
      BY <1>12
    <2>2. Old(i) \in 1 .. n - 1 /\ Old(j) \in 1 .. n - 1 /\ Old(i) <= Old(j)
      OBVIOUS
    <2> HIDE DEF Old
    <2>3. QED
      BY <1>2, <1>6, <2>1, <2>2 DEF Numbers
  <1>18. key'[r[n - 1]] = NULL /\ next'[r[n - 1]] = NULL
    <2>1. r[n - 1] = s[n] /\ n # k - 1
      <3>1. n - 1 \in k .. n - 1
        BY <1>7
      <3>2. r[n - 1] = s[(n - 1) + 1]
        BY <1>12, <3>1
      <3>3. QED
        BY <3>2
    <2>2. key[s[n]] = NULL /\ next[s[n]] = NULL
      BY <1>2 DEF Numbers
    <2>3. QED
      BY <1>4, <1>6, <1>10, <2>1, <2>2
  <1>19. allocated' = {r[i] : i \in 1 .. n - 1}
    <2>1. allocated' = {s[i] : i \in 1 .. n} \ {s[k]}
      BY <1>2, <1>6 DEF Numbers
    <2>2. ASSUME NEW i \in 1 .. n - 1 PROVE r[i] \in allocated'
      <3>1. CASE i < k
        <4>1. i \in 1 .. k - 1 /\ i # k
          BY <3>1
        <4>2. QED
          BY <1>5, <1>12, <2>1, <4>1
      <3>2. CASE i >= k
        <4>1. i \in k .. n - 1 /\ i + 1 # k
          BY <3>2
        <4>2. QED
          BY <1>5, <1>12, <2>1, <4>1
      <3>3. QED
        BY <3>1, <3>2
    <2>3. ASSUME NEW x \in allocated' PROVE \E i \in 1 .. n - 1 : r[i] = x
      <3>1. PICK i \in 1 .. n : x = s[i] /\ i # k
        BY <2>1
      <3>2. CASE i < k
        <4>1. i \in 1 .. k - 1
          BY <3>2
        <4>2. QED
          BY <1>12, <3>1, <4>1
      <3>3. CASE i > k
        <4>1. i - 1 \in k .. n - 1 /\ (i - 1) + 1 = i /\ i - 1 \in 1 .. n - 1
          BY <3>3
        <4>2. QED
          BY <1>12, <3>1, <4>1
      <3>4. QED
        BY <3>1, <3>2, <3>3
    <2>4. QED
      BY <2>2, <2>3
  <1>20. Numbers(r, n - 1)'
    <2>1. (n - 1) - 1 = n - 2
      OBVIOUS
    <2>2. QED
      BY <1>13, <1>14, <1>15, <1>16, <1>17, <1>18, <1>19, <2>1 DEF Numbers
  <1>21. head' # NULL
    <2>1. 1 \in 1 .. n - 1
      BY <1>7
    <2>2. QED
      BY <1>13, <1>15, <2>1, KeysAssumption
  <1>22. QED
    BY <1>7, <1>11, <1>20, <1>21 DEF ListInv

\* So does every step, a list of one cell to begin with.
LEMMA NextKeepsList ==
  ASSUME ListInv, [Next]_vars
  PROVE  ListInv'
  <1>1. ASSUME UNCHANGED heapVars PROVE ListInv'
    BY <1>1 DEF heapVars, ListInv, TypesInv, Numbers
  <1>2. CASE createList
    <2>1. CASE UNCHANGED heapVars
      BY <1>1, <2>1
    <2>2. CASE ~UNCHANGED heapVars
      <3>1. PICK c \in Free : /\ head = NULL /\ head' = c
                              /\ key' = [key EXCEPT ![c] = NULL]
                              /\ next' = [next EXCEPT ![c] = NULL]
                              /\ allocated' = allocated \cup {c}
        BY <1>2, <2>2 DEF createList
      <3>2. allocated' = {c} /\ c \in Cells
        BY <3>1 DEF ListInv, Free
      <3>3. TypesInv'
        <4>1. IsFiniteSet(allocated')
          BY <3>2, FS_Singleton
        <4>2. QED
          BY <3>1, <3>2, <4>1 DEF ListInv, TypesInv
      <3>4. key'[c] = NULL /\ next'[c] = NULL
        BY <3>1, <3>2 DEF ListInv, TypesInv
      <3> DEFINE r == [i \in 1 .. 1 |-> c]
      <3>5. Numbers(r, 1)'
        BY <3>1, <3>2, <3>4 DEF Numbers
      <3>6. 1 \in Nat \ {0} /\ head' # NULL
        BY <3>1, <3>2, KeysAssumption
      <3>7. QED
        BY <3>3, <3>5, <3>6 DEF ListInv
    <2>3. QED
      BY <2>1, <2>2
  <1>3. CASE destroyList
    <2>1. CASE head = NULL
      BY <1>1, <1>3, <2>1 DEF destroyList
    <2>2. CASE head # NULL
      <3>1. allocated' = {} /\ head' = NULL /\ UNCHANGED <<key, next>>
        BY <1>3, <2>2, ReachableCells DEF destroyList
      <3>2. IsFiniteSet({})
        BY FS_EmptySet
      <3>3. QED
        BY <3>1, <3>2 DEF ListInv, TypesInv
    <2>3. QED
      BY <2>1, <2>2
  <1>4. ASSUME NEW str \in Keys, insertList(str) PROVE ListInv'
    <2>1. CASE insertFails(str)
      BY <1>1, <2>1 DEF insertFails
    <2>2. CASE ~insertFails(str)
      BY <1>4, <2>2, InsertKeepsList DEF insertList
    <2>3. QED
      BY <2>1, <2>2
  <1>5. ASSUME NEW str \in Keys, deleteList(str) PROVE ListInv'
    <2>1. CASE head # NULL /\ key[Walk(str, 0)[2]] = str
      BY <1>5, <2>1, DeleteKeepsList DEF deleteList
    <2>2. CASE ~(head # NULL /\ key[Walk(str, 0)[2]] = str)
      BY <1>1, <1>5, <2>2 DEF deleteList
    <2>3. QED
      BY <2>1, <2>2
  <1>6. ASSUME NEW str \in Keys, isInList(str) PROVE ListInv'
    BY <1>1, <1>6 DEF isInList
  <1>7. CASE UNCHANGED vars
    BY <1>1, <1>7 DEF vars
  <1>8. QED
    BY <1>2, <1>3, <1>4, <1>5, <1>6, <1>7 DEF Next

\* In every state the list is well formed: the cells in use can be numbered.
THEOREM ListInvCorrect == Spec => []ListInv
  <1>1. Init => ListInv
    BY FS_EmptySet DEF Init, ListInv, TypesInv
  <1>2. ListInv /\ [Next]_vars => ListInv'
    BY NextKeepsList
  <1>3. QED
    BY <1>1, <1>2, PTL DEF Spec

\* The keys are in order at every moment, so that a loop which stops at the first key
\* that is too great has missed none.
THEOREM SortedCorrect == Spec => []Sorted
  <1>1. ASSUME ListInv PROVE Sorted
    <2> SUFFICES ASSUME NEW c \in Reachable, key[c] # NULL, key[next[c]] # NULL
                 PROVE  key[c] <= key[next[c]]
      BY DEF Sorted
    <2>1. c \in allocated /\ head # NULL
      BY <1>1, ReachableCells DEF Reachable
    <2>0. PICK n \in Nat \ {0} : \E s : Numbers(s, n)
      BY <1>1, <2>1 DEF ListInv
    <2>2. PICK s : Numbers(s, n)
      BY <2>0
    <2>3. PICK i \in 1 .. n : c = s[i]
      BY <2>1, <2>2 DEF Numbers
    <2>4. i \in 1 .. n - 1
      BY <2>2, <2>3, KeysOfList
    <2>5. next[c] = s[i + 1] /\ i + 1 \in 1 .. n
      BY <2>2, <2>3, <2>4 DEF Numbers
    <2>6. i + 1 \in 1 .. n - 1
      BY <2>2, <2>5, KeysOfList
    <2>7. QED
      BY <2>2, <2>3, <2>4, <2>5, <2>6 DEF Numbers
  <1>2. QED
    BY <1>1, ListInvCorrect, PTL

\* No cell is lost and none that was freed is linked, whatever the order of the
\* operations and wherever malloc fails.
THEOREM CellsInUseCorrect == Spec => []CellsInUse
  <1>1. ASSUME ListInv PROVE CellsInUse
    BY <1>1, ReachableCells DEF CellsInUse
  <1>2. QED
    BY <1>1, ListInvCorrect, PTL

-----------------------------------------------------------------------------
(* The bag of names.                                                       *)

\* The cells in use that hold a name.
Holding(k) == {c \in allocated : key[c] = k}

\* The bag counts the cells in use.
Counted == Names = [k \in Keys |-> Cardinality(Holding(k))]

\* It does so whenever the list is well formed.
LEMMA NamesCount == ListInv => Counted
  <1> SUFFICES ASSUME ListInv PROVE Counted
    OBVIOUS
  <1>1. Reachable = allocated
    BY ReachableCells
  <1>2. QED
    BY <1>1 DEF Names, Holding, Counted

\* There are finitely many; a name is in the bag when a cell holds it.
LEMMA HoldingIsFinite ==
  ASSUME ListInv, NEW k \in Keys
  PROVE  /\ IsFiniteSet(Holding(k)) /\ Names[k] = Cardinality(Holding(k))
         /\ Names[k] \in Nat
         /\ Names[k] = 0 <=> \A c \in allocated : key[c] # k
  <1>1. IsFiniteSet(Holding(k))
    <2>1. Holding(k) \subseteq allocated /\ IsFiniteSet(allocated)
      BY DEF Holding, ListInv, TypesInv
    <2>2. QED
      BY <2>1, FS_Subset
  <1>2. Names[k] = Cardinality(Holding(k))
    BY NamesCount DEF Counted
  <1>3. Cardinality(Holding(k)) \in Nat
    BY <1>1, FS_CardinalityType
  <1>4. Cardinality(Holding(k)) = 0 <=> Holding(k) = {}
    BY <1>1, FS_EmptySet
  <1>5. Holding(k) = {} <=> \A c \in allocated : key[c] # k
    BY DEF Holding
  <1>6. QED
    BY <1>1, <1>2, <1>3, <1>4, <1>5

\* After a step the bag counts the cells in use then.
LEMMA NamesCountAfter == ListInv' => Counted'
  BY NamesCount, PTL

\* A step that changes neither the cells nor their keys does not change the bag.
LEMMA NamesKept ==
  ASSUME UNCHANGED heapVars
  PROVE  Names' = Names /\ head' = head
  BY DEF heapVars, Names, Reachable, Visited, Keyed

\* A cell more or less is a name more or less.
LEMMA NamesChange ==
  ASSUME ListInv, ListInv', NEW str \in Keys, NEW c \in Cells
  PROVE  /\ /\ c \notin allocated /\ allocated' = allocated \cup {c}
            /\ key' = [key EXCEPT ![c] = str]
            => Names' = [Names EXCEPT ![str] = @ + 1]
         /\ /\ c \in allocated /\ allocated' = allocated \ {c}
            /\ key' = key /\ key[c] = str
            => Names' = [Names EXCEPT ![str] = @ - 1] /\ Names[str] > 0
  <1> DEFINE Before(k) == Holding(k)
             After(k) == Holding(k)'
  <1>1. /\ Names = [k \in Keys |-> Cardinality(Before(k))]
        /\ Names' = [k \in Keys |-> Cardinality(After(k))]
    BY NamesCount, NamesCountAfter DEF Counted
  <1>2. \A k \in Keys : IsFiniteSet(Before(k)) /\ Cardinality(Before(k)) \in Nat
    <2> TAKE k \in Keys
    <2>1. IsFiniteSet(Holding(k))
      BY HoldingIsFinite
    <2>2. QED
      BY <2>1, FS_CardinalityType
  <1>3. key \in [Cells -> Keys \cup {NULL}] /\ allocated \subseteq Cells
    BY DEF ListInv, TypesInv
  <1>4. ASSUME c \notin allocated, allocated' = allocated \cup {c},
               key' = [key EXCEPT ![c] = str]
        PROVE  Names' = [Names EXCEPT ![str] = @ + 1]
    <2>1. After(str) = Before(str) \cup {c} /\ c \notin Before(str)
      BY <1>3, <1>4 DEF Holding
    <2>2. \A k \in Keys : k # str => After(k) = Before(k)
      BY <1>3, <1>4 DEF Holding
    <2> HIDE DEF Before, After
    <2>3. Cardinality(After(str)) = Cardinality(Before(str)) + 1
      BY <1>2, <2>1, FS_AddElement
    <2>4. QED
      BY <1>1, <2>2, <2>3
  <1>5. ASSUME c \in allocated, allocated' = allocated \ {c}, key' = key, key[c] = str
        PROVE  Names' = [Names EXCEPT ![str] = @ - 1] /\ Names[str] > 0
    <2>1. After(str) = Before(str) \ {c} /\ c \in Before(str)
      BY <1>3, <1>5 DEF Holding
    <2>2. \A k \in Keys : k # str => After(k) = Before(k)
      BY <1>3, <1>5 DEF Holding
    <2> HIDE DEF Before, After
    <2>3. Cardinality(After(str)) = Cardinality(Before(str)) - 1
      BY <1>2, <2>1, FS_RemoveElement
    <2>4. Cardinality(Before(str)) # 0
      BY <1>2, <2>1, FS_EmptySet
    <2>5. Names[str] > 0
      BY <1>1, <1>2, <2>4
    <2>6. QED
      BY <1>1, <2>2, <2>3, <2>5
  <1>6. QED
    BY <1>4, <1>5

\* A list whose cells have no keys is the empty bag.
EmptyIfUnkeyed == ListInv /\ (\A c \in allocated : key[c] = NULL) => Names = Bag!Empty

\* It is, before a step.
LEMMA UnkeyedIsEmpty == EmptyIfUnkeyed
  <1> SUFFICES ASSUME ListInv, \A c \in allocated : key[c] = NULL PROVE Names = Bag!Empty
    BY DEF EmptyIfUnkeyed
  <1>1. \A k \in Keys : Cardinality(Holding(k)) = 0
    <2>1. \A k \in Keys : Holding(k) = {}
      BY KeysAssumption DEF Holding
    <2>2. QED
      BY <2>1, FS_EmptySet
  <1>2. QED
    BY <1>1, NamesCount DEF Bag!Empty, Counted

\* And after it.
LEMMA UnkeyedIsEmptyAfter == EmptyIfUnkeyed'
  BY UnkeyedIsEmpty, PTL

BagVars == <<head # NULL, Names, called, result>>

\* Each operation on the cells is the operation on the bag, with the same result.
LEMMA StepOfBag ==
  ASSUME ListInv, ListInv', [Next]_vars
  PROVE  [Bag!Next]_BagVars
  <1>1. \A k \in Keys : Names[k] \in Nat
                        /\ (Names[k] = 0 <=> \A c \in allocated : key[c] # k)
    BY HoldingIsFinite
  <1>2. allocated \subseteq Cells
    BY DEF ListInv, TypesInv
  <1>3. CASE createList
    <2>1. CASE UNCHANGED heapVars /\ Return(<<"create">>, -1)
      <3>1. Names' = Names /\ head' = head
        BY <2>1, NamesKept
      <3>2. Bag!Fail
        BY <2>1, <3>1 DEF Bag!Fail, Bag!Return, Return
      <3>3. QED
        BY <3>2 DEF Bag!Next
    <2>2. CASE Return(<<"create">>, 0)
      <3>1. PICK c \in Free : /\ head = NULL /\ head' = c /\ allocated' = allocated \cup {c}
                              /\ key' = [key EXCEPT ![c] = NULL]
        BY <1>3, <2>2 DEF createList, Return
      <3>2. head' # NULL /\ allocated' = {c} /\ key'[c] = NULL
        BY <3>1, KeysAssumption DEF Free, ListInv, TypesInv
      <3>3. Names' = Bag!Empty
        BY <3>2, UnkeyedIsEmptyAfter DEF EmptyIfUnkeyed, Bag!Empty
      <3>4. Bag!Create
        BY <2>2, <3>1, <3>2, <3>3 DEF Bag!Create, Bag!Return, Return
      <3>5. QED
        BY <3>4 DEF Bag!Next
    <2>3. QED
      BY <1>3, <2>1, <2>2 DEF createList
  <1>4. CASE destroyList
    <2>1. CASE head = NULL
      <3>1. Return(<<"destroy">>, -1) /\ Names' = Names /\ head' = head
        BY <1>4, <2>1, NamesKept DEF destroyList
      <3>2. Bag!Fail
        BY <2>1, <3>1 DEF Bag!Fail, Bag!Return, Return
      <3>3. QED
        BY <3>2 DEF Bag!Next
    <2>2. CASE head # NULL
      <3>1. Return(<<"destroy">>, 0) /\ head' = NULL /\ allocated' = {}
        BY <1>4, <2>2, ReachableCells DEF destroyList
      <3>2. Names' = Bag!Empty
        BY <3>1, UnkeyedIsEmptyAfter DEF EmptyIfUnkeyed, Bag!Empty
      <3>3. Bag!Destroy
        BY <2>2, <3>1, <3>2 DEF Bag!Destroy, Bag!Return, Return
      <3>4. QED
        BY <3>3 DEF Bag!Next
    <2>3. QED
      BY <2>1, <2>2
  <1>5. ASSUME NEW str \in Keys, insertList(str) PROVE Bag!Next
    <2>1. CASE insertFails(str)
      <3>1. Return(<<"insert", str>>, -1) /\ Names' = Names /\ head' = head
        BY <2>1, NamesKept DEF insertFails
      <3>2. Bag!Fail
        BY <3>1 DEF Bag!Fail, Bag!Return, Return
      <3>3. QED
        BY <3>2 DEF Bag!Next
    <2>2. CASE ~insertFails(str)
      <3>1. PICK c \in Free : insertCell(str, c) /\ allocated' = allocated \cup {c}
        BY <1>5, <2>2 DEF insertList
      <3>2. head # NULL /\ Return(<<"insert", str>>, 0)
        BY <1>5, <2>2 DEF insertList
      <3>3. c \in Cells /\ c \notin allocated /\ key' = [key EXCEPT ![c] = str]
        BY <3>1 DEF Free, insertCell
      <3>4. Names' = [Names EXCEPT ![str] = @ + 1]
        BY <3>1, <3>3, NamesChange
      <3>5. head' # NULL
        BY <3>1, <3>2, <3>3, KeysAssumption DEF insertCell
      <3>6. Bag!Insert(str)
        BY <3>2, <3>4, <3>5 DEF Bag!Insert, Bag!Return, Return
      <3>7. QED
        BY <3>6 DEF Bag!Next
    <2>3. QED
      BY <2>1, <2>2
  <1>6. ASSUME NEW str \in Keys, deleteList(str) PROVE Bag!Next
    <2>1. CASE head # NULL /\ key[Walk(str, 0)[2]] = str
      <3>1. deleteCell(Walk(str, 0)) /\ Return(<<"delete", str>>, 0)
        BY <1>6, <2>1 DEF deleteList
      <3>2. PICK c \in allocated : c = Walk(str, 0)[2]
        BY <2>1, WalkFinds
      <3>3. allocated' = allocated \ {c} /\ key' = key /\ key[c] = str
        BY <2>1, <3>1, <3>2 DEF deleteCell
      <3>4. Names' = [Names EXCEPT ![str] = @ - 1] /\ Names[str] > 0
        BY <1>2, <3>3, NamesChange
      <3>5. head' # NULL
        BY <2>1, <3>1, DeleteKeepsList
      <3>6. Bag!Delete(str)
        BY <2>1, <3>1, <3>4, <3>5 DEF Bag!Delete, Bag!Return, Return
      <3>7. QED
        BY <3>6 DEF Bag!Next
    <2>2. CASE ~(head # NULL /\ key[Walk(str, 0)[2]] = str)
      <3>1. Return(<<"delete", str>>, -1) /\ Names' = Names /\ head' = head
        BY <1>6, <2>2, NamesKept DEF deleteList
      <3>2. head = NULL \/ Names[str] = 0
        BY <1>1, <2>2, WalkFinds
      <3>3. Bag!Fail
        BY <3>1, <3>2 DEF Bag!Fail, Bag!Return, Return
      <3>4. QED
        BY <3>3 DEF Bag!Next
    <2>3. QED
      BY <2>1, <2>2
  <1>7. ASSUME NEW str \in Keys, isInList(str) PROVE Bag!Next
    <2> DEFINE found == head # NULL /\ key[Walk(str, 0)[2]] = str
    <2>1. /\ Return(<<"member", str>>, IF found THEN 1 ELSE 0)
          /\ Names' = Names /\ head' = head
      BY <1>7, NamesKept DEF isInList
    <2>2. found <=> head # NULL /\ Names[str] > 0
      BY <1>1, WalkFinds
    <2> HIDE DEF found
    <2>3. Bag!Member(str)
      BY <2>1, <2>2 DEF Bag!Member, Return
    <2>4. QED
      BY <2>3 DEF Bag!Next
  <1>8. CASE UNCHANGED vars
    <2>1. Names' = Names /\ head' = head /\ called' = called /\ result' = result
      BY <1>8, NamesKept DEF vars
    <2>2. QED
      BY <2>1 DEF BagVars
  <1>9. QED
    BY <1>3, <1>4, <1>5, <1>6, <1>7, <1>8 DEF Next

\* The list is the bag of the names inserted and not deleted, and every operation
\* returns what the bag says: what Statistics takes its lists for.
THEOREM ListIsBag == Spec => ImplementsNameBag
  <1>1. Init => Bag!Init
    <2> SUFFICES ASSUME Init PROVE Bag!Init
      OBVIOUS
    <2>1. Names = Bag!Empty
      BY UnkeyedIsEmpty, FS_EmptySet DEF EmptyIfUnkeyed, Init, ListInv, TypesInv
    <2>2. QED
      BY <2>1 DEF Init, Bag!Init
  <1>2. ListInv /\ ListInv' /\ [Next]_vars => [Bag!Next]_<<head # NULL, Names, called, result>>
    BY StepOfBag DEF BagVars
  <1>3. QED
    BY <1>1, <1>2, ListInvCorrect, PTL DEF Spec, ImplementsNameBag, Bag!Spec

=============================================================================
