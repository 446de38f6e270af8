-------------------------- MODULE Messages_proofs --------------------------
(***************************************************************************)
(* What the two parsers of Messages make of each message the library and   *)
(* the server write, with any part of a block after it, for all names,     *)
(* lengths and data; and the tokens of any text.                           *)
(***************************************************************************)
EXTENDS Messages, SequenceTheorems, FiniteSetTheorems, WellFoundedInduction, TLAPS

-----------------------------------------------------------------------------
(* The first of the symbols of a text that are, or are not, in a set.      *)

\* Among some of the first n numbers one is the least: of the intervals that end at
\* them, one contains no other.
LEMMA LeastNumber ==
    ASSUME NEW n \in Nat, NEW I \in SUBSET (1 .. n), I # {}
    PROVE  Min(I) \in I /\ \A k \in I : Min(I) <= k
  <1> DEFINE R == StrictSubsetOrdering(1 .. n)
             T == {1 .. k : k \in I}
  <1>1. IsWellFoundedOn(R, SUBSET (1 .. n))
    <2>1. IsFiniteSet(1 .. n)
      BY FS_Interval
    <2>2. QED
      BY <2>1, FS_FiniteSubsetsOfFinite, FS_StrictSubsetOrderingWellFounded
  <1>2. T \subseteq SUBSET (1 .. n) /\ T # {}
    <2>1. \A k \in I : 1 .. k \subseteq 1 .. n
      OBVIOUS
    <2>2. QED
      BY <2>1
  <1>3. \E x \in T : \A y \in T : ~ (<<y, x>> \in R)
    <2> HIDE DEF R, T
    <2> QED BY <1>1, <1>2, WFMin
  <1>4. PICK m \in I : \A k \in I : <<1 .. k, 1 .. m>> \notin R
    BY <1>3
  <1>5. \A k \in I : m <= k
    <2> SUFFICES ASSUME NEW k \in I, k < m PROVE FALSE
      OBVIOUS
    <2>1. 1 .. k \subseteq 1 .. m /\ m \in 1 .. m /\ m \notin 1 .. k
      OBVIOUS
    <2>2. <<1 .. k, 1 .. m>> \in R
      BY <2>1 DEF StrictSubsetOrdering
    <2>3. QED
      BY <1>4, <2>2
  <1>6. QED
    BY <1>5 DEF Min

-----------------------------------------------------------------------------
(* C strings.                                                              *)

\* A text of any symbols is seen up to its first NUL.
LEMMA CStringIsPrefix ==
    ASSUME NEW S, NEW d \in Seq(S)
    PROVE  /\ strlen(d) \in 0 .. Len(d)
           /\ CString(d) = SubSeq(d, 1, strlen(d))
           /\ CString(d) \in Seq(S) /\ Len(CString(d)) = strlen(d)
           /\ \A k \in 1 .. strlen(d) : CString(d)[k] = d[k] /\ d[k] # NUL
           /\ strlen(d) < Len(d) => d[strlen(d) + 1] = NUL
           /\ Contains(d, NUL) <=> strlen(d) < Len(d)
           /\ ~Contains(d, NUL) => CString(d) = d
  <1> DEFINE I == {k \in 1 .. Len(d) : d[k] = NUL}
             n == SelectInSeq(d, LAMBDA x : x = NUL)
  <1>1. n = IF I # {} THEN Min(I) ELSE 0
    BY DEF SelectInSeq
  <1>2. strlen(d) = IF n = 0 THEN Len(d) ELSE n - 1
    BY DEF strlen
  <1>3. I # {} => Min(I) \in I /\ \A k \in I : Min(I) <= k
    <2>1. Len(d) \in Nat /\ I \in SUBSET (1 .. Len(d))
      OBVIOUS
    <2> HIDE DEF I
    <2>2. QED
      BY <2>1, LeastNumber
  <1>4. /\ strlen(d) \in 0 .. Len(d)
        /\ \A k \in 1 .. strlen(d) : d[k] # NUL
        /\ strlen(d) < Len(d) => d[strlen(d) + 1] = NUL
    <2>0. Len(d) \in Nat
      OBVIOUS
    <2>1. CASE I = {}
      <3>1. strlen(d) = Len(d)
        BY <1>1, <1>2, <2>1
      <3>2. QED
        BY <2>0, <2>1, <3>1
    <2>2. CASE I # {}
      <3>1. n \in I /\ \A k \in I : n <= k
        BY <1>1, <1>3, <2>2
      <3>2. n \in 1 .. Len(d) /\ d[n] = NUL /\ \A k \in 1 .. n - 1 : d[k] # NUL
        <4> HIDE DEF n
        <4> QED BY <2>0, <3>1
      <3>3. strlen(d) = n - 1
        <4>1. n # 0
          <5> HIDE DEF n
          <5> QED BY <3>2
        <4>2. QED
          BY <1>2, <4>1
      <3> HIDE DEF n
      <3>4. QED
        BY <2>0, <3>2, <3>3
    <2>3. QED
      BY <2>1, <2>2
  <1> HIDE DEF n, I
  <1>5. CString(d) = SubSeq(d, 1, strlen(d))
    BY DEF CString
  <1>6. /\ CString(d) \in Seq(S) /\ Len(CString(d)) = strlen(d)
        /\ \A k \in 1 .. strlen(d) : CString(d)[k] = d[k]
    BY <1>4, <1>5
  <1>7. Contains(d, NUL) <=> strlen(d) < Len(d)
    BY <1>4 DEF Contains
  <1>8. ~Contains(d, NUL) => CString(d) = d
    <2>1. ~Contains(d, NUL) => strlen(d) = Len(d)
      BY <1>4, <1>7
    <2>2. QED
      BY <1>5, <2>1, SubSeqFull
  <1>9. QED
    BY <1>4, <1>5, <1>6, <1>7, <1>8

\* The NUL of data is not in the header before them.
LEMMA CStringAfter ==
    ASSUME NEW S, NEW h \in Seq(S), NEW d \in Seq(S), ~Contains(h, NUL)
    PROVE  CString(h \o d) = h \o CString(d)
  <1> DEFINE t == h \o d
             c == h \o CString(d)
  <1>1. /\ t \in Seq(S) /\ Len(t) = Len(h) + Len(d)
        /\ \A k \in 1 .. Len(h) : t[k] = h[k] /\ t[k] # NUL
        /\ \A k \in 1 .. Len(d) : t[Len(h) + k] = d[k]
    BY DEF Contains
  <1>2. /\ strlen(d) \in 0 .. Len(d) /\ Len(CString(d)) = strlen(d)
        /\ CString(d) \in Seq(S)
        /\ \A k \in 1 .. strlen(d) : CString(d)[k] = d[k] /\ d[k] # NUL
        /\ strlen(d) < Len(d) => d[strlen(d) + 1] = NUL
    BY CStringIsPrefix
  <1>3. /\ strlen(t) \in 0 .. Len(t) /\ Len(CString(t)) = strlen(t)
        /\ CString(t) \in Seq(S)
        /\ \A k \in 1 .. strlen(t) : CString(t)[k] = t[k] /\ t[k] # NUL
        /\ strlen(t) < Len(t) => t[strlen(t) + 1] = NUL
    BY <1>1, CStringIsPrefix
  <1> HIDE DEF t
  <1>4. strlen(t) = Len(h) + strlen(d)
    <2>0. Len(h) \in Nat /\ Len(d) \in Nat
      OBVIOUS
    <2>1. ~(strlen(t) < Len(h))
      BY <1>1, <1>3, <2>0
    <2>2. ~(strlen(t) < Len(h) + strlen(d))
      <3> SUFFICES ASSUME strlen(t) < Len(h) + strlen(d) PROVE FALSE
        OBVIOUS
      <3>1. strlen(t) - Len(h) + 1 \in 1 .. strlen(d)
        BY <1>2, <1>3, <2>0, <2>1
      <3>2. t[Len(h) + (strlen(t) - Len(h) + 1)] # NUL
        <4> DEFINE k == strlen(t) - Len(h) + 1
        <4>1. k \in 1 .. strlen(d) /\ k \in 1 .. Len(d) /\ d[k] # NUL
          BY <1>2, <2>0, <3>1
        <4> HIDE DEF k
        <4>2. t[Len(h) + k] # NUL
          BY <1>1, <4>1
        <4>3. QED
          BY <4>2 DEF k
      <3>3. t[strlen(t) + 1] = NUL
        BY <1>1, <1>2, <1>3, <2>0
      <3>4. Len(h) + (strlen(t) - Len(h) + 1) = strlen(t) + 1
        BY <1>3, <2>0
      <3>5. QED
        BY <3>2, <3>3, <3>4
    <2>3. ~(Len(h) + strlen(d) < strlen(t))
      <3> SUFFICES ASSUME Len(h) + strlen(d) < strlen(t) PROVE FALSE
        OBVIOUS
      <3>1. strlen(d) < Len(d)
        BY <1>1, <1>2, <1>3, <2>0
      <3>2. t[Len(h) + (strlen(d) + 1)] = NUL
        <4> DEFINE k == strlen(d) + 1
        <4>1. k \in 1 .. Len(d) /\ d[k] = NUL
          BY <1>2, <2>0, <3>1
        <4> HIDE DEF k
        <4>2. t[Len(h) + k] = NUL
          BY <1>1, <4>1
        <4>3. QED
          BY <4>2 DEF k
      <3>3. Len(h) + (strlen(d) + 1) \in 1 .. strlen(t)
        BY <1>2, <1>3, <2>0
      <3>4. QED
        BY <1>3, <3>2, <3>3
    <2>4. QED
      BY <1>2, <1>3, <2>0, <2>2, <2>3
  <1>5. /\ c \in Seq(S) /\ Len(c) = Len(h) + strlen(d)
        /\ \A k \in 1 .. Len(h) : c[k] = h[k]
        /\ \A k \in Len(h) + 1 .. Len(h) + strlen(d) : c[k] = CString(d)[k - Len(h)]
    <2>1. CString(d) \in Seq(S)
      BY <1>2
    <2>2. /\ c \in Seq(S) /\ Len(c) = Len(h) + Len(CString(d))
          /\ \A k \in 1 .. Len(h) + Len(CString(d)) :
               c[k] = IF k <= Len(h) THEN h[k] ELSE CString(d)[k - Len(h)]
      BY <2>1, ConcatProperties
    <2>3. Len(h) \in Nat /\ strlen(d) \in Nat /\ Len(CString(d)) = strlen(d)
      BY <1>2
    <2> HIDE DEF c
    <2>4. QED
      BY <2>2, <2>3
  <1>6. \A k \in Len(h) + 1 .. Len(h) + strlen(d) : t[k] = d[k - Len(h)]
    <2> SUFFICES ASSUME NEW k \in Len(h) + 1 .. Len(h) + strlen(d) PROVE t[k] = d[k - Len(h)]
      OBVIOUS
    <2>1. Len(h) \in Nat /\ Len(d) \in Nat
      OBVIOUS
    <2>2. k - Len(h) \in 1 .. Len(d)
      BY <1>2, <2>1
    <2>3. t[Len(h) + (k - Len(h))] = d[k - Len(h)]
      BY <1>1, <2>2
    <2>4. Len(h) + (k - Len(h)) = k
      BY <1>2, <2>1
    <2>5. QED
      BY <2>3, <2>4
  <1>7. \A k \in 1 .. Len(c) : CString(t)[k] = c[k]
    <2> SUFFICES ASSUME NEW k \in 1 .. Len(c) PROVE CString(t)[k] = c[k]
      OBVIOUS
    <2>1. CString(t)[k] = t[k]
      BY <1>3, <1>4, <1>5
    <2>2. CASE k \in 1 .. Len(h)
      BY <1>1, <1>5, <2>1, <2>2
    <2>3. CASE k \in Len(h) + 1 .. Len(h) + strlen(d)
      <3>1. k - Len(h) \in 1 .. strlen(d)
        BY <1>2, <2>3
      <3>2. QED
        BY <1>2, <1>5, <1>6, <2>1, <2>3, <3>1
    <2>4. QED
      BY <1>2, <1>5, <2>2, <2>3
  <1>8. CString(t) = c
    BY <1>3, <1>4, <1>5, <1>7, SeqEqual
  <1>9. QED
    BY <1>8 DEF t

-----------------------------------------------------------------------------
(* Tokens.                                                                 *)

\* What follows a text.
LEMMA AfterText ==
  ASSUME NEW S, NEW h \in Seq(S), NEW r \in Seq(S)
  PROVE  /\ SubSeq(h \o r, 1, Len(h)) = h
         /\ SubSeq(h \o r, Len(h) + 1, Len(h \o r)) = r
         /\ SubSeq(h \o r, Len(h) + 1, Len(h) + Len(r)) = r
  <1> DEFINE s == h \o r
             u == SubSeq(s, Len(h) + 1, Len(h) + Len(r))
  <1>0. Len(h) \in Nat /\ Len(r) \in Nat
    OBVIOUS
  <1>1. /\ s \in Seq(S) /\ Len(s) = Len(h) + Len(r)
        /\ \A i \in 1 .. Len(h) : s[i] = h[i]
        /\ \A i \in 1 .. Len(r) : s[Len(h) + i] = r[i]
    OBVIOUS
  <1>2. SubSeq(s, 1, Len(h)) = h
    OBVIOUS
  <1>3. u \in Seq(S) /\ Len(u) = Len(r) /\ \A i \in 1 .. Len(r) : u[i] = s[Len(h) + i]
    <2> HIDE DEF s
    <2> QED BY <1>0, <1>1
  <1>4. u = r
    <2>1. \A i \in 1 .. Len(u) : u[i] = r[i]
      <3> HIDE DEF u, s
      <3> QED BY <1>1, <1>3
    <2> HIDE DEF u, s
    <2>2. QED
      BY <1>3, <2>1, SeqEqual
  <1>5. QED
    BY <1>1, <1>2, <1>4

\* A text that does not start with a delimiter is left as it is.
LEMMA SkipNothing ==
  ASSUME NEW S, NEW s \in Seq(S), NEW delim, Len(s) > 0, s[1] \notin delim
  PROVE  Skip(s, delim) = s
  <1> DEFINE I == {k \in 1 .. Len(s) : s[k] \notin delim}
  <1>0. Len(s) \in Nat \ {0}
    OBVIOUS
  <1>1. 1 \in I /\ \A k \in I : 1 <= k
    BY <1>0
  <1>2. Min(I) = 1
    BY <1>1 DEF Min
  <1>3. SubSeq(s, 1, Len(s)) = s
    OBVIOUS
  <1>4. Skip(s, delim) = IF I # {} THEN IF Min(I) = 0 THEN <<>> ELSE SubSeq(s, Min(I), Len(s))
                         ELSE <<>>
    BY DEF Skip, SelectInSeq
  <1> HIDE DEF I
  <1>5. QED
    BY <1>1, <1>2, <1>3, <1>4

\* A text of one symbol.
LEMMA OneSymbol ==
  ASSUME NEW S, NEW t \in Seq(S), Len(t) = 1
  PROVE  t = <<t[1]>>
  OBVIOUS

\* A word that a space follows is the first token of the text it starts.
LEMMA StrtokFirst ==
  ASSUME NEW S, NEW s \in Seq(S), Len(s) >= 2, NEW w, w # SP, s[1] = w, s[2] = SP
  PROVE  strtok(s, {SP}).token = <<w>> /\ strtok(s, {SP}).rest = SubSeq(s, 3, Len(s))
  <1> DEFINE I == {k \in 1 .. Len(s) : s[k] \in {SP}}
             Cut(t, J) ==
               IF J # {}
               THEN IF Min(J) = 0 THEN [token |-> t, rest |-> <<>>]
                    ELSE [token |-> SubSeq(t, 1, Min(J) - 1),
                          rest |-> SubSeq(t, Min(J) + 1, Len(t))]
               ELSE [token |-> t, rest |-> <<>>]
  <1>0. Len(s) \in Nat
    OBVIOUS
  <1>1. SubSeq(s, 1, 1) = <<w>>
    <2>1. SubSeq(s, 1, 1) \in Seq(S) /\ Len(SubSeq(s, 1, 1)) = 1 /\ SubSeq(s, 1, 1)[1] = w
      BY <1>0
    <2>2. QED
      BY <2>1, OneSymbol
  <1>2. Skip(s, {SP}) = s
    <2>1. Len(s) > 0 /\ s[1] \notin {SP}
      BY <1>0
    <2>2. QED
      BY <2>1, SkipNothing
  <1>3. I # {} /\ Min(I) = 2
    <2>1. 2 \in I /\ \A k \in I : 2 <= k
      BY <1>0
    <2>2. QED
      BY <2>1 DEF Min
  <1>4. strtok(s, {SP}) = Cut(s, I)
    <2>1. strtok(s, {SP}) = Cut(Skip(s, {SP}), {k \in 1 .. Len(Skip(s, {SP})) :
                                                  Skip(s, {SP})[k] \in {SP}})
      BY DEF strtok, SelectInSeq
    <2>2. QED
      BY <1>2, <2>1
  <1> HIDE DEF I
  <1>5. Cut(s, I).token = SubSeq(s, 1, 1) /\ Cut(s, I).rest = SubSeq(s, 3, Len(s))
    BY <1>3
  <1> HIDE DEF Cut
  <1>6. QED
    BY <1>1, <1>4, <1>5

\* The same of a text put together.
LEMMA StrtokWord ==
  ASSUME NEW S, NEW w \in S, w # SP, SP \in S, NEW r \in Seq(S)
  PROVE  /\ strtok(<<w, SP>> \o r, {SP}).token = <<w>>
         /\ strtok(<<w, SP>> \o r, {SP}).rest = r
  <1> DEFINE s == <<w, SP>> \o r
  <1>1. s \in Seq(S) /\ Len(s) = Len(r) + 2 /\ Len(s) >= 2 /\ s[1] = w /\ s[2] = SP
    OBVIOUS
  <1>2. SubSeq(s, 3, Len(s)) = r
    <2>1. <<w, SP>> \in Seq(S) /\ Len(<<w, SP>>) = 2
      OBVIOUS
    <2>2. SubSeq(s, 2 + 1, Len(s)) = r
      BY <2>1, AfterText
    <2>3. QED
      BY <2>2
  <1> HIDE DEF s
  <1>3. strtok(s, {SP}).token = <<w>> /\ strtok(s, {SP}).rest = SubSeq(s, 3, Len(s))
    BY <1>1, StrtokFirst
  <1>4. QED
    BY <1>2, <1>3 DEF s

\* The last word is the last token.
LEMMA StrtokLast ==
  ASSUME NEW w, w # SP
  PROVE  strtok(<<w>>, {SP}).token = <<w>>
  <1>1. Skip(<<w>>, {SP}) = <<w>>
    <2>1. <<w>> \in Seq({w}) /\ Len(<<w>>) > 0 /\ <<w>>[1] \notin {SP}
      OBVIOUS
    <2>2. QED BY <2>1, SkipNothing
  <1>2. {k \in 1 .. Len(<<w>>) : <<w>>[k] \in {SP}} = {}
    OBVIOUS
  <1>3. QED BY <1>1, <1>2 DEF strtok, SelectInSeq

\* No token is left at the end.
LEMMA StrtokEnd == strtok(<<>>, {SP}).token = <<>> /\ strtok(<<>>, {SP}).rest = <<>>
  <1>1. {k \in 1 .. Len(<<>>) : <<>>[k] \notin {SP}} = {}
    OBVIOUS
  <1>2. {k \in 1 .. Len(<<>>) : <<>>[k] \in {SP}} = {}
    OBVIOUS
  <1>3. Skip(<<>>, {SP}) = <<>>
    BY <1>1 DEF Skip, SelectInSeq
  <1>4. QED BY <1>2, <1>3 DEF strtok, SelectInSeq

\* A length is read as it was written.
LEMMA LengthIsRead ==
  ASSUME NEW n \in DOMAIN Decimal
  PROVE  isNumber(<<Decimal[n]>>) = n
  <1>1. Decimal[n] \notin {NL}
    BY WordsAssumption
  <1>2. Skip(<<Decimal[n]>>, {NL}) = <<Decimal[n]>>
    <2>1. /\ <<Decimal[n]>> \in Seq({Decimal[n]}) /\ Len(<<Decimal[n]>>) > 0
          /\ <<Decimal[n]>>[1] \notin {NL}
      BY <1>1
    <2>2. QED BY <2>1, SkipNothing
  <1>3. {m \in DOMAIN Decimal : Skip(<<Decimal[n]>>, {NL}) = <<Decimal[m]>>} = {n}
    BY <1>2, DecimalAssumption
  <1>4. QED BY <1>3 DEF isNumber

\* The end of the end of a text.
LEMMA EndOfEnd ==
  ASSUME NEW S, NEW t \in Seq(S), NEW k \in Nat \ {0}, k + 1 <= Len(t),
         NEW l \in Nat, l = k + 2
  PROVE  SubSeq(SubSeq(t, k, Len(t)), 3, Len(SubSeq(t, k, Len(t))))
         = SubSeq(t, l, Len(t))
  <1> DEFINE s == SubSeq(t, k, Len(t))
             r == SubSeq(t, l, Len(t))
             u == SubSeq(s, 3, Len(s))
  <1>0. Len(t) \in Nat
    OBVIOUS
  <1>1. s \in Seq(S) /\ Len(s) = Len(t) - k + 1 /\ \A i \in 1 .. Len(s) : s[i] = t[k + i - 1]
    BY <1>0
  <1>2. r \in Seq(S) /\ Len(r) = Len(t) - k - 1 /\ \A i \in 1 .. Len(r) : r[i] = t[l + i - 1]
    BY <1>0
  <1> HIDE DEF s, r
  <1>3. u \in Seq(S) /\ Len(u) = Len(t) - k - 1 /\ \A i \in 1 .. Len(u) : u[i] = s[3 + i - 1]
    <2>1. Len(s) \in Nat /\ Len(s) >= 2
      BY <1>0, <1>1
    <2>2. u \in Seq(S) /\ Len(u) = Len(s) - 3 + 1 /\ \A i \in 1 .. Len(u) : u[i] = s[3 + i - 1]
      BY <1>1, <2>1
    <2>3. QED
      BY <1>0, <1>1, <2>2
  <1> HIDE DEF u
  <1>4. \A i \in 1 .. Len(u) : u[i] = r[i]
    <2> SUFFICES ASSUME NEW i \in 1 .. Len(u) PROVE u[i] = r[i]
      OBVIOUS
    <2>1. 3 + i - 1 \in 1 .. Len(s) /\ i \in 1 .. Len(r)
      BY <1>0, <1>1, <1>2, <1>3
    <2>2. k + (3 + i - 1) - 1 = l + i - 1
      BY <1>0, <1>3
    <2>3. u[i] = s[3 + i - 1] /\ r[i] = t[l + i - 1]
      BY <1>2, <1>3, <2>1
    <2>4. s[3 + i - 1] = t[k + (3 + i - 1) - 1]
      BY <1>1, <2>1
    <2>5. QED
      BY <2>2, <2>3, <2>4
  <1>5. u = r
    BY <1>2, <1>3, <1>4, SeqEqual
  <1>6. QED
    BY <1>5 DEF u, s, r

\* The words of a text, each followed by a space, are its tokens in turn.
LEMMA StrtokAt ==
  ASSUME NEW S, NEW t \in Seq(S), NEW k \in Nat \ {0}, k + 1 <= Len(t),
         t[k] # SP, t[k + 1] = SP, NEW l \in Nat, l = k + 2
  PROVE  /\ strtok(SubSeq(t, k, Len(t)), {SP}).token = <<t[k]>>
         /\ strtok(SubSeq(t, k, Len(t)), {SP}).rest = SubSeq(t, l, Len(t))
  <1>. PICK w : w = t[k]
    OBVIOUS
  <1> DEFINE s == SubSeq(t, k, Len(t))
  <1>0. Len(t) \in Nat
    OBVIOUS
  <1>1. s \in Seq(S) /\ Len(s) >= 2 /\ s[1] = w /\ s[2] = SP /\ w # SP
    BY <1>0
  <1>2. SubSeq(s, 3, Len(s)) = SubSeq(t, l, Len(t))
    BY EndOfEnd
  <1> HIDE DEF s
  <1>3. strtok(s, {SP}).token = <<w>> /\ strtok(s, {SP}).rest = SubSeq(s, 3, Len(s))
    BY <1>1, StrtokFirst
  <1>4. <<w>> = <<t[k]>>
    OBVIOUS
  <1>5. QED
    BY <1>2, <1>3, <1>4 DEF s

-----------------------------------------------------------------------------
(* Messages.                                                               *)

\* The server understands a request that has a name and no data; a name that is too
\* long for the buffer is refused.
LEMMA RequestIsUnderstood ==
  ASSUME NEW cmd \in {"REGISTER", "RETRIEVE", "DELETE"}, NEW name \in Names, NEW len
  PROVE  parseRequestHeader(RequestHeader(cmd, name, len)) =
           IF name \in LongNames THEN Unparsed("BUFFER_OVERFLOW")
           ELSE Parsed("NO_MSG_ERROR", cmd, <<name>>, 0, <<>>)
  <1> DEFINE S == {cmd, name, SP, NL}
             t == RequestHeader(cmd, name, len)
             r == <<name, SP>> \o <<NL>>
  <1>1. /\ t = <<cmd, SP, name, SP, NL>> /\ t \in Seq(S)
        /\ t = <<cmd, SP>> \o r
    <2>1. t = <<cmd, SP, name, SP, NL>>
      BY DEF RequestHeader
    <2>2. <<cmd, SP, name, SP, NL>> \in Seq(S)
      OBVIOUS
    <2>3. <<cmd, SP, name, SP, NL>> = <<cmd, SP>> \o r
      OBVIOUS
    <2> HIDE DEF t, S
    <2>4. QED
      BY <2>1, <2>2, <2>3
  <1>2. cmd # SP /\ cmd # NUL /\ cmd # NL /\ name # SP /\ name # NUL /\ name # NL
    BY WordsAssumption DEF SP, NL, NUL
  <1>3. CString(t) = t /\ Contains(t, NL)
    <2>1. ~Contains(t, NUL) /\ Contains(t, NL)
      <3>1. SP # NUL /\ NL # NUL
        BY DEF SP, NL, NUL
      <3> HIDE DEF t
      <3>2. QED
        BY <1>1, <1>2, <3>1 DEF Contains
    <2> HIDE DEF t
    <2>2. QED
      BY <1>1, <2>1, CStringIsPrefix
  <1>4. strtok(t, {SP}).token = <<cmd>> /\ strtok(t, {SP}).rest = r
    <2>1. r \in Seq(S) /\ cmd \in S /\ SP \in S
      OBVIOUS
    <2> HIDE DEF t, S, r
    <2>2. QED
      <3>1. t = <<cmd, SP>> \o r
        BY <1>1
      <3>2. QED
        BY <1>2, <2>1, <3>1, StrtokWord
  <1>5. strtok(r, {SP}).token = <<name>> /\ strtok(r, {SP}).rest = <<NL>>
    <2>1. <<NL>> \in Seq(S) /\ name \in S /\ SP \in S
      OBVIOUS
    <2> HIDE DEF t, S
    <2>2. QED
      BY <1>1, <1>2, <2>1, StrtokWord
  <1>6. (\E n \in LongNames : Contains(<<name>>, n)) <=> name \in LongNames
    BY DEF Contains
  <1> HIDE DEF t, r
  <1>7. /\ ~(\A c \in Commands : strtok(t, {SP}).token # <<c>>)
        /\ strtok(t, {SP}).token # <<"LEAVE">> /\ strtok(t, {SP}).token # <<"STORE">>
        /\ Head(strtok(t, {SP}).token) = cmd
    BY <1>4 DEF Commands
  <1>8. strtok(strtok(t, {SP}).rest, {SP}).token = <<name>> /\ <<name>> # <<>>
    BY <1>4, <1>5
  <1>9. parseRequestHeader(t) =
          IF name \in LongNames THEN Unparsed("BUFFER_OVERFLOW")
          ELSE Parsed("NO_MSG_ERROR", cmd, <<name>>, 0, <<>>)
    BY <1>3, <1>4, <1>5, <1>6, <1>7, <1>8 DEF parseRequestHeader
  <1>10. QED
    BY <1>9 DEF t

\* The server understands a LEAVE.
LEMMA LeaveIsUnderstood ==
  ASSUME NEW name, NEW len
  PROVE  parseRequestHeader(RequestHeader("LEAVE", name, len))
         = Parsed("NO_MSG_ERROR", "LEAVE", <<>>, 0, <<>>)
  <1> DEFINE S == {"LEAVE", SP, NL}
             t == RequestHeader("LEAVE", name, len)
  <1>1. /\ t = <<"LEAVE", SP, NL>> /\ t \in Seq(S)
        /\ t = <<"LEAVE", SP>> \o <<NL>>
    BY DEF RequestHeader
  <1>3. CString(t) = t /\ Contains(t, NL)
    <2>1. ~Contains(t, NUL) /\ Contains(t, NL)
      <3>1. SP # NUL /\ NL # NUL /\ "LEAVE" # NUL
        BY DEF SP, NL, NUL
      <3> HIDE DEF t
      <3>2. QED
        BY <1>1, <3>1 DEF Contains
    <2> HIDE DEF t
    <2>2. QED
      BY <1>1, <2>1, CStringIsPrefix
  <1>4. strtok(t, {SP}).token = <<"LEAVE">> /\ strtok(t, {SP}).rest = <<NL>>
    <2>1. <<NL>> \in Seq(S) /\ "LEAVE" \in S /\ SP \in S /\ "LEAVE" # SP
      BY DEF SP
    <2> HIDE DEF t, S
    <2>2. QED
      <3>1. t = <<"LEAVE", SP>> \o <<NL>>
        BY <1>1
      <3>2. QED
        BY <2>1, <3>1, StrtokWord
  <1>5. strtok(<<NL>>, {SP}).token = <<NL>>
    <2>1. NL # SP
      BY DEF SP, NL
    <2>2. QED
      BY <2>1, StrtokLast
  <1> HIDE DEF t
  <1>6. /\ ~(\A c \in Commands : strtok(t, {SP}).token # <<c>>)
        /\ strtok(strtok(t, {SP}).rest, {SP}).token \in {<<>>, <<NL>>}
    BY <1>4, <1>5 DEF Commands
  <1>7. parseRequestHeader(t) = Parsed("NO_MSG_ERROR", "LEAVE", <<>>, 0, <<>>)
    BY <1>3, <1>4, <1>5, <1>6 DEF parseRequestHeader
  <1>8. QED
    BY <1>7 DEF t

\* The server understands a STORE with any data after it, whatever they are, up to the
\* first NUL of the data.
LEMMA StoreIsUnderstood ==
  ASSUME NEW name \in Names, NEW len \in DOMAIN Decimal, NEW S, NEW d \in Seq(S),
         Len(d) <= len
  PROVE  parseRequestHeader(RequestHeader("STORE", name, len) \o d) =
           IF name \in LongNames THEN Unparsed("BUFFER_OVERFLOW")
           ELSE Parsed("NO_MSG_ERROR", "STORE", <<name>>, len, CString(d))
  <1>a. PICK n, c : n = Decimal[len] /\ c = CString(d)
    OBVIOUS
  <1> DEFINE T == S \cup {"STORE", name, n, SP, NL}
             h == RequestHeader("STORE", name, len)
             t == h \o c
             From(k) == SubSeq(t, k, Len(t))
  <1>1. h = <<"STORE", SP, name, SP, n, SP, NL, SP>> /\ h \in Seq(T)
    BY <1>a DEF RequestHeader
  <1>2. /\ name # SP /\ name # NUL /\ n # SP /\ n # NUL
        /\ "STORE" # SP /\ "STORE" # NUL /\ NL # SP /\ NL # NUL /\ SP # NUL
    BY <1>a, WordsAssumption DEF SP, NL, NUL
  <1>3. d \in Seq(T) /\ c \in Seq(T) /\ Len(c) <= len
    <2>1. d \in Seq(T) /\ Len(d) \in Nat /\ len \in Nat
      BY DecimalAssumption
    <2> HIDE DEF T
    <2>2. QED
      BY <1>a, <2>1, CStringIsPrefix
  <1>4. CString(h \o d) = t
    <2>1. ~Contains(h, NUL)
      BY <1>1, <1>2 DEF Contains
    <2> HIDE DEF T, h
    <2>2. QED
      BY <1>1, <1>3, <1>a, <2>1, CStringAfter
  <1>5. /\ Len(h) = 8 /\ h[1] = "STORE" /\ h[2] = SP /\ h[3] = name /\ h[4] = SP
        /\ h[5] = n /\ h[6] = SP /\ h[7] = NL /\ h[8] = SP
    BY <1>1
  <1> HIDE DEF T, h
  <1>6. /\ t \in Seq(T) /\ Len(t) = 8 + Len(c) /\ Len(c) \in Nat
        /\ \A k \in 1 .. 8 : t[k] = h[k]
    BY <1>1, <1>3, <1>5, ConcatProperties
  <1>7. From(9) = c /\ From(1) = t
    <2>1. From(Len(h) + 1) = c
      BY <1>1, <1>3, AfterText
    <2>2. From(1) = t
      <3> HIDE DEF t
      <3> QED BY <1>6
    <2>3. QED
      BY <1>5, <2>1, <2>2
  <1>8. Contains(t, NL)
    <2>1. 7 \in 1 .. Len(t) /\ t[7] = NL
      BY <1>5, <1>6
    <2>2. QED
      BY <2>1 DEF Contains
  <1> HIDE DEF t
  <1>9. strtok(t, {SP}).token = <<"STORE">> /\ strtok(t, {SP}).rest = From(3)
    <2>1. /\ t \in Seq(T) /\ 1 + 1 <= Len(t) /\ 3 = 1 + 2 /\ 3 \in Nat /\ 1 \in Nat \ {0}
          /\ t[1] = "STORE" /\ "STORE" \in T
          /\ t[1 + 1] = SP
      BY <1>5, <1>6 DEF T
    <2>2. strtok(From(1), {SP}).token = <<t[1]>>
      BY <1>2, <2>1, StrtokAt
    <2>3. strtok(From(1), {SP}).rest = From(3)
      BY <1>2, <2>1, StrtokAt
    <2>4. <<t[1]>> = <<"STORE">>
      BY <2>1, Zenon
    <2> HIDE DEF From
    <2>5. QED
      BY <1>7, <2>1, <2>2, <2>3, <2>4
  <1>10. strtok(From(3), {SP}).token = <<name>> /\ strtok(From(3), {SP}).rest = From(5)
    <2>1. /\ t \in Seq(T) /\ 3 + 1 <= Len(t) /\ 5 = 3 + 2 /\ 5 \in Nat /\ 3 \in Nat \ {0}
          /\ t[3] = name /\ name \in T
          /\ t[3 + 1] = SP
      BY <1>5, <1>6 DEF T
    <2>2. strtok(From(3), {SP}).token = <<t[3]>>
      BY <1>2, <2>1, StrtokAt
    <2>3. strtok(From(3), {SP}).rest = From(5)
      BY <1>2, <2>1, StrtokAt
    <2>4. <<t[3]>> = <<name>>
      BY <2>1, Zenon
    <2> HIDE DEF From
    <2>5. QED
      BY <2>1, <2>2, <2>3, <2>4
  <1>11. strtok(From(5), {SP}).token = <<n>> /\ strtok(From(5), {SP}).rest = From(7)
    <2>1. /\ t \in Seq(T) /\ 5 + 1 <= Len(t) /\ 7 = 5 + 2 /\ 7 \in Nat /\ 5 \in Nat \ {0}
          /\ t[5] = n /\ n \in T
          /\ t[5 + 1] = SP
      BY <1>5, <1>6 DEF T
    <2>2. strtok(From(5), {SP}).token = <<t[5]>>
      BY <1>2, <2>1, StrtokAt
    <2>3. strtok(From(5), {SP}).rest = From(7)
      BY <1>2, <2>1, StrtokAt
    <2>4. <<t[5]>> = <<n>>
      BY <2>1, Zenon
    <2> HIDE DEF From
    <2>5. QED
      BY <2>1, <2>2, <2>3, <2>4
  <1>12. strtok(From(7), {SP}).rest = c
    <2>1. /\ t \in Seq(T) /\ 7 + 1 <= Len(t) /\ 9 = 7 + 2 /\ 9 \in Nat /\ 7 \in Nat \ {0}
          /\ t[7] = NL /\ t[7 + 1] = SP
      BY <1>5, <1>6
    <2>2. strtok(From(7), {SP}).rest = From(9)
      BY <1>2, <2>1, StrtokAt
    <2>3. QED
      BY <1>7, <2>2
  <1> HIDE DEF From
  <1>13. (\E l \in LongNames : Contains(<<name>>, l)) <=> name \in LongNames
    BY DEF Contains
  <1>14. isNumber(<<n>>) = len /\ len # -1
    BY <1>a, LengthIsRead, DecimalAssumption
  <1>15. parseData(<<name>>, len, From(7)) = Parsed("NO_MSG_ERROR", "STORE", <<name>>, len, c)
    <2>1. ~(Len(c) > len)
      BY <1>3, DecimalAssumption
    <2>2. QED
      BY <1>12, <2>1 DEF parseData
  <1>16. parseRequestHeader(h \o d) =
           IF name \in LongNames THEN Unparsed("BUFFER_OVERFLOW")
           ELSE parseData(<<name>>, len, From(7))
    <2>1. <<"STORE">> # <<"LEAVE">> /\ <<name>> # <<>> /\ <<n>> # <<>> /\ "STORE" \in Commands
      BY DEF Commands
    <2>2. QED
      BY <1>4, <1>8, <1>9, <1>10, <1>11, <1>13, <1>14, <2>1 DEF parseRequestHeader
  <1>17. QED
    BY <1>a, <1>15, <1>16 DEF h

\* The library understands the responses without data.
LEMMA ShortResponses ==
  /\ getResponseHeader(<<>>) = Response("NO_COMMAND", "UNKNOWN_R", 0, <<>>)
  /\ getResponseHeader(OKResponse) = Response("NO_MSG_ERROR", "OK", 0, <<>>)
  /\ getResponseHeader(KOResponse) = Response("NO_MSG_ERROR", "KO", 0, <<>>)
  /\ getResponseHeader(KOMessage) = Response("NO_MSG_ERROR", "KO", 0, <<>>)
  <1> DEFINE S == {"OK", "KO", "message", SP, NL}
  <1>0. "OK" # SP /\ "KO" # SP /\ "message" # SP /\ NL # SP /\ NUL \notin S
    BY DEF SP, NL, NUL
  <1>1. \A t \in Seq(S) : CString(t) = t
    <2> TAKE t \in Seq(S)
    <2>1. ~Contains(t, NUL)
      BY <1>0 DEF Contains
    <2> HIDE DEF S
    <2>2. QED
      BY <2>1, CStringIsPrefix
  <1>2. /\ <<>> \in Seq(S) /\ <<NL>> \in Seq(S) /\ OKResponse \in Seq(S) /\ KOResponse \in Seq(S)
        /\ KOMessage \in Seq(S) /\ <<"message", SP>> \o <<NL>> \in Seq(S)
        /\ "OK" \in S /\ "KO" \in S /\ SP \in S
    BY DEF OKResponse, KOResponse, KOMessage
  <1>3. /\ OKResponse = <<"OK", SP>> \o <<NL>> /\ KOResponse = <<"KO", SP>> \o <<NL>>
        /\ KOMessage = <<"KO", SP>> \o (<<"message", SP>> \o <<NL>>)
    BY DEF OKResponse, KOResponse, KOMessage
  <1> HIDE DEF S
  <1>4. getResponseHeader(<<>>) = Response("NO_COMMAND", "UNKNOWN_R", 0, <<>>)
    BY <1>1, <1>2, StrtokEnd DEF getResponseHeader
  <1>5. strtok(OKResponse, {SP}).token = <<"OK">> /\ strtok(KOResponse, {SP}).token = <<"KO">>
    BY <1>0, <1>2, <1>3, StrtokWord
  <1>6. strtok(KOMessage, {SP}).token = <<"KO">>
    BY <1>0, <1>2, <1>3, StrtokWord
  <1>7. ASSUME NEW t \in Seq(S), NEW w \in {"OK", "KO"}, strtok(t, {SP}).token = <<w>>
        PROVE  getResponseHeader(t) = Response("NO_MSG_ERROR", w, 0, <<>>)
    <2>1. /\ strtok(t, {SP}).token # <<>> /\ strtok(t, {SP}).token \in {<<"OK">>, <<"KO">>}
          /\ Head(strtok(t, {SP}).token) = w
      <3>1. strtok(t, {SP}).token \in {<<"OK">>, <<"KO">>}
        BY <1>7, Zenon
      <3>2. <<w>> # <<>> /\ Head(<<w>>) = w
        OBVIOUS
      <3>3. QED
        BY <1>7, <3>1, <3>2
    <2>2. QED
      BY <1>1, <2>1 DEF getResponseHeader
  <1>8. QED
    BY <1>2, <1>4, <1>5, <1>6, <1>7

\* The library understands a response with any data after it, up to the first NUL.
LEMMA DataAreUnderstood ==
  ASSUME NEW len \in DOMAIN Decimal, NEW S, NEW d \in Seq(S)
  PROVE  getResponseHeader(DataHeader(len) \o d)
         = Response("NO_MSG_ERROR", "DATA", len, CString(d))
  <1>a. PICK n, c : n = Decimal[len] /\ c = CString(d)
    OBVIOUS
  <1> DEFINE T == S \cup {"DATA", n, SP, NL}
             h == DataHeader(len)
             t == h \o c
             From(k) == SubSeq(t, k, Len(t))
  <1>1. h = <<"DATA", SP, n, SP, NL, SP>> /\ h \in Seq(T)
    BY <1>a DEF DataHeader
  <1>2. /\ n # SP /\ n # NUL
        /\ "DATA" # SP /\ "DATA" # NUL /\ NL # SP /\ NL # NUL /\ SP # NUL
    BY <1>a, WordsAssumption DEF SP, NL, NUL
  <1>3. d \in Seq(T) /\ c \in Seq(T)
    <2>1. d \in Seq(T)
      OBVIOUS
    <2> HIDE DEF T
    <2>2. QED
      BY <1>a, <2>1, CStringIsPrefix
  <1>4. CString(h \o d) = t
    <2>1. ~Contains(h, NUL)
      BY <1>1, <1>2 DEF Contains
    <2> HIDE DEF T, h
    <2>2. QED
      BY <1>1, <1>3, <1>a, <2>1, CStringAfter
  <1>5. /\ Len(h) = 6 /\ h[1] = "DATA" /\ h[2] = SP /\ h[3] = n /\ h[4] = SP
        /\ h[5] = NL /\ h[6] = SP
    BY <1>1
  <1> HIDE DEF T, h
  <1>6. /\ t \in Seq(T) /\ Len(t) = 6 + Len(c) /\ Len(c) \in Nat
        /\ \A k \in 1 .. 6 : t[k] = h[k]
    BY <1>1, <1>3, <1>5, ConcatProperties
  <1>7. From(7) = c /\ From(1) = t
    <2>1. From(Len(h) + 1) = c
      BY <1>1, <1>3, AfterText
    <2>2. From(1) = t
      <3> HIDE DEF t
      <3> QED BY <1>6
    <2>3. QED
      BY <1>5, <2>1, <2>2
  <1> HIDE DEF t
  <1>8. strtok(t, {SP}).token = <<"DATA">> /\ strtok(t, {SP}).rest = From(3)
    <2>1. /\ t \in Seq(T) /\ 1 + 1 <= Len(t) /\ 3 = 1 + 2 /\ 3 \in Nat /\ 1 \in Nat \ {0}
          /\ t[1] = "DATA" /\ "DATA" \in T
          /\ t[1 + 1] = SP
      BY <1>5, <1>6 DEF T
    <2>2. strtok(From(1), {SP}).token = <<t[1]>>
      BY <1>2, <2>1, StrtokAt
    <2>3. strtok(From(1), {SP}).rest = From(3)
      BY <1>2, <2>1, StrtokAt
    <2>4. <<t[1]>> = <<"DATA">>
      BY <2>1, Zenon
    <2> HIDE DEF From
    <2>5. QED
      BY <1>7, <2>1, <2>2, <2>3, <2>4
  <1>9. strtok(From(3), {SP}).token = <<n>> /\ strtok(From(3), {SP}).rest = From(5)
    <2>1. /\ t \in Seq(T) /\ 3 + 1 <= Len(t) /\ 5 = 3 + 2 /\ 5 \in Nat /\ 3 \in Nat \ {0}
          /\ t[3] = n /\ n \in T
          /\ t[3 + 1] = SP
      BY <1>5, <1>6 DEF T
    <2>2. strtok(From(3), {SP}).token = <<t[3]>>
      BY <1>2, <2>1, StrtokAt
    <2>3. strtok(From(3), {SP}).rest = From(5)
      BY <1>2, <2>1, StrtokAt
    <2>4. <<t[3]>> = <<n>>
      BY <2>1, Zenon
    <2> HIDE DEF From
    <2>5. QED
      BY <2>1, <2>2, <2>3, <2>4
  <1>10. strtok(From(5), {SP}).rest = c
    <2>1. /\ t \in Seq(T) /\ 5 + 1 <= Len(t) /\ 7 = 5 + 2 /\ 7 \in Nat /\ 5 \in Nat \ {0}
          /\ t[5] = NL /\ t[5 + 1] = SP
      BY <1>5, <1>6
    <2>2. strtok(From(5), {SP}).rest = From(7)
      BY <1>2, <2>1, StrtokAt
    <2>3. QED
      BY <1>7, <2>2
  <1> HIDE DEF From
  <1>11. isNumber(<<n>>) = len /\ len # -1
    BY <1>a, LengthIsRead, DecimalAssumption
  <1>12. getResponseHeader(h \o d) = Response("NO_MSG_ERROR", "DATA", len, c)
    <2>1. <<"DATA">> # <<>> /\ <<"DATA">> \notin {<<"OK">>, <<"KO">>} /\ <<n>> # <<>>
      OBVIOUS
    <2>2. QED
      BY <1>4, <1>8, <1>9, <1>10, <1>11, <2>1 DEF getResponseHeader
  <1>13. QED
    BY <1>a, <1>12 DEF h

----------------------------------------------------------------------------
(* Tokens and lengths of any text, by their places in it.                   *)

\* A piece of a piece is a piece.
LEMMA PieceOfPiece ==
  ASSUME NEW S, NEW t \in Seq(S), NEW p \in Nat \ {0}, NEW i \in Nat \ {0}, NEW j \in Nat,
         NEW q \in Nat, q = p + i - 1, NEW r \in Nat, r = p + j - 1, r <= Len(t),
         NEW s, s = SubSeq(t, p, Len(t))
  PROVE  SubSeq(s, i, j) = SubSeq(t, q, r)
  <1> DEFINE a == SubSeq(s, i, j)
             b == SubSeq(t, q, r)
  <1>0. PICK l \in Nat : l = Len(t)
    OBVIOUS
  <1>1. CASE j < i
    <2>1. s \in Seq(S)
      BY <1>0
    <2>2. a \in Seq(S) /\ Len(a) = 0
      BY <1>1, <2>1
    <2>3. b \in Seq(S) /\ Len(b) = 0
      BY <1>0, <1>1
    <2> HIDE DEF a, b
    <2>4. a = b
      BY <2>2, <2>3, EmptySeq
    <2>5. QED
      BY <2>4 DEF a, b
  <1>2. CASE i <= j
    <2>1. s \in Seq(S) /\ Len(s) = l - p + 1 /\ \A k \in 1 .. Len(s) : s[k] = t[p + k - 1]
      BY <1>0, <1>2
    <2>2. j <= Len(s)
      BY <1>0, <2>1
    <2>3. a \in Seq(S) /\ Len(a) = j - i + 1 /\ \A k \in 1 .. j - i + 1 : a[k] = s[i + k - 1]
      BY <1>2, <2>1, <2>2
    <2>4. b \in Seq(S) /\ Len(b) = r - q + 1 /\ \A k \in 1 .. r - q + 1 : b[k] = t[q + k - 1]
      <3>1. q \in 1 .. Len(t) /\ r \in 1 .. Len(t) /\ q <= r
        BY <1>0, <1>2
      <3> HIDE DEF a
      <3>2. b \in Seq(S) /\ Len(b) = r - q + 1
        BY <3>1
      <3>3. ASSUME NEW k \in 1 .. r - q + 1 PROVE b[k] = t[q + k - 1]
        BY <3>1
      <3>4. QED
        BY <3>2, <3>3
    <2>5. r - q = j - i
      OBVIOUS
    <2> HIDE DEF a, b
    <2>6. \A k \in 1 .. Len(a) : a[k] = b[k]
      <3> SUFFICES ASSUME NEW k \in 1 .. j - i + 1 PROVE a[k] = b[k]
        BY <2>3
      <3>1. i + k - 1 \in 1 .. Len(s) /\ p + (i + k - 1) - 1 = q + k - 1
        BY <1>2, <2>1, <2>2
      <3>2. s[i + k - 1] = t[p + (i + k - 1) - 1]
        BY <2>1, <3>1
      <3>3. QED
        BY <2>3, <2>4, <2>5, <3>1, <3>2
    <2>7. a = b
      BY <2>3, <2>4, <2>5, <2>6, SeqEqual
    <2>8. QED
      BY <2>7 DEF a, b
  <1>3. QED
    BY <1>1, <1>2

\* What is left of a text starts at the first symbol that is no delimiter.
LEMMA SkipToFirst ==
  ASSUME NEW S, NEW s \in Seq(S), NEW delim
  PROVE  \/ Skip(s, delim) = <<>> /\ \A k \in 1 .. Len(s) : s[k] \in delim
         \/ \E f \in 1 .. Len(s) :
              /\ Skip(s, delim) = SubSeq(s, f, Len(s)) /\ s[f] \notin delim
              /\ \A k \in 1 .. f - 1 : s[k] \in delim
  <1> DEFINE I == {k \in 1 .. Len(s) : s[k] \notin delim}
  <1>0. Len(s) \in Nat
    OBVIOUS
  <1>1. Skip(s, delim) = IF I # {} THEN IF Min(I) = 0 THEN <<>> ELSE SubSeq(s, Min(I), Len(s))
                         ELSE <<>>
    BY DEF Skip, SelectInSeq
  <1>2. CASE I = {}
    BY <1>1, <1>2
  <1>3. CASE I # {}
    <2>1. Min(I) \in I /\ \A k \in I : Min(I) <= k
      <3>1. I \in SUBSET (1 .. Len(s))
        OBVIOUS
      <3> HIDE DEF I
      <3>2. QED
        BY <1>0, <1>3, <3>1, LeastNumber
    <2>2. PICK f \in I : f = Min(I)
      BY <2>1
    <2>3. \A k \in 1 .. f - 1 : k \notin I
      BY <1>0, <2>1, <2>2
    <2>4. f \in 1 .. Len(s) /\ s[f] \notin delim
      BY <2>2
    <2>5. \A k \in 1 .. f - 1 : s[k] \in delim
      BY <1>0, <2>3, <2>4
    <2>6. Skip(s, delim) = SubSeq(s, f, Len(s))
      <3> HIDE DEF I
      <3>1. f # 0
        BY <2>4
      <3>2. QED
        BY <1>1, <1>3, <2>2, <3>1
    <2>7. QED
      BY <2>4, <2>5, <2>6
  <1>4. QED
    BY <1>2, <1>3

\* The first token of a text is its first word, and what is left starts after the space
\* behind it.
LEMMA StrtokWhole ==
  ASSUME NEW S, NEW s \in Seq(S)
  PROVE  \/ /\ strtok(s, {SP}).token = <<>> /\ strtok(s, {SP}).rest = <<>>
            /\ \A k \in 1 .. Len(s) : s[k] = SP
         \/ \E a \in 1 .. Len(s), b \in 1 .. Len(s) :
              /\ a <= b /\ \A k \in 1 .. a - 1 : s[k] = SP
              /\ \A k \in a .. b : s[k] # SP
              /\ b = Len(s) \/ s[b + 1] = SP
              /\ strtok(s, {SP}).token = SubSeq(s, a, b)
              /\ strtok(s, {SP}).rest = SubSeq(s, b + 2, Len(s))
  <1> DEFINE t == Skip(s, {SP})
             J == {k \in 1 .. Len(t) : t[k] \in {SP}}
             Cut(u, K) ==
               IF K # {}
               THEN IF Min(K) = 0 THEN [token |-> u, rest |-> <<>>]
                    ELSE [token |-> SubSeq(u, 1, Min(K) - 1),
                          rest |-> SubSeq(u, Min(K) + 1, Len(u))]
               ELSE [token |-> u, rest |-> <<>>]
  <1>0. PICK l \in Nat : l = Len(s)
    OBVIOUS
  <1>1. strtok(s, {SP}) = Cut(t, J)
    BY DEF strtok, SelectInSeq
  <1>2. CASE t = <<>> /\ \A k \in 1 .. Len(s) : s[k] \in {SP}
    <2>1. J = {}
      BY <1>2
    <2>2. strtok(s, {SP}) = [token |-> <<>>, rest |-> <<>>]
      BY <1>1, <1>2, <2>1
    <2>3. QED
      BY <1>2, <2>2
  <1>3. ASSUME NEW a \in 1 .. Len(s), t = SubSeq(s, a, Len(s)), s[a] \notin {SP},
               \A k \in 1 .. a - 1 : s[k] \in {SP}
        PROVE  \E b \in 1 .. Len(s) :
                 /\ a <= b /\ \A k \in a .. b : s[k] # SP
                 /\ b = Len(s) \/ s[b + 1] = SP
                 /\ strtok(s, {SP}).token = SubSeq(s, a, b)
                 /\ strtok(s, {SP}).rest = SubSeq(s, b + 2, Len(s))
    <2> DEFINE u == SubSeq(s, a, Len(s))
    <2>0. /\ u \in Seq(S) /\ Len(u) = l - a + 1 /\ Len(u) \in Nat
          /\ \A k \in 1 .. Len(u) : u[k] = s[a + k - 1]
      BY <1>0
    <2>a. t = u
      BY <1>3
    <2> HIDE DEF t, u
    <2>1. /\ t \in Seq(S) /\ Len(t) = l - a + 1 /\ Len(t) \in Nat
          /\ \A k \in 1 .. Len(t) : t[k] = s[a + k - 1]
      BY <2>0, <2>a
    <2>b. t = SubSeq(s, a, Len(s))
      BY <2>a DEF u
    <2>2. CASE J = {}
      <3>1. strtok(s, {SP}) = [token |-> t, rest |-> <<>>]
        BY <1>1, <2>2
      <3>2. \A k \in a .. l : s[k] # SP
        <4> TAKE k \in a .. l
        <4>1. k - a + 1 \in 1 .. Len(t) /\ a + (k - a + 1) - 1 = k
          BY <1>0, <2>1
        <4>2. t[k - a + 1] = s[k]
          BY <2>1, <4>1
        <4>3. QED
          BY <2>2, <4>1, <4>2
      <3>3. SubSeq(s, l + 2, Len(s)) = <<>>
        BY <1>0
      <3>4. l \in 1 .. Len(s) /\ a <= l
        BY <1>0
      <3>5. strtok(s, {SP}).token = SubSeq(s, a, l) /\ strtok(s, {SP}).rest = SubSeq(s, l + 2, Len(s))
        <4>1. strtok(s, {SP}).token = t /\ strtok(s, {SP}).rest = <<>>
          BY <3>1
        <4>2. t = SubSeq(s, a, l)
          BY <1>0, <2>b
        <4>3. QED
          BY <3>3, <4>1, <4>2
      <3>6. QED
        BY <1>0, <3>2, <3>4, <3>5
    <2>3. CASE J # {}
      <3>1. Min(J) \in J /\ \A k \in J : Min(J) <= k
        <4>1. J \in SUBSET (1 .. Len(t))
          OBVIOUS
        <4> HIDE DEF J, t
        <4>2. QED
          BY <2>1, <2>3, <4>1, LeastNumber
      <3>2. PICK m \in J : m = Min(J)
        BY <3>1
      <3>3. m \in 1 .. Len(t) /\ t[m] = SP /\ m # 1
        <4>1. t[1] = s[a] /\ m \in 1 .. Len(t) /\ t[m] = SP
          <5>1. 1 \in 1 .. Len(t) /\ a + 1 - 1 = a
            BY <1>0, <2>1
          <5>2. t[1] = s[a]
            BY <2>1, <5>1
          <5>3. QED
            BY <3>2, <5>2
        <4>2. QED
          BY <1>3, <4>1
      <3>4. \A k \in 1 .. m - 1 : t[k] # SP
        <4> TAKE k \in 1 .. m - 1
        <4>1. k \in 1 .. Len(t) /\ ~(m <= k)
          BY <2>1, <3>3
        <4>2. QED
          BY <3>1, <3>2, <4>1
      <3> DEFINE b == a + m - 2
      <3>5. b \in 1 .. Len(s) /\ a <= b /\ b + 1 \in 1 .. Len(s) /\ b + 1 = a + m - 1
        BY <1>0, <2>1, <3>3
      <3>6. \A k \in a .. b : s[k] # SP
        <4> TAKE k \in a .. b
        <4>1. k - a + 1 \in 1 .. m - 1 /\ k - a + 1 \in 1 .. Len(t) /\ a + (k - a + 1) - 1 = k
          BY <1>0, <2>1, <3>3
        <4>2. t[k - a + 1] = s[k]
          BY <2>1, <4>1
        <4>3. QED
          BY <3>4, <4>1, <4>2
      <3>7. s[b + 1] = SP
        BY <2>1, <3>3, <3>5
      <3>8. strtok(s, {SP}) = [token |-> SubSeq(t, 1, m - 1), rest |-> SubSeq(t, m + 1, Len(t))]
        <4>1. m # 0
          BY <3>3
        <4> HIDE DEF t, J
        <4>2. Cut(t, J) = [token |-> SubSeq(t, 1, m - 1), rest |-> SubSeq(t, m + 1, Len(t))]
          BY <2>3, <3>2, <4>1
        <4>3. QED
          BY <1>1, <4>2
      <3>9. SubSeq(t, 1, m - 1) = SubSeq(s, a, b)
        <4>1. b = a + (m - 1) - 1 /\ b <= Len(s) /\ a = a + 1 - 1 /\ m - 1 \in Nat /\ b \in Nat
          BY <3>3, <3>5
        <4> HIDE DEF t, b
        <4>2. QED
          BY <2>b, <4>1, PieceOfPiece
      <3>10. SubSeq(t, m + 1, Len(t)) = SubSeq(s, b + 2, Len(s))
        <4>1. /\ b + 2 = a + (m + 1) - 1 /\ l = a + Len(t) - 1
              /\ m + 1 \in Nat \ {0} /\ b + 2 \in Nat /\ Len(t) \in Nat
          BY <1>0, <2>1, <3>3, <3>5
        <4>2. a \in Nat \ {0} /\ l <= Len(s)
          BY <1>0
        <4> HIDE DEF t, b
        <4>3. PICK i \in Nat \ {0} : i = m + 1
          BY <4>1
        <4>4. PICK j \in Nat, q \in Nat : j = Len(t) /\ q = b + 2
          BY <4>1
        <4>5. q = a + i - 1 /\ l = a + j - 1
          BY <4>1, <4>3, <4>4
        <4>6. SubSeq(t, i, j) = SubSeq(s, q, l)
          BY <2>b, <4>2, <4>5, PieceOfPiece
        <4>7. QED
          BY <1>0, <4>3, <4>4, <4>6
      <3> HIDE DEF b, t
      <3>11. strtok(s, {SP}).token = SubSeq(s, a, b) /\ strtok(s, {SP}).rest = SubSeq(s, b + 2, Len(s))
        <4> DEFINE x == SubSeq(s, a, b)
                   y == SubSeq(s, b + 2, Len(s))
        <4>1. strtok(s, {SP}) = [token |-> x, rest |-> y]
          BY <3>8, <3>9, <3>10
        <4> HIDE DEF x, y
        <4>2. strtok(s, {SP}).token = x /\ strtok(s, {SP}).rest = y
          BY <4>1
        <4>3. QED
          BY <4>2 DEF x, y
      <3>12. QED
        BY <3>5, <3>6, <3>7, <3>11
    <2>4. QED
      BY <2>2, <2>3
  <1>4. \/ t = <<>> /\ \A k \in 1 .. Len(s) : s[k] \in {SP}
        \/ \E f \in 1 .. Len(s) : /\ t = SubSeq(s, f, Len(s)) /\ s[f] \notin {SP}
                                  /\ \A k \in 1 .. f - 1 : s[k] \in {SP}
    <2>1. \A delim : \/ Skip(s, delim) = <<>> /\ \A k \in 1 .. Len(s) : s[k] \in delim
                     \/ \E f \in 1 .. Len(s) :
                          /\ Skip(s, delim) = SubSeq(s, f, Len(s)) /\ s[f] \notin delim
                          /\ \A k \in 1 .. f - 1 : s[k] \in delim
      BY SkipToFirst
    <2>2. QED
      BY <2>1
  <1>5. QED
    <2>1. CASE t = <<>> /\ \A k \in 1 .. Len(s) : s[k] \in {SP}
      BY <1>2, <2>1
    <2>2. ASSUME NEW a \in 1 .. Len(s), t = SubSeq(s, a, Len(s)), s[a] \notin {SP},
                 \A k \in 1 .. a - 1 : s[k] \in {SP}
          PROVE  \E x \in 1 .. Len(s), b \in 1 .. Len(s) :
                   /\ x <= b /\ \A k \in 1 .. x - 1 : s[k] = SP
                   /\ \A k \in x .. b : s[k] # SP
                   /\ b = Len(s) \/ s[b + 1] = SP
                   /\ strtok(s, {SP}).token = SubSeq(s, x, b)
                   /\ strtok(s, {SP}).rest = SubSeq(s, b + 2, Len(s))
      BY <1>3, <2>2
    <2>3. QED
      BY <1>4, <2>1, <2>2

\* The first token of s, the text from p on, by its places in the whole text.
TokenFrom(t, p, s) ==
    \/ /\ strtok(s, {SP}).token = <<>> /\ strtok(s, {SP}).rest = <<>>
       /\ \A k \in p .. Len(t) : t[k] = SP
    \/ \E i \in p .. Len(t), j \in p .. Len(t) :
         /\ i <= j /\ \A k \in p .. i - 1 : t[k] = SP
         /\ \A k \in i .. j : t[k] # SP
         /\ j = Len(t) \/ t[j + 1] = SP
         /\ strtok(s, {SP}).token = SubSeq(t, i, j)
         /\ strtok(s, {SP}).rest = SubSeq(t, j + 2, Len(t))

\* What a strtok on the text from p on returns.
LEMMA StrtokFrom ==
  ASSUME NEW S, NEW t \in Seq(S), NEW p \in Nat \ {0}, NEW s, s = SubSeq(t, p, Len(t))
  PROVE  TokenFrom(t, p, s)
  <1> USE DEF TokenFrom
  <1>0. PICK l \in Nat : l = Len(t)
    OBVIOUS
  <1>1. CASE p > l
    <2>1. s \in Seq(S) /\ Len(s) = 0
      BY <1>0, <1>1
    <2>2. s = <<>>
      BY <2>1, EmptySeq
    <2>3. QED
      BY <1>0, <1>1, <2>2, StrtokEnd
  <1>2. CASE p <= l
    <2>1. s \in Seq(S) /\ Len(s) = l - p + 1 /\ \A k \in 1 .. Len(s) : s[k] = t[p + k - 1]
      BY <1>0, <1>2
    <2>2. \A k \in p .. l : k - p + 1 \in 1 .. Len(s) /\ s[k - p + 1] = t[k]
      <3> TAKE k \in p .. l
      <3>1. k - p + 1 \in 1 .. Len(s) /\ p + (k - p + 1) - 1 = k
        BY <2>1
      <3>2. QED
        BY <2>1, <3>1
    <2>3. CASE /\ strtok(s, {SP}).token = <<>> /\ strtok(s, {SP}).rest = <<>>
               /\ \A k \in 1 .. Len(s) : s[k] = SP
      BY <1>0, <2>2, <2>3
    <2>4. ASSUME NEW a \in 1 .. Len(s), NEW b \in 1 .. Len(s),
                 a <= b, \A k \in 1 .. a - 1 : s[k] = SP,
                 \A k \in a .. b : s[k] # SP,
                 b = Len(s) \/ s[b + 1] = SP,
                 strtok(s, {SP}).token = SubSeq(s, a, b),
                 strtok(s, {SP}).rest = SubSeq(s, b + 2, Len(s))
          PROVE  \E i \in p .. Len(t), j \in p .. Len(t) :
                   /\ i <= j /\ \A k \in p .. i - 1 : t[k] = SP
                   /\ \A k \in i .. j : t[k] # SP
                   /\ j = Len(t) \/ t[j + 1] = SP
                   /\ strtok(s, {SP}).token = SubSeq(t, i, j)
                   /\ strtok(s, {SP}).rest = SubSeq(t, j + 2, Len(t))
      <3>1. p + a - 1 \in p .. l /\ p + b - 1 \in p .. l /\ a \in Nat \ {0} /\ b \in Nat \ {0}
        BY <2>1
      <3>2. PICK i \in p .. l, j \in p .. l : i = p + a - 1 /\ j = p + b - 1
        BY <3>1
      <3>3. i <= j
        BY <2>4, <3>1, <3>2
      <3>4. \A k \in p .. i - 1 : t[k] = SP
        <4> TAKE k \in p .. i - 1
        <4>1. k \in p .. l /\ k - p + 1 \in 1 .. a - 1
          BY <3>1, <3>2
        <4>2. QED
          BY <2>2, <2>4, <4>1
      <3>5. \A k \in i .. j : t[k] # SP
        <4> TAKE k \in i .. j
        <4>1. k \in p .. l /\ k - p + 1 \in a .. b
          BY <3>1, <3>2
        <4>2. QED
          BY <2>2, <2>4, <4>1
      <3>6. j = l \/ t[j + 1] = SP
        <4>1. CASE b = Len(s)
          BY <2>1, <3>2, <4>1
        <4>2. CASE b # Len(s)
          <5>0. b \in Nat /\ b < l - p + 1 /\ j \in Nat /\ j = p + b - 1
            BY <2>1, <3>1, <3>2, <4>2
          <5>1. j + 1 \in p .. l /\ (j + 1) - p + 1 = b + 1
            BY <5>0
          <5>2. QED
            BY <2>2, <2>4, <4>2, <5>1
        <4>3. QED
          BY <4>1, <4>2
      <3>7. SubSeq(s, a, b) = SubSeq(t, i, j)
        <4>1. i \in Nat /\ j \in Nat /\ j <= Len(t) /\ b \in Nat
          BY <1>0, <3>1
        <4>2. QED
          BY <3>1, <3>2, <4>1, PieceOfPiece
      <3>8. SubSeq(s, b + 2, Len(s)) = SubSeq(t, j + 2, Len(t))
        <4>0. b + 2 \in Nat \ {0} /\ Len(s) \in Nat /\ j + 2 \in Nat
          BY <1>0, <2>1, <3>1
        <4>1. PICK x \in Nat \ {0}, y \in Nat, q \in Nat : x = b + 2 /\ y = Len(s) /\ q = j + 2
          BY <4>0
        <4>2. q = p + x - 1 /\ l = p + y - 1 /\ l <= Len(t)
          BY <1>0, <2>1, <3>1, <3>2, <4>1
        <4>3. SubSeq(s, x, y) = SubSeq(t, q, l)
          BY <4>2, PieceOfPiece
        <4>4. QED
          BY <1>0, <4>1, <4>3
      <3>9. QED
        BY <1>0, <2>4, <3>3, <3>4, <3>5, <3>6, <3>7, <3>8
    <2>5. \/ /\ strtok(s, {SP}).token = <<>> /\ strtok(s, {SP}).rest = <<>>
             /\ \A k \in 1 .. Len(s) : s[k] = SP
          \/ \E a \in 1 .. Len(s), b \in 1 .. Len(s) :
               /\ a <= b /\ \A k \in 1 .. a - 1 : s[k] = SP
               /\ \A k \in a .. b : s[k] # SP
               /\ b = Len(s) \/ s[b + 1] = SP
               /\ strtok(s, {SP}).token = SubSeq(s, a, b)
               /\ strtok(s, {SP}).rest = SubSeq(s, b + 2, Len(s))
      BY <2>1, StrtokWhole
    <2>6. QED
      BY <2>3, <2>4, <2>5
  <1>3. p > l \/ p <= l
    OBVIOUS
  <1>4. QED
    BY <1>1, <1>2, <1>3, Zenon

\* A length is read from newlines and the digits, and only from them.
LEMMA NumberIsRead ==
  ASSUME NEW S, NEW s \in Seq(S), s # <<>>
  PROVE  /\ \A n \in DOMAIN Decimal :
             Last(s) = Decimal[n] /\ (\A k \in 1 .. Len(s) - 1 : s[k] = NL)
             <=> isNumber(s) = n
         /\ isNumber(s) # -1 => isNumber(s) \in DOMAIN Decimal
  <1> DEFINE is == {n \in DOMAIN Decimal : Skip(s, {NL}) = <<Decimal[n]>>}
             Is(n) == Last(s) = Decimal[n] /\ \A k \in 1 .. Len(s) - 1 : s[k] = NL
  <1>0. PICK l \in Nat : l = Len(s)
    OBVIOUS
  <1>1. l # 0
    BY <1>0, EmptySeq
  <1>2. Last(s) = s[l]
    BY <1>0 DEF Last
  <1>3. \A n \in DOMAIN Decimal : Decimal[n] # NL
    BY WordsAssumption
  <1>4. \A n \in DOMAIN Decimal : Skip(s, {NL}) = <<Decimal[n]>> <=> Is(n)
    <2>1. CASE Skip(s, {NL}) = <<>> /\ \A k \in 1 .. Len(s) : s[k] \in {NL}
      <3>1. \A n : <<>> # <<Decimal[n]>>
        OBVIOUS
      <3>2. s[l] = NL
        BY <1>0, <1>1, <2>1
      <3>3. QED
        BY <1>2, <1>3, <2>1, <3>1, <3>2
    <2>2. ASSUME NEW f \in 1 .. Len(s), Skip(s, {NL}) = SubSeq(s, f, Len(s)), s[f] \notin {NL},
                 \A k \in 1 .. f - 1 : s[k] \in {NL}
          PROVE  \A n \in DOMAIN Decimal : Skip(s, {NL}) = <<Decimal[n]>> <=> Is(n)
      <3> DEFINE x == SubSeq(s, f, Len(s))
      <3>1. x \in Seq(S) /\ Len(x) = l - f + 1 /\ x[1] = s[f]
        BY <1>0
      <3> HIDE DEF x
      <3>2. x = Skip(s, {NL})
        BY <2>2 DEF x
      <3>3. CASE f = l
        <4>1. Len(x) = 1 /\ x[1] = s[l]
          BY <1>0, <3>1, <3>3
        <4>2. \A n \in DOMAIN Decimal : x = <<Decimal[n]>> <=> s[l] = Decimal[n]
          BY <3>1, <4>1
        <4>3. \A k \in 1 .. Len(s) - 1 : s[k] = NL
          BY <1>0, <2>2, <3>3
        <4>4. QED
          BY <1>2, <3>2, <4>2, <4>3
      <3>4. CASE f # l
        <4>1. f \in 1 .. Len(s) - 1 /\ Len(x) # 1
          BY <1>0, <2>2, <3>1, <3>4
        <4>2. \A n : x # <<Decimal[n]>>
          BY <4>1
        <4>3. QED
          BY <2>2, <3>2, <4>1, <4>2
      <3>5. QED
        BY <3>3, <3>4
    <2>3. \A delim : \/ Skip(s, delim) = <<>> /\ \A k \in 1 .. Len(s) : s[k] \in delim
                     \/ \E f \in 1 .. Len(s) :
                          /\ Skip(s, delim) = SubSeq(s, f, Len(s)) /\ s[f] \notin delim
                          /\ \A k \in 1 .. f - 1 : s[k] \in delim
      BY SkipToFirst
    <2>4. \/ Skip(s, {NL}) = <<>> /\ \A k \in 1 .. Len(s) : s[k] \in {NL}
          \/ \E f \in 1 .. Len(s) :
               /\ Skip(s, {NL}) = SubSeq(s, f, Len(s)) /\ s[f] \notin {NL}
               /\ \A k \in 1 .. f - 1 : s[k] \in {NL}
      BY <2>3
    <2> HIDE DEF Is
    <2>5. QED
      BY <2>1, <2>2, <2>4
  <1>5. isNumber(s) = IF is = {} THEN -1 ELSE CHOOSE n \in is : TRUE
    BY DEF isNumber
  <1>6. \A n \in is : is = {n}
    BY <1>4, DecimalAssumption
  <1>7. \A n \in DOMAIN Decimal : n # -1
    BY DecimalAssumption
  <1>8. \A n \in DOMAIN Decimal : n \in is <=> Is(n)
    BY <1>4
  <1>9. is \subseteq DOMAIN Decimal
    OBVIOUS
  <1> HIDE DEF is, Is
  <1>10. CASE is = {}
    BY <1>5, <1>7, <1>8, <1>10 DEF Is
  <1>11. CASE is # {}
    <2>1. PICK m \in is : is = {m}
      BY <1>6, <1>11
    <2>2. isNumber(s) = m
      BY <1>5, <2>1
    <2>3. QED
      BY <1>8, <1>9, <2>1, <2>2 DEF Is
  <1>12. QED
    BY <1>10, <1>11

=============================================================================
