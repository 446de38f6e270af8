------------------------- MODULE HeaderParsing_proofs ------------------------
(***************************************************************************)
(* What the parsers make of a message is what was written, for any names,  *)
(* lengths and data; and the server accepts no text that spells no request.*)
(***************************************************************************)
EXTENDS HeaderParsing, Messages_proofs

AnySymbol == Symbols \cup Commands \cup {"OK", "KO", "DATA", "message"}

\* The buffer holds symbols.
TypesInv == buffer \in Seq(AnySymbol)

\* A request is a text.
LEMMA RequestsAreTexts ==
  ASSUME NEW cmd \in Commands, NEW name \in Names, NEW len \in Lengths
  PROVE  RequestHeader(cmd, name, len) \in Seq(AnySymbol)
  <1>1. PICK n \in AnySymbol : n = Decimal[len]
    BY DEF AnySymbol, Symbols
  <1>2. cmd \in AnySymbol /\ name \in AnySymbol /\ SP \in AnySymbol /\ NL \in AnySymbol
    BY DEF AnySymbol, Symbols
  <1>3. CASE cmd = "LEAVE"
    BY <1>2, <1>3 DEF RequestHeader
  <1>4. CASE cmd = "STORE"
    <2>1. RequestHeader(cmd, name, len) = <<cmd, SP, name, SP, n, SP, NL, SP>>
      BY <1>1, <1>4 DEF RequestHeader
    <2>2. QED
      BY <1>1, <1>2, <2>1
  <1>5. CASE cmd \notin {"LEAVE", "STORE"}
    <2>1. RequestHeader(cmd, name, len) = <<cmd, SP, name, SP, NL>>
      BY <1>5 DEF RequestHeader
    <2>2. QED
      BY <1>2, <2>1
  <1>6. QED
    BY <1>3, <1>4, <1>5

\* So is a response.
LEMMA ResponsesAreTexts ==
  /\ {OKResponse, KOResponse, KOMessage} \subseteq Seq(AnySymbol)
  /\ \A len \in Lengths : DataHeader(len) \in Seq(AnySymbol)
  <1>1. {"OK", "KO", "DATA", "message", SP, NL} \subseteq AnySymbol
    BY DEF AnySymbol, Symbols
  <1>2. OKResponse \in Seq(AnySymbol) /\ KOResponse \in Seq(AnySymbol)
    BY <1>1 DEF OKResponse, KOResponse
  <1>3. KOMessage \in Seq(AnySymbol)
    BY <1>1 DEF KOMessage
  <1>4. ASSUME NEW len \in Lengths PROVE DataHeader(len) \in Seq(AnySymbol)
    <2>1. PICK n \in AnySymbol : n = Decimal[len]
      BY DEF AnySymbol, Symbols
    <2>2. DataHeader(len) = <<"DATA", SP, n, SP, NL, SP>>
      BY <2>1 DEF DataHeader
    <2>3. QED
      BY <1>1, <2>1, <2>2
  <1>5. QED
    BY <1>2, <1>3, <1>4

\* The buffer is a text at every moment.
THEOREM TypesCorrect == Spec => []TypesInv
  <1>1. Init => TypesInv
    <2> SUFFICES ASSUME Init PROVE TypesInv
      OBVIOUS
    <2>1. CASE buffer = <<>>
      BY <2>1 DEF TypesInv
    <2>2. CASE buffer \in {RequestHeader(cmd, name, len) :
                           cmd \in Commands, name \in Names, len \in Lengths}
      BY <2>2, RequestsAreTexts DEF TypesInv
    <2>3. CASE buffer \in {OKResponse, KOResponse, KOMessage}
      BY <2>3, ResponsesAreTexts DEF TypesInv
    <2>4. CASE buffer \in {DataHeader(len) : len \in Lengths}
      BY <2>4, ResponsesAreTexts DEF TypesInv
    <2>5. QED
      BY <2>1, <2>2, <2>3, <2>4 DEF Init, Headers
  <1>2. TypesInv /\ [Next]_buffer => TypesInv'
    <2> SUFFICES ASSUME TypesInv, [Next]_buffer PROVE TypesInv'
      OBVIOUS
    <2>1. CASE Next
      <3>1. PICK x \in Symbols : buffer' = Append(buffer, x)
        BY <2>1 DEF Next
      <3>2. x \in AnySymbol
        BY DEF AnySymbol
      <3> HIDE DEF AnySymbol
      <3>3. QED
        BY <3>1, <3>2 DEF TypesInv
    <2>2. CASE UNCHANGED buffer
      BY <2>2 DEF TypesInv
    <2>3. QED
      BY <2>1, <2>2
  <1>3. QED
    BY <1>1, <1>2, PTL DEF Spec

\* A buffer that starts with a header is the header and what follows it.
LEMMA HeaderAndRest ==
  ASSUME TypesInv, NEW h \in Seq(AnySymbol), IsPrefix(h, buffer)
  PROVE  After(h) \in Seq(AnySymbol) /\ buffer = h \o After(h)
  <1> DEFINE r == After(h)
             t == h \o r
  <1>1. buffer \in Seq(AnySymbol) /\ Len(buffer) \in Nat /\ Len(h) \in Nat
    BY DEF TypesInv
  <1>2. Len(h) <= Len(buffer) /\ SubSeq(h, 1, Len(h)) = SubSeq(buffer, 1, Len(h))
    BY DEF IsPrefix
  <1>3. \A i \in 1 .. Len(h) : h[i] = buffer[i]
    <2>1. \A i \in 1 .. Len(h) : SubSeq(h, 1, Len(h))[i] = h[i]
      BY <1>1
    <2>2. \A i \in 1 .. Len(h) : SubSeq(buffer, 1, Len(h))[i] = buffer[i]
      BY <1>1, <1>2
    <2>3. QED
      BY <1>2, <2>1, <2>2
  <1>4. /\ r \in Seq(AnySymbol) /\ Len(r) = Len(buffer) - Len(h)
        /\ \A i \in 1 .. Len(buffer) - Len(h) : r[i] = buffer[Len(h) + i]
    BY <1>1, <1>2 DEF After
  <1> HIDE DEF r
  <1>5. /\ t \in Seq(AnySymbol) /\ Len(t) = Len(h) + Len(r)
        /\ \A i \in 1 .. Len(h) + Len(r) : t[i] = IF i <= Len(h) THEN h[i] ELSE r[i - Len(h)]
    BY <1>4, ConcatProperties
  <1> HIDE DEF t
  <1>6. \A i \in 1 .. Len(buffer) : buffer[i] = t[i]
    <2> SUFFICES ASSUME NEW i \in 1 .. Len(buffer) PROVE buffer[i] = t[i]
      OBVIOUS
    <2>1. CASE i <= Len(h)
      BY <1>1, <1>3, <1>4, <1>5, <2>1
    <2>2. CASE ~(i <= Len(h))
      <3>1. i - Len(h) \in 1 .. Len(buffer) - Len(h) /\ Len(h) + (i - Len(h)) = i
        BY <1>1, <2>2
      <3>2. r[i - Len(h)] = buffer[Len(h) + (i - Len(h))]
        BY <1>4, <3>1
      <3>3. QED
        BY <1>1, <1>4, <1>5, <2>2, <3>1, <3>2
    <2>3. QED
      BY <2>1, <2>2
  <1>7. buffer = t
    <2>1. Len(buffer) = Len(t)
      BY <1>1, <1>4, <1>5
    <2>2. QED
      BY <1>1, <1>5, <1>6, <2>1, SeqEqual
  <1>8. QED
    BY <1>4, <1>7 DEF t, r

\* The server understands every request of the library, for any names, lengths and
\* data without a NUL byte.
THEOREM RequestsUnderstoodCorrect == Spec => []RequestsUnderstood
  <1>1. ASSUME TypesInv PROVE RequestsUnderstood
    <2> SUFFICES ASSUME NEW name \in Names \ LongNames, NEW len \in Lengths
                 PROVE  /\ \A cmd \in Commands \ {"STORE", "LEAVE"} :
                             buffer = RequestHeader(cmd, name, len)
                             => parseRequestHeader(buffer)
                                = Parsed("NO_MSG_ERROR", cmd, <<name>>, 0, <<>>)
                        /\ LET h == RequestHeader("STORE", name, len) IN
                             IsPrefix(h, buffer) /\ ~Contains(After(h), NUL)
                             /\ Len(After(h)) <= len
                             => parseRequestHeader(buffer)
                                = Parsed("NO_MSG_ERROR", "STORE", <<name>>, len, After(h))
                        /\ buffer = RequestHeader("LEAVE", name, len)
                             => parseRequestHeader(buffer)
                                = Parsed("NO_MSG_ERROR", "LEAVE", <<>>, 0, <<>>)
      BY DEF RequestsUnderstood
    <2>1. ASSUME NEW cmd \in {"REGISTER", "RETRIEVE", "DELETE"}
          PROVE  parseRequestHeader(RequestHeader(cmd, name, len))
                 = Parsed("NO_MSG_ERROR", cmd, <<name>>, 0, <<>>)
      BY RequestIsUnderstood
    <2>2. ASSUME NEW cmd \in Commands \ {"STORE", "LEAVE"},
                 buffer = RequestHeader(cmd, name, len)
          PROVE  parseRequestHeader(buffer) = Parsed("NO_MSG_ERROR", cmd, <<name>>, 0, <<>>)
      <3>1. cmd \in {"REGISTER", "RETRIEVE", "DELETE"}
        BY DEF Commands
      <3> HIDE DEF Parsed
      <3>2. QED
        BY <2>1, <2>2, <3>1, Zenon
    <2> DEFINE h == RequestHeader("STORE", name, len)
               d == After(h)
    <2>3. ASSUME IsPrefix(h, buffer), ~Contains(d, NUL), Len(d) <= len
          PROVE  parseRequestHeader(buffer) = Parsed("NO_MSG_ERROR", "STORE", <<name>>, len, d)
      <3>1. h \in Seq(AnySymbol)
        BY RequestsAreTexts DEF Commands
      <3> HIDE DEF h
      <3>2. d \in Seq(AnySymbol) /\ buffer = h \o d
        BY <1>1, <2>3, <3>1, HeaderAndRest
      <3> HIDE DEF d
      <3>3. CString(d) = d
        BY <2>3, <3>2, CStringIsPrefix
      <3>4. name \in Names /\ name \notin LongNames /\ len \in DOMAIN Decimal
        BY LengthsAssumption
      <3>5. parseRequestHeader(RequestHeader("STORE", name, len) \o d)
            = Parsed("NO_MSG_ERROR", "STORE", <<name>>, len, CString(d))
        BY <2>3, <3>2, <3>4, StoreIsUnderstood
      <3>6. QED
        BY <3>2, <3>3, <3>5 DEF h
    <2>4. parseRequestHeader(RequestHeader("LEAVE", name, len))
          = Parsed("NO_MSG_ERROR", "LEAVE", <<>>, 0, <<>>)
      BY LeaveIsUnderstood
    <2>5. QED
      BY <2>2, <2>3, <2>4
  <1>2. QED
    BY <1>1, TypesCorrect, PTL

\* The library understands every response of the server, for any length and any data
\* without a NUL byte.
THEOREM ResponsesUnderstoodCorrect == Spec => []ResponsesUnderstood
  <1>1. ASSUME TypesInv PROVE ResponsesUnderstood
    <2>1. ASSUME NEW len \in Lengths, IsPrefix(DataHeader(len), buffer),
                 ~Contains(After(DataHeader(len)), NUL)
          PROVE  getResponseHeader(buffer)
                 = Response("NO_MSG_ERROR", "DATA", len, After(DataHeader(len)))
      <3> DEFINE h == DataHeader(len)
                 d == After(h)
      <3>1. h \in Seq(AnySymbol)
        BY ResponsesAreTexts
      <3> HIDE DEF h
      <3>2. d \in Seq(AnySymbol) /\ buffer = h \o d
        BY <1>1, <2>1, <3>1, HeaderAndRest DEF h
      <3> HIDE DEF d
      <3>3. CString(d) = d
        BY <2>1, <3>2, CStringIsPrefix DEF d, h
      <3>4. len \in DOMAIN Decimal
        BY LengthsAssumption
      <3>5. getResponseHeader(DataHeader(len) \o d)
            = Response("NO_MSG_ERROR", "DATA", len, CString(d))
        BY <3>2, <3>4, DataAreUnderstood
      <3>6. QED
        BY <3>2, <3>3, <3>5 DEF h, d
    <2>2. QED
      BY <2>1, ShortResponses DEF ResponsesUnderstood
  <1>2. QED
    BY <1>1, TypesCorrect, PTL

----------------------------------------------------------------------------
(* The tokens of a text are its words, whatever the text.                   *)

\* Before a place no word goes on.
Boundary(t, p) == p = 1 \/ p > Len(t) \/ t[p - 1] = SP

\* A word is no space, and ends where there is one or the text ends.
LEMMA WordsAre ==
  ASSUME NEW S, NEW t \in Seq(S), NEW w \in WordsOf(t)
  PROVE  /\ w[1] \in 1 .. Len(t) /\ w[2] \in 1 .. Len(t) /\ w = <<w[1], w[2]>>
         /\ w[1] <= w[2] /\ \A k \in w[1] .. w[2] : t[k] # SP
         /\ w[1] = 1 \/ t[w[1] - 1] = SP
         /\ w[2] = Len(t) \/ t[w[2] + 1] = SP
  BY DEF WordsOf

\* Two words that start at one place are one.
LEMMA WordsDiffer ==
  ASSUME NEW S, NEW t \in Seq(S), NEW v \in WordsOf(t), NEW w \in WordsOf(t), v[1] = w[1]
  PROVE  v = w
  <1>0. PICK l \in Nat : l = Len(t)
    OBVIOUS
  <1>1. \A x, y \in WordsOf(t) : x[1] = y[1] => ~(x[2] < y[2])
    <2> SUFFICES ASSUME NEW x \in WordsOf(t), NEW y \in WordsOf(t), x[1] = y[1], x[2] < y[2]
                 PROVE  FALSE
      OBVIOUS
    <2>1. /\ x[1] \in 1 .. l /\ x[2] \in 1 .. l /\ x[1] <= x[2]
          /\ x[2] = l \/ t[x[2] + 1] = SP
      BY <1>0, WordsAre
    <2>2. y[2] \in 1 .. l /\ \A k \in y[1] .. y[2] : t[k] # SP
      BY <1>0, WordsAre
    <2>3. x[2] + 1 \in y[1] .. y[2]
      BY <2>1, <2>2
    <2>4. QED
      BY <2>1, <2>2, <2>3
  <1>2. v[2] \in 1 .. l /\ w[2] \in 1 .. l /\ v = <<v[1], v[2]>> /\ w = <<w[1], w[2]>>
    BY <1>0, WordsAre
  <1>3. v[2] = w[2]
    BY <1>1, <1>2
  <1>4. QED
    BY <1>2, <1>3

\* There are finitely many words.
LEMMA WordsFinite ==
  ASSUME NEW S, NEW t \in Seq(S)
  PROVE  IsFiniteSet(WordsOf(t))
  <1>1. IsFiniteSet(1 .. Len(t))
    BY FS_Interval
  <1>2. IsFiniteSet((1 .. Len(t)) \X (1 .. Len(t)))
    BY <1>1, FS_Product
  <1>3. WordsOf(t) \subseteq (1 .. Len(t)) \X (1 .. Len(t))
    BY DEF WordsOf
  <1>4. QED
    BY <1>2, <1>3, FS_Subset

\* The words of a text that start before a place.
WordsBefore(t, p) == {u \in WordsOf(t) : u[1] < p}

\* They are finitely many, and more behind each word.
LEMMA WordsCounted ==
  ASSUME NEW S, NEW t \in Seq(S)
  PROVE  /\ \A p : IsFiniteSet(WordsBefore(t, p)) /\ Cardinality(WordsBefore(t, p)) \in Nat
         /\ \A v \in WordsOf(t), p \in Nat : v[1] < p =>
              Cardinality(WordsBefore(t, v[1])) < Cardinality(WordsBefore(t, p))
  <1>1. ASSUME NEW p
        PROVE  IsFiniteSet(WordsBefore(t, p)) /\ Cardinality(WordsBefore(t, p)) \in Nat
    <2>1. WordsBefore(t, p) \subseteq WordsOf(t)
      BY DEF WordsBefore
    <2>2. IsFiniteSet(WordsBefore(t, p))
      BY <2>1, WordsFinite, FS_Subset
    <2>3. QED
      BY <2>2, FS_CardinalityType
  <1>2. ASSUME NEW v \in WordsOf(t), NEW p \in Nat, v[1] < p
        PROVE  Cardinality(WordsBefore(t, v[1])) < Cardinality(WordsBefore(t, p))
    <2> DEFINE A == WordsBefore(t, v[1])
               B == WordsBefore(t, p)
    <2>1. v[1] \in 1 .. Len(t) /\ \A u \in WordsOf(t) : u[1] \in 1 .. Len(t)
      BY WordsAre
    <2>2. A \subseteq B
      BY <1>2, <2>1 DEF WordsBefore
    <2>3. v \in B /\ v \notin A
      BY <1>2, <2>1 DEF WordsBefore
    <2>4. IsFiniteSet(A) /\ IsFiniteSet(B) /\ Cardinality(A) \in Nat /\ Cardinality(B) \in Nat
      BY <1>1
    <2> HIDE DEF A, B
    <2>5. Cardinality(A) <= Cardinality(B) /\ (Cardinality(A) = Cardinality(B) => A = B)
      BY <2>2, <2>4, FS_Subset
    <2>6. Cardinality(A) < Cardinality(B)
      BY <2>3, <2>4, <2>5
    <2>7. QED
      BY <2>6 DEF A, B
  <1>3. QED
    BY <1>1, <1>2

\* The n-th word of a text is the one that has n - 1 before it.
LEMMA NthIs ==
  ASSUME NEW S, NEW t \in Seq(S), NEW n \in Nat \ {0}
  PROVE  /\ \A v \in WordsOf(t) : Cardinality(WordsBefore(t, v[1])) = n - 1
                                  => Nth(t, n) = {SubSeq(t, v[1], v[2])}
         /\ (\A v \in WordsOf(t) : Cardinality(WordsBefore(t, v[1])) # n - 1)
            => Nth(t, n) = {}
  <1> DEFINE N == {v \in WordsOf(t) : Cardinality(WordsBefore(t, v[1])) = n - 1}
  <1>1. Nth(t, n) = UNION {{SubSeq(t, v[1], v[2])} : v \in N}
    BY DEF Nth, WordsBefore
  <1>2. ASSUME NEW v \in N, NEW w \in N PROVE v = w
    <2>1. v[1] \in Nat /\ w[1] \in Nat
      BY WordsAre
    <2>2. Cardinality(WordsBefore(t, v[1])) = Cardinality(WordsBefore(t, w[1]))
      OBVIOUS
    <2>3. Cardinality(WordsBefore(t, v[1])) \in Nat
      BY WordsCounted
    <2>4. ~(v[1] < w[1]) /\ ~(w[1] < v[1])
      BY <2>1, <2>2, <2>3, WordsCounted
    <2>5. v[1] = w[1]
      BY <2>1, <2>4
    <2>6. QED
      BY <2>5, WordsDiffer
  <1>3. ASSUME NEW v \in N PROVE Nth(t, n) = {SubSeq(t, v[1], v[2])}
    <2> HIDE DEF N
    <2>1. N = {v}
      BY <1>2
    <2>2. QED
      BY <1>1, <2>1
  <1>4. N = {} => Nth(t, n) = {}
    <2> HIDE DEF N
    <2>1. QED
      BY <1>1
  <1>5. QED
    BY <1>3, <1>4

\* n words end before p, or all do and they are fewer.
Behind(t, p, n) ==
    /\ p \in Nat \ {0} /\ Boundary(t, p)
    /\ \/ Cardinality(WordsBefore(t, p)) = n
       \/ Cardinality(WordsBefore(t, p)) < n /\ \A w \in WordsOf(t) : w[1] < p

\* The token that starts behind n words is the next word.
NextWord(t, n, token) == Nth(t, n + 1) = IF token = <<>> THEN {} ELSE {token}

\* What is left behind a word is the text but the word and the space after it.
LengthOfRest(t, n, rest) ==
    \A len \in Nat :
        Len(rest) <= len
        <=> \A v \in WordsOf(t) :
                Cardinality(WordsBefore(t, v[1])) = n => Len(t) - v[2] - 1 <= len

\* s is what is left of t behind n words.
LeftBehind(t, n, s) == \E p : Behind(t, p, n) /\ s = SubSeq(t, p, Len(t))

\* One strtok goes from behind n words to behind the next.
LEMMA StrtokSteps ==
  ASSUME NEW S, NEW t \in Seq(S), NEW n \in Nat, NEW s, LeftBehind(t, n, s)
  PROVE  /\ NextWord(t, n, strtok(s, {SP}).token)
         /\ LengthOfRest(t, n, strtok(s, {SP}).rest)
         /\ strtok(s, {SP}).token \in Seq(S)
         /\ LeftBehind(t, n + 1, strtok(s, {SP}).rest)
  <1>p. PICK p : Behind(t, p, n) /\ s = SubSeq(t, p, Len(t))
    BY DEF LeftBehind
  <1>0. PICK l \in Nat : l = Len(t)
    OBVIOUS
  <1>1. /\ p \in Nat \ {0} /\ (p = 1 \/ p > l \/ t[p - 1] = SP)
        /\ n + 1 \in Nat \ {0} /\ (n + 1) - 1 = n
    BY <1>0, <1>p DEF Behind, Boundary
  <1>2. \A w \in WordsOf(t) :
          /\ w[1] \in 1 .. l /\ w[2] \in 1 .. l /\ w = <<w[1], w[2]>>
          /\ w[1] <= w[2] /\ \A k \in w[1] .. w[2] : t[k] # SP
          /\ w[1] = 1 \/ t[w[1] - 1] = SP
          /\ w[2] = l \/ t[w[2] + 1] = SP
    BY <1>0, WordsAre
  <1>3. /\ \A x : IsFiniteSet(WordsBefore(t, x)) /\ Cardinality(WordsBefore(t, x)) \in Nat
        /\ \A v \in WordsOf(t), x \in Nat : v[1] < x =>
             Cardinality(WordsBefore(t, v[1])) < Cardinality(WordsBefore(t, x))
    BY WordsCounted
  <1>4. ASSUME strtok(s, {SP}).token = <<>>, strtok(s, {SP}).rest = <<>>,
               \A k \in p .. l : t[k] = SP
        PROVE  /\ NextWord(t, n, strtok(s, {SP}).token)
               /\ LengthOfRest(t, n, strtok(s, {SP}).rest)
               /\ strtok(s, {SP}).token \in Seq(S)
               /\ LeftBehind(t, n + 1, strtok(s, {SP}).rest)
    <2>1. \A w \in WordsOf(t) : w[1] < p
      <3> SUFFICES ASSUME NEW w \in WordsOf(t), ~(w[1] < p) PROVE FALSE
        OBVIOUS
      <3>1. w[1] \in p .. l /\ w[1] \in w[1] .. w[2]
        BY <1>1, <1>2
      <3>2. QED
        BY <1>2, <1>4, <3>1
    <2>2. Cardinality(WordsBefore(t, p)) <= n
      BY <1>3, <1>p DEF Behind
    <2>3. \A v \in WordsOf(t) : Cardinality(WordsBefore(t, v[1])) < n
      <3> TAKE v \in WordsOf(t)
      <3>1. Cardinality(WordsBefore(t, v[1])) < Cardinality(WordsBefore(t, p))
        BY <1>1, <1>3, <2>1
      <3>2. QED
        BY <1>3, <2>2, <3>1
    <2>4. Nth(t, n + 1) = {}
      BY <1>1, <1>3, <2>3, NthIs
    <2>5. WordsBefore(t, l + 1) = WordsBefore(t, p)
      BY <1>2, <2>1 DEF WordsBefore
    <2>6. Behind(t, l + 1, n + 1)
      <3>1. \A w \in WordsOf(t) : w[1] < l + 1
        BY <1>2
      <3>2. Cardinality(WordsBefore(t, l + 1)) < n + 1
        BY <1>3, <2>2, <2>5
      <3>3. QED
        BY <1>0, <3>1, <3>2 DEF Behind, Boundary
    <2>7. SubSeq(t, l + 1, Len(t)) = <<>>
      BY <1>0
    <2>8. LengthOfRest(t, n, <<>>)
      BY <1>3, <2>3 DEF LengthOfRest
    <2>9. <<>> \in Seq(S)
      OBVIOUS
    <2>10. QED
      BY <1>4, <2>4, <2>6, <2>7, <2>8, <2>9 DEF NextWord, LeftBehind
  <1>5. ASSUME NEW i \in p .. l, NEW j \in p .. l,
               i <= j, \A k \in p .. i - 1 : t[k] = SP,
               \A k \in i .. j : t[k] # SP,
               j = l \/ t[j + 1] = SP,
               strtok(s, {SP}).token = SubSeq(t, i, j),
               strtok(s, {SP}).rest = SubSeq(t, j + 2, l)
        PROVE  /\ NextWord(t, n, strtok(s, {SP}).token)
               /\ LengthOfRest(t, n, strtok(s, {SP}).rest)
               /\ strtok(s, {SP}).token \in Seq(S)
               /\ LeftBehind(t, n + 1, strtok(s, {SP}).rest)
    <2>0. i \in 1 .. l /\ j \in 1 .. l /\ i \in Nat /\ j \in Nat
      BY <1>1
    <2> DEFINE v == <<i, j>>
    <2>1. v \in WordsOf(t)
      <3>1. i = 1 \/ t[i - 1] = SP
        <4>1. CASE i = p
          BY <1>1, <2>0, <4>1
        <4>2. CASE i # p
          <5>1. i - 1 \in p .. i - 1
            BY <1>1, <4>2
          <5>2. QED
            BY <1>5, <5>1
        <4>3. QED
          BY <4>1, <4>2
      <3>2. QED
        BY <1>0, <1>5, <2>0, <3>1 DEF WordsOf
    <2>2. ASSUME NEW w \in WordsOf(t), w[1] >= p, w # v PROVE w[1] >= j + 2
      <3>1. w[1] # i
        BY <2>1, <2>2, WordsDiffer
      <3>2. ~(w[1] < i)
        <4> SUFFICES ASSUME w[1] < i PROVE FALSE
          OBVIOUS
        <4>1. w[1] \in p .. i - 1 /\ w[1] \in w[1] .. w[2]
          BY <1>1, <1>2, <2>0, <2>2
        <4>2. QED
          BY <1>2, <1>5, <4>1
      <3>3. ~(w[1] > i /\ w[1] <= j + 1)
        <4> SUFFICES ASSUME w[1] > i, w[1] <= j + 1 PROVE FALSE
          OBVIOUS
        <4>1. w[1] - 1 \in i .. j /\ w[1] # 1
          BY <1>2, <2>0
        <4>2. QED
          BY <1>2, <1>5, <4>1
      <3>4. QED
        BY <1>2, <2>0, <3>1, <3>2, <3>3
    <2>3. v[1] = i /\ v[2] = j
      OBVIOUS
    <2> HIDE DEF v
    <2>4. WordsBefore(t, i) = WordsBefore(t, p)
      <3>1. \A u \in WordsOf(t) : u[1] < i <=> u[1] < p
        <4> SUFFICES ASSUME NEW u \in WordsOf(t), u[1] < i, ~(u[1] < p) PROVE FALSE
          BY <1>1, <1>2, <2>0
        <4>1. u[1] >= p /\ u # v
          BY <1>1, <1>2, <2>0, <2>3
        <4>2. QED
          BY <1>2, <2>0, <2>2, <4>1, <1>5
      <3>2. QED
        BY <3>1 DEF WordsBefore
    <2>5. WordsBefore(t, j + 2) = WordsBefore(t, p) \cup {v} /\ v \notin WordsBefore(t, p)
      <3>1. \A u \in WordsOf(t) : u[1] < j + 2 <=> u[1] < p \/ u = v
        <4> TAKE u \in WordsOf(t)
        <4>1. u[1] < p => u[1] < j + 2
          BY <1>1, <1>2, <2>0
        <4>2. u = v => u[1] < j + 2
          BY <1>5, <2>0, <2>3
        <4>3. u[1] < j + 2 /\ ~(u[1] < p) => u = v
          BY <1>1, <1>2, <2>0, <2>2
        <4>4. QED
          BY <4>1, <4>2, <4>3
      <3>2. ~(v[1] < p)
        BY <1>1, <2>0, <2>3
      <3>3. QED
        BY <2>1, <3>1, <3>2 DEF WordsBefore
    <2>6. Cardinality(WordsBefore(t, p)) = n
      <3>1. ~(v[1] < p)
        BY <1>1, <2>0, <2>3
      <3>2. QED
        BY <1>p, <2>1, <3>1 DEF Behind
    <2>7. Cardinality(WordsBefore(t, v[1])) = n
      BY <2>3, <2>4, <2>6
    <2>8. Nth(t, n + 1) = {SubSeq(t, i, j)}
      BY <1>1, <2>1, <2>3, <2>7, NthIs
    <2>9. SubSeq(t, i, j) \in Seq(S) /\ SubSeq(t, i, j) # <<>>
      <3> DEFINE x == SubSeq(t, i, j)
      <3>1. x \in Seq(S) /\ Len(x) = j - i + 1
        BY <1>0, <1>5, <2>0
      <3> HIDE DEF x
      <3>2. Len(x) # 0
        BY <1>5, <2>0, <3>1
      <3>3. x # <<>>
        BY <3>2
      <3>4. QED
        BY <3>1, <3>3 DEF x
    <2>10. Behind(t, j + 2, n + 1)
      <3>1. Cardinality(WordsBefore(t, j + 2)) = n + 1
        BY <1>3, <2>5, <2>6, FS_AddElement
      <3>2. j + 2 > l \/ t[(j + 2) - 1] = SP
        <4>1. (j + 2) - 1 = j + 1
          BY <2>0
        <4>2. QED
          BY <1>5, <2>0, <4>1
      <3>3. QED
        BY <1>0, <2>0, <3>1, <3>2 DEF Behind, Boundary
    <2>11. LengthOfRest(t, n, SubSeq(t, j + 2, l))
      <3>1. \A w \in WordsOf(t) : Cardinality(WordsBefore(t, w[1])) = n <=> w = v
        <4> TAKE w \in WordsOf(t)
        <4>1. w[1] \in Nat /\ v[1] \in Nat
          BY <1>2, <2>1
        <4>2. Cardinality(WordsBefore(t, w[1])) = n => ~(w[1] < v[1]) /\ ~(v[1] < w[1])
          BY <1>3, <2>1, <2>7, <4>1
        <4>3. Cardinality(WordsBefore(t, w[1])) = n => w[1] = v[1]
          BY <4>1, <4>2
        <4>4. QED
          BY <2>1, <2>7, <4>3, WordsDiffer
      <3>2. Len(SubSeq(t, j + 2, l)) = IF j = l THEN 0 ELSE l - j - 1
        BY <1>0, <2>0
      <3>3. \A len \in Nat : Len(SubSeq(t, j + 2, l)) <= len <=> l - j - 1 <= len
        BY <2>0, <3>2
      <3>4. QED
        BY <1>0, <2>1, <2>3, <3>1, <3>3 DEF LengthOfRest
    <2>12. QED
      BY <1>0, <1>5, <2>8, <2>9, <2>10, <2>11 DEF NextWord, LeftBehind
  <1>6. QED
    <2>1. \/ /\ strtok(s, {SP}).token = <<>> /\ strtok(s, {SP}).rest = <<>>
             /\ \A k \in p .. Len(t) : t[k] = SP
          \/ \E i \in p .. Len(t), j \in p .. Len(t) :
               /\ i <= j /\ \A k \in p .. i - 1 : t[k] = SP
               /\ \A k \in i .. j : t[k] # SP
               /\ j = Len(t) \/ t[j + 1] = SP
               /\ strtok(s, {SP}).token = SubSeq(t, i, j)
               /\ strtok(s, {SP}).rest = SubSeq(t, j + 2, Len(t))
      <3>1. p \in Nat \ {0}
        BY <1>1
      <3>2. TokenFrom(t, p, s)
        BY <1>p, <3>1, StrtokFrom
      <3>3. QED
        BY <3>2 DEF TokenFrom
    <2>2. QED
      BY <1>0, <1>4, <1>5, <2>1

\* The four tokens the parser of requests takes are the first four words.
LEMMA TokensAreWords ==
  ASSUME NEW S, NEW t \in Seq(S),
         NEW cmd, cmd = strtok(t, {SP}), NEW name, name = strtok(cmd.rest, {SP}),
         NEW len, len = strtok(name.rest, {SP}), NEW data, data = strtok(len.rest, {SP})
  PROVE  /\ NextWord(t, 0, cmd.token) /\ NextWord(t, 1, name.token) /\ NextWord(t, 2, len.token)
         /\ cmd.token \in Seq(S) /\ name.token \in Seq(S) /\ len.token \in Seq(S)
         /\ LengthOfRest(t, 3, data.rest)
  <1>1. LeftBehind(t, 0, t)
    <2>1. \A u \in WordsOf(t) : ~(u[1] < 1)
      BY WordsAre
    <2>2. WordsBefore(t, 1) = {}
      BY <2>1 DEF WordsBefore
    <2>3. Behind(t, 1, 0)
      <3>1. Cardinality(WordsBefore(t, 1)) = 0
        BY <2>2, FS_EmptySet, Zenon
      <3>2. QED
        BY <3>1 DEF Behind, Boundary
    <2> DEFINE x == SubSeq(t, 1, Len(t))
    <2>4. x \in Seq(S) /\ Len(x) = Len(t) /\ \A k \in 1 .. Len(t) : t[k] = x[k]
      OBVIOUS
    <2> HIDE DEF x
    <2>5. t = x
      BY <2>4, SeqEqual
    <2>6. QED
      BY <2>3, <2>5 DEF LeftBehind, x
  <1>2. NextWord(t, 0, cmd.token) /\ cmd.token \in Seq(S) /\ LeftBehind(t, 0 + 1, cmd.rest)
    BY <1>1, StrtokSteps
  <1>3. LeftBehind(t, 1, cmd.rest)
    BY <1>2
  <1>4. NextWord(t, 1, name.token) /\ name.token \in Seq(S) /\ LeftBehind(t, 1 + 1, name.rest)
    BY <1>3, StrtokSteps
  <1>5. LeftBehind(t, 2, name.rest)
    BY <1>4
  <1>6. NextWord(t, 2, len.token) /\ len.token \in Seq(S) /\ LeftBehind(t, 2 + 1, len.rest)
    BY <1>5, StrtokSteps
  <1>7. LeftBehind(t, 3, len.rest)
    BY <1>6
  <1>8. LengthOfRest(t, 3, data.rest)
    BY <1>7, StrtokSteps
  <1>9. QED
    BY <1>2, <1>4, <1>6, <1>8

\* What the parser of requests asks of a text, its first three tokens and what is left
\* behind the fourth.
AcceptsTokens(t, c, n, l, d) ==
    /\ Contains(t, NL)
    /\ \E x \in Commands : c = <<x>>
    /\ c = <<"LEAVE">> => n \in {<<>>, <<NL>>}
    /\ c # <<"LEAVE">> => n # <<>> /\ \A x \in LongNames : ~Contains(n, x)
    /\ c = <<"STORE">> => l # <<>> /\ isNumber(l) # -1 /\ ~(Len(d) > isNumber(l))

\* It accepts where it asks no more.
LEMMA ParserAccepts ==
  ASSUME NEW buff, NEW t, t = CString(buff),
         NEW cmd, cmd = strtok(t, {SP}), NEW name, name = strtok(cmd.rest, {SP}),
         NEW len, len = strtok(name.rest, {SP}), NEW data, data = strtok(len.rest, {SP})
  PROVE  parseRequestHeader(buff).error = "NO_MSG_ERROR"
         <=> AcceptsTokens(t, cmd.token, name.token, len.token, data.rest)
  <1>1. parseRequestHeader(buff) =
          IF ~Contains(t, NL) THEN Unparsed("NO_HEADER")
          ELSE IF \A c \in Commands : cmd.token # <<c>> THEN Unparsed("UNKOWN_COMMAND")
          ELSE IF cmd.token = <<"LEAVE">> /\ name.token \in {<<>>, <<NL>>}
               THEN Parsed("NO_MSG_ERROR", "LEAVE", <<>>, 0, <<>>)
          ELSE IF cmd.token = <<"LEAVE">> THEN Unparsed("MALFORMED_HEADER")
          ELSE IF name.token = <<>> THEN Unparsed("NO_NAME")
          ELSE IF \E n \in LongNames : Contains(name.token, n) THEN Unparsed("BUFFER_OVERFLOW")
          ELSE IF cmd.token # <<"STORE">>
               THEN Parsed("NO_MSG_ERROR", Head(cmd.token), name.token, 0, <<>>)
          ELSE IF len.token = <<>> THEN Unparsed("NO_LEN")
          ELSE IF isNumber(len.token) = -1 THEN Unparsed("MALFORMED_HEADER")
          ELSE parseData(name.token, isNumber(len.token), len.rest)
    BY DEF parseRequestHeader
  <1>2. parseData(name.token, isNumber(len.token), len.rest) =
          IF Len(data.rest) > isNumber(len.token) THEN Unparsed("MALFORMED_HEADER")
          ELSE Parsed("NO_MSG_ERROR", "STORE", name.token, isNumber(len.token), data.rest)
    BY DEF parseData
  <1>3. \A e : Unparsed(e).error = e
    BY DEF Unparsed, Parsed
  <1>4. <<"LEAVE">> # <<"STORE">>
    OBVIOUS
  <1>5. CASE ~Contains(t, NL) \/ \A c \in Commands : cmd.token # <<c>>
    BY <1>1, <1>3, <1>5 DEF AcceptsTokens
  <1>6. CASE cmd.token = <<"LEAVE">> /\ Contains(t, NL) /\ \E c \in Commands : cmd.token = <<c>>
    <2>1. AcceptsTokens(t, cmd.token, name.token, len.token, data.rest)
          <=> name.token \in {<<>>, <<NL>>}
      BY <1>4, <1>6 DEF AcceptsTokens
    <2>2. CASE name.token \in {<<>>, <<NL>>}
      <3>1. parseRequestHeader(buff) = Parsed("NO_MSG_ERROR", "LEAVE", <<>>, 0, <<>>)
        BY <1>1, <1>6, <2>2, Zenon
      <3>2. QED
        BY <2>1, <2>2, <3>1 DEF Parsed
    <2>3. CASE name.token \notin {<<>>, <<NL>>}
      <3>1. parseRequestHeader(buff) = Unparsed("MALFORMED_HEADER")
        BY <1>1, <1>6, <2>3, Zenon
      <3>2. QED
        BY <1>3, <2>1, <2>3, <3>1
    <2>4. QED
      BY <2>2, <2>3
  <1>7. CASE /\ Contains(t, NL) /\ \E c \in Commands : cmd.token = <<c>>
             /\ cmd.token # <<"LEAVE">>
             /\ name.token = <<>> \/ \E n \in LongNames : Contains(name.token, n)
    <2>1. \/ parseRequestHeader(buff) = Unparsed("NO_NAME")
          \/ parseRequestHeader(buff) = Unparsed("BUFFER_OVERFLOW")
      BY <1>1, <1>7, Zenon
    <2>2. parseRequestHeader(buff).error # "NO_MSG_ERROR"
      BY <1>3, <2>1
    <2>3. QED
      BY <1>7, <2>2, Zenon DEF AcceptsTokens
  <1>8. CASE /\ Contains(t, NL) /\ \E c \in Commands : cmd.token = <<c>>
             /\ cmd.token # <<"LEAVE">>
             /\ name.token # <<>> /\ \A n \in LongNames : ~Contains(name.token, n)
    <2>1. CASE cmd.token # <<"STORE">>
      <3>1. parseRequestHeader(buff)
            = Parsed("NO_MSG_ERROR", Head(cmd.token), name.token, 0, <<>>)
        BY <1>1, <1>8, <2>1, Zenon
      <3>2. parseRequestHeader(buff).error = "NO_MSG_ERROR"
        BY <3>1 DEF Parsed
      <3>3. QED
        BY <1>8, <2>1, <3>2, Zenon DEF AcceptsTokens
    <2>2. CASE cmd.token = <<"STORE">>
      <3> DEFINE asks == len.token # <<>> /\ isNumber(len.token) # -1
                         /\ ~(Len(data.rest) > isNumber(len.token))
      <3>1. AcceptsTokens(t, cmd.token, name.token, len.token, data.rest) <=> asks
        BY <1>8, <2>2, Zenon DEF AcceptsTokens
      <3>2. parseRequestHeader(buff) =
              IF len.token = <<>> THEN Unparsed("NO_LEN")
              ELSE IF isNumber(len.token) = -1 THEN Unparsed("MALFORMED_HEADER")
              ELSE parseData(name.token, isNumber(len.token), len.rest)
        BY <1>1, <1>8, <2>2, Zenon
      <3>3. CASE asks
        <4>1. parseRequestHeader(buff)
              = Parsed("NO_MSG_ERROR", "STORE", name.token, isNumber(len.token), data.rest)
          BY <1>2, <3>2, <3>3, Zenon
        <4>2. QED
          BY <3>1, <3>3, <4>1 DEF Parsed
      <3>4. CASE ~asks
        <4>1. \/ parseRequestHeader(buff) = Unparsed("NO_LEN")
              \/ parseRequestHeader(buff) = Unparsed("MALFORMED_HEADER")
          BY <1>2, <3>2, <3>4, Zenon
        <4>2. parseRequestHeader(buff).error # "NO_MSG_ERROR"
          BY <1>3, <4>1
        <4>3. QED
          BY <3>1, <3>4, <4>2, Zenon
      <3>5. QED
        BY <3>3, <3>4
    <2>3. QED
      BY <2>1, <2>2
  <1>9. QED
    BY <1>5, <1>6, <1>7, <1>8, Zenon

\* The language of requests, said of the tokens.
LEMMA RequestsByTokens ==
  ASSUME NEW S, NEW t \in Seq(S),
         NEW c, NextWord(t, 0, c), NEW n, NextWord(t, 1, n),
         NEW l \in Seq(S), NextWord(t, 2, l), NEW d, LengthOfRest(t, 3, d)
  PROVE  IsRequest(t) <=> AcceptsTokens(t, c, n, l, d)
  <1> DEFINE N1 == Nth(t, 1)
             N2 == Nth(t, 2)
             N3 == Nth(t, 3)
             Fits(len) == \A v \in WordsOf(t) :
                            Cardinality({u \in WordsOf(t) : u[1] < v[1]}) = 3
                            => Len(t) - v[2] - 1 <= len
             Reads(w, len) == Last(w) = Decimal[len] /\ \A k \in 1 .. Len(w) - 1 : w[k] = NL
  <1>1. /\ N1 = IF c = <<>> THEN {} ELSE {c}
        /\ N2 = IF n = <<>> THEN {} ELSE {n}
        /\ N3 = IF l = <<>> THEN {} ELSE {l}
    <2>1. 0 + 1 = 1 /\ 1 + 1 = 2 /\ 2 + 1 = 3
      OBVIOUS
    <2>2. QED
      BY <2>1 DEF NextWord
  <1>2. \A len \in DOMAIN Decimal : Len(d) <= len <=> Fits(len)
    BY DecimalAssumption DEF LengthOfRest, WordsBefore
  <1>3. IsRequest(t)
        <=> /\ Contains(t, NL)
            /\ \E x \in Commands : N1 = {<<x>>}
            /\ N1 = {<<"LEAVE">>} => N2 \subseteq {<<NL>>}
            /\ N1 # {<<"LEAVE">>} => N2 # {} /\ \A w \in N2, x \in LongNames : ~Contains(w, x)
            /\ N1 = {<<"STORE">>} => \E w \in N3, len \in DOMAIN Decimal : Reads(w, len) /\ Fits(len)
    BY DEF IsRequest
  <1>4. l # <<>> => /\ \A len \in DOMAIN Decimal : Reads(l, len) <=> isNumber(l) = len
                    /\ isNumber(l) # -1 => isNumber(l) \in DOMAIN Decimal
    BY NumberIsRead
  <1> HIDE DEF N1, N2, N3, Fits, Reads
  <1>5. \A x : N1 = {<<x>>} <=> c = <<x>>
    <2>1. CASE c = <<>>
      BY <1>1, <2>1
    <2>2. CASE c # <<>>
      BY <1>1, <2>2
    <2>3. QED
      BY <2>1, <2>2
  <1>6. N2 \subseteq {<<NL>>} <=> n \in {<<>>, <<NL>>}
    BY <1>1
  <1>7. (N2 # {} /\ \A w \in N2, x \in LongNames : ~Contains(w, x))
        <=> n # <<>> /\ \A x \in LongNames : ~Contains(n, x)
    BY <1>1
  <1>8. (\E w \in N3, len \in DOMAIN Decimal : Reads(w, len) /\ Fits(len))
        <=> l # <<>> /\ isNumber(l) # -1 /\ ~(Len(d) > isNumber(l))
    <2>1. CASE l = <<>>
      BY <1>1, <2>1
    <2>2. CASE l # <<>>
      <3>1. (\E w \in N3, len \in DOMAIN Decimal : Reads(w, len) /\ Fits(len))
            <=> \E len \in DOMAIN Decimal : isNumber(l) = len /\ Fits(len)
        BY <1>1, <1>4, <2>2
      <3>2. -1 \notin DOMAIN Decimal
        BY DecimalAssumption
      <3>3. \A len \in DOMAIN Decimal : Fits(len) <=> Len(d) <= len
        BY <1>2
      <3>4. QED
        BY <1>4, <2>2, <3>1, <3>2, <3>3
    <2>3. QED
      BY <2>1, <2>2
  <1>9. QED
    BY <1>3, <1>5, <1>6, <1>7, <1>8 DEF AcceptsTokens

\* The parser of requests accepts the texts that spell a request and no others, of any
\* length.
THEOREM AcceptsExactlyRequestsCorrect == Spec => []AcceptsExactlyRequests
  <1>1. ASSUME TypesInv PROVE AcceptsExactlyRequests
    <2> DEFINE t == CString(buffer)
               cmd == strtok(t, {SP})
               name == strtok(cmd.rest, {SP})
               len == strtok(name.rest, {SP})
               data == strtok(len.rest, {SP})
    <2>1. t \in Seq(AnySymbol)
      BY <1>1, CStringIsPrefix DEF TypesInv
    <2>2. /\ cmd = strtok(t, {SP}) /\ name = strtok(cmd.rest, {SP})
          /\ len = strtok(name.rest, {SP}) /\ data = strtok(len.rest, {SP})
          /\ t = CString(buffer)
      OBVIOUS
    <2> HIDE DEF t, cmd, name, len, data, AnySymbol
    <2>3. /\ NextWord(t, 0, cmd.token) /\ NextWord(t, 1, name.token) /\ NextWord(t, 2, len.token)
          /\ len.token \in Seq(AnySymbol) /\ LengthOfRest(t, 3, data.rest)
      BY <2>1, <2>2, TokensAreWords
    <2>4. parseRequestHeader(buffer).error = "NO_MSG_ERROR"
          <=> AcceptsTokens(t, cmd.token, name.token, len.token, data.rest)
      BY <2>2, ParserAccepts
    <2>5. IsRequest(t) <=> AcceptsTokens(t, cmd.token, name.token, len.token, data.rest)
      BY <2>1, <2>3, RequestsByTokens
    <2>6. QED
      BY <2>2, <2>4, <2>5 DEF AcceptsExactlyRequests
  <1>2. QED
    BY <1>1, TypesCorrect, PTL

=============================================================================
