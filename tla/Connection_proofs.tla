------------------------- MODULE Connection_proofs --------------------------
(***************************************************************************)
(* The two ends of a connection stay in step: what is on the streams, what *)
(* the call has still to write or read, and what the worker has still to   *)
(* read or write, are the pieces of one request and of its answer.         *)
(***************************************************************************)
EXTENDS Connection, Messages_proofs

Bytes == UNION {Range(b) : b \in Blocks}

\* What an object may be: a write that fails leaves any part of a block.
Contents == {s \in Seq(Bytes) : Len(s) \in DOMAIN Decimal /\ Len(s) < SizeModulus}

\* The bytes of a block from a place to another.
Piece(s, m, n) == SubSeq(s, m + 1, n)

\* The process uses the connection.
Using == at \in {"connect", "idle", "send", "reply", "data"}

FirstCall == Call("REGISTER", CHOOSE n \in Names : TRUE, <<>>)

Header == RequestHeader(call.cmd, call.obj, Len(call.block))

Stored == store[call.obj]

TypesInv ==
    /\ clientOpen = TRUE
    /\ serverOpen = (worker \notin {"closed", "dead"})
    /\ worker \in {"select", "storing", "retrieving", "closing", "closed", "dead"}
    /\ call \in Calls \cup {FirstCall}
    /\ at = "connect" => call = FirstCall
    /\ at = "send" => call.cmd = "STORE"
    /\ store \in [Files -> Seq(Bytes) \cup {Absent}]

\* Only the object of the STORE that is served may be longer.
ObjectsAreContents ==
    worker \in {"select", "storing", "retrieving"} =>
    \A o \in Objects :
        store[o] \in Contents \cup {Absent} \/ (worker = "storing" /\ o = object)

\* Between two calls.
Resting ==
    at \in {"connect", "idle"} =>
    /\ toClient = <<>> /\ worker # "storing"
    /\ worker \in {"select", "retrieving"} => toServer = <<>>
    /\ worker = "retrieving" => left = 0

\* What the last call has returned is true.
ResultIsTrue ==
    at = "idle" /\ result = 1 =>
    /\ call.cmd = "STORE" /\ ~lost => Stored = call.block
    /\ call.cmd = "RETRIEVE" => data = Stored

\* The worker has read nothing of the request.
Unread ==
    /\ toClient = <<>>
    /\ \E n \in 0 .. Len(call.block) :
        /\ toServer = Header \o Piece(call.block, 0, n)
        /\ unsent = Piece(call.block, n, Len(call.block))

\* What of the object the worker has written.
Written(m) ==
    /\ m \in 0 .. Len(Stored)
    /\ worker = "retrieving" => object = call.obj /\ left = Len(Stored) - m
    /\ worker \in {"select", "closing", "closed"} => m = Len(Stored)

\* What the client has to read of an answer, if anything.
Answer ==
    \/ toClient = <<>> /\ worker \notin {"select", "retrieving"}
    \/ toClient \in {KOResponse, KOMessage} /\ worker # "retrieving"
    \/ /\ toClient = OKResponse /\ call.cmd # "RETRIEVE" /\ worker # "retrieving"
       /\ call.cmd = "STORE" /\ ~lost => Stored = call.block
    \/ /\ call.cmd = "RETRIEVE" /\ Stored \in Contents
       /\ \E m \in 0 .. Len(Stored) :
            Written(m) /\ toClient = DataHeader(Len(Stored)) \o Piece(Stored, 0, m)

\* The worker reads the block; the part before a NUL was taken for the whole of what
\* came with the header.
Storing ==
    /\ call.cmd = "STORE" /\ object = call.obj /\ toClient = <<>>
    /\ \E m \in 0 .. Len(call.block), n \in 0 .. Len(call.block) :
        /\ m <= n
        /\ toServer = Piece(call.block, m, n)
        /\ unsent = Piece(call.block, n, Len(call.block))
        /\ store[object] \in Seq(Bytes) /\ left \in Nat
        /\ Len(store[object]) + left <= Len(call.block)
        /\ \/ (~lost => store[object] = Piece(call.block, 0, m)) /\ left = Len(call.block) - m
           \/ HasZero(call.block) /\ left > Len(call.block) - m

\* During a call, before the answer is read.
Asking ==
    at \in {"send", "reply"} =>
    /\ at = "send" => toClient = <<>> /\ unsent \in Seq(Bytes) /\ unsent # <<>>
    /\ worker = "storing" => Storing
    /\ worker \in {"select", "retrieving"} =>
        \/ Unread /\ (worker = "retrieving" => left = 0)
        \/ at = "reply" /\ toServer = <<>> /\ unsent = <<>> /\ Answer
    /\ worker \in {"storing", "select", "retrieving"} /\ at = "reply" => unsent = <<>>
    /\ worker \in {"closing", "closed", "dead"} /\ at = "reply" => Answer

\* os_retrieve reads the object.
Reading ==
    at = "data" =>
    /\ call.cmd = "RETRIEVE" /\ Stored \in Contents /\ size = Len(Stored)
    /\ worker # "storing"
    /\ worker \in {"select", "retrieving"} => toServer = <<>>
    /\ left_data_len \in Nat \ {0}
    /\ \E k \in 0 .. Len(Stored), m \in 0 .. Len(Stored) :
        /\ k <= m /\ Written(m)
        /\ toClient = Piece(Stored, k, m)
        /\ \/ data = Piece(Stored, 0, k) /\ left_data_len = Len(Stored) - k
           \/ HasZero(Stored) /\ Len(data) + left_data_len = Len(Stored)
              /\ left_data_len > Len(Stored) - k

Synchronized ==
    TypesInv /\ ObjectsAreContents /\ Resting /\ ResultIsTrue /\ Asking /\ Reading

BlockFits == data \in Seq(Bytes) /\ size \in Nat /\ Len(data) <= size

ConnectionInv == ~astray => BlockFits /\ (Using => Synchronized)

-----------------------------------------------------------------------------
(* Pieces of a block.                                                      *)

\* The symbols of a piece.
LEMMA PieceProperties ==
  ASSUME NEW S, NEW s \in Seq(S), NEW n \in 0 .. Len(s), NEW m \in 0 .. n
  PROVE  /\ Piece(s, m, n) \in Seq(S) /\ Len(Piece(s, m, n)) = n - m
         /\ \A i \in 1 .. n - m : Piece(s, m, n)[i] = s[m + i]
  <1>1. Len(s) \in Nat
    OBVIOUS
  <1>2. QED
    BY <1>1 DEF Piece

\* A block is the piece of it from its start to its end.
LEMMA PieceIsAll ==
  ASSUME NEW S, NEW s \in Seq(S)
  PROVE  Piece(s, 0, Len(s)) = s
  BY DEF Piece

\* Only a piece that ends where it starts is empty.
LEMMA PieceIsNone ==
  ASSUME NEW S, NEW s \in Seq(S), NEW n \in 0 .. Len(s), NEW m \in 0 .. n
  PROVE  Piece(s, m, n) = <<>> <=> m = n
  <1>0. Len(s) \in Nat
    OBVIOUS
  <1>1. Piece(s, m, n) \in Seq(S) /\ Len(Piece(s, m, n)) = n - m
    BY PieceProperties
  <1>2. Piece(s, m, n) = <<>> <=> Len(Piece(s, m, n)) = 0
    BY <1>1, EmptySeq
  <1>3. QED
    BY <1>0, <1>1, <1>2

\* A piece cut in two gives the pieces before and after the cut.
LEMMA PiecesOfPiece ==
  ASSUME NEW S, NEW s \in Seq(S), NEW n \in 0 .. Len(s), NEW m \in 0 .. n, NEW k \in m .. n
  PROVE  /\ SubSeq(Piece(s, m, n), 1, k - m) = Piece(s, m, k)
         /\ SubSeq(Piece(s, m, n), k - m + 1, n - m) = Piece(s, k, n)
  <1> DEFINE p == Piece(s, m, n)
             a == Piece(s, m, k)
             b == Piece(s, k, n)
             u == SubSeq(p, 1, k - m)
             v == SubSeq(p, k - m + 1, n - m)
  <1>0. Len(s) \in Nat
    OBVIOUS
  <1>1. p \in Seq(S) /\ Len(p) = n - m /\ \A i \in 1 .. n - m : p[i] = s[m + i]
    BY PieceProperties
  <1>2. a \in Seq(S) /\ Len(a) = k - m /\ \A i \in 1 .. k - m : a[i] = s[m + i]
    <2>1. k \in 0 .. Len(s) /\ m \in 0 .. k
      BY <1>0
    <2>2. QED
      BY <2>1, PieceProperties
  <1>3. b \in Seq(S) /\ Len(b) = n - k /\ \A i \in 1 .. n - k : b[i] = s[k + i]
    <2>1. k \in 0 .. n
      BY <1>0
    <2>2. QED
      BY <2>1, PieceProperties
  <1> HIDE DEF p, a, b
  <1>4. u \in Seq(S) /\ Len(u) = k - m /\ \A i \in 1 .. k - m : u[i] = p[i]
    BY <1>0, <1>1
  <1>5. v \in Seq(S) /\ Len(v) = n - k /\ \A i \in 1 .. n - k : v[i] = p[k - m + i]
    BY <1>0, <1>1
  <1> HIDE DEF u, v
  <1>6. u = a
    <2>1. \A i \in 1 .. Len(u) : u[i] = a[i]
      BY <1>0, <1>1, <1>2, <1>4
    <2>2. QED
      BY <1>2, <1>4, <2>1, SeqEqual
  <1>7. v = b
    <2>1. \A i \in 1 .. Len(v) : v[i] = b[i]
      <3> SUFFICES ASSUME NEW i \in 1 .. n - k PROVE v[i] = b[i]
        BY <1>5
      <3>1. k - m + i \in 1 .. n - m /\ m + (k - m + i) = k + i
        BY <1>0
      <3>2. v[i] = p[k - m + i] /\ b[i] = s[k + i]
        BY <1>3, <1>5
      <3>3. p[k - m + i] = s[m + (k - m + i)]
        BY <1>1, <3>1
      <3>4. QED
        BY <3>1, <3>2, <3>3
    <2>2. QED
      BY <1>3, <1>5, <2>1, SeqEqual
  <1>8. QED
    BY <1>6, <1>7 DEF u, v, a, b, p

\* Two pieces one of which ends where the other starts make one.
LEMMA PiecesJoin ==
  ASSUME NEW S, NEW s \in Seq(S), NEW n \in 0 .. Len(s), NEW m \in 0 .. n, NEW k \in m .. n
  PROVE  Piece(s, m, k) \o Piece(s, k, n) = Piece(s, m, n)
  <1> DEFINE p == Piece(s, m, n)
             a == Piece(s, m, k)
             b == Piece(s, k, n)
             u == a \o b
  <1>0. Len(s) \in Nat
    OBVIOUS
  <1>1. p \in Seq(S) /\ Len(p) = n - m /\ \A i \in 1 .. n - m : p[i] = s[m + i]
    BY PieceProperties
  <1>2. a \in Seq(S) /\ Len(a) = k - m /\ \A i \in 1 .. k - m : a[i] = s[m + i]
    <2>1. k \in 0 .. Len(s) /\ m \in 0 .. k
      BY <1>0
    <2>2. QED
      BY <2>1, PieceProperties
  <1>3. b \in Seq(S) /\ Len(b) = n - k /\ \A i \in 1 .. n - k : b[i] = s[k + i]
    <2>1. k \in 0 .. n
      BY <1>0
    <2>2. QED
      BY <2>1, PieceProperties
  <1> HIDE DEF p, a, b
  <1>4. /\ u \in Seq(S) /\ Len(u) = Len(a) + Len(b)
        /\ \A i \in 1 .. Len(a) + Len(b) : u[i] = IF i <= Len(a) THEN a[i] ELSE b[i - Len(a)]
    BY <1>2, <1>3, ConcatProperties
  <1> HIDE DEF u
  <1>5. Len(u) = Len(p)
    BY <1>0, <1>1, <1>2, <1>3, <1>4
  <1>6. \A i \in 1 .. Len(p) : p[i] = u[i]
    <2> SUFFICES ASSUME NEW i \in 1 .. n - m PROVE p[i] = u[i]
      BY <1>1
    <2>1. p[i] = s[m + i]
      BY <1>1
    <2>2. u[i] = IF i <= k - m THEN a[i] ELSE b[i - (k - m)]
      BY <1>0, <1>2, <1>3, <1>4
    <2>3. CASE i <= k - m
      <3>1. i \in 1 .. k - m
        BY <1>0, <2>3
      <3>2. QED
        BY <1>2, <2>1, <2>2, <2>3, <3>1
    <2>4. CASE ~(i <= k - m)
      <3>1. i - (k - m) \in 1 .. n - k /\ k + (i - (k - m)) = m + i
        BY <1>0, <2>4
      <3>2. b[i - (k - m)] = s[k + (i - (k - m))]
        BY <1>3, <3>1
      <3>3. QED
        BY <2>1, <2>2, <2>4, <3>1, <3>2
    <2>5. QED
      BY <2>3, <2>4
  <1>7. p = u
    BY <1>1, <1>4, <1>5, <1>6, SeqEqual
  <1>8. QED
    BY <1>7 DEF u, a, b, p

\* So do they on a stream, after a header.
LEMMA PiecesJoinAfter ==
  ASSUME NEW S, NEW h \in Seq(S), NEW s \in Seq(S), NEW n \in 0 .. Len(s), NEW m \in 0 .. n
  PROVE  (h \o Piece(s, 0, m)) \o Piece(s, m, n) = h \o Piece(s, 0, n)
  <1>0. Len(s) \in Nat
    OBVIOUS
  <1>1. 0 \in 0 .. n /\ m \in 0 .. n /\ 0 \in 0 .. m /\ m \in 0 .. Len(s)
    BY <1>0
  <1> DEFINE x == Piece(s, 0, m)
             y == Piece(s, m, n)
  <1>2. x \in Seq(S) /\ y \in Seq(S)
    BY <1>1, PieceProperties
  <1>3. x \o y = Piece(s, 0, n)
    BY <1>1, PiecesJoin
  <1> HIDE DEF x, y
  <1>4. (h \o x) \o y = h \o (x \o y)
    BY <1>2
  <1>5. QED
    BY <1>3, <1>4 DEF x, y

\* A read of a stream that holds a piece takes a piece and leaves one.
LEMMA ReadPiece ==
  ASSUME NEW S, NEW s \in Seq(S), NEW n \in 0 .. Len(s), NEW m \in 0 .. n, NEW l \in Nat
  PROVE  /\ Len(Prefix(Piece(s, m, n), l)) = Smaller(l, Len(Piece(s, m, n)))
         /\ \E k \in m .. n :
              /\ Prefix(Piece(s, m, n), l) = Piece(s, m, k)
              /\ Suffix(Piece(s, m, n), Len(Prefix(Piece(s, m, n), l))) = Piece(s, k, n)
  <1> DEFINE k == m + Smaller(l, n - m)
  <1>0. Len(s) \in Nat
    OBVIOUS
  <1>1. Len(Piece(s, m, n)) = n - m
    BY PieceProperties
  <1>2. k \in m .. n /\ k - m = Smaller(l, n - m)
    BY <1>0 DEF Smaller
  <1> HIDE DEF k
  <1>3. Prefix(Piece(s, m, n), l) = Piece(s, m, k)
    <2>1. Prefix(Piece(s, m, n), l) = SubSeq(Piece(s, m, n), 1, k - m)
      BY <1>1, <1>2 DEF Prefix
    <2>2. QED
      BY <1>2, <2>1, PiecesOfPiece
  <1>4. Suffix(Piece(s, m, n), k - m) = Piece(s, k, n)
    BY <1>1, <1>2, PiecesOfPiece DEF Suffix
  <1>5. Len(Piece(s, m, k)) = k - m
    <2>1. k \in 0 .. Len(s) /\ m \in 0 .. k
      BY <1>0, <1>2
    <2>2. QED
      BY <2>1, PieceProperties
  <1>6. Len(Prefix(Piece(s, m, n), l)) = k - m /\ Smaller(l, Len(Piece(s, m, n))) = k - m
    BY <1>1, <1>2, <1>3, <1>5
  <1>7. Suffix(Piece(s, m, n), Len(Prefix(Piece(s, m, n), l))) = Piece(s, k, n)
    BY <1>4, <1>6
  <1>8. QED
    BY <1>2, <1>3, <1>6, <1>7

\* A read that has room for the header takes it whole, with a piece of what follows.
LEMMA ReadHeader ==
  ASSUME NEW S, NEW s \in Seq(S), NEW h \in Seq(S), NEW n \in 0 .. Len(s), NEW l \in Nat,
         Len(h) <= l
  PROVE  \E k \in 0 .. n :
           /\ Prefix(h \o Piece(s, 0, n), l) = h \o Piece(s, 0, k)
           /\ Suffix(h \o Piece(s, 0, n), Len(Prefix(h \o Piece(s, 0, n), l))) = Piece(s, k, n)
  <1> DEFINE p == Piece(s, 0, n)
             t == h \o p
  <1>0. Len(s) \in Nat /\ Len(h) \in Nat /\ n \in Nat
    OBVIOUS
  <1>1. p \in Seq(S) /\ Len(p) = n
    <2>1. 0 \in 0 .. n
      BY <1>0
    <2>2. QED
      BY <1>0, <2>1, PieceProperties
  <1>2. PICK k \in 0 .. n : Smaller(l, Len(h) + n) = Len(h) + k
    <2>1. CASE l < Len(h) + n
      <3>1. l - Len(h) \in 0 .. n /\ Smaller(l, Len(h) + n) = Len(h) + (l - Len(h))
        BY <1>0, <2>1 DEF Smaller
      <3>2. QED
        BY <3>1
    <2>2. CASE ~(l < Len(h) + n)
      <3>1. n \in 0 .. n /\ Smaller(l, Len(h) + n) = Len(h) + n
        BY <1>0, <2>2 DEF Smaller
      <3>2. QED
        BY <3>1
    <2>3. QED
      BY <2>1, <2>2
  <1>3. SubSeq(p, 1, k) = Piece(s, 0, k) /\ SubSeq(p, k + 1, n) = Piece(s, k, n)
    <2>1. 0 \in 0 .. n /\ k \in 0 .. n /\ k - 0 = k /\ n - 0 = n
      BY <1>0
    <2>2. QED
      BY <2>1, PiecesOfPiece
  <1> HIDE DEF p
  <1>4. /\ t \in Seq(S) /\ Len(t) = Len(h) + n
        /\ \A i \in 1 .. Len(h) + n : t[i] = IF i <= Len(h) THEN h[i] ELSE p[i - Len(h)]
    BY <1>1, ConcatProperties
  <1>5. SubSeq(t, 1, Len(h) + k) = h \o SubSeq(p, 1, k)
    <2> DEFINE q == SubSeq(p, 1, k)
               u == SubSeq(t, 1, Len(h) + k)
               v == h \o q
    <2>1. q \in Seq(S) /\ Len(q) = k /\ \A i \in 1 .. k : q[i] = p[i]
      BY <1>0, <1>1
    <2> HIDE DEF q
    <2>2. /\ v \in Seq(S) /\ Len(v) = Len(h) + Len(q)
          /\ \A i \in 1 .. Len(h) + Len(q) : v[i] = IF i <= Len(h) THEN h[i] ELSE q[i - Len(h)]
      BY <2>1, ConcatProperties
    <2> HIDE DEF v, t
    <2>3. u \in Seq(S) /\ Len(u) = Len(h) + k /\ \A i \in 1 .. Len(h) + k : u[i] = t[i]
      BY <1>0, <1>4
    <2> HIDE DEF u
    <2>4. \A i \in 1 .. Len(u) : u[i] = v[i]
      <3> SUFFICES ASSUME NEW i \in 1 .. Len(h) + k PROVE u[i] = v[i]
        BY <2>3
      <3>1. u[i] = IF i <= Len(h) THEN h[i] ELSE p[i - Len(h)]
        BY <1>0, <1>4, <2>3
      <3>2. v[i] = IF i <= Len(h) THEN h[i] ELSE q[i - Len(h)]
        BY <1>0, <2>1, <2>2
      <3>3. i <= Len(h) \/ i - Len(h) \in 1 .. k
        BY <1>0
      <3>4. QED
        BY <2>1, <3>1, <3>2, <3>3
    <2>5. u = v
      BY <1>0, <2>1, <2>2, <2>3, <2>4, SeqEqual
    <2>6. QED
      BY <2>5 DEF u, v, q
  <1>6. SubSeq(t, Len(h) + k + 1, Len(h) + n) = SubSeq(p, k + 1, n)
    <2> DEFINE u == SubSeq(t, Len(h) + k + 1, Len(h) + n)
               v == SubSeq(p, k + 1, n)
    <2> HIDE DEF t
    <2>1. u \in Seq(S) /\ Len(u) = n - k /\ \A i \in 1 .. n - k : u[i] = t[Len(h) + k + i]
      BY <1>0, <1>4
    <2>2. v \in Seq(S) /\ Len(v) = n - k /\ \A i \in 1 .. n - k : v[i] = p[k + i]
      BY <1>0, <1>1
    <2> HIDE DEF u, v
    <2>3. \A i \in 1 .. Len(u) : u[i] = v[i]
      <3> SUFFICES ASSUME NEW i \in 1 .. n - k PROVE u[i] = v[i]
        BY <2>1
      <3>1. /\ Len(h) + k + i \in 1 .. Len(h) + n /\ ~(Len(h) + k + i <= Len(h))
            /\ Len(h) + k + i - Len(h) = k + i
        BY <1>0
      <3>2. t[Len(h) + k + i] = p[k + i]
        BY <1>4, <3>1
      <3>3. QED
        BY <2>1, <2>2, <3>2
    <2>4. u = v
      BY <2>1, <2>2, <2>3, SeqEqual
    <2>5. QED
      BY <2>4 DEF u, v
  <1>7. Prefix(t, l) = h \o Piece(s, 0, k)
    BY <1>2, <1>3, <1>4, <1>5 DEF Prefix
  <1>8. Len(Prefix(t, l)) = Len(h) + k
    <2>1. 0 \in 0 .. k /\ k \in 0 .. Len(s)
      BY <1>0
    <2>2. Piece(s, 0, k) \in Seq(S) /\ Len(Piece(s, 0, k)) = k - 0
      BY <2>1, PieceProperties
    <2>3. Len(h \o Piece(s, 0, k)) = Len(h) + Len(Piece(s, 0, k))
      BY <2>2, ConcatProperties
    <2> HIDE DEF t
    <2>4. Len(Prefix(t, l)) = Len(h \o Piece(s, 0, k))
      BY <1>7
    <2>5. k - 0 = k
      BY <1>0
    <2>6. QED
      BY <2>2, <2>3, <2>4, <2>5
  <1> HIDE DEF t
  <1>9. Suffix(t, Len(Prefix(t, l))) = Piece(s, k, n)
    BY <1>3, <1>4, <1>6, <1>8 DEF Suffix
  <1>10. QED
    BY <1>7, <1>9 DEF t, p

-----------------------------------------------------------------------------
(* What each end makes of what the other has written.                      *)

Symbols ==
    Bytes \cup Names \cup {Decimal[n] : n \in DOMAIN Decimal} \cup {SP, NL}
    \cup {"REGISTER", "STORE", "RETRIEVE", "DELETE", "LEAVE", "OK", "KO", "DATA", "message"}

RequestOf(c) == RequestHeader(c.cmd, c.obj, Len(c.block))

\* What each call of the library has: a name, and a block if it is an os_store.
LEMMA CallsAreRequests ==
  ASSUME NEW c \in Calls \cup {FirstCall}
  PROVE  /\ c.cmd \in {"REGISTER", "STORE", "RETRIEVE", "DELETE", "LEAVE"}
         /\ c.cmd # "LEAVE" => c.obj \in Names
         /\ c.cmd \in {"STORE", "RETRIEVE", "DELETE"} => c.obj \in Objects
         /\ c.cmd = "STORE" => c.block \in Blocks /\ c.block # <<>>
         /\ c.cmd # "STORE" => c.block = <<>>
         /\ c.block \in Seq(Bytes)
         /\ Len(c.block) \in DOMAIN Decimal \cup {0}
  <1>1. CASE c = FirstCall
    <2>1. (CHOOSE n \in Names : TRUE) \in Names
      BY SizesAssumption
    <2>2. c.cmd = "REGISTER" /\ c.obj \in Names /\ c.block = <<>>
      BY <1>1, <2>1 DEF FirstCall, Call
    <2>3. <<>> \in Seq(Bytes) /\ Len(<<>>) = 0
      OBVIOUS
    <2>4. QED
      BY <2>2, <2>3
  <1>2. CASE c \in Calls
    <2>1. CASE c \in StoreCalls
      <3>1. PICK o \in Objects, b \in Blocks : c = Call("STORE", o, b)
        BY <2>1 DEF StoreCalls
      <3>2. c.cmd = "STORE" /\ c.obj = o /\ c.block = b
        BY <3>1 DEF Call
      <3>3. b \in Seq(Bytes) /\ b # <<>> /\ 0 .. Len(b) \subseteq DOMAIN Decimal /\ o \in Names
        BY SizesAssumption DEF Bytes
      <3>4. Len(b) \in DOMAIN Decimal
        <4>1. Len(b) \in 0 .. Len(b)
          BY <3>3
        <4>2. QED
          BY <3>3, <4>1
      <3>5. QED
        BY <3>2, <3>3, <3>4
    <2>2. CASE c \in NameCalls
      <3>1. PICK cmd \in {"RETRIEVE", "DELETE"}, o \in Objects : c = Call(cmd, o, <<>>)
        BY <2>2 DEF NameCalls
      <3>2. c.cmd = cmd /\ c.obj = o /\ c.block = <<>> /\ o \in Names
        BY <3>1, SizesAssumption DEF Call
      <3>3. <<>> \in Seq(Bytes) /\ Len(<<>>) = 0
        OBVIOUS
      <3>4. QED
        BY <3>2, <3>3
    <2>3. CASE c = Call("LEAVE", "", <<>>)
      <3>1. c.cmd = "LEAVE" /\ c.block = <<>>
        BY <2>3 DEF Call
      <3>2. <<>> \in Seq(Bytes) /\ Len(<<>>) = 0
        OBVIOUS
      <3>3. QED
        BY <3>1, <3>2
    <2>4. c \in StoreCalls \/ c \in NameCalls \/ c = Call("LEAVE", "", <<>>)
      BY <1>2 DEF Calls
    <2>5. QED
      BY <2>1, <2>2, <2>3, <2>4
  <1>3. QED
    BY <1>1, <1>2

\* The header of a request has at most 8 symbols.
LEMMA HeadersAreTexts ==
  ASSUME NEW c \in Calls \cup {FirstCall}
  PROVE  /\ RequestOf(c) \in Seq(Symbols)
         /\ Len(RequestOf(c)) \in 1 .. 8
  <1>1. CASE c.cmd = "LEAVE"
    <2>1. RequestOf(c) = <<"LEAVE", SP, NL>>
      BY <1>1 DEF RequestOf, RequestHeader
    <2>2. QED
      BY <2>1 DEF Symbols
  <1>2. CASE c.cmd = "STORE"
    <2>1. PICK n \in Symbols, o \in Symbols : RequestOf(c) = <<"STORE", SP, o, SP, n, SP, NL, SP>>
      <3>1. /\ RequestOf(c) = <<"STORE", SP, c.obj, SP, Decimal[Len(c.block)], SP, NL, SP>>
        BY <1>2 DEF RequestOf, RequestHeader
      <3>2. Decimal[Len(c.block)] \in Symbols /\ c.obj \in Symbols
        BY <1>2, CallsAreRequests, SizesAssumption DEF Symbols
      <3>3. QED
        BY <3>1, <3>2
    <2>2. QED
      BY <2>1 DEF Symbols
  <1>3. CASE c.cmd \in {"REGISTER", "RETRIEVE", "DELETE"}
    <2>1. PICK cmd \in Symbols, o \in Symbols : RequestOf(c) = <<cmd, SP, o, SP, NL>>
      <3>1. RequestOf(c) = <<c.cmd, SP, c.obj, SP, NL>>
        BY <1>3 DEF RequestOf, RequestHeader
      <3>2. c.cmd \in Symbols /\ c.obj \in Symbols
        BY <1>3, CallsAreRequests DEF Symbols
      <3>3. QED
        BY <3>1, <3>2
    <2>2. QED
      BY <2>1 DEF Symbols
  <1>4. QED
    BY <1>1, <1>2, <1>3, CallsAreRequests

\* The header of the data has 6.
LEMMA DataHeadersAreTexts ==
  ASSUME NEW len \in DOMAIN Decimal
  PROVE  DataHeader(len) \in Seq(Symbols) /\ Len(DataHeader(len)) = 6
  <1> DEFINE h == DataHeader(len)
  <1>1. PICK n \in Symbols : n = Decimal[len]
    BY DEF Symbols
  <1>2. h = <<"DATA", SP, n, SP, NL, SP>>
    BY <1>1 DEF DataHeader
  <1>3. "DATA" \in Symbols /\ SP \in Symbols /\ NL \in Symbols
    BY DEF Symbols
  <1> HIDE DEF h
  <1>4. h \in Seq(Symbols) /\ Len(h) = 6
    BY <1>1, <1>2, <1>3
  <1>5. QED
    BY <1>4 DEF h

\* The name of an object is that of its file.
LEMMA FileOfObject ==
  ASSUME NEW o \in Objects
  PROVE  FileOf(<<o>>) = o /\ o \in Files
  <1>1. Head(<<o>>) = o
    OBVIOUS
  <1>2. FileOf(<<o>>) = Head(<<o>>)
    BY DEF FileOf
  <1>3. QED
    BY <1>1, <1>2 DEF Files

\* A part of a block may be the contents of an object.
LEMMA PartsAreContents ==
  ASSUME NEW b \in Blocks, NEW s \in Seq(Bytes), Len(s) <= Len(b)
  PROVE  s \in Contents
  <1>1. /\ b \in Seq(Bytes) /\ 0 .. Len(b) \subseteq DOMAIN Decimal /\ Len(b) < SizeModulus
        /\ SizeModulus \in Nat
    BY SizesAssumption DEF Bytes
  <1>2. PICK l \in Nat, n \in Nat : l = Len(s) /\ n = Len(b)
    BY <1>1
  <1>3. l \in 0 .. n /\ l < SizeModulus
    BY <1>1, <1>2
  <1>4. QED
    BY <1>1, <1>2, <1>3 DEF Contents

\* What a write leaves of a file, and that nothing is lost unless it says so.
LEMMA ChunkIsWritten ==
  ASSUME NEW f \in Files, NEW contents \in Seq(Bytes), NEW chunk \in Seq(Bytes),
         store \in [Files -> Seq(Bytes) \cup {Absent}], WriteChunk(f, contents, chunk)
  PROVE  /\ store' \in [Files -> Seq(Bytes) \cup {Absent}]
         /\ \A g \in Files \ {f} : store'[g] = store[g]
         /\ store'[f] \in Seq(Bytes) /\ Len(store'[f]) <= Len(contents) + Len(chunk)
         /\ ~lost' => store'[f] = contents \o chunk /\ ~(worker = "storing" /\ lost)
  <1>1. PICK n \in 0 .. Len(chunk) :
          /\ store' = [store EXCEPT ![f] = contents \o Prefix(chunk, n)]
          /\ lost' = ((worker = "storing" /\ lost) \/ n < Len(chunk))
    BY Zenon DEF WriteChunk
  <1>2. Len(chunk) \in Nat /\ Len(contents) \in Nat
    OBVIOUS
  <1>3. Prefix(chunk, n) = SubSeq(chunk, 1, n)
    BY <1>2 DEF Prefix, Smaller
  <1> DEFINE c == SubSeq(chunk, 1, n)
  <1>4. c \in Seq(Bytes) /\ Len(c) = n /\ (n = Len(chunk) => c = chunk)
    BY <1>2
  <1> HIDE DEF c
  <1>5. contents \o c \in Seq(Bytes) /\ Len(contents \o c) = Len(contents) + n
    BY <1>4, ConcatProperties
  <1>6. store' = [store EXCEPT ![f] = contents \o c]
    BY <1>1, <1>3 DEF c
  <1>7. store'[f] = contents \o c
    BY <1>6
  <1>8. ~lost' => ~(worker = "storing" /\ lost) /\ ~(n < Len(chunk))
    BY <1>1, Zenon
  <1>9. ~lost' => n = Len(chunk)
    BY <1>2, <1>8
  <1>10. Len(store'[f]) <= Len(contents) + Len(chunk)
    BY <1>2, <1>5, <1>7
  <1>11. QED
    BY <1>4, <1>5, <1>6, <1>7, <1>8, <1>9, <1>10

\* The server refuses a request whose name is too long, and takes any other for what
\* it is, with the data that came with it up to a NUL byte.
LEMMA ServerUnderstands ==
  ASSUME NEW c \in Calls \cup {FirstCall}, NEW n \in 0 .. Len(c.block), NEW p,
         p = parseRequestHeader(RequestOf(c) \o Piece(c.block, 0, n))
  PROVE  \/ p.error # "NO_MSG_ERROR" /\ p.cmd = "UNKOWN"
         \/ /\ p.error = "NO_MSG_ERROR" /\ p.cmd = c.cmd
            /\ c.cmd # "LEAVE" => p.name = <<c.obj>>
            /\ c.cmd = "STORE" => p.len = Len(c.block) /\ p.data = CString(Piece(c.block, 0, n))
  <1> DEFINE d == Piece(c.block, 0, n)
  <1>1. c.block \in Seq(Bytes) /\ Len(c.block) \in Nat
    BY CallsAreRequests
  <1>2. d \in Seq(Bytes) /\ Len(d) = n - 0
    <2>1. 0 \in 0 .. n
      BY <1>1
    <2>2. QED
      BY <1>1, <2>1, PieceProperties
  <1> HIDE DEF d
  <1>3. CASE c.cmd = "STORE"
    <2>1. c.obj \in Names /\ Len(c.block) \in DOMAIN Decimal /\ Len(d) <= Len(c.block)
      BY <1>1, <1>2, <1>3, CallsAreRequests, SizesAssumption
    <2>2. p = IF c.obj \in LongNames THEN Unparsed("BUFFER_OVERFLOW")
              ELSE Parsed("NO_MSG_ERROR", "STORE", <<c.obj>>, Len(c.block), CString(d))
      BY <1>2, <1>3, <2>1, StoreIsUnderstood DEF d, RequestOf
    <2>3. QED
      BY <1>3, <2>2 DEF Parsed, Unparsed, d
  <1>4. CASE c.cmd # "STORE"
    <2>1. RequestOf(c) \o Piece(c.block, 0, n) = RequestOf(c)
      <3>1. c.block = <<>> /\ n = 0
        BY <1>4, CallsAreRequests
      <3>2. Piece(<<>>, 0, 0) = <<>>
        BY DEF Piece
      <3>3. QED
        BY <3>1, <3>2, HeadersAreTexts, ConcatEmptySeq
    <2>2. CASE c.cmd = "LEAVE"
      <3>1. p = Parsed("NO_MSG_ERROR", "LEAVE", <<>>, 0, <<>>)
        BY <2>1, <2>2, LeaveIsUnderstood DEF RequestOf
      <3>2. QED
        BY <2>2, <3>1 DEF Parsed
    <2>3. CASE c.cmd \in {"REGISTER", "RETRIEVE", "DELETE"}
      <3>0. c.obj \in Names
        BY <2>3, CallsAreRequests
      <3>1. p = IF c.obj \in LongNames THEN Unparsed("BUFFER_OVERFLOW")
                ELSE Parsed("NO_MSG_ERROR", c.cmd, <<c.obj>>, 0, <<>>)
        <4> HIDE DEF Parsed, Unparsed
        <4>1. p = parseRequestHeader(RequestHeader(c.cmd, c.obj, Len(c.block)))
          BY <2>1 DEF RequestOf
        <4>2. QED
          BY <2>3, <3>0, <4>1, RequestIsUnderstood, Zenon
      <3>2. QED
        BY <1>4, <3>1 DEF Parsed, Unparsed
    <2>4. QED
      BY <1>4, <2>2, <2>3, CallsAreRequests
  <1>5. QED
    BY <1>3, <1>4

\* What strlen makes of the start of a block: all of it, or less if the block has a
\* NUL byte.
LEMMA CutAtZero ==
  ASSUME NEW b \in Seq(Bytes), NEW k \in 0 .. Len(b)
  PROVE  LET d == CString(Piece(b, 0, k)) IN
         /\ d \in Seq(Bytes) /\ Len(d) \in 0 .. k
         /\ d = Piece(b, 0, k) \/ (HasZero(b) /\ Len(d) < k)
         /\ d = Piece(b, 0, k) => Len(d) = k
  <1> DEFINE p == Piece(b, 0, k)
  <1>0. Len(b) \in Nat /\ k \in Nat
    OBVIOUS
  <1>1. p \in Seq(Bytes) /\ Len(p) = k /\ \A i \in 1 .. k : p[i] = b[i]
    <2>1. 0 \in 0 .. k
      BY <1>0
    <2>2. p \in Seq(Bytes) /\ Len(p) = k - 0 /\ \A i \in 1 .. k - 0 : p[i] = b[0 + i]
      BY <2>1, PieceProperties
    <2> HIDE DEF p
    <2>3. QED
      BY <1>0, <2>2
  <1> HIDE DEF p
  <1>2. /\ strlen(p) \in 0 .. Len(p) /\ CString(p) \in Seq(Bytes) /\ Len(CString(p)) = strlen(p)
        /\ Contains(p, NUL) <=> strlen(p) < Len(p)
        /\ ~Contains(p, NUL) => CString(p) = p
    BY <1>1, CStringIsPrefix
  <1>3. Contains(p, NUL) => HasZero(b)
    <2>1. \A i \in 1 .. k : i \in 1 .. Len(b)
      BY <1>0
    <2>2. QED
      BY <1>1, <2>1 DEF Contains, HasZero
  <1>4. /\ CString(p) \in Seq(Bytes) /\ Len(CString(p)) \in 0 .. k
        /\ CString(p) = p \/ (HasZero(b) /\ Len(CString(p)) < k)
        /\ CString(p) = p => Len(CString(p)) = k
    BY <1>0, <1>1, <1>2, <1>3
  <1>5. QED
    BY <1>4 DEF p

\* What the worker reads when it waits for a request: the header, with as much of the
\* block as has arrived and fits the buffer.
LEMMA ReadUnread ==
  ASSUME Using, Synchronized, NEW p, p = parseRequestHeader(Prefix(toServer, BufferSize)),
         ReadRequest(p)
  PROVE  /\ at \in {"send", "reply"} /\ toClient = <<>>
         /\ at = "reply" => unsent = <<>>
         /\ \E n \in 0 .. Len(call.block), k \in 0 .. Len(call.block) :
             /\ k <= n
             /\ toServer' = Piece(call.block, k, n)
             /\ unsent = Piece(call.block, n, Len(call.block))
             /\ \/ p.error # "NO_MSG_ERROR" /\ p.cmd = "UNKOWN"
                \/ /\ p.error = "NO_MSG_ERROR" /\ p.cmd = call.cmd
                   /\ call.cmd # "LEAVE" => p.name = <<call.obj>>
                   /\ call.cmd = "STORE" => /\ p.len = Len(call.block)
                                            /\ p.data = CString(Piece(call.block, 0, k))
  <1>1. worker = "select" /\ toServer # <<>>
    BY DEF ReadRequest
  <1>2. at \in {"send", "reply"}
    BY <1>1 DEF Using, Resting, Reading, Synchronized
  <1>3. Unread /\ (at = "reply" => unsent = <<>>)
    BY <1>1, <1>2 DEF Asking, Synchronized
  <1>4. call \in Calls \cup {FirstCall}
    BY DEF TypesInv, Synchronized
  <1>5. call.block \in Seq(Bytes) /\ Len(call.block) \in Nat
    BY <1>4, CallsAreRequests
  <1>6. PICK n \in 0 .. Len(call.block) :
           /\ toServer = Header \o Piece(call.block, 0, n)
           /\ unsent = Piece(call.block, n, Len(call.block))
    BY <1>3 DEF Unread
  <1> DEFINE S == Symbols
             h == RequestOf(call)
  <1>7. h \in Seq(S) /\ Len(h) <= BufferSize /\ h = Header
    <2>1. Len(h) \in 1 .. 8 /\ h \in Seq(S)
      BY <1>4, HeadersAreTexts
    <2> HIDE DEF h
    <2>2. BufferSize \in Nat /\ BufferSize >= 8
      BY SizesAssumption
    <2>3. \A i \in 1 .. 8 : i <= BufferSize
      BY <2>2
    <2>4. Len(h) <= BufferSize
      BY <2>1, <2>3, Zenon
    <2>5. h = Header
      BY DEF h, RequestOf, Header
    <2>6. QED
      BY <2>1, <2>4, <2>5
  <1>8. call.block \in Seq(S)
    BY <1>5 DEF Symbols
  <1> HIDE DEF S, h
  <1>9. PICK k \in 0 .. n :
           /\ Prefix(h \o Piece(call.block, 0, n), BufferSize) = h \o Piece(call.block, 0, k)
           /\ Suffix(h \o Piece(call.block, 0, n),
                     Len(Prefix(h \o Piece(call.block, 0, n), BufferSize)))
              = Piece(call.block, k, n)
    <2>1. BufferSize \in Nat
      BY SizesAssumption
    <2>2. h \in Seq(S) /\ Len(h) <= BufferSize
      BY <1>7
    <2> QED
      BY <1>8, <2>1, <2>2, ReadHeader
  <1>10. toServer = h \o Piece(call.block, 0, n)
    BY <1>6, <1>7
  <1>11. toServer' = Piece(call.block, k, n)
    BY <1>9, <1>10 DEF ReadRequest
  <1>12. k \in 0 .. Len(call.block) /\ k <= n
    BY <1>5
  <1>13. \/ p.error # "NO_MSG_ERROR" /\ p.cmd = "UNKOWN"
         \/ /\ p.error = "NO_MSG_ERROR" /\ p.cmd = call.cmd
            /\ call.cmd # "LEAVE" => p.name = <<call.obj>>
            /\ call.cmd = "STORE" => /\ p.len = Len(call.block)
                                     /\ p.data = CString(Piece(call.block, 0, k))
    <2>1. p = parseRequestHeader(RequestOf(call) \o Piece(call.block, 0, k))
      BY <1>9, <1>10 DEF h
    <2>2. QED
      BY <1>4, <1>12, <2>1, ServerUnderstands
  <1>14. toClient = <<>>
    BY <1>3 DEF Unread
  <1>15. QED
    BY <1>2, <1>3, <1>6, <1>11, <1>12, <1>13, <1>14

\* A request without a block is read whole.
LEMMA ReadWhole ==
  ASSUME Using, Synchronized, NEW p, p = parseRequestHeader(Prefix(toServer, BufferSize)),
         ReadRequest(p), p.cmd \in {"REGISTER", "RETRIEVE", "DELETE", "LEAVE"}
  PROVE  /\ at = "reply" /\ toClient = <<>> /\ toServer' = <<>> /\ unsent = <<>>
         /\ p.cmd = call.cmd /\ call.block = <<>>
         /\ call.cmd # "LEAVE" => p.name = <<call.obj>>
  <1>1. call \in Calls \cup {FirstCall} /\ (at = "send" => call.cmd = "STORE")
    BY DEF Synchronized, TypesInv
  <1>2. PICK n \in 0 .. Len(call.block), k \in 0 .. Len(call.block) :
             /\ k <= n
             /\ toServer' = Piece(call.block, k, n)
             /\ unsent = Piece(call.block, n, Len(call.block))
             /\ p.cmd = call.cmd
             /\ call.cmd # "LEAVE" => p.name = <<call.obj>>
    BY ReadUnread
  <1>3. call.block = <<>> /\ at # "send"
    BY <1>1, <1>2, CallsAreRequests
  <1>4. n = 0 /\ k = 0 /\ Len(call.block) = 0
    BY <1>3
  <1>5. Piece(<<>>, 0, 0) = <<>>
    BY DEF Piece
  <1>6. at \in {"send", "reply"} /\ toClient = <<>>
    BY ReadUnread
  <1>7. QED
    BY <1>2, <1>3, <1>4, <1>5, <1>6


\* A response without data is read whole.
LEMMA ReadShort ==
  ASSUME NEW t \in {<<>>, OKResponse, KOResponse, KOMessage}
  PROVE  Prefix(t, ResponseSize) = t /\ Suffix(t, Len(t)) = <<>>
  <1> DEFINE S == {"OK", "KO", "message", SP, NL}
  <1>1. t \in Seq(S) /\ Len(t) \in 0 .. 5
    <2>1. CASE t = <<>>
      BY <2>1
    <2>2. CASE t = OKResponse
      BY <2>2 DEF OKResponse
    <2>3. CASE t = KOResponse
      BY <2>3 DEF KOResponse
    <2>4. CASE t = KOMessage
      BY <2>4 DEF KOMessage
    <2>5. QED
      BY <2>1, <2>2, <2>3, <2>4
  <1> HIDE DEF S
  <1>2. ResponseSize \in Nat /\ ResponseSize >= 6
    BY SizesAssumption
  <1>3. \A i \in 0 .. 5 : Smaller(ResponseSize, i) = i
    BY <1>2 DEF Smaller
  <1>4. Smaller(ResponseSize, Len(t)) = Len(t)
    BY <1>1, <1>3, Zenon
  <1>5. /\ Prefix(t, ResponseSize) = SubSeq(t, 1, Len(t))
        /\ Suffix(t, Len(t)) = SubSeq(t, Len(t) + 1, Len(t))
    BY <1>4 DEF Prefix, Suffix
  <1>6. SubSeq(t, 1, Len(t)) = t /\ SubSeq(t, Len(t) + 1, Len(t)) = <<>>
    BY <1>1
  <1>7. QED
    BY <1>5, <1>6

\* What the library makes of the answer to its request.
LEMMA AnswerIsRead ==
  ASSUME Using, Synchronized, ReadReply
  PROVE  /\ worker # "storing" /\ (worker \in {"select", "retrieving"} => toServer = <<>>)
         /\ \/ toClient' = <<>> /\ worker # "retrieving" /\ ~Answered /\ Raw # OKResponse
            \/ /\ toClient' = <<>> /\ worker # "retrieving" /\ call.cmd # "RETRIEVE"
               /\ call.cmd = "STORE" /\ ~lost => Stored = call.block
            \/ /\ call.cmd = "RETRIEVE" /\ Stored \in Contents
               /\ \E m \in 0 .. Len(Stored), k \in 0 .. Len(Stored) :
                    /\ k <= m /\ Written(m)
                    /\ toClient' = Piece(Stored, k, m)
                    /\ getResponseHeader(Raw) = Response("NO_MSG_ERROR", "DATA", Len(Stored),
                                                         CString(Piece(Stored, 0, k)))
  <1>1. at = "reply" /\ (toClient # <<>> \/ ~serverOpen) /\ toClient' = Suffix(toClient, Len(Raw))
    BY DEF ReadReply
  <1>2. /\ Asking /\ serverOpen = (worker \notin {"closed", "dead"})
        /\ worker \in {"select", "storing", "retrieving", "closing", "closed", "dead"}
    BY DEF Synchronized, TypesInv
  <1>3. worker # "storing"
    BY <1>1, <1>2 DEF Asking, Storing
  <1>4. ~(worker \in {"select", "retrieving"} /\ Unread)
    BY <1>1, <1>2 DEF Unread
  <1>5. Answer /\ (worker \in {"select", "retrieving"} => toServer = <<>>)
    BY <1>1, <1>2, <1>3, <1>4 DEF Asking
  <1>6. CASE toClient \in {<<>>, KOResponse, KOMessage} /\ worker # "retrieving"
    <2>1. Raw = toClient /\ toClient' = <<>>
      BY <1>1, <1>6, ReadShort DEF Raw
    <2>2. ~Answered
      BY <1>6, <2>1, ShortResponses DEF Answered, Response
    <2>3. Raw # OKResponse
      BY <1>6, <2>1 DEF OKResponse, KOResponse, KOMessage
    <2>4. QED
      BY <1>3, <1>5, <1>6, <2>1, <2>2, <2>3
  <1>7. CASE /\ toClient = OKResponse /\ call.cmd # "RETRIEVE" /\ worker # "retrieving"
             /\ call.cmd = "STORE" /\ ~lost => Stored = call.block
    <2>1. toClient' = <<>>
      BY <1>1, <1>7, ReadShort DEF Raw
    <2>2. QED
      BY <1>3, <1>5, <1>7, <2>1
  <1>8. CASE /\ call.cmd = "RETRIEVE" /\ Stored \in Contents
             /\ \E m \in 0 .. Len(Stored) :
                  Written(m) /\ toClient = DataHeader(Len(Stored)) \o Piece(Stored, 0, m)
    <2>1. PICK m \in 0 .. Len(Stored) :
             Written(m) /\ toClient = DataHeader(Len(Stored)) \o Piece(Stored, 0, m)
      BY <1>8
    <2>2. PICK b \in Contents : b = Stored
      BY <1>8
    <2>3. b \in Seq(Bytes) /\ Len(b) \in DOMAIN Decimal
      BY DEF Contents
    <2> DEFINE S == Symbols
               h == DataHeader(Len(b))
    <2>4. b \in Seq(S)
      BY <2>3 DEF Symbols
    <2>5. h \in Seq(S) /\ Len(h) = 6
      BY <2>3, DataHeadersAreTexts
    <2>6. ResponseSize \in Nat /\ 6 <= ResponseSize
      BY SizesAssumption
    <2> HIDE DEF S, h
    <2>7. m \in 0 .. Len(b) /\ toClient = h \o Piece(b, 0, m)
      BY <2>1, <2>2 DEF h
    <2>8. PICK k \in 0 .. m :
            /\ Prefix(h \o Piece(b, 0, m), ResponseSize) = h \o Piece(b, 0, k)
            /\ Suffix(h \o Piece(b, 0, m), Len(Prefix(h \o Piece(b, 0, m), ResponseSize)))
               = Piece(b, k, m)
      <3>1. Len(h) <= ResponseSize
        BY <2>5, <2>6
      <3>2. QED
        BY <2>4, <2>5, <2>6, <2>7, <3>1, ReadHeader
    <2>9. Raw = h \o Piece(b, 0, k) /\ toClient' = Piece(b, k, m)
      BY <1>1, <2>7, <2>8 DEF Raw
    <2>10. k \in 0 .. Len(b) /\ k <= m
      <3>1. Len(b) \in Nat
        BY <2>3
      <3>2. QED
        BY <2>7, <3>1
    <2>11. getResponseHeader(Raw) = Response("NO_MSG_ERROR", "DATA", Len(b), CString(Piece(b, 0, k)))
      <3>1. Piece(b, 0, k) \in Seq(Bytes)
        <4>1. 0 \in 0 .. k
          BY <2>10
        <4>2. QED
          BY <2>3, <2>10, <4>1, PieceProperties
      <3>2. QED
        BY <2>3, <2>9, <3>1, DataAreUnderstood DEF h
    <2>12. QED
      BY <1>3, <1>5, <1>8, <2>1, <2>2, <2>9, <2>10, <2>11
  <1>9. QED
    BY <1>5, <1>6, <1>7, <1>8 DEF Answer


-----------------------------------------------------------------------------
(* The worker reads a request.                                             *)

\* A request that is refused, or answered without touching the objects.
LEMMA RefuseStep ==
  ASSUME Using, Synchronized, NEW p, p = parseRequestHeader(Prefix(toServer, BufferSize)),
         Refuse(p)
  PROVE  Synchronized'
  <1>1. /\ worker' = "closing" /\ worker = "select"
        /\ UNCHANGED <<toClient, store, object, left, lost, clientOpen, serverOpen, at,
                       call, result, unsent, data, size, left_data_len>>
        /\ ReadRequest(p)
    BY DEF Refuse, ReadRequest, Worked, clientVars
  <1>2. at \in {"send", "reply"} /\ toClient = <<>>
    BY <1>1, ReadUnread
  <1>3. TypesInv /\ Asking
    BY DEF Synchronized
  <1>4. TypesInv'
    BY <1>1, <1>3 DEF TypesInv
  <1>5. ObjectsAreContents' /\ Resting' /\ ResultIsTrue' /\ Reading'
    BY <1>1, <1>2 DEF ObjectsAreContents, Resting, ResultIsTrue, Reading
  <1>6. Asking'
    BY <1>1, <1>2, <1>3 DEF Asking, Answer
  <1>7. QED
    BY <1>4, <1>5, <1>6 DEF Synchronized

\* The answer of a REGISTER is written on an empty stream.
LEMMA RegisterStep ==
  ASSUME Using, Synchronized, NEW p, p = parseRequestHeader(Prefix(toServer, BufferSize)),
         Register(p), ~astray
  PROVE  Synchronized'
  <1>1. /\ worker = "select" /\ p.cmd = "REGISTER"
        /\ UNCHANGED <<store, object, left, lost, clientOpen, serverOpen, at,
                       call, result, unsent, data, size, left_data_len>>
        /\ ReadRequest(p)
        /\ Reply(OKResponse, "select") \/ Reply(KOMessage, "closing")
    <2>1. store' = store
      BY DEF Register
    <2>2. QED
      BY <2>1 DEF Register, ReadRequest, Worked, clientVars
  <1>2. /\ at = "reply" /\ toClient = <<>> /\ toServer' = <<>> /\ unsent = <<>>
        /\ call.cmd = "REGISTER"
    BY <1>1, ReadWhole
  <1>3. TypesInv /\ ObjectsAreContents
    BY DEF Synchronized
  <1>4. \/ toClient' = OKResponse /\ worker' = "select"
        \/ toClient' = KOMessage /\ worker' = "closing"
    BY <1>1, <1>2, <1>3 DEF Reply, TypesInv, OKResponse, KOMessage
  <1>5. TypesInv'
    BY <1>1, <1>3, <1>4 DEF TypesInv
  <1>6. ObjectsAreContents'
    BY <1>1, <1>3, <1>4 DEF ObjectsAreContents
  <1>7. Resting' /\ ResultIsTrue' /\ Reading'
    BY <1>1, <1>2 DEF Resting, ResultIsTrue, Reading
  <1>8. Asking'
    BY <1>1, <1>2, <1>4 DEF Asking, Answer
  <1>9. QED
    BY <1>5, <1>6, <1>7, <1>8 DEF Synchronized

\* So is that of a LEAVE, which ends the worker's loop.
LEMMA LeaveStep ==
  ASSUME Using, Synchronized, NEW p, p = parseRequestHeader(Prefix(toServer, BufferSize)),
         Leave(p)
  PROVE  Synchronized'
  <1>1. /\ worker = "select" /\ p.cmd = "LEAVE"
        /\ UNCHANGED <<store, object, left, lost, clientOpen, serverOpen, at,
                       call, result, unsent, data, size, left_data_len>>
        /\ ReadRequest(p)
        /\ Reply(OKResponse, "closing")
    BY DEF Leave, ReadRequest, Worked, clientVars
  <1>2. /\ at = "reply" /\ toClient = <<>> /\ toServer' = <<>> /\ unsent = <<>>
        /\ call.cmd = "LEAVE"
    BY <1>1, ReadWhole
  <1>3. TypesInv /\ ObjectsAreContents
    BY DEF Synchronized
  <1>4. toClient' = OKResponse /\ worker' = "closing"
    BY <1>1, <1>2, <1>3 DEF Reply, TypesInv, OKResponse
  <1>5. TypesInv'
    BY <1>1, <1>3, <1>4 DEF TypesInv
  <1>6. ObjectsAreContents'
    BY <1>4 DEF ObjectsAreContents
  <1>7. Resting' /\ ResultIsTrue' /\ Reading'
    BY <1>1, <1>2 DEF Resting, ResultIsTrue, Reading
  <1>8. Asking'
    BY <1>1, <1>2, <1>4 DEF Asking, Answer
  <1>9. QED
    BY <1>5, <1>6, <1>7, <1>8 DEF Synchronized

\* And that of a DELETE, which removes the object, or leaves it.
LEMMA DeleteStep ==
  ASSUME Using, Synchronized, NEW p, p = parseRequestHeader(Prefix(toServer, BufferSize)),
         Delete(p)
  PROVE  Synchronized'
  <1>1. /\ worker = "select" /\ p.cmd = "DELETE"
        /\ UNCHANGED <<object, left, lost, clientOpen, serverOpen, at,
                       call, result, unsent, data, size, left_data_len>>
        /\ ReadRequest(p)
        /\ \/ Reply(OKResponse, "select")
           \/ Reply(KOResponse, "select")
           \/ Reply(KOMessage, "select")
           \/ Reply(KOMessage, "closing")
        /\ store' = store \/ store' = [store EXCEPT ![FileOf(p.name)] = Absent]
    BY DEF Delete, ReadRequest, Worked, clientVars
  <1>2. /\ at = "reply" /\ toClient = <<>> /\ toServer' = <<>> /\ unsent = <<>>
        /\ call.cmd = "DELETE" /\ p.name = <<call.obj>>
    BY <1>1, ReadWhole
  <1>3. TypesInv /\ ObjectsAreContents
    BY DEF Synchronized
  <1>4. FileOf(p.name) = call.obj /\ call.obj \in Files
    BY <1>2, <1>3, CallsAreRequests, FileOfObject DEF TypesInv
  <1>5. toClient' \in {OKResponse, KOResponse, KOMessage} /\ worker' \in {"select", "closing"}
    BY <1>1, <1>2, <1>3 DEF Reply, TypesInv, OKResponse, KOResponse, KOMessage
  <1>6. TypesInv'
    BY <1>1, <1>3, <1>4, <1>5 DEF TypesInv
  <1>7. ObjectsAreContents'
    BY <1>1, <1>3, <1>4, <1>5 DEF ObjectsAreContents, TypesInv, Files
  <1>8. Resting' /\ ResultIsTrue' /\ Reading'
    BY <1>1, <1>2 DEF Resting, ResultIsTrue, Reading
  <1>9. Asking'
    BY <1>1, <1>2, <1>5 DEF Asking, Answer
  <1>10. QED
    BY <1>6, <1>7, <1>8, <1>9 DEF Synchronized

\* A STORE whose file cannot be opened is refused in step when its whole block came
\* with the header.
LEMMA StoreOpenFailsStep ==
  ASSUME Using, Synchronized, NEW p, p = parseRequestHeader(Prefix(toServer, BufferSize)),
         StoreOpenFails(p), ~astray'
  PROVE  Synchronized'
  <1>1. /\ worker = "select" /\ p.cmd = "STORE"
        /\ UNCHANGED <<object, left, lost, clientOpen, serverOpen, at,
                       call, result, unsent, data, size, left_data_len>>
        /\ ReadRequest(p)
        /\ Reply(KOResponse, "select")
        /\ store' = store \/ store' = [store EXCEPT ![FileOf(p.name)] = Absent]
        /\ toServer' = <<>> /\ unsent = <<>>
    <2>1. toServer' = <<>> /\ unsent = <<>>
      BY Zenon DEF StoreOpenFails
    <2>2. QED
      BY <2>1 DEF StoreOpenFails, ReadRequest, Worked, clientVars
  <1>2. TypesInv /\ ObjectsAreContents /\ Asking
    BY DEF Synchronized
  <1>3. at = "reply" /\ toClient = <<>>
    <2>1. at \in {"send", "reply"} /\ toClient = <<>>
      BY <1>1, ReadUnread
    <2>2. QED
      BY <1>1, <1>2, <2>1 DEF Asking
  <1>4. call.cmd = "STORE" /\ p.name = <<call.obj>>
    <2>1. PICK n \in 0 .. Len(call.block), k \in 0 .. Len(call.block) :
            p.cmd = call.cmd /\ (call.cmd # "LEAVE" => p.name = <<call.obj>>)
      BY <1>1, ReadUnread
    <2>2. QED
      BY <1>1, <2>1
  <1>5. FileOf(p.name) = call.obj /\ call.obj \in Files
    BY <1>2, <1>4, CallsAreRequests, FileOfObject DEF TypesInv
  <1>6. toClient' = KOResponse /\ worker' = "select"
    BY <1>1, <1>2, <1>3 DEF Reply, TypesInv, KOResponse
  <1>7. TypesInv'
    BY <1>1, <1>2, <1>5, <1>6 DEF TypesInv
  <1>8. ObjectsAreContents'
    BY <1>1, <1>2, <1>5, <1>6 DEF ObjectsAreContents, TypesInv, Files
  <1>9. Resting' /\ ResultIsTrue' /\ Reading'
    BY <1>1, <1>3 DEF Resting, ResultIsTrue, Reading
  <1>10. Asking'
    BY <1>1, <1>3, <1>6 DEF Asking, Answer
  <1>11. QED
    BY <1>7, <1>8, <1>9, <1>10 DEF Synchronized

\* The object is the part of the block that came with the header, as far as strlen
\* sees it.
LEMMA StoreStep ==
  ASSUME Using, Synchronized, NEW p, p = parseRequestHeader(Prefix(toServer, BufferSize)),
         Store(p)
  PROVE  Synchronized'
  <1>1. /\ worker = "select" /\ p.cmd = "STORE" /\ worker' = "storing"
        /\ UNCHANGED <<toClient, clientOpen, serverOpen, at,
                       call, result, unsent, data, size, left_data_len>>
        /\ ReadRequest(p)
        /\ object' = FileOf(p.name) /\ left' = p.len - Len(p.data)
        /\ WriteChunk(FileOf(p.name), <<>>, p.data)
    BY DEF Store, ReadRequest, Worked, clientVars
  <1>2. TypesInv /\ ObjectsAreContents /\ Asking
    BY DEF Synchronized
  <1>3. PICK n \in 0 .. Len(call.block), k \in 0 .. Len(call.block) :
             /\ k <= n
             /\ toServer' = Piece(call.block, k, n)
             /\ unsent = Piece(call.block, n, Len(call.block))
             /\ p.cmd = call.cmd
             /\ call.cmd # "LEAVE" => p.name = <<call.obj>>
             /\ call.cmd = "STORE" => /\ p.len = Len(call.block)
                                      /\ p.data = CString(Piece(call.block, 0, k))
    BY <1>1, ReadUnread
  <1>4. /\ call.cmd = "STORE" /\ p.name = <<call.obj>> /\ p.len = Len(call.block)
        /\ p.data = CString(Piece(call.block, 0, k))
    BY <1>1, <1>3
  <1>5. at \in {"send", "reply"} /\ toClient = <<>> /\ (at = "reply" => unsent = <<>>)
    BY <1>1, ReadUnread
  <1>6. call.obj \in Objects /\ call.block \in Seq(Bytes)
    BY <1>2, <1>4, CallsAreRequests DEF TypesInv
  <1>7. /\ p.data \in Seq(Bytes) /\ Len(p.data) \in 0 .. k
        /\ p.data = Piece(call.block, 0, k) \/ (HasZero(call.block) /\ Len(p.data) < k)
        /\ p.data = Piece(call.block, 0, k) => Len(p.data) = k
    BY <1>4, <1>6, CutAtZero
  <1>8. /\ object' = call.obj /\ call.obj \in Files
        /\ store' \in [Files -> Seq(Bytes) \cup {Absent}]
        /\ \A o \in Files \ {call.obj} : store'[o] = store[o]
        /\ store'[call.obj] \in Seq(Bytes) /\ Len(store'[call.obj]) <= Len(p.data)
        /\ ~lost' => store'[call.obj] = p.data
    <2>1. FileOf(p.name) = call.obj /\ call.obj \in Files
      BY <1>4, <1>6, FileOfObject
    <2>2. <<>> \in Seq(Bytes) /\ WriteChunk(call.obj, <<>>, p.data)
      BY <1>1, <2>1
    <2>3. store \in [Files -> Seq(Bytes) \cup {Absent}]
      BY <1>2 DEF TypesInv
    <2>4. /\ store' \in [Files -> Seq(Bytes) \cup {Absent}]
          /\ \A o \in Files \ {call.obj} : store'[o] = store[o]
          /\ store'[call.obj] \in Seq(Bytes)
          /\ Len(store'[call.obj]) <= Len(<<>>) + Len(p.data)
          /\ ~lost' => store'[call.obj] = <<>> \o p.data
      BY <1>7, <2>1, <2>2, <2>3, ChunkIsWritten
    <2>5. Len(<<>>) + Len(p.data) = Len(p.data) /\ <<>> \o p.data = p.data
      BY <1>7, ConcatEmptySeq
    <2>6. QED
      BY <1>1, <2>1, <2>4, <2>5
  <1>9. TypesInv'
    BY <1>1, <1>2, <1>8 DEF TypesInv
  <1>10. ObjectsAreContents'
    BY <1>1, <1>2, <1>4, <1>8 DEF ObjectsAreContents, Files
  <1>11. Resting' /\ ResultIsTrue' /\ Reading'
    BY <1>1, <1>5 DEF Resting, ResultIsTrue, Reading
  <1>12. Storing'
    <2>1. Len(call.block) \in Nat
      BY <1>6
    <2>2. /\ left' \in Nat /\ Len(p.data) + left' <= Len(call.block)
          /\ \/ p.data = Piece(call.block, 0, k) /\ left' = Len(call.block) - k
             \/ HasZero(call.block) /\ left' > Len(call.block) - k
      <3>1. PICK l \in 0 .. k : l = Len(p.data)
        BY <1>7
      <3>2. left' = Len(call.block) - l /\ left' \in Nat /\ Len(p.data) + left' <= Len(call.block)
        <4>1. left' = Len(call.block) - l
          BY <1>1, <1>4, <3>1
        <4>2. left' \in Nat /\ l + left' <= Len(call.block)
          BY <2>1, <3>1, <4>1
        <4>3. QED
          BY <3>1, <4>1, <4>2
      <3>3. CASE p.data = Piece(call.block, 0, k)
        <4>1. l = k
          BY <1>7, <3>1, <3>3
        <4>2. QED
          BY <3>2, <3>3, <4>1
      <3>4. CASE HasZero(call.block) /\ Len(p.data) < k
        <4>1. l < k
          BY <3>1, <3>4
        <4>2. left' > Len(call.block) - k
          BY <2>1, <3>2, <4>1
        <4>3. QED
          BY <3>2, <3>4, <4>2
      <3>5. QED
        BY <1>7, <3>2, <3>3, <3>4
    <2>3. /\ object' = call.obj /\ store'[object'] \in Seq(Bytes)
          /\ Len(store'[object']) + left' <= Len(call.block)
          /\ ~lost' => store'[object'] = p.data
      <3>1. PICK l \in Nat, n1 \in Nat : l = Len(p.data) /\ n1 = Len(store'[call.obj])
        BY <1>7, <1>8
      <3>2. n1 <= l /\ l + left' <= Len(call.block) /\ left' \in Nat
        BY <1>8, <2>2, <3>1
      <3>3. n1 + left' <= Len(call.block)
        BY <2>1, <3>2
      <3>4. QED
        BY <1>8, <3>1, <3>3
    <2>4. QED
      BY <1>1, <1>3, <1>4, <1>5, <2>2, <2>3 DEF Storing
  <1>13. Asking'
    BY <1>1, <1>2, <1>5, <1>12 DEF Asking
  <1>14. QED
    BY <1>9, <1>10, <1>11, <1>13 DEF Synchronized

\* The worker answers with the header, and has the whole object to send.
LEMMA RetrieveStep ==
  ASSUME Using, Synchronized, NEW p, p = parseRequestHeader(Prefix(toServer, BufferSize)),
         Retrieve(p)
  PROVE  Synchronized'
  <1>1. /\ worker = "select" /\ p.cmd = "RETRIEVE"
        /\ UNCHANGED <<store, lost, clientOpen, serverOpen, at,
                       call, result, unsent, data, size, left_data_len>>
        /\ ReadRequest(p)
    BY DEF Retrieve, ReadRequest, Worked, clientVars
  <1>2. TypesInv /\ ObjectsAreContents
    BY DEF Synchronized
  <1>3. /\ at = "reply" /\ toClient = <<>> /\ toServer' = <<>> /\ unsent = <<>>
        /\ call.cmd = "RETRIEVE" /\ p.name = <<call.obj>>
    BY <1>1, ReadWhole
  <1>4. call.obj \in Objects /\ FileOf(p.name) = call.obj /\ call.obj \in Files
    BY <1>2, <1>3, CallsAreRequests, FileOfObject DEF TypesInv
  <1>5. /\ Stored \in Contents /\ worker' = "retrieving" /\ object' = call.obj
        /\ left' = Len(Stored) /\ toClient' = DataHeader(Len(Stored))
    <2>1. /\ Stored # Absent /\ Reply(DataHeader(Len(Stored)), "retrieving")
          /\ object' = call.obj /\ left' = Len(Stored)
      BY <1>4 DEF Retrieve, Stored
    <2>2. Stored \in Contents
      BY <1>1, <1>2, <1>4, <2>1 DEF ObjectsAreContents, Stored
    <2>3. toClient' = DataHeader(Len(Stored)) /\ worker' = "retrieving"
      BY <1>2, <1>3, <2>1 DEF Reply, TypesInv, DataHeader
    <2>4. QED
      BY <2>1, <2>2, <2>3
  <1>6. TypesInv'
    BY <1>1, <1>2, <1>5 DEF TypesInv
  <1>7. ObjectsAreContents'
    BY <1>1, <1>2, <1>5 DEF ObjectsAreContents
  <1>8. Resting' /\ ResultIsTrue' /\ Reading'
    BY <1>1, <1>3 DEF Resting, ResultIsTrue, Reading
  <1>9. Answer'
    <2>1. Stored' = Stored
      BY <1>1 DEF Stored
    <2>2. Stored \in Seq(Bytes) /\ Len(Stored) \in Nat
      BY <1>5 DEF Contents
    <2>3. Written(0)'
      BY <1>1, <1>5, <2>1, <2>2 DEF Written
    <2>4. toClient' = DataHeader(Len(Stored)) \o Piece(Stored, 0, 0)
      <3>1. Piece(Stored, 0, 0) = <<>>
        BY <2>2 DEF Piece
      <3>2. DataHeader(Len(Stored)) \o <<>> = DataHeader(Len(Stored))
        BY DEF DataHeader
      <3>3. QED
        BY <1>5, <3>1, <3>2
    <2>5. 0 \in 0 .. Len(Stored)
      BY <2>2
    <2>6. QED
      BY <1>1, <1>3, <1>5, <2>1, <2>3, <2>4, <2>5 DEF Answer
  <1>10. Asking'
    BY <1>1, <1>3, <1>5, <1>9 DEF Asking
  <1>11. QED
    BY <1>6, <1>7, <1>8, <1>10 DEF Synchronized


\* A RETRIEVE whose file cannot be opened is answered once.
LEMMA RetrieveFailsStep ==
  ASSUME Using, Synchronized, NEW p, p = parseRequestHeader(Prefix(toServer, BufferSize)),
         RetrieveFails(p)
  PROVE  Synchronized'
  <1>1. /\ worker = "select" /\ p.cmd = "RETRIEVE"
        /\ UNCHANGED <<store, object, left, lost, clientOpen, serverOpen, at,
                       call, result, unsent, data, size, left_data_len>>
        /\ ReadRequest(p)
        /\ Reply(KOResponse, "select") \/ Reply(KOMessage, "select")
    BY DEF RetrieveFails, ReadRequest, Worked, clientVars
  <1>2. TypesInv /\ ObjectsAreContents
    BY DEF Synchronized
  <1>3. at = "reply" /\ toClient = <<>> /\ toServer' = <<>> /\ unsent = <<>>
    BY <1>1, ReadWhole
  <1>4. toClient' \in {KOResponse, KOMessage} /\ worker' = "select"
    BY <1>1, <1>2, <1>3 DEF Reply, TypesInv, KOResponse, KOMessage
  <1>5. TypesInv'
    BY <1>1, <1>2, <1>4 DEF TypesInv
  <1>6. ObjectsAreContents'
    BY <1>1, <1>2, <1>4 DEF ObjectsAreContents
  <1>7. Resting' /\ ResultIsTrue' /\ Reading'
    BY <1>1, <1>3 DEF Resting, ResultIsTrue, Reading
  <1>8. Asking'
    BY <1>1, <1>3, <1>4 DEF Asking, Answer
  <1>9. QED
    BY <1>5, <1>6, <1>7, <1>8 DEF Synchronized

-----------------------------------------------------------------------------
(* The worker transfers a block.                                           *)

\* The next part of the block of a STORE is read and appended.
LEMMA StoreReadStep ==
  ASSUME Using, Synchronized, StoreRead
  PROVE  Synchronized'
  <1> DEFINE l == Smaller(left, BufferSize)
             b == call.block
  <1>1. /\ worker = "storing" /\ left > 0 /\ toServer # <<>>
        /\ UNCHANGED <<toClient, worker, object, clientOpen, serverOpen, at,
                       call, result, unsent, data, size, left_data_len>>
        /\ toServer' = Suffix(toServer, Len(Prefix(toServer, l)))
        /\ WriteChunk(object, store[object], Prefix(toServer, l))
        /\ left' = left - Len(Prefix(toServer, l))
    BY DEF StoreRead, Worked, clientVars
  <1>2. TypesInv /\ ObjectsAreContents /\ Asking
    BY DEF Synchronized
  <1>3. at \in {"send", "reply"}
    BY <1>1 DEF Synchronized, Using, Resting, Reading
  <1>4. Storing
    BY <1>1, <1>2, <1>3 DEF Asking
  <1>5. object \in Objects /\ b \in Seq(Bytes) /\ Len(b) \in Nat
    <2>1. call.obj \in Objects /\ b \in Seq(Bytes)
      BY <1>2, <1>4, CallsAreRequests DEF TypesInv, Storing
    <2>2. QED
      BY <1>4, <2>1 DEF Storing
  <1> HIDE DEF b
  <1>6. PICK m \in 0 .. Len(b), n \in 0 .. Len(b) :
        /\ m <= n
        /\ toServer = Piece(b, m, n)
        /\ unsent = Piece(b, n, Len(b))
        /\ store[object] \in Seq(Bytes) /\ left \in Nat
        /\ Len(store[object]) + left <= Len(b)
        /\ \/ (~lost => store[object] = Piece(b, 0, m)) /\ left = Len(b) - m
           \/ HasZero(b) /\ left > Len(b) - m
    BY <1>4 DEF Storing, b
  <1>7. left \in Nat /\ l \in Nat /\ l <= left
    <2>1. left \in Nat
      BY <1>5, <1>6
    <2>2. BufferSize \in Nat
      BY SizesAssumption
    <2>3. QED
      BY <2>1, <2>2 DEF Smaller
  <1> HIDE DEF l
  <1>8. m \in 0 .. n
    BY <1>5, <1>6
  <1>9. PICK k \in m .. n :
           /\ Prefix(Piece(b, m, n), l) = Piece(b, m, k)
           /\ Suffix(Piece(b, m, n), Len(Prefix(Piece(b, m, n), l))) = Piece(b, k, n)
    <2>1. l \in Nat
      BY <1>7
    <2>2. QED
      BY <1>5, <1>8, <2>1, ReadPiece
  <1>10. k \in 0 .. Len(b) /\ m \in 0 .. k /\ k <= n
    BY <1>5, <1>8
  <1>11. Piece(b, m, k) \in Seq(Bytes) /\ Len(Piece(b, m, k)) = k - m /\ k - m <= l
    <2>1. Piece(b, m, k) \in Seq(Bytes) /\ Len(Piece(b, m, k)) = k - m
      BY <1>5, <1>10, PieceProperties
    <2>2. Len(Piece(b, m, n)) \in Nat
      BY <1>5, <1>8, PieceProperties
    <2>3. Len(Piece(b, m, k)) = Smaller(l, Len(Piece(b, m, n)))
      <3>1. l \in Nat
        BY <1>7
      <3>2. Len(Prefix(Piece(b, m, n), l)) = Smaller(l, Len(Piece(b, m, n)))
        BY <1>5, <1>8, <3>1, ReadPiece
      <3>3. QED
        BY <1>9, <3>2
    <2>4. Smaller(l, Len(Piece(b, m, n))) <= l
      BY <1>7, <2>2 DEF Smaller
    <2>5. QED
      BY <2>1, <2>3, <2>4
  <1>12. toServer' = Piece(b, k, n) /\ left' = left - (k - m)
    BY <1>1, <1>6, <1>9, <1>11
  <1>13. /\ store'[object] \in Seq(Bytes)
         /\ Len(store'[object]) <= Len(store[object]) + (k - m)
         /\ ~lost' => store'[object] = store[object] \o Piece(b, m, k) /\ ~lost
         /\ store' \in [Files -> Seq(Bytes) \cup {Absent}]
         /\ \A o \in Files \ {object} : store'[o] = store[o]
    <2>1. store \in [Files -> Seq(Bytes) \cup {Absent}] /\ object \in Files
      BY <1>2, <1>5 DEF TypesInv, Files
    <2> DEFINE c == store[object]
               d == Piece(b, m, k)
    <2>2. c \in Seq(Bytes) /\ d \in Seq(Bytes) /\ Len(d) = k - m
      BY <1>6, <1>11
    <2>3. WriteChunk(object, c, d)
      BY <1>1, <1>6, <1>9
    <2> HIDE DEF c, d
    <2>4. /\ store' \in [Files -> Seq(Bytes) \cup {Absent}]
          /\ \A o \in Files \ {object} : store'[o] = store[o]
          /\ store'[object] \in Seq(Bytes) /\ Len(store'[object]) <= Len(c) + Len(d)
          /\ ~lost' => store'[object] = c \o d /\ ~(worker = "storing" /\ lost)
      BY <2>1, <2>2, <2>3, ChunkIsWritten
    <2>5. QED
      BY <1>1, <2>2, <2>4 DEF c, d
  <1>14. /\ store' \in [Files -> Seq(Bytes) \cup {Absent}]
         /\ \A o \in Files \ {object} : store'[o] = store[o]
    BY <1>13
  <1>15. TypesInv'
    BY <1>1, <1>2, <1>14 DEF TypesInv
  <1>16. ObjectsAreContents'
    BY <1>1, <1>2, <1>14 DEF ObjectsAreContents, Files
  <1>17. Resting' /\ ResultIsTrue' /\ Reading'
    BY <1>1, <1>3 DEF Resting, ResultIsTrue, Reading
  <1>18. Storing'
    <2>1. left' \in Nat /\ Len(store'[object]) + left' <= Len(b)
      <3>1. PICK i \in Nat, j \in Nat : i = Len(store[object]) /\ j = Len(store'[object])
        BY <1>6, <1>13
      <3>2. j <= i + (k - m) /\ i + left <= Len(b)
        BY <1>6, <1>13, <3>1
      <3>3. left' \in Nat /\ j + left' <= Len(b)
        BY <1>5, <1>7, <1>10, <1>11, <1>12, <3>2
      <3>4. QED
        BY <3>1, <3>3
    <2>2. \/ (~lost' => store'[object] = Piece(b, 0, k)) /\ left' = Len(b) - k
          \/ HasZero(b) /\ left' > Len(b) - k
      <3>1. CASE (~lost => store[object] = Piece(b, 0, m)) /\ left = Len(b) - m
        <4>1. 0 \in 0 .. k /\ m \in 0 .. k
          BY <1>5, <1>10
        <4>2. Piece(b, 0, m) \o Piece(b, m, k) = Piece(b, 0, k)
          BY <1>5, <1>10, <4>1, PiecesJoin
        <4>3. left' = Len(b) - k
          BY <1>5, <1>10, <1>12, <3>1
        <4>4. ~lost' => store'[object] = Piece(b, 0, k)
          BY <1>13, <3>1, <4>2
        <4>5. QED
          BY <4>3, <4>4
      <3>2. CASE HasZero(b) /\ left > Len(b) - m
        <4>1. left' > Len(b) - k
          BY <1>5, <1>7, <1>10, <1>12, <3>2
        <4>2. QED
          BY <3>2, <4>1
      <3>3. QED
        BY <1>6, <3>1, <3>2
    <2>3. call.cmd = "STORE" /\ object = call.obj /\ toClient = <<>>
      BY <1>4 DEF Storing
    <2>4. QED
      BY <1>1, <1>6, <1>10, <1>12, <1>13, <2>1, <2>2, <2>3 DEF Storing, b
  <1>19. Asking'
    BY <1>1, <1>2, <1>3, <1>18 DEF Asking
  <1>20. QED
    BY <1>15, <1>16, <1>17, <1>19 DEF Synchronized


\* While the process is there, the stream of a STORE does not end.
LEMMA StoreAbortStep ==
  ASSUME Using, Synchronized, StoreAbort
  PROVE  Synchronized'
  BY DEF StoreAbort, Synchronized, TypesInv

\* A STORE ends when all of the block has come: the part of it that strlen did not see
\* would be waited for.
LEMMA StoreFinishStep ==
  ASSUME Using, Synchronized, StoreFinish
  PROVE  Synchronized'
  <1> DEFINE b == call.block
  <1>1. /\ worker = "storing" /\ left = 0
        /\ UNCHANGED <<toServer, store, object, left, lost, clientOpen, serverOpen, at,
                       call, result, unsent, data, size, left_data_len>>
        /\ Reply(OKResponse, "select") \/ Reply(KOResponse, "select")
    BY DEF StoreFinish, Worked, clientVars
  <1>2. TypesInv /\ ObjectsAreContents /\ Asking
    BY DEF Synchronized
  <1>3. at \in {"send", "reply"}
    BY <1>1 DEF Synchronized, Using, Resting, Reading
  <1>4. Storing
    BY <1>1, <1>2, <1>3 DEF Asking
  <1>5. call.cmd = "STORE" /\ object = call.obj /\ toClient = <<>>
    BY <1>4 DEF Storing
  <1>6. b \in Blocks /\ b \in Seq(Bytes) /\ Len(b) \in Nat
    BY <1>2, <1>5, CallsAreRequests DEF TypesInv
  <1> HIDE DEF b
  <1>7. PICK m \in 0 .. Len(b), n \in 0 .. Len(b) :
        /\ m <= n
        /\ toServer = Piece(b, m, n)
        /\ unsent = Piece(b, n, Len(b))
        /\ store[object] \in Seq(Bytes) /\ left \in Nat
        /\ Len(store[object]) + left <= Len(b)
        /\ \/ (~lost => store[object] = Piece(b, 0, m)) /\ left = Len(b) - m
           \/ HasZero(b) /\ left > Len(b) - m
    BY <1>4 DEF Storing, b
  <1>8. m = Len(b) /\ n = Len(b) /\ (~lost => store[object] = Piece(b, 0, m))
    BY <1>1, <1>6, <1>7
  <1>9. toServer = <<>> /\ unsent = <<>>
    <2>1. Piece(b, Len(b), Len(b)) = <<>>
      BY <1>6 DEF Piece
    <2>2. QED
      BY <1>7, <1>8, <2>1
  <1>10. (~lost => Stored = b) /\ Stored \in Contents
    <2>1. Stored = store[object]
      BY <1>5 DEF Stored
    <2>2. Len(Stored) <= Len(b)
      <3>1. PICK l \in Nat : l = Len(store[object])
        BY <1>7
      <3>2. l + left <= Len(b)
        BY <1>7, <3>1
      <3>3. QED
        BY <1>1, <1>6, <2>1, <3>1, <3>2
    <2>3. Stored \in Contents
      BY <1>6, <1>7, <2>1, <2>2, PartsAreContents
    <2>4. QED
      BY <1>6, <1>8, <2>1, <2>3, PieceIsAll
  <1>11. at = "reply"
    BY <1>2, <1>3, <1>9 DEF Asking
  <1>12. toClient' \in {OKResponse, KOResponse} /\ worker' = "select"
    BY <1>1, <1>2, <1>5 DEF Reply, TypesInv, OKResponse, KOResponse
  <1>13. TypesInv'
    BY <1>1, <1>2, <1>12 DEF TypesInv
  <1>14. ObjectsAreContents'
    BY <1>1, <1>2, <1>5, <1>6, <1>10, <1>12 DEF ObjectsAreContents, Stored
  <1>15. Resting' /\ ResultIsTrue' /\ Reading'
    BY <1>1, <1>11 DEF Resting, ResultIsTrue, Reading
  <1>16. Answer'
    <2>1. (~lost' => Stored' = call'.block) /\ call'.cmd = "STORE"
      BY <1>1, <1>5, <1>10 DEF Stored, b
    <2>2. QED
      BY <1>12, <2>1 DEF Answer
  <1>17. Asking'
    BY <1>1, <1>9, <1>11, <1>12, <1>16 DEF Asking
  <1>18. QED
    BY <1>13, <1>14, <1>15, <1>17 DEF Synchronized

\* The next part of the object is sent.
LEMMA RetrieveSendStep ==
  ASSUME Using, Synchronized, RetrieveSend
  PROVE  Synchronized'
  <1>1. /\ worker = "retrieving" /\ left > 0
        /\ UNCHANGED <<toServer, store, object, lost, clientOpen, serverOpen, at,
                       call, result, unsent, data, size, left_data_len>>
        /\ left' = left - Smaller(left, BufferSize)
        /\ Reply(Prefix(Suffix(store[object], Len(store[object]) - left), BufferSize),
                 "retrieving")
    BY DEF RetrieveSend, Worked, clientVars
  <1>2. TypesInv /\ ObjectsAreContents /\ Asking /\ Reading
    BY DEF Synchronized
  <1>3. at \in {"reply", "data"}
    BY <1>1 DEF Synchronized, Using, Resting, Asking
  <1>4. /\ toClient' = toClient \o Prefix(Suffix(store[object], Len(store[object]) - left),
                                          BufferSize)
        /\ worker' = "retrieving"
    BY <1>1, <1>2 DEF Reply, TypesInv
  <1>5. BufferSize \in Nat
    BY SizesAssumption
  \* What is sent, and what is left.
  <1>6. ASSUME NEW m \in 0 .. Len(Stored), Written(m), Stored \in Contents
        PROVE  \E k \in m .. Len(Stored) :
                 toClient' = toClient \o Piece(Stored, m, k) /\ Written(k)'
    <2>1. PICK b \in Contents : b = Stored
      BY <1>6
    <2>2. b \in Seq(Bytes) /\ Len(b) \in Nat
      BY DEF Contents
    <2>3. object = call.obj /\ left = Len(b) - m /\ m \in 0 .. Len(b)
      BY <1>1, <1>6, <2>1 DEF Written
    <2>4. store[object] = b
      BY <2>1, <2>3 DEF Stored
    <2>5. Len(b) - left = m
      BY <2>2, <2>3
    <2>6. Suffix(store[object], Len(store[object]) - left) = Piece(b, m, Len(b))
      BY <2>4, <2>5 DEF Suffix, Piece
    <2>7. Len(b) \in 0 .. Len(b) /\ m \in 0 .. Len(b)
      BY <2>2, <2>3
    <2>8. PICK k \in m .. Len(b) : Prefix(Piece(b, m, Len(b)), BufferSize) = Piece(b, m, k)
      BY <1>5, <2>2, <2>7, ReadPiece
    <2>9. k \in 0 .. Len(b) /\ m \in 0 .. k
      BY <2>2, <2>3
    <2>10. k - m = Smaller(left, BufferSize)
      <3>1. Len(Piece(b, m, k)) = k - m
        BY <2>2, <2>9, PieceProperties
      <3>2. Len(Piece(b, m, Len(b))) = Len(b) - m
        BY <2>2, <2>7, PieceProperties
      <3>3. Len(Prefix(Piece(b, m, Len(b)), BufferSize))
            = Smaller(BufferSize, Len(Piece(b, m, Len(b))))
        BY <1>5, <2>2, <2>7, ReadPiece
      <3>4. k - m = Smaller(BufferSize, left)
        BY <2>3, <2>8, <3>1, <3>2, <3>3
      <3>5. QED
        BY <1>5, <2>2, <2>3, <3>4 DEF Smaller
    <2>11. left' = Len(b) - k
      BY <1>1, <2>2, <2>3, <2>9, <2>10
    <2>12. Stored' = b
      BY <1>1, <2>1 DEF Stored
    <2>13. Written(k)'
      BY <1>1, <1>4, <2>3, <2>9, <2>11, <2>12 DEF Written
    <2>14. toClient' = toClient \o Piece(b, m, k)
      BY <1>4, <2>6, <2>8
    <2>15. QED
      BY <2>1, <2>13, <2>14
  <1>7. TypesInv'
    BY <1>1, <1>2, <1>4 DEF TypesInv
  <1>8. ObjectsAreContents'
    BY <1>1, <1>2, <1>4 DEF ObjectsAreContents
  <1>9. Resting' /\ ResultIsTrue'
    BY <1>1, <1>3 DEF Resting, ResultIsTrue
  <1>10. CASE at = "reply"
    <2>1. toServer = <<>> /\ unsent = <<>> /\ Answer
      BY <1>1, <1>2, <1>10 DEF Asking
    <2>2. call.cmd = "RETRIEVE" /\ Stored \in Contents
      BY <1>1, <2>1 DEF Answer
    <2>3. PICK m \in 0 .. Len(Stored) :
             Written(m) /\ toClient = DataHeader(Len(Stored)) \o Piece(Stored, 0, m)
      BY <1>1, <2>1 DEF Answer
    <2>4. PICK k \in m .. Len(Stored) :
             toClient' = toClient \o Piece(Stored, m, k) /\ Written(k)'
      BY <1>6, <2>2, <2>3
    <2>5. PICK b \in Contents : b = Stored
      BY <2>2
    <2>6. b \in Seq(Bytes) /\ Len(b) \in Nat /\ Len(b) \in DOMAIN Decimal
      BY DEF Contents
    <2>7. k \in 0 .. Len(b) /\ m \in 0 .. k /\ 0 \in 0 .. k /\ m \in 0 .. Len(b) /\ 0 \in 0 .. m
      BY <2>5, <2>6
    <2>8. toClient' = DataHeader(Len(b)) \o Piece(b, 0, k)
      <3>1. toClient' = (DataHeader(Len(b)) \o Piece(b, 0, m)) \o Piece(b, m, k)
        BY <2>3, <2>4, <2>5
      <3>2. DataHeader(Len(b)) \in Seq(Symbols) /\ b \in Seq(Symbols)
        BY <2>6, DataHeadersAreTexts DEF Symbols
      <3>3. QED
        BY <2>7, <3>1, <3>2, PiecesJoinAfter
    <2>9. Stored' = b /\ k \in 0 .. Len(Stored)
      BY <1>1, <2>5, <2>7 DEF Stored
    <2>10. Answer'
      BY <1>1, <2>2, <2>4, <2>5, <2>8, <2>9 DEF Answer
    <2>11. Asking' /\ Reading'
      BY <1>1, <1>4, <1>10, <2>1, <2>10 DEF Asking, Reading
    <2>12. QED
      BY <1>7, <1>8, <1>9, <2>11 DEF Synchronized
  <1>11. CASE at = "data"
    <2>1. call.cmd = "RETRIEVE" /\ Stored \in Contents /\ size = Len(Stored) /\ toServer = <<>>
      BY <1>1, <1>2, <1>11 DEF Reading
    <2>2. PICK k \in 0 .. Len(Stored), m \in 0 .. Len(Stored) :
        /\ k <= m /\ Written(m)
        /\ toClient = Piece(Stored, k, m)
        /\ \/ data = Piece(Stored, 0, k) /\ left_data_len = Len(Stored) - k
           \/ HasZero(Stored) /\ Len(data) + left_data_len = Len(Stored)
              /\ left_data_len > Len(Stored) - k
      BY <1>2, <1>11 DEF Reading
    <2>3. PICK n \in m .. Len(Stored) :
             toClient' = toClient \o Piece(Stored, m, n) /\ Written(n)'
      BY <1>6, <2>1, <2>2
    <2>4. PICK b \in Contents : b = Stored
      BY <2>1
    <2>5. b \in Seq(Bytes) /\ Len(b) \in Nat
      BY DEF Contents
    <2>6. n \in 0 .. Len(b) /\ m \in k .. n /\ k \in 0 .. n /\ k <= n
      BY <2>2, <2>4, <2>5
    <2>7. toClient' = Piece(b, k, n)
      <3>1. toClient' = Piece(b, k, m) \o Piece(b, m, n)
        BY <2>2, <2>3, <2>4
      <3>2. QED
        BY <2>5, <2>6, <3>1, PiecesJoin
    <2>8. Stored' = Stored
      BY <1>1 DEF Stored
    <2>9. Reading'
      <3>1. n \in 0 .. Len(Stored)
        BY <2>4, <2>6
      <3>2. left_data_len \in Nat \ {0}
        BY <1>2, <1>11 DEF Reading
      <3>3. QED
        BY <1>1, <1>4, <2>1, <2>2, <2>3, <2>4, <2>6, <2>7, <2>8, <3>1, <3>2 DEF Reading
    <2>10. Asking'
      BY <1>1, <1>11 DEF Asking
    <2>11. QED
      BY <1>7, <1>8, <1>9, <2>9, <2>10 DEF Synchronized
  <1>12. QED
    BY <1>3, <1>10, <1>11


\* A RETRIEVE that is not answered twice ends when the whole object has been sent.
LEMMA RetrieveFinishStep ==
  ASSUME Using, Synchronized, RetrieveFinish, ~astray'
  PROVE  Synchronized'
  <1>1. /\ worker = "retrieving" /\ left = 0 /\ worker' = "select"
        /\ UNCHANGED <<toServer, toClient, store, object, left, lost, clientOpen, serverOpen, at,
                       call, result, unsent, data, size, left_data_len>>
    BY DEF RetrieveFinish, Worked, clientVars
  <1>2. TypesInv /\ ObjectsAreContents /\ Asking /\ Reading /\ Resting /\ ResultIsTrue
    BY DEF Synchronized
  <1>3. Stored' = Stored
    BY <1>1 DEF Stored
  <1>4. ASSUME NEW m \in 0 .. Len(Stored), Written(m), Stored \in Contents
        PROVE  Written(m)'
    <2>1. Len(Stored) \in Nat
      BY <1>4 DEF Contents
    <2>2. m = Len(Stored)
      BY <1>1, <1>4, <2>1 DEF Written
    <2>3. QED
      BY <1>1, <1>3, <2>1, <2>2 DEF Written
  <1>5. TypesInv'
    BY <1>1, <1>2 DEF TypesInv
  <1>6. ObjectsAreContents'
    BY <1>1, <1>2 DEF ObjectsAreContents
  <1>7. Resting' /\ ResultIsTrue'
    BY <1>1, <1>2, <1>3 DEF Resting, ResultIsTrue
  <1>8. Unread => Unread'
    BY <1>1 DEF Unread, Header
  <1>9. Answer => Answer'
    BY <1>1, <1>3, <1>4 DEF Answer
  <1>10. Asking'
    BY <1>1, <1>2, <1>8, <1>9 DEF Asking
  <1>11. Reading'
    <2> SUFFICES ASSUME at = "data" PROVE Reading'
      BY <1>1 DEF Reading
    <2>1. Stored \in Contents
      BY <1>2 DEF Reading
    <2>2. PICK k \in 0 .. Len(Stored), m \in 0 .. Len(Stored) :
        /\ k <= m /\ Written(m)
        /\ toClient = Piece(Stored, k, m)
        /\ \/ data = Piece(Stored, 0, k) /\ left_data_len = Len(Stored) - k
           \/ HasZero(Stored) /\ Len(data) + left_data_len = Len(Stored)
              /\ left_data_len > Len(Stored) - k
      BY <1>2 DEF Reading
    <2>3. Written(m)'
      BY <1>4, <2>1, <2>2
    <2>4. QED
      BY <1>1, <1>2, <1>3, <2>1, <2>2, <2>3 DEF Reading
  <1>12. QED
    BY <1>5, <1>6, <1>7, <1>10, <1>11 DEF Synchronized

\* The worker stops serving the connection, between two requests or anywhere.
LEMMA EndStep ==
  ASSUME Using, Synchronized, LoopEnds \/ Close
  PROVE  Synchronized'
  <1>1. UNCHANGED <<toServer, toClient, store, object, left, lost, clientOpen, at,
                    call, result, unsent, data, size, left_data_len>>
    BY DEF LoopEnds, Close, Worked, clientVars
  <1>2. TypesInv /\ ObjectsAreContents /\ Asking /\ Reading /\ Resting /\ ResultIsTrue
    BY DEF Synchronized
  <1>3. /\ worker' \in {"closing", "closed", "dead"}
        /\ worker' = "closing" => worker = "select"
        /\ worker' = "closed" => worker = "closing"
        /\ serverOpen' = (worker' \notin {"closed", "dead"})
    BY <1>2 DEF LoopEnds, Close, Worked, TypesInv
  <1>4. Stored' = Stored
    BY <1>1 DEF Stored
  <1>5. ASSUME NEW m \in 0 .. Len(Stored), Written(m)
        PROVE  Written(m)'
    BY <1>1, <1>3, <1>4, <1>5 DEF Written
  <1>6. TypesInv'
    BY <1>1, <1>2, <1>3 DEF TypesInv
  <1>7. ObjectsAreContents'
    BY <1>3 DEF ObjectsAreContents
  <1>8. Resting' /\ ResultIsTrue'
    BY <1>1, <1>2, <1>3, <1>4 DEF Resting, ResultIsTrue
  <1>9. Answer => Answer'
    BY <1>1, <1>3, <1>4, <1>5 DEF Answer
  <1>10. toClient = <<>> => Answer'
    BY <1>1, <1>3 DEF Answer
  <1>11. Asking'
    <2> SUFFICES ASSUME at \in {"send", "reply"} PROVE Asking'
      BY <1>1 DEF Asking
    <2>1. worker = "storing" => toClient = <<>>
      BY <1>2 DEF Asking, Storing
    <2>2. worker \in {"select", "retrieving"} => toClient = <<>> \/ Answer
      BY <1>2 DEF Asking, Unread
    <2>3. at = "reply" => toClient = <<>> \/ Answer
      BY <1>2, <2>1, <2>2 DEF Asking, TypesInv
    <2>4. at = "reply" => Answer'
      BY <1>9, <1>10, <2>3
    <2>5. QED
      BY <1>1, <1>2, <1>3, <2>4 DEF Asking
  <1>12. Reading'
    <2> SUFFICES ASSUME at = "data" PROVE Reading'
      BY <1>1 DEF Reading
    <2>1. QED
      BY <1>1, <1>2, <1>3, <1>4, <1>5 DEF Reading
  <1>13. QED
    BY <1>6, <1>7, <1>8, <1>11, <1>12 DEF Synchronized

-----------------------------------------------------------------------------
(* The library.                                                            *)

\* A call writes its header on streams that are empty, unless the worker serves no
\* more.
LEMMA SendHeaderStep ==
  ASSUME Synchronized, at \in {"connect", "idle"}, Using',
         NEW c \in Calls \cup {FirstCall}, SendHeader(c)
  PROVE  Synchronized'
  <1>1. /\ UNCHANGED <<toClient, serverOpen, store, worker, object, left, lost, clientOpen>>
        /\ call' = c /\ result' = 0 /\ unsent' = c.block
        /\ toServer' = toServer \o RequestHeader(c.cmd, c.obj, Len(c.block))
        /\ at' = IF c.block = <<>> THEN "reply" ELSE "send"
    BY DEF SendHeader, Write, Using, workerVars
  <1>2. TypesInv /\ ObjectsAreContents /\ Resting
    BY DEF Synchronized
  <1>3. c.block \in Seq(Bytes) /\ Len(c.block) \in Nat /\ (c.block # <<>> => c.cmd = "STORE")
    BY CallsAreRequests
  <1>4. TypesInv'
    BY <1>1, <1>2, <1>3 DEF TypesInv
  <1>5. ObjectsAreContents'
    BY <1>1, <1>2 DEF ObjectsAreContents
  <1>6. Resting' /\ ResultIsTrue' /\ Reading'
    BY <1>1 DEF Resting, ResultIsTrue, Reading
  <1>7. /\ toClient = <<>> /\ worker # "storing"
        /\ worker \in {"select", "retrieving"} => toServer = <<>>
        /\ worker = "retrieving" => left = 0
    BY <1>2 DEF Resting
  <1>8. worker \in {"select", "retrieving"} => Unread'
    <2>1. RequestOf(c) \in Seq(Symbols)
      BY HeadersAreTexts
    <2>2. Header' = RequestOf(c)
      BY <1>1 DEF Header, RequestOf
    <2>3. Piece(c.block, 0, 0) = <<>> /\ Piece(c.block, 0, Len(c.block)) = c.block
      BY <1>3, PieceIsAll DEF Piece
    <2>4. <<>> \o RequestOf(c) = RequestOf(c) /\ RequestOf(c) \o <<>> = RequestOf(c)
      BY <2>1, ConcatEmptySeq
    <2>5. toServer = <<>> => toServer' = Header' \o Piece(c.block, 0, 0)
      BY <1>1, <2>2, <2>3, <2>4 DEF RequestOf
    <2>6. 0 \in 0 .. Len(c.block)
      BY <1>3
    <2>7. QED
      BY <1>1, <1>7, <2>3, <2>5, <2>6 DEF Unread
  <1>9. Asking'
    BY <1>1, <1>2, <1>3, <1>7, <1>8 DEF Asking, Answer, TypesInv
  <1>10. QED
    BY <1>4, <1>5, <1>6, <1>9 DEF Synchronized

\* The rest of the block is written, or, when the worker has ended, lost.
LEMMA SendRestStep ==
  ASSUME Using, Synchronized, Using', SendRest
  PROVE  Synchronized'
  <1> DEFINE b == call.block
  <1>1. /\ at = "send" /\ at' \in {"send", "reply"}
        /\ UNCHANGED <<toClient, serverOpen, clientOpen, store, call, result, data, size,
                       left_data_len, worker, object, left, lost>>
    BY DEF SendRest, Write, Using, workerVars
  <1>2. TypesInv /\ ObjectsAreContents /\ Asking
    BY DEF Synchronized
  <1>3. toClient = <<>> /\ unsent \in Seq(Bytes) /\ unsent # <<>> /\ Len(unsent) \in Nat
    BY <1>1, <1>2 DEF Asking
  <1>4. TypesInv'
    BY <1>1, <1>2 DEF TypesInv
  <1>5. ObjectsAreContents'
    BY <1>1, <1>2 DEF ObjectsAreContents
  <1>6. Resting' /\ ResultIsTrue' /\ Reading'
    BY <1>1 DEF Resting, ResultIsTrue, Reading
  <1>7. CASE serverOpen
    <2>1. PICK l \in 1 .. Len(unsent) :
            /\ toServer' = toServer \o Prefix(unsent, l) /\ unsent' = Suffix(unsent, l)
            /\ at' = IF l = Len(unsent) THEN "reply" ELSE "send"
      BY <1>7 DEF SendRest, Write
    <2>2. /\ unsent' \in Seq(Bytes)
          /\ unsent' = <<>> <=> at' = "reply"
      <3> DEFINE s == SubSeq(unsent, l + 1, Len(unsent))
      <3>1. s \in Seq(Bytes) /\ Len(s) = Len(unsent) - l
        BY <1>3
      <3> HIDE DEF s
      <3>2. s = <<>> <=> l = Len(unsent)
        <4>1. s = <<>> <=> Len(s) = 0
          BY <3>1, EmptySeq
        <4>2. QED
          BY <1>3, <3>1, <4>1
      <3>3. unsent' = s
        BY <2>1 DEF s, Suffix
      <3>4. QED
        BY <2>1, <3>1, <3>2, <3>3
    <2>3. CASE worker = "closing"
      BY <1>1, <1>3, <1>4, <1>5, <1>6, <2>2, <2>3 DEF Synchronized, Asking, Answer
    <2>4. CASE worker \in {"select", "retrieving", "storing"}
      <3>1. b \in Seq(Bytes) /\ Len(b) \in Nat
        BY <1>2, CallsAreRequests DEF TypesInv
      <3> HIDE DEF b
      \* What is written, and what is left.
      <3>2. ASSUME NEW m \in 0 .. Len(b), unsent = Piece(b, m, Len(b))
            PROVE  \E n \in m .. Len(b) :
                     toServer' = toServer \o Piece(b, m, n) /\ unsent' = Piece(b, n, Len(b))
        <4>1. Len(b) \in 0 .. Len(b) /\ m \in 0 .. Len(b) /\ l \in Nat
          BY <3>1
        <4>2. PICK n \in m .. Len(b) :
                /\ Prefix(Piece(b, m, Len(b)), l) = Piece(b, m, n)
                /\ Suffix(Piece(b, m, Len(b)), Len(Prefix(Piece(b, m, Len(b)), l)))
                   = Piece(b, n, Len(b))
          BY <3>1, <4>1, ReadPiece
        <4>3. Len(Prefix(unsent, l)) = l
          BY <1>3 DEF Prefix, Smaller
        <4>4. QED
          BY <2>1, <3>2, <4>2, <4>3
      <3>3. Unread => Unread'
        <4> SUFFICES ASSUME Unread PROVE Unread'
          OBVIOUS
        <4>1. PICK m \in 0 .. Len(b) :
                toServer = Header \o Piece(b, 0, m) /\ unsent = Piece(b, m, Len(b))
          BY DEF Unread, b
        <4>2. PICK n \in m .. Len(b) :
                toServer' = toServer \o Piece(b, m, n) /\ unsent' = Piece(b, n, Len(b))
          BY <3>2, <4>1
        <4>3. n \in 0 .. Len(b) /\ m \in 0 .. n
          BY <3>1, <4>1
        <4>4. Header \in Seq(Symbols)
          BY <1>2, HeadersAreTexts DEF TypesInv, Header, RequestOf
        <4>5. b \in Seq(Symbols)
          BY <3>1 DEF Symbols
        <4>6. toServer' = Header \o Piece(b, 0, n)
          <5>1. toServer' = (Header \o Piece(b, 0, m)) \o Piece(b, m, n)
            BY <4>1, <4>2
          <5>2. QED
            BY <4>3, <4>4, <4>5, <5>1, PiecesJoinAfter
        <4>7. Header' = Header
          BY <1>1 DEF Header
        <4>8. QED
          BY <1>1, <1>3, <4>2, <4>3, <4>6, <4>7 DEF Unread, b
      <3>4. Storing => Storing'
        <4> SUFFICES ASSUME Storing PROVE Storing'
          OBVIOUS
        <4>1. PICK m \in 0 .. Len(b), n \in 0 .. Len(b) :
                /\ m <= n
                /\ toServer = Piece(b, m, n)
                /\ unsent = Piece(b, n, Len(b))
                /\ store[object] \in Seq(Bytes) /\ left \in Nat
                /\ Len(store[object]) + left <= Len(b)
                /\ \/ (~lost => store[object] = Piece(b, 0, m)) /\ left = Len(b) - m
                   \/ HasZero(b) /\ left > Len(b) - m
          BY DEF Storing, b
        <4>2. PICK k \in n .. Len(b) :
                toServer' = toServer \o Piece(b, n, k) /\ unsent' = Piece(b, k, Len(b))
          BY <3>2, <4>1
        <4>3. k \in 0 .. Len(b) /\ n \in m .. k /\ m \in 0 .. k /\ m <= k
          BY <3>1, <4>1
        <4>4. toServer' = Piece(b, m, k)
          BY <3>1, <4>1, <4>2, <4>3, PiecesJoin
        <4>5. call.cmd = "STORE" /\ object = call.obj
          BY DEF Storing
        <4>6. QED
          BY <1>1, <1>3, <4>1, <4>2, <4>3, <4>4, <4>5 DEF Storing, b
      <3>5. Asking'
        BY <1>1, <1>2, <1>3, <2>2, <2>4, <3>3, <3>4 DEF Asking
      <3>6. QED
        BY <1>4, <1>5, <1>6, <3>5 DEF Synchronized
    <2>5. QED
      BY <1>2, <1>7, <2>3, <2>4 DEF TypesInv
  <1>8. CASE ~serverOpen
    <2>1. worker \in {"closed", "dead"}
      BY <1>2, <1>8 DEF TypesInv
    <2>2. at' = "reply" /\ unsent' = <<>>
      BY <1>8 DEF SendRest, Write, Using
    <2>3. Asking'
      BY <1>1, <1>3, <2>1, <2>2 DEF Asking, Answer
    <2>4. QED
      BY <1>4, <1>5, <1>6, <2>3 DEF Synchronized
  <1>9. QED
    BY <1>7, <1>8


-----------------------------------------------------------------------------
(* The library reads the answer.                                         *)

\* The lengths do not wrap.
LEMMA SmallerThanModulus ==
  ASSUME NEW i \in 0 .. SizeModulus - 1
  PROVE  i % SizeModulus = i
  BY SizesAssumption


\* A call that is no os_retrieve, or one that fails, returns what the answer says.
LEMMA ReturnReplyStep ==
  ASSUME Using, Synchronized, Using', ReturnReply
  PROVE  Synchronized'
  <1>1. /\ ReadReply /\ (call.cmd = "RETRIEVE" => ~Answered)
        /\ UNCHANGED <<toServer, clientOpen, serverOpen, store, call, unsent, data, size,
                       left_data_len, worker, object, left, lost>>
        /\ at' = "idle"
        /\ result' = IF (IF call.cmd = "LEAVE" THEN Raw = OKResponse ELSE Answered) THEN 1 ELSE 0
    BY DEF ReturnReply, ReadReply, Return, Using, workerVars
  <1>2. TypesInv /\ ObjectsAreContents
    BY DEF Synchronized
  <1>3. worker # "storing" /\ (worker \in {"select", "retrieving"} => toServer = <<>>)
    BY <1>1, AnswerIsRead
  <1>4. /\ toClient' = <<>> /\ worker # "retrieving"
        /\ result' = 1 => /\ call.cmd = "STORE" /\ ~lost => Stored = call.block
                          /\ call.cmd # "RETRIEVE"
    <2>1. CASE toClient' = <<>> /\ worker # "retrieving" /\ ~Answered /\ Raw # OKResponse
      BY <1>1, <2>1
    <2>2. CASE /\ toClient' = <<>> /\ worker # "retrieving" /\ call.cmd # "RETRIEVE"
               /\ call.cmd = "STORE" /\ ~lost => Stored = call.block
      BY <2>2
    <2>3. CASE /\ call.cmd = "RETRIEVE" /\ Stored \in Contents
               /\ \E m \in 0 .. Len(Stored), k \in 0 .. Len(Stored) :
                    getResponseHeader(Raw) = Response("NO_MSG_ERROR", "DATA", Len(Stored),
                                                      CString(Piece(Stored, 0, k)))
      BY <1>1, <2>3 DEF Answered, Response
    <2>4. QED
      BY <1>1, <2>1, <2>2, <2>3, AnswerIsRead
  <1>5. Stored' = Stored
    BY <1>1 DEF Stored
  <1>6. TypesInv'
    BY <1>1, <1>2 DEF TypesInv
  <1>7. ObjectsAreContents'
    BY <1>1, <1>2 DEF ObjectsAreContents
  <1>8. Resting' /\ ResultIsTrue' /\ Asking' /\ Reading'
    BY <1>1, <1>3, <1>4, <1>5 DEF Resting, ResultIsTrue, Asking, Reading
  <1>9. QED
    BY <1>6, <1>7, <1>8 DEF Synchronized

\* The length that is still due: what strlen did not see of the data is counted as
\* not come.
LEMMA RetrieveReplyStep ==
  ASSUME Using, Synchronized, BlockFits, RetrieveReply
  PROVE  Synchronized' /\ BlockFits'
  <1>1. /\ ReadReply /\ call.cmd = "RETRIEVE" /\ Answered
        /\ UNCHANGED <<toServer, clientOpen, serverOpen, store, call, unsent,
                       worker, object, left, lost>>
        /\ left_data_len' = (getResponseHeader(Raw).len - Len(getResponseHeader(Raw).data))
                            % SizeModulus
        /\ data' = getResponseHeader(Raw).data
        /\ size' = (left_data_len' + Len(getResponseHeader(Raw).data)) % SizeModulus
        /\ IF left_data_len' = 0 THEN at' = "idle" ELSE at' = "data" /\ UNCHANGED result
    BY DEF RetrieveReply, ReadReply, Return, workerVars
  <1>2. TypesInv /\ ObjectsAreContents
    BY DEF Synchronized
  <1>3. worker # "storing" /\ (worker \in {"select", "retrieving"} => toServer = <<>>)
    BY <1>1, AnswerIsRead
  <1>4. /\ Stored \in Contents
        /\ \E m \in 0 .. Len(Stored), k \in 0 .. Len(Stored) :
             /\ k <= m /\ Written(m)
             /\ toClient' = Piece(Stored, k, m)
             /\ getResponseHeader(Raw) = Response("NO_MSG_ERROR", "DATA", Len(Stored),
                                                  CString(Piece(Stored, 0, k)))
    BY <1>1, AnswerIsRead
  <1>5. PICK b \in Contents : b = Stored
    BY <1>4
  <1>6. b \in Seq(Bytes) /\ Len(b) \in Nat /\ Len(b) # 0 /\ Len(b) < SizeModulus
    BY DEF Contents
  <1>7. PICK m \in 0 .. Len(b), k \in 0 .. Len(b) :
             /\ k <= m /\ Written(m)
             /\ toClient' = Piece(b, k, m)
             /\ getResponseHeader(Raw) = Response("NO_MSG_ERROR", "DATA", Len(b),
                                                  CString(Piece(b, 0, k)))
    BY <1>4, <1>5
  <1>8. data' = CString(Piece(b, 0, k)) /\ getResponseHeader(Raw).len = Len(b)
    BY <1>1, <1>7 DEF Response
  <1>9. /\ data' \in Seq(Bytes) /\ Len(data') \in 0 .. k
        /\ data' = Piece(b, 0, k) \/ (HasZero(b) /\ Len(data') < k)
        /\ data' = Piece(b, 0, k) => Len(data') = k
    BY <1>6, <1>7, <1>8, CutAtZero
  <1>10. PICK l \in 0 .. k : l = Len(data')
    BY <1>9
  <1>11. left_data_len' = Len(b) - l /\ size' = Len(b)
    <2>1. left_data_len' = (Len(b) - l) % SizeModulus /\ size' = (left_data_len' + l) % SizeModulus
      BY <1>1, <1>8, <1>10
    <2>2. Len(b) - l \in 0 .. SizeModulus - 1
      BY <1>6, <1>7, SizesAssumption
    <2>3. left_data_len' = Len(b) - l
      BY <2>1, <2>2, SmallerThanModulus
    <2>4. left_data_len' + l = Len(b) /\ Len(b) \in 0 .. SizeModulus - 1
      BY <1>6, <2>3, SizesAssumption
    <2>5. size' = Len(b)
      BY <2>1, <2>4, SmallerThanModulus
    <2>6. QED
      BY <2>3, <2>5
  <1>12. Stored' = Stored
    BY <1>1 DEF Stored
  <1>13. TypesInv'
    BY <1>1, <1>2 DEF TypesInv
  <1>14. ObjectsAreContents'
    BY <1>1, <1>2 DEF ObjectsAreContents
  <1>15. BlockFits'
    BY <1>6, <1>7, <1>9, <1>10, <1>11 DEF BlockFits
  <1>16. Asking'
    BY <1>1 DEF Asking
  <1>17. CASE left_data_len' = 0
    <2>1. l = Len(b) /\ k = Len(b) /\ m = Len(b)
      BY <1>6, <1>7, <1>10, <1>11, <1>17
    <2>2. data' = b
      <3>1. data' = Piece(b, 0, k)
        BY <1>9, <1>10, <2>1
      <3>2. QED
        BY <1>6, <2>1, <3>1, PieceIsAll
    <2>3. toClient' = <<>>
      BY <1>6, <1>7, <2>1 DEF Piece
    <2>4. worker = "retrieving" => left = 0
      BY <1>5, <1>6, <1>7, <2>1 DEF Written
    <2>5. Resting' /\ Reading'
      BY <1>1, <1>3, <1>17, <2>3, <2>4 DEF Resting, Reading
    <2>6. ResultIsTrue'
      BY <1>1, <1>5, <1>12, <2>2 DEF ResultIsTrue
    <2>7. QED
      BY <1>13, <1>14, <1>15, <1>16, <2>5, <2>6 DEF Synchronized
  <1>18. CASE left_data_len' # 0
    <2>1. at' = "data"
      BY <1>1, <1>18
    <2>2. Resting' /\ ResultIsTrue'
      BY <2>1 DEF Resting, ResultIsTrue
    <2>3. Written(m)'
      BY <1>1, <1>5, <1>7, <1>12 DEF Written
    <2>4. \/ data' = Piece(b, 0, k) /\ left_data_len' = Len(b) - k
          \/ HasZero(b) /\ Len(data') + left_data_len' = Len(b) /\ left_data_len' > Len(b) - k
      <3>1. CASE data' = Piece(b, 0, k)
        <4>1. l = k
          BY <1>9, <1>10, <3>1
        <4>2. QED
          BY <1>11, <3>1, <4>1
      <3>2. CASE HasZero(b) /\ Len(data') < k
        <4>1. l < k
          BY <1>10, <3>2
        <4>2. l + left_data_len' = Len(b) /\ left_data_len' > Len(b) - k
          BY <1>6, <1>7, <1>10, <1>11, <4>1
        <4>3. QED
          BY <1>10, <3>2, <4>2
      <3>3. QED
        BY <1>9, <3>1, <3>2
    <2>5. Reading'
      <3>1. left_data_len' \in Nat \ {0}
        BY <1>6, <1>7, <1>10, <1>11, <1>18
      <3>2. QED
        BY <1>1, <1>3, <1>4, <1>5, <1>7, <1>11, <1>12, <2>1, <2>3, <2>4, <3>1 DEF Reading
    <2>6. QED
      BY <1>13, <1>14, <1>15, <1>16, <2>2, <2>5 DEF Synchronized
  <1>19. QED
    BY <1>17, <1>18
\* The rest of the object is read; a byte that strlen did not see is not waited for
\* until all the others have come.
LEMMA RetrieveReadStep ==
  ASSUME Using, Synchronized, BlockFits, RetrieveRead
  PROVE  Synchronized' /\ BlockFits'
  <1> DEFINE chunk == Prefix(toClient, BufferSize)
  <1>1. /\ at = "data" /\ toClient # <<>>
        /\ UNCHANGED <<toServer, clientOpen, serverOpen, store, call, unsent, size,
                       worker, object, left, lost>>
        /\ toClient' = Suffix(toClient, Len(chunk))
        /\ data' = data \o chunk
        /\ left_data_len' = (left_data_len - Len(chunk)) % SizeModulus
        /\ IF left_data_len' = 0 THEN at' = "idle" ELSE at' = "data"
    BY DEF RetrieveRead, Return, Reading, Synchronized, workerVars
  <1>2. TypesInv /\ ObjectsAreContents /\ Reading
    BY DEF Synchronized
  <1>3. /\ call.cmd = "RETRIEVE" /\ Stored \in Contents /\ size = Len(Stored)
        /\ worker # "storing" /\ (worker \in {"select", "retrieving"} => toServer = <<>>)
        /\ left_data_len \in Nat \ {0}
    BY <1>1, <1>2 DEF Reading
  <1>4. PICK b \in Contents : b = Stored
    BY <1>3
  <1>5. b \in Seq(Bytes) /\ Len(b) \in Nat /\ Len(b) < SizeModulus /\ BufferSize \in Nat
    BY SizesAssumption DEF Contents
  <1>6. PICK j \in 0 .. Len(b), m \in 0 .. Len(b) :
        /\ j <= m /\ Written(m)
        /\ toClient = Piece(b, j, m)
        /\ \/ data = Piece(b, 0, j) /\ left_data_len = Len(b) - j
           \/ HasZero(b) /\ Len(data) + left_data_len = Len(b)
              /\ left_data_len > Len(b) - j
    BY <1>1, <1>2, <1>4 DEF Reading
  <1>7. j \in 0 .. m
    BY <1>5, <1>6
  <1>8. PICK k \in j .. m :
           /\ Prefix(Piece(b, j, m), BufferSize) = Piece(b, j, k)
           /\ Suffix(Piece(b, j, m), Len(Prefix(Piece(b, j, m), BufferSize))) = Piece(b, k, m)
    BY <1>5, <1>7, ReadPiece
  <1>9. chunk = Piece(b, j, k) /\ toClient' = Piece(b, k, m)
    BY <1>1, <1>6, <1>8
  <1>10. k \in 0 .. Len(b) /\ j \in 0 .. k /\ j <= k /\ k <= m
    BY <1>5, <1>6, <1>7
  <1>11. chunk \in Seq(Bytes) /\ Len(chunk) = k - j
    BY <1>5, <1>9, <1>10, PieceProperties
  <1> HIDE DEF chunk
  <1>12. /\ data \in Seq(Bytes) /\ Len(data) \in Nat /\ data' \in Seq(Bytes)
         /\ Len(data') = Len(data) + (k - j)
    <2>1. data \in Seq(Bytes) /\ Len(data) \in Nat
      BY DEF BlockFits
    <2>2. data \o chunk \in Seq(Bytes) /\ Len(data \o chunk) = Len(data) + Len(chunk)
      BY <1>11, <2>1, ConcatProperties
    <2>3. QED
      BY <1>1, <1>11, <2>1, <2>2
  <1>13. Len(data) + left_data_len = Len(b)
    <2>1. CASE data = Piece(b, 0, j) /\ left_data_len = Len(b) - j
      <3>1. 0 \in 0 .. j
        BY <1>5
      <3>2. Len(Piece(b, 0, j)) = j - 0
        BY <1>5, <3>1, PieceProperties
      <3>3. QED
        BY <1>5, <2>1, <3>2
    <2>2. QED
      BY <1>6, <2>1
  <1>14. left_data_len' = left_data_len - (k - j) /\ left_data_len' \in Nat
    <2>1. left_data_len >= Len(b) - j
      BY <1>3, <1>5, <1>6
    <2>2. left_data_len - (k - j) \in 0 .. SizeModulus - 1
      BY <1>3, <1>5, <1>10, <1>12, <1>13, <2>1, SizesAssumption
    <2>3. left_data_len' = (left_data_len - (k - j)) % SizeModulus
      BY <1>1, <1>11
    <2>4. QED
      BY <2>2, <2>3, SmallerThanModulus
  <1>15. \/ data' = Piece(b, 0, k) /\ left_data_len' = Len(b) - k
         \/ HasZero(b) /\ Len(data') + left_data_len' = Len(b)
            /\ left_data_len' > Len(b) - k
    <2>1. CASE data = Piece(b, 0, j) /\ left_data_len = Len(b) - j
      <3>1. Piece(b, 0, j) \o Piece(b, j, k) = Piece(b, 0, k)
        <4>1. 0 \in 0 .. k /\ j \in 0 .. k
          BY <1>5, <1>10
        <4>2. QED
          BY <1>5, <1>10, <4>1, PiecesJoin
      <3>2. left_data_len' = Len(b) - k
        BY <1>5, <1>10, <1>14, <2>1
      <3>3. QED
        BY <1>1, <1>9, <2>1, <3>1, <3>2
    <2>2. CASE HasZero(b) /\ left_data_len > Len(b) - j
      <3>1. Len(data') + left_data_len' = Len(b)
        <4>1. PICK l \in Nat : l = Len(data)
          BY <1>12
        <4>2. l + left_data_len = Len(b) /\ Len(data') = l + (k - j)
          BY <1>12, <1>13, <4>1
        <4>3. (l + (k - j)) + left_data_len' = Len(b)
          BY <1>3, <1>5, <1>10, <1>14, <4>2
        <4>4. QED
          BY <4>2, <4>3
      <3>2. left_data_len' > Len(b) - k
        BY <1>3, <1>5, <1>10, <1>14, <2>2
      <3>3. QED
        BY <2>2, <3>1, <3>2
    <2>3. QED
      BY <1>6, <2>1, <2>2
  <1>16. Stored' = Stored
    BY <1>1 DEF Stored
  <1>17. TypesInv'
    BY <1>1, <1>2 DEF TypesInv
  <1>18. ObjectsAreContents'
    BY <1>1, <1>2 DEF ObjectsAreContents
  <1>19. BlockFits'
    <2>1. PICK l \in Nat : l = Len(data)
      BY <1>12
    <2>2. PICK n \in Nat : n = Len(data')
      <3>1. Len(data') \in Nat
        BY <1>12
      <3>2. QED
        BY <3>1
    <2>3. n <= Len(b)
      BY <1>3, <1>5, <1>10, <1>12, <1>13, <1>14, <2>1, <2>2
    <2>4. QED
      BY <1>1, <1>3, <1>4, <1>5, <1>12, <2>2, <2>3 DEF BlockFits
  <1>20. Asking'
    BY <1>1 DEF Asking
  <1>21. CASE left_data_len' = 0
    <2>1. k = Len(b) /\ m = Len(b) /\ data' = Piece(b, 0, k)
      BY <1>5, <1>6, <1>10, <1>15, <1>21
    <2>2. data' = b
      BY <1>5, <2>1, PieceIsAll
    <2>3. toClient' = <<>>
      BY <1>5, <1>9, <2>1 DEF Piece
    <2>4. worker = "retrieving" => left = 0
      BY <1>4, <1>5, <1>6, <2>1 DEF Written
    <2>5. Resting' /\ Reading'
      BY <1>1, <1>3, <1>21, <2>3, <2>4 DEF Resting, Reading
    <2>6. ResultIsTrue'
      BY <1>1, <1>3, <1>4, <1>16, <2>2 DEF ResultIsTrue
    <2>7. QED
      BY <1>17, <1>18, <1>19, <1>20, <2>5, <2>6 DEF Synchronized
  <1>22. CASE left_data_len' # 0
    <2>1. at' = "data"
      BY <1>1, <1>22
    <2>2. Resting' /\ ResultIsTrue'
      BY <2>1 DEF Resting, ResultIsTrue
    <2>3. Written(m)'
      BY <1>1, <1>4, <1>6, <1>16 DEF Written
    <2>4. Reading'
      BY <1>1, <1>3, <1>4, <1>6, <1>9, <1>10, <1>14, <1>15, <1>16, <1>22, <2>1, <2>3
      DEF Reading
    <2>5. QED
      BY <1>17, <1>18, <1>19, <1>20, <2>2, <2>4 DEF Synchronized
  <1>23. QED
    BY <1>21, <1>22


-----------------------------------------------------------------------------
(* The invariant.                                                          *)

\* Before os_connect nothing has been written.
LEMMA ConnectionInvInit == Init => ConnectionInv
  <1> SUFFICES ASSUME Init PROVE ConnectionInv
    OBVIOUS
  <1>1. /\ at = "connect" /\ call = FirstCall /\ worker = "select" /\ toServer = <<>>
        /\ toClient = <<>> /\ clientOpen = TRUE /\ serverOpen = TRUE
        /\ store = [f \in Files |-> Absent] /\ data = <<>> /\ size = 0
    BY DEF Init, FirstCall
  <1>2. TypesInv
    BY <1>1 DEF TypesInv
  <1>3. ObjectsAreContents /\ Resting /\ ResultIsTrue /\ Asking /\ Reading
    BY <1>1 DEF ObjectsAreContents, Resting, ResultIsTrue, Asking, Reading, Files
  <1>4. BlockFits
    <2>1. <<>> \in Seq(Bytes) /\ Len(<<>>) = 0
      OBVIOUS
    <2>2. QED
      BY <1>1, <2>1 DEF BlockFits
  <1>5. QED
    BY <1>2, <1>3, <1>4 DEF ConnectionInv, Synchronized

\* One of the handlers of a request.
Handles(p) ==
    \/ Refuse(p) \/ Register(p) \/ Leave(p) \/ Delete(p)
    \/ Store(p) \/ StoreOpenFails(p) \/ Retrieve(p) \/ RetrieveFails(p)

\* The worker does not change what the process has, and never gets back into step.
LEMMA WorkerStep ==
  ASSUME Worker, ~astray'
  PROVE  ~astray /\ UNCHANGED <<data, size, at>>
  <1>1. CASE \E p \in {parseRequestHeader(Prefix(toServer, BufferSize))} : Handles(p)
    <2>1. PICK p : Handles(p)
      BY <1>1
    <2>2. UNCHANGED clientVars
      BY <2>1 DEF Handles, Refuse, Register, Leave, Delete, Store, StoreOpenFails, Retrieve,
        RetrieveFails, ReadRequest, Worked
    <2>3. CASE StoreOpenFails(p)
      <3>1. ~astray
        BY <2>3, Zenon DEF StoreOpenFails
      <3>2. QED
        BY <2>2, <3>1 DEF clientVars
    <2>4. CASE ~StoreOpenFails(p)
      <3>1. UNCHANGED astray
        BY <2>1, <2>4 DEF Handles, Refuse, Register, Leave, Delete, Store, Retrieve,
          RetrieveFails
      <3>2. QED
        BY <2>2, <3>1 DEF clientVars
    <2>5. QED
      BY <2>3, <2>4
  <1>2. CASE StoreRead \/ StoreAbort \/ StoreFinish \/ RetrieveSend
    BY <1>2 DEF StoreRead, StoreAbort, StoreFinish, RetrieveSend, Worked, clientVars
  <1>3. CASE RetrieveFinish \/ RetrieveSendFails
    BY <1>3 DEF RetrieveFinish, RetrieveSendFails, Worked, clientVars
  <1>4. CASE LoopEnds \/ Close
    BY <1>4 DEF LoopEnds, Close, Worked, clientVars
  <1>5. QED
    BY <1>1, <1>2, <1>3, <1>4, Zenon DEF Worker, Handles

\* Every step of the worker keeps the two ends in step, but for those astray names.
LEMMA WorkerKeepsStep ==
  ASSUME Worker, ~astray', Using, Synchronized
  PROVE  Synchronized'
  <1>1. CASE \E p \in {parseRequestHeader(Prefix(toServer, BufferSize))} : Handles(p)
    <2>1. PICK p : p = parseRequestHeader(Prefix(toServer, BufferSize)) /\ Handles(p)
      BY <1>1
    <2>2. CASE Refuse(p)
      BY <2>1, <2>2, RefuseStep
    <2>3. CASE Register(p)
      <3>1. ~astray
        BY WorkerStep
      <3>2. QED
        BY <2>1, <2>3, <3>1, RegisterStep
    <2>4. CASE Leave(p)
      BY <2>1, <2>4, LeaveStep
    <2>5. CASE Delete(p)
      BY <2>1, <2>5, DeleteStep
    <2>6. CASE Store(p)
      BY <2>1, <2>6, StoreStep
    <2>7. CASE StoreOpenFails(p)
      BY <2>1, <2>7, StoreOpenFailsStep
    <2>8. CASE Retrieve(p)
      BY <2>1, <2>8, RetrieveStep
    <2>9. CASE RetrieveFails(p)
      BY <2>1, <2>9, RetrieveFailsStep
    <2>10. QED
      BY <2>1, <2>2, <2>3, <2>4, <2>5, <2>6, <2>7, <2>8, <2>9 DEF Handles
  <1>2. CASE StoreRead
    BY <1>2, StoreReadStep
  <1>3. CASE StoreAbort
    BY <1>3, StoreAbortStep
  <1>4. CASE StoreFinish
    BY <1>4, StoreFinishStep
  <1>5. CASE RetrieveSend
    BY <1>5, RetrieveSendStep
  <1>6. CASE RetrieveSendFails
    BY <1>6 DEF RetrieveSendFails
  <1>7. CASE RetrieveFinish
    BY <1>7, RetrieveFinishStep
  <1>8. CASE LoopEnds \/ Close
    BY <1>8, EndStep
  <1>9. QED
    BY <1>1, <1>2, <1>3, <1>4, <1>5, <1>6, <1>7, <1>8, Zenon DEF Worker, Handles

\* No step puts the two ends out of step but those that astray names: a RETRIEVE
\* answered twice, a STORE refused with a part of its block unread, a KO among data.
LEMMA ConnectionInvStep == ConnectionInv /\ [Next]_vars => ConnectionInv'
  <1> SUFFICES ASSUME ConnectionInv, [Next]_vars, ~astray'
               PROVE  BlockFits' /\ (Using' => Synchronized')
    BY DEF ConnectionInv
  <1>1. CASE UNCHANGED vars
    <2>1. UNCHANGED <<astray, data, size, Using, Synchronized>>
      BY <1>1 DEF vars, clientVars, workerVars, Using, Synchronized, TypesInv,
        ObjectsAreContents, Resting, ResultIsTrue, Asking, Reading, Stored, Unread, Header,
        Answer, Storing, Written
    <2>2. QED
      BY <2>1 DEF ConnectionInv, BlockFits
  <1>2. CASE Worker
    <2>1. ~astray /\ UNCHANGED <<data, size, at>>
      BY <1>2, WorkerStep
    <2>2. BlockFits'
      BY <2>1 DEF ConnectionInv, BlockFits
    <2>3. Using' => Using
      BY <2>1 DEF Using
    <2>4. QED
      BY <1>2, <2>1, <2>2, <2>3, WorkerKeepsStep DEF ConnectionInv
  <1>3. CASE os_connect \/ \E c \in Calls : os_call(c)
    <2>1. PICK c \in Calls \cup {FirstCall} : SendHeader(c) /\ at \in {"connect", "idle"}
      <3>1. CASE os_connect
        <4>1. SendHeader(call) /\ at = "connect"
          BY <3>1 DEF os_connect
        <4>2. UNCHANGED astray
          BY <4>1 DEF SendHeader, workerVars
        <4>3. call = FirstCall
          BY <4>1, <4>2 DEF ConnectionInv, Using, Synchronized, TypesInv
        <4>4. QED
          BY <4>1, <4>3
      <3>2. CASE \E c \in Calls : os_call(c)
        BY <3>2 DEF os_call
      <3>3. QED
        BY <1>3, <3>1, <3>2
    <2>2. UNCHANGED <<astray, data, size>>
      BY <2>1 DEF SendHeader, workerVars
    <2>3. BlockFits /\ Using /\ Synchronized
      BY <2>1, <2>2 DEF ConnectionInv, Using
    <2>4. BlockFits'
      BY <2>2, <2>3 DEF BlockFits
    <2>5. QED
      BY <2>1, <2>3, <2>4, SendHeaderStep
  <1>4. CASE SendRest
    <2>1. UNCHANGED <<astray, data, size>> /\ Using
      BY <1>4 DEF SendRest, workerVars, Using
    <2>2. QED
      BY <1>4, <2>1, SendRestStep DEF ConnectionInv, BlockFits
  <1>5. CASE ReturnReply
    <2>1. UNCHANGED <<astray, data, size>> /\ Using
      BY <1>5 DEF ReturnReply, ReadReply, workerVars, Using
    <2>2. QED
      BY <1>5, <2>1, ReturnReplyStep DEF ConnectionInv, BlockFits
  <1>6. CASE RetrieveReply
    <2>1. UNCHANGED astray /\ Using
      BY <1>6 DEF RetrieveReply, ReadReply, workerVars, Using
    <2>2. QED
      BY <1>6, <2>1, RetrieveReplyStep DEF ConnectionInv
  <1>7. CASE RetrieveRead
    <2>1. UNCHANGED astray /\ Using
      BY <1>7 DEF RetrieveRead, workerVars, Using
    <2>2. QED
      BY <1>7, <2>1, RetrieveReadStep DEF ConnectionInv
  <1>8. CASE RetrieveSpin \/ Terminated
    BY <1>1, <1>8 DEF RetrieveSpin, Terminated
  <1>9. CASE Exit
    <2>1. UNCHANGED <<astray, data, size>> /\ ~Using'
      BY <1>9 DEF Exit, workerVars, Using
    <2>2. QED
      BY <2>1 DEF ConnectionInv, BlockFits
  <1>10. QED
    BY <1>1, <1>2, <1>3, <1>4, <1>5, <1>6, <1>7, <1>8, <1>9 DEF Next, Library

\* The inductive invariant of a connection.
THEOREM ConnectionInvCorrect == Spec => []ConnectionInv
  BY ConnectionInvInit, ConnectionInvStep, PTL DEF Spec

-----------------------------------------------------------------------------
(* What the calls return.                                                  *)

\* The two parts of the invariant about a process between two calls.
LEMMA IdleIsTrue ==
  ASSUME ConnectionInv, ~astray, at = "idle"
  PROVE  Resting /\ ResultIsTrue
  BY DEF ConnectionInv, Using, Synchronized

\* An os_store that returns true has stored the block, for any blocks and any buffers,
\* unless a write has failed or the two ends had got out of step.
THEOREM StoredIsSentCorrect == Spec => []StoredIsSent
  <1>1. ConnectionInv => StoredIsSent
    BY IdleIsTrue DEF StoredIsSent, Returned, ResultIsTrue, Stored
  <1>2. QED
    BY <1>1, ConnectionInvCorrect, PTL

\* An os_retrieve that returns a block returns the object, with the ends in step.
THEOREM RetrievedIsStoredCorrect == Spec => []RetrievedIsStored
  <1>1. ConnectionInv => RetrievedIsStored
    BY IdleIsTrue DEF RetrievedIsStored, Returned, ResultIsTrue, Stored
  <1>2. QED
    BY <1>1, ConnectionInvCorrect, PTL

\* os_retrieve does not write past the block, with the ends in step.
THEOREM FitsBlockCorrect == Spec => []FitsBlock
  <1>1. ConnectionInv => FitsBlock
    BY DEF ConnectionInv, FitsBlock, BlockFits
  <1>2. QED
    BY <1>1, ConnectionInvCorrect, PTL

\* Nothing is left on the streams between two calls, with the ends in step.
THEOREM InStepCorrect == Spec => []InStep
  <1>1. ConnectionInv => InStep
    BY IdleIsTrue DEF InStep, Resting
  <1>2. QED
    BY <1>1, ConnectionInvCorrect, PTL

\* The object that os_retrieve reads has come when the worker has written it and the
\* stream is empty, or it has a NUL byte.
LEMMA AllHasCome ==
  ASSUME Synchronized, at = "data", toClient = <<>>, worker \in {"select", "closed"}
  PROVE  TransfersZero
  <1>1. /\ call.cmd = "RETRIEVE" /\ Stored \in Contents /\ left_data_len \in Nat \ {0}
    BY DEF Synchronized, Reading
  <1>2. PICK b \in Contents : b = Stored
    BY <1>1
  <1>3. b \in Seq(Bytes) /\ Len(b) \in Nat /\ b # Absent
    BY SizesAssumption DEF Contents, Bytes
  <1>4. PICK k \in 0 .. Len(b), m \in 0 .. Len(b) :
        /\ k <= m /\ Written(m)
        /\ toClient = Piece(b, k, m)
        /\ \/ left_data_len = Len(b) - k
           \/ HasZero(b)
    BY <1>2 DEF Synchronized, Reading
  <1>5. m = Len(b)
    BY <1>2, <1>4 DEF Written
  <1>6. k = Len(b)
    <2>1. k \in 0 .. m /\ m \in 0 .. Len(b)
      BY <1>3, <1>4
    <2>2. Piece(b, k, m) = <<>> <=> k = m
      BY <1>3, <2>1, PieceIsNone
    <2>3. QED
      BY <1>4, <1>5, <2>2
  <1>7. HasZero(b)
    BY <1>1, <1>3, <1>4, <1>6
  <1>8. QED
    BY <1>1, <1>2, <1>3, <1>7 DEF TransfersZero, Stored

\* A text that starts with a header is not empty.
LEMMA NotEmpty ==
  ASSUME NEW S, NEW h \in Seq(S), NEW r \in Seq(S), Len(h) >= 1
  PROVE  h \o r # <<>>
  <1>1. Len(h) \in Nat /\ Len(r) \in Nat /\ Len(h \o r) = Len(h) + Len(r)
    BY ConcatProperties
  <1>2. Len(h \o r) # 0
    BY <1>1
  <1>3. QED
    BY <1>2

\* The process and the worker do not wait for each other, with the ends in step and
\* no NUL byte in the block.
THEOREM NeverBothWaitCorrect == Spec => []NeverBothWait
  <1>1. ASSUME ConnectionInv, at \in {"reply", "data"}, toClient = <<>>, toServer = <<>>,
               ~astray, ~TransfersZero
        PROVE  ~(worker = "select" \/ (worker = "storing" /\ left > 0))
    <2>1. Synchronized
      BY <1>1 DEF ConnectionInv, Using
    <2>2. CASE at = "data"
      <3>1. worker # "storing"
        BY <2>1, <2>2 DEF Synchronized, Reading
      <3>2. QED
        BY <1>1, <2>1, <2>2, <3>1, AllHasCome
    <2>3. CASE at = "reply"
      <3>1. Asking /\ call \in Calls \cup {FirstCall}
        BY <2>1 DEF Synchronized, TypesInv
      <3>2. call.block \in Seq(Bytes) /\ Len(call.block) \in Nat
        BY <3>1, CallsAreRequests
      <3>3. ~Unread
        <4> SUFFICES ASSUME Unread PROVE FALSE
          OBVIOUS
        <4> DEFINE h == RequestOf(call)
        <4>1. PICK n \in 0 .. Len(call.block) : toServer = h \o Piece(call.block, 0, n)
          BY DEF Unread, Header, RequestOf
        <4>2. h \in Seq(Symbols) /\ Len(h) \in 1 .. 8
          BY <3>1, HeadersAreTexts
        <4>3. Piece(call.block, 0, n) \in Seq(Symbols)
          <5>1. 0 \in 0 .. n
            BY <3>2
          <5>2. Piece(call.block, 0, n) \in Seq(Bytes)
            BY <3>2, <5>1, PieceProperties
          <5>3. QED
            BY <5>2 DEF Symbols
        <4> HIDE DEF h
        <4>4. QED
          <5>1. \A l \in 1 .. 8 : l >= 1
            OBVIOUS
          <5>2. Len(h) >= 1
            BY <4>2, <5>1, Zenon
          <5>3. QED
            BY <1>1, <4>1, <4>2, <4>3, <5>2, NotEmpty
      <3>4. worker = "select" => ~Answer
        <4>1. OKResponse # <<>> /\ KOResponse # <<>> /\ KOMessage # <<>>
          BY DEF OKResponse, KOResponse, KOMessage
        <4>2. ASSUME NEW b \in Contents, NEW m \in 0 .. Len(b),
                     toClient = DataHeader(Len(b)) \o Piece(b, 0, m)
              PROVE  FALSE
          <5>1. b \in Seq(Bytes) /\ Len(b) \in Nat /\ Len(b) \in DOMAIN Decimal
            BY DEF Contents
          <5>2. 0 \in 0 .. m
            BY <5>1
          <5>3. Piece(b, 0, m) \in Seq(Bytes)
            BY <5>1, <5>2, PieceProperties
          <5>4. Piece(b, 0, m) \in Seq(Symbols)
            BY <5>3 DEF Symbols
          <5>5. DataHeader(Len(b)) \in Seq(Symbols) /\ Len(DataHeader(Len(b))) >= 1
            <6>1. DataHeader(Len(b)) \in Seq(Symbols) /\ Len(DataHeader(Len(b))) = 6
              BY <5>1, DataHeadersAreTexts, Zenon
            <6>2. QED
              BY <6>1
          <5>6. QED
            BY <1>1, <4>2, <5>4, <5>5, NotEmpty
        <4>3. QED
          BY <1>1, <4>1, <4>2 DEF Answer
      <3>5. worker # "select"
        BY <2>3, <3>1, <3>3, <3>4 DEF Asking
      <3>6. ASSUME worker = "storing" PROVE left = 0
        <4> DEFINE b == call.block
        <4>1. Storing /\ unsent = <<>>
          BY <2>3, <3>1, <3>6 DEF Asking
        <4>2. ~HasZero(b)
          BY <1>1 DEF TransfersZero
        <4>3. PICK m \in 0 .. Len(b), n \in 0 .. Len(b) :
                /\ m <= n /\ toServer = Piece(b, m, n) /\ unsent = Piece(b, n, Len(b))
                /\ left = Len(b) - m
          BY <4>1, <4>2 DEF Storing
        <4> HIDE DEF b
        <4>4. b \in Seq(Bytes) /\ Len(b) \in Nat
          BY <3>2 DEF b
        <4>5. m \in 0 .. n /\ n \in 0 .. Len(b) /\ Len(b) \in 0 .. Len(b)
          BY <4>3, <4>4
        <4>6. Piece(b, m, n) = <<>> <=> m = n
          BY <4>4, <4>5, PieceIsNone
        <4>7. Piece(b, n, Len(b)) = <<>> <=> n = Len(b)
          BY <4>4, <4>5, PieceIsNone
        <4>8. m = Len(b)
          BY <1>1, <4>1, <4>3, <4>6, <4>7
        <4>9. QED
          BY <4>3, <4>4, <4>8
      <3>7. QED
        BY <3>5, <3>6
    <2>4. QED
      BY <1>1, <2>2, <2>3
  <1>2. ConnectionInv => NeverBothWait
    BY <1>1 DEF NeverBothWait
  <1>3. QED
    BY <1>2, ConnectionInvCorrect, PTL

\* os_retrieve does not go round its loop for ever, unless the server has died, the
\* ends are out of step or the block has a NUL byte.
THEOREM RetrieveEndsCorrect == Spec => []RetrieveEnds
  <1>1. ASSUME ConnectionInv, at = "data", ~serverOpen, toClient = <<>>, ~astray,
               worker # "dead"
        PROVE  TransfersZero
    <2>1. Synchronized
      BY <1>1 DEF ConnectionInv, Using
    <2>2. worker = "closed"
      BY <1>1, <2>1 DEF Synchronized, TypesInv
    <2>3. QED
      BY <1>1, <2>1, <2>2, AllHasCome
  <1>2. ConnectionInv => RetrieveEnds
    BY <1>1 DEF RetrieveEnds
  <1>3. QED
    BY <1>2, ConnectionInvCorrect, PTL

=============================================================================
