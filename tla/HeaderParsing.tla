---------------------------- MODULE HeaderParsing ----------------------------
(***************************************************************************)
(* What the two parsers of Messages make of whatever a read returns: a     *)
(* buffer that holds a whole message and some of the data that follow it,  *)
(* or any short text.  The behaviours enumerate the buffers.               *)
(***************************************************************************)
EXTENDS Messages

CONSTANTS
    Lengths,    \* lengths of blocks
    Bytes,      \* words that are bytes of data
    MaxText,    \* bound: symbols of a text that is not a message
    MaxData     \* bound: symbols of data after a message

ASSUME LengthsAssumption == Lengths \subseteq DOMAIN Decimal
ASSUME TextBoundsAssumption == MaxText \in Nat /\ MaxData \in Nat

VARIABLE buffer

Headers ==
    {RequestHeader(cmd, name, len) : cmd \in Commands, name \in Names, len \in Lengths}
    \cup {OKResponse, KOResponse, KOMessage} \cup {DataHeader(len) : len \in Lengths}

Symbols == Names \cup Bytes \cup {Decimal[len] : len \in Lengths}
           \cup {SP, NL, NUL, "STORE", "DELETE", "LEAVE"}

Init == buffer \in Headers \cup {<<>>}

Next ==
    \E x \in Symbols :
        /\ \/ Len(buffer) < MaxText
           \/ \E h \in Headers : IsPrefix(h, buffer) /\ Len(buffer) < Len(h) + MaxData
        /\ buffer' = Append(buffer, x)

Spec == Init /\ [][Next]_buffer

----------------------------------------------------------------------------
\* What follows header h in the buffer.
After(h) == SubSeq(buffer, Len(h) + 1, Len(buffer))

\* The server understands every request the library can send, with whatever part
\* of the block the read returned: spaces, newlines and words of the protocol in
\* it are data.  A NUL is not (messages.c:115).
RequestsUnderstood ==
    \A name \in Names \ LongNames, len \in Lengths :
        /\ \A cmd \in Commands \ {"STORE", "LEAVE"} :
            buffer = RequestHeader(cmd, name, len)
            => parseRequestHeader(buffer) = Parsed("NO_MSG_ERROR", cmd, <<name>>, 0, <<>>)
        /\ LET h == RequestHeader("STORE", name, len) IN
            IsPrefix(h, buffer) /\ ~Contains(After(h), NUL) /\ Len(After(h)) <= len
            => parseRequestHeader(buffer)
               = Parsed("NO_MSG_ERROR", "STORE", <<name>>, len, After(h))
        /\ buffer = RequestHeader("LEAVE", name, len)
            => parseRequestHeader(buffer) = Parsed("NO_MSG_ERROR", "LEAVE", <<>>, 0, <<>>)

\* The library understands every response, the data that came with it included.
ResponsesUnderstood ==
    /\ buffer = OKResponse => getResponseHeader(buffer) = Response("NO_MSG_ERROR", "OK", 0, <<>>)
    /\ buffer \in {KOResponse, KOMessage}
       => getResponseHeader(buffer) = Response("NO_MSG_ERROR", "KO", 0, <<>>)
    /\ \A len \in Lengths :
        LET h == DataHeader(len) IN
        IsPrefix(h, buffer) /\ ~Contains(After(h), NUL)
        => getResponseHeader(buffer) = Response("NO_MSG_ERROR", "DATA", len, After(h))

----------------------------------------------------------------------------
(* A definition of the language of requests without strtok: words are the  *)
(* longest runs without a space.                                           *)

WordsOf(t) ==
    {w \in (1 .. Len(t)) \X (1 .. Len(t)) :
        /\ w[1] <= w[2]
        /\ \A k \in w[1] .. w[2] : t[k] # SP
        /\ w[1] = 1 \/ t[w[1] - 1] = SP
        /\ w[2] = Len(t) \/ t[w[2] + 1] = SP}

\* The n-th word of t, or none.
Nth(t, n) ==
    LET w == {v \in WordsOf(t) : Cardinality({u \in WordsOf(t) : u[1] < v[1]}) = n - 1}
    IN UNION {{SubSeq(t, v[1], v[2])} : v \in w}

\* The text is a request: a newline anywhere, a command, and the parameters it
\* takes.  What follows the parameters of a request other than STORE is ignored.
IsRequest(t) ==
    /\ Contains(t, NL)
    /\ \E c \in Commands : Nth(t, 1) = {<<c>>}
    /\ Nth(t, 1) = {<<"LEAVE">>} => Nth(t, 2) \subseteq {<<NL>>}
    /\ Nth(t, 1) # {<<"LEAVE">>} =>
        /\ Nth(t, 2) # {}
        /\ \A w \in Nth(t, 2), n \in LongNames : ~Contains(w, n)
    /\ Nth(t, 1) = {<<"STORE">>} =>
        \E w \in Nth(t, 3), len \in DOMAIN Decimal :
            /\ Last(w) = Decimal[len] /\ \A k \in 1 .. Len(w) - 1 : w[k] = NL
            /\ \A v \in WordsOf(t) :
                Cardinality({u \in WordsOf(t) : u[1] < v[1]}) = 3
                => Len(t) - v[2] - 1 <= len

\* The parser accepts exactly the requests: none of the texts that leftovers of a
\* block can form is taken for a request it does not spell.
AcceptsExactlyRequests ==
    parseRequestHeader(buffer).error = "NO_MSG_ERROR" <=> IsRequest(CString(buffer))

=============================================================================
