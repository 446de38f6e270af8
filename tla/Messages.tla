------------------------------ MODULE Messages ------------------------------
(***************************************************************************)
(* The text protocol of messages.c: how a request is written by the        *)
(* library and parsed by the server, and how a response is written by the  *)
(* server and parsed by the library.                                       *)
(*                                                                         *)
(* A text is a sequence of symbols: the space, the newline and the NUL,    *)
(* which the C string functions treat apart, and words, each standing for  *)
(* a run of other bytes: a command, a name, a length in decimal digits, or *)
(* one byte of data.  Data may contain any symbol.                         *)
(***************************************************************************)
EXTENDS Integers, Sequences, SequencesExt

CONSTANTS
    Names,      \* words that are the names of users and objects
    LongNames,  \* those of them longer than the buffer for a name
    Decimal     \* a function: the word for each length from 0

ASSUME NamesAssumption == LongNames \subseteq Names
ASSUME DecimalAssumption ==
    /\ DOMAIN Decimal \subseteq Nat
    /\ DOMAIN Decimal = 0 .. Cardinality(DOMAIN Decimal) - 1
    /\ \A m, n \in DOMAIN Decimal : Decimal[m] = Decimal[n] => m = n

SP == " "
NL == "\n"
NUL == "NUL"

\* A word stands for bytes that are none of these.
ASSUME WordsAssumption ==
    (Names \cup {Decimal[n] : n \in DOMAIN Decimal}) \cap {SP, NL, NUL} = {}

Commands == {"REGISTER", "STORE", "RETRIEVE", "DELETE", "LEAVE"}

\* The number of symbols that a C string function sees of a text.
strlen(s) == LET n == SelectInSeq(s, LAMBDA x : x = NUL) IN IF n = 0 THEN Len(s) ELSE n - 1

CString(s) == SubSeq(s, 1, strlen(s))

\* What is left of a text after the delimiters it starts with.
Skip(s, delim) ==
    LET first == SelectInSeq(s, LAMBDA x : x \notin delim)
    IN IF first = 0 THEN <<>> ELSE SubSeq(s, first, Len(s))

\* A variant with a fault: a delimiter at the start ends an empty token.
strtokEager(s, delim) ==
    LET n == SelectInSeq(s, LAMBDA x : x \in delim)
    IN IF n = 0 THEN [token |-> s, rest |-> <<>>]
       ELSE [token |-> SubSeq(s, 1, n - 1), rest |-> SubSeq(s, n + 1, Len(s))]

\* strtok_r on a C string: the delimiters before the token are skipped, the one
\* after it is consumed.  An empty token stands for NULL.
strtok(s, delim) ==
    LET t == Skip(s, delim)
        n == SelectInSeq(t, LAMBDA x : x \in delim)
    IN IF n = 0 THEN [token |-> t, rest |-> <<>>]
       ELSE [token |-> SubSeq(t, 1, n - 1), rest |-> SubSeq(t, n + 1, Len(t))]

\* strtol skips newlines before the digits and must reach the end of the string.
isNumber(token) ==
    LET is == {n \in DOMAIN Decimal : Skip(token, {NL}) = <<Decimal[n]>>}
    IN IF is = {} THEN -1 ELSE CHOOSE n \in is : TRUE

----------------------------------------------------------------------------
(* Requests.                                                               *)

RequestHeader(cmd, name, len) ==
    CASE cmd = "LEAVE" -> <<"LEAVE", SP, NL>>
      [] cmd = "STORE" -> <<"STORE", SP, name, SP, Decimal[len], SP, NL, SP>>
      [] OTHER -> <<cmd, SP, name, SP, NL>>

Parsed(error, cmd, name, len, data) ==
    [error |-> error, cmd |-> cmd, name |-> name, len |-> len, data |-> data]

Unparsed(error) == Parsed(error, "UNKOWN", <<>>, 0, <<>>)

\* A variant with a fault: the newline is not consumed before the data.
parseDataUnread(name, len, text) ==
    IF Len(text) > len THEN Unparsed("MALFORMED_HEADER")
    ELSE Parsed("NO_MSG_ERROR", "STORE", name, len, text)

\* The data that came with the header of a STORE, measured with strlen.
parseData(name, len, text) ==
    LET data == strtok(text, {SP}).rest
    IN IF Len(data) > len THEN Unparsed("MALFORMED_HEADER")
       ELSE Parsed("NO_MSG_ERROR", "STORE", name, len, data)

\* buff is what one read has returned; it is a C string because the byte after
\* it is zero.
parseRequestHeader(buff) ==
    LET text == CString(buff)
        cmd == strtok(text, {SP})
        name == strtok(cmd.rest, {SP})
        len == strtok(name.rest, {SP})
    IN IF ~Contains(text, NL) THEN Unparsed("NO_HEADER")
       ELSE IF \A c \in Commands : cmd.token # <<c>> THEN Unparsed("UNKOWN_COMMAND")
       ELSE IF cmd.token = <<"LEAVE">> /\ name.token \in {<<>>, <<NL>>}
            THEN Parsed("NO_MSG_ERROR", "LEAVE", <<>>, 0, <<>>)
       ELSE IF cmd.token = <<"LEAVE">> THEN Unparsed("MALFORMED_HEADER")
       ELSE IF name.token = <<>> THEN Unparsed("NO_NAME")
       ELSE IF \E n \in LongNames : Contains(name.token, n) THEN Unparsed("BUFFER_OVERFLOW")
       ELSE IF cmd.token # <<"STORE">>
            THEN Parsed("NO_MSG_ERROR", Head(cmd.token), name.token, 0, <<>>)
       ELSE IF len.token = <<>> THEN Unparsed("NO_LEN")
       ELSE IF isNumber(len.token) = -1 THEN Unparsed("MALFORMED_HEADER")
       ELSE parseData(name.token, isNumber(len.token), len.rest)

----------------------------------------------------------------------------
(* Responses.                                                              *)

OKResponse == <<"OK", SP, NL>>
KOResponse == <<"KO", SP, NL>>

\* FATAL_KO_RESPONSE, CLIENT_IN_USE_KO_RESPONSE and FILE_NOT_FOUND_KO_RESPONSE.
KOMessage == <<"KO", SP, "message", SP, NL>>

\* A variant with a fault: no space ends the header.
DataHeaderUnspaced(len) == <<"DATA", SP, Decimal[len], SP, NL>>

DataHeader(len) == <<"DATA", SP, Decimal[len], SP, NL, SP>>

Response(error, cmd, len, data) ==
    [error |-> error, cmd |-> cmd, len |-> len, data |-> data]

\* raw is what one read has returned.  (A KO whose newline has not arrived is read
\* on; the server writes each response in one call.)
getResponseHeader(raw) ==
    LET text == CString(raw)
        cmd == strtok(text, {SP})
        len == strtok(cmd.rest, {SP})
    IN IF cmd.token = <<>> THEN Response("NO_COMMAND", "UNKNOWN_R", 0, <<>>)
       ELSE IF cmd.token \in {<<"OK">>, <<"KO">>}
            THEN Response("NO_MSG_ERROR", Head(cmd.token), 0, <<>>)
       ELSE IF cmd.token # <<"DATA">> THEN Response("UNKNOWN_COMMAND", "UNKNOWN_R", 0, <<>>)
       ELSE IF len.token = <<>> THEN Response("NO_LEN", "DATA", 0, <<>>)
       ELSE IF isNumber(len.token) = -1 THEN Response("MALFORMED_HEADER", "DATA", 0, <<>>)
       ELSE Response("NO_MSG_ERROR", "DATA", isNumber(len.token), strtok(len.rest, {SP}).rest)

=============================================================================
