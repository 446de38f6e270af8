----------------------- MODULE ObjectServerRefinement -----------------------
(***************************************************************************)
(* The object server implements the object store: the refinement mapping   *)
(* from the files, lists and sockets of ObjectServer to the objects, the   *)
(* users and the answers of ObjectStore.                                   *)
(***************************************************************************)
EXTENDS ObjectServer

CONSTANTS NoAnswer, Damaged

ASSUME DamagedAssumption == Damaged \notin Values \cup {NoValue}

\* The object a file or a sequence of data units holds.
ValueOf(contents) ==
    IF \E v \in Values : contents = Whole(v)
    THEN CHOOSE v \in Values : contents = Whole(v)
    ELSE Damaged

\* There is no object at a path while a STORE is writing it.
ObjectAt(p) ==
    IF p \notin Stored \/ Storing(p) THEN NoValue ELSE ValueOf(Content(p))

\* What the client has been answered: the data of a RETRIEVE, or OK, or KO.  A
\* second response is left on the socket: it is what the client takes for the
\* answer to its next request (STRAY).
AnswerTo(c) ==
    CASE \/ ~open[c] \/ pc[c] = "retrieving"
         \/ reply[c] = <<>> \/ Head(reply[c]) = "STRAY" -> NoAnswer
      [] OTHER -> CASE Head(reply[c]) = "OK" -> "OK"
                    [] Head(reply[c]) = "DATA" -> ValueOf(sent[c])
                    [] OTHER -> "KO"

absObjects == [p \in Paths |-> ObjectAt(p)]
absOnline == {u \in Users : checkIfOnline(u)}
absConnected == {c \in Conns : open[c]}
absAnswer == [c \in Conns |-> AnswerTo(c)]
absRefused == {c \in Conns : worker_error[c] \notin {"NO_SERVERW_ERROR",
                                                    "COMMUNICATION_ERROR"}}
absAstray == {c \in Conns : astray[c]}

Abstract == INSTANCE ObjectStore WITH
    objects <- absObjects,
    online <- absOnline,
    client <- peer,
    connected <- absConnected,
    request <- request,
    answer <- absAnswer,
    refused <- absRefused,
    astray <- absAstray

\* Every behaviour of the server, a crash in the middle of a STORE included, is
\* one of the object store: overwrites, aborted requests, error paths, answers
\* that arrive after the effect, second answers and blocks taken for requests are
\* steps ObjectStore names, and no other step changes the objects, who is online,
\* or the answer to a request sent while the two ends are in step.
ImplementsObjectStore == Abstract!Spec

=============================================================================
