----------------------------- MODULE ObjectStore -----------------------------
(***************************************************************************)
(* What the object store promises its clients, with nothing of how it is   *)
(* kept: a map from paths to objects, the set of users online, and one     *)
(* request at a time per connection.  ObjectServerRefinement shows that    *)
(* the server implements it.                                               *)
(*                                                                         *)
(* A request takes effect in one step, the step that answers it, with one  *)
(* exception the clients can see: a STORE first removes the object it      *)
(* replaces (Overwrite).  A client that is gone gets no answer, and its    *)
(* request may or may not take effect.                                     *)
(*                                                                         *)
(* Two weaknesses of the store are part of what a client sees.  After a    *)
(* request that failed (refused) a STORE that succeeds may be answered KO. *)
(* And the failure of a STORE or a RETRIEVE, or a RETRIEVE that follows a  *)
(* failure, may leave the two ends of the connection out of step (astray): *)
(* nothing is promised of the answers to its later requests, and its blocks *)
(* may be taken for requests; its requests still change nothing but the    *)
(* objects of its own user.                                                *)
(***************************************************************************)
EXTENDS StoreNames

CONSTANTS
    Values,     \* the blocks of data clients store
    Conns,      \* connections
    NoValue,    \* no object
    Requests,   \* records with a cmd, an object obj and a block val
    NoRequest,  \* no request
    NoAnswer,   \* no answer, or nobody to receive it
    Damaged     \* an object that is not the block of any STORE

VARIABLES
    objects,    \* the object of each path, NoValue when there is none
    online,     \* the users registered
    client,     \* the user of each connection
    connected,  \* the connections open at both ends
    request,    \* the request of each connection that is being served
    answer,     \* the answer to its last request
    refused,    \* the connections on which a request has failed
    astray      \* the connections whose ends are out of step

vars == <<objects, online, client, connected, request, answer, refused, astray>>

Path(c) == <<client[c], request[c].obj>>

Init ==
    /\ objects \in [Paths -> Values \cup {NoValue}]
    /\ online = {}
    /\ client = [c \in Conns |-> NoUser]
    /\ connected = {}
    /\ request = [c \in Conns |-> NoRequest]
    /\ answer = [c \in Conns |-> NoAnswer]
    /\ refused = {}
    /\ astray = {}

----------------------------------------------------------------------------
(* The clients.                                                            *)

\* A name that is neither online nor used by another connection registers.
Connect(c, u, r) ==
    /\ r.cmd = "REGISTER"
    /\ u \notin online /\ \A d \in connected : client[d] # u
    /\ c \notin connected /\ request[c] = NoRequest
    /\ connected' = connected \cup {c}
    /\ client' = [client EXCEPT ![c] = u]
    /\ request' = [request EXCEPT ![c] = r]
    /\ UNCHANGED <<objects, online, answer, refused, astray>>

\* The client sends a request, or something it has sent is taken for one.
Ask(c, r) ==
    /\ r.cmd # "REGISTER"
    /\ c \in connected \cup astray /\ client[c] \in online /\ request[c] = NoRequest
    /\ request' = [request EXCEPT ![c] = r]
    /\ answer' = [answer EXCEPT ![c] = NoAnswer]
    /\ UNCHANGED <<objects, online, client, connected, refused, astray>>

\* Either end closes the connection.  The request goes on being served when it
\* is the client that leaves.
HangUp(c) ==
    /\ c \in connected
    /\ connected' = connected \ {c}
    /\ request' \in {request, [request EXCEPT ![c] = NoRequest]}
    /\ answer' = [answer EXCEPT ![c] = NoAnswer]
    /\ UNCHANGED <<objects, online, client, refused, astray>>

----------------------------------------------------------------------------
(* The requests.                                                           *)

\* A client whose connection is out of step does not know ans for its answer.
Answer(c, ans) ==
    /\ request' = [request EXCEPT ![c] = NoRequest]
    /\ answer' = [answer EXCEPT ![c] = IF c \in connected \ astray THEN ans ELSE NoAnswer]
    /\ UNCHANGED <<client, connected>>

\* A request is served.  A failure of an earlier one is forgotten with its client.
Serve(c, ans) ==
    /\ Answer(c, ans)
    /\ refused' = IF c \in connected THEN refused ELSE refused \ {c}

Registered(c) ==
    /\ request[c].cmd = "REGISTER"
    /\ client[c] \notin online
    /\ online' = online \cup {client[c]}
    /\ Serve(c, "OK")
    /\ UNCHANGED <<objects, astray>>

Left(c) ==
    /\ request[c].cmd = "LEAVE"
    /\ client[c] \in online
    /\ online' = online \ {client[c]}
    /\ Serve(c, "OK")
    /\ UNCHANGED <<objects, astray>>

\* The object to be replaced goes before the new one has arrived: a STORE that
\* then fails, or is cut off, leaves none.
Overwrite(c) ==
    /\ request[c].cmd = "STORE"
    /\ objects' = [objects EXCEPT ![Path(c)] = NoValue]
    /\ UNCHANGED <<online, client, connected, request, answer, refused, astray>>

\* An OK promises that the object is the block of the request.  A KO promises
\* nothing: after a failure the block may have been stored all the same.
Stored(c) ==
    /\ request[c].cmd = "STORE"
    /\ objects' = [objects EXCEPT ![Path(c)] = request[c].val]
    /\ \E ans \in {"OK", "KO"} : Serve(c, ans) /\ (ans = "KO" <=> c \in refused)
    /\ UNCHANGED <<online, astray>>

Deleted(c) ==
    /\ request[c].cmd = "DELETE"
    /\ c \notin refused
    /\ objects[Path(c)] # NoValue
    /\ objects' = [objects EXCEPT ![Path(c)] = NoValue]
    /\ Serve(c, "OK")
    /\ UNCHANGED <<online, astray>>

\* After a failure a RETRIEVE is answered twice.
Retrieved(c) ==
    /\ request[c].cmd = "RETRIEVE"
    /\ objects[Path(c)] # NoValue
    /\ Serve(c, objects[Path(c)])
    /\ astray' = IF c \in refused THEN astray \cup {c} ELSE astray
    /\ UNCHANGED <<objects, online>>

\* The request fails.  The block of a STORE may be left unread; a RETRIEVE that
\* fails in the middle of its data has no answer the client understands.
Refused(c) ==
    /\ request[c].cmd \in {"REGISTER", "STORE", "DELETE", "RETRIEVE"}
    /\ refused' = IF c \in connected THEN refused \cup {c} ELSE refused \ {c}
    /\ \/ Answer(c, "KO") /\ UNCHANGED astray
       \/ /\ request[c].cmd = "STORE"
          /\ Answer(c, "KO")
          /\ astray' = astray \cup {c}
       \/ /\ request[c].cmd = "RETRIEVE"
          /\ Answer(c, NoAnswer)
          /\ astray' = astray \cup {c}
    /\ UNCHANGED <<objects, online>>

\* A new request forgets the failure of an earlier one (so may the end of the
\* session).
Forget(c) ==
    /\ refused' = refused \ {c}
    /\ UNCHANGED <<objects, online, client, connected, request, answer, astray>>

\* The client is gone: its request is forgotten, and its name is freed.
Dropped(c) ==
    /\ c \notin connected
    /\ request' = [request EXCEPT ![c] = NoRequest]
    /\ refused' \in {refused, refused \ {c}}
    /\ UNCHANGED <<objects, online, client, connected, answer, astray>>

Departed(u) ==
    /\ \A d \in connected : client[d] # u
    /\ online' = online \ {u}
    /\ UNCHANGED <<objects, client, connected, request, answer, refused, astray>>

----------------------------------------------------------------------------
(* The server stops or is killed, and is run again.                        *)

\* What a crash may leave of a path: nothing new, unless a STORE had begun.
Survivors(p) ==
    {objects[p]} \cup
        UNION {{Damaged, request[c].val} :
               c \in {d \in Conns : /\ request[d].cmd = "STORE" /\ Path(d) = p
                                    /\ objects[p] = NoValue}}

Crash ==
    /\ online' = {}
    /\ connected' = {}
    /\ request' = [c \in Conns |-> NoRequest]
    /\ answer' = [c \in Conns |-> NoAnswer]
    /\ refused' = {}
    /\ objects' \in [Paths -> Values \cup {NoValue, Damaged}]
    /\ \A p \in Paths : objects'[p] \in Survivors(p)
    /\ UNCHANGED <<client, astray>>

----------------------------------------------------------------------------
Next ==
    \/ \E c \in Conns, r \in Requests : (\E u \in Users : Connect(c, u, r)) \/ Ask(c, r)
    \/ \E c \in Conns :
        \/ HangUp(c) \/ Registered(c) \/ Left(c) \/ Overwrite(c) \/ Stored(c)
        \/ Deleted(c) \/ Retrieved(c) \/ Refused(c) \/ Forget(c) \/ Dropped(c)
    \/ \E u \in Users : Departed(u)
    \/ Crash

Spec == Init /\ [][Next]_vars

=============================================================================
