----------------------------- MODULE StoreNames -----------------------------
(***************************************************************************)
(* The names the parts of the object store share: of the users, and of the *)
(* objects, which live at data/<user>/<object> (createFilePath).           *)
(*                                                                         *)
(* A name is a single component of a path: these are the names that have   *)
(* no "/" and are neither "." nor "..".  The server takes any other name   *)
(* as well, which may lead out of the user's directory.                    *)
(***************************************************************************)
EXTENDS FiniteSets

CONSTANTS
    Users,      \* the names clients register with
    NoUser,     \* the empty userName of a worker that registered nobody
    Objects     \* the names of objects

ASSUME UsersAssumption == NoUser \notin Users /\ IsFiniteSet(Users)
ASSUME ObjectsAssumption == IsFiniteSet(Objects)

Paths == Users \X Objects

=============================================================================
