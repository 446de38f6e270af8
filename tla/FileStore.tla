----------------------------- MODULE FileStore ------------------------------
(***************************************************************************)
(* The part of a POSIX file system the server relies on: one directory per *)
(* user under data/, regular files in it, and the file each worker has     *)
(* open.  A path names an inode, an open descriptor refers to the inode    *)
(* and not to the path, and an inode lives as long as either refers to it: *)
(* this is what decides what a worker reads or writes when the path it     *)
(* opened is unlinked, re-created or truncated by another worker.          *)
(*                                                                         *)
(* The contents of a file are a sequence of units.  An object of value v   *)
(* is Size[v] units long, and a unit is identified by the value it is a    *)
(* part of; a Hole is a unit nobody wrote.                                 *)
(***************************************************************************)
EXTENDS StoreNames, Integers, Sequences

CONSTANTS
    Values,     \* the blocks of data clients store
    Size,       \* the length of each block
    Conns,      \* connections; the worker of each has at most one open file
    Hole,       \* content of a unit never written
    NoInode     \* a path that does not exist, a worker with no open file

ASSUME SizeAssumption == Size \in [Values -> Nat]
ASSUME HoleAssumption == Hole \notin Values

\* Enough of them for every path and every open descriptor.  Which inode a
\* new file gets cannot be observed.
Inodes == Paths \cup Conns

ASSUME InodesAssumption ==
    IsFiniteSet(Conns) /\ Paths \cap Conns = {} /\ NoInode \notin Inodes

VARIABLES
    userdirs,   \* users whose directory exists
    entry,      \* the directory entry of each path: an inode or NoInode
    inode,      \* the contents of each inode
    fd,         \* the inode each worker has open, or NoInode
    offset      \* the file offset of that descriptor

fsVars == <<userdirs, entry, inode, fd, offset>>

Contents == Seq(Values \cup {Hole})

FileStoreTypeOK ==
    /\ userdirs \in SUBSET Users
    /\ entry \in [Paths -> Inodes \cup {NoInode}]
    /\ inode \in [Inodes -> Contents]
    /\ fd \in [Conns -> Inodes \cup {NoInode}]
    /\ offset \in [Conns -> Nat]

\* The contents of a file that holds all of value v and nothing else.
Whole(v) == [n \in 1 .. Size[v] |-> v]

Stored == {p \in Paths : entry[p] # NoInode}

Content(p) == inode[entry[p]]

----------------------------------------------------------------------------
Freed(contents, entries, fds) ==
    [i \in Inodes |->
        IF \/ \E p \in Paths : entries[p] = i
           \/ \E c \in Conns : fds[c] = i
        THEN contents[i]
        ELSE <<>>]

FreeInodes ==
    {i \in Inodes : /\ \A p \in Paths : entry[p] # i
                    /\ \A c \in Conns : fd[c] # i}

mkdir(u) == userdirs' = userdirs \cup {u}

\* open(p, O_WRONLY | O_CREAT | O_TRUNC)
openTrunc(c, p) ==
    \E i \in Inodes :
        /\ IF entry[p] # NoInode
           THEN i = entry[p]
           ELSE i \in FreeInodes /\ (p \in FreeInodes => i = p)
        /\ entry' = [entry EXCEPT ![p] = i]
        /\ inode' = [inode EXCEPT ![i] = <<>>]
        /\ fd' = [fd EXCEPT ![c] = i]
        /\ offset' = [offset EXCEPT ![c] = 0]
        /\ UNCHANGED userdirs

\* open(p, O_RDONLY) of a path that exists
openRead(c, p) ==
    /\ fd' = [fd EXCEPT ![c] = entry[p]]
    /\ offset' = [offset EXCEPT ![c] = 0]
    /\ UNCHANGED <<userdirs, entry, inode>>

\* write(fd, one unit of v): past the end of the file it leaves a hole.
write(c, v) ==
    LET old == inode[fd[c]]
        pos == offset[c] + 1
        end == IF pos > Len(old) THEN pos ELSE Len(old)
        new == [n \in 1 .. end |-> IF n = pos THEN v
                                   ELSE IF n <= Len(old) THEN old[n]
                                   ELSE Hole]
    IN /\ inode' = [inode EXCEPT ![fd[c]] = new]
       /\ offset' = [offset EXCEPT ![c] = pos]
       /\ UNCHANGED <<userdirs, entry, fd>>

close(c) ==
    /\ fd' = [fd EXCEPT ![c] = NoInode]
    /\ offset' = [offset EXCEPT ![c] = 0]
    /\ inode' = Freed(inode, entry, fd')
    /\ UNCHANGED <<userdirs, entry>>

unlink(p) ==
    /\ entry' = [entry EXCEPT ![p] = NoInode]
    /\ inode' = Freed(inode, entry', fd)
    /\ UNCHANGED <<userdirs, fd, offset>>

\* close(fd) and unlink(path), one after the other in the same worker
closeUnlink(c, p) ==
    /\ fd' = [fd EXCEPT ![c] = NoInode]
    /\ offset' = [offset EXCEPT ![c] = 0]
    /\ entry' = [entry EXCEPT ![p] = NoInode]
    /\ inode' = Freed(inode, entry', fd')
    /\ UNCHANGED userdirs

=============================================================================
