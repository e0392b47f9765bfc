------------------------------ MODULE ByteFiles ------------------------------
(***************************************************************************)
(* What lab8's file system calls promise of regular files: a file is a     *)
(* sequence of bytes that all its descriptors share, a descriptor has a    *)
(* position of its own, and what was never written reads as 0.             *)
(***************************************************************************)
EXTENDS Naturals, Sequences

CONSTANTS Files, NULL, Fds, Bytes

VARIABLES file,  \* the bytes of each file
          node,  \* the file a descriptor is open on, or NULL
          pos,   \* its position
          buf    \* what the read in progress has got

Sized(f, n) == [j \in 1..n |-> IF j \in DOMAIN f THEN f[j] ELSE 0]

AllClosed ==
    /\ file = [i \in Files |-> <<>>]
    /\ node = [fd \in Fds |-> NULL] /\ pos = [fd \in Fds |-> 0]
    /\ buf = <<>>

Open(fd, i) ==
    /\ node[fd] = NULL
    /\ node' = [node EXCEPT ![fd] = i]
    /\ \E p \in {0, Len(file[i])} : pos' = [pos EXCEPT ![fd] = p]
    /\ UNCHANGED <<file, buf>>

OpenTruncated(fd, i) ==
    /\ node[fd] = NULL
    /\ node' = [node EXCEPT ![fd] = i]
    /\ pos' = [pos EXCEPT ![fd] = 0]
    /\ file' = [file EXCEPT ![i] = <<>>]
    /\ UNCHANGED buf

(* A duplicate starts where the original is, and moves by itself.           *)
Dup(fd, from) ==
    /\ node[fd] = NULL /\ node[from] # NULL
    /\ node' = [node EXCEPT ![fd] = node[from]]
    /\ pos' = [pos EXCEPT ![fd] = pos[from]]
    /\ UNCHANGED <<file, buf>>

Close(fd) ==
    /\ node[fd] # NULL
    /\ node' = [node EXCEPT ![fd] = NULL] /\ pos' = [pos EXCEPT ![fd] = 0]
    /\ UNCHANGED <<file, buf>>

(* n bytes c; a position beyond the end (the file was truncated through     *)
(* another descriptor) fills the gap.                                       *)
Write(fd, n, c) ==
    LET f == file[node[fd]]
        g == Sized(f, IF pos[fd] + n > Len(f) THEN pos[fd] + n ELSE Len(f)) IN
    /\ node[fd] # NULL
    /\ file' = [file EXCEPT ![node[fd]] =
                  [j \in DOMAIN g |-> IF j \in (pos[fd] + 1)..(pos[fd] + n) THEN c ELSE g[j]]]
    /\ pos' = [pos EXCEPT ![fd] = @ + n]
    /\ UNCHANGED <<node, buf>>

Read(fd, n) ==
    /\ node[fd] # NULL
    /\ pos[fd] + n <= Len(file[node[fd]])
    /\ buf' = buf \o SubSeq(file[node[fd]], pos[fd] + 1, pos[fd] + n)
    /\ pos' = [pos EXCEPT ![fd] = @ + n]
    /\ UNCHANGED <<file, node>>

EndRead == buf' = <<>> /\ UNCHANGED <<file, node, pos>>

(* A seek beyond the end makes the file longer.                             *)
Seek(fd, p) ==
    /\ node[fd] # NULL
    /\ pos' = [pos EXCEPT ![fd] = p]
    /\ file' = [file EXCEPT ![node[fd]] = Sized(@, IF p > Len(@) THEN p ELSE Len(@))]
    /\ UNCHANGED <<node, buf>>

CONSTANTS MaxStep, MaxPos  \* bounds on one transfer and on a position

ByteNext ==
    \/ EndRead
    \/ \E fd \in Fds :
          \/ Close(fd) \/ \E from \in Fds : Dup(fd, from)
          \/ \E i \in Files : Open(fd, i) \/ OpenTruncated(fd, i)
          \/ \E n \in 0..MaxStep : Read(fd, n) \/ \E c \in Bytes : Write(fd, n, c)
          \/ \E p \in 0..MaxPos : Seek(fd, p)

ByteSpec == AllClosed /\ [][ByteNext]_<<file, node, pos, buf>>

=============================================================================
