-------------------------------- MODULE Files --------------------------------
(***************************************************************************)
(* Open files, current directories and inodes in memory of lab8: file.c,   *)
(* fs.c, vfsfile.c, vfspath.c, inode.c, the load and reclaim of            *)
(* sfs_inode.c, and the calls of do_fork, do_execve and do_exit on them.   *)
(* Every process has a table of its own (nobody passes CLONE_FS) and the   *)
(* inodes are shared: an inode lives as long as its ref_count says.        *)
(*                                                                         *)
(* The kernel is not preempted, so a call is one action, but for a read of *)
(* the keyboard, in which its process sleeps while the others go on.       *)
(***************************************************************************)
EXTENDS Integers, FiniteSets, FiniteSetsExt, Functions

CONSTANTS
    Procs, initproc,
    NULL,
    RegFiles, Dirs, root, stdin,   \* the inodes; root is in Dirs
    OpenFlags,                     \* the sets of flags that are passed to open
    FILES_STRUCT_NENTRY,           \* entries of a table
    Kept,                          \* exec leaves the first ones open: 2 in the code
    MaxLeaked                      \* bound on leaked (a model bound)

Sfs == RegFiles \cup Dirs
Nodes == Sfs \cup {stdin}
Fds == 0..(FILES_STRUCT_NENTRY - 1)

ASSUME FilesAssumption ==
    /\ IsFiniteSet(Procs) /\ initproc \in Procs
    /\ root \in Dirs /\ stdin \notin Sfs /\ NULL \notin Nodes \cup Fds
    /\ OpenFlags \subseteq SUBSET {"O_RDWR", "O_CREAT", "O_EXCL", "O_TRUNC", "O_APPEND"}
    /\ FILES_STRUCT_NENTRY \in Nat /\ Kept \in 0..FILES_STRUCT_NENTRY
    /\ MaxLeaked \in Nat

VARIABLES
    alive,      \* the processes whose files_struct is in use
    lost,       \* those that died without put_files
    fd_array,   \* the table of each process
    pwd,        \* its current directory
    reading,    \* the descriptor in whose read it sleeps, or NULL
    ref_count, open_count,
    leaked,     \* references nobody will give back (not in the code)
    panic       \* "no", or the kind of assertion that has failed

vars == <<alive, lost, fd_array, pwd, reading, ref_count, open_count, leaked, panic>>

File == [status : {"FD_NONE", "FD_OPENED"}, node : Nodes \cup {NULL}, open_count : 0..2]
NoFile == [status |-> "FD_NONE", node |-> NULL, open_count |-> 0]
Opened(n) == [status |-> "FD_OPENED", node |-> n, open_count |-> 1]
Closed == [fd \in Fds |-> NoFile]

(* Type invariant.  Between two calls a descriptor is FD_NONE or FD_OPENED, *)
(* and in use twice only while its process sleeps in a read of it.          *)
FilesTypeOK ==
    /\ alive \subseteq Procs /\ lost \subseteq Procs \ alive
    /\ fd_array \in [Procs -> [Fds -> File]]
    /\ \A p \in Procs, fd \in Fds :
          LET f == fd_array[p][fd] IN
          f = NoFile \/ /\ f.status = "FD_OPENED" /\ f.node \in Nodes
                        /\ f.open_count = IF reading[p] = fd THEN 2 ELSE 1
    /\ pwd \in [Procs -> Dirs \cup {NULL}]
    /\ reading \in [Procs -> Fds \cup {NULL}]
    /\ ref_count \in [Nodes -> Int] /\ open_count \in [Nodes -> Int]
    /\ leaked \in [Nodes -> Nat]
    /\ panic \in {"no", "count", "vop", "fd"}

(* initproc has called vfs_set_bootfs: the root is its directory and        *)
(* bootfs_node.  A device is in the list of devices.                        *)
Init ==
    /\ alive = {initproc} /\ lost = {}
    /\ fd_array = [p \in Procs |-> Closed]
    /\ pwd = [p \in Procs |-> IF p = initproc THEN root ELSE NULL]
    /\ reading = [p \in Procs |-> NULL]
    /\ ref_count = [n \in Nodes |-> IF n = root THEN 2 ELSE IF n = stdin THEN 1 ELSE 0]
    /\ open_count = [n \in Nodes |-> 0]
    /\ leaked = [n \in Nodes |-> 0]
    /\ panic = "no"

-----------------------------------------------------------------------------
(* Counting.  An inode is in memory while ref_count is positive: the first   *)
(* reference loads it, the last one that is given back reclaims it          *)
(* (inode_ref_dec).  The assertions of inode.c: no count falls below 0, and  *)
(* who is reclaimed is not open (inode_kill).                               *)

One(n) == [m \in Nodes |-> IF m = n THEN 1 ELSE 0]
Nothing == [m \in Nodes |-> 0]
Plus(f, g) == [n \in Nodes |-> f[n] + g[n]]
Minus(f, g) == [n \in Nodes |-> f[n] - g[n]]

Opens(p, fds) == [n \in Nodes |-> Cardinality({fd \in fds : fd_array[p][fd].node = n})]
Descriptors(p) == Opens(p, Fds)
Directory(p) == [n \in Nodes |-> IF pwd[p] = n THEN 1 ELSE 0]

Count(ref_inc, ref_dec, open_inc, open_dec) ==
    /\ ref_count' = Minus(Plus(ref_count, ref_inc), ref_dec)
    /\ open_count' = Minus(Plus(open_count, open_inc), open_dec)

Reclaimed(n) == ref_count[n] > 0 /\ ref_count'[n] = 0

CountFails ==
    \E n \in Nodes : \/ ref_count'[n] < 0
                    \/ open_count'[n] < 0
                    \/ /\ Reclaimed(n)
                       /\ open_count'[n] # 0
Checked == panic' = IF CountFails THEN "count" ELSE panic

-----------------------------------------------------------------------------
(* initproc only forks: it never calls open and does not exit.              *)
Runs(p) == panic = "no" /\ p \in alive /\ reading[p] = NULL
At(p) == Runs(p) /\ p # initproc
IsOpen(p, fd) == fd_array[p][fd].status = "FD_OPENED"
Unused(p) == {fd \in Fds : fd_array[p][fd].status = "FD_NONE"}

(* fd_array_alloc(NO_FD): the lowest free descriptor.                       *)
NewFd(p) == Min(Unused(p))

Store(p, fd, f) == fd_array' = [fd_array EXCEPT ![p][fd] = f]

(* vop_open and vop_truncate of a node, given the flags.                    *)
Truncates(flags) == flags \cap {"O_TRUNC", "O_CREAT"} # {}

Rejects(n, flags) ==
    \/ n \in Dirs /\ flags \cap {"O_RDWR", "O_APPEND"} # {}
    \/ n = stdin /\ flags # {}

(* open of an existing file: vfs_lookup takes a reference.                  *)
Asks(p, flags) ==
    /\ At(p) /\ Unused(p) # {}
    /\ "O_TRUNC" \in flags => "O_RDWR" \in flags

Exclusive(flags) == {"O_EXCL", "O_CREAT"} \subseteq flags

Open(p, n, flags) ==
    /\ Asks(p, flags)
    /\ ~Exclusive(flags) /\ ~Rejects(n, flags) /\ ~(n \in Dirs /\ Truncates(flags))
    /\ Count(One(n), Nothing, One(n), Nothing)
    /\ Store(p, NewFd(p), Opened(n))
    /\ UNCHANGED <<alive, lost, pwd, reading, leaked, panic>>

(* A call that fails after vfs_lookup and gives its reference back.         *)
GivesBack(n) ==
    /\ Count(One(n), One(n), Nothing, Nothing)
    /\ UNCHANGED <<alive, lost, fd_array, pwd, reading, leaked, panic>>

(* vop_open refuses: a directory to be written, a device with any flag.     *)
OpenRejected(p, n, flags) ==
    /\ Asks(p, flags)
    /\ ~Exclusive(flags) /\ Rejects(n, flags)
    /\ GivesBack(n)

(* vfs_open returns -E_EXISTS and forgets the reference of vfs_lookup.      *)
OpenExists(p, n, flags) ==
    /\ Asks(p, flags)
    /\ Exclusive(flags) /\ FoldFunction(+, 0, leaked) < MaxLeaked
    /\ leaked' = [leaked EXCEPT ![n] = @ + 1]
    /\ Count(One(n), Nothing, Nothing, Nothing)
    /\ UNCHANGED <<alive, lost, fd_array, pwd, reading, panic>>

(* O_CREAT with a name that is not there: SFS has no vop_create.  A          *)
(* directory has no vop_truncate.  __vop_op asserts that they exist.        *)
OpenUnimplemented(p, flags) ==
    /\ Asks(p, flags)
    /\ \/ "O_CREAT" \in flags
       \/ ~Exclusive(flags) /\ \E n \in Dirs : ~Rejects(n, flags) /\ Truncates(flags)
    /\ panic' = "vop"
    /\ UNCHANGED <<alive, lost, fd_array, pwd, reading, ref_count, open_count, leaked>>

(* close: fd_array_free, vfs_close.                                         *)
Close(p, fd) ==
    LET n == fd_array[p][fd].node IN
    /\ At(p) /\ IsOpen(p, fd)
    /\ Count(Nothing, One(n), Nothing, One(n)) /\ Checked
    /\ Store(p, fd, NoFile)
    /\ UNCHANGED <<alive, lost, pwd, reading, leaked>>

(* dup, to the lowest free descriptor or to one that is free.               *)
DupForgets(n) == Nothing                                          \* wrong
DupTakes(n) == One(n)

Dup(p, fd1, fd2) ==
    LET n == fd_array[p][fd1].node IN
    /\ At(p) /\ IsOpen(p, fd1)
    /\ fd2 \in Unused(p)
    /\ Count(DupTakes(n), Nothing, One(n), Nothing)
    /\ Store(p, fd2, Opened(n))
    /\ UNCHANGED <<alive, lost, pwd, reading, leaked, panic>>

(* read of the keyboard: fd_array_acquire, sleep, fd_array_release.  kill    *)
(* ends it too.                                                             *)
ReadBlock(p, fd) ==
    /\ At(p) /\ IsOpen(p, fd) /\ fd_array[p][fd].node = stdin
    /\ reading' = [reading EXCEPT ![p] = fd]
    /\ fd_array' = [fd_array EXCEPT ![p][fd].open_count = @ + 1]
    /\ UNCHANGED <<alive, lost, pwd, ref_count, open_count, leaked, panic>>

Released(c) == c - 1

ReadReturn(p) ==
    /\ panic = "no" /\ reading[p] # NULL
    /\ reading' = [reading EXCEPT ![p] = NULL]
    /\ fd_array' = [fd_array EXCEPT ![p][reading[p]].open_count = Released(@)]
    /\ UNCHANGED <<alive, lost, pwd, ref_count, open_count, leaked, panic>>

(* chdir: vfs_set_curdir takes the new directory and gives up the old one.  *)
Chdir(p, n) ==
    /\ At(p)
    /\ n # pwd[p]
    /\ pwd' = [pwd EXCEPT ![p] = n]
    /\ Count(One(n), Directory(p), Nothing, Nothing) /\ Checked
    /\ UNCHANGED <<alive, lost, fd_array, reading, leaked>>

(* chdir to what is no directory, or to the directory p is in.              *)
ChdirStays(p, n) ==
    /\ At(p)
    /\ n \notin Dirs \/ n = pwd[p]
    /\ GivesBack(n)

-----------------------------------------------------------------------------
(* do_fork: copy_files, dup_files.                                          *)
OpensCopied(p) == Descriptors(p)

Fork(p, c) ==
    /\ Runs(p) /\ c \notin alive \cup lost
    /\ alive' = alive \cup {c}
    /\ fd_array' = [fd_array EXCEPT ![c] = fd_array[p]]
    /\ pwd' = [pwd EXCEPT ![c] = pwd[p]]
    /\ Count(Plus(Descriptors(p), Directory(p)), Nothing, OpensCopied(p), Nothing)
    /\ UNCHANGED <<lost, reading, leaked, panic>>

(* do_execve: files_closeall but for stdin and stdout; the program is opened and      *)
(* stays open.  If load_icode fails, do_exit finds no mm and skips          *)
(* put_files: the table is lost with what it holds.                         *)
Upper(p) == {fd \in Fds : fd >= Kept /\ IsOpen(p, fd)}

Exec(p, n) ==
    LET kept == [fd \in Fds |-> IF fd \in Upper(p) THEN NoFile ELSE fd_array[p][fd]]
        free == {fd \in Fds : kept[fd] = NoFile} IN
    /\ At(p)
    /\ free # {}
    /\ fd_array' = [fd_array EXCEPT ![p] = [kept EXCEPT ![Min(free)] = Opened(n)]]
    /\ Count(One(n), Opens(p, Upper(p)), One(n), Opens(p, Upper(p))) /\ Checked
    /\ \/ UNCHANGED <<alive, lost>>
       \/ alive' = alive \ {p} /\ lost' = lost \cup {p}
    /\ UNCHANGED <<pwd, reading, leaked>>

(* do_exit: put_files, files_destroy, which asserts that every descriptor   *)
(* could be closed.                                                         *)
PwdKept(p) == Descriptors(p)                                      \* wrong
PwdDropped(p) == Plus(Descriptors(p), Directory(p))

Exit(p) ==
    /\ At(p)
    /\ alive' = alive \ {p}
    /\ fd_array' = [fd_array EXCEPT ![p] = Closed]
    /\ pwd' = [pwd EXCEPT ![p] = NULL]
    /\ Count(Nothing, PwdDropped(p), Nothing, Descriptors(p))
    /\ panic' = IF \E fd \in Fds : fd_array[p][fd].open_count > 1 THEN "fd"
                ELSE IF CountFails THEN "count" ELSE panic
    /\ UNCHANGED <<lost, reading, leaked>>

(* A kernel that has panicked stays where it is.                            *)
Halted == panic # "no" /\ UNCHANGED vars

-----------------------------------------------------------------------------
Call(p) ==
    \/ \E n \in Nodes, flags \in OpenFlags :
          Open(p, n, flags) \/ OpenRejected(p, n, flags) \/ OpenExists(p, n, flags)
    \/ \E flags \in OpenFlags : OpenUnimplemented(p, flags)
    \/ \E fd \in Fds : Close(p, fd) \/ ReadBlock(p, fd) \/ \E fd2 \in Fds : Dup(p, fd, fd2)
    \/ ReadReturn(p)
    \/ \E n \in Dirs : Chdir(p, n)
    \/ \E n \in Nodes : ChdirStays(p, n)
    \/ \E c \in Procs : Fork(p, c)
    \/ \E n \in RegFiles : Exec(p, n)
    \/ Exit(p)

Next == Halted \/ \E p \in Procs : Call(p)

Spec == Init /\ [][Next]_vars

-----------------------------------------------------------------------------
(* Safety.                                                                  *)

Users(n) == {u \in Procs \X Fds : fd_array[u[1]][u[2]].node = n}
CwdOf(n) == {p \in Procs : pwd[p] = n}
Base(n) == IF n \in {root, stdin} THEN 1 ELSE 0

(* An inode is referred to as often as there are descriptors, current       *)
(* directories and tables of the kernel that hold it, through every order   *)
(* of open, dup, fork, exec, chdir, exit and kill, but for what is leaked:  *)
(* it is neither reclaimed under a user nor kept without one.  And it is    *)
(* open as often as descriptors refer to it: vop_close is called at the     *)
(* last close and no earlier.                                               *)
RefsExact ==
    /\ FilesTypeOK
    /\ \A n \in Nodes :
          /\ ref_count[n] = Base(n) + leaked[n] + Cardinality(Users(n)) + Cardinality(CwdOf(n))
          /\ open_count[n] = Cardinality(Users(n))

(* The assertions of file.c, fs.c and inode.c hold.                         *)
NoAssertionFails == panic \notin {"count", "fd"}

=============================================================================
