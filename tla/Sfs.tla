--------------------------------- MODULE Sfs ---------------------------------
(***************************************************************************)
(* The regular files of SFS (lab8, kern/fs/sfs): the free map, the direct  *)
(* and indirect block map of an inode, its copy in memory and its dirty    *)
(* flag, and read, write, seek, truncate, open and close on them, with the *)
(* disk running full at any block.                                         *)
(*                                                                         *)
(* The kernel is not preempted and disk0 is memory, so one call runs to    *)
(* its end before the next one starts; op is that call, and an action is   *)
(* one turn of its loop.  Descriptors of all processes are alike here;     *)
(* who holds them is in module Files.                                      *)
(***************************************************************************)
EXTENDS Naturals, FiniteSets, FiniteSetsExt, Sequences

CONSTANTS
    Files,         \* the files' inodes
    NULL,          \* no file
    Fds,           \* open file descriptors of the whole system
    Bytes,         \* what is written; 0 is what a cleared block holds
    NBlocks,       \* data blocks on the disk: 1..NBlocks
    SFS_BLKSIZE, SFS_NDIRECT, SFS_BLK_NENTRY, SFS_MAX_FILE_SIZE,
    MaxLen         \* bound on the length of a read or write (a model bound)

ASSUME SfsAssumption ==
    /\ NULL \notin Files /\ Bytes \subseteq Nat
    /\ NBlocks \in Nat \ {0} /\ MaxLen \in Nat \ {0}
    /\ SFS_BLKSIZE \in Nat \ {0} /\ SFS_NDIRECT \in Nat \ {0}
    /\ SFS_BLK_NENTRY \in 1..SFS_BLKSIZE
    /\ SFS_MAX_FILE_SIZE \in Nat

VARIABLES
    freemap,        \* the blocks whose bit is 1
    unused_blocks,  \* in the superblock
    disk,           \* the cells of each block: bytes, or block numbers
    dinode,         \* each file's struct sfs_disk_inode on the disk
    loaded,         \* the inodes in memory (sfs->hash_list)
    din, dirty,     \* sin->din and sin->dirty of an inode in memory
    node, pos,      \* of each open descriptor; node is NULL if it is not open
    op,             \* the call in progress
    panic           \* the assertion that has failed, or "no"

diskVars == <<freemap, unused_blocks, disk, dinode>>
vars == <<diskVars, loaded, din, dirty, node, pos, op, panic>>

BlockNos == 1..NBlocks
MaxIndex == SFS_NDIRECT + SFS_BLK_NENTRY
Cells == 0..(SFS_BLKSIZE - 1)
Inode == [size : 0..SFS_MAX_FILE_SIZE, blocks : 0..MaxIndex,
          direct : [0..(SFS_NDIRECT - 1) -> 0..NBlocks], indirect : 0..NBlocks]
NewInode == [size |-> 0, blocks |-> 0, direct |-> [k \in 0..(SFS_NDIRECT - 1) |-> 0],
             indirect |-> 0]
Zeroes == [k \in Cells |-> 0]
None == [kind |-> "none"]

(* Type invariant: the disk, the inodes in memory and the call in progress.  *)
SfsTypeOK ==
    /\ freemap \subseteq BlockNos /\ unused_blocks \in 0..NBlocks
    /\ disk \in [BlockNos -> [Cells -> Nat]]
    /\ dinode \in [Files -> Inode]
    /\ loaded \subseteq Files
    /\ din \in [Files -> Inode] /\ dirty \in [Files -> BOOLEAN]
    /\ node \in [Fds -> Files \cup {NULL}] /\ pos \in [Fds -> 0..SFS_MAX_FILE_SIZE]
    /\ \/ op = None
       \/ op.kind = "resize" /\ op.fd \in Fds /\ op.len \in 0..SFS_MAX_FILE_SIZE
       \/ /\ op.kind \in {"read", "write"} /\ op.fd \in Fds
          /\ op.off \in 0..op.end /\ op.end \in 0..SFS_MAX_FILE_SIZE
    /\ panic \in {"no", "blocks", "index", "range", "inuse"}

(* mksfs has made the files, empty.                                         *)
Init ==
    /\ freemap = BlockNos /\ unused_blocks = NBlocks
    /\ disk = [b \in BlockNos |-> Zeroes]
    /\ dinode = [i \in Files |-> NewInode]
    /\ loaded = {} /\ din = [i \in Files |-> NewInode]
    /\ dirty = [i \in Files |-> FALSE]
    /\ node = [fd \in Fds |-> NULL] /\ pos = [fd \in Fds |-> 0]
    /\ op = None /\ panic = "no"

-----------------------------------------------------------------------------
RoundUpDiv(n) == (n + SFS_BLKSIZE - 1) \div SFS_BLKSIZE
Larger(m, n) == IF m > n THEN m ELSE n
Smaller(m, n) == IF m < n THEN m ELSE n

(* sfs_bmap_get_nolock with create = 0: the block of an index, 0 if none.   *)
Block(d, index) ==
    IF index < SFS_NDIRECT THEN d.direct[index]
    ELSE IF d.indirect = 0 THEN 0 ELSE disk[d.indirect][index - SFS_NDIRECT]

(* bitmap_alloc takes the lowest free block.                                *)
First == Min(freemap)
Second == Min(freemap \ {First})

Taken(bs) ==
    /\ freemap' = freemap \ bs
    /\ unused_blocks' = unused_blocks - Cardinality(bs)

(* sfs_bmap_load_nolock at index = blocks: create.  The file has one block  *)
(* more, and the inode is marked dirty, or not, as the code does.           *)
Grown(i, index) == [din[i] EXCEPT !.blocks = index + 1]

AddDirect(i, index) ==
    /\ index < SFS_NDIRECT /\ Block(din[i], index) = 0
    /\ freemap # {}
    /\ Taken({First})
    /\ disk' = [disk EXCEPT ![First] = Zeroes]
    /\ din' = [din EXCEPT ![i] = [Grown(i, index) EXCEPT !.direct[index] = First]]
    /\ dirty' = [dirty EXCEPT ![i] = TRUE]
    /\ UNCHANGED panic

AddIndirect(i, index) ==
    /\ index >= SFS_NDIRECT /\ din[i].indirect = 0
    /\ Cardinality(freemap) >= 2
    /\ Taken({First, Second})
    /\ disk' = [disk EXCEPT ![First] = [Zeroes EXCEPT ![index - SFS_NDIRECT] = Second],
                            ![Second] = Zeroes]
    /\ din' = [din EXCEPT ![i] = [Grown(i, index) EXCEPT !.indirect = First]]
    /\ dirty' = [dirty EXCEPT ![i] = TRUE]
    /\ UNCHANGED panic

AddEntry(i, index) ==
    LET ent == din[i].indirect IN
    /\ index >= SFS_NDIRECT /\ ent # 0
    /\ disk[ent][index - SFS_NDIRECT] = 0
    /\ freemap # {}
    /\ Taken({First})
    /\ disk' = [disk EXCEPT ![ent][index - SFS_NDIRECT] = First, ![First] = Zeroes]
    /\ din' = [din EXCEPT ![i] = Grown(i, index)]
    /\ UNCHANGED <<dirty, panic>>

(* The entry is there from an earlier call that failed.                     *)
ReuseEntry(i, index) ==
    /\ Block(din[i], index) # 0
    /\ panic' = IF Block(din[i], index) \in freemap THEN "inuse" ELSE panic
    /\ din' = [din EXCEPT ![i] = Grown(i, index)]
    /\ UNCHANGED <<freemap, unused_blocks, disk, dirty>>

Load(i, index) ==
    /\ index = din[i].blocks /\ index < MaxIndex
    /\ AddDirect(i, index) \/ AddIndirect(i, index) \/ AddEntry(i, index) \/ ReuseEntry(i, index)

(* No block, or only one where the index needs two: what was taken is given *)
(* back.                                                                    *)
NoSpace(i, index) ==
    /\ index = din[i].blocks /\ index < MaxIndex
    /\ \/ freemap = {} /\ Block(din[i], index) = 0
       \/ /\ index >= SFS_NDIRECT /\ din[i].indirect = 0
          /\ Cardinality(freemap) = 1

(* assert(index <= din->blocks), and the panic of sfs_bmap_get_nolock.      *)
LoadPanic(i, index) ==
    \/ index > din[i].blocks /\ panic' = "index"
    \/ index = din[i].blocks /\ index >= MaxIndex /\ panic' = "range"

(* sfs_bmap_truncate_nolock: the last block goes; the indirect block stays.  *)
FreedUncounted(b) ==                                              \* wrong
    freemap' = freemap \cup {b} /\ UNCHANGED <<unused_blocks, panic>>
Freed(b) ==
    IF b = 0 THEN UNCHANGED <<freemap, unused_blocks, panic>>
    ELSE /\ freemap' = freemap \cup {b}
         /\ unused_blocks' = unused_blocks + 1
         /\ panic' = IF b \in freemap THEN "inuse" ELSE panic

Shrunk(i) == [din[i] EXCEPT !.blocks = @ - 1]

ClearsDirect(d, index) == [d EXCEPT !.direct[index] = 0]

RemoveDirect(i) ==
    LET index == din[i].blocks - 1  b == Block(din[i], index) IN
    /\ index < SFS_NDIRECT
    /\ Freed(b)
    /\ din' = [din EXCEPT ![i] = ClearsDirect(Shrunk(i), index)]
    /\ UNCHANGED disk

RemoveEntry(i) ==
    LET index == din[i].blocks - 1  b == Block(din[i], index) IN
    /\ index >= SFS_NDIRECT
    /\ Freed(b)
    /\ disk' = [disk EXCEPT ![din[i].indirect][index - SFS_NDIRECT] = 0]
    /\ din' = [din EXCEPT ![i] = Shrunk(i)]

-----------------------------------------------------------------------------
Idle == panic = "no" /\ op = None
Running(k) == panic = "no" /\ op.kind = k

(* open: vfs_lookup loads the inode or finds it in memory.                  *)
Loaded(i) ==
    /\ loaded' = loaded \cup {i}
    /\ IF i \in loaded THEN UNCHANGED <<din, dirty>>
       ELSE /\ din' = [din EXCEPT ![i] = dinode[i]]
            /\ dirty' = [dirty EXCEPT ![i] = FALSE]

Open(fd, i) ==
    /\ Idle /\ node[fd] = NULL
    /\ Loaded(i)
    /\ node' = [node EXCEPT ![fd] = i]
    /\ \E append \in BOOLEAN :
          pos' = [pos EXCEPT ![fd] = IF append THEN din'[i].size ELSE 0]
    /\ UNCHANGED <<diskVars, op, panic>>

(* O_TRUNC or O_CREAT: vop_truncate(node, 0).  A file of size 0 must have   *)
(* no block.                                                                *)
OpenTruncated(fd, i) ==
    /\ Idle /\ node[fd] = NULL
    /\ Loaded(i)
    /\ IF din'[i].size = 0 /\ din'[i].blocks # 0
       THEN panic' = "blocks" /\ UNCHANGED <<node, pos, op>>
       ELSE /\ node' = [node EXCEPT ![fd] = i]
            /\ pos' = [pos EXCEPT ![fd] = 0]
            /\ op' = IF din'[i].size = 0 THEN None
                     ELSE [kind |-> "resize", fd |-> fd, len |-> 0]
            /\ UNCHANGED panic
    /\ UNCHANGED diskVars

(* dup, and fork for each descriptor: the position is copied, not shared.   *)
Dup(fd, from) ==
    /\ Idle /\ node[fd] = NULL /\ node[from] # NULL
    /\ node' = [node EXCEPT ![fd] = node[from]]
    /\ pos' = [pos EXCEPT ![fd] = pos[from]]
    /\ UNCHANGED <<diskVars, loaded, din, dirty, op, panic>>

(* close; the last one saves the inode (sfs_close) and drops it (sfs_reclaim). *)
NeverSaved(i) == dinode                                           \* wrong
SavedOnClose(i) == IF dirty[i] THEN [dinode EXCEPT ![i] = din[i]] ELSE dinode

Close(fd) ==
    LET i == node[fd] IN
    /\ Idle /\ i # NULL
    /\ node' = [node EXCEPT ![fd] = NULL] /\ pos' = [pos EXCEPT ![fd] = 0]
    /\ IF \E other \in Fds \ {fd} : node[other] = i
       THEN UNCHANGED <<loaded, din, dirty, dinode>>
       ELSE /\ dinode' = SavedOnClose(i)
            /\ loaded' = loaded \ {i}
            /\ din' = [din EXCEPT ![i] = NewInode]
            /\ dirty' = [dirty EXCEPT ![i] = FALSE]
    /\ UNCHANGED <<freemap, unused_blocks, disk, op, panic>>

(* fsync                                                                    *)
Fsync(fd) ==
    LET i == node[fd] IN
    /\ Idle /\ i # NULL /\ dirty[i]
    /\ dinode' = [dinode EXCEPT ![i] = din[i]]
    /\ dirty' = [dirty EXCEPT ![i] = FALSE]
    /\ UNCHANGED <<freemap, unused_blocks, disk, loaded, din, node, pos, op, panic>>

(* lseek: sfs_tryseek, which makes the file longer when it must.            *)
Seek(fd, p) ==
    /\ Idle /\ node[fd] # NULL
    /\ p < SFS_MAX_FILE_SIZE
    /\ IF p > din[node[fd]].size
       THEN op' = [kind |-> "resize", fd |-> fd, len |-> p] /\ UNCHANGED pos
       ELSE pos' = [pos EXCEPT ![fd] = p] /\ UNCHANGED op
    /\ UNCHANGED <<diskVars, loaded, din, dirty, node, panic>>

-----------------------------------------------------------------------------
(* sfs_truncfile: blocks are added or removed one by one, then the size is  *)
(* set.                                                                     *)

ResizeAdd ==
    LET i == node[op.fd] IN
    /\ Running("resize") /\ din[i].blocks < RoundUpDiv(op.len)
    /\ Load(i, din[i].blocks)
    /\ UNCHANGED <<dinode, loaded, node, pos, op>>

ResizeNoSpace ==
    LET i == node[op.fd] IN
    /\ Running("resize") /\ din[i].blocks < RoundUpDiv(op.len)
    /\ NoSpace(i, din[i].blocks)
    /\ op' = None
    /\ UNCHANGED <<diskVars, loaded, din, dirty, node, pos, panic>>

ResizeRemove ==
    LET i == node[op.fd] IN
    /\ Running("resize") /\ din[i].blocks > RoundUpDiv(op.len)
    /\ RemoveDirect(i) \/ RemoveEntry(i)
    /\ dirty' = [dirty EXCEPT ![i] = TRUE]
    /\ UNCHANGED <<dinode, loaded, node, pos, op>>

ResizeDone ==
    LET i == node[op.fd] IN
    /\ Running("resize") /\ din[i].blocks = RoundUpDiv(op.len)
    /\ din' = [din EXCEPT ![i].size = op.len]
    /\ dirty' = [dirty EXCEPT ![i] = TRUE]
    /\ pos' = [pos EXCEPT ![op.fd] = op.len]
    /\ op' = None
    /\ UNCHANGED <<diskVars, loaded, node, panic>>

-----------------------------------------------------------------------------
(* read and write: sfs_io_nolock, block after block.                        *)

Write(fd, n, c) ==
    LET off == pos[fd] IN
    /\ Idle /\ node[fd] # NULL
    /\ off < SFS_MAX_FILE_SIZE
    /\ op' = [kind |-> "write", fd |-> fd, off |-> off,
              end |-> Smaller(off + n, SFS_MAX_FILE_SIZE), c |-> c]
    /\ UNCHANGED <<diskVars, loaded, din, dirty, node, pos, panic>>

Read(fd, n) ==
    LET off == pos[fd]  size == din[node[fd]].size IN
    /\ Idle /\ node[fd] # NULL
    /\ off < size
    /\ op' = [kind |-> "read", fd |-> fd, off |-> off, end |-> Smaller(off + n, size),
              buf |-> <<>>]
    /\ UNCHANGED <<diskVars, loaded, din, dirty, node, pos, panic>>

Transferring == panic = "no" /\ op.kind \in {"read", "write"} /\ op.off < op.end

IoLoad ==
    /\ Transferring
    /\ Load(node[op.fd], op.off \div SFS_BLKSIZE)
    /\ UNCHANGED <<dinode, loaded, node, pos, op>>

(* The block that a resize or a transfer asks for next cannot be mapped.     *)
LoadPanics ==
    LET i == node[op.fd] IN
    /\ \/ /\ Running("resize") /\ din[i].blocks < RoundUpDiv(op.len)
          /\ LoadPanic(i, din[i].blocks)
       \/ /\ Transferring
          /\ LoadPanic(i, op.off \div SFS_BLKSIZE)
    /\ UNCHANGED <<diskVars, loaded, din, dirty, node, pos, op>>

(* sfs_wbuf, sfs_wblock, sfs_rbuf, sfs_rblock on the block of op.off.       *)
PieceEnd == Smaller(op.end, (op.off \div SFS_BLKSIZE + 1) * SFS_BLKSIZE)
Piece == {k \in Cells : \E j \in op.off..(PieceEnd - 1) : k = j % SFS_BLKSIZE}

WritePiece ==
    LET i == node[op.fd]  index == op.off \div SFS_BLKSIZE IN
    /\ Running("write") /\ op.off < op.end /\ index < din[i].blocks
    /\ disk' = [disk EXCEPT ![Block(din[i], index)] =
                  [k \in Cells |-> IF k \in Piece THEN op.c ELSE @[k]]]
    /\ op' = [op EXCEPT !.off = PieceEnd]
    /\ UNCHANGED <<freemap, unused_blocks, dinode, loaded, din, dirty, node, pos, panic>>

ReadPiece ==
    LET i == node[op.fd]  index == op.off \div SFS_BLKSIZE IN
    /\ Running("read") /\ op.off < op.end /\ index < din[i].blocks
    /\ op' = [op EXCEPT !.off = PieceEnd,
                        !.buf = @ \o [j \in 1..(PieceEnd - op.off) |->
                                  disk[Block(din[i], index)][(op.off + j - 1) % SFS_BLKSIZE]]]
    /\ UNCHANGED <<diskVars, loaded, din, dirty, node, pos, panic>>

(* All is done or the disk is full: the size is raised and the position     *)
(* advances by what was transferred.                                        *)
SizeRaised(i) == [din EXCEPT ![i].size = Larger(@, op.off)]

IoDone ==
    LET i == node[op.fd] IN
    /\ Running("read") \/ Running("write")
    /\ op.off = op.end \/ NoSpace(i, op.off \div SFS_BLKSIZE)
    /\ din' = SizeRaised(i)
    /\ dirty' = [dirty EXCEPT ![i] = @ \/ op.off > din[i].size]
    /\ pos' = [pos EXCEPT ![op.fd] = op.off]
    /\ op' = None
    /\ UNCHANGED <<diskVars, loaded, node, panic>>

(* A kernel that has panicked stays where it is.                            *)
Halted == panic # "no" /\ UNCHANGED vars

-----------------------------------------------------------------------------
Call(fd) ==
    \/ \E i \in Files : Open(fd, i) \/ OpenTruncated(fd, i)
    \/ \E from \in Fds : Dup(fd, from)
    \/ Close(fd) \/ Fsync(fd)
    \/ \E p \in 0..SFS_MAX_FILE_SIZE : Seek(fd, p)
    \/ \E n \in 1..MaxLen : Read(fd, n) \/ \E c \in Bytes : Write(fd, n, c)

Resize == ResizeAdd \/ ResizeNoSpace \/ ResizeRemove \/ ResizeDone

Io == IoLoad \/ LoadPanics \/ WritePiece \/ ReadPiece \/ IoDone

Next == Resize \/ Io \/ Halted \/ \E fd \in Fds : Call(fd)

Spec == Init /\ [][Next]_vars

-----------------------------------------------------------------------------
(* Safety.                                                                  *)

Current(i) == IF i \in loaded THEN din[i] ELSE dinode[i]

(* The blocks an inode refers to: direct, indirect and through the latter.  *)
References(i) ==
    LET d == Current(i) IN
    {<<"direct", k>> : k \in {k \in DOMAIN d.direct : d.direct[k] # 0}}
      \cup (IF d.indirect = 0 THEN {} ELSE
             {<<"indirect", 0>>} \cup
             {<<"entry", k>> : k \in {k \in Cells : disk[d.indirect][k] # 0}})

Referred(i, r) ==
    LET d == Current(i) IN
    CASE r[1] = "direct" -> d.direct[r[2]]
      [] r[1] = "indirect" -> d.indirect
      [] r[1] = "entry" -> disk[d.indirect][r[2]]

BlocksExact ==
    LET refs == {<<i, r>> : i \in Files, r \in UNION {References(i) : i \in Files}}
        used == {ir \in refs : ir[2] \in References(ir[1])} IN
    /\ \A x, y \in used : Referred(x[1], x[2]) = Referred(y[1], y[2]) => x = y
    /\ freemap = BlockNos \ {Referred(x[1], x[2]) : x \in used}
    /\ unused_blocks = Cardinality(freemap)
    /\ panic # "inuse"

(* A block is free or belongs to one place of one file, whatever has failed *)
(* half way, and the superblock counts the free ones; no assertion on       *)
(* sfs_block_inuse fails.  A file has no holes: each of its blocks is there.*)
FreeMapOk ==
    /\ SfsTypeOK
    /\ BlocksExact
    /\ \A i \in Files : \A index \in 0..(Current(i).blocks - 1) :
          Block(Current(i), index) \notin freemap \cup {0}

(* The blocks, the inode on the disk and the one in memory together are a   *)
(* sequence of bytes, through every partial write, failed allocation, close *)
(* and load.  A call in progress counts for what it has done.               *)
Length(i) ==
    LET size == Current(i).size IN
    IF op = None \/ op.fd \notin {fd \in Fds : node[fd] = i} THEN size
    ELSE IF op.kind = "resize" THEN Smaller(size, op.len)
    ELSE Larger(size, op.off)

Contents(i) ==
    [j \in 1..Length(i) |->
        LET b == Block(Current(i), (j - 1) \div SFS_BLKSIZE) IN
        IF b = 0 THEN 0 ELSE disk[b][(j - 1) % SFS_BLKSIZE]]

Position(fd) == IF op # None /\ op.kind # "resize" /\ op.fd = fd THEN op.off ELSE pos[fd]

Ideal == INSTANCE ByteFiles WITH
    file <- [i \in Files |-> Contents(i)],
    pos <- [fd \in Fds |-> Position(fd)],
    buf <- IF op # None /\ op.kind = "read" THEN op.buf ELSE <<>>,
    MaxStep <- SFS_BLKSIZE,
    MaxPos <- SFS_MAX_FILE_SIZE

ImplementsFiles == Ideal!ByteSpec

=============================================================================
