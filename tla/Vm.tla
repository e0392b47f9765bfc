--------------------------------- MODULE Vm ---------------------------------
(***************************************************************************)
(* The memory of user processes in lab5: areas (vmm.c), three levels of    *)
(* page tables and the reference counts of frames (pmm.c), and what        *)
(* execve, fork, exit and a store do with them (proc.c, trap.c).           *)
(* copy_range has two modes, which `share' chooses: a copy of each frame,  *)
(* and copy on write.  lab8 has the same code with the first mode only.    *)
(*                                                                         *)
(* A call of the kernel is one step: it is not preempted.  Between a page  *)
(* fault and the store that is then repeated, others may run.  Nothing     *)
(* reads the number of a frame: those of user pages have names, those of   *)
(* tables are only counted.  What a frame holds is dropped when it is      *)
(* freed.  The structures that kmalloc gives are taken to be there.        *)
(***************************************************************************)
EXTENDS Integers, FiniteSetsExt, Functions, SequencesExt, TLC

CONSTANTS Procs, VASize, Programs, Values,
          Shares,    \* the modes of copy_range: a subset of BOOLEAN
          NPages,    \* the frames of the memory
          PTSIZE,    \* the pages one page table maps
          PDSIZE,    \* the pages one level 0 directory maps
          USTACKSIZE,\* the pages of the area of the stack
          Touched,   \* bound: the pages that processes store to
          Garbage,   \* bound: what a page may hold that is not cleared
          MaxLost    \* bound: the frames that may be lost

ASSUME VmAssumption ==
    /\ IsFiniteSet(Procs) /\ NPages \in Nat /\ Shares \subseteq BOOLEAN
    /\ {VASize, PDSIZE, PTSIZE, USTACKSIZE} \subseteq Nat \ {0}
    /\ VASize % PDSIZE = 0 /\ PDSIZE % PTSIZE = 0 /\ USTACKSIZE <= VASize
    /\ Touched \subseteq 0..VASize - 1 /\ Garbage \cup {0} \subseteq Values /\ Values \subseteq Nat

(* A segment of a program: its pages, how far they come from the file, what *)
(* is in these, and whether it may be written.  The segments rise, as       *)
(* tools/user.ld lays them out, and end below the stack.                    *)
SegmentOk(seg) ==
    /\ {seg.lo, seg.file, seg.hi} \subseteq Nat /\ seg.value \in Values /\ seg.w \in BOOLEAN
    /\ seg.lo < seg.hi /\ seg.file \in seg.lo..seg.hi /\ seg.hi <= VASize - USTACKSIZE

ASSUME ProgramAssumption ==
    \A prog \in Programs :
        /\ prog \in Seq(Range(prog))
        /\ \A i \in DOMAIN prog : SegmentOk(prog[i])
        /\ \A i, j \in DOMAIN prog : i < j => prog[i].hi <= prog[j].lo

VARIABLES share,
          executed, \* history: the programs loaded so far
          m         \* the frames, and the mm of each process

vmVars == <<share, executed, m>>

NULL == 0
Frames == 1..NPages
Addrs == 0..VASize - 1
USTACKTOP == VASize
StackArea == [lo |-> USTACKTOP - USTACKSIZE, hi |-> USTACKTOP]

(* The level 0 directory a page is under, and its page table.               *)
PDX1(a) == a \div PDSIZE
PDX0(a) == a \div PTSIZE
DirNumbers == {PDX1(a) : a \in Addrs}
TableNumbers == {PDX0(a) : a \in Addrs}
Pages(t) == {a \in Addrs : PDX0(a) = t}
Tables(d) == {PDX0(a) : a \in {b \in Addrs : PDX1(b) = d}}

NoEntry == [page |-> NULL, w |-> FALSE, cow |-> FALSE]

(* pgdir: there is a page directory; dirs and tables: what hangs below it.  *)
NoMm == [pgdir |-> FALSE, dirs |-> {}, tables |-> {}, pte |-> [a \in Addrs |-> NoEntry], mmap |-> <<>>]

-----------------------------------------------------------------------------
(* pmm.c.  m.ok says that a call has not failed so far, m.short that an     *)
(* allocation has at some time, m.stopped that an assertion has.            *)
TakeFrame(s) ==
    IF s.nfree = 0 THEN [s EXCEPT !.ok = FALSE, !.short = TRUE]
    ELSE [s EXCEPT !.nfree = @ - 1]

(* alloc_page for a user page, which will hold value.                       *)
NextFrame(s) == IF s.nfree = 0 THEN NULL ELSE Min(s.free)

alloc_page(s, value) ==
    LET page == NextFrame(s)
    IN  IF page = NULL THEN TakeFrame(s)
        ELSE [TakeFrame(s) EXCEPT !.free = @ \ {page}, !.data[page] = value]

free_page(s, page) ==
    [s EXCEPT !.nfree = @ + 1, !.free = @ \cup {page}, !.data[page] = 0]

(* get_pte with create: the directory, then the table.  Without create it   *)
(* answers with an entry or, where there is no table, with NoEntry.         *)
MakeDirectory(s, p, d) ==
    LET taken == TakeFrame(s)
    IN  IF d \in s.mm[p].dirs THEN s
        ELSE IF taken.ok THEN [taken EXCEPT !.mm[p].dirs = @ \cup {d}]
        ELSE taken

MakeTable(s, p, t) ==
    LET taken == TakeFrame(s)
    IN  IF ~s.ok \/ t \in s.mm[p].tables THEN s
        ELSE IF taken.ok THEN [taken EXCEPT !.mm[p].tables = @ \cup {t}]
        ELSE taken

get_pte(s, p, a) == MakeTable(MakeDirectory(s, p, PDX1(a)), p, PDX0(a))

page_remove_pte(s, p, a) ==
    LET page == s.mm[p].pte[a].page
        left == [s EXCEPT !.ref[page] = @ - 1, !.mm[p].pte[a] = NoEntry]
    IN  IF left.ref[page] = 0 THEN free_page(left, page) ELSE left

(* wrong: an entry that is replaced keeps its count.                        *)
InsertedOver(s, p, page, a, w, cow) ==
    LET pt == get_pte(s, p, a)
    IN  IF pt.ok THEN [pt EXCEPT !.ref[page] = @ + 1,
                                 !.mm[p].pte[a] = [page |-> page, w |-> w, cow |-> cow]]
        ELSE pt

page_insert(s, p, page, a, w, cow) ==
    LET pt == get_pte(s, p, a)
        old == pt.mm[p].pte[a].page
        counted == [pt EXCEPT !.ref[page] = @ + 1]
        cleared == IF old = NULL THEN counted
                   ELSE IF old = page THEN [counted EXCEPT !.ref[page] = @ - 1]
                   ELSE page_remove_pte(counted, p, a)
    IN  IF pt.ok THEN [cleared EXCEPT !.mm[p].pte[a] = [page |-> page, w |-> w, cow |-> cow]]
        ELSE pt

pgdir_alloc_page(s, p, a, w, value) ==
    LET page == NextFrame(s)
        put == page_insert(alloc_page(s, value), p, page, a, w, FALSE)
    IN  IF page = NULL THEN alloc_page(s, value)
        ELSE IF ~put.ok THEN free_page(put, page)
        ELSE put

Upto(lo, hi) == [i \in 1..hi - lo |-> lo + i - 1]

UnmapPage(s, p, a) == IF s.mm[p].pte[a].page = NULL THEN s ELSE page_remove_pte(s, p, a)

unmap_range(s, p, lo, hi) == FoldLeft(LAMBDA left, a : UnmapPage(left, p, a), s, Upto(lo, hi))

(* exit_range at one level 0 directory: of the tables between lo and hi it  *)
(* frees the empty ones, then the directory, if it met no entry without a   *)
(* table.  Other tables under the directory cannot be reached any more.     *)
ExitDirectory(s, p, d, lo, hi) ==
    LET mm == s.mm[p]
        met == Tables(d) \cap PDX0(lo)..PDX0(hi - 1)
        empty == {t \in met \cap mm.tables : \A a \in Pages(t) : mm.pte[a] = NoEntry}
        left == [s EXCEPT !.nfree = @ + Cardinality(empty), !.mm[p].tables = @ \ empty]
    IN  IF d \notin mm.dirs THEN s
        ELSE IF met \subseteq mm.tables
             THEN [left EXCEPT !.nfree = @ + 1, !.mm[p].dirs = @ \ {d}, !.mm[p].tables = @ \ Tables(d)]
        ELSE left

exit_range(s, p, lo, hi) ==
    FoldLeft(LAMBDA left, d : ExitDirectory(left, p, d, lo, hi), s, Upto(PDX1(lo), PDX1(hi - 1) + 1))

(* One page of copy_range.  With share the child gets PTE_COW for a page    *)
(* that its parent may write; for one that is copy on write already it does *)
(* not, because PTE_USER, which perm is taken from, has no PTE_COW.         *)
CopyPage(s, to, from, a) ==
    LET pte == s.mm[from].pte[a]
        pt == get_pte(s, to, a)
        shared == IF pte.w THEN [pt EXCEPT !.mm[from].pte[a] = [pte EXCEPT !.w = FALSE, !.cow = TRUE]]
                  ELSE pt
    IN  IF ~s.ok \/ pte.page = NULL THEN s
        ELSE IF ~pt.ok THEN pt
        ELSE IF share THEN page_insert(shared, to, pte.page, a, FALSE, pte.w)
        ELSE IF pt.nfree = 0 THEN [TakeFrame(pt) EXCEPT !.stopped = TRUE]
        ELSE page_insert(alloc_page(pt, s.data[pte.page]), to, NextFrame(pt), a, pte.w, FALSE)

copy_range(s, to, from, lo, hi) ==
    FoldLeft(LAMBDA left, a : CopyPage(left, to, from, a), s, Upto(lo, hi))

-----------------------------------------------------------------------------
(* vmm.c and proc.c.                                                        *)
find_vma(s, p, a) == {vma \in Range(s.mm[p].mmap) : vma.lo <= a /\ a < vma.hi}

(* wrong: an area becomes the last, wherever it starts.                     *)
InsertedLast(s, p, vma) == [s EXCEPT !.mm[p].mmap = Append(@, vma)]

insert_vma_struct(s, p, vma) ==
    LET mmap == s.mm[p].mmap
        above == {i \in DOMAIN mmap : mmap[i].lo > vma.lo}
    IN  [s EXCEPT !.mm[p].mmap = InsertAt(@, Min(above \cup {Len(mmap) + 1}), vma)]

UnmapAreas(s, p, mmap) ==
    FoldLeft(LAMBDA left, vma : unmap_range(left, p, vma.lo, vma.hi), s, mmap)
ExitAreas(s, p, mmap) ==
    FoldLeft(LAMBDA left, vma : exit_range(left, p, vma.lo, vma.hi), s, mmap)
exit_mmap(s, p) == ExitAreas(UnmapAreas(s, p, s.mm[p].mmap), p, s.mm[p].mmap)

(* exit_mmap, put_pgdir and mm_destroy: an mm has one process.              *)
put_mm(s, p) ==
    IF s.mm[p].pgdir THEN [exit_mmap(s, p) EXCEPT !.nfree = @ + 1, !.mm[p] = NoMm] ELSE s

setup_pgdir(s, p) ==
    LET taken == TakeFrame(s) IN IF taken.ok THEN [taken EXCEPT !.mm[p].pgdir = TRUE] ELSE taken

CopyArea(s, to, from, vma) ==
    IF s.ok THEN copy_range(insert_vma_struct(s, to, vma), to, from, vma.lo, vma.hi) ELSE s

dup_mmap(s, to, from) ==
    FoldLeft(LAMBDA left, vma : CopyArea(left, to, from, vma), s, Reverse(s.mm[from].mmap))

mm_map(s, p, lo, hi) ==
    IF ~s.ok \/ find_vma(s, p, lo) # {} THEN [s EXCEPT !.ok = FALSE]
    ELSE insert_vma_struct(s, p, [lo |-> lo, hi |-> hi])

LoadPage(s, p, a, w, value) == IF s.ok THEN pgdir_alloc_page(s, p, a, w, value) ELSE s

LoadFrom(s, p, a, seg) == LoadPage(s, p, a, seg.w, IF a < seg.file THEN seg.value ELSE 0)

LoadSegment(s, p, seg) ==
    FoldLeft(LAMBDA left, a : LoadFrom(left, p, a, seg),
             mm_map(s, p, seg.lo, seg.hi), Upto(seg.lo, seg.hi))

LoadSegments(s, p, prog) == FoldLeft(LAMBDA left, seg : LoadSegment(left, p, seg), s, prog)

(* The page of the stack is not cleared.                                    *)
load_icode(s, p, prog, garbage) ==
    LET loaded == LoadSegments(setup_pgdir(s, p), p, prog)
        mapped == mm_map(loaded, p, StackArea.lo, StackArea.hi)
        ready == LoadPage(mapped, p, USTACKTOP - 1, TRUE, garbage)
    IN  [ready EXCEPT !.stopped = mapped.ok /\ ~ready.ok]

(* wrong: the shared frame is made writable, as in the part of do_pgfault   *)
(* that imitates Dirty COW and is commented out.                            *)
SharedMadeWritable(s, p, a) ==
    IF find_vma(s, p, a) = {} \/ ~s.mm[p].pte[a].cow THEN [s EXCEPT !.ok = FALSE]
    ELSE [s EXCEPT !.mm[p].pte[a] = [@ EXCEPT !.w = TRUE, !.cow = FALSE]]

(* do_pgfault on a store; not ok: the process will be killed.               *)
do_pgfault(s, p, a) ==
    LET pte == s.mm[p].pte[a]
    IN  IF find_vma(s, p, a) = {} \/ ~pte.cow THEN [s EXCEPT !.ok = FALSE]
        ELSE IF s.ref[pte.page] = 1 THEN [s EXCEPT !.mm[p].pte[a] = [@ EXCEPT !.w = TRUE, !.cow = FALSE]]
        ELSE IF s.nfree = 0 THEN TakeFrame(s)
        ELSE page_insert(alloc_page(s, s.data[pte.page]), p, NextFrame(s), a, TRUE, FALSE)

-----------------------------------------------------------------------------
Init ==
    /\ share \in Shares
    /\ executed = {}
    /\ m = [nfree |-> NPages, free |-> Frames, ref |-> [page \in Frames |-> 0],
            data |-> [page \in Frames |-> 0], mm |-> [p \in Procs |-> NoMm],
            ok |-> TRUE, short |-> FALSE, stopped |-> FALSE]

(* The end of a call that built the mm of p or repaired it; when it failed, *)
(* p has none.  When an assertion failed in it, nothing is seen of it.      *)
Finish(s, p) ==
    /\ m' = IF s.stopped THEN [m EXCEPT !.stopped = TRUE]
            ELSE IF s.ok THEN s
            ELSE [put_mm(s, p) EXCEPT !.ok = TRUE]
    /\ UNCHANGED share

(* do_exit                                                                  *)
Exit(p) ==
    /\ m.mm[p].pgdir
    /\ Finish([m EXCEPT !.ok = FALSE], p)
    /\ UNCHANGED executed

(* do_execve, of a process or of a kernel thread; when it fails, do_exit.   *)
Execve(p, prog, garbage) ==
    /\ Finish(load_icode(put_mm(m, p), p, prog, garbage), p)
    /\ executed' = executed \cup {prog}

(* copy_mm in do_fork; when it fails, there is no child.                    *)
Fork(p, q) ==
    LET made == setup_pgdir(m, q)
    IN  /\ m.mm[p].pgdir
        /\ ~m.mm[q].pgdir
        /\ Finish(IF made.ok THEN dup_mmap(made, q, p) ELSE made, q)
        /\ UNCHANGED executed

(* A store by the process, and the trap that comes instead of it.           *)
Store(p, a, v) ==
    /\ m.mm[p].pte[a].w
    /\ m' = [m EXCEPT !.data[m.mm[p].pte[a].page] = v]
    /\ UNCHANGED <<share, executed>>

StorePageFault(p, a) ==
    /\ m.mm[p].pgdir
    /\ ~m.mm[p].pte[a].w
    /\ Finish(do_pgfault(m, p, a), p)
    /\ UNCHANGED executed

(* What frames are taken for besides user pages.                            *)
Roots(s) == {p \in Procs : s.mm[p].pgdir}
Directories(s) == {pd \in Procs \X DirNumbers : pd[2] \in s.mm[pd[1]].dirs}
PageTables(s) == {pt \in Procs \X TableNumbers : pt[2] \in s.mm[pt[1]].tables}

(* Frames that are neither free nor in use.                                 *)
LostIn(s) == NPages - s.nfree - Cardinality(Frames \ s.free)
               - Cardinality(Roots(s)) - Cardinality(Directories(s)) - Cardinality(PageTables(s))
Lost == LostIn(m)

Next ==
    /\ ~m.stopped
    /\ \E p \in Procs :
          \/ Exit(p)
          \/ \E prog \in Programs, garbage \in Garbage : Execve(p, prog, garbage)
          \/ \E q \in Procs \ {p} : Fork(p, q)
          \/ \E a \in Touched, v \in Values : Store(p, a, v)
          \/ \E a \in Touched : StorePageFault(p, a)
    /\ Lost' <= MaxLost

Spec == Init /\ [][Next]_vmVars

-----------------------------------------------------------------------------
(* Properties.                                                              *)

(* The values of the fields, and areas that rise without overlap.           *)
VmTypeOK ==
    /\ m.ref \in [Frames -> 0..Cardinality(Procs)]
    /\ m.data \in [Frames -> Values]
    /\ m.nfree \in 0..NPages
    /\ m.ok
    /\ \A p \in Procs :
          LET mm == m.mm[p]
          IN  /\ \A t \in mm.tables : \E a \in Pages(t) : PDX1(a) \in mm.dirs
              /\ \A i \in 1..Len(mm.mmap) - 1 : mm.mmap[i].hi <= mm.mmap[i + 1].lo

MappingsIn(s, page) == {pa \in Procs \X Addrs : s.mm[pa[1]].pte[pa[2]].page = page}
Mappings(page) == MappingsIn(m, page)

(* A program with two page tables under one directory.                      *)
AreasOf(prog) == {[lo |-> prog[i].lo, hi |-> prog[i].hi] : i \in DOMAIN prog} \cup {StackArea}
PagesOf(prog) == UNION {area.lo..area.hi - 1 : area \in AreasOf(prog)}
Crowded(prog) == \E a, b \in PagesOf(prog) : PDX1(a) = PDX1(b) /\ PDX0(a) # PDX0(b)

(* page_insert, page_remove_pte, copy_range, do_pgfault, exit_mmap:         *)
(* page_ref is the number of entries that map a frame, and a frame is free  *)
(* just when that is 0; one that may be written has one owner; what is      *)
(* mapped is in an area of its process and has its tables.  No frame is     *)
(* free twice, and none is lost unless an allocation had failed (get_pte    *)
(* half way) or a program with two tables under one directory has been      *)
(* loaded (exit_range).                                                     *)
FramesExact ==
    /\ \A page \in Frames :
          /\ m.ref[page] = Cardinality(Mappings(page))
          /\ page \in m.free <=> m.ref[page] = 0
    /\ \A p \in Procs : \A a \in Addrs :
          LET pte == m.mm[p].pte[a]
          IN  pte.page # NULL =>
                /\ pte.w => m.ref[pte.page] = 1 /\ ~pte.cow
                /\ find_vma(m, p, a) # {}
                /\ PDX0(a) \in m.mm[p].tables
    /\ Lost >= 0
    /\ Lost > 0 => m.short \/ \E prog \in executed : Crowded(prog)

(* What a process sees of its memory.                                       *)
UNMAPPED == -1
SpaceOf(p) ==
    [a \in Addrs |-> IF m.mm[p].pte[a].page = NULL THEN UNMAPPED ELSE m.data[m.mm[p].pte[a].page]]

Spaces == INSTANCE Spaces WITH space <- [p \in Procs |-> SpaceOf(p)]

(* load_icode, dup_mmap, do_pgfault, do_exit: each process finds its program*)
(* and its own stores in its memory, its child starts with the same, and    *)
(* nobody else changes them, whichever frames are shared.                   *)
ImplementsSpaces == Spaces!Spec

=============================================================================
