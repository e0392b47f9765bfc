# A TLA+ development of the ucore kernel of lab8

The repository holds eight stages of one teaching kernel, ucore for RISC-V:
`lab1` to `lab8`, each built on the one before. `lab8` is the complete system
and the one modelled here; code that only an earlier stage has (best fit, the
buddy system and SLUB of `lab2`, copy on write of `lab5`, the stride scheduler
that `lab6` runs) is modelled from that stage. The modules are checked with TLC
on small instances; processes, scheduler, timers, semaphores, monitor, keyboard,
pids, open files, the blocks of SFS, page tables, the free list of first fit and
best fit and the stride scheduler are also proved about with TLAPS, for instances of
any size.

## 1. Inventory

The kernel runs on one processor and is never preempted: `trap` calls
`schedule` only when it returns to user mode, so kernel code gives up the CPU
where it calls `schedule` itself and nowhere else. What interleaves is

* processes, at those calls of `schedule`, and
* the timer interrupt, wherever interrupts are enabled: in user mode, in the
  idle loop, and in kernel threads outside `local_intr_save`/`restore`. The
  kernel path of a user process runs with interrupts disabled (`trap` is
  entered with `sstatus.SIE` clear and nothing sets it).

| component | state it keeps | operations | interacts with | hard behaviour | what makes it correct |
|---|---|---|---|---|---|
| processes `kern/process/proc.c` | `proc_struct`s: state, PF_EXITING, wait_state, parent/cptr/yptr/optr; `proc_list`, `nr_process` | fork, exec, exit, wait, kill, yield, sleep; `init_main`, `cpu_idle` | scheduler, timers, files, memory | exit against wait, orphans, kill against sleep, failures half way | every process is reaped once, by its parent; no lost wakeup; sibling lists stay lists; nothing points to freed memory |
| scheduler `sched.c`, `default_sched.c` | run queue, time slices, `need_resched`, `current` | `wakeup_proc`, `schedule`, the tick | called by everybody | a wakeup of the process that is just going to sleep | queued = runnable and not running, once; nobody starves |
| timers `sched.c` | `timer_list`, a list of differences | `add_timer`, `del_timer`, `run_timer_list` | timers are local variables of sleepers | equal and zero differences, deletion in the middle, several expiring at once | each timer expires after its number of ticks, unless deleted |
| semaphores, wait queues `sem.c`, `wait.c` | value, queue of waiters, wakeup flags | `up`, `down`, `try_down` | scheduler; users: monitors, SFS locks, `mm_sem`, VFS | hand-over of a unit to a sleeper | a unit is neither lost nor doubled |
| monitor, `check_sync.c` | `next_count`, count of each condition | `cond_signal`, `cond_wait`; the philosophers | semaphores, `do_sleep` | who owns the monitor after a signal | one thread inside; neighbours never eat together; nobody waits for ever |
| keyboard `dev_stdin.c` | ring buffer, two positions, wait queue | `dev_stdin_write` (interrupt), `dev_stdin_read` | wait queues, kill | a full buffer, a killed reader | each character is read once, in order, but for those typed at a full buffer: they take the oldest one's place |
| open files `file.c`, `sysfile.c`, `fs.c` | a table of descriptors per process | open, close, dup, read, write, copies in fork, closes in exec and exit | VFS, inode counts | inodes shared by parent and child; a read that sleeps and is killed | an inode is referred to as often as it is used; the assertions on counts hold |
| VFS `fs/vfs` | `ref_count`, `open_count` of inodes, the device list, boot fs | lookup, mount, open, close | SFS, devices | reclaim when both counts reach 0 | no inode is used after it is reclaimed |
| SFS `fs/sfs` | inode hash list, free map, dirty flags, blocks of a file | load, reclaim, block map, truncate, sync | disk0, semaphores | a disk that gets full half way, indirect blocks, memory and disk copies | a block belongs to one file; the free map says which are free; a file is a sequence of bytes |
| physical memory `pmm.c`, `default_pmm.c` | free list of page blocks, page reference counts, page tables | alloc, free, map, unmap | kmalloc, vmm | coalescing, partial failure | free pages are disjoint and coalesced; a page is free when nothing maps it |
| kernel heap `kmalloc.c` | SLOB free lists, big blocks | kmalloc, kfree | pmm | sizes at a page boundary | blocks do not overlap |
| virtual memory `vmm.c` | the list of areas of an `mm` | map, find, dup, exit | pmm, fork, exec | overlap of areas, cached last hit | areas are sorted and disjoint |
| pids `get_pid` in `proc.c` | `last_pid`, `next_safe` | get_pid | `proc_list` | wrap at MAX_PID, stale `next_safe` | a pid is not in use |
| stride scheduler `default_sched_stride.c`, `skew_heap.h` (lab6) | skew heap of strides, strides of 32 bits | enqueue, dequeue, pick, tick | alternative to round robin | overflow of the stride, links of the heap | the smallest stride runs, also across the overflow; nobody starves |
| copy on write (lab5: `vmm.c`, `pmm.c`, `trap.c`) | page tables with PTE_COW, `page_ref` | `copy_range`, `do_pgfault`, `exit_mmap` | fork, exec, exit | two processes fault on one frame; memory ends half way | each process sees its own memory; `page_ref` is the number of entries |
| allocators of lab2 (`best_fit_pmm.c`, `buddy_pmm.c`, `slub.c`) | free lists, one per order; slabs | alloc, free | alternatives to first fit and SLOB | merging of buddies, slabs that change lists | no page or object is given out twice or lost |
| traps and system calls | the trap frame | dispatch | everything | a trap inside the kernel | exit and reschedule only on return to user mode |
| boot, drivers, debugging, `libs`, user programs, `tools` | | | | | |

The full list, with the status of each part, is in `PROJECT.json` under
`components`; `hazards` there names, with its line, what in this code is hard
to test, and the properties that cover it.

## 2. The modules

| module | what it is |
|---|---|
| `Sched` | the scheduler: its variables and one operator per routine (`wakeup_proc`, `schedule`, `add_timer`, `del_timer`, the three parts of `run_timer_list`), with the two properties of the run queue that all its users keep (`QueueOk`, `WaitStateOk`) |
| `Proc` | extends `Sched` with processes: traps, system calls, the loops of `idleproc` and `initproc`; `Init`, `Next`, `Spec`, `FairSpec` |
| `ProcLife` | abstract: the life of a process: forked by a living parent, dead once, its children handed to `initproc`, reaped by its parent |
| `Timeouts` | abstract: timers that know nothing of each other, each with its ticks left |
| `ProcProps` | the properties of `Proc`, and the refinement mapping to `ProcLife` |
| `ProcInv` | the inductive invariants of `Proc`: `IInv` for scheduling, `TreeInv` for the process tree |
| `ProcProofs` | the proofs about `Proc`: scheduling first, then the process tree |
| `QueueProofs` | lemmas on sequences without repetitions: append, tail, insert, remove, a turn of the run queue, and what is in them then; on numbers and finite sets; used by all proofs |
| `Timer` | the delta list of `sched.c`, where a timer stores the difference to the one before it; implements `Timeouts` |
| `Wait` | `wait_current_del`, with which a sleeper leaves a wait queue |
| `Sem` | extends `Sched` and `Wait` with semaphores and their wait queues: `up`, and `down` in three parts |
| `CheckSync` | extends `Sem` with `check_sync.c` and `monitor.c`: the philosophers, first with semaphores, then with the monitor |
| `CheckSyncProofs` | the inductive invariant of `CheckSync`, and the proofs |
| `Keyboard` | abstract: keys are read in the order they were typed, each by one reader |
| `Stdin` | extends `Sched` and `Wait` with `dev_stdin.c`: the ring buffer, its wait queue, the interrupt, readers that are killed; implements `Keyboard` |
| `StdinProofs` | the inductive invariant of `Stdin`, and its refinement of `Keyboard` |
| `ByteFiles` | abstract: a file is a sequence of bytes, a descriptor a position in one |
| `Sfs` | regular files of SFS: free map, block map, inodes on disk and in memory, the loops of read, write and truncate; implements `ByteFiles` |
| `SfsProofs` | the inductive invariants of `Sfs`, the proof that no block is lost or used twice, and its refinement of `ByteFiles` |
| `Files` | descriptor tables, current directories and the counts of inodes, across open, dup, fork, exec, chdir and exit |
| `FilesProofs` | the inductive invariant of `Files`, and the proof that the counts are exact |
| `Pmm` | operators of the three page managers: first fit and best fit with the links of their list, the buddies |
| `Slob`, `Slub` | extend `Pmm` with the two object allocators, `kmalloc.c` and `slub.c` |
| `Heap` | the memory of one kernel: a page manager, its clients, and the object allocator above it |
| `Spaces` | abstract: each process has a memory of its own |
| `Vm` | page tables, areas, frames and their counts, through exec, fork, store, fault and exit; implements `Spaces` |
| `VmProofs` | the inductive invariant of `Vm`, the proof that frames are exact, and its refinement of `Spaces` |
| `IdealStride` | abstract: stride scheduling with numbers that do not overflow; it promises their order until somebody joins from too far away |
| `Stride` | the stride scheduler of lab6 with its skew heap and machine words; implements `IdealStride` |
| `Pids` | `get_pid` against the list of processes |
| `LinkProofs` | the proofs about `Timer` (the delta list and its refinement of `Timeouts`), `Pids` (pids are unique), `Stride` (the skew heap and its refinement of `IdealStride`) and `Heap` (the free list of first fit and best fit) |
| `MC...` | instances for TLC: symmetry sets and sets of inputs |

How they meet: `Proc`, `CheckSync` and `Stdin` all run on the same `Sched`, so
the scheduler that the proofs are about is the one the semaphores and the
keyboard are checked with. `Sched` keeps a timer as the ticks left and `Timer`
keeps the list of differences that the code has; it implements `Timeouts`, which has
timers in the form of `Sched`, so `timer_list` checks what `Sched` leaves out. `Proc` says when a process has files and
when it loses them, `Files` what is in its table, and `Sfs` what the inodes
that the table refers to do on the disk. `Proc` lets memory be there or not;
`Heap` says what the page manager and the kernel heap do with requests from
several owners at once, and `Vm` what a process holds of it.

Definitions marked `wrong` are plausible mistakes. Each is the counterpart of
the definition that follows it; with it in that place, the property that
`PROJECT.json` names under `mutants` fails.

### State and actions of `Proc`

`pc[p]` says in which routine process `p` is. Because the kernel is not
preempted, only `current` moves, and a routine could be one step; it is cut
into steps where another actor can see the state between them: at `schedule`,
where a timer interrupt may come (kernel threads run with interrupts enabled),
and at each iteration of a loop over the process tree. Interrupts are disabled
for the hand-over of children in `do_exit` (`IrqEnabled`).

| code | actions |
|---|---|
| `interrupt_handler`, `run_timer_list` | `TimerIrq`, `TimerExpire` (one iteration of the loop), `TimerTick` |
| tail of `trap` | `TrapReturn` |
| `do_fork`, `kernel_thread` | `SysFork`, `InitThread` (`do_fork`, `set_links`) |
| `do_wait` | `SysWait`, `WaitRepeat`, `WaitScan`, `WaitSleep`, `WaitSchedule`, `Waited`, `WaitFound` (`remove_links`) |
| `do_exit` | `Exit`, `ExitWakeup`, `ExitReparent`, `ExitReparented`, `ExitSchedule` |
| `do_sleep` | `Sleep`, `SleepSchedule`, `SleepReturn` |
| `do_kill`, `do_yield`, `do_execve` | `SysKill`, `SysYield`, `Exec` |
| `init_main`, `cpu_idle` | `InitThread`, `InitBooted`, `InitLoop`, `InitQuit`; `Idle` |
| all other system calls | `SysOther` |

Abstractions: a process structure is a model value and its pid is itself; a
freed structure may be allocated again, and its fields are then what
`alloc_proc` and `do_fork` make them. Memory and files are reduced to whether a
process holds them. A timer is the number of ticks left. A system call that
only fails is `SysOther`.

### `CheckSync` and `Sem`

The threads of `check_sync` are kernel threads: they run with interrupts
enabled, but the timer interrupt does not call `schedule`, so they switch at
`down`, `do_sleep` and their end. `pc` is the label a thread is at, `ret` where
`do_sleep` or the table functions return to, `cont` where `down` returns to.
One action is the code between two such points (`Take`, `Put`, `TestSema`,
`Signal`, `CondWait`, `Leave`, ...); `up` hands the unit to the first waiter,
which `Sem` models as the code does, without raising the value. `initproc`
creates the threads of one half and waits for each.

### `Stdin`

The interrupt is two parts, `Key` (put the character, advance `p_wpos` unless
the buffer is full) and `WakeReader` (empty the wait queue): a second interrupt
cannot come between them, a reader neither. At a full buffer the code
writes to the slot of `p_wpos`, which is that of `p_rpos`, and does not advance: the new
key takes the place of the oldest unread one and is read next, before keys typed
earlier. `Keyboard` says so (`Type`); nothing else is lost or out of order. `dev_stdin_read` is `ReadKey`,
`ReadWait`, `ReadSchedule`, `ReadResume`, `ReadAll`. A reader that `SysKill`
wakes unlinks its `wait_t`, returns what it has and exits in `TrapReturn`.

### `Files` and `Sfs`

In `Files` a call is one action, because the kernel is not preempted; the only
one in which others run is a read of the keyboard (`ReadBlock`, `ReadReturn`).
`ref_count` and `open_count` change as `vop_ref_inc` and its companions are
called; `Checked` evaluates the assertions of `inode.c`. `leaked` is not in the
code: it counts the references that `vfs_open` forgets when it returns
`-E_EXISTS` (vfsfile.c:46), so that all others can be required to be exact.
Where `vfs_open` or `vfs_chdir` fails and gives its reference back
(`OpenRejected`, `ChdirStays`) it is taken and returned in one action. Ways out that
the file systems here never take (a `vop_truncate` or `vop_fstat` that fails) are not there.
`lost` are the processes that died without `put_files`: `do_exit` calls it only
if `mm` is not NULL, which it is after `load_icode` has failed; the table of
such a process is never given back.

In `Sfs` a call (`op`) is a loop and an action one turn of it: `IoLoad`,
`WritePiece`, `ReadPiece`, `IoDone`; `ResizeAdd`, `ResizeRemove`,
`ResizeDone`, and the ways out for want of space. `disk` has the cells of every
block, and a cell of an indirect block is a block number. `din` is the copy of
the inode in memory, `dinode` the one on the disk; `dirty` says what the code
believes of their difference. In `ImplementsFiles` the file is read from the
blocks through the current inode, so a block freed too early, a pointer left
behind, a copy not saved or a block not cleared all show up as wrong bytes.

### `Pmm`, `Slob`, `Slub`, `Heap`

An allocation is one action: it runs with interrupts off, or is not interrupted
by code that allocates. The list of first fit and best fit is kept as the links
themselves (`next`, `prev`, and the list head `HEAD`) because `list_add`,
`list_del` and the loops over them are called with entries in states that a
sequence would hide; `list_add` is the four assignments of the code. The
buddies keep a sequence per order, which their code uses as a stack. An address
of the kernel heap counts units of 16 bytes; `ring` is the circular list of free
blocks with `slobfree` somewhere on it, and each search starts there. `held` and
`objs` are what clients have, so that the properties can compare what was given
out with what the lists say; `pmm`, `slob` and `slub` are the states of the three
layers. `null` is the NULL of this code, page 0, which the kernel occupies.

### `Vm`

The state is one record `m`, on which the routines are functions, so that a call
that fails half way is the composition of what it did and of its way out
(`Finish`). `m.ok` is the return value of the routines in progress. A frame of a
page table is counted only; a frame of a user page has a name, a reference count
and what it holds. Between a fault and the store that is repeated other
processes run. `share` is the flag that `dup_mmap` passes; it passes 0, and
both values are checked. `executed` is not in the code: it is the set of programs
loaded so far, with which `FramesExact` says when a frame may be lost.

### `Stride`, `Pids`

A call of the scheduler is one action. A skew heap is a record of root and
links; `Visited` is the path that the recursive merge takes. Processes are
forked, sleep, wake and end at any time; a new one has stride 0 and a sleeper the
stride it had, so strides may be at any distance from each other. A structure
that ends is free at once (`do_exit`): a zombie is never queued, and who reaps it is the
matter of `Proc`. `InOrder` says that the strides of all that can run are close
(`Close`) and the heap is in their order. It is the `exact` of `IdealStride`, where
a process joins with any stride: one that is too far ends the order, and until it is
back anybody may be picked. `get_pid` is cut
into the turns of its loop (`GetPid`, `PidTaken`, `PidPassed`, `SetLinks`), not
because somebody could come between them but so that its end can be stated.

## 3. What is checked

| run | instance | what it shows |
|---|---|---|
| `proc_safety` | 3 processes, one of them made by `init_main` and the others by `fork`, slice and sleep of 1 tick, any process but `idleproc` can be killed | the safety properties of `ProcProps`; `Proc` implements `ProcLife` |
| `proc_live` | 2 processes, slice and sleep of 2 ticks, fairness | the five liveness properties |
| `timer_list` | 5 timers of up to 5 ticks | the delta list implements `Timeouts`; no difference becomes negative |
| `check_sync` | 4 philosophers, one meal each, fairness | neighbours never eat together; semaphores and the monitor keep their invariants; `check_sync` ends, and who is hungry eats |
| `stdin` | 2 readers, 2 keys, 3 keystrokes, a buffer of 2, fairness | the device implements `Keyboard`; nobody sleeps beside a key; a key is read |
| `sfs` | 1 file, 2 descriptors, 3 blocks of 2 cells, 1 direct block and 2 entries | `Sfs` implements `ByteFiles`; the free map is exact, and files have no holes |
| `files` | 3 processes, 2 files, 2 directories, the keyboard, tables of 2 | the counts of all inodes are exact; no assertion on them fails |
| `memory` | 7 pages, at most 4 in use, requests of 1 and 2; pages of 6 units, objects of 1 unit to 8 pages; each page manager | pages and objects are exact (none twice, none lost, free ones merged), and a request is refused just when there is no room |
| `vm` | 3 processes, 8 pages, 18 frames, two programs, both values of `share` | `Vm` implements `Spaces`; `page_ref` and the free frames are exact |
| `stride` | 3 processes, strides of 6 values, priorities 1 and 2, forks and wakeups at any distance, fairness | the heap stays one tree; `Stride` implements `IdealStride`; nobody starves unless forks or far wakeups never end |
| `pids` | up to 7 processes, 9 pids, fairness | pids are unique, and `get_pid` returns |
| `first_fit_tail` | the same as `memory`, with clients that use the last page | ends in a violation: the finding |

Bounds. Three processes beside `idleproc` and `initproc` give a grandparent, a
parent and a child, two siblings with a middle one once `initproc` adopts, and
a process that is neither; the relations of one step involve at most the
process, its parent, its neighbours in the list and `initproc`. `MaxSleep` and
`MAX_TIME_SLICE` stand for 2^32 and 5: what matters is whether the count is
0, 1 or more. `MAX_PROCESS` is above what the instance can create, as 4096 is
above what a test creates; a failed fork is `SysOther`.

Five timers give a deletion or an insertion two neighbours on each side. Four
philosophers are the fewest of which two can eat at once and in which two can
wait for one semaphore while a third holds it; the code has five. A buffer of 2 gets full with 3 keystrokes and its positions
wrap. In `Sfs`, 3 blocks are one fewer than a file of maximal size needs, so
that the disk is full at each kind of block, and the end of the block map is
not reached by a resize; there is one file, because with two on a full disk
`ImplementsFiles` is false (below); `SFS_BLKSIZE` 2 gives transfers
with a head, a whole block and a tail (`MaxLen` 3). `Bytes` has one value beside
0, which is enough because no code depends on a byte. In `Files`, `exec`
leaves the first `Kept` descriptors open: 2 of 128 in the code, 1 of 2 in the
instance; `MaxLeaked` bounds `leaked`, which the code does not. Symmetry is used
where no liveness is checked.

In `Heap`, 7 pages behind one of the kernel are not a power of two, so that the
buddies start with blocks of three orders; `MaxPages` 4 of them in use leave free
blocks on both sides of one that is given back. A page of 6 units holds two small objects
and what is left of it, and the bookkeeping of a large one. With these bounds SLOB can
always have one more page, so `slob_alloc` never answers NULL in this run: `kmalloc` is seen
to refuse requests of several pages, but no small ones, and `ObjectsAnswered` is checked in
one direction. `TopStaysFree` is the bound that
separates the finding from the rest: with it, clients of the two list managers
do not use the last page, and the list is right; without it, see
`first_fit_tail`. The buddies are checked to the last page. In `Vm`, 18 frames
are enough for two processes and a part of the third, so that memory ends in
every routine; a page table of 2 pages, a directory of 2 tables and programs of
2 and 3 pages give areas that share a table and one that reaches over two.
Stores go to 3 of the pages (`Touched`), which include a text page that may not
be written; the stack is one page of the 4 that the code allocates. `MaxLost` 1 stops where a second frame
is lost (below). In `Stride`, `WORD` 6 and `BIG_STRIDE` 2 are 2^32 and 2^31 - 1
with the same relation, strides overflow after three passes or six, and of three processes
each can be above and below each other at once, so that the comparison has cycles. In `Pids` there are 9 pids for at most 7 processes in the list, one more
than the least that `static_assert(MAX_PID > MAX_PROCESS)` allows, so that `last_pid` wraps after
a few forks and the search meets processes on both sides of it.

`files` and `vm` do not check for deadlock: when every
process has ended, or an assertion on memory has stopped the kernel, nobody
calls anything any more.

Fairness (`Proc!Fairness`, and the same in `CheckSync` and `Stdin`; `CheckSync`
writes it out over state predicates, which TLC evaluates faster than ENABLED). A process
in the kernel goes on whenever it has the CPU (strong fairness of the kernel's
steps: interrupts may come between any two of them, but take finite time); the
clock goes on ticking (strong, since the interrupt stays pending while
disabled); an interrupt in service ends and the idle loop goes on. Nothing is
assumed of user programs: they may loop for ever without a system call, and
liveness must come from the tick. Nothing is assumed of the keyboard either.
`Stride` assumes the tick only (`Reschedule` again and again while somebody can
run): nothing of wakeups, sleeps, exits and changes of priority. `NobodyStarves` has a
premise, which is not fairness: that from some time on nobody is forked and nobody wakes
with a stride too far from the others' (`Disturbed`). Without it the property is false,
of the model and of the code: a chain of children, each with stride 0, or sleepers that
have fallen behind, can overtake a process for ever. The premise does not ask that the
order of the heap be intact when they stop. `Pids` assumes that
`get_pid`, once called, goes on.

That every zombie child of `initproc` is reaped is not true and not claimed:
`do_wait(0)` takes the youngest zombie, so an older one can starve while
younger orphans keep coming. `OrphanReaped` says what is true.

### Where the code differs from what it says

The run `first_fit_tail` is described in `PROJECT.json`, `findings`: a block
freed above all other free blocks is linked behind itself, and its page is given
out twice. `best_fit_pmm.c` of lab2 has the same loop. Met while modelling, and
without a run of their own:

* `do_fork` calls `copy_files` after the child is linked and queued
  (proc.c:580-587); when it finds no memory the child's structure is freed where
  it is. `Proc` has it as `CopyFilesFails = TRUE`; the runs and the proofs take
  FALSE. proc.c:1017 says that the resources of a child are free "only after
  do_wait function".
* A process that is killed while it is queued and then calls `wait` sleeps with
  PF_EXITING set as long as its child lives: the flag is tested in `trap` and
  after a sleep (proc.c:1062), not before it. proc.c:58 describes `SYS_kill` as
  ending in `do_exit`. `KilledEndsOrWaits` says what is true.
* A descriptor keeps its position while another open truncates its file; the
  next write beyond the end fails `assert(index <= din->blocks)`
  (sfs_inode.c:356). `LoadPanics` has it.
* A seek beyond the end of a file that finds the disk full has added blocks and
  not raised the size (sfs_inode.c:955); truncating that file to its size then
  fails `assert(tblks == din->blocks)` (sfs_inode.c:945).
* `dup_mmap` of lab5 passes `share = 0` (vmm.c:223), so fork copies, although
  `lab5-report.md` describes a fork that shares. With 1, a page that is already
  copy on write is mapped in the next child without PTE_COW, because `perm` is
  taken through PTE_USER, which has no such bit (pmm.c:398): a grandchild, or a
  second child, is killed at its first store to the page, where
  lab5-report.md:317 says its entry is COW too.
* `exit_range` (lab5 pmm.c:352-361) frees a level 0 directory when the entries it
  has just looked at were there, not when all of them are empty: of two tables
  under one directory, in one area or in two, it may lose one (`Crowded`). And `get_pte` that fails half way
  leaves a directory that no area leads to a free of. `FramesExact` allows
  lost frames only after a program with two such tables has been loaded (`executed`), or after an
  allocation has failed.
* `copy_range` asserts that `alloc_page` succeeds (lab5 pmm.c:432), `load_icode`
  the same of the stack: running out of memory there stops the kernel
  (`m.stopped`).
* The stride comparison is an order while the strides of all that can run are
  within BIG_STRIDE of each other (`Close`). Passes keep it so, but a new process starts
  with 0 (proc.c:146 of lab6) and a sleeper keeps its old stride (sched.c:76), and
  both may be further away. lab6-report.md:805 says that BIG_STRIDE ensures that the
  difference does not overflow, and :957 that the top of the heap has the least stride:
  TLC finds `Close(CanRun)`, and so the second, violated after a few steps of `Stride`.
  What is true is in the run: the tree stays whole (`HeapOk`), the order is lost in no
  other way and is back at the latest when one process at most can run
  (`ImplementsIdeal`), and nobody starves for good once such arrivals stop.
* `kmalloc` of `PAGE_SIZE` - 32 to - 17 bytes fails the assertion of
  `slob_alloc` (kmalloc.c:99, 234), and of a little more than 2, 4, ... pages gets
  half of what it needs (`find_order`, kmalloc.c:223). No caller asks for these.
* `do_exit` releases files only when `mm` is not NULL (proc.c:617): kernel
  threads and processes whose `execve` failed keep theirs (`lost` in `Files`).
* `vfs_open` forgets a reference on `-E_EXISTS` (vfsfile.c:46): `leaked`.
* SFS has no `vop_create`, and directories no `vop_truncate`: `O_CREAT` of a
  new name stops the kernel (`OpenUnimplemented`), although unistd.h:46 says
  "create file if it does not exist".
* A position may lie beyond what the block map can hold: `SFS_MAX_FILE_SIZE` is
  128 MB (sfs.h:20), the map ends at 12 + 1024 blocks, and
  `sfs_bmap_get_nolock` panics (sfs_inode.c:286). It takes a larger disk than
  the one the Makefile builds. `LoadPanic` has it.
* `sfs_bmap_load_nolock` raises `blocks` without setting `dirty`
  (sfs_inode.c:365; sfs.h:72, "true if inode modified") when the block hangs on
  an indirect block that is there. A write makes up for it by raising the size,
  which does set `dirty`, unless the size is there already: `sfs_io_nolock` raises
  it to the offset of a write that found the disk full and transferred nothing
  (sfs_inode.c:649). The last close then drops the inode unsaved, with a written
  block in an entry beyond its count; a truncation passes that block over, and when
  the file grows again it comes back with its old bytes (`ReuseEntry`) where 0 was to
  be read. It takes a second file, which has the last free block when the write
  fails and gives it back afterwards: TLC finds `ImplementsFiles` violated by these
  18 calls with 2 files, 3 blocks of 2 cells and 1 direct block. The run `sfs` has
  one file and claims `ImplementsFiles` for that; it is proved for one file, and for any
  number when no block is given back while the size of another file is beyond its
  blocks (`ImplementsFilesUnless`, section 4); `FreeMapOk` holds for any.

## 4. What is proved

`ProcProofs` proves, for any set of processes and any values of the bounds,
`Spec => []IInv`, and from it the properties `ProcTypeOK`, `QueueOk`,
`WaitStateOk`, `TimerOk` and `NoPanic`. Assumptions: those that `Sched` and `Proc` state of
their constants, and `CopyFilesFails = FALSE` (the theorems are false without
it: a freed child would be in the run queue).

The properties are not inductive alone. `QueueOk` needs that the process being
woken is not freed or dead, which needs to know where sleepers are (`PcInv`);
`NoPanic` of `TimerExpire` needs that a timer's owner is inside `do_sleep`
(`TimerOk`); that the waker of `do_exit` never reaches `idleproc` needs
`ParentInv` and `FixedInv`; that `schedule` in `do_exit` does not come back
needs `CurrentInv`. `IInv` is the conjunction; TLC checked it too before it was
proved.

The proof: lemmas on queues (`QueueProofs`), what `schedule` and `wakeup_proc`
do to a scheduler that is right (`ScheduleLemma`, `WakeupLemma`, which every proof about a
module on top of `Sched` begins with), then one lemma per kind of step: those
that leave the scheduler alone (`QuietActions`), those that end in `schedule`
(`SwitchActions`), those that may wake somebody (`WakeStep`, used by kill, exit
and the timer), and one for each remaining action; `NextStepInv` puts them
together.

The second part of `ProcProofs` proves, under the same assumptions, that `IInv` and
`TreeInv` always hold, and from them `NoLostWakeup`, `NoDangling`, `RelationsOk` and that `Proc`
implements `ProcLife`. The sets of the model (the children of p: those with
`parent` p) and the links of the code (`cptr`, `optr`, `yptr`) meet in
`FamilyInv`: for each live process there is a sequence without repetitions that
holds its children, starts at `cptr` and goes along `optr`, with `yptr` leading
back (`Chain`). Four lemmas say what a list becomes when its links are left
alone, get a new youngest member, lose the youngest, or lose any (`ChainSame`,
`ChainPush`, `ChainTail`, `ChainCut`); they know nothing of processes. `ChainTail`
leaves the `yptr` of the next child pointing to the one that `do_exit` has just
handed over, which is what the code does, and what `Loose` allows while `do_exit`
is in that loop. The other parts are what the steps need of each other: a zombie that
is reaped has no children, because no parent has left its loop (`HomeInv`); the
adoption by `initproc` makes no cycle (`AcyclicInv`: no set of processes holds
the parents of all its members, from which it also follows that nobody else is
left when `initproc` has no child); `do_wait` that reaches the end of its walk
has passed no zombie (`Scanned`), because nothing runs in between but the timer
interrupt (`OffCpuInv`), so it may go to sleep (`WaitOk`). `NthChild` is a
recursive function; that it walks along the sequence is proved by induction
(`AlongIs`). Before it was proved TLC checked `TreeInv` too, on the instance of
`processes`, with `Seq(S)` cut to sequences of up to 4 elements.

`CheckSyncProofs` proves, for any number of philosophers from 2 and of meals,
`NeighboursNeverEat`, `SemOk` and `MonitorOk`. None is inductive, and none can be
proved without the others. `NeighboursNeverEat` compares threads at their labels;
the code compares `phi_state`, which follows from the labels (`MealPart`) only
if a thread that comes back from `down` was let through by a neighbour, which
needs `SemPart`, and if no two threads test at once, which needs that the
monitor, or the mutex of the first half, has one owner (`OneOwner`, stated
without a cardinality). That owner is handed on by `up` to a sleeper that runs
later, so `PlacePart` says what a thread at each label may wait for. In the
first half a semaphore of a philosopher has a unit only between the test that
set EATING and its own `down`. `SyncInv` is the conjunction, with what it needs of
the scheduler (`SchedPart`), so that no assertion in `wakeup_proc`, `add_timer`
or `down` fails either.

`StdinProofs` proves `KbdInv`, from it `LinkedOk` and `NoSleepOnInput`, and that
`Stdin` implements `Keyboard`, for any size of the buffer and any finite set of
readers (the model starts with all of them in the run queue, in any order; the
code has at most MAX_PROCESS). A reader that
sleeps beside a key would be one that the interrupt did not see: the wait queue
must hold every sleeper (`LinkPart`) and the interrupt must go on while it does
(`PollPart`). For the refinement the abstract queue is what lies between the two
positions; a key goes to its end (`i % STDIN_BUFSIZE` is injective within one
buffer, so no unread key is overwritten), and a read takes its head.

`LinkProofs` proves of the delta list, for any number of timers and any ticks,
`TimerTypeOK` and that it implements `Timeouts`: what one caller adds or deletes
changes no expiry but its own. `TimerInv` adds to the type that a timer outside
the list has difference 0, that the sum of the list is at most the longest
timer, and that outside `run_timer_list` the head has a tick left to give, which
is the assertion `timer->expires != 0` of the next tick. The sums are a recursive
function of the model; that such a function exists for each list is itself a
theorem (`SumsEquation`), by induction over sets, of which the least element of a
non-empty set of numbers is the base (`LeastNat` in `QueueProofs`). `SumsShift` then says what an
insertion, a deletion and a tick do to the sums: those in front stay, those
behind stay too, although they move by one place and one difference changes.

Its second part proves `PidsAreUnique` for any `MAX_PROCESS` and `MAX_PID` with
`MAX_PID > MAX_PROCESS`. `PidsUnique` speaks of the window between two calls;
inside `get_pid` what is known is about the part of the list already walked:
none of it has `last_pid`, and what is above `last_pid` there is at `next_safe`
or above (`Walked`). A turn that increments `last_pid` keeps this because
`last_pid + 1 < next_safe`, and it starts again from nothing otherwise; at the
end of the list `Walked` is `Window`, which exits do not disturb. One lemma per
action, with two on what `RemoveAt` and `\o` return.

`FilesProofs` proves `RefsExact` and `NoAssertionFails` for any inodes and
descriptors and any finite set of processes. `RefsExact` compares a counter of an inode
with the cardinality of the set of its users in all tables, so the proof counts
table by table: a call changes the descriptors and the directory of one process
(`RowSplit`), `RowChange` and `CwdChange` say by how much that changes the number
of users, and `Recount` compares it with what the call did to the counter; after that each
call needs only its effect on one table (`HeldExcept`). The strengthening is `TablesOk`:
the table of a slot without a process is closed, or else `fork` would hand out
descriptors that were counted before, and a reader asleep is alive and sleeps on a
descriptor that is open, which is why `open_count` is positive when it goes on. The
assertions follow from the counts (`Sound`): an inode that was reclaimed has
neither a reference nor an open descriptor, so no later call can reach it.

`SfsProofs` proves `FreeMapOk` for any files, any size of the disk and of a block,
and any number of direct and indirect places. All places for a block number of all
files (direct, indirect, entry) are one function, the map (`Map`); `Agree` says of
a map, a set of free blocks, the counts of blocks and the counter of the superblock
that they fit: a block is free or in exactly one place, and a file has no hole below
its count. Lemmas that know nothing of SFS say what becomes of `Agree` when a block is
taken or given back (`TakeBlock`, `LongerFile`, `ShorterFile`); others say which
place an assignment changes (`MapDirect`, `MapEntry`, `MapIndirect`: the last
two need that no other file has that indirect block). `FreeMapOk` is not inductive:
an inode is dropped at the last close and read back from the disk, so it needs
that an inode that is not dirty was saved with the same block numbers
(`SavedPart`). The code does not mark an inode dirty when only an entry of the indirect
block changes, so the saved inode may count fewer blocks than there are entries;
that is why `SavedPart` compares counts with `<=` and a later load finds an
entry that is already there. A panic of `sfs_bmap_load_nolock` for an index out of
range stays possible, as in the run.

The second part of `SfsProofs` proves that `Sfs` implements `ByteFiles`. What a file
holds is read through the map, up to its size; the abstract file has no blocks, so each
turn of a loop of `sfs_io_nolock` must be either invisible or the whole change of
one piece. The hard part is what is not written: a file that grows must show
zeroes. `ByteInv` says so: behind the end of a file its last block holds zeroes
(`TailClear`), and so do the entries that the indirect block has beyond the count
(`SpareClear`); an inode that is dropped without being saved comes back from the disk with
the size it had and blocks that held nothing but zeroes (`SavedClear`). The latter is what
fails with two files (section 3), and `GapStays` says exactly when it does not: a size beyond
the blocks comes only from a write that found the disk full, so that no block can
be added to this file until one is given back. If the file itself gives one back, its gap
is closed by the same truncation; it takes another file. So
`ImplementsFilesUnless` is about the behaviours whose steps satisfy `RemoveAlone` (no block
is given back while a size of another file is beyond its blocks), and
`ImplementsFilesAlone` says that with one file these are all, which is what the run checks.
`ByteFiles` fills a hole with zeroes in one step, the code block by block.

`VmProofs` proves `VmTypeOK`, `FramesExact`, and that `Vm` implements `Spaces`, for any
finite set of processes, any number of frames, any sizes of tables and directories and both
modes of `copy_range`. Of the programs it assumes what `tools/user.ld` and
`load_icode` make of them (`ProgramAssumption`): segments that rise, lie below the
stack and have no more bytes in the file than in memory. The routines of `Vm` are
functions of the state with loops that are folds, so the first lemmas turn each fold
into a history of states (`Steps`): that the function exists by which `FoldLeft` is
defined is proved by induction over sets (`FoldExists`), and then every loop is an
induction over its turns. `Sound(s, x)` is what holds between any two steps of a call, x
being the frame that the call has taken and not yet mapped: counts are the
cardinalities of the sets of entries (`Counted`), free frames are those with count 0 but x, a
page that may be written has one entry, what is mapped is in an area and has its tables,
areas are in order. `Apart` is what a call for one process leaves to the others: their
entries may lose the right to write, but nobody sees that. Each routine has one lemma
that says what it does to a sound state, whether it succeeds or fails.

That no frame is lost needs more: `Tight` says that every directory has a table, and every table a page
of an area, until an allocation has failed; with `Roomy` (no
directory with two tables, which `Known` derives from the programs) the loops of
`exit_range` give back all that `get_pte` took. `MemoryOk`, the inductive invariant, is
`Sound` between calls, with these parts for each process and `Accounted`: frames are lost
only after a failed allocation or when one of the programs loaded so far is crowded (the
parameter `L` of these parts; `MoreLoaded` says that they survive when it grows). The refinement maps an
address space to what its entries and frames hold (`View`); `Moves` names what each
action does to it, `MovesView` compares that with the actions of `Spaces`. A frame is shared
at one address only (`OneAddress`), and by entries that may not be written, so a store
shows in one process; this is why do_pgfault must copy unless the count is 1.

The third part of `LinkProofs` proves `HeapOk` and that `Stride` implements
`IdealStride`, for any finite set of processes, any word, any priorities and any order of
calls. What `skew_heap_merge` does is a path: the arguments of each level of its
recursion are a recursive function (`Args`), and `Descent` is what holds after n levels:
the nodes passed are distinct and are just those above what is left
(`DescentAlways`, by induction on the level; `DescentEnds`, because
the nodes are finitely many). `MergeForest` then says of any two trees that what
comes out is one. A tree is a `Forest`: every node but the roots is a child of its
parent, every child's parent is its node, and no set of nodes is closed under taking the
parent, which is what excludes cycles without counting. Insertion and removal
follow (`InsertHeap`, `RemoveHeap`).

All of this is proved once, with a parameter `o`. With "links" nothing is known
of the comparison, which far strides make arbitrary: that is `StrideInv`, which always
holds. With "order" the strides are close and every edge of the heap is in their order;
then the root has the least (`RootIsLeast`), and `OrderedInv("order")` is `InOrder`. "Least"
has a meaning only while the strides lie on less than half of the circle of the words
(`Spread`): there the signed difference is the true one (`SignedIs`), and a pass keeps it so
because it moves the least of them by at most BIG_STRIDE. `StrideOrder` is what follows for a
step (`OrderKept`): an order that is there stays, unless somebody joins and the strides
are no longer close. The refinement maps strides to their distance from the least
one while there is an order; `ShiftNormal` says that this distance does not depend on the
word from which the strides are counted. A heap of one node is in order, whatever came
before, which is where the abstract order comes back.

Its last part is about `Heap`: `ListPagesExact` says that `PagesExact` holds for any size of
the memory, any requests and any number of them in use, in the kernels whose pages a list
manager has to itself (`ListAlone`): best fit, and first fit as long as nobody calls
`kmalloc`; `ListPagesAnswered` says when alloc_pages answers NULL there, and with
which page otherwise, and `BestFitAnswers` that this is all of `AnswersExact` for best
fit. The invariant, `HeapInv`, does not speak of sequences: `Ring` says of the links
alone that from any entry `next` leads to the lowest free block above it and `prev` back
(`FreeListFollows` proves that the loops over the list therefore meet the free blocks, each
once, in the order of addresses), `Blocks` and `TouchAt` that the blocks lie apart and
no two touch, and the rest that the pages of the free blocks and those held divide the
memory. In the middle of default_free_pages blocks do touch, at the new one: `ListLike`
names where (`AbsorbStep` takes one such place away), so the two merges are
two uses of one lemma. The theorems assume `TopStaysFree`, the bound of the run. It is
what makes the invariant true: the loop that looks for the place of a freed block does not
stop after it has linked it at the end of the list, and only a free block at the end
of the memory keeps it from ever getting there (`TopIsFree`; without it
`first_fit_tail` is the counterexample). That blocks are merged is also what makes the
answers right: a run of free pages lies in one block (`RunInBlock`), so a search of
blocks finds it. TLC checked `HeapInv` on the instance of `memory` before it was proved.

Only model-checked: of `Heap`, the buddies (the provers know nothing of `2^k` for
a variable k), the object allocators (`ObjectsExact`, `ObjectsAnswered`), and the pages
of kernels in which they take part. Out of the prover's reach and left to TLC:
liveness under fairness and `ENABLED`. No module has RECURSIVE operators;
recursion is a function (`ProcProps!NthChild`, `Timer!Before`) or a fold.

## 5. Not modelled

* In `Vm`, the structures that `kmalloc` gives (`mm_struct`, `vma_struct`) are
  taken to be there; `CLONE_VM` never reaches a process with a memory, so an `mm`
  has one owner; `user_mem_check` and the copies from user memory change
  nothing. `slob_alloc` is never called with an alignment.
* `buddy_init_memmap` numbers pages from the start of `pages` and bounds a buddy
  by `npage`, which counts from physical address 0. `Pmm` has no such bound, because it
  never cuts: `BuddyAssumption` says that the pages are a multiple of the largest block,
  as the 2^15 of the 128 MB machine are, so that every buddy lies within them. What happens
  with another number of pages, where the code looks past the array, is not modelled.
* The time slice of the stride scheduler, which is that of round robin.
* Directories, paths and mounting: SFS directories are read-only in this code
  (there is no create, link or unlink), the lookup of a path is a sequential
  search without state of its own, and the list of devices is built once.
* The semaphores inside SFS and VFS: without preemption, and with a disk that is
  memory, no process ever sleeps while it holds one, so they are always free.
* The argument vector and the reads of the program file in `load_icode` of lab8;
  its failure is in `Proc` and `Files`, its pages in `Vm`.
* Console output, drivers, boot, debugging, strings and formatting: pure I/O or
  sequential code without state that another component sees.
* User programs: `Proc` lets a process make any call at any time.

## 6. Plan

What the code has that can be modelled with profit is modelled. Left are proofs about
the rest of `Heap`: the ring of SLOB, which is sorted and merged as the free list is but is
entered anywhere, the slabs of SLUB, and the buddies, for which powers of two would
need lemmas of their own first.
