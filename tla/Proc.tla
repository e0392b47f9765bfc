-------------------------------- MODULE Proc --------------------------------
(***************************************************************************)
(* Processes of lab8: kern/process/proc.c, the trap path that calls it     *)
(* (kern/trap/trap.c) and the system calls that create, end, wait for,     *)
(* kill, delay and replace a process.  Module Sched has the scheduler.     *)
(*                                                                         *)
(* pc[p] says where process p is, or will continue when it gets the CPU:   *)
(*   "user"     in user mode; its traps run with interrupts disabled, so   *)
(*              its kernel path cannot be interrupted, only give up the    *)
(*              CPU in schedule()                                          *)
(*   "kthread"  in the body of a kernel thread, interrupts enabled, never  *)
(*              preempted: trap() reschedules only on return to user mode  *)
(*   others     inside the routine of that name                            *)
(* Only the current process moves; a timer interrupt moves it as well when *)
(* interrupts are enabled there.                                           *)
(***************************************************************************)
EXTENDS Sched

CONSTANTS
    Killable,       \* processes that some program passes to kill()
    InitThreads,    \* kernel threads that init_main creates (1, or more with
                    \* check_sync() enabled)
    MAX_PROCESS,    \* the limit that do_fork checks
    CopyFilesFails  \* TRUE: kmalloc in copy_files may fail

ASSUME ProcAssumption ==
    /\ Killable \subseteq Procs \cup {initproc}
    /\ InitThreads \in Nat \ {0}
    /\ MAX_PROCESS \in Nat
    /\ CopyFilesFails \in BOOLEAN

VARIABLES
    pc,
    umode,      \* TRUE for a process that runs a user program
    exiting,    \* proc->flags & PF_EXITING
    parent, cptr, yptr, optr,   \* relations: parent, youngest child,
                                \* younger sibling, older sibling
    proc_list,  \* structures linked in proc_list and in hash_list
    nr_process,
    mm,         \* proc->mm # NULL
    filesp,     \* the process holds a files_struct
    waitpid,    \* the pid argument of do_wait, NULL for "any child"
    walk,       \* the local variable proc of do_wait
    started     \* kernel threads that init_main has created so far

linkVars == <<parent, cptr, yptr, optr, proc_list, nr_process>>
procVars == <<umode, exiting, linkVars, mm, filesp, waitpid, walk, started>>
vars == <<schedVars, pc, procVars>>

PC == {"free", "idle", "boot", "user", "kthread", "trapret",
       "sleep", "slept", "wait", "wait_scan", "wait_sleep", "wait_schedule",
       "waited", "wait_found", "init_loop", "init_quit",
       "exit", "exit_wakeup", "exit_reparent", "exit_schedule", "dead"}

ProcTypeOK ==
    /\ SchedTypeOK
    /\ pc \in [All -> PC]
    /\ umode \in [All -> BOOLEAN]
    /\ exiting \in [All -> BOOLEAN]
    /\ parent \in [All -> All \cup {NULL}]
    /\ cptr \in [All -> All \cup {NULL}]
    /\ yptr \in [All -> All \cup {NULL}]
    /\ optr \in [All -> All \cup {NULL}]
    /\ proc_list \in SUBSET (Procs \cup {initproc})
    /\ nr_process \in Int
    /\ mm \in [All -> BOOLEAN]
    /\ filesp \in [All -> BOOLEAN]
    /\ waitpid \in [All -> Procs \cup {initproc, NULL}]
    /\ walk \in [All -> All \cup {NULL}]
    /\ started \in 0..InitThreads

-----------------------------------------------------------------------------
(* proc_init: idleproc runs, initproc has been forked by it and is queued.  *)

Init ==
    /\ state = [p \in All |-> IF p \in Procs THEN "FREE" ELSE "RUNNABLE"]
    /\ wait_state = [p \in All |-> "0"]
    /\ need_resched = [p \in All |-> p = idleproc]
    /\ time_slice = [p \in All |-> IF p = initproc THEN MAX_TIME_SLICE ELSE 0]
    /\ run_list = <<initproc>>
    /\ current = idleproc
    /\ expires = [p \in All |-> 0]
    /\ expired = {}
    /\ irq = FALSE
    /\ panic = "no"
    /\ pc = [p \in All |-> CASE p = idleproc -> "idle"
                             [] p = initproc -> "boot"
                             [] OTHER -> "free"]
    /\ umode = [p \in All |-> FALSE]
    /\ exiting = [p \in All |-> FALSE]
    /\ parent = [p \in All |-> IF p = initproc THEN idleproc ELSE NULL]
    /\ cptr = [p \in All |-> IF p = idleproc THEN initproc ELSE NULL]
    /\ yptr = [p \in All |-> NULL]
    /\ optr = [p \in All |-> NULL]
    /\ proc_list = {initproc}
    /\ nr_process = 2
    /\ mm = [p \in All |-> FALSE]
    /\ filesp = [p \in All |-> p \notin Procs]
    /\ waitpid = [p \in All |-> NULL]
    /\ walk = [p \in All |-> NULL]
    /\ started = 0

-----------------------------------------------------------------------------
(* Control.  A step of process p needs the CPU and no interrupt in service. *)

At(p, l) == panic = "no" /\ ~irq /\ current = p /\ pc[p] = l

Goto(p, l) == pc' = [pc EXCEPT ![p] = l]
Step(p, l, m) == At(p, l) /\ Goto(p, m)

(* Where a system call, or do_sleep called by a kernel thread, returns to.  *)
ReturnPc(p) == IF umode[p] THEN "trapret" ELSE "kthread"
Return(p) == Goto(p, ReturnPc(p))

(* sstatus.SIE: a user process has interrupts enabled in user mode only, a  *)
(* kernel thread everywhere but between local_intr_save and _restore.       *)
IrqEnabled ==
    \/ pc[current] \in {"user", "idle"}
    \/ ~umode[current] /\ pc[current] # "exit_reparent"

-----------------------------------------------------------------------------
(* The timer interrupt.  A trap from user mode continues in trap's tail.    *)

TimerIrq ==
    /\ panic = "no" /\ IrqEnabled
    /\ run_timer_list_enter
    /\ pc' = IF pc[current] = "user" THEN [pc EXCEPT ![current] = "trapret"]
                                     ELSE pc
    /\ UNCHANGED procVars

TimerExpire ==
    /\ panic = "no"
    /\ \E p \in expired : run_timer_list_expire(p)
    /\ UNCHANGED <<pc, procVars>>

TimerTick ==
    /\ panic = "no"
    /\ run_timer_list_tick
    /\ UNCHANGED <<pc, procVars>>

(* The tail of trap() for a trap from user mode.                            *)
TrapNeverExits(p) == FALSE                                        \* wrong
TrapExits(p) == exiting[p]

TrapReturn(p) ==
    /\ At(p, "trapret")
    /\ \/ /\ TrapExits(p)
          /\ Goto(p, "exit")
          /\ UNCHANGED schedVars
       \/ /\ ~TrapExits(p) /\ need_resched[p]
          /\ Goto(p, "user")
          /\ schedule
       \/ /\ ~TrapExits(p) /\ ~need_resched[p]
          /\ Goto(p, "user")
          /\ UNCHANGED schedVars
    /\ UNCHANGED procVars

(* cpu_idle.                                                                *)
Idle ==
    /\ At(idleproc, "idle")
    /\ need_resched[idleproc]
    /\ schedule
    /\ UNCHANGED <<pc, procVars>>

-----------------------------------------------------------------------------
(* do_fork by process p; c is the structure that alloc_proc returns.        *)

(* set_links *)
set_links(p, c) ==
    /\ parent' = [parent EXCEPT ![c] = p]
    /\ optr' = [optr EXCEPT ![c] = cptr[p]]
    /\ yptr' = [q \in All |-> IF q = c THEN NULL
                              ELSE IF q = cptr[p] THEN c ELSE yptr[q]]
    /\ cptr' = [cptr EXCEPT ![p] = c, ![c] = NULL]
    /\ proc_list' = proc_list \cup {c}
    /\ nr_process' = nr_process + 1

(* The child of a user process starts in user mode (copy_mm duplicates the  *)
(* memory), the child of kernel_thread in the body of a kernel thread.      *)
(* copy_files comes after the child is linked and runnable; when it fails   *)
(* the structure is freed where it is.                                      *)
do_fork(p, c) ==
    /\ nr_process < MAX_PROCESS
    /\ state[c] = "FREE" /\ c \in Procs \ proc_list
    /\ set_links(p, c)
    /\ umode' = [umode EXCEPT ![c] = umode[p]]
    /\ exiting' = [exiting EXCEPT ![c] = FALSE]
    /\ wait_state' = [wait_state EXCEPT ![c] = "0"]
    /\ need_resched' = [need_resched EXCEPT ![c] = FALSE]
    /\ time_slice' = [time_slice EXCEPT ![c] = MAX_TIME_SLICE]
    /\ run_list' = Append(run_list, c)
    /\ panic' = IF wait_state[p] # "0" THEN "wait_state" ELSE EnqueuePanic(c)
    /\ mm' = [mm EXCEPT ![c] = mm[p]]
    /\ waitpid' = [waitpid EXCEPT ![c] = NULL]
    /\ walk' = [walk EXCEPT ![c] = NULL]
    /\ \/ /\ state' = [state EXCEPT ![c] = "RUNNABLE"]
          /\ filesp' = [filesp EXCEPT ![c] = TRUE]
       \/ /\ CopyFilesFails
          /\ state' = [state EXCEPT ![c] = "FREE"]
          /\ filesp' = [filesp EXCEPT ![c] = FALSE]
    /\ UNCHANGED <<current, expires, expired, irq>>

(* sys_fork.  A fork that returns an error because there are too many       *)
(* processes, or no memory before the child is linked, is a SysOther.       *)
SysFork(p) ==
    /\ At(p, "user")
    /\ \E c \in Procs :
          /\ do_fork(p, c)
          /\ pc' = [pc EXCEPT ![c] = "user", ![p] = "trapret"]
    /\ UNCHANGED started

(* kernel_thread, called by init_main (user_main, and check_sync's threads). *)
InitThread ==
    /\ At(initproc, "boot")
    /\ started < InitThreads
    /\ \E c \in Procs :
          /\ do_fork(initproc, c)
          /\ pc' = [pc EXCEPT ![c] = "kthread"]
    /\ started' = started + 1

(* init_main enters its loop of do_wait(0, NULL).                           *)
InitBooted ==
    /\ Step(initproc, "boot", "wait")
    /\ started = InitThreads
    /\ UNCHANGED <<schedVars, procVars>>

-----------------------------------------------------------------------------
(* The system calls that leave the process structures alone: a failed fork, *)
(* a failed argument check, getpid, file calls and so on.                   *)
SysOther(p) ==
    /\ At(p, "user")
    /\ Return(p)
    /\ UNCHANGED <<schedVars, procVars>>

SysYield(p) ==
    /\ At(p, "user")
    /\ Return(p)
    /\ need_resched' = [need_resched EXCEPT ![p] = TRUE]
    /\ UNCHANGED <<state, wait_state, time_slice, run_list, current, expires,
                   expired, irq, panic, procVars>>

SysExit(p) ==
    /\ Step(p, "user", "exit")
    /\ UNCHANGED <<schedVars, procVars>>

(* do_kill: sets PF_EXITING and interrupts an interruptible wait.  A pid    *)
(* that is not found, or is already exiting, is a SysOther.                 *)
KillAlwaysWakes(q) == TRUE                                        \* wrong
KillWakes(q) == Interruptible(wait_state[q])

do_kill(q) ==
    /\ q \in proc_list
    /\ ~exiting[q]
    /\ exiting' = [exiting EXCEPT ![q] = TRUE]
    /\ IF KillWakes(q)
       THEN wakeup_proc(q)
       ELSE UNCHANGED <<state, wait_state, time_slice, run_list, panic>>

SysKill(p) ==
    /\ At(p, "user")
    /\ \E q \in Killable : do_kill(q)
    /\ Return(p)
    /\ UNCHANGED <<need_resched, current, expires, expired, irq, umode,
                   linkVars, mm, filesp, waitpid, walk, started>>

-----------------------------------------------------------------------------
(* do_sleep, by a user process or by a kernel thread; for the latter a timer *)
(* interrupt may come before schedule().                                    *)
Sleep(p) ==
    /\ At(p, "user") \/ At(p, "kthread")
    /\ state' = [state EXCEPT ![p] = "SLEEPING"]
    /\ wait_state' = [wait_state EXCEPT ![p] = "WT_TIMER"]
    /\ \E t \in 1..MaxSleep : add_timer(p, t)
    /\ Goto(p, "sleep")
    /\ UNCHANGED <<need_resched, time_slice, run_list, current, expired, irq,
                   panic, procVars>>

SleepSchedule(p) ==
    /\ Step(p, "sleep", "slept")
    /\ schedule
    /\ UNCHANGED procVars

SleepReturnKeepsTimer(p) ==                                       \* wrong
    At(p, "slept") /\ Return(p) /\ UNCHANGED <<schedVars, procVars>>

SleepReturn(p) ==
    /\ At(p, "slept")
    /\ del_timer(p)
    /\ Return(p)
    /\ UNCHANGED <<state, wait_state, need_resched, time_slice, run_list,
                   current, irq, panic, procVars>>

-----------------------------------------------------------------------------
(* do_execve.  It succeeds; or it fails before the old memory is given up;  *)
(* or it fails in load_icode, after current->mm has become NULL.            *)
Exec(p) ==
    /\ At(p, "user") \/ At(p, "kthread")
    /\ \/ /\ mm' = [mm EXCEPT ![p] = TRUE]
          /\ umode' = [umode EXCEPT ![p] = TRUE]
          /\ Goto(p, IF umode[p] THEN "trapret" ELSE "user")
       \/ /\ UNCHANGED <<umode, mm>>
          /\ Goto(p, "exit")
       \/ /\ mm' = [mm EXCEPT ![p] = FALSE]
          /\ UNCHANGED umode
          /\ Goto(p, "exit")
    /\ UNCHANGED <<schedVars, exiting, linkVars, filesp, waitpid, walk,
                   started>>

(* kernel_thread_entry: the function of a kernel thread returns.            *)
KThreadReturn(p) ==
    /\ Step(p, "kthread", "exit")
    /\ UNCHANGED <<schedVars, procVars>>

-----------------------------------------------------------------------------
(* do_wait(pid).                                                            *)
SysWait(p) ==
    /\ Step(p, "user", "wait")
    /\ \E q \in Procs \cup {initproc, NULL} : waitpid' = [waitpid EXCEPT ![p] = q]
    /\ UNCHANGED <<schedVars, umode, exiting, linkVars, mm, filesp, walk,
                   started>>

WaitFails(p) ==
    /\ Goto(p, IF p = initproc THEN "init_quit" ELSE "trapret")
    /\ walk' = [walk EXCEPT ![p] = NULL]
    /\ waitpid' = [waitpid EXCEPT ![p] = NULL]

(* The process with pid q is a child of p.                                  *)
IsChild(p, q) == q \in proc_list /\ parent[q] = p

(* repeat: look up the pid, or start the walk at the youngest child.        *)
WaitRepeat(p) ==
    LET q == waitpid[p] IN
    /\ At(p, "wait")
    /\ \/ /\ q = NULL
          /\ walk' = [walk EXCEPT ![p] = cptr[p]]
          /\ Goto(p, "wait_scan")
          /\ UNCHANGED waitpid
       \/ /\ IsChild(p, q)
          /\ walk' = [walk EXCEPT ![p] = q]
          /\ Goto(p, IF state[q] = "ZOMBIE" THEN "wait_found" ELSE "wait_sleep")
          /\ UNCHANGED waitpid
       \/ /\ q # NULL /\ ~IsChild(p, q)
          /\ WaitFails(p)
    /\ UNCHANGED <<schedVars, umode, exiting, linkVars, mm, filesp, started>>

(* One iteration of the walk from the youngest to the oldest child.  haskid *)
(* at its end is the same as having a youngest child.                       *)
HasKid(p) == cptr[p] # NULL

WaitScan(p) ==
    LET q == walk[p] IN
    /\ At(p, "wait_scan")
    /\ \/ /\ q = NULL /\ HasKid(p)
          /\ Goto(p, "wait_sleep")
          /\ UNCHANGED <<waitpid, walk>>
       \/ /\ q = NULL /\ ~HasKid(p)
          /\ WaitFails(p)
       \/ /\ q # NULL /\ state[q] = "ZOMBIE"
          /\ Goto(p, "wait_found")
          /\ UNCHANGED <<waitpid, walk>>
       \/ /\ q # NULL /\ state[q] # "ZOMBIE"
          /\ walk' = [walk EXCEPT ![p] = optr[q]]
          /\ UNCHANGED <<pc, waitpid>>
    /\ UNCHANGED <<schedVars, umode, exiting, linkVars, mm, filesp, started>>

WaitSleep(p) ==
    /\ Step(p, "wait_sleep", "wait_schedule")
    /\ state' = [state EXCEPT ![p] = "SLEEPING"]
    /\ wait_state' = [wait_state EXCEPT ![p] = "WT_CHILD"]
    /\ walk' = [walk EXCEPT ![p] = NULL]
    /\ UNCHANGED <<need_resched, time_slice, run_list, current, expires,
                   expired, irq, panic, umode, exiting, linkVars, mm, filesp,
                   waitpid, started>>

WaitSchedule(p) ==
    /\ Step(p, "wait_schedule", "waited")
    /\ schedule
    /\ UNCHANGED procVars

Waited(p) ==
    /\ At(p, "waited")
    /\ \/ exiting[p] /\ Goto(p, "exit") /\ waitpid' = [waitpid EXCEPT ![p] = NULL]
       \/ ~exiting[p] /\ Goto(p, "wait") /\ UNCHANGED waitpid
    /\ UNCHANGED <<schedVars, umode, exiting, linkVars, mm, filesp, walk,
                   started>>

(* remove_links; the links of the removed structure itself are reset (see   *)
(* WaitFound).                                                              *)
YoungerKept(c) == [yptr EXCEPT ![c] = NULL]                        \* wrong
YoungerRemoved(c) == [q \in All |-> IF q = c THEN NULL
                                   ELSE IF q = optr[c] THEN yptr[c] ELSE yptr[q]]

remove_links(c) ==
    LET y == yptr[c]
        o == optr[c]
    IN  /\ yptr' = YoungerRemoved(c)
        /\ optr' = [q \in All |-> IF q = c THEN NULL
                                  ELSE IF q = y THEN o ELSE optr[q]]
        /\ cptr' = IF y = NULL THEN [cptr EXCEPT ![parent[c]] = o] ELSE cptr
        /\ proc_list' = proc_list \ {c}
        /\ nr_process' = nr_process - 1
        /\ parent' = [parent EXCEPT ![c] = NULL]

(* found: unlink the zombie and free its structure.  The fields of a freed  *)
(* structure take the values alloc_proc will set, so that stale memory adds *)
(* no states; mm and filesp keep theirs: what was not released leaks.       *)
WaitFound(p) ==
    LET c == walk[p] IN
    /\ At(p, "wait_found")
    /\ \/ /\ c \in {idleproc, initproc}
          /\ panic' = "wait init"
          /\ UNCHANGED <<state, need_resched, time_slice, pc, umode, exiting,
                         linkVars, waitpid, walk>>
       \/ /\ c \notin {idleproc, initproc}
          /\ remove_links(c)
          /\ state' = [state EXCEPT ![c] = "FREE"]
          /\ pc' = [pc EXCEPT ![c] = "free",
                              ![p] = IF p = initproc THEN "init_loop"
                                                     ELSE "trapret"]
          /\ walk' = [walk EXCEPT ![p] = NULL, ![c] = NULL]
          /\ need_resched' = [need_resched EXCEPT ![c] = FALSE]
          /\ time_slice' = [time_slice EXCEPT ![c] = 0]
          /\ umode' = [umode EXCEPT ![c] = FALSE]
          /\ exiting' = [exiting EXCEPT ![c] = FALSE]
          /\ waitpid' = [waitpid EXCEPT ![p] = NULL, ![c] = NULL]
          /\ UNCHANGED panic
    /\ UNCHANGED <<wait_state, run_list, current, expires, expired, irq, mm,
                   filesp, started>>

(* init_main: schedule() between two waits; when there is no child left it  *)
(* returns, and do_exit panics.                                             *)
InitLoop ==
    /\ Step(initproc, "init_loop", "wait")
    /\ schedule
    /\ UNCHANGED procVars

InitQuit ==
    /\ Step(initproc, "init_quit", "exit")
    /\ UNCHANGED <<schedVars, procVars>>

-----------------------------------------------------------------------------
(* do_exit: give up memory and files, become a zombie ...                   *)
Exit(p) ==
    /\ At(p, "exit")
    /\ \/ /\ p = initproc
          /\ panic' = "initproc exit"
          /\ UNCHANGED <<state, pc, mm, filesp>>
       \/ /\ p # initproc
          /\ state' = [state EXCEPT ![p] = "ZOMBIE"]
          /\ mm' = [mm EXCEPT ![p] = FALSE]
          /\ filesp' = IF mm[p] THEN [filesp EXCEPT ![p] = FALSE] ELSE filesp
          /\ Goto(p, "exit_wakeup")
          /\ UNCHANGED panic
    /\ UNCHANGED <<wait_state, need_resched, time_slice, run_list, current,
                   expires, expired, irq, umode, exiting, linkVars, waitpid,
                   walk, started>>

(* ... wake a parent that waits for a child ...                             *)
NeverWakesParent(p) == FALSE                                      \* wrong
WakesParent(p) == wait_state[parent[p]] = "WT_CHILD"

ExitWakeup(p) ==
    /\ At(p, "exit_wakeup")
    /\ IF WakesParent(p)
       THEN wakeup_proc(parent[p])
       ELSE UNCHANGED <<state, wait_state, time_slice, run_list, panic>>
    /\ Goto(p, "exit_reparent")
    /\ UNCHANGED <<need_resched, current, expires, expired, irq, procVars>>

(* ... hand the children over to initproc, one per step, waking it for one  *)
(* that is a zombie ...                                                     *)
NeverWakesInit(c) == FALSE                                        \* wrong
WakesInit(c) == state[c] = "ZOMBIE" /\ wait_state[initproc] = "WT_CHILD"

ExitReparent(p) ==
    LET c == cptr[p] IN
    /\ At(p, "exit_reparent")
    /\ c # NULL
    /\ parent' = [parent EXCEPT ![c] = initproc]
    /\ cptr' = [cptr EXCEPT ![p] = optr[c], ![initproc] = c]
    /\ optr' = [optr EXCEPT ![c] = cptr[initproc]]
    /\ yptr' = [q \in All |-> IF q = c THEN NULL
                              ELSE IF q = cptr[initproc] THEN c ELSE yptr[q]]
    /\ IF WakesInit(c)
       THEN wakeup_proc(initproc)
       ELSE UNCHANGED <<state, wait_state, time_slice, run_list, panic>>
    /\ UNCHANGED <<need_resched, current, expires, expired, irq, pc, umode,
                   exiting, mm, filesp, waitpid, walk, started, proc_list,
                   nr_process>>

ExitReparentedEarly(p) ==                                         \* wrong
    Step(p, "exit_reparent", "exit_schedule") /\ UNCHANGED <<schedVars, procVars>>

ExitReparented(p) ==
    /\ Step(p, "exit_reparent", "exit_schedule")
    /\ cptr[p] = NULL
    /\ UNCHANGED <<schedVars, procVars>>

(* ... and leave the CPU for good.                                          *)
ExitSchedule(p) ==
    /\ Step(p, "exit_schedule", "dead")
    /\ schedule
    /\ UNCHANGED procVars

-----------------------------------------------------------------------------
(* panic stops the kernel in its monitor.                                   *)
Halted == panic # "no" /\ UNCHANGED vars

Irq == TimerIrq \/ TimerExpire \/ TimerTick

(* What a user program may do; it may also compute for ever.                *)
UserStep(p) ==
    SysFork(p) \/ SysOther(p) \/ SysYield(p) \/ SysExit(p) \/ SysKill(p)
    \/ SysWait(p)

KernelStep(p) ==
    \/ TrapReturn(p) \/ SleepSchedule(p) \/ SleepReturn(p) \/ KThreadReturn(p)
    \/ WaitRepeat(p) \/ WaitScan(p) \/ WaitSleep(p) \/ WaitSchedule(p)
    \/ Waited(p) \/ WaitFound(p)
    \/ Exit(p) \/ ExitWakeup(p) \/ ExitReparent(p) \/ ExitReparented(p)
    \/ ExitSchedule(p)

InitStep == InitThread \/ InitBooted \/ InitLoop \/ InitQuit

Next ==
    \/ Irq \/ Idle \/ InitStep \/ Halted
    \/ \E p \in Procs \cup {initproc} :
          UserStep(p) \/ Sleep(p) \/ Exec(p) \/ KernelStep(p)

Spec == Init /\ [][Next]_vars

-----------------------------------------------------------------------------
(* Fairness.  Kernel code goes on between interrupts, of which there may be *)
(* any number (strong); the clock keeps ticking, and its interrupt stays    *)
(* pending while they are disabled (strong); an interrupt in service and    *)
(* the idle loop go on (weak).  A user program need not make system calls.  *)

Fairness ==
    /\ WF_vars(TimerExpire \/ TimerTick)
    /\ SF_vars(TimerIrq)
    /\ SF_vars(Idle)
    /\ SF_vars(InitStep \/ \E p \in Procs \cup {initproc} : KernelStep(p))

FairSpec == Spec /\ Fairness

=============================================================================
