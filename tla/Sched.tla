------------------------------- MODULE Sched -------------------------------
(***************************************************************************)
(* The scheduler core of lab8: kern/schedule/sched.c with the round robin  *)
(* class of kern/schedule/default_sched.c, and the entry points that other *)
(* components call with interrupts disabled: wakeup_proc, schedule,        *)
(* add_timer, del_timer and the steps of run_timer_list.                   *)
(*                                                                         *)
(* This module has the state of the scheduler and one operator per         *)
(* routine; it has no processes of its own.  A module that EXTENDS it says *)
(* who calls the routines and when (Proc: processes and system calls).     *)
(*                                                                         *)
(* A timer is represented by the ticks that remain until it expires.  The  *)
(* delta list that stores the timers is the subject of module Timer.       *)
(*                                                                         *)
(* Definitions marked "wrong" are plausible mistakes; each property below  *)
(* and in the modules that extend this one fails when the definition that  *)
(* follows is replaced by one of them.                                     *)
(***************************************************************************)
EXTENDS Integers, Sequences

CONSTANTS
    Procs,          \* the process structures beside idleproc and initproc
    idleproc,       \* the process that runs when the run queue is empty
    initproc,       \* the second kernel thread, init_main
    NULL,           \* the null pointer
    MAX_TIME_SLICE, \* ticks that a process may run before need_resched is set
    MaxSleep        \* bound on the argument of do_sleep (a model bound)

All == Procs \cup {idleproc, initproc}

ASSUME SchedAssumption ==
    /\ idleproc \notin Procs /\ initproc \notin Procs /\ idleproc # initproc
    /\ NULL \notin All
    /\ MAX_TIME_SLICE \in Nat \ {0}
    /\ MaxSleep \in Nat \ {0}

VARIABLES
    state,        \* proc->state; "FREE" is a structure that is not allocated
    wait_state,   \* proc->wait_state; "0" is not waiting
    need_resched, \* proc->need_resched
    time_slice,   \* proc->time_slice
    run_list,     \* rq->run_list, the head first
    current,      \* the running process
    expires,      \* ticks left on the timer of a process, 0 when it has none
    expired,      \* timers whose expires reached 0 in this run_timer_list
    irq,          \* TRUE from the entry of run_timer_list to its end
    panic         \* the assertion or panic that stopped the kernel, or "no"

schedVars == <<state, wait_state, need_resched, time_slice, run_list,
               current, expires, expired, irq, panic>>

ProcState == {"FREE", "SLEEPING", "RUNNABLE", "ZOMBIE"}
WaitState == {"0", "WT_CHILD", "WT_TIMER", "WT_KBD", "WT_KSEM"}
Panics    == {"no", "wakeup zombie", "run_link not empty", "wait_state",
              "not interruptible", "initproc exit", "wait init",
              "wakeup_flags"}

Interruptible(w) == w \in {"WT_CHILD", "WT_TIMER", "WT_KBD"}  \* w & WT_INTERRUPTED

Queued == {run_list[i] : i \in DOMAIN run_list}

SchedTypeOK ==
    /\ state \in [All -> ProcState]
    /\ wait_state \in [All -> WaitState]
    /\ need_resched \in [All -> BOOLEAN]
    /\ time_slice \in [All -> 0..MAX_TIME_SLICE]
    /\ run_list \in Seq(Procs \cup {initproc})
    /\ current \in All
    /\ expires \in [All -> 0..MaxSleep]
    /\ expired \in SUBSET All
    /\ irq \in BOOLEAN
    /\ panic \in Panics

-----------------------------------------------------------------------------
(* sched_class_enqueue and RR_enqueue: to the tail, with a fresh time slice *)
(* when the old one is used up; idleproc is never queued.                   *)

EnqueuedAtHead(q, p) == IF p = idleproc THEN q ELSE <<p>> \o q   \* wrong
Enqueued(q, p) == IF p = idleproc THEN q ELSE Append(q, p)

Refilled(ts, p) ==
    IF p # idleproc /\ (ts[p] = 0 \/ ts[p] > MAX_TIME_SLICE)
    THEN [ts EXCEPT ![p] = MAX_TIME_SLICE] ELSE ts

(* RR_enqueue asserts that the process is not linked in a run queue.        *)
EnqueuePanic(p) ==
    IF p # idleproc /\ p \in Queued THEN "run_link not empty" ELSE panic

(* wakeup_proc's effect on a process that sleeps: its wait_state is reset,  *)
(* and it is queued unless it is the current process, which still runs.     *)
Awake(p) == [wait_state EXCEPT ![p] = "0"]

WokenAlwaysQueued(p) == Enqueued(run_list, p)                     \* wrong
WokenQueue(p) == IF p = current THEN run_list ELSE Enqueued(run_list, p)

(* wakeup_proc(p): a running process that is marked sleeping (it was        *)
(* interrupted before it reached schedule) becomes runnable without being   *)
(* queued; waking a runnable process only warns.                            *)
wakeup_proc(p) ==
    \/ /\ state[p] = "ZOMBIE"
       /\ panic' = "wakeup zombie"
       /\ UNCHANGED <<state, wait_state, run_list, time_slice>>
    \/ /\ state[p] = "RUNNABLE"
       /\ UNCHANGED <<state, wait_state, run_list, time_slice, panic>>
    \/ /\ state[p] \notin {"ZOMBIE", "RUNNABLE"}
       /\ state' = [state EXCEPT ![p] = "RUNNABLE"]
       /\ wait_state' = Awake(p)
       /\ run_list' = WokenQueue(p)
       /\ time_slice' = IF p = current THEN time_slice ELSE Refilled(time_slice, p)
       /\ panic' = IF p = current THEN panic ELSE EnqueuePanic(p)

(* schedule(): the current process goes to the tail if it can still run,   *)
(* and the head of the queue, or idleproc, gets the CPU.                   *)
schedule ==
    LET runs == state[current] = "RUNNABLE"
        q    == IF runs THEN Enqueued(run_list, current) ELSE run_list
    IN  /\ need_resched' = [need_resched EXCEPT ![current] = FALSE]
        /\ time_slice' = IF runs THEN Refilled(time_slice, current)
                                 ELSE time_slice
        /\ current'  = IF q = <<>> THEN idleproc ELSE Head(q)
        /\ run_list' = IF q = <<>> THEN q ELSE Tail(q)
        /\ panic' = IF runs THEN EnqueuePanic(current) ELSE panic
        /\ UNCHANGED <<state, wait_state, expires, expired, irq>>

(* add_timer and del_timer, for the one timer a process can have.           *)
add_timer(p, t) == expires' = [expires EXCEPT ![p] = t]

del_timer(p) ==
    /\ expires' = [expires EXCEPT ![p] = 0]
    /\ expired' = expired \ {p}

-----------------------------------------------------------------------------
(* run_timer_list, called by the timer interrupt.  Its three parts are      *)
(* steps of their own that nothing else interleaves with (irq is TRUE):     *)
(* the decrement, one iteration of the while loop, and the scheduler tick.  *)

ExpiredOffByOne == {p \in All : expires[p] = 2}                   \* wrong
Expired == {p \in All : expires[p] = 1}

run_timer_list_enter ==
    /\ ~irq
    /\ irq' = TRUE
    /\ expires' = [p \in All |-> IF expires[p] > 0 THEN expires[p] - 1 ELSE 0]
    /\ expired' = Expired
    /\ UNCHANGED <<state, wait_state, need_resched, time_slice, run_list,
                   current, panic>>

run_timer_list_expire(p) ==
    /\ irq
    /\ p \in expired
    /\ IF wait_state[p] # "0" /\ ~Interruptible(wait_state[p])
       THEN /\ panic' = "not interruptible"
            /\ UNCHANGED <<state, wait_state, run_list, time_slice>>
       ELSE wakeup_proc(p)
    /\ del_timer(p)
    /\ UNCHANGED <<need_resched, current, irq>>

(* sched_class_proc_tick and RR_proc_tick.                                  *)
TickedUnguarded ==                                                \* wrong
    IF current # idleproc THEN [time_slice EXCEPT ![current] = @ - 1]
                          ELSE time_slice
Ticked ==
    IF current # idleproc /\ time_slice[current] > 0
    THEN [time_slice EXCEPT ![current] = @ - 1] ELSE time_slice

run_timer_list_tick ==
    /\ irq
    /\ expired = {}
    /\ irq' = FALSE
    /\ time_slice' = Ticked
    /\ need_resched' =
          IF current = idleproc \/ Ticked[current] = 0
          THEN [need_resched EXCEPT ![current] = TRUE] ELSE need_resched
    /\ UNCHANGED <<state, wait_state, run_list, current, expires, expired,
                   panic>>

-----------------------------------------------------------------------------
(* Properties that every composition with this module keeps.               *)

(* The run queue holds every process that could run and does not, once:     *)
(* nothing runnable is forgotten and nothing is queued twice (RR_enqueue's  *)
(* assertion), whatever order interrupts, kill and schedule come in.        *)
QueueOk ==
    /\ \A i, j \in DOMAIN run_list : run_list[i] = run_list[j] => i = j
    /\ \A p \in All \ {idleproc} :
          p \in Queued <=> state[p] = "RUNNABLE" /\ p # current

(* A process has a wait_state exactly while it sleeps: the reader of        *)
(* wait_state (do_exit, do_kill, run_timer_list) wakes sleepers only.       *)
WaitStateOk == \A p \in All : wait_state[p] # "0" <=> state[p] = "SLEEPING"

=============================================================================
