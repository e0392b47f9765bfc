-------------------------------- MODULE Stdin --------------------------------
(***************************************************************************)
(* The keyboard of lab8: kern/fs/devs/dev_stdin.c, between the timer       *)
(* interrupt, which polls the console and fills the ring buffer, and the   *)
(* processes that read it, sleep for it and may be killed meanwhile.  It   *)
(* composes the scheduler of module Sched with the wait queue of           *)
(* kern/sync/wait.c and as much of do_kill, do_exit and do_wait as the     *)
(* readers meet (all of them are in module Proc).                          *)
(*                                                                         *)
(* A reader is a user process: in the kernel it runs with interrupts       *)
(* disabled, so that a call of dev_stdin_read is interrupted only while    *)
(* its process is off the CPU.                                             *)
(***************************************************************************)
EXTENDS Sched, Wait

CONSTANTS
    Keys,           \* characters, without '\0'
    STDIN_BUFSIZE,
    MaxLen,         \* bound on the length of a read (a model bound)
    MaxTyped        \* bound on the keys typed (a model bound)

ASSUME StdinAssumption ==
    /\ IsFiniteSet(Procs)  \* at most MAX_PROCESS
    /\ STDIN_BUFSIZE \in Nat \ {0} /\ MaxLen \in Nat \ {0} /\ MaxTyped \in Nat

VARIABLES
    stdin_buffer, p_rpos, p_wpos,
    wait_queue,    \* the readers that are linked in it, the first at the head
    wakeup_flags,  \* wait->wakeup_flags of a reader's wait_t
    poll,          \* what the interrupt does next: "key", "wake" or nothing
    PF_EXITING,    \* the processes whose flags have it
    len,           \* dev_stdin_read's argument
    buf,           \* its buffer: ret is the length
    pc

devVars == <<stdin_buffer, p_rpos, p_wpos, wait_queue, wakeup_flags>>
vars == <<schedVars, devVars, poll, PF_EXITING, len, buf, pc>>

PC == {"idle", "wait", "wait_schedule", "user", "reading", "read_schedule",
       "read_resume", "return", "exit", "exit_wakeup", "exit_schedule", "dead"}

(* Type invariant: the device, the readers and the kernel state they use;   *)
(* no assertion of wait.c, sched.c and default_sched.c fails.               *)
StdinTypeOK ==
    /\ panic = "no" /\ SchedTypeOK
    /\ stdin_buffer \in [0..(STDIN_BUFSIZE - 1) -> Keys \cup {NULL}]
    /\ p_rpos \in 0..p_wpos /\ p_wpos \in 0..MaxTyped
    /\ p_wpos - p_rpos <= STDIN_BUFSIZE
    /\ wait_queue \in Seq(Procs)
    /\ wakeup_flags \in [Procs -> {"WT_INTERRUPTED", "WT_KBD"}]
    /\ poll \in {"no", "key", "wake"}
    /\ PF_EXITING \in SUBSET Procs
    /\ len \in [Procs -> 1..MaxLen]
    /\ buf \in [Procs -> Seq(Keys)] /\ \A p \in Procs : Len(buf[p]) <= len[p]
    /\ pc \in [All -> PC]

(* The readers have been started, and the stdin buffer is empty (NULL is    *)
(* '\0').  initproc waits; it has another child, which keeps it waiting.    *)
Init ==
    /\ state = [p \in All |-> IF p = initproc THEN "SLEEPING" ELSE "RUNNABLE"]
    /\ wait_state = [p \in All |-> IF p = initproc THEN "WT_CHILD" ELSE "0"]
    /\ need_resched = [p \in All |-> p = idleproc]
    /\ time_slice = [p \in All |-> IF p \in Procs THEN MAX_TIME_SLICE ELSE 0]
    /\ run_list \in SetToSeqs(Procs)
    /\ current = idleproc
    /\ expires = [p \in All |-> 0] /\ expired = {}
    /\ irq = FALSE /\ panic = "no"
    /\ stdin_buffer = [i \in 0..(STDIN_BUFSIZE - 1) |-> NULL]
    /\ p_rpos = 0 /\ p_wpos = 0
    /\ wait_queue = <<>>
    /\ wakeup_flags = [p \in Procs |-> "WT_INTERRUPTED"]
    /\ poll = "no"
    /\ PF_EXITING = {}
    /\ len = [p \in Procs |-> 1]
    /\ buf = [p \in Procs |-> <<>>]
    /\ pc = [p \in All |-> CASE p = idleproc -> "idle"
                             [] p = initproc -> "wait"
                             [] OTHER -> "user"]

-----------------------------------------------------------------------------
(* The timer interrupt: run_timer_list (no timer runs here), then           *)
(* dev_stdin_write(cons_getc()), whose wakeup_queue wakes the readers one   *)
(* by one.  Nothing interleaves with it.                                    *)

InIrq == irq \/ poll # "no"

IrqEnabled == pc[current] \in {"user", "idle"}

TimerIrq ==
    /\ panic = "no" /\ ~InIrq /\ IrqEnabled
    /\ run_timer_list_enter
    /\ pc' = IF pc[current] = "user" THEN [pc EXCEPT ![current] = "return"] ELSE pc
    /\ UNCHANGED <<devVars, poll, PF_EXITING, len, buf>>

TimerTick ==
    /\ panic = "no"
    /\ run_timer_list_tick
    /\ poll' = "key"
    /\ UNCHANGED <<devVars, PF_EXITING, len, buf, pc>>

(* No key has been pressed: cons_getc returns '\0'.                         *)
NoKey ==
    /\ poll = "key"
    /\ poll' = "no"
    /\ UNCHANGED <<schedVars, devVars, PF_EXITING, len, buf, pc>>

(* A key is stored where p_wpos points, even when the buffer is full.       *)
AdvancedAlways == p_wpos + 1                                      \* wrong
Advanced == IF p_wpos - p_rpos < STDIN_BUFSIZE THEN p_wpos + 1 ELSE p_wpos

Key(c) ==
    /\ poll = "key"
    /\ p_wpos < MaxTyped
    /\ stdin_buffer' = [stdin_buffer EXCEPT ![p_wpos % STDIN_BUFSIZE] = c]
    /\ p_wpos' = Advanced
    /\ poll' = IF wait_queue = <<>> THEN "no" ELSE "wake"
    /\ UNCHANGED <<schedVars, p_rpos, wait_queue, wakeup_flags, PF_EXITING,
                   len, buf, pc>>

(* wakeup_wait of the first waiter; wakeup_queue goes on until none is left. *)
WakesOne(rest) == "no"                                            \* wrong
WakesAll(rest) == IF rest = <<>> THEN "no" ELSE "wake"

WakeReader ==
    /\ panic = "no" /\ poll = "wake"
    /\ wait_queue' = Tail(wait_queue)
    /\ wakeup_flags' = [wakeup_flags EXCEPT ![Head(wait_queue)] = "WT_KBD"]
    /\ wakeup_proc(Head(wait_queue))
    /\ poll' = WakesAll(Tail(wait_queue))
    /\ UNCHANGED <<need_resched, current, expires, expired, irq, stdin_buffer,
                   p_rpos, p_wpos, PF_EXITING, len, buf, pc>>

-----------------------------------------------------------------------------
At(p, l) == panic = "no" /\ ~InIrq /\ current = p /\ pc[p] = l
Goto(p, m) == pc' = [pc EXCEPT ![p] = m]
Step(p, l, m) == At(p, l) /\ Goto(p, m)

(* read(0, buf, n)                                                          *)
SysRead(p) ==
    /\ Step(p, "user", "reading")
    /\ \E n \in 1..MaxLen : len' = [len EXCEPT ![p] = n]
    /\ buf' = [buf EXCEPT ![p] = <<>>]
    /\ UNCHANGED <<schedVars, devVars, poll, PF_EXITING>>

ReadKey(p) ==
    /\ At(p, "reading")
    /\ Len(buf[p]) < len[p]
    /\ p_rpos < p_wpos
    /\ buf' = [buf EXCEPT ![p] = Append(@, stdin_buffer[p_rpos % STDIN_BUFSIZE])]
    /\ p_rpos' = p_rpos + 1
    /\ UNCHANGED <<schedVars, stdin_buffer, p_wpos, wait_queue, wakeup_flags,
                   poll, PF_EXITING, len, pc>>

ReadAll(p) ==
    /\ Step(p, "reading", "return")
    /\ Len(buf[p]) = len[p]
    /\ UNCHANGED <<schedVars, devVars, poll, PF_EXITING, len, buf>>

(* wait_current_set; schedule().                                            *)
ReadWait(p) ==
    /\ Step(p, "reading", "read_schedule")
    /\ Len(buf[p]) < len[p]
    /\ p_rpos >= p_wpos
    /\ state' = [state EXCEPT ![p] = "SLEEPING"]
    /\ wait_state' = [wait_state EXCEPT ![p] = "WT_KBD"]
    /\ wait_queue' = Append(wait_queue, p)
    /\ wakeup_flags' = [wakeup_flags EXCEPT ![p] = "WT_INTERRUPTED"]
    /\ UNCHANGED <<need_resched, time_slice, run_list, current, expires,
                   expired, irq, panic, stdin_buffer, p_rpos, p_wpos, poll,
                   PF_EXITING, len, buf>>

ReadSchedule(p) ==
    /\ Step(p, "read_schedule", "read_resume")
    /\ schedule
    /\ UNCHANGED <<devVars, poll, PF_EXITING, len, buf>>

(* wait_current_del; woken by a key it tries again, else it returns.        *)
StaysLinked(p) == wait_queue                                      \* wrong
Unlinked(p) == wait_current_del(wait_queue, p)

ReadResume(p) ==
    /\ Step(p, "read_resume", IF wakeup_flags[p] = "WT_KBD" THEN "reading" ELSE "return")
    /\ wait_queue' = Unlinked(p)
    /\ UNCHANGED <<schedVars, stdin_buffer, p_rpos, p_wpos, wakeup_flags, poll,
                   PF_EXITING, len, buf>>

-----------------------------------------------------------------------------
(* kill, by another process; exit; and the end of a trap: a killed process  *)
(* exits, one whose time is up reschedules.                                 *)
SysKill(p, q) ==
    /\ Step(p, "user", "return")
    /\ q # p
    /\ state[q] # "FREE"
    /\ q \notin PF_EXITING
    /\ PF_EXITING' = PF_EXITING \cup {q}
    /\ IF Interruptible(wait_state[q])
       THEN wakeup_proc(q)
       ELSE UNCHANGED <<state, wait_state, run_list, time_slice, panic>>
    /\ UNCHANGED <<need_resched, current, expires, expired, irq, devVars, poll,
                   len, buf>>

(* Another system call.                                                     *)
SysOther(p) ==
    /\ Step(p, "user", "return")
    /\ UNCHANGED <<schedVars, devVars, poll, PF_EXITING, len, buf>>

SysExit(p) ==
    /\ Step(p, "user", "exit")
    /\ UNCHANGED <<schedVars, devVars, poll, PF_EXITING, len, buf>>

TrapReturn(p) ==
    /\ At(p, "return")
    /\ \/ /\ p \in PF_EXITING
          /\ Goto(p, "exit")
          /\ UNCHANGED schedVars
       \/ /\ p \notin PF_EXITING
          /\ Goto(p, "user")
          /\ IF need_resched[p] THEN schedule ELSE UNCHANGED schedVars
    /\ UNCHANGED <<devVars, poll, PF_EXITING, len, buf>>

(* do_exit                                                                  *)
Exit(p) ==
    /\ Step(p, "exit", "exit_wakeup")
    /\ state' = [state EXCEPT ![p] = "ZOMBIE"]
    /\ UNCHANGED <<wait_state, need_resched, time_slice, run_list, current,
                   expires, expired, irq, panic, devVars, poll, PF_EXITING,
                   len, buf>>

ExitWakeup(p) ==
    /\ Step(p, "exit_wakeup", "exit_schedule")
    /\ IF wait_state[initproc] = "WT_CHILD"
       THEN wakeup_proc(initproc)
       ELSE UNCHANGED <<state, wait_state, run_list, time_slice, panic>>
    /\ UNCHANGED <<need_resched, current, expires, expired, irq, devVars, poll,
                   PF_EXITING, len, buf>>

ExitSchedule(p) ==
    /\ Step(p, "exit_schedule", "dead")
    /\ schedule
    /\ UNCHANGED <<devVars, poll, PF_EXITING, len, buf>>

-----------------------------------------------------------------------------
(* initproc frees what has died and waits again; idleproc.                  *)
WaitFound ==
    /\ At(initproc, "wait")
    /\ \E p \in Procs : /\ state[p] = "ZOMBIE"
                        /\ state' = [state EXCEPT ![p] = "FREE"]
    /\ UNCHANGED <<wait_state, need_resched, time_slice, run_list, current,
                   expires, expired, irq, panic, devVars, poll, PF_EXITING,
                   len, buf, pc>>

WaitSleep ==
    /\ Step(initproc, "wait", "wait_schedule")
    /\ \A p \in Procs : state[p] # "ZOMBIE"
    /\ state' = [state EXCEPT ![initproc] = "SLEEPING"]
    /\ wait_state' = [wait_state EXCEPT ![initproc] = "WT_CHILD"]
    /\ UNCHANGED <<need_resched, time_slice, run_list, current, expires,
                   expired, irq, panic, devVars, poll, PF_EXITING, len, buf>>

WaitSchedule ==
    /\ Step(initproc, "wait_schedule", "wait")
    /\ schedule
    /\ UNCHANGED <<devVars, poll, PF_EXITING, len, buf>>

Idle ==
    /\ At(idleproc, "idle")
    /\ need_resched[idleproc]
    /\ schedule
    /\ UNCHANGED <<devVars, poll, PF_EXITING, len, buf, pc>>

-----------------------------------------------------------------------------
KernelStep(p) ==
    \/ ReadKey(p) \/ ReadAll(p) \/ ReadWait(p) \/ ReadSchedule(p) \/ ReadResume(p)
    \/ TrapReturn(p) \/ Exit(p) \/ ExitWakeup(p) \/ ExitSchedule(p)

UserStep(p) ==
    SysRead(p) \/ SysOther(p) \/ SysExit(p) \/ \E q \in Procs : SysKill(p, q)

InitprocStep == WaitFound \/ WaitSleep \/ WaitSchedule

PollStep == NoKey \/ WakeReader \/ \E c \in Keys : Key(c)

Next ==
    \/ TimerIrq \/ TimerTick \/ PollStep \/ Idle \/ InitprocStep
    \/ \E p \in Procs : KernelStep(p) \/ UserStep(p)

Spec == Init /\ [][Next]_vars

(* As in Proc: kernel code and an interrupt in service go on, the clock      *)
(* ticks.  Nothing is assumed of who types and of what the readers do.      *)
Fairness ==
    /\ WF_vars(TimerTick \/ PollStep)
    /\ SF_vars(TimerIrq)
    /\ SF_vars(Idle)
    /\ SF_vars(InitprocStep \/ \E p \in Procs : KernelStep(p))

FairSpec == Spec /\ Fairness

-----------------------------------------------------------------------------
(* Safety.                                                                  *)

(* A reader sleeps for the keyboard only while there is nothing to read: no *)
(* key is typed between its look at the buffer and its sleep, and a key     *)
(* wakes every sleeper.                                                     *)
Asleep(p) == state[p] = "SLEEPING" /\ wait_state[p] = "WT_KBD"

NoSleepOnInput ==
    poll # "wake" => \A p \in Procs : Asleep(p) => p_rpos = p_wpos

(* The wait queue links each reader once, and only while its wait_t, which  *)
(* is on its kernel stack, exists: a sleeper, or one that kill has woken    *)
(* and that has not run yet.                                                *)
LinkedOk ==
    /\ StdinTypeOK
    /\ \A i, j \in DOMAIN wait_queue : wait_queue[i] = wait_queue[j] => i = j
    /\ \A p \in ToSet(wait_queue) :
          /\ pc[p] \in {"read_schedule", "read_resume"}
          /\ Asleep(p) \/ p \in PF_EXITING
    /\ \A p \in Procs : Asleep(p) => p \in ToSet(wait_queue)

(* The ring buffer implements the abstract keyboard: keys are read in       *)
(* order, each by one reader.                                               *)
Unread == [i \in 1..(p_wpos - p_rpos) |-> stdin_buffer[(p_rpos + i - 1) % STDIN_BUFSIZE]]

Ideal == INSTANCE Keyboard WITH Readers <- Procs, unread <- Unread

ImplementsKeyboard == Ideal!KeyboardSpec

-----------------------------------------------------------------------------
(* Liveness.                                                                *)

(* A key typed while somebody waits for it is read, although the waiters    *)
(* may be killed and others may read it first.                              *)
KeyIsRead ==
    \A n \in 0..(MaxTyped - 1) : p_rpos = n /\ poll = "wake" ~> p_rpos > n

=============================================================================
