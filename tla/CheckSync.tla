----------------------------- MODULE CheckSync -----------------------------
(***************************************************************************)
(* check_sync of lab7 and lab8 (kern/sync/check_sync.c): the dining        *)
(* philosophers as kernel threads, first with semaphores, then with the    *)
(* monitor of kern/sync/monitor.c.  It composes the semaphores of module   *)
(* Sem, the scheduler and the timers of module Sched, and as much of       *)
(* do_fork, do_exit and do_wait as check_sync uses (all of them are in     *)
(* module Proc).                                                           *)
(*                                                                         *)
(* Kernel threads are not preempted: only the current one moves, and it    *)
(* keeps the CPU until it calls schedule().  The timer interrupt may come  *)
(* between any two of its steps.  pc, ret and cont are its stack: where it *)
(* is, where down or do_sleep returns to, and where cond_signal does.      *)
(***************************************************************************)
EXTENDS Sem, FiniteSets

CONSTANTS N,          \* philosophers; their processes are 0 .. N - 1
          TIMES,      \* meals of each
          SLEEP_TIME

ASSUME CheckSyncAssumption ==
    /\ N \in Nat \ {0, 1}
    /\ Procs = 0..(N - 1)
    /\ TIMES \in Nat
    /\ SLEEP_TIME \in 1..MaxSleep
    /\ Sems = 0..(N + 1)

LEFT(i)  == (i - 1 + N) % N
RIGHT(i) == (i + 1) % N

VARIABLES
    phase,       \* which half of check_sync runs: "sema", "condvar", "done"
    pc, ret, cont,
    on,          \* the semaphore of the last down
    iter,
    phi_state,   \* state_sema or state_condvar
    next_count,  \* mtp->next_count
    count,       \* mtp->cv[i].count
    waited       \* philosophers that do_wait has returned

phiVars == <<phi_state, next_count, count>>
threadVars == <<phase, ret, cont, on, iter, phiVars, waited>>
vars == <<schedVars, semVars, pc, threadVars>>

(* The semaphores by number: s[i], which in the second half is cv[i].sem,   *)
(* the mutex of either half, and the next of the monitor.                   *)
S(i)  == i
MUTEX == N
NEXT  == N + 1

Sync == 0..NEXT

PC == {"free", "idle", "think", "eat", "sleep", "slept", "down_schedule",
       "down_resume", "take", "hungry", "release", "acquire", "put", "full",
       "test_left", "test_right", "test_self", "check_self", "signal",
       "signaled", "cond_wait", "cond_waited", "leave_take", "leave_put",
       "exit_wakeup", "exit_schedule", "dead", "wait", "wait_schedule"}

(* Type invariant: the state of the kernel that check_sync uses, the        *)
(* philosophers' states and the fields of the monitor; no assertion of      *)
(* wait.c, sem.c, sched.c and default_sched.c fails.                        *)
CheckSyncTypeOK ==
    /\ panic = "no" /\ SchedTypeOK /\ SemTypeOK
    /\ phase \in {"sema", "condvar", "done"}
    /\ pc \in [All -> PC] /\ ret \in [All -> PC] /\ cont \in [All -> PC]
    /\ on \in [All -> Sync]
    /\ iter \in [Procs -> 0..TIMES]
    /\ phi_state \in [Procs -> {"THINKING", "HUNGRY", "EATING"}]
    /\ next_count \in Nat
    /\ count \in [Procs -> Nat]
    /\ waited \in 0..N

-----------------------------------------------------------------------------
(* initproc has made the threads of the first half and calls do_wait.  The  *)
(* kernel_thread calls of a half are one step: initproc does not give up    *)
(* the CPU between them.                                                    *)

Init ==
    /\ state = [p \in All |-> "RUNNABLE"]
    /\ wait_state = [p \in All |-> "0"]
    /\ need_resched = [p \in All |-> FALSE]
    /\ time_slice = [p \in All |-> IF p = idleproc THEN 0 ELSE MAX_TIME_SLICE]
    /\ run_list = [i \in 1..N |-> i - 1]
    /\ current = initproc
    /\ expires = [p \in All |-> 0]
    /\ expired = {}
    /\ irq = FALSE
    /\ panic = "no"
    /\ value = [s \in Sync |-> IF s = MUTEX THEN 1 ELSE 0]
    /\ wait_queue = [s \in Sync |-> <<>>]
    /\ wakeup_flags = [p \in All |-> "WT_INTERRUPTED"]
    /\ phase = "sema"
    /\ pc = [p \in All |-> CASE p = idleproc -> "idle"
                             [] p = initproc -> "wait"
                             [] OTHER -> "think"]
    /\ ret = pc
    /\ cont = pc
    /\ on = [p \in All |-> MUTEX]
    /\ iter = [p \in Procs |-> 0]
    /\ phi_state = [p \in Procs |-> "THINKING"]
    /\ next_count = 0
    /\ count = [p \in Procs |-> 0]
    /\ waited = 0

-----------------------------------------------------------------------------
At(p, l) == panic = "no" /\ ~irq /\ current = p /\ pc[p] = l
Goto(p, m) == pc' = [pc EXCEPT ![p] = m]
Step(p, l, m) == At(p, l) /\ Goto(p, m)

(* down(s) called at label l, returning to label m.                         *)
Down(p, l, s, m) ==
    /\ At(p, l)
    /\ \/ down_takes(s) /\ Goto(p, m) /\ UNCHANGED <<ret, on>>
       \/ /\ down_waits(p, s)
          /\ Goto(p, "down_schedule")
          /\ ret' = [ret EXCEPT ![p] = m]
          /\ on' = [on EXCEPT ![p] = s]
    /\ UNCHANGED <<phase, cont, iter, phiVars, waited>>

DownSchedule(p) ==
    /\ Step(p, "down_schedule", "down_resume")
    /\ schedule
    /\ UNCHANGED <<semVars, threadVars>>

DownResume(p) ==
    /\ Step(p, "down_resume", ret[p])
    /\ down_returns(p, on[p])
    /\ UNCHANGED threadVars

(* up(s) between labels l and m.                                            *)
Up(p, l, s, m) ==
    /\ Step(p, l, m)
    /\ up(s)
    /\ UNCHANGED threadVars

(* do_sleep(SLEEP_TIME), returning to label m.                              *)
StartSleep(p, m) ==
    /\ state' = [state EXCEPT ![p] = "SLEEPING"]
    /\ wait_state' = [wait_state EXCEPT ![p] = "WT_TIMER"]
    /\ add_timer(p, SLEEP_TIME)
    /\ ret' = [ret EXCEPT ![p] = m]
    /\ Goto(p, "sleep")
    /\ UNCHANGED <<need_resched, time_slice, run_list, current, expired, irq,
                   panic, semVars, phase, cont, on, phiVars, waited>>

SleepSchedule(p) ==
    /\ Step(p, "sleep", "slept")
    /\ schedule
    /\ UNCHANGED <<semVars, threadVars>>

SleepReturn(p) ==
    /\ Step(p, "slept", ret[p])
    /\ del_timer(p)
    /\ UNCHANGED <<state, wait_state, need_resched, time_slice, run_list,
                   current, irq, panic, semVars, threadVars>>

-----------------------------------------------------------------------------
(* What the philosophers of both halves do: the loop with its two naps, and *)
(* the return from the thread's function into do_exit.                      *)

Think(p) ==
    /\ At(p, "think")
    /\ iter[p] < TIMES
    /\ iter' = [iter EXCEPT ![p] = @ + 1]
    /\ StartSleep(p, "take")

Eat(p) ==
    /\ At(p, "eat")
    /\ StartSleep(p, "put")
    /\ UNCHANGED iter

Quit(p) ==
    /\ Step(p, "think", "exit_wakeup")
    /\ iter[p] = TIMES
    /\ state' = [state EXCEPT ![p] = "ZOMBIE"]
    /\ UNCHANGED <<wait_state, need_resched, time_slice, run_list, current,
                   expires, expired, irq, panic, semVars, threadVars>>

ExitWakeup(p) ==
    /\ Step(p, "exit_wakeup", "exit_schedule")
    /\ IF wait_state[initproc] = "WT_CHILD"
       THEN wakeup_proc(initproc)
       ELSE UNCHANGED <<state, wait_state, time_slice, run_list, panic>>
    /\ UNCHANGED <<schedRest, semVars, threadVars>>

ExitSchedule(p) ==
    /\ Step(p, "exit_schedule", "dead")
    /\ schedule
    /\ UNCHANGED <<semVars, threadVars>>

Become(i, s) == phi_state' = [phi_state EXCEPT ![i] = s]

OneForkIsEnough(i) == phi_state[i] = "HUNGRY" /\ phi_state[LEFT(i)] # "EATING" \* wrong
CanEat(i) ==
    /\ phi_state[i] = "HUNGRY"
    /\ phi_state[LEFT(i)] # "EATING"
    /\ phi_state[RIGHT(i)] # "EATING"

(* take forks: declare hunger inside the critical section; the first halves *)
(* of take and put are the same with semaphores and in the monitor.         *)
Take(p) == Down(p, "take", MUTEX, "hungry")
Put(p)  == Down(p, "put", MUTEX, "full")

Declare(p, l, s, m) ==
    /\ Step(p, l, m)
    /\ Become(p, s)
    /\ UNCHANGED <<schedVars, semVars, phase, ret, cont, on, iter, next_count,
                   count, waited>>

Hungry(p) == Declare(p, "hungry", "HUNGRY", "test_self")
FullForgetsLeft(p) == Declare(p, "full", "THINKING", "test_right") \* wrong
Full(p)   == Declare(p, "full", "THINKING", "test_left")

-----------------------------------------------------------------------------
(* With semaphores: phi_test_sema, phi_take_forks_sema, phi_put_forks_sema. *)

TestSema(p, l, i, m) ==
    /\ phase = "sema"
    /\ Step(p, l, m)
    /\ \/ CanEat(i) /\ Become(i, "EATING") /\ up(S(i))
       \/ ~CanEat(i) /\ UNCHANGED <<schedVars, semVars, phi_state>>
    /\ UNCHANGED <<phase, ret, cont, on, iter, next_count, count, waited>>

Release(p) ==
    \/ phase = "sema" /\ Up(p, "release", MUTEX, "acquire")
    \/ phase = "sema" /\ Up(p, "leave_put", MUTEX, "think")

Acquire(p) == Down(p, "acquire", S(p), "eat")

SemaStep(p) ==
    \/ TestSema(p, "test_self", p, "release")
    \/ TestSema(p, "test_left", LEFT(p), "test_right")
    \/ TestSema(p, "test_right", RIGHT(p), "leave_put")
    \/ Release(p) \/ Acquire(p)

-----------------------------------------------------------------------------
(* In the monitor: phi_test_condvar with cond_signal, and cond_wait.  The   *)
(* signaller waits on next until the thread it woke leaves the monitor or   *)
(* waits again.                                                             *)

TestCondvar(p, l, i, m) ==
    /\ phase = "condvar"
    /\ At(p, l)
    /\ \/ /\ CanEat(i) /\ count[i] > 0
          /\ Become(i, "EATING")
          /\ next_count' = next_count + 1
          /\ up(S(i))
          /\ cont' = [cont EXCEPT ![p] = m]
          /\ Goto(p, "signal")
       \/ /\ CanEat(i) /\ count[i] = 0
          /\ Become(i, "EATING")
          /\ Goto(p, m)
          /\ UNCHANGED <<schedVars, semVars, next_count, cont>>
       \/ /\ ~CanEat(i)
          /\ Goto(p, m)
          /\ UNCHANGED <<schedVars, semVars, phi_state, next_count, cont>>
    /\ UNCHANGED <<phase, ret, on, iter, count, waited>>

Signal(p) == Down(p, "signal", NEXT, "signaled")

Signaled(p) ==
    /\ Step(p, "signaled", cont[p])
    /\ next_count' = next_count - 1
    /\ UNCHANGED <<schedVars, semVars, phase, ret, cont, on, iter, phi_state,
                   count, waited>>

(* Who gets the monitor when a thread leaves it or waits in it: a signaller *)
(* if there is one, else whoever waits at the entrance.                     *)
AlwaysMutex == MUTEX                                              \* wrong
SuccessorOffByOne == IF next_count >= 0 THEN NEXT ELSE MUTEX      \* wrong
Successor == IF next_count > 0 THEN NEXT ELSE MUTEX

CheckSelf(p) ==
    /\ phase = "condvar"
    /\ At(p, "check_self")
    /\ \/ /\ phi_state[p] = "HUNGRY"
          /\ count' = [count EXCEPT ![p] = @ + 1]
          /\ up(Successor)
          /\ Goto(p, "cond_wait")
       \/ /\ phi_state[p] # "HUNGRY"
          /\ Goto(p, "leave_take")
          /\ UNCHANGED <<schedVars, semVars, count>>
    /\ UNCHANGED <<phase, ret, cont, on, iter, phi_state, next_count, waited>>

CondWait(p) == Down(p, "cond_wait", S(p), "cond_waited")

CondWaited(p) ==
    /\ Step(p, "cond_waited", "leave_take")
    /\ count' = [count EXCEPT ![p] = @ - 1]
    /\ UNCHANGED <<schedVars, semVars, phase, ret, cont, on, iter, phi_state,
                   next_count, waited>>

Leave(p) ==
    /\ phase = "condvar"
    /\ Up(p, "leave_take", Successor, "eat") \/ Up(p, "leave_put", Successor, "think")

CondvarStep(p) ==
    \/ TestCondvar(p, "test_self", p, "check_self")
    \/ TestCondvar(p, "test_left", LEFT(p), "test_right")
    \/ TestCondvar(p, "test_right", RIGHT(p), "leave_put")
    \/ Signal(p) \/ Signaled(p) \/ CheckSelf(p) \/ CondWait(p) \/ CondWaited(p)
    \/ Leave(p)

-----------------------------------------------------------------------------
(* initproc: do_wait of each thread in turn; then monitor_init and the      *)
(* threads of the second half, whose process structures are new.            *)

Wait ==
    /\ At(initproc, "wait")
    /\ waited < N
    /\ \/ /\ state[waited] = "ZOMBIE"
          /\ state' = [state EXCEPT ![waited] = "FREE"]
          /\ waited' = waited + 1
          /\ pc' = [pc EXCEPT ![waited] = "free"]
          /\ UNCHANGED wait_state
       \/ /\ state[waited] # "ZOMBIE"
          /\ state' = [state EXCEPT ![initproc] = "SLEEPING"]
          /\ wait_state' = [wait_state EXCEPT ![initproc] = "WT_CHILD"]
          /\ Goto(initproc, "wait_schedule")
          /\ UNCHANGED waited
    /\ UNCHANGED <<schedRest, time_slice, run_list, panic, semVars, phase, ret,
                   cont, on, iter, phiVars>>

WaitSchedule ==
    /\ Step(initproc, "wait_schedule", "wait")
    /\ schedule
    /\ UNCHANGED <<semVars, threadVars>>

SecondHalf ==
    /\ At(initproc, "wait")
    /\ phase = "sema" /\ waited = N
    /\ phase' = "condvar"
    /\ waited' = 0
    /\ state' = [p \in All |-> "RUNNABLE"]
    /\ time_slice' = [p \in All |-> IF p \in Procs THEN MAX_TIME_SLICE ELSE time_slice[p]]
    /\ need_resched' = [p \in All |-> IF p \in Procs THEN FALSE ELSE need_resched[p]]
    /\ run_list' = run_list \o [i \in 1..N |-> i - 1]
    /\ value' = [s \in Sync |-> IF s = MUTEX THEN 1 ELSE 0]
    /\ wait_queue' = [s \in Sync |-> <<>>]
    /\ pc' = [p \in All |-> IF p \in Procs THEN "think" ELSE pc[p]]
    /\ iter' = [p \in Procs |-> 0]
    /\ phi_state' = [p \in Procs |-> "THINKING"]
    /\ next_count' = 0
    /\ count' = [p \in Procs |-> 0]
    /\ UNCHANGED <<wait_state, current, expires, expired, irq, panic,
                   wakeup_flags, ret, cont, on>>

(* check_sync has returned.                                                 *)
Finish ==
    /\ At(initproc, "wait")
    /\ phase = "condvar" /\ waited = N
    /\ phase' = "done"
    /\ UNCHANGED <<schedVars, semVars, pc, ret, cont, on, iter, phiVars, waited>>

-----------------------------------------------------------------------------
Idle ==
    /\ At(idleproc, "idle")
    /\ need_resched[idleproc]
    /\ schedule
    /\ UNCHANGED <<semVars, pc, threadVars>>

TimerIrq ==
    /\ panic = "no"
    /\ run_timer_list_enter
    /\ UNCHANGED <<semVars, pc, threadVars>>

TimerExpire ==
    /\ panic = "no"
    /\ \E p \in expired : run_timer_list_expire(p)
    /\ UNCHANGED <<semVars, pc, threadVars>>

TimerTick ==
    /\ panic = "no"
    /\ run_timer_list_tick
    /\ UNCHANGED <<semVars, pc, threadVars>>

ThreadStep(p) ==
    \/ Think(p) \/ Eat(p) \/ SleepSchedule(p) \/ SleepReturn(p)
    \/ DownSchedule(p) \/ DownResume(p)
    \/ Take(p) \/ Hungry(p) \/ Put(p) \/ Full(p)
    \/ SemaStep(p) \/ CondvarStep(p)
    \/ Quit(p) \/ ExitWakeup(p) \/ ExitSchedule(p)

InitprocStep == Wait \/ WaitSchedule \/ SecondHalf \/ Finish

Next ==
    \/ TimerIrq \/ TimerExpire \/ TimerTick \/ Idle \/ InitprocStep
    \/ \E p \in Procs : ThreadStep(p)

Spec == Init /\ [][Next]_vars

(* As in Proc: kernel code goes on between interrupts, the clock ticks.     *)
(* This is WF of the two steps of an interrupt that has begun and SF of     *)
(* TimerIrq, Idle and the thread steps, written out over what only those    *)
(* steps change, because ENABLED is slow to evaluate on so large actions:   *)
(* a thread that has the CPU can always step until check_sync has returned. *)
Halted == panic # "no"

Fairness ==
    /\ []<>(irq \/ Halted) /\ []<>(~irq \/ Halted)
    /\ []<>(current # idleproc \/ ~need_resched[idleproc] \/ Halted)
    /\ []<>(current # idleproc /\ phase # "done" /\ ~Halted)
       => []<><<current # idleproc /\ ~irq /\ ~irq'>>_vars

FairSpec == Spec /\ Fairness

-----------------------------------------------------------------------------
(* Safety.                                                                  *)

(* A philosopher that has been let through to its meal holds both forks:    *)
(* no neighbour is at its meal, whichever half runs and however ups, timers *)
(* and schedule() interleave.                                               *)
Eating(p) ==
    \/ pc[p] = "eat"
    \/ /\ pc[p] \in {"sleep", "slept"}
       /\ ret[p] = "put"

NeighboursNeverEat == \A p \in Procs : Eating(p) => ~Eating(LEFT(p)) /\ ~Eating(RIGHT(p))

(* A semaphore with units has no waiters, a process is in the queue of the  *)
(* semaphore it waits for exactly while it sleeps, and has its unit when it *)
(* is woken: no unit is lost, and none is given twice.                      *)
Waits(p, s) == wait_state[p] = "WT_KSEM" /\ on[p] = s

SemOk ==
    /\ CheckSyncTypeOK
    /\ \A s \in Sync :
          /\ value[s] > 0 => wait_queue[s] = <<>>
          /\ \A i, j \in DOMAIN wait_queue[s] : wait_queue[s][i] = wait_queue[s][j] => i = j
          /\ ToSet(wait_queue[s]) = {p \in Procs : Waits(p, s)}
          /\ \A p \in Procs : pc[p] = "down_resume" /\ on[p] = s /\ ~Waits(p, s)
                               => wakeup_flags[p] = "WT_KSEM"

(* The monitor has one owner or is free: its unit is in the mutex, or with  *)
(* the one thread inside, which may be on the run queue after up has woken  *)
(* it; and next_count and count tell how many signallers and waiters there  *)
(* are.  No unit stays behind in next or in a cv.sem.                       *)
DownTo(p, m) ==
    /\ pc[p] \in {"down_schedule", "down_resume"}
    /\ ret[p] = m

Granted(p) == pc[p] = "down_resume" /\ ~Waits(p, on[p])

Inside(p) ==
    \/ pc[p] \in {"hungry", "full", "test_self", "test_left", "test_right",
                  "check_self", "signaled", "cond_waited", "leave_take", "leave_put"}
    \/ Granted(p)

Signalling(p) == pc[p] \in {"signal", "signaled"} \/ DownTo(p, "signaled")

Waiting(p) == pc[p] \in {"cond_wait", "cond_waited"} \/ DownTo(p, "cond_waited")

MonitorOk ==
    phase = "condvar" =>
        /\ \A s \in Sync \ {MUTEX} : value[s] = 0
        /\ value[MUTEX] + Cardinality({p \in Procs : Inside(p)}) = 1
        /\ next_count = Cardinality({p \in Procs : Signalling(p)})
        /\ \A p \in Procs : count[p] = IF Waiting(p) THEN 1 ELSE 0

-----------------------------------------------------------------------------
(* Liveness.                                                                *)

(* check_sync comes to its end: neither solution deadlocks, no thread       *)
(* starves the others, and do_wait returns for each of them.                *)
CheckSyncEnds == <>(phase = "done")

(* A hungry philosopher eats.                                               *)
HungryEats == \A p \in Procs : phi_state[p] = "HUNGRY" ~> phi_state[p] = "EATING"

=============================================================================
