-------------------------- MODULE CheckSyncProofs --------------------------
(***************************************************************************)
(* The dining philosophers of check_sync, for any number of philosophers   *)
(* and meals: neighbours never eat together, semaphores neither lose units *)
(* nor give them twice, the monitor has one owner, and no assertion of the *)
(* scheduler, the timers, the wait queues and the semaphores fails.        *)
(***************************************************************************)
EXTENDS CheckSync, QueueProofs

-----------------------------------------------------------------------------
(* The two routines of the scheduler that move processes, as in every proof *)
(* about a module that is composed with Sched.                              *)

(* schedule() keeps the run queue right and gives the CPU to a process that *)
(* can run; no assertion of RR_enqueue fails.                               *)
LEMMA ScheduleLemma ==
    ASSUME SchedTypeOK, QueueOk, state[idleproc] = "RUNNABLE", schedule
    PROVE  /\ SchedTypeOK' /\ wait_state' = wait_state /\ state' = state
           /\ QueueOk'
           /\ panic' = panic
           /\ state[current'] = "RUNNABLE"
<1> DEFINE runs == state[current] = "RUNNABLE"
           q == IF runs THEN Enqueued(run_list, current) ELSE run_list
           Others == Procs \cup {initproc}
           Ready == {p \in All : state[p] = "RUNNABLE"}
<1>1. /\ run_list \in Seq(Others) /\ current \in Others \cup {idleproc}
      /\ NoRepeat(run_list)
      /\ idleproc \notin Others /\ All = Others \cup {idleproc} /\ idleproc \in Ready
      /\ \A p \in Others : p \in ToSet(run_list) <=> p \in Ready /\ p # current
  BY SchedAssumption DEF SchedTypeOK, QueueOk, Queued, NoRepeat, ToSet, All
<1>2. /\ q = (IF current \in Ready /\ current # idleproc
               THEN Append(run_list, current) ELSE run_list)
      /\ runs <=> current \in Ready
  BY <1>1 DEF Enqueued
<1>3. /\ current' = (IF q = <<>> THEN idleproc ELSE Head(q))
      /\ run_list' = (IF q = <<>> THEN q ELSE Tail(q))
      /\ panic' = (IF runs THEN EnqueuePanic(current) ELSE panic)
      /\ need_resched' = [need_resched EXCEPT ![current] = FALSE]
      /\ time_slice' = (IF runs THEN Refilled(time_slice, current) ELSE time_slice)
      /\ UNCHANGED <<state, wait_state, expires, expired, irq>>
  BY DEF schedule
<1>4. /\ current' \in All /\ state[current'] = "RUNNABLE"
      /\ run_list' \in Seq(Others) /\ NoRepeat(run_list')
      /\ \A p \in All \ {idleproc} :
            p \in ToSet(run_list') <=> state[p] = "RUNNABLE" /\ p # current'
      /\ current \in Ready /\ current # idleproc => current \notin ToSet(run_list)
  <2>1. /\ current' \in Others \cup {idleproc} /\ current' \in Ready
        /\ run_list' \in Seq(Others) /\ NoRepeat(run_list')
        /\ \A p \in Others : p \in ToSet(run_list') <=> p \in Ready /\ p # current'
        /\ current \in Ready /\ current # idleproc => current \notin ToSet(run_list)
    <3>1. QueueTurn(Others, idleproc, Ready, current, run_list, q, current', run_list')
      BY <1>1, <1>2, <1>3 DEF QueueTurn
    <3> HIDE DEF q, Ready, Others
    <3> QED BY <3>1, TurnQueue
  <2> QED BY <2>1, <1>1
<1>5. panic' = panic
  BY <1>2, <1>3, <1>4 DEF EnqueuePanic, Queued, ToSet
<1>6. QueueOk'
  BY <1>3, <1>4 DEF QueueOk, Queued, NoRepeat, ToSet
<1>7. SchedTypeOK'
  <2>1. need_resched' \in [All -> BOOLEAN]
    BY <1>3 DEF SchedTypeOK
  <2>2. time_slice' \in [All -> 0..MAX_TIME_SLICE]
    BY <1>3, SchedAssumption DEF SchedTypeOK, Refilled
  <2> QED BY <1>3, <1>4, <1>5, <2>1, <2>2, <1>1 DEF SchedTypeOK
<1> QED BY <1>3, <1>4, <1>5, <1>6, <1>7

(* wakeup_proc of a process that is neither freed nor a zombie makes it     *)
(* runnable, and keeps the run queue and the wait states right.             *)
LEMMA WakeupLemma ==
    ASSUME SchedTypeOK, QueueOk, WaitStateOk, NEW p \in All, p # idleproc,
           state[p] \notin {"FREE", "ZOMBIE"}, wakeup_proc(p), current' = current
    PROVE  /\ run_list' \in Seq(Procs \cup {initproc})
           /\ time_slice' \in [All -> 0..MAX_TIME_SLICE]
           /\ state' = [state EXCEPT ![p] = "RUNNABLE"]
           /\ wait_state' = [wait_state EXCEPT ![p] = "0"]
           /\ QueueOk' /\ WaitStateOk'
           /\ panic' = panic
<1> DEFINE Others == Procs \cup {initproc}
<1>1. /\ run_list \in Seq(Others) /\ p \in Others
      /\ state \in [All -> ProcState] /\ wait_state \in [All -> WaitState]
      /\ time_slice \in [All -> 0..MAX_TIME_SLICE]
      /\ NoRepeat(run_list)
      /\ \A x \in All \ {idleproc} :
            x \in ToSet(run_list) <=> state[x] = "RUNNABLE" /\ x # current
  BY DEF SchedTypeOK, QueueOk, Queued, NoRepeat, ToSet, All
<1>2. CASE state[p] = "RUNNABLE"
  <2>1. UNCHANGED <<state, wait_state, run_list, time_slice, panic>>
    BY <1>2 DEF wakeup_proc
  <2>2. wait_state[p] = "0"
    BY <1>2 DEF WaitStateOk
  <2>3. QueueOk' /\ WaitStateOk'
    BY <2>1 DEF QueueOk, Queued, WaitStateOk
  <2> QED BY <1>1, <1>2, <2>1, <2>2, <2>3
<1>3. CASE state[p] # "RUNNABLE"
  <2>1. /\ state' = [state EXCEPT ![p] = "RUNNABLE"]
        /\ wait_state' = [wait_state EXCEPT ![p] = "0"]
        /\ run_list' = WokenQueue(p)
        /\ time_slice' = (IF p = current THEN time_slice ELSE Refilled(time_slice, p))
        /\ panic' = (IF p = current THEN panic ELSE EnqueuePanic(p))
    BY <1>3 DEF wakeup_proc, Awake
  <2>2. p \notin ToSet(run_list)
    BY <1>1, <1>3
  <2>3. panic' = panic
    BY <2>1, <2>2 DEF EnqueuePanic, Queued, ToSet
  <2>4. /\ run_list' \in Seq(Others) /\ NoRepeat(run_list')
        /\ \A x \in All \ {idleproc} :
              x \in ToSet(run_list') <=> state'[x] = "RUNNABLE" /\ x # current
    <3>1. CASE p = current
      BY <3>1, <2>1, <2>2, <1>1 DEF WokenQueue
    <3>2. CASE p # current
      <4>1. run_list' = Append(run_list, p)
        BY <3>2, <2>1 DEF WokenQueue, Enqueued
      <4>2. /\ run_list' \in Seq(Others) /\ NoRepeat(run_list')
            /\ ToSet(run_list') = ToSet(run_list) \cup {p}
        BY <4>1, <2>2, <1>1, AppendQueue
      <4> QED BY <4>2, <3>2, <2>1, <1>1
    <3> QED BY <3>1, <3>2
  <2>5. QueueOk'
    BY <2>4 DEF QueueOk, Queued, NoRepeat, ToSet
  <2>6. WaitStateOk'
    BY <2>1, <1>1 DEF WaitStateOk
  <2>7. time_slice' \in [All -> 0..MAX_TIME_SLICE]
    BY <2>1, <1>1, SchedAssumption DEF Refilled
  <2> QED BY <2>1, <2>3, <2>4, <2>5, <2>6, <2>7
<1> QED BY <1>2, <1>3

-----------------------------------------------------------------------------
(* The inductive invariant, SyncInv, by parts.                              *)

SchedPart ==
    /\ panic = "no" /\ SchedTypeOK
    /\ QueueOk /\ WaitStateOk

TypePart ==
    /\ SemTypeOK
    /\ phase \in {"sema", "condvar", "done"}
    /\ pc \in [All -> PC] /\ ret \in [All -> PC] /\ cont \in [All -> PC]
    /\ on \in [All -> Sync]
    /\ iter \in [Procs -> 0..TIMES]
    /\ phi_state \in [Procs -> {"THINKING", "HUNGRY", "EATING"}]
    /\ next_count \in Nat
    /\ count \in [Procs -> Nat]
    /\ waited \in 0..N

(* Labels: of a thread off the CPU, since kernel threads are not preempted; *)
(* in do_sleep, in down, in the rest of do_exit; and of one half only.      *)
OffCpu == {"free", "think", "slept", "down_resume", "dead"}
InNap  == {"sleep", "slept"}
InDown == {"down_schedule", "down_resume"}
InExit == {"exit_wakeup", "exit_schedule", "dead"}
InWait == {"wait", "wait_schedule"}
OfSema == {"release", "acquire"}
OfCondvar == {"check_self", "signal", "signaled", "cond_wait", "cond_waited",
              "leave_take"}

(* What down waits for and where it returns to belong together.             *)
DownOk(p) ==
    \/ ret[p] \in {"hungry", "full"} /\ on[p] = MUTEX
    \/ phase = "sema" /\ ret[p] = "eat" /\ on[p] = S(p)
    \/ phase = "condvar" /\ ret[p] = "cond_waited" /\ on[p] = S(p)
    \/ phase = "condvar" /\ ret[p] = "signaled" /\ on[p] = NEXT

(* Where a thread is, and what the scheduler and the timers say of it.      *)
PlaceOk(p) ==
    /\ pc[p] \notin InWait \cup {"idle"}
    /\ state[p] = "FREE" <=> pc[p] = "free"
    /\ state[p] = "ZOMBIE" <=> pc[p] \in InExit
    /\ wait_state[p] \in {"0", "WT_TIMER", "WT_KSEM"}
    /\ wait_state[p] = "WT_TIMER" => pc[p] \in InNap
    /\ wait_state[p] = "WT_KSEM" => pc[p] \in InDown
    /\ p # current => pc[p] \in OffCpu
    /\ pc[p] \in InNap => ret[p] \in {"take", "put"}
    /\ pc[p] \in InDown => DownOk(p)
    /\ pc[p] = "free" <=> p < waited
    /\ expires[p] > 0 \/ p \in expired => pc[p] \in InNap
    /\ phase = "sema" => pc[p] \notin OfCondvar
    /\ phase = "condvar" => pc[p] \notin OfSema
    /\ phase = "done" => pc[p] = "free"
    /\ Signalling(p) => cont[p] \in {"test_right", "leave_put"}

PlacePart ==
    /\ \A p \in Procs : PlaceOk(p)
    /\ pc[idleproc] = "idle" /\ state[idleproc] = "RUNNABLE"
    /\ pc[initproc] \in InWait
    /\ state[initproc] \in {"RUNNABLE", "SLEEPING"}
    /\ wait_state[initproc] \in {"0", "WT_CHILD"}
    /\ \A p \in {idleproc, initproc} : expires[p] = 0 /\ p \notin expired
    /\ state[current] = "SLEEPING" => pc[current] \in {"sleep", "down_schedule", "wait_schedule"}

(* SemOk, and a thread about to call schedule() in down is still asleep.    *)
SemPart ==
    /\ \A s \in Sync :
          /\ value[s] > 0 => wait_queue[s] = <<>>
          /\ NoRepeat(wait_queue[s])
          /\ ToSet(wait_queue[s]) = {p \in Procs : Waits(p, s)}
    /\ \A p \in Procs :
          /\ pc[p] = "down_schedule" => wait_state[p] = "WT_KSEM"
          /\ pc[p] = "down_resume" /\ wait_state[p] # "WT_KSEM"
             => wakeup_flags[p] = "WT_KSEM"

(* What a philosopher's state variable says follows from where it is; in    *)
(* the first half its semaphore has a unit only between the test that let   *)
(* it eat and its down.                                                     *)
Thinks(p) ==
    \/ pc[p] \in {"free", "think", "exit_wakeup", "exit_schedule", "dead",
                  "take", "hungry", "test_left", "test_right", "leave_put",
                  "signal", "signaled"}
    \/ pc[p] \in InNap /\ ret[p] = "take"
    \/ pc[p] \in InDown /\ ret[p] \in {"hungry", "signaled"}

Dines(p) ==
    \/ pc[p] \in {"eat", "put", "full", "cond_waited", "leave_take"}
    \/ pc[p] \in InNap /\ ret[p] = "put"
    \/ pc[p] \in InDown /\ ret[p] = "full"
    \/ pc[p] \in InDown /\ ret[p] \in {"eat", "cond_waited"} /\ wait_state[p] # "WT_KSEM"

Hungers(p) ==
    \/ pc[p] \in {"test_self", "cond_wait"}
    \/ pc[p] \in InDown /\ ret[p] \in {"eat", "cond_waited"} /\ wait_state[p] = "WT_KSEM"

MealOk(p) ==
    /\ Thinks(p) => phi_state[p] = "THINKING"
    /\ Dines(p) => phi_state[p] = "EATING"
    /\ Hungers(p) => phi_state[p] = "HUNGRY"
    /\ pc[p] = "check_self" => phi_state[p] \in {"HUNGRY", "EATING"}
    /\ pc[p] \in OfSema => \/ phi_state[p] = "HUNGRY" /\ value[S(p)] = 0
                           \/ phi_state[p] = "EATING" /\ value[S(p)] = 1
    /\ pc[p] \notin OfSema => value[S(p)] = 0

NoNeighbours ==
    \A p \in Procs : phi_state[p] = "EATING" => /\ phi_state[LEFT(p)] # "EATING"
                                                /\ phi_state[RIGHT(p)] # "EATING"

MealPart == NoNeighbours /\ \A p \in Procs : MealOk(p)

(* MonitorOk without counting the owners.                                   *)
OneOwner ==
    \/ value[MUTEX] = 1 /\ \A p \in Procs : ~Inside(p)
    \/ /\ value[MUTEX] = 0
       /\ \E p \in Procs : Inside(p) /\ \A q \in Procs : Inside(q) => q = p

Signallers == {p \in Procs : Signalling(p)}

CountOk(p) == count[p] = IF Waiting(p) THEN 1 ELSE 0

MonitorPart ==
    phase = "condvar" =>
        /\ value[NEXT] = 0
        /\ OneOwner
        /\ next_count = Cardinality(Signallers)
        /\ \A p \in Procs : CountOk(p)

SyncInv == SchedPart /\ TypePart /\ PlacePart /\ SemPart /\ MealPart /\ MonitorPart

-----------------------------------------------------------------------------
(* The table: LEFT and RIGHT are the two neighbours, and never oneself.     *)

LEMMA Table ==
    ASSUME NEW p \in Procs
    PROVE  /\ LEFT(p) \in Procs /\ RIGHT(p) \in Procs
           /\ LEFT(p) # p /\ RIGHT(p) # p
           /\ \A q \in Procs : LEFT(q) = p <=> q = RIGHT(p)
<1>1. N \in Nat /\ N >= 2 /\ Procs = 0..(N - 1)
  BY CheckSyncAssumption
<1>2. \A q \in 0..(N - 1) : /\ q % N = q
                            /\ (q + N) % N = q
  <2> SUFFICES ASSUME NEW q \in 0..(N - 1) PROVE q % N = q /\ (q + N) % N = q
    OBVIOUS
  <2>1. q \in Nat /\ N \in Nat \ {0} /\ q % N = q
    BY <1>1
  <2>2. (q + N) % N = q % N
    BY <2>1, CellsSame
  <2> QED BY <2>1, <2>2
<1>3. N % N = 0
  BY <1>1, CellsSame
<1>4. \A q \in Procs : /\ LEFT(q) = IF q = 0 THEN N - 1 ELSE q - 1
                       /\ RIGHT(q) = IF q = N - 1 THEN 0 ELSE q + 1
  <2> SUFFICES ASSUME NEW q \in Procs
               PROVE  /\ LEFT(q) = IF q = 0 THEN N - 1 ELSE q - 1
                      /\ RIGHT(q) = IF q = N - 1 THEN 0 ELSE q + 1
    OBVIOUS
  <2>1. CASE q = 0
    <3>1. N - 1 \in 0..(N - 1) /\ 1 \in 0..(N - 1) /\ q - 1 + N = N - 1 /\ q + 1 = 1
      BY <2>1, <1>1
    <3>2. (q - 1 + N) % N = N - 1 /\ (q + 1) % N = 1
      BY <3>1, <1>2
    <3>3. q # N - 1
      BY <2>1, <1>1
    <3> QED BY <3>1, <3>2, <3>3, <2>1 DEF LEFT, RIGHT
  <2>2. CASE q # 0 /\ q # N - 1
    <3>1. q - 1 \in 0..(N - 1) /\ q + 1 \in 0..(N - 1)
      BY <2>2, <1>1
    <3>2. ((q - 1) + N) % N = q - 1 /\ (q + 1) % N = q + 1
      BY <3>1, <1>2
    <3> QED BY <3>2, <2>2 DEF LEFT, RIGHT
  <2>3. CASE q # 0 /\ q = N - 1
    <3>1. q - 1 \in 0..(N - 1) /\ q + 1 = N
      BY <2>3, <1>1
    <3>2. ((q - 1) + N) % N = q - 1 /\ (q + 1) % N = 0
      BY <3>1, <1>2, <1>3
    <3> QED BY <3>2, <2>3 DEF LEFT, RIGHT
  <2> QED BY <2>1, <2>2, <2>3
<1>5. /\ LEFT(p) \in Procs /\ RIGHT(p) \in Procs
      /\ LEFT(p) # p /\ RIGHT(p) # p
  BY <1>1, <1>4
<1>6. ASSUME NEW q \in Procs PROVE LEFT(q) = p <=> q = RIGHT(p)
  <2>1. /\ p \in Int /\ q \in Int /\ N \in Int
        /\ p >= 0 /\ p <= N - 1 /\ q >= 0 /\ q <= N - 1
    BY <1>1
  <2>2. LEFT(q) = p <=> (IF q = 0 THEN p = N - 1 ELSE p = q - 1)
    BY <1>4, <2>1
  <2>3. q = RIGHT(p) <=> (IF p = N - 1 THEN q = 0 ELSE q = p + 1)
    BY <1>4, <2>1
  <2> QED BY <2>1, <2>2, <2>3
<1> QED BY <1>5, <1>6

-----------------------------------------------------------------------------
(* Frames: what the parts of the invariant depend on.                       *)

LEMMA Members ==
    /\ idleproc \in All /\ initproc \in All /\ Procs \subseteq All
    /\ idleproc \notin Procs /\ initproc \notin Procs /\ idleproc # initproc
    /\ \A x \in All : x \in Procs \/ x = idleproc \/ x = initproc
    /\ MUTEX \in Sync /\ NEXT \in Sync /\ MUTEX # NEXT /\ Sems = Sync
    /\ \A p \in Procs : S(p) \in Sync /\ S(p) # MUTEX /\ S(p) # NEXT
    /\ \A p, q \in Procs : S(p) = S(q) => p = q
<1>1. /\ idleproc \in All /\ initproc \in All /\ Procs \subseteq All
      /\ idleproc \notin Procs /\ initproc \notin Procs /\ idleproc # initproc
      /\ \A x \in All : x \in Procs \/ x = idleproc \/ x = initproc
  BY SchedAssumption DEF All
<1>2. N \in Nat /\ Procs = 0..(N - 1) /\ Sems = 0..(N + 1)
  BY CheckSyncAssumption
<1>3. /\ MUTEX \in Sync /\ NEXT \in Sync /\ MUTEX # NEXT /\ Sems = Sync
      /\ \A p \in Procs : S(p) \in Sync /\ S(p) # MUTEX /\ S(p) # NEXT
      /\ \A p, q \in Procs : S(p) = S(q) => p = q
  BY <1>2 DEF MUTEX, NEXT, Sync, S
<1> QED BY <1>1, <1>3

LEMMA SchedStays ==
    ASSUME SchedPart, UNCHANGED schedVars PROVE SchedPart'
<1>1. UNCHANGED <<state, wait_state, need_resched, time_slice, run_list,
                  current, expires, expired, irq, panic>>
  BY DEF schedVars
<1>2. SchedTypeOK'
  BY <1>1 DEF SchedPart, SchedTypeOK
<1>3. QueueOk' /\ WaitStateOk'
  BY <1>1 DEF SchedPart, QueueOk, Queued, WaitStateOk
<1> QED BY <1>1, <1>2, <1>3 DEF SchedPart

(* A thread that moves neither by itself nor for the timers, and that may   *)
(* have been woken.                                                         *)
Stays(q) ==
    /\ pc'[q] = pc[q] /\ ret'[q] = ret[q] /\ on'[q] = on[q] /\ cont'[q] = cont[q]
    /\ expires'[q] > 0 \/ q \in expired' => expires[q] > 0 \/ q \in expired
    /\ \/ state'[q] = state[q] /\ wait_state'[q] = wait_state[q]
       \/ /\ state[q] \notin {"FREE", "ZOMBIE"}
          /\ state'[q] = "RUNNABLE" /\ wait_state'[q] = "0"

LEMMA PlaceFrame ==
    ASSUME NEW q \in Procs, PlaceOk(q), Stays(q), UNCHANGED <<phase, waited>>,
           q # current' => pc[q] \in OffCpu
    PROVE  PlaceOk(q)'
<1>1. DownOk(q)' <=> DownOk(q)
  BY DEF Stays, DownOk
<1>2. Signalling(q)' <=> Signalling(q)
  BY DEF Stays, Signalling, DownTo
<1> QED BY <1>1, <1>2 DEF Stays, PlaceOk

LEMMA MealFrame ==
    ASSUME NEW q \in Procs, MealOk(q),
           pc'[q] = pc[q], ret'[q] = ret[q], phi_state'[q] = phi_state[q],
           value'[S(q)] = value[S(q)],
           wait_state'[q] = "WT_KSEM" <=> wait_state[q] = "WT_KSEM"
    PROVE  MealOk(q)'
<1>1. /\ Thinks(q)' <=> Thinks(q)
      /\ Dines(q)' <=> Dines(q)
      /\ Hungers(q)' <=> Hungers(q)
  BY DEF Thinks, Dines, Hungers
<1> QED BY <1>1 DEF MealOk

LEMMA SemFrame ==
    ASSUME SemPart, UNCHANGED <<value, wait_queue, wakeup_flags, on>>,
           \A q \in Procs : /\ wait_state'[q] = "WT_KSEM" <=> wait_state[q] = "WT_KSEM"
                            /\ \/ pc'[q] \notin InDown
                               \/ pc'[q] = pc[q]
                               \/ pc[q] = "down_schedule" /\ pc'[q] = "down_resume"
    PROVE  SemPart'
<1>1. \A q \in Procs, s \in Sync : Waits(q, s)' <=> Waits(q, s)
  BY DEF Waits
<1>2. ASSUME NEW s \in Sync
      PROVE  /\ value'[s] > 0 => wait_queue'[s] = <<>>
             /\ NoRepeat(wait_queue'[s])
             /\ ToSet(wait_queue'[s]) = {p \in Procs : Waits(p, s)'}
  BY <1>1 DEF SemPart
<1>3. ASSUME NEW q \in Procs
      PROVE  /\ pc'[q] = "down_schedule" => wait_state'[q] = "WT_KSEM"
             /\ pc'[q] = "down_resume" /\ wait_state'[q] # "WT_KSEM"
                => wakeup_flags'[q] = "WT_KSEM"
  BY DEF SemPart, InDown
<1> QED BY <1>2, <1>3 DEF SemPart

(* Who is inside, signals and waits depends on these.                       *)
LEMMA InsideFrame ==
    ASSUME NEW q \in Procs, pc'[q] = pc[q], ret'[q] = ret[q], on'[q] = on[q],
           wait_state'[q] = "WT_KSEM" <=> wait_state[q] = "WT_KSEM"
    PROVE  /\ Inside(q)' <=> Inside(q)
           /\ Signalling(q)' <=> Signalling(q)
           /\ Waiting(q)' <=> Waiting(q)
BY DEF Inside, Granted, Waits, Signalling, Waiting, DownTo

(* next_count counts the signallers when one comes, when one goes and when  *)
(* none does.                                                               *)
LEMMA Counting ==
    ASSUME NEW p \in Procs, \A q \in Procs \ {p} : Signalling(q)' <=> Signalling(q),
           next_count = Cardinality(Signallers),
           next_count' = next_count + (IF Signalling(p)' THEN 1 ELSE 0)
                                    - (IF Signalling(p) THEN 1 ELSE 0)
    PROVE  next_count' = Cardinality(Signallers') /\ next_count' \in Nat
<1>1. IsFiniteSet(Procs)
  BY CheckSyncAssumption, FS_Interval
<1>2. IsFiniteSet(Signallers)
  BY <1>1, FS_Subset DEF Signallers
<1>3. Cardinality(Signallers) \in Nat
  BY <1>2, FS_CardinalityType
<1>4. Signallers' = {q \in Procs : Signalling(q)'}
  BY DEF Signallers
<1>5. Cardinality(Signallers') \in Nat
  BY <1>1, <1>4, FS_Subset, FS_CardinalityType
<1>6. CASE Signalling(p)' /\ ~Signalling(p)
  <2>1. Signallers' = Signallers \cup {p} /\ p \notin Signallers
    BY <1>4, <1>6 DEF Signallers
  <2>2. Cardinality(Signallers \cup {p}) = Cardinality(Signallers) + 1
    BY <2>1, <1>2, FS_AddElement
  <2> QED BY <2>1, <2>2, <1>3, <1>6
<1>7. CASE ~Signalling(p)' /\ Signalling(p)
  <2>1. Signallers' = Signallers \ {p} /\ p \in Signallers
    BY <1>4, <1>7 DEF Signallers
  <2>2. Cardinality(Signallers \ {p}) = Cardinality(Signallers) - 1
    BY <2>1, <1>2, FS_RemoveElement
  <2> QED BY <2>1, <2>2, <1>3, <1>5, <1>7
<1>8. CASE Signalling(p)' <=> Signalling(p)
  <2>1. Signallers' = Signallers
    BY <1>4, <1>8 DEF Signallers
  <2> QED BY <2>1, <1>3, <1>8
<1> QED BY <1>6, <1>7, <1>8

-----------------------------------------------------------------------------
(* The current thread is runnable and waits for nothing, but between a      *)
(* wait_current_set or do_sleep and the schedule() that follows, and in the *)
(* rest of do_exit.                                                         *)
LEMMA RunsHere ==
    ASSUME SchedPart, PlacePart, NEW p \in Procs, current = p,
           pc[p] \notin {"free", "sleep", "down_schedule"} \cup InExit
    PROVE  state[p] = "RUNNABLE" /\ wait_state[p] = "0"
<1>1. p \in All
  BY Members
<1>2. PlaceOk(p)
  BY DEF PlacePart
<1>3. state[p] \notin {"FREE", "ZOMBIE"}
  BY <1>2 DEF PlaceOk
<1>4. state[p] # "SLEEPING"
  BY <1>2 DEF PlacePart, PlaceOk, InWait
<1>5. state[p] = "RUNNABLE"
  BY <1>1, <1>3, <1>4 DEF SchedPart, SchedTypeOK, ProcState
<1> QED BY <1>1, <1>5 DEF SchedPart, WaitStateOk

(* A step of the current thread that neither starts nor ends a wait on a    *)
(* semaphore, and that wakes nobody, keeps the invariant when it keeps what *)
(* the invariant says of the thread itself.                                 *)
KernelStays ==
    /\ pc'[idleproc] = pc[idleproc] /\ state'[idleproc] = state[idleproc]
    /\ pc'[initproc] = pc[initproc]
    /\ state'[initproc] \in {"RUNNABLE", "SLEEPING"}
    /\ wait_state'[initproc] \in {"0", "WT_CHILD"}
    /\ \A x \in {idleproc, initproc} : expires'[x] = 0 /\ x \notin expired'

MonitorMove(p) ==
    phase = "condvar" =>
        /\ Inside(p)' <=> Inside(p)
        /\ CountOk(p)'
        /\ next_count' = next_count + (IF Signalling(p)' THEN 1 ELSE 0)
                                    - (IF Signalling(p) THEN 1 ELSE 0)

LEMMA ThreadMove ==
    ASSUME SyncInv, NEW p \in Procs, current = p, current' = p,
           SchedPart', TypePart', KernelStays,
           UNCHANGED <<phase, waited, value, wait_queue, wakeup_flags, on>>,
           wait_state[p] # "WT_KSEM", wait_state'[p] # "WT_KSEM", pc'[p] \notin InDown,
           \A q \in Procs \ {p} :
              /\ Stays(q) /\ phi_state'[q] = phi_state[q] /\ count'[q] = count[q]
              /\ wait_state'[q] = "WT_KSEM" <=> wait_state[q] = "WT_KSEM",
           PlaceOk(p)', MealOk(p)',
           phi_state'[p] = "EATING" => phi_state[p] = "EATING" \/ CanEat(p),
           state'[p] = "SLEEPING" => pc'[p] = "sleep",
           MonitorMove(p)
    PROVE  SyncInv'
<1>1. SchedPart /\ TypePart /\ PlacePart /\ SemPart /\ MealPart /\ MonitorPart
  BY DEF SyncInv
<1>2. PlacePart'
  <2>1. ASSUME NEW q \in Procs PROVE PlaceOk(q)'
    <3>1. CASE q = p
      BY <3>1
    <3>2. CASE q # p
      <4>1. PlaceOk(q) /\ Stays(q)
        BY <3>2, <1>1 DEF PlacePart
      <4>2. pc[q] \in OffCpu
        BY <4>1, <3>2 DEF PlaceOk
      <4> QED BY <4>1, <4>2, PlaceFrame
    <3> QED BY <3>1, <3>2
  <2>2. state'[current'] = "SLEEPING" => pc'[current'] \in {"sleep", "down_schedule", "wait_schedule"}
    OBVIOUS
  <2> QED BY <2>1, <2>2, <1>1 DEF PlacePart, KernelStays
<1>3. SemPart'
  <2>1. \A q \in Procs : /\ wait_state'[q] = "WT_KSEM" <=> wait_state[q] = "WT_KSEM"
                         /\ pc'[q] \notin InDown \/ pc'[q] = pc[q]
    BY DEF Stays
  <2> QED BY <2>1, <1>1, SemFrame
<1>4. MealPart'
  <2>1. ASSUME NEW q \in Procs PROVE MealOk(q)'
    <3>1. CASE q = p
      BY <3>1
    <3>2. CASE q # p
      <4>1. /\ pc'[q] = pc[q] /\ ret'[q] = ret[q] /\ phi_state'[q] = phi_state[q]
            /\ wait_state'[q] = "WT_KSEM" <=> wait_state[q] = "WT_KSEM"
        BY <3>2 DEF Stays
      <4>2. MealOk(q) /\ value'[S(q)] = value[S(q)]
        BY <1>1 DEF MealPart
      <4> QED BY <4>1, <4>2, MealFrame
    <3> QED BY <3>1, <3>2
  <2>2. NoNeighbours'
    <3>1. NoNeighbours
      BY <1>1 DEF MealPart
    <3>2. \A q \in Procs : phi_state'[q] = "EATING" => phi_state[q] = "EATING" \/ (q = p /\ CanEat(p))
      <4>1. \A q \in Procs \ {p} : phi_state'[q] = phi_state[q]
        OBVIOUS
      <4> QED BY <4>1
    <3>3. ASSUME NEW q \in Procs, phi_state'[q] = "EATING"
          PROVE  phi_state'[LEFT(q)] # "EATING" /\ phi_state'[RIGHT(q)] # "EATING"
      <4>1. /\ LEFT(q) \in Procs /\ RIGHT(q) \in Procs /\ LEFT(q) # q /\ RIGHT(q) # q
            /\ LEFT(q) = p <=> q = RIGHT(p)
            /\ LEFT(p) = q <=> p = RIGHT(q)
        BY Table
      <4> QED BY <4>1, <3>1, <3>2, <3>3 DEF NoNeighbours, CanEat
    <3> QED BY <3>3 DEF NoNeighbours
  <2> QED BY <2>1, <2>2 DEF MealPart
<1>5. MonitorPart'
  <2> SUFFICES ASSUME phase = "condvar"
               PROVE  /\ value'[NEXT] = 0 /\ OneOwner'
                      /\ next_count' = Cardinality(Signallers')
                      /\ \A q \in Procs : CountOk(q)'
    BY DEF MonitorPart
  <2>1. /\ value[NEXT] = 0 /\ OneOwner /\ next_count = Cardinality(Signallers)
        /\ \A q \in Procs : CountOk(q)
    BY <1>1 DEF MonitorPart
  <2>2. \A q \in Procs \ {p} : /\ Inside(q)' <=> Inside(q)
                               /\ Signalling(q)' <=> Signalling(q)
                               /\ Waiting(q)' <=> Waiting(q)
    BY InsideFrame DEF Stays
  <2>3. OneOwner'
    BY <2>1, <2>2 DEF OneOwner, MonitorMove
  <2>4. next_count' = Cardinality(Signallers')
    BY <2>1, <2>2, Counting DEF MonitorMove
  <2>5. \A q \in Procs : CountOk(q)'
    BY <2>1, <2>2 DEF CountOk, MonitorMove
  <2> QED BY <2>1, <2>3, <2>4, <2>5
<1> QED BY <1>2, <1>3, <1>4, <1>5 DEF SyncInv

-----------------------------------------------------------------------------
(* A step between two calls: only the program counter and the philosophers' *)
(* variables move.                                                          *)
Calls == {"free", "idle"} \cup InNap \cup InDown \cup InExit \cup InWait

LEMMA QuietMove ==
    ASSUME SyncInv, NEW p \in Procs, NEW m \in PC \ Calls, pc[p] \notin Calls,
           Step(p, pc[p], m),
           UNCHANGED <<schedVars, semVars, phase, ret, on, waited>>, TypePart',
           \A q \in Procs \ {p} : /\ cont'[q] = cont[q] /\ phi_state'[q] = phi_state[q]
                                  /\ count'[q] = count[q],
           phase = "sema" => m \notin OfCondvar,
           phase = "condvar" => m \notin OfSema,
           m \in {"signal", "signaled"} => cont'[p] \in {"test_right", "leave_put"},
           MealOk(p)', phi_state'[p] = "EATING" => phi_state[p] = "EATING" \/ CanEat(p),
           MonitorMove(p)
    PROVE  SyncInv'
<1>1. SchedPart /\ TypePart /\ PlacePart /\ PlaceOk(p)
  BY DEF SyncInv, PlacePart
<1>2. current = p /\ pc \in [All -> PC] /\ pc' = [pc EXCEPT ![p] = m] /\ p \in All
  BY <1>1, Members DEF Step, At, Goto, TypePart
<1>3. \A x \in All : pc'[x] = IF x = p THEN m ELSE pc[x]
  BY <1>2
<1>4. state[p] = "RUNNABLE" /\ wait_state[p] = "0"
  BY <1>1, <1>2, RunsHere DEF Calls, InNap, InDown
<1>5. /\ UNCHANGED <<state, wait_state, current, expires, expired>>
      /\ UNCHANGED <<value, wait_queue, wakeup_flags>>
  BY DEF schedVars, semVars
<1>6. SchedPart'
  BY <1>1, SchedStays
<1>7. KernelStays
  <2>1. /\ idleproc \in All /\ initproc \in All /\ p # idleproc /\ p # initproc
    BY Members
  <2>2. /\ state[initproc] \in {"RUNNABLE", "SLEEPING"}
        /\ wait_state[initproc] \in {"0", "WT_CHILD"}
        /\ \A x \in {idleproc, initproc} : expires[x] = 0 /\ x \notin expired
    BY <1>1 DEF PlacePart
  <2>3. pc'[idleproc] = pc[idleproc] /\ pc'[initproc] = pc[initproc]
    BY <2>1, <1>3
  <2> QED BY <2>2, <2>3, <1>5 DEF KernelStays
<1>8. ASSUME NEW q \in Procs \ {p}
      PROVE  /\ Stays(q) /\ phi_state'[q] = phi_state[q] /\ count'[q] = count[q]
             /\ wait_state'[q] = "WT_KSEM" <=> wait_state[q] = "WT_KSEM"
  <2>1. q \in All /\ q # p /\ pc'[q] = pc[q]
    BY <1>3, Members
  <2> QED BY <2>1, <1>5 DEF Stays
<1>9. pc[p] \notin InNap /\ pc[p] \notin {"free"} \cup InExit /\ pc'[p] = m
  BY <1>2, <1>3 DEF Calls
<1>10. m \notin InNap /\ m \notin InDown /\ m \notin InExit /\ m \notin InWait /\ m \notin {"free", "idle"}
  BY DEF Calls
<1>11. PlaceOk(p)'
  <2>1. Signalling(p)' => cont'[p] \in {"test_right", "leave_put"}
    BY <1>9, <1>10 DEF Signalling, DownTo, InDown
  <2>2. phase # "done"
    BY <1>1, <1>9 DEF PlaceOk
  <2>3. p # current' => pc'[p] \in OffCpu
    BY <1>2, <1>5
  <2>4. ~(p < waited)
    BY <1>1, <1>9 DEF PlaceOk
  <2>5. ~(expires[p] > 0 \/ p \in expired)
    BY <1>1, <1>9 DEF PlaceOk
  <2>6. /\ UNCHANGED <<phase, waited>>
        /\ phase = "sema" => m \notin OfCondvar
        /\ phase = "condvar" => m \notin OfSema
    OBVIOUS
  <2> QED BY <2>1, <2>2, <2>3, <2>4, <2>5, <2>6, <1>4, <1>5, <1>9, <1>10 DEF PlaceOk
<1> HIDE DEF Calls
<1>12. /\ current' = p /\ UNCHANGED <<phase, waited, on>>
       /\ wait_state[p] # "WT_KSEM" /\ wait_state'[p] # "WT_KSEM" /\ pc'[p] \notin InDown
       /\ state'[p] = "SLEEPING" => pc'[p] = "sleep"
  BY <1>2, <1>4, <1>5, <1>9, <1>10
<1> QED BY <1>2, <1>5, <1>6, <1>7, <1>8, <1>11, <1>12, ThreadMove

(* A hungry thread that does not have the CPU waits for its semaphore.      *)
LEMMA HungryWaits ==
    ASSUME PlacePart, MealPart, NEW q \in Procs, q # current, phi_state[q] = "HUNGRY"
    PROVE  /\ pc[q] = "down_resume" /\ wait_state[q] = "WT_KSEM" /\ on[q] = S(q)
           /\ ret[q] \in {"eat", "cond_waited"}
           /\ phase = "condvar" => Waiting(q)
<1>1. PlaceOk(q) /\ MealOk(q) /\ pc[q] \in OffCpu
  BY DEF PlacePart, MealPart, PlaceOk
<1>2. ~Thinks(q) /\ ~Dines(q)
  BY <1>1 DEF MealOk
<1>3. pc[q] \in {"slept", "down_resume"}
  BY <1>1, <1>2 DEF OffCpu, Thinks
<1>4. pc[q] = "down_resume"
  BY <1>1, <1>2, <1>3 DEF PlaceOk, InNap, Thinks, Dines
<1>5. phase = "condvar" => ret[q] = "cond_waited"
  BY <1>1, <1>2, <1>4 DEF PlaceOk, InDown, DownOk, Thinks, Dines
<1>6. ret[q] \in {"eat", "cond_waited"} /\ on[q] = S(q)
  BY <1>1, <1>2, <1>4 DEF PlaceOk, InDown, DownOk, Thinks, Dines
<1>7. wait_state[q] = "WT_KSEM"
  BY <1>2, <1>4, <1>6 DEF Dines, InDown
<1> QED BY <1>4, <1>5, <1>6, <1>7 DEF Waiting, DownTo

(* Whoever is in the code of one half only is there in that half.           *)
LEMMA WhichHalf ==
    ASSUME TypePart, PlacePart, NEW p \in Procs
    PROVE  /\ pc[p] # "free" => phase \in {"sema", "condvar"}
           /\ pc[p] \in OfCondvar => phase = "condvar"
           /\ pc[p] \in OfSema => phase = "sema"
BY DEF TypePart, PlacePart, PlaceOk, OfCondvar, OfSema

LEMMA DeclareInv ==
    ASSUME SyncInv, NEW p \in Procs, Hungry(p) \/ Full(p) PROVE SyncInv'
<1>1. SchedPart /\ TypePart /\ PlacePart /\ SemPart /\ MealPart /\ MonitorPart /\ MealOk(p)
  BY DEF SyncInv, MealPart
<1> DEFINE Goes(l, s, m) ==
              /\ Step(p, l, m) /\ Become(p, s)
              /\ UNCHANGED <<schedVars, semVars, phase, ret, cont, on, iter, next_count,
                             count, waited>>
<1>2. Goes("hungry", "HUNGRY", "test_self") \/ Goes("full", "THINKING", "test_left")
  BY DEF Hungry, Full, Declare
<1>3. ASSUME NEW l, NEW s, NEW m, Goes(l, s, m),
             \/ l = "hungry" /\ s = "HUNGRY" /\ m = "test_self"
             \/ l = "full" /\ s = "THINKING" /\ m = "test_left"
      PROVE  SyncInv'
  <2>1. /\ m \in PC \ Calls /\ pc[p] = l /\ pc[p] \notin Calls /\ Step(p, pc[p], m)
        /\ m \notin OfSema \cup OfCondvar \cup {"signal", "signaled"}
    BY <1>3 DEF PC, Calls, InNap, InDown, InExit, InWait, OfSema, OfCondvar, Step, At
  <2>2. UNCHANGED <<schedVars, semVars, phase, ret, cont, on, iter, next_count, count, waited>>
    BY <1>3
  <2>3. /\ pc' = [pc EXCEPT ![p] = m] /\ phi_state' = [phi_state EXCEPT ![p] = s]
        /\ p \in All /\ m \in PC /\ s \in {"THINKING", "HUNGRY"}
    BY <1>3, <2>1, Members DEF Become, Step, Goto
  <2>4. pc'[p] = m /\ phi_state'[p] = s
    BY <1>1, <2>3 DEF TypePart
  <2>5. \A q \in Procs \ {p} : phi_state'[q] = phi_state[q]
    BY <1>1, <2>3 DEF TypePart
  <2>6. TypePart'
    BY <1>1, <2>2, <2>3 DEF TypePart, SemTypeOK, semVars
  <2>7. MealOk(p)'
    <3>1. value[S(p)] = 0 /\ value' = value
      BY <1>1, <1>3, <2>1, <2>2 DEF MealOk, OfSema, semVars
    <3> QED BY <3>1, <1>3, <2>4 DEF MealOk, OfSema, Thinks, Dines, Hungers, InNap, InDown
  <2>8. MonitorMove(p)
    <3>1. /\ Inside(p)' /\ Inside(p) /\ ~Signalling(p)' /\ ~Signalling(p)
          /\ ~Waiting(p) /\ ~Waiting(p)'
      BY <1>3, <2>1, <2>4 DEF Inside, Signalling, Waiting, DownTo
    <3>2. phase = "condvar" => CountOk(p)'
      BY <3>1, <2>2, <1>1 DEF MonitorPart, CountOk
    <3>3. phase = "condvar" => next_count \in Int
      BY <1>1 DEF TypePart
    <3> QED BY <3>1, <3>2, <3>3, <2>2 DEF MonitorMove
  <2> HIDE DEF Goes
  <2> QED BY <2>1, <2>2, <2>4, <2>5, <2>6, <2>7, <2>8, <1>3, QuietMove
<1> QED BY <1>2, <1>3

LEMMA SignaledInv ==
    ASSUME SyncInv, NEW p \in Procs, Signaled(p) PROVE SyncInv'
<1> DEFINE m == cont[p]
<1>1. SchedPart /\ TypePart /\ PlacePart /\ MealPart /\ MonitorPart /\ MealOk(p) /\ PlaceOk(p)
  BY DEF SyncInv, MealPart, PlacePart
<1>2. /\ pc[p] = "signaled" /\ Step(p, pc[p], m) /\ pc' = [pc EXCEPT ![p] = m]
      /\ next_count' = next_count - 1
      /\ UNCHANGED <<schedVars, semVars, phase, ret, cont, on, iter, phi_state, count, waited>>
      /\ p \in All
  BY Members DEF Signaled, Step, At, Goto
<1>3. m \in {"test_right", "leave_put"}
  BY <1>1, <1>2 DEF PlaceOk, Signalling
<1>4. /\ m \in PC \ Calls /\ pc[p] \notin Calls /\ pc'[p] = m
      /\ m \notin OfSema \cup OfCondvar \cup {"signal", "signaled"}
  BY <1>1, <1>2, <1>3 DEF TypePart, PC, Calls, InNap, InDown, InExit, InWait, OfSema, OfCondvar
<1>5. phase = "condvar" /\ pc[p] \notin OfSema
  BY <1>1, <1>2, WhichHalf DEF OfCondvar, OfSema
<1>6. \A q \in Procs \ {p} : Signalling(q)' <=> Signalling(q)
  BY <1>1, <1>2, Members DEF TypePart, Signalling, DownTo
<1>7. Signalling(p) /\ ~Signalling(p)' /\ Inside(p) /\ Inside(p)' /\ ~Waiting(p) /\ ~Waiting(p)'
  BY <1>2, <1>3, <1>4 DEF Signalling, Inside, Waiting, DownTo
<1>8. next_count \in Nat /\ next_count = Cardinality(Signallers) /\ CountOk(p)
  BY <1>1, <1>5 DEF TypePart, MonitorPart
<1>9. /\ next_count' = next_count + (IF Signalling(p)' THEN 1 ELSE 0) - (IF Signalling(p) THEN 1 ELSE 0)
      /\ next_count' \in Nat
  BY <1>2, <1>6, <1>7, <1>8, Counting
<1>10. TypePart'
  BY <1>1, <1>2, <1>4, <1>9 DEF TypePart, SemTypeOK, semVars
<1>11. MealOk(p)'
  <2>1. value[S(p)] = 0 /\ value' = value /\ phi_state[p] = "THINKING"
    BY <1>1, <1>2, <1>5 DEF MealOk, semVars, Thinks
  <2> QED BY <2>1, <1>2, <1>3, <1>4 DEF MealOk, OfSema, Thinks, Dines, Hungers, InNap, InDown
<1>12. MonitorMove(p)
  BY <1>2, <1>7, <1>8, <1>9 DEF MonitorMove, CountOk
<1> HIDE DEF m
<1> QED BY <1>2, <1>4, <1>5, <1>10, <1>11, <1>12, QuietMove

LEMMA CondWaitedInv ==
    ASSUME SyncInv, NEW p \in Procs, CondWaited(p) PROVE SyncInv'
<1>1. SchedPart /\ TypePart /\ PlacePart /\ MealPart /\ MonitorPart /\ MealOk(p)
  BY DEF SyncInv, MealPart
<1>2. /\ pc[p] = "cond_waited" /\ Step(p, pc[p], "leave_take")
      /\ pc' = [pc EXCEPT ![p] = "leave_take"] /\ count' = [count EXCEPT ![p] = @ - 1]
      /\ UNCHANGED <<schedVars, semVars, phase, ret, cont, on, iter, phi_state, next_count, waited>>
      /\ p \in All
  BY Members DEF CondWaited, Step, At, Goto
<1>3. /\ "leave_take" \in PC \ Calls /\ pc[p] \notin Calls /\ pc'[p] = "leave_take"
      /\ "leave_take" \notin OfSema \cup {"signal", "signaled"}
  BY <1>1, <1>2 DEF TypePart, PC, Calls, InNap, InDown, InExit, InWait, OfSema
<1>4. phase = "condvar" /\ pc[p] \notin OfSema
  BY <1>1, <1>2, WhichHalf DEF OfCondvar, OfSema
<1>5. /\ ~Signalling(p) /\ ~Signalling(p)' /\ Inside(p) /\ Inside(p)' /\ Waiting(p) /\ ~Waiting(p)'
  BY <1>2, <1>3 DEF Signalling, Inside, Waiting, DownTo
<1>6. count[p] = 1
  BY <1>1, <1>4, <1>5 DEF MonitorPart, CountOk
<1>7. /\ count' \in [Procs -> Nat] /\ count'[p] = 0
      /\ \A q \in Procs \ {p} : count'[q] = count[q]
  BY <1>1, <1>2, <1>6 DEF TypePart
<1>8. TypePart'
  BY <1>1, <1>2, <1>3, <1>7 DEF TypePart, SemTypeOK, semVars
<1>9. MealOk(p)'
  <2>1. value[S(p)] = 0 /\ value' = value /\ phi_state[p] = "EATING"
    BY <1>1, <1>2, <1>4 DEF MealOk, semVars, Dines
  <2> QED BY <2>1, <1>2, <1>3 DEF MealOk, OfSema, Thinks, Dines, Hungers, InNap, InDown
<1>10. MonitorMove(p)
  <2>1. next_count \in Nat
    BY <1>1 DEF TypePart
  <2> QED BY <1>2, <1>5, <1>7, <2>1 DEF MonitorMove, CountOk
<1> QED BY <1>2, <1>3, <1>4, <1>7, <1>8, <1>9, <1>10, QuietMove

(* A test that lets nobody eat, and check_self of a thread that already may.*)
LEMMA PassesInv ==
    ASSUME SyncInv, NEW p \in Procs, NEW l, NEW m, Step(p, l, m),
           UNCHANGED <<schedVars, semVars, phase, ret, cont, on, iter, phi_state,
                       next_count, count, waited>>,
           \/ l = "test_self" /\ m = "release" /\ phase = "sema"
           \/ l = "test_self" /\ m = "check_self" /\ phase = "condvar"
           \/ l = "test_left" /\ m = "test_right"
           \/ l = "test_right" /\ m = "leave_put"
           \/ l = "check_self" /\ m = "leave_take" /\ phi_state[p] # "HUNGRY"
    PROVE  SyncInv'
<1>1. SchedPart /\ TypePart /\ PlacePart /\ MealPart /\ MonitorPart /\ MealOk(p)
  BY DEF SyncInv, MealPart
<1>2. pc[p] = l /\ Step(p, pc[p], m) /\ pc' = [pc EXCEPT ![p] = m] /\ p \in All
  BY Members DEF Step, At, Goto
<1>3. /\ m \in PC \ Calls /\ pc[p] \notin Calls
      /\ m \notin {"signal", "signaled"} /\ pc[p] \notin OfSema
  BY <1>1, <1>2 DEF PC, Calls, InNap, InDown, InExit, InWait, OfSema
<1>4. pc'[p] = m
  BY <1>1, <1>2 DEF TypePart
<1>5. (phase = "sema" => m \notin OfCondvar) /\ (phase = "condvar" => m \notin OfSema)
  BY <1>1, <1>2, WhichHalf DEF OfCondvar, OfSema
<1>6. /\ ~Signalling(p) /\ ~Signalling(p)' /\ ~Waiting(p) /\ ~Waiting(p)'
      /\ Inside(p) /\ (phase = "condvar" => Inside(p)')
  BY <1>2, <1>3, <1>4 DEF Signalling, Inside, Waiting, DownTo
<1>7. TypePart'
  BY <1>1, <1>2, <1>3 DEF TypePart, SemTypeOK, semVars
<1>8. MealOk(p)'
  <2>1. value[S(p)] = 0 /\ value' = value
    BY <1>1, <1>3 DEF MealOk, semVars
  <2>2. \/ l \in {"test_left", "test_right"} /\ phi_state[p] = "THINKING"
        \/ l = "test_self" /\ phi_state[p] = "HUNGRY"
        \/ l = "check_self" /\ phi_state[p] = "EATING"
    BY <1>1, <1>2 DEF MealOk, Thinks, Hungers
  <2> QED BY <2>1, <2>2, <1>2, <1>4 DEF MealOk, OfSema, Thinks, Dines, Hungers, InNap, InDown
<1>9. MonitorMove(p)
  <2>1. next_count \in Nat
    BY <1>1 DEF TypePart
  <2>2. phase = "condvar" => CountOk(p)
    BY <1>1 DEF MonitorPart
  <2> QED BY <1>2, <1>6, <2>1, <2>2 DEF MonitorMove, CountOk
<1> QED BY <1>2, <1>3, <1>5, <1>7, <1>8, <1>9, QuietMove

(* In the monitor a philosopher tests itself: it eats without waiting.      *)
LEMMA TestsSelfInv ==
    ASSUME SyncInv, NEW p \in Procs, Step(p, "test_self", "check_self"), phase = "condvar",
           CanEat(p), Become(p, "EATING"),
           UNCHANGED <<schedVars, semVars, phase, ret, cont, on, iter, next_count, count, waited>>
    PROVE  SyncInv'
<1>1. SchedPart /\ TypePart /\ PlacePart /\ MealPart /\ MonitorPart /\ MealOk(p)
  BY DEF SyncInv, MealPart
<1>2. /\ pc[p] = "test_self" /\ Step(p, pc[p], "check_self")
      /\ pc' = [pc EXCEPT ![p] = "check_self"] /\ p \in All
      /\ phi_state' = [phi_state EXCEPT ![p] = "EATING"]
  BY Members DEF Step, At, Goto, Become
<1>3. /\ "check_self" \in PC \ Calls /\ pc[p] \notin Calls
      /\ "check_self" \notin OfSema \cup {"signal", "signaled"} /\ pc[p] \notin OfSema
  BY <1>2 DEF PC, Calls, InNap, InDown, InExit, InWait, OfSema
<1>4. /\ pc'[p] = "check_self" /\ phi_state'[p] = "EATING"
      /\ \A q \in Procs \ {p} : phi_state'[q] = phi_state[q]
  BY <1>1, <1>2 DEF TypePart
<1>5. /\ ~Signalling(p) /\ ~Signalling(p)' /\ ~Waiting(p) /\ ~Waiting(p)'
      /\ Inside(p) /\ Inside(p)'
  BY <1>2, <1>4 DEF Signalling, Inside, Waiting, DownTo
<1>6. TypePart'
  BY <1>1, <1>2, <1>3 DEF TypePart, SemTypeOK, semVars
<1>7. MealOk(p)'
  <2>1. value[S(p)] = 0 /\ value' = value
    BY <1>1, <1>3 DEF MealOk, semVars
  <2> QED BY <2>1, <1>4 DEF MealOk, OfSema, Thinks, Dines, Hungers, InNap, InDown
<1>8. MonitorMove(p)
  <2>1. next_count \in Nat
    BY <1>1 DEF TypePart
  <2>2. CountOk(p)
    BY <1>1 DEF MonitorPart
  <2> QED BY <1>2, <1>5, <2>1, <2>2 DEF MonitorMove, CountOk
<1> QED BY <1>2, <1>3, <1>4, <1>6, <1>7, <1>8, QuietMove

-----------------------------------------------------------------------------
(* do_sleep: the philosopher goes to sleep on its timer and comes back.     *)
LEMMA StartSleepInv ==
    ASSUME SyncInv, NEW p \in Procs, NEW l, NEW m, At(p, l), StartSleep(p, m), TypePart',
           \/ l = "think" /\ m = "take"
           \/ l = "eat" /\ m = "put"
    PROVE  SyncInv'
<1>1. SchedPart /\ TypePart /\ PlacePart /\ MealPart /\ MonitorPart /\ MealOk(p) /\ PlaceOk(p)
  BY DEF SyncInv, MealPart, PlacePart
<1>2. /\ current = p /\ pc[p] = l /\ pc' = [pc EXCEPT ![p] = "sleep"] /\ p \in All
      /\ ret' = [ret EXCEPT ![p] = m]
      /\ state' = [state EXCEPT ![p] = "SLEEPING"]
      /\ wait_state' = [wait_state EXCEPT ![p] = "WT_TIMER"]
      /\ expires' = [expires EXCEPT ![p] = SLEEP_TIME]
      /\ UNCHANGED <<need_resched, time_slice, run_list, current, expired, irq, panic>>
      /\ UNCHANGED <<value, wait_queue, wakeup_flags, phase, cont, on, waited>>
      /\ UNCHANGED <<phi_state, next_count, count>>
  BY Members DEF At, StartSleep, Goto, add_timer, semVars, phiVars
<1>3. /\ state \in [All -> ProcState] /\ wait_state \in [All -> WaitState]
      /\ expires \in [All -> 0..MaxSleep] /\ pc \in [All -> PC] /\ ret \in [All -> PC]
      /\ SLEEP_TIME \in 1..MaxSleep /\ MaxSleep \in Nat
  BY <1>1, CheckSyncAssumption, SchedAssumption DEF SchedPart, SchedTypeOK, TypePart
<1>4. state[p] = "RUNNABLE" /\ wait_state[p] = "0"
  BY <1>1, <1>2, RunsHere DEF InExit
<1>5. /\ state'[p] = "SLEEPING" /\ wait_state'[p] = "WT_TIMER" /\ expires'[p] = SLEEP_TIME
      /\ pc'[p] = "sleep" /\ ret'[p] = m
      /\ \A q \in All : q # p => /\ state'[q] = state[q] /\ wait_state'[q] = wait_state[q]
                                 /\ expires'[q] = expires[q] /\ pc'[q] = pc[q] /\ ret'[q] = ret[q]
  BY <1>2, <1>3
<1>6. SchedPart'
  <2>1. SchedTypeOK'
    BY <1>1, <1>2, <1>3 DEF SchedPart, SchedTypeOK, ProcState, WaitState
  <2>2. QueueOk'
    BY <1>1, <1>2, <1>3, <1>4, <1>5 DEF SchedPart, QueueOk, Queued
  <2>3. WaitStateOk'
    BY <1>1, <1>5 DEF SchedPart, WaitStateOk
  <2> QED BY <2>1, <2>2, <2>3, <1>1, <1>2 DEF SchedPart
<1>7. KernelStays
  <2>1. idleproc \in All /\ initproc \in All /\ p # idleproc /\ p # initproc
    BY Members
  <2>2. /\ state[initproc] \in {"RUNNABLE", "SLEEPING"}
        /\ wait_state[initproc] \in {"0", "WT_CHILD"}
        /\ \A x \in {idleproc, initproc} : expires[x] = 0 /\ x \notin expired
    BY <1>1 DEF PlacePart
  <2> QED BY <2>1, <2>2, <1>2, <1>5 DEF KernelStays
<1>8. ASSUME NEW q \in Procs \ {p}
      PROVE  /\ Stays(q) /\ phi_state'[q] = phi_state[q] /\ count'[q] = count[q]
             /\ wait_state'[q] = "WT_KSEM" <=> wait_state[q] = "WT_KSEM"
  <2>1. q \in All /\ q # p
    BY Members
  <2> QED BY <2>1, <1>2, <1>5 DEF Stays
<1>9. PlaceOk(p)'
  <2>1. /\ ~(p < waited) /\ phase # "done"
    BY <1>1, <1>2 DEF PlaceOk
  <2>2. /\ pc'[p] = "sleep" /\ ret'[p] \in {"take", "put"}
        /\ ~Signalling(p)' /\ p = current' /\ UNCHANGED <<phase, waited>>
    BY <1>2, <1>5 DEF Signalling, DownTo
  <2> QED BY <2>1, <2>2, <1>5 DEF PlaceOk, InNap, InDown, InExit, InWait, OfSema, OfCondvar
<1>10. MealOk(p)'
  <2>1. /\ value'[S(p)] = 0
        /\ \/ m = "take" /\ phi_state'[p] = "THINKING"
           \/ m = "put" /\ phi_state'[p] = "EATING"
    BY <1>1, <1>2 DEF MealOk, OfSema, Thinks, Dines
  <2> QED BY <2>1, <1>5 DEF MealOk, OfSema, Thinks, Dines, Hungers, InNap, InDown, InExit
<1>11. MonitorMove(p)
  <2>1. /\ ~Inside(p) /\ ~Inside(p)' /\ ~Signalling(p) /\ ~Signalling(p)'
        /\ ~Waiting(p) /\ ~Waiting(p)'
    BY <1>2, <1>5 DEF Inside, Granted, Signalling, Waiting, DownTo
  <2>2. next_count \in Nat /\ (phase = "condvar" => CountOk(p))
    BY <1>1 DEF TypePart, MonitorPart
  <2> QED BY <2>1, <2>2, <1>2 DEF MonitorMove, CountOk
<1>12. /\ wait_state[p] # "WT_KSEM" /\ wait_state'[p] # "WT_KSEM" /\ pc'[p] \notin InDown
       /\ current' = p /\ UNCHANGED <<phase, waited, value, wait_queue, wakeup_flags, on>>
       /\ phi_state'[p] = "EATING" => phi_state[p] = "EATING"
       /\ state'[p] = "SLEEPING" => pc'[p] = "sleep"
  BY <1>2, <1>4, <1>5 DEF InDown
<1> QED BY <1>2, <1>6, <1>7, <1>8, <1>9, <1>10, <1>11, <1>12, ThreadMove

LEMMA NapsInv ==
    ASSUME SyncInv, NEW p \in Procs, Think(p) \/ Eat(p) PROVE SyncInv'
<1>1. TypePart /\ p \in All
  BY Members DEF SyncInv
<1>2. CASE Think(p)
  <2>1. /\ At(p, "think") /\ StartSleep(p, "take")
        /\ iter[p] < TIMES /\ iter' = [iter EXCEPT ![p] = @ + 1]
    BY <1>2 DEF Think
  <2>2. TypePart'
    <3>1. iter' \in [Procs -> 0..TIMES]
      BY <2>1, <1>1, CheckSyncAssumption DEF TypePart
    <3> QED BY <3>1, <2>1, <1>1
            DEF StartSleep, Goto, TypePart, SemTypeOK, semVars, phiVars, PC
  <2> QED BY <2>1, <2>2, StartSleepInv
<1>3. CASE Eat(p)
  <2>1. At(p, "eat") /\ StartSleep(p, "put") /\ iter' = iter
    BY <1>3 DEF Eat
  <2>2. TypePart'
    BY <2>1, <1>1 DEF StartSleep, Goto, TypePart, SemTypeOK, semVars, phiVars, PC
  <2> QED BY <2>1, <2>2, StartSleepInv
<1> QED BY <1>2, <1>3

LEMMA SleepReturnInv ==
    ASSUME SyncInv, NEW p \in Procs, SleepReturn(p) PROVE SyncInv'
<1> DEFINE m == ret[p]
<1>1. SchedPart /\ TypePart /\ PlacePart /\ MealPart /\ MonitorPart /\ MealOk(p) /\ PlaceOk(p)
  BY DEF SyncInv, MealPart, PlacePart
<1>2. /\ current = p /\ pc[p] = "slept" /\ pc' = [pc EXCEPT ![p] = m] /\ p \in All
      /\ expires' = [expires EXCEPT ![p] = 0] /\ expired' = expired \ {p}
      /\ UNCHANGED <<state, wait_state, need_resched, time_slice, run_list, current, irq, panic>>
      /\ UNCHANGED <<value, wait_queue, wakeup_flags, phase, ret, cont, on, iter, waited>>
      /\ UNCHANGED <<phi_state, next_count, count>>
  BY Members DEF SleepReturn, Step, At, Goto, del_timer, semVars, threadVars, phiVars
<1>3. /\ expires \in [All -> 0..MaxSleep] /\ pc \in [All -> PC] /\ MaxSleep \in Nat
      /\ expired \subseteq All
  BY <1>1, SchedAssumption DEF SchedPart, SchedTypeOK, TypePart
<1>4. /\ state[p] = "RUNNABLE" /\ wait_state[p] = "0" /\ m \in {"take", "put"}
  BY <1>1, <1>2, RunsHere DEF InExit, PlaceOk, InNap
<1>5. /\ expires'[p] = 0 /\ p \notin expired' /\ pc'[p] = m
      /\ \A q \in All : q # p => /\ expires'[q] = expires[q] /\ pc'[q] = pc[q]
                                 /\ q \in expired' <=> q \in expired
  BY <1>2, <1>3
<1>6. SchedPart'
  <2>1. SchedTypeOK'
    BY <1>1, <1>2, <1>3 DEF SchedPart, SchedTypeOK
  <2>2. QueueOk' /\ WaitStateOk'
    BY <1>1, <1>2 DEF SchedPart, QueueOk, Queued, WaitStateOk
  <2> QED BY <2>1, <2>2, <1>1, <1>2 DEF SchedPart
<1>7. TypePart'
  BY <1>1, <1>2, <1>3, <1>4 DEF TypePart, SemTypeOK, PC
<1>8. KernelStays
  <2>1. idleproc \in All /\ initproc \in All /\ p # idleproc /\ p # initproc
    BY Members
  <2>2. /\ state[initproc] \in {"RUNNABLE", "SLEEPING"}
        /\ wait_state[initproc] \in {"0", "WT_CHILD"}
        /\ \A x \in {idleproc, initproc} : expires[x] = 0 /\ x \notin expired
    BY <1>1 DEF PlacePart
  <2> QED BY <2>1, <2>2, <1>2, <1>5 DEF KernelStays
<1>9. ASSUME NEW q \in Procs \ {p}
      PROVE  /\ Stays(q) /\ phi_state'[q] = phi_state[q] /\ count'[q] = count[q]
             /\ wait_state'[q] = "WT_KSEM" <=> wait_state[q] = "WT_KSEM"
  <2>1. q \in All /\ q # p
    BY Members
  <2> QED BY <2>1, <1>2, <1>5 DEF Stays
<1>10. PlaceOk(p)'
  <2>1. /\ ~(p < waited) /\ phase # "done"
    BY <1>1, <1>2 DEF PlaceOk
  <2>2. ~Signalling(p)' /\ p = current' /\ UNCHANGED <<phase, waited>>
    BY <1>2, <1>4, <1>5 DEF Signalling, DownTo
  <2> QED BY <2>1, <2>2, <1>2, <1>4, <1>5 DEF PlaceOk, InNap, InDown, InExit, InWait, OfSema, OfCondvar
<1>11. MealOk(p)'
  <2>1. /\ value'[S(p)] = 0
        /\ \/ m = "take" /\ phi_state'[p] = "THINKING"
           \/ m = "put" /\ phi_state'[p] = "EATING"
    BY <1>1, <1>2, <1>4 DEF MealOk, OfSema, Thinks, Dines, InNap
  <2> QED BY <2>1, <1>5 DEF MealOk, OfSema, Thinks, Dines, Hungers, InNap, InDown, InExit
<1>12. MonitorMove(p)
  <2>1. /\ ~Inside(p) /\ ~Inside(p)' /\ ~Signalling(p) /\ ~Signalling(p)'
        /\ ~Waiting(p) /\ ~Waiting(p)'
    BY <1>2, <1>4, <1>5 DEF Inside, Granted, Signalling, Waiting, DownTo
  <2>2. next_count \in Nat /\ (phase = "condvar" => CountOk(p))
    BY <1>1 DEF TypePart, MonitorPart
  <2> QED BY <2>1, <2>2, <1>2 DEF MonitorMove, CountOk
<1>13. /\ wait_state[p] # "WT_KSEM" /\ wait_state'[p] # "WT_KSEM" /\ pc'[p] \notin InDown
       /\ current' = p /\ UNCHANGED <<phase, waited, value, wait_queue, wakeup_flags, on>>
       /\ phi_state'[p] = "EATING" => phi_state[p] = "EATING"
       /\ state'[p] # "SLEEPING"
  BY <1>2, <1>4, <1>5 DEF InDown
<1> QED BY <1>2, <1>6, <1>7, <1>8, <1>9, <1>10, <1>11, <1>12, <1>13, ThreadMove

-----------------------------------------------------------------------------
(* do_exit: the philosopher becomes a zombie, then wakes initproc if it     *)
(* waits for a child.                                                       *)
LEMMA ExitInv ==
    ASSUME SyncInv, NEW p \in Procs, Quit(p) \/ ExitWakeup(p) PROVE SyncInv'
<1> DEFINE l == IF pc[p] = "think" THEN "think" ELSE "exit_wakeup"
           m == IF pc[p] = "think" THEN "exit_wakeup" ELSE "exit_schedule"
<1>1. SchedPart /\ TypePart /\ PlacePart /\ MealPart /\ MonitorPart /\ MealOk(p) /\ PlaceOk(p)
  BY DEF SyncInv, MealPart, PlacePart
<1>2. /\ idleproc \in All /\ initproc \in All /\ idleproc # initproc
      /\ p \in All /\ p # idleproc /\ p # initproc
  BY Members
<1>3. /\ current = p /\ pc[p] = l /\ pc' = [pc EXCEPT ![p] = m]
      /\ UNCHANGED <<need_resched, current, expires, expired, irq>>
      /\ UNCHANGED <<value, wait_queue, wakeup_flags, phase, ret, cont, on, iter, waited>>
      /\ UNCHANGED <<phi_state, next_count, count>>
  BY DEF Quit, ExitWakeup, Step, At, Goto, schedRest, semVars, threadVars, phiVars
<1>4. /\ state \in [All -> ProcState] /\ wait_state \in [All -> WaitState] /\ pc \in [All -> PC]
      /\ SchedTypeOK /\ QueueOk /\ WaitStateOk /\ panic = "no"
  BY <1>1 DEF SchedPart, SchedTypeOK, TypePart
<1>5. /\ pc'[p] = m /\ \A q \in All : q # p => pc'[q] = pc[q]
  BY <1>3, <1>4, <1>2
<1>6. /\ SchedPart'
      /\ state'[p] = "ZOMBIE" /\ wait_state'[p] = "0" /\ wait_state[p] = "0"
      /\ \A q \in All \ {p, initproc} : state'[q] = state[q] /\ wait_state'[q] = wait_state[q]
      /\ state'[initproc] \in {"RUNNABLE", "SLEEPING"}
      /\ wait_state'[initproc] \in {"0", "WT_CHILD"}
  <2>1. state[initproc] \in {"RUNNABLE", "SLEEPING"} /\ wait_state[initproc] \in {"0", "WT_CHILD"}
    BY <1>1 DEF PlacePart
  <2>2. CASE Quit(p)
    <3>1. /\ pc[p] = "think" /\ state' = [state EXCEPT ![p] = "ZOMBIE"]
          /\ UNCHANGED <<wait_state, run_list, time_slice, panic>>
      BY <2>2 DEF Quit, Step, At
    <3>2. state[p] = "RUNNABLE" /\ wait_state[p] = "0"
      BY <3>1, <1>1, <1>3, RunsHere DEF InExit
    <3>3. state'[p] = "ZOMBIE" /\ \A q \in All : q # p => state'[q] = state[q]
      BY <3>1, <1>2, <1>4
    <3>4. SchedTypeOK'
      BY <3>1, <1>3, <1>4 DEF SchedTypeOK, ProcState
    <3>5. QueueOk'
      BY <3>1, <3>2, <3>3, <1>3, <1>4 DEF QueueOk, Queued
    <3>6. WaitStateOk'
      BY <3>1, <3>2, <3>3, <1>4 DEF WaitStateOk
    <3> QED BY <3>1, <3>2, <3>3, <3>4, <3>5, <3>6, <2>1, <1>2, <1>4 DEF SchedPart
  <2>3. CASE ExitWakeup(p)
    <3>1. state[p] = "ZOMBIE"
      BY <2>3, <1>1 DEF ExitWakeup, Step, At, PlaceOk, InExit
    <3>2. wait_state[p] = "0"
      BY <3>1, <1>2, <1>4 DEF WaitStateOk
    <3>3. CASE wait_state[initproc] = "WT_CHILD"
      <4>1. wakeup_proc(initproc)
        BY <2>3, <3>3 DEF ExitWakeup
      <4>2. /\ run_list' \in Seq(Procs \cup {initproc})
            /\ time_slice' \in [All -> 0..MAX_TIME_SLICE]
            /\ state' = [state EXCEPT ![initproc] = "RUNNABLE"]
            /\ wait_state' = [wait_state EXCEPT ![initproc] = "0"]
            /\ QueueOk' /\ WaitStateOk' /\ panic' = panic
        BY <4>1, <2>1, <1>2, <1>3, <1>4, WakeupLemma
      <4>3. SchedTypeOK'
        BY <4>2, <1>3, <1>4 DEF SchedTypeOK, ProcState, WaitState
      <4> QED BY <4>2, <4>3, <3>1, <3>2, <1>2, <1>4 DEF SchedPart
    <3>4. CASE wait_state[initproc] # "WT_CHILD"
      <4>1. UNCHANGED <<state, wait_state, time_slice, run_list, panic>>
        BY <2>3, <3>4 DEF ExitWakeup
      <4>2. UNCHANGED schedVars
        BY <4>1, <1>3 DEF schedVars
      <4> QED BY <4>1, <4>2, <3>1, <3>2, <2>1, <1>1, SchedStays
    <3> QED BY <3>3, <3>4
  <2> QED BY <2>2, <2>3
<1>7. TypePart'
  BY <1>1, <1>3, <1>4 DEF TypePart, SemTypeOK, PC
<1>8. KernelStays
  <2>1. \A x \in {idleproc, initproc} : expires[x] = 0 /\ x \notin expired
    BY <1>1 DEF PlacePart
  <2> QED BY <2>1, <1>2, <1>3, <1>5, <1>6 DEF KernelStays
<1>9. ASSUME NEW q \in Procs \ {p}
      PROVE  /\ Stays(q) /\ phi_state'[q] = phi_state[q] /\ count'[q] = count[q]
             /\ wait_state'[q] = "WT_KSEM" <=> wait_state[q] = "WT_KSEM"
  <2>1. q \in All \ {p, initproc}
    BY Members
  <2> QED BY <2>1, <1>3, <1>5, <1>6 DEF Stays
<1>10. PlaceOk(p)'
  <2>1. /\ ~(p < waited) /\ phase # "done" /\ ~(expires[p] > 0 \/ p \in expired)
    BY <1>1, <1>3 DEF PlaceOk, InNap
  <2>2. ~Signalling(p)' /\ p = current' /\ UNCHANGED <<phase, waited>>
    BY <1>3, <1>5 DEF Signalling, DownTo
  <2> QED BY <2>1, <2>2, <1>3, <1>5, <1>6 DEF PlaceOk, InNap, InDown, InExit, InWait, OfSema, OfCondvar
<1>11. MealOk(p)'
  <2>1. value'[S(p)] = 0 /\ phi_state'[p] = "THINKING"
    BY <1>1, <1>3 DEF MealOk, OfSema, Thinks
  <2> QED BY <2>1, <1>5 DEF MealOk, OfSema, Thinks, Dines, Hungers, InNap, InDown
<1>12. MonitorMove(p)
  <2>1. /\ ~Inside(p) /\ ~Inside(p)' /\ ~Signalling(p) /\ ~Signalling(p)'
        /\ ~Waiting(p) /\ ~Waiting(p)'
    BY <1>3, <1>5 DEF Inside, Granted, Signalling, Waiting, DownTo
  <2>2. next_count \in Nat /\ (phase = "condvar" => CountOk(p))
    BY <1>1 DEF TypePart, MonitorPart
  <2> QED BY <2>1, <2>2, <1>3 DEF MonitorMove, CountOk
<1>13. /\ wait_state[p] # "WT_KSEM" /\ wait_state'[p] # "WT_KSEM" /\ pc'[p] \notin InDown
       /\ current' = p /\ UNCHANGED <<phase, waited, value, wait_queue, wakeup_flags, on>>
       /\ phi_state'[p] = "EATING" => phi_state[p] = "EATING"
       /\ state'[p] # "SLEEPING"
  BY <1>3, <1>5, <1>6 DEF InDown
<1> HIDE DEF m
<1> QED BY <1>3, <1>6, <1>7, <1>8, <1>9, <1>10, <1>11, <1>12, <1>13, ThreadMove

-----------------------------------------------------------------------------
(* down returns: its wait_t is no longer linked, and up has set its flags.  *)
LEMMA DownResumeInv ==
    ASSUME SyncInv, NEW p \in Procs, DownResume(p) PROVE SyncInv'
<1> DEFINE m == ret[p]
           s == on[p]
<1>1. /\ SchedPart /\ TypePart /\ PlacePart /\ SemPart /\ MealPart /\ MonitorPart
      /\ MealOk(p) /\ PlaceOk(p)
  BY DEF SyncInv, MealPart, PlacePart
<1>2. /\ current = p /\ pc[p] = "down_resume" /\ pc' = [pc EXCEPT ![p] = m] /\ p \in All
      /\ down_returns(p, s)
      /\ UNCHANGED <<phase, ret, cont, on, iter, phi_state, next_count, count, waited>>
  BY Members DEF DownResume, Step, At, Goto, threadVars, phiVars
<1>3. state[p] = "RUNNABLE" /\ wait_state[p] = "0"
  BY <1>1, <1>2, RunsHere DEF InExit
<1>4. DownOk(p) /\ m \in {"hungry", "full", "eat", "cond_waited", "signaled"} /\ s \in Sync
  BY <1>1, <1>2 DEF PlaceOk, InDown, DownOk, TypePart
<1>5. UNCHANGED <<schedVars, semVars>>
  <2>1. wakeup_flags[p] = "WT_KSEM"
    BY <1>1, <1>2, <1>3 DEF SemPart
  <2>2. p \notin ToSet(wait_queue[s])
    BY <1>1, <1>3, <1>4 DEF SemPart, Waits
  <2>3. wait_queue' = wait_queue
    BY <1>1, <1>2, <1>4, <2>2, Members DEF down_returns, wait_current_del, TypePart, SemTypeOK
  <2> QED BY <1>2, <2>1, <2>3 DEF down_returns, schedRest, schedVars, semVars
<1>6. /\ UNCHANGED <<state, wait_state, current, expires, expired, value, wait_queue, wakeup_flags>>
      /\ SchedPart'
  BY <1>1, <1>5, SchedStays DEF schedVars, semVars
<1>7. pc \in [All -> PC] /\ pc'[p] = m /\ \A q \in All : q # p => pc'[q] = pc[q]
  BY <1>1, <1>2 DEF TypePart
<1>8. TypePart'
  BY <1>1, <1>2, <1>4, <1>6 DEF TypePart, SemTypeOK, PC
<1>9. KernelStays
  <2>1. idleproc \in All /\ initproc \in All /\ p # idleproc /\ p # initproc
    BY Members
  <2>2. /\ state[initproc] \in {"RUNNABLE", "SLEEPING"}
        /\ wait_state[initproc] \in {"0", "WT_CHILD"}
        /\ \A x \in {idleproc, initproc} : expires[x] = 0 /\ x \notin expired
    BY <1>1 DEF PlacePart
  <2> QED BY <2>1, <2>2, <1>6, <1>7 DEF KernelStays
<1>10. ASSUME NEW q \in Procs \ {p}
       PROVE  /\ Stays(q) /\ phi_state'[q] = phi_state[q] /\ count'[q] = count[q]
              /\ wait_state'[q] = "WT_KSEM" <=> wait_state[q] = "WT_KSEM"
  <2>1. q \in All /\ q # p
    BY Members
  <2> QED BY <2>1, <1>2, <1>6, <1>7 DEF Stays
<1>11. PlaceOk(p)'
  <2>1. /\ ~(p < waited) /\ phase # "done" /\ ~(expires[p] > 0 \/ p \in expired)
    BY <1>1, <1>2 DEF PlaceOk, InNap
  <2>2. Signalling(p)' => cont'[p] \in {"test_right", "leave_put"}
    BY <1>1, <1>2, <1>4, <1>7 DEF PlaceOk, Signalling, DownTo
  <2>3. /\ phase = "sema" => m \notin OfCondvar
        /\ phase = "condvar" => m \notin OfSema
    BY <1>4 DEF DownOk, OfCondvar, OfSema
  <2>4. p = current' /\ UNCHANGED <<phase, waited>> /\ state'[p] = "RUNNABLE" /\ wait_state'[p] = "0"
    BY <1>2, <1>3, <1>6
  <2>5. m \notin InNap \cup InDown \cup InExit \cup InWait \cup {"free", "idle"}
    BY <1>4 DEF InNap, InDown, InExit, InWait
  <2> QED BY <2>1, <2>2, <2>3, <2>4, <2>5, <1>6, <1>7 DEF PlaceOk
<1>12. MealOk(p)'
  <2>1. value'[S(p)] = 0
    BY <1>1, <1>2, <1>6 DEF MealOk, OfSema
  <2>2. \/ m \in {"hungry", "signaled"} /\ phi_state'[p] = "THINKING"
        \/ m \in {"full", "eat", "cond_waited"} /\ phi_state'[p] = "EATING"
    BY <1>1, <1>2, <1>3, <1>4 DEF MealOk, Thinks, Dines, InDown
  <2> QED BY <2>1, <2>2, <1>7 DEF MealOk, OfSema, Thinks, Dines, Hungers, InNap, InDown
<1>13. MonitorMove(p)
  <2>1. ASSUME phase = "condvar"
        PROVE  /\ Inside(p) /\ Inside(p)' /\ (Signalling(p) <=> Signalling(p)')
               /\ (Waiting(p) <=> Waiting(p)')
    <3>1. m \in {"hungry", "full", "cond_waited", "signaled"}
      BY <2>1, <1>4 DEF DownOk
    <3> QED BY <3>1, <1>2, <1>3, <1>7 DEF Inside, Granted, Waits, Signalling, Waiting, DownTo
  <2>2. next_count \in Nat /\ (phase = "condvar" => CountOk(p))
    BY <1>1 DEF TypePart, MonitorPart
  <2> QED BY <2>1, <2>2, <1>2 DEF MonitorMove, CountOk
<1>14. /\ wait_state[p] # "WT_KSEM" /\ wait_state'[p] # "WT_KSEM" /\ pc'[p] \notin InDown
       /\ current' = p /\ UNCHANGED <<phase, waited, value, wait_queue, wakeup_flags, on>>
       /\ phi_state'[p] = "EATING" => phi_state[p] = "EATING"
       /\ state'[p] # "SLEEPING"
  BY <1>2, <1>3, <1>4, <1>6, <1>7 DEF InDown
<1> QED BY <1>2, <1>6, <1>8, <1>9, <1>10, <1>11, <1>12, <1>13, <1>14, ThreadMove

-----------------------------------------------------------------------------
(* schedule(), called by a thread that goes to sleep, that waits in down,   *)
(* that has exited, by initproc in do_wait and by idleproc.                 *)
LEMMA ScheduleInv ==
    ASSUME SyncInv, schedule, UNCHANGED <<semVars, threadVars>>,
           NEW l, NEW m, pc[current] = l, pc' = [pc EXCEPT ![current] = m],
           \/ /\ current \in Procs
              /\ \/ l = "sleep" /\ m = "slept"
                 \/ l = "down_schedule" /\ m = "down_resume"
                 \/ l = "exit_schedule" /\ m = "dead"
           \/ current = initproc /\ l = "wait_schedule" /\ m = "wait"
           \/ current = idleproc /\ l = "idle" /\ m = "idle"
    PROVE  SyncInv'
<1>1. SchedPart /\ TypePart /\ PlacePart /\ SemPart /\ MealPart /\ MonitorPart
  BY DEF SyncInv
<1>2. /\ UNCHANGED <<value, wait_queue, wakeup_flags, phase, ret, cont, on, iter, waited>>
      /\ UNCHANGED <<phi_state, next_count, count>>
      /\ UNCHANGED <<state, wait_state, expires, expired>>
  BY DEF semVars, threadVars, phiVars, schedule
<1>3. SchedPart' /\ state'[current'] = "RUNNABLE"
  <2>1. SchedTypeOK /\ QueueOk /\ state[idleproc] = "RUNNABLE"
    BY <1>1 DEF SchedPart, PlacePart
  <2>2. SchedTypeOK' /\ QueueOk' /\ panic' = panic /\ state[current'] = "RUNNABLE"
    BY <2>1, ScheduleLemma
  <2>3. WaitStateOk'
    BY <1>1, <1>2 DEF SchedPart, WaitStateOk
  <2> QED BY <2>2, <2>3, <1>1, <1>2 DEF SchedPart
<1>4. /\ current \in All /\ pc \in [All -> PC] /\ pc'[current] = m
      /\ \A x \in All : x # current => pc'[x] = pc[x]
  BY <1>1, Members DEF TypePart
<1>5. TypePart'
  <2>1. m \in PC
    BY DEF PC
  <2> QED BY <2>1, <1>1, <1>2 DEF TypePart, SemTypeOK
<1>6. ASSUME NEW q \in Procs PROVE PlaceOk(q)'
  <2>1. PlaceOk(q) /\ q \in All
    BY <1>1, Members DEF PlacePart
  <2>2. CASE q # current
    <3>1. Stays(q) /\ UNCHANGED <<phase, waited>>
      BY <2>1, <2>2, <1>2, <1>4 DEF Stays
    <3>2. pc[q] \in OffCpu
      BY <2>1, <2>2 DEF PlaceOk
    <3> QED BY <2>1, <3>1, <3>2, PlaceFrame
  <2>3. CASE q = current
    <3>1. /\ pc[q] = l /\ pc'[q] = m
          /\ \/ l = "sleep" /\ m = "slept"
             \/ l = "down_schedule" /\ m = "down_resume"
             \/ l = "exit_schedule" /\ m = "dead"
      BY <2>3, <1>4, Members
    <3>2. DownOk(q)' <=> DownOk(q)
      BY <1>2 DEF DownOk
    <3>3. Signalling(q)' <=> Signalling(q)
      BY <3>1, <1>2 DEF Signalling, DownTo
    <3>4. pc'[q] \in OffCpu
      BY <3>1 DEF OffCpu
    <3> QED BY <3>1, <3>2, <3>3, <3>4, <2>1, <1>2
            DEF PlaceOk, InNap, InDown, InExit, InWait, OfSema, OfCondvar
  <2> QED BY <2>2, <2>3
<1>7. PlacePart'
  <2>1. /\ pc[idleproc] = "idle" /\ state[idleproc] = "RUNNABLE"
        /\ pc[initproc] \in InWait
        /\ state[initproc] \in {"RUNNABLE", "SLEEPING"}
        /\ wait_state[initproc] \in {"0", "WT_CHILD"}
        /\ \A p \in {idleproc, initproc} : expires[p] = 0 /\ p \notin expired
    BY <1>1 DEF PlacePart
  <2>2. pc'[idleproc] = "idle" /\ pc'[initproc] \in InWait
    BY <2>1, <1>4, Members DEF InWait
  <2> QED BY <2>1, <2>2, <1>2, <1>3, <1>6 DEF PlacePart
<1>8. SemPart'
  <2>1. ASSUME NEW q \in Procs
        PROVE  /\ wait_state'[q] = "WT_KSEM" <=> wait_state[q] = "WT_KSEM"
               /\ \/ pc'[q] \notin InDown
                  \/ pc'[q] = pc[q]
                  \/ pc[q] = "down_schedule" /\ pc'[q] = "down_resume"
    BY <1>2, <1>4, Members DEF InDown
  <2> QED BY <2>1, <1>1, <1>2, SemFrame
<1>9. MealPart'
  <2>1. ASSUME NEW q \in Procs PROVE MealOk(q)'
    <3>1. MealOk(q) /\ q \in All
      BY <1>1, Members DEF MealPart
    <3>2. CASE q # current
      BY <3>1, <3>2, <1>2, <1>4, MealFrame
    <3>3. CASE q = current
      <4>1. /\ pc[q] = l /\ pc'[q] = m
            /\ \/ l = "sleep" /\ m = "slept"
               \/ l = "down_schedule" /\ m = "down_resume"
               \/ l = "exit_schedule" /\ m = "dead"
        BY <3>3, <1>4, Members
      <4>2. /\ Thinks(q)' <=> Thinks(q)
            /\ Dines(q)' <=> Dines(q)
            /\ Hungers(q)' <=> Hungers(q)
        BY <4>1, <1>2 DEF Thinks, Dines, Hungers, InNap, InDown
      <4> QED BY <4>1, <4>2, <3>1, <1>2 DEF MealOk, OfSema
    <3> QED BY <3>2, <3>3
  <2>2. NoNeighbours'
    BY <1>1, <1>2 DEF MealPart, NoNeighbours
  <2> QED BY <2>1, <2>2 DEF MealPart
<1>10. MonitorPart'
  <2>1. ASSUME NEW q \in Procs
        PROVE  /\ Inside(q)' <=> Inside(q)
               /\ Signalling(q)' <=> Signalling(q)
               /\ Waiting(q)' <=> Waiting(q)
    <3>1. q \in All
      BY Members
    <3>2. CASE q # current
      BY <3>1, <3>2, <1>2, <1>4, InsideFrame
    <3>3. CASE q = current
      <4>1. /\ pc[q] = l /\ pc'[q] = m
            /\ \/ l = "sleep" /\ m = "slept"
               \/ l = "down_schedule" /\ m = "down_resume"
               \/ l = "exit_schedule" /\ m = "dead"
        BY <3>3, <1>4, Members
      <4>2. l = "down_schedule" => wait_state'[q] = "WT_KSEM"
        BY <4>1, <1>1, <1>2 DEF SemPart
      <4> QED BY <4>1, <4>2, <1>2 DEF Inside, Granted, Waits, Signalling, Waiting, DownTo
    <3> QED BY <3>2, <3>3
  <2>2. Signallers' = Signallers /\ (OneOwner' <=> OneOwner)
    BY <2>1, <1>2 DEF Signallers, OneOwner
  <2> QED BY <2>1, <2>2, <1>1, <1>2 DEF MonitorPart, CountOk
<1> QED BY <1>3, <1>5, <1>7, <1>8, <1>9, <1>10 DEF SyncInv

-----------------------------------------------------------------------------
(* The timer interrupt: it wakes threads that sleep on a timer and moves    *)
(* nobody.                                                                  *)
LEMMA TimerMove ==
    ASSUME SyncInv, SchedPart', KernelStays, UNCHANGED <<semVars, pc, threadVars, current>>,
           \A q \in Procs : Stays(q) /\ (wait_state'[q] = "WT_KSEM" <=> wait_state[q] = "WT_KSEM"),
           state'[current] = "SLEEPING" => state[current] = "SLEEPING"
    PROVE  SyncInv'
<1>1. SchedPart /\ TypePart /\ PlacePart /\ SemPart /\ MealPart /\ MonitorPart
  BY DEF SyncInv
<1>2. /\ UNCHANGED <<value, wait_queue, wakeup_flags, phase, ret, cont, on, iter, waited>>
      /\ UNCHANGED <<phi_state, next_count, count, pc, current>>
  BY DEF semVars, threadVars, phiVars
<1>3. TypePart'
  BY <1>1, <1>2 DEF TypePart, SemTypeOK
<1>4. PlacePart'
  <2>1. ASSUME NEW q \in Procs PROVE PlaceOk(q)'
    <3>1. PlaceOk(q)
      BY <1>1 DEF PlacePart
    <3>2. q # current' => pc[q] \in OffCpu
      BY <3>1, <1>2 DEF PlaceOk
    <3> QED BY <3>1, <3>2, <1>2, PlaceFrame
  <2>2. pc'[idleproc] = "idle" /\ state'[idleproc] = "RUNNABLE" /\ pc'[initproc] \in InWait
    BY <1>1, <1>2 DEF PlacePart, KernelStays
  <2>3. state'[current'] = "SLEEPING" => pc'[current'] \in {"sleep", "down_schedule", "wait_schedule"}
    BY <1>1, <1>2 DEF PlacePart
  <2> QED BY <2>1, <2>2, <2>3 DEF PlacePart, KernelStays
<1>5. SemPart'
  <2>1. \A q \in Procs : pc'[q] = pc[q]
    BY <1>2
  <2> QED BY <2>1, <1>1, <1>2, SemFrame
<1>6. MealPart'
  <2>1. ASSUME NEW q \in Procs PROVE MealOk(q)'
    <3>1. MealOk(q)
      BY <1>1 DEF MealPart
    <3> QED BY <3>1, <1>2, MealFrame
  <2>2. NoNeighbours'
    BY <1>1, <1>2 DEF MealPart, NoNeighbours
  <2> QED BY <2>1, <2>2 DEF MealPart
<1>7. MonitorPart'
  <2>1. ASSUME NEW q \in Procs
        PROVE  /\ Inside(q)' <=> Inside(q)
               /\ Signalling(q)' <=> Signalling(q)
               /\ Waiting(q)' <=> Waiting(q)
    BY <1>2, InsideFrame
  <2>2. Signallers' = Signallers /\ (OneOwner' <=> OneOwner)
    BY <2>1, <1>2 DEF Signallers, OneOwner
  <2> QED BY <2>1, <2>2, <1>1, <1>2 DEF MonitorPart, CountOk
<1> QED BY <1>3, <1>4, <1>5, <1>6, <1>7 DEF SyncInv

LEMMA TimerInv ==
    ASSUME SyncInv, TimerIrq \/ TimerExpire \/ TimerTick PROVE SyncInv'
<1>1. /\ SchedPart /\ PlacePart
      /\ SchedTypeOK /\ QueueOk /\ WaitStateOk /\ panic = "no"
  BY DEF SyncInv, SchedPart
<1>2. /\ state \in [All -> ProcState] /\ wait_state \in [All -> WaitState]
      /\ need_resched \in [All -> BOOLEAN] /\ time_slice \in [All -> 0..MAX_TIME_SLICE]
      /\ current \in All /\ expires \in [All -> 0..MaxSleep] /\ expired \subseteq All
      /\ MaxSleep \in Nat /\ MAX_TIME_SLICE \in Nat
  BY <1>1, SchedAssumption DEF SchedTypeOK
<1>3. /\ state[idleproc] = "RUNNABLE"
      /\ state[initproc] \in {"RUNNABLE", "SLEEPING"}
      /\ wait_state[initproc] \in {"0", "WT_CHILD"}
      /\ \A x \in {idleproc, initproc} : expires[x] = 0 /\ x \notin expired
      /\ idleproc \in All /\ initproc \in All /\ Procs \subseteq All
  BY <1>1, Members DEF PlacePart
<1>4. UNCHANGED <<semVars, pc, threadVars>>
  BY DEF TimerIrq, TimerExpire, TimerTick
<1>5. UNCHANGED <<pc, ret, cont, on>>
  BY <1>4 DEF threadVars
<1>6. CASE TimerIrq
  <2>1. /\ UNCHANGED <<state, wait_state, need_resched, time_slice, run_list, current, panic>>
        /\ irq' = TRUE
        /\ expires' = [p \in All |-> IF expires[p] > 0 THEN expires[p] - 1 ELSE 0]
        /\ expired' = {p \in All : expires[p] = 1}
    BY <1>6 DEF TimerIrq, run_timer_list_enter, Expired
  <2>2. \A q \in All : (expires'[q] > 0 \/ q \in expired') => expires[q] > 0
    BY <2>1, <1>2
  <2>3. SchedTypeOK'
    <3>1. expires' \in [All -> 0..MaxSleep] /\ expired' \subseteq All
      BY <2>1, <1>2
    <3> QED BY <3>1, <2>1, <1>1 DEF SchedTypeOK
  <2>4. SchedPart'
    BY <2>1, <2>3, <1>1 DEF SchedPart, QueueOk, Queued, WaitStateOk
  <2>5. KernelStays
    BY <2>1, <2>2, <1>2, <1>3, <1>5 DEF KernelStays
  <2>6. \A q \in Procs : Stays(q)
    BY <2>1, <2>2, <1>3, <1>5 DEF Stays
  <2> QED BY <2>1, <2>4, <2>5, <2>6, <1>4, TimerMove
<1>7. CASE TimerExpire
  <2>1. PICK p \in expired : run_timer_list_expire(p)
    BY <1>7 DEF TimerExpire
  <2>2. p \in Procs /\ p # idleproc /\ p # initproc /\ PlaceOk(p) /\ p \in All
    BY <1>1, <1>2, <1>3, Members DEF PlacePart
  <2>3. /\ pc[p] \in InNap
        /\ state[p] \notin {"FREE", "ZOMBIE"} /\ wait_state[p] \in {"0", "WT_TIMER"}
    BY <2>2 DEF PlaceOk, InNap, InDown, InExit
  <2>4. /\ wakeup_proc(p) /\ expires' = [expires EXCEPT ![p] = 0] /\ expired' = expired \ {p}
        /\ UNCHANGED <<need_resched, current, irq>>
    BY <2>1, <2>3 DEF run_timer_list_expire, Interruptible, del_timer
  <2>5. /\ run_list' \in Seq(Procs \cup {initproc})
        /\ time_slice' \in [All -> 0..MAX_TIME_SLICE]
        /\ state' = [state EXCEPT ![p] = "RUNNABLE"]
        /\ wait_state' = [wait_state EXCEPT ![p] = "0"]
        /\ QueueOk' /\ WaitStateOk' /\ panic' = panic
    BY <2>2, <2>3, <2>4, <1>1, WakeupLemma
  <2>6. SchedTypeOK'
    <3>1. expires' \in [All -> 0..MaxSleep] /\ expired' \subseteq All
      BY <2>4, <1>2
    <3> QED BY <3>1, <2>4, <2>5, <1>1 DEF SchedTypeOK, ProcState, WaitState
  <2>7. SchedPart'
    BY <2>5, <2>6, <1>1 DEF SchedPart
  <2>8. /\ state'[p] = "RUNNABLE" /\ wait_state'[p] = "0" /\ expires'[p] = 0 /\ p \notin expired'
        /\ \A q \in All : q # p => /\ state'[q] = state[q] /\ wait_state'[q] = wait_state[q]
                                   /\ expires'[q] = expires[q] /\ (q \in expired' <=> q \in expired)
    BY <2>2, <2>4, <2>5, <1>2
  <2>9. KernelStays
    BY <2>2, <2>8, <1>3, <1>5 DEF KernelStays
  <2>10. \A q \in Procs : Stays(q) /\ (wait_state'[q] = "WT_KSEM" <=> wait_state[q] = "WT_KSEM")
    BY <2>3, <2>8, <1>3, <1>5 DEF Stays
  <2>11. state'[current] = "SLEEPING" => state[current] = "SLEEPING"
    BY <2>8, <1>2
  <2> QED BY <2>4, <2>7, <2>9, <2>10, <2>11, <1>4, TimerMove
<1>8. CASE TimerTick
  <2>1. UNCHANGED <<state, wait_state, run_list, current, expires, expired, panic>>
    BY <1>8 DEF TimerTick, run_timer_list_tick
  <2>2. /\ irq' = FALSE /\ time_slice' = Ticked
        /\ need_resched' = (IF current = idleproc \/ Ticked[current] = 0
                            THEN [need_resched EXCEPT ![current] = TRUE] ELSE need_resched)
    BY <1>8 DEF TimerTick, run_timer_list_tick
  <2>3. time_slice' \in [All -> 0..MAX_TIME_SLICE] /\ need_resched' \in [All -> BOOLEAN]
    BY <2>2, <1>2 DEF Ticked
  <2>4. SchedTypeOK'
    BY <2>1, <2>2, <2>3, <1>1 DEF SchedTypeOK
  <2>5. SchedPart'
    BY <2>1, <2>4, <1>1 DEF SchedPart, QueueOk, Queued, WaitStateOk
  <2>6. KernelStays
    BY <2>1, <1>3, <1>5 DEF KernelStays
  <2>7. \A q \in Procs : Stays(q)
    BY <2>1, <1>5 DEF Stays
  <2> QED BY <2>1, <2>5, <2>6, <2>7, <1>4, TimerMove
<1> QED BY <1>6, <1>7, <1>8

-----------------------------------------------------------------------------
(* A half begins: all philosophers think, no semaphore is waited for.       *)
LEMMA HalfBegins ==
    ASSUME SchedPart', TypePart',
           \A q \in Procs :
              /\ pc'[q] = "think" /\ state'[q] = "RUNNABLE"
              /\ wait_state'[q] = "0" /\ phi_state'[q] = "THINKING"
              /\ expires'[q] = 0 /\ q \notin expired' /\ count'[q] = 0,
           phase' \in {"sema", "condvar"}, waited' = 0, next_count' = 0,
           value' = [s \in Sync |-> IF s = MUTEX THEN 1 ELSE 0],
           wait_queue' = [s \in Sync |-> <<>>],
           pc'[idleproc] = "idle", pc'[initproc] = "wait", current' = initproc,
           state'[idleproc] = "RUNNABLE", state'[initproc] = "RUNNABLE", wait_state'[initproc] = "0",
           \A x \in {idleproc, initproc} : expires'[x] = 0 /\ x \notin expired'
    PROVE  SyncInv'
<1>1. \A q \in Procs : ~(q < 0) /\ q \in All
  BY CheckSyncAssumption, Members
<1>2. \A q \in Procs : ~Signalling(q)' /\ ~Waiting(q)' /\ ~Inside(q)'
  BY DEF Signalling, Waiting, Inside, Granted, DownTo
<1>3. PlacePart'
  <2>1. ASSUME NEW q \in Procs PROVE PlaceOk(q)'
    BY <1>1, <1>2 DEF PlaceOk, OffCpu, InNap, InDown, InExit, InWait, OfSema, OfCondvar
  <2> QED BY <2>1 DEF PlacePart, InWait
<1>4. SemPart'
  <2>1. ASSUME NEW s \in Sync
        PROVE  /\ wait_queue'[s] = <<>> /\ NoRepeat(wait_queue'[s])
               /\ ToSet(wait_queue'[s]) = {p \in Procs : Waits(p, s)'}
    <3>1. wait_queue'[s] = <<>> /\ \A p \in Procs : ~Waits(p, s)'
      BY DEF Waits
    <3>2. NoRepeat(<<>>) /\ ToSet(<<>>) = {}
      BY DEF NoRepeat, ToSet
    <3> QED BY <3>1, <3>2
  <2> QED BY <2>1 DEF SemPart
<1>5. MealPart'
  <2>1. ASSUME NEW q \in Procs PROVE MealOk(q)'
    <3>1. value'[S(q)] = 0
      BY Members
    <3> QED BY <3>1 DEF MealOk, Thinks, Dines, Hungers, InNap, InDown, OfSema
  <2>2. NoNeighbours'
    BY DEF NoNeighbours
  <2> QED BY <2>1, <2>2 DEF MealPart
<1>6. MonitorPart'
  <2>1. value'[NEXT] = 0 /\ value'[MUTEX] = 1
    BY Members
  <2>2. OneOwner'
    BY <2>1, <1>2 DEF OneOwner
  <2>3. Signallers' = {}
    BY <1>2 DEF Signallers
  <2>4. next_count' = Cardinality(Signallers')
    BY <2>3, FS_EmptySet
  <2>5. \A q \in Procs : CountOk(q)'
    BY <1>2 DEF CountOk
  <2> QED BY <2>1, <2>2, <2>4, <2>5 DEF MonitorPart
<1> QED BY <1>3, <1>4, <1>5, <1>6 DEF SyncInv

(* The run queue that the kernel_thread calls of a half leave.              *)
LEMMA NewThreads ==
    ASSUME NEW q, q = [i \in 1..N |-> i - 1]
    PROVE  q \in Seq(Procs) /\ NoRepeat(q) /\ ToSet(q) = Procs
<1>1. N \in Nat /\ Procs = 0..(N - 1)
  BY CheckSyncAssumption
<1>2. q \in [1..N -> Procs] /\ DOMAIN q = 1..N /\ \A i \in 1..N : q[i] = i - 1
  BY <1>1
<1>3. q \in Seq(Procs)
  BY <1>1, <1>2
<1>4. NoRepeat(q)
  BY <1>1, <1>2 DEF NoRepeat
<1>5. ToSet(q) = Procs
  <2>1. ASSUME NEW x \in Procs PROVE x \in ToSet(q)
    <3>1. x + 1 \in 1..N /\ x = (x + 1) - 1
      BY <1>1
    <3> QED BY <3>1, <1>2 DEF ToSet
  <2> QED BY <2>1, <1>2 DEF ToSet
<1> QED BY <1>3, <1>4, <1>5

(* The scheduler's state when only the new threads and initproc can run.    *)
LEMMA HalfQueue ==
    ASSUME SchedTypeOK', panic' = "no", current' = initproc,
           state' = [p \in All |-> "RUNNABLE"],
           run_list' = [i \in 1..N |-> i - 1],
           \A p \in All : wait_state'[p] = "0"
    PROVE  SchedPart'
<1>1. NoRepeat(run_list') /\ ToSet(run_list') = Procs
  BY NewThreads
<1>2. \A p \in All : state'[p] = "RUNNABLE"
  OBVIOUS
<1>3. QueueOk'
  BY <1>1, <1>2, Members DEF QueueOk, Queued, NoRepeat, ToSet
<1>4. WaitStateOk'
  BY <1>2 DEF WaitStateOk
<1> QED BY <1>3, <1>4 DEF SchedPart

LEMMA InitInv == Init => SyncInv
<1> SUFFICES ASSUME Init PROVE SyncInv
  OBVIOUS
<1>1. /\ idleproc \in All /\ initproc \in All /\ idleproc # initproc /\ Procs \subseteq All
      /\ idleproc \notin Procs /\ initproc \notin Procs /\ Sems = Sync /\ MUTEX \in Sync
      /\ \A x \in All : x \in Procs \/ x = idleproc \/ x = initproc
      /\ \A p \in Procs : S(p) \in Sync /\ S(p) # MUTEX
      /\ MAX_TIME_SLICE \in Nat \ {0} /\ MaxSleep \in Nat /\ TIMES \in Nat /\ N \in Nat
      /\ \A q \in Procs : ~(q < 0)
  BY Members, SchedAssumption, CheckSyncAssumption
<1>2. /\ run_list \in Seq(Procs) /\ NoRepeat(run_list) /\ ToSet(run_list) = Procs
      /\ panic = "no" /\ current = initproc /\ state = [p \in All |-> "RUNNABLE"]
  BY NewThreads DEF Init
<1>3. SchedPart
  <2>1. run_list \in Seq(Procs \cup {initproc})
    BY <1>2
  <2>2. SchedTypeOK
    <3>1. time_slice \in [All -> 0..MAX_TIME_SLICE] /\ expires \in [All -> 0..MaxSleep]
      BY <1>1 DEF Init
    <3>2. /\ need_resched \in [All -> BOOLEAN] /\ current \in All /\ expired \subseteq All
          /\ irq \in BOOLEAN
      BY <1>1 DEF Init
    <3>3. state \in [All -> ProcState] /\ wait_state \in [All -> WaitState]
      BY DEF Init, ProcState, WaitState
    <3> QED BY <2>1, <3>1, <3>2, <3>3, <1>2 DEF SchedTypeOK, Panics
  <2>3. QueueOk
    BY <1>1, <1>2 DEF QueueOk, Queued, NoRepeat, ToSet
  <2>4. WaitStateOk
    BY DEF Init, WaitStateOk
  <2> QED BY <2>2, <2>3, <2>4, <1>2 DEF SchedPart
<1>4. /\ \A q \in Procs : pc[q] = "think"
      /\ pc[idleproc] = "idle" /\ pc[initproc] = "wait"
      /\ pc \in [All -> PC]
  BY <1>1 DEF Init, PC
<1>5. TypePart
  <2>1. SemTypeOK
    BY <1>1 DEF Init, SemTypeOK
  <2> QED BY <2>1, <1>1, <1>4 DEF Init, TypePart
<1>6. /\ \A q \in All : state[q] = "RUNNABLE" /\ wait_state[q] = "0" /\ expires[q] = 0
      /\ expired = {} /\ phase = "sema" /\ waited = 0 /\ current = initproc
      /\ value = [s \in Sync |-> IF s = MUTEX THEN 1 ELSE 0]
      /\ wait_queue = [s \in Sync |-> <<>>]
      /\ \A q \in Procs : phi_state[q] = "THINKING"
  BY DEF Init
<1>7. \A q \in Procs : ~Signalling(q) /\ ~Waiting(q) /\ ~Inside(q)
  BY <1>4 DEF Signalling, Waiting, Inside, Granted, DownTo
<1>8. PlacePart
  <2>1. ASSUME NEW q \in Procs PROVE PlaceOk(q)
    BY <1>1, <1>4, <1>6, <1>7 DEF PlaceOk, OffCpu, InNap, InDown, InExit, InWait, OfSema, OfCondvar
  <2> QED BY <2>1, <1>1, <1>4, <1>6 DEF PlacePart, InWait
<1>9. SemPart
  <2>1. NoRepeat(<<>>) /\ ToSet(<<>>) = {}
    BY DEF NoRepeat, ToSet
  <2>2. \A s \in Sync : wait_queue[s] = <<>> /\ \A p \in Procs : ~Waits(p, s)
    BY <1>1, <1>6 DEF Waits
  <2>3. \A s \in Sync : ToSet(wait_queue[s]) = {p \in Procs : Waits(p, s)}
    BY <2>1, <2>2
  <2>4. \A p \in Procs : pc[p] \notin {"down_schedule", "down_resume"}
    BY <1>4
  <2> QED BY <2>1, <2>2, <2>3, <2>4 DEF SemPart
<1>10. MealPart
  <2>1. ASSUME NEW q \in Procs PROVE MealOk(q)
    <3>1. value[S(q)] = 0
      BY <1>1, <1>6
    <3> QED BY <3>1, <1>4, <1>6 DEF MealOk, Thinks, Dines, Hungers, InNap, InDown, OfSema
  <2>2. NoNeighbours
    BY <1>6 DEF NoNeighbours
  <2> QED BY <2>1, <2>2 DEF MealPart
<1>11. MonitorPart
  BY <1>6 DEF MonitorPart
<1> QED BY <1>3, <1>5, <1>8, <1>9, <1>10, <1>11 DEF SyncInv

(* The second half: all threads of the first have been freed.               *)
LEMMA SecondHalfInv ==
    ASSUME SyncInv, SecondHalf PROVE SyncInv'
<1>1. SchedPart /\ TypePart /\ PlacePart /\ SchedTypeOK /\ QueueOk /\ WaitStateOk
  BY DEF SyncInv, SchedPart
<1>2. /\ idleproc \in All /\ initproc \in All /\ idleproc # initproc /\ Procs \subseteq All
      /\ idleproc \notin Procs /\ initproc \notin Procs /\ Sems = Sync
      /\ \A x \in All : x \in Procs \/ x = idleproc \/ x = initproc
      /\ MAX_TIME_SLICE \in Nat \ {0} /\ TIMES \in Nat /\ N \in Nat
      /\ \A q \in Procs : q < N
  BY Members, SchedAssumption, CheckSyncAssumption
<1>3. /\ panic = "no" /\ current = initproc /\ pc[initproc] = "wait" /\ waited = N
      /\ state' = [p \in All |-> "RUNNABLE"]
      /\ run_list' = run_list \o [i \in 1..N |-> i - 1]
      /\ UNCHANGED <<wait_state, current, expires, expired, irq, panic, wakeup_flags, ret, cont, on>>
  BY DEF SecondHalf, At
<1>4. \A q \in Procs : pc[q] = "free" /\ state[q] = "FREE" /\ expires[q] = 0 /\ q \notin expired
  <2> SUFFICES ASSUME NEW q \in Procs
               PROVE  pc[q] = "free" /\ state[q] = "FREE" /\ expires[q] = 0 /\ q \notin expired
    OBVIOUS
  <2>1. PlaceOk(q) /\ q \in All
    BY <1>1, <1>2 DEF PlacePart
  <2>2. pc[q] = "free" /\ state[q] = "FREE"
    BY <2>1, <1>2, <1>3 DEF PlaceOk
  <2>3. expires[q] \in 0..MaxSleep /\ MaxSleep \in Nat
    BY <2>1, <1>1, SchedAssumption DEF SchedTypeOK
  <2> QED BY <2>1, <2>2, <2>3 DEF PlaceOk, InNap
<1>5. state[initproc] = "RUNNABLE" /\ state[idleproc] = "RUNNABLE"
  BY <1>1, <1>3 DEF PlacePart
<1>6. \A q \in All : wait_state'[q] = "0"
  <2>1. \A q \in All : state[q] # "SLEEPING"
    BY <1>2, <1>4, <1>5
  <2> QED BY <2>1, <1>1, <1>3 DEF WaitStateOk
<1>7. run_list = <<>>
  <2>1. run_list \in Seq(Procs \cup {initproc})
    BY <1>1 DEF SchedTypeOK
  <2>2. Queued = {}
    <3> SUFFICES ASSUME NEW i \in DOMAIN run_list PROVE FALSE
      BY DEF Queued
    <3>1. run_list[i] \in All \ {idleproc} /\ run_list[i] \in Queued
      BY <2>1, <1>2 DEF Queued
    <3>2. state[run_list[i]] = "RUNNABLE" /\ run_list[i] # current
      BY <3>1, <1>1 DEF QueueOk
    <3> QED BY <3>1, <3>2, <1>2, <1>3, <1>4
  <2>3. DOMAIN run_list = {}
    BY <2>2 DEF Queued
  <2> QED BY <2>1, <2>3
<1>8. run_list' = [i \in 1..N |-> i - 1]
  <2>1. [i \in 1..N |-> i - 1] \in Seq(Procs)
    BY NewThreads
  <2> QED BY <2>1, <1>3, <1>7
<1>9. SchedTypeOK'
  <2>1. run_list' \in Seq(Procs \cup {initproc})
    <3>1. run_list' \in Seq(Procs)
      BY <1>8, NewThreads
    <3> QED BY <3>1
  <2>2. time_slice' \in [All -> 0..MAX_TIME_SLICE] /\ need_resched' \in [All -> BOOLEAN]
    <3>1. /\ time_slice' = [p \in All |-> IF p \in Procs THEN MAX_TIME_SLICE ELSE time_slice[p]]
          /\ need_resched' = [p \in All |-> IF p \in Procs THEN FALSE ELSE need_resched[p]]
      BY DEF SecondHalf
    <3>2. time_slice \in [All -> 0..MAX_TIME_SLICE] /\ need_resched \in [All -> BOOLEAN]
      BY <1>1 DEF SchedTypeOK
    <3>3. MAX_TIME_SLICE \in 0..MAX_TIME_SLICE
      BY <1>2
    <3>4. time_slice' \in [All -> 0..MAX_TIME_SLICE]
      BY <3>1, <3>2, <3>3
    <3>5. need_resched' \in [All -> BOOLEAN]
      BY <3>1, <3>2, Zenon
    <3> QED BY <3>4, <3>5
  <2> QED BY <2>1, <2>2, <1>1, <1>3 DEF SchedTypeOK, ProcState
<1>10. SchedPart'
  BY <1>3, <1>6, <1>8, <1>9, HalfQueue
<1>11. /\ \A q \in Procs : pc'[q] = "think" /\ phi_state'[q] = "THINKING" /\ count'[q] = 0
       /\ pc'[idleproc] = "idle" /\ pc'[initproc] = "wait" /\ pc' \in [All -> PC]
       /\ phase' = "condvar" /\ waited' = 0 /\ next_count' = 0
       /\ value' = [s \in Sync |-> IF s = MUTEX THEN 1 ELSE 0]
       /\ wait_queue' = [s \in Sync |-> <<>>]
       /\ state'[idleproc] = "RUNNABLE" /\ state'[initproc] = "RUNNABLE"
       /\ \A q \in Procs : state'[q] = "RUNNABLE"
  BY <1>1, <1>2, <1>3 DEF SecondHalf, TypePart, PlacePart, PC
<1>12. TypePart'
  <2>1. SemTypeOK'
    BY <1>1, <1>2, <1>3, <1>11 DEF TypePart, SemTypeOK
  <2> QED BY <2>1, <1>1, <1>2, <1>3, <1>11 DEF SecondHalf, TypePart
<1>13. \A x \in {idleproc, initproc} : expires[x] = 0 /\ x \notin expired
  BY <1>1 DEF PlacePart
<1>14. \A q \in Procs : /\ pc'[q] = "think" /\ state'[q] = "RUNNABLE"
                        /\ wait_state'[q] = "0" /\ phi_state'[q] = "THINKING"
                        /\ expires'[q] = 0 /\ q \notin expired' /\ count'[q] = 0
  BY <1>2, <1>3, <1>4, <1>6, <1>11
<1>15. /\ \A x \in {idleproc, initproc} : expires'[x] = 0 /\ x \notin expired'
       /\ wait_state'[initproc] = "0" /\ current' = initproc
  BY <1>2, <1>3, <1>6, <1>13
<1> QED BY <1>10, <1>11, <1>12, <1>14, <1>15, HalfBegins

-----------------------------------------------------------------------------
(* initproc's own steps: only PlaceOk says anything of waited, of phase and *)
(* of what do_wait frees, so the rest of the invariant is framed.           *)
LEMMA InitprocFrame ==
    ASSUME SyncInv, SchedPart', TypePart', PlacePart',
           UNCHANGED <<semVars, ret, cont, on, iter, phiVars>>,
           \A q \in Procs : /\ wait_state'[q] = wait_state[q]
                            /\ \/ pc'[q] = pc[q]
                               \/ pc[q] = "dead" /\ pc'[q] = "free",
           phase' = "condvar" => phase = "condvar"
    PROVE  SyncInv'
<1>1. SemPart /\ MealPart /\ MonitorPart
  BY DEF SyncInv
<1>2. UNCHANGED <<value, wait_queue, wakeup_flags, ret, on, phi_state, next_count, count>>
  BY DEF semVars, phiVars
<1>3. SemPart'
  <2>1. ASSUME NEW q \in Procs
        PROVE  /\ wait_state'[q] = "WT_KSEM" <=> wait_state[q] = "WT_KSEM"
               /\ pc'[q] \notin InDown \/ pc'[q] = pc[q]
    BY DEF InDown
  <2> QED BY <2>1, <1>1, <1>2, SemFrame
<1>4. MealPart'
  <2>1. ASSUME NEW q \in Procs PROVE MealOk(q)'
    <3>1. MealOk(q)
      BY <1>1 DEF MealPart
    <3>2. CASE pc'[q] = pc[q]
      BY <3>1, <3>2, <1>2, MealFrame
    <3>3. CASE pc[q] = "dead" /\ pc'[q] = "free"
      BY <3>1, <3>3, <1>2 DEF MealOk, Thinks, Dines, Hungers, InNap, InDown, OfSema
    <3> QED BY <3>2, <3>3
  <2>2. NoNeighbours'
    BY <1>1, <1>2 DEF MealPart, NoNeighbours
  <2> QED BY <2>1, <2>2 DEF MealPart
<1>5. MonitorPart'
  <2>1. ASSUME NEW q \in Procs
        PROVE  /\ Inside(q)' <=> Inside(q)
               /\ Signalling(q)' <=> Signalling(q)
               /\ Waiting(q)' <=> Waiting(q)
    <3>1. CASE pc'[q] = pc[q]
      BY <3>1, <1>2, InsideFrame
    <3>2. CASE pc[q] = "dead" /\ pc'[q] = "free"
      BY <3>2 DEF Inside, Granted, Signalling, Waiting, DownTo
    <3> QED BY <3>1, <3>2
  <2>2. Signallers' = Signallers /\ (OneOwner' <=> OneOwner)
    BY <2>1, <1>2 DEF Signallers, OneOwner
  <2> QED BY <2>1, <2>2, <1>1, <1>2 DEF MonitorPart, CountOk
<1> QED BY <1>3, <1>4, <1>5 DEF SyncInv

LEMMA WaitInv ==
    ASSUME SyncInv, Wait PROVE SyncInv'
<1>1. SchedPart /\ TypePart /\ PlacePart /\ SchedTypeOK /\ QueueOk /\ WaitStateOk
  BY DEF SyncInv, SchedPart
<1>2. /\ idleproc \in All /\ initproc \in All /\ idleproc # initproc /\ Procs \subseteq All
      /\ idleproc \notin Procs /\ initproc \notin Procs
      /\ N \in Nat /\ Procs = 0..(N - 1)
  BY Members, CheckSyncAssumption
<1>3. /\ panic = "no" /\ current = initproc /\ pc[initproc] = "wait" /\ waited < N
      /\ UNCHANGED <<need_resched, current, expires, expired, irq, time_slice, run_list, panic>>
      /\ UNCHANGED <<semVars, phase, ret, cont, on, iter, phiVars>>
  BY DEF Wait, At, schedRest
<1>4. /\ state \in [All -> ProcState] /\ wait_state \in [All -> WaitState] /\ pc \in [All -> PC]
      /\ waited \in 0..N /\ waited \in Procs /\ waited \in All
  BY <1>1, <1>2, <1>3 DEF SchedTypeOK, TypePart
<1>5. /\ state[idleproc] = "RUNNABLE" /\ pc[idleproc] = "idle"
      /\ state[initproc] = "RUNNABLE" /\ wait_state[initproc] = "0"
      /\ \A x \in {idleproc, initproc} : expires[x] = 0 /\ x \notin expired
      /\ \A q \in Procs : PlaceOk(q)
  <2>1. state[initproc] = "RUNNABLE"
    BY <1>1, <1>3 DEF PlacePart
  <2> QED BY <2>1, <1>1, <1>2 DEF PlacePart, WaitStateOk
<1>6. CASE state[waited] = "ZOMBIE"
  <2>1. /\ state' = [state EXCEPT ![waited] = "FREE"] /\ waited' = waited + 1
        /\ pc' = [pc EXCEPT ![waited] = "free"] /\ wait_state' = wait_state
    BY <1>6 DEF Wait
  <2>2. /\ state'[waited] = "FREE" /\ pc'[waited] = "free"
        /\ \A q \in All : q # waited => state'[q] = state[q] /\ pc'[q] = pc[q]
    BY <2>1, <1>4
  <2>3. pc[waited] = "dead" /\ wait_state[waited] = "0"
    <3>1. PlaceOk(waited) /\ waited # current
      BY <1>2, <1>3, <1>4, <1>5
    <3>2. wait_state[waited] = "0"
      BY <1>1, <1>4, <1>6 DEF WaitStateOk
    <3> QED BY <3>1, <3>2, <1>6 DEF PlaceOk, InExit, OffCpu
  <2>4. SchedPart'
    <3>1. SchedTypeOK'
      BY <2>1, <1>1, <1>3 DEF SchedTypeOK, ProcState
    <3>2. QueueOk'
      BY <2>2, <1>1, <1>3, <1>6 DEF QueueOk, Queued
    <3>3. WaitStateOk'
      BY <2>1, <2>2, <1>1, <1>6 DEF WaitStateOk
    <3> QED BY <3>1, <3>2, <3>3, <1>3 DEF SchedPart
  <2>5. TypePart'
    <3>1. waited' \in 0..N /\ pc' \in [All -> PC]
      BY <2>1, <1>2, <1>3, <1>4 DEF PC
    <3> QED BY <3>1, <1>1, <1>3 DEF TypePart, SemTypeOK, semVars, phiVars
  <2>6. ASSUME NEW q \in Procs PROVE PlaceOk(q)'
    <3>1. PlaceOk(q) /\ q \in All
      BY <1>2, <1>5
    <3>2. CASE q = waited
      <4>1. q < waited' /\ ~Signalling(q)' /\ ~(expires[q] > 0 \/ q \in expired)
        BY <2>1, <2>2, <2>3, <3>1, <3>2, <1>4 DEF Signalling, DownTo, PlaceOk, InNap
      <4> QED BY <4>1, <2>1, <2>2, <2>3, <3>2, <1>3
              DEF PlaceOk, OffCpu, InNap, InDown, InExit, InWait, OfSema, OfCondvar
    <3>3. CASE q # waited
      <4>1. q < waited' <=> q < waited
        BY <2>1, <3>3, <1>2, <1>4
      <4>2. (Signalling(q)' <=> Signalling(q)) /\ (DownOk(q)' <=> DownOk(q))
        BY <2>2, <3>1, <3>3, <1>3 DEF Signalling, DownTo, DownOk
      <4> QED BY <4>1, <4>2, <2>1, <2>2, <3>1, <3>3, <1>3 DEF PlaceOk
    <3> QED BY <3>2, <3>3
  <2>7. PlacePart'
    <3>1. /\ state'[idleproc] = "RUNNABLE" /\ pc'[idleproc] = "idle"
          /\ state'[initproc] = "RUNNABLE" /\ pc'[initproc] = "wait"
      BY <2>2, <1>2, <1>3, <1>4, <1>5
    <3> QED BY <3>1, <2>1, <2>6, <1>3, <1>5 DEF PlacePart, InWait
  <2>8. \A q \in Procs : pc'[q] = pc[q] \/ (pc[q] = "dead" /\ pc'[q] = "free")
    BY <2>2, <2>3, <1>2
  <2> QED BY <2>1, <2>4, <2>5, <2>7, <2>8, <1>3, InitprocFrame
<1>7. CASE state[waited] # "ZOMBIE"
  <2>1. /\ state' = [state EXCEPT ![initproc] = "SLEEPING"] /\ waited' = waited
        /\ wait_state' = [wait_state EXCEPT ![initproc] = "WT_CHILD"]
        /\ pc' = [pc EXCEPT ![initproc] = "wait_schedule"]
    BY <1>7 DEF Wait, Goto
  <2>2. /\ state'[initproc] = "SLEEPING" /\ wait_state'[initproc] = "WT_CHILD"
        /\ pc'[initproc] = "wait_schedule"
        /\ \A q \in All : q # initproc => /\ state'[q] = state[q] /\ pc'[q] = pc[q]
                                          /\ wait_state'[q] = wait_state[q]
    BY <2>1, <1>2, <1>4
  <2>3. SchedPart'
    <3>1. SchedTypeOK'
      BY <2>1, <1>1, <1>3 DEF SchedTypeOK, ProcState, WaitState
    <3>2. QueueOk'
      BY <2>2, <1>1, <1>3 DEF QueueOk, Queued
    <3>3. WaitStateOk'
      BY <2>2, <1>1 DEF WaitStateOk
    <3> QED BY <3>1, <3>2, <3>3, <1>3 DEF SchedPart
  <2>4. TypePart'
    BY <2>1, <1>1, <1>3, <1>4 DEF TypePart, SemTypeOK, semVars, phiVars, PC
  <2>5. ASSUME NEW q \in Procs PROVE PlaceOk(q)'
    <3>1. PlaceOk(q) /\ q \in All /\ q # initproc
      BY <1>2, <1>5
    <3>2. (Signalling(q)' <=> Signalling(q)) /\ (DownOk(q)' <=> DownOk(q))
      BY <2>2, <3>1, <1>3 DEF Signalling, DownTo, DownOk
    <3> QED BY <3>1, <3>2, <2>1, <2>2, <1>3 DEF PlaceOk
  <2>6. PlacePart'
    <3>1. state'[idleproc] = "RUNNABLE" /\ pc'[idleproc] = "idle"
      BY <2>2, <1>2, <1>5
    <3> QED BY <3>1, <2>2, <2>5, <1>3, <1>5 DEF PlacePart, InWait
  <2>7. \A q \in Procs : pc'[q] = pc[q] /\ wait_state'[q] = wait_state[q]
    BY <2>2, <1>2
  <2> QED BY <2>3, <2>4, <2>6, <2>7, <1>3, InitprocFrame
<1> QED BY <1>6, <1>7

LEMMA FinishInv ==
    ASSUME SyncInv, Finish PROVE SyncInv'
<1>1. SchedPart /\ TypePart /\ PlacePart
  BY DEF SyncInv
<1>2. /\ waited = N /\ phase' = "done"
      /\ UNCHANGED <<schedVars, semVars, pc, ret, cont, on, iter, phiVars, waited>>
      /\ UNCHANGED <<state, wait_state, current, expires, expired>>
  BY DEF Finish, schedVars
<1>3. SchedPart'
  BY <1>1, <1>2, SchedStays
<1>4. TypePart'
  BY <1>1, <1>2 DEF TypePart, SemTypeOK, semVars, phiVars
<1>5. ASSUME NEW q \in Procs PROVE PlaceOk(q)'
  <2>1. PlaceOk(q)
    BY <1>1 DEF PlacePart
  <2>2. pc[q] = "free"
    <3>1. q < waited
      BY <1>2, CheckSyncAssumption
    <3> QED BY <2>1, <3>1 DEF PlaceOk
  <2>3. ~Signalling(q)'
    BY <2>2, <1>2 DEF Signalling, DownTo
  <2> QED BY <2>1, <2>2, <2>3, <1>2 DEF PlaceOk, InDown, OfSema, OfCondvar
<1>6. PlacePart'
  BY <1>1, <1>2, <1>5 DEF PlacePart
<1> QED BY <1>2, <1>3, <1>4, <1>6, InitprocFrame

-----------------------------------------------------------------------------
(* up: the unit stays with the semaphore when nobody waits, and goes to the *)
(* first waiter otherwise; no assertion of wait.c or sched.c fails.         *)
Adds(s) ==
    /\ wait_queue[s] = <<>>
    /\ value' = [value EXCEPT ![s] = @ + 1]
    /\ UNCHANGED <<state, wait_state, wait_queue, wakeup_flags>>

Hands(s, h) ==
    /\ Waits(h, s) /\ h # current /\ pc[h] = "down_resume" /\ DownOk(h)
    /\ state' = [state EXCEPT ![h] = "RUNNABLE"]
    /\ wait_state' = [wait_state EXCEPT ![h] = "0"]
    /\ wakeup_flags' = [wakeup_flags EXCEPT ![h] = "WT_KSEM"]
    /\ value[s] = 0 /\ value' = value
    /\ NoRepeat(wait_queue'[s]) /\ ToSet(wait_queue'[s]) = ToSet(wait_queue[s]) \ {h}
    /\ \A r \in Sync : r # s => wait_queue'[r] = wait_queue[r]

LEMMA UpEffect ==
    ASSUME SyncInv, NEW s \in Sync, up(s), wait_state[current] # "WT_KSEM"
    PROVE  /\ SchedPart' /\ SemTypeOK'
           /\ UNCHANGED <<current, expires, expired>>
           /\ Adds(s) \/ \E h \in Procs : Hands(s, h)
<1>1. /\ SchedPart /\ SemTypeOK /\ PlacePart /\ SemPart
      /\ SchedTypeOK /\ QueueOk /\ WaitStateOk /\ panic = "no"
  BY DEF SyncInv, SchedPart, TypePart
<1>2. /\ value' = Given(s) /\ UNCHANGED <<need_resched, current, expires, expired, irq>>
  BY DEF up, schedRest
<1>3. /\ value \in [Sync -> Nat] /\ wait_queue \in [Sync -> Seq(All)] /\ s \in Sync
      /\ wakeup_flags \in [All -> {"WT_INTERRUPTED", "WT_KSEM"}]
      /\ wait_queue[s] \in Seq(All)
      /\ value[s] > 0 => wait_queue[s] = <<>>
      /\ NoRepeat(wait_queue[s])
      /\ ToSet(wait_queue[s]) = {p \in Procs : Waits(p, s)}
  BY <1>1, Members DEF SemTypeOK, SemPart
<1>4. CASE wait_queue[s] = <<>>
  <2>1. /\ UNCHANGED <<state, wait_state, run_list, time_slice, panic, wait_queue, wakeup_flags>>
        /\ value' = [value EXCEPT ![s] = @ + 1]
    BY <1>2, <1>4 DEF up, Given
  <2>2. UNCHANGED schedVars
    BY <2>1, <1>2 DEF schedVars
  <2>3. SchedPart'
    BY <2>2, <1>1, SchedStays
  <2>4. SemTypeOK'
    BY <2>1, <1>1, <1>3, Members DEF SemTypeOK
  <2> QED BY <2>1, <2>3, <2>4, <1>2, <1>4 DEF Adds
<1>5. CASE wait_queue[s] # <<>>
  <2> DEFINE h == Head(wait_queue[s])
  <2>1. /\ Tail(wait_queue[s]) \in Seq(All) /\ h \in ToSet(wait_queue[s])
        /\ ToSet(Tail(wait_queue[s])) = ToSet(wait_queue[s]) \ {h}
        /\ NoRepeat(Tail(wait_queue[s]))
    BY <1>3, <1>5, TailQueue
  <2>2. h \in Procs /\ Waits(h, s) /\ wait_state[h] = "WT_KSEM"
    BY <2>1, <1>3 DEF Waits
  <2>3. h \in All /\ h # idleproc /\ h # current /\ PlaceOk(h)
    BY <2>2, <1>1, Members DEF PlacePart
  <2>4. pc[h] = "down_resume" /\ DownOk(h) /\ state[h] \notin {"FREE", "ZOMBIE"}
    BY <2>2, <2>3 DEF PlaceOk, InDown, OffCpu, InExit
  <2>5. /\ wait_queue' = [wait_queue EXCEPT ![s] = Tail(@)]
        /\ wakeup_flags' = [wakeup_flags EXCEPT ![h] = "WT_KSEM"]
        /\ wakeup_proc(h)
    BY <2>2, <1>5 DEF up
  <2> HIDE DEF h
  <2>6. /\ run_list' \in Seq(Procs \cup {initproc})
        /\ time_slice' \in [All -> 0..MAX_TIME_SLICE]
        /\ state' = [state EXCEPT ![h] = "RUNNABLE"]
        /\ wait_state' = [wait_state EXCEPT ![h] = "0"]
        /\ QueueOk' /\ WaitStateOk' /\ panic' = panic
    BY <2>3, <2>4, <2>5, <1>1, <1>2, WakeupLemma
  <2>7. SchedTypeOK'
    BY <2>3, <2>6, <1>1, <1>2 DEF SchedTypeOK, ProcState, WaitState
  <2>8. value' = value /\ value[s] = 0
    BY <1>2, <1>3, <1>5 DEF Given
  <2>9. /\ wait_queue' \in [Sync -> Seq(All)]
        /\ wait_queue'[s] = Tail(wait_queue[s])
        /\ \A r \in Sync : r # s => wait_queue'[r] = wait_queue[r]
    BY <2>1, <2>5, <1>3
  <2>10. SemTypeOK'
    BY <2>5, <2>8, <2>9, <1>1, <1>3, Members DEF SemTypeOK
  <2>11. Hands(s, h)
    BY <2>1, <2>2, <2>3, <2>4, <2>5, <2>6, <2>8, <2>9 DEF Hands
  <2> QED BY <2>2, <2>6, <2>7, <2>10, <2>11, <1>1, <1>2 DEF SchedPart
<1> QED BY <1>4, <1>5

(* A step of the current thread that calls up, and the parts of the         *)
(* invariant that do not depend on what the unit means.                     *)
UpStep(p, s, m) ==
    /\ SyncInv /\ current = p /\ pc' = [pc EXCEPT ![p] = m] /\ pc[p] \notin Calls /\ m \notin Calls
    /\ up(s) /\ UNCHANGED <<phase, ret, on, waited>>
    /\ \A q \in Procs : q # p => cont'[q] = cont[q]
    /\ m \in {"signal", "signaled"} => cont'[p] \in {"test_right", "leave_put"}
    /\ phase = "sema" => m \notin OfCondvar
    /\ phase = "condvar" => m \notin OfSema

LEMMA UpPlaces ==
    ASSUME NEW p \in Procs, NEW s \in Sync, NEW m, UpStep(p, s, m)
    PROVE  /\ SchedPart' /\ SemTypeOK' /\ PlacePart' /\ SemPart'
           /\ Adds(s) \/ \E h \in Procs : Hands(s, h)
           /\ wait_state[p] = "0" /\ wait_state'[p] = "0"
           /\ pc'[p] = m /\ \A q \in Procs : q # p => pc'[q] = pc[q]
<1>1. /\ SchedPart /\ SchedTypeOK /\ TypePart /\ PlacePart /\ SemPart
  BY DEF UpStep, SyncInv, SchedPart
<1>2. /\ current = p /\ p \in All /\ p # idleproc /\ p # initproc
      /\ idleproc \in All /\ initproc \in All /\ Procs \subseteq All
      /\ idleproc \notin Procs /\ initproc \notin Procs
  BY Members DEF UpStep
<1>3. state[p] = "RUNNABLE" /\ wait_state[p] = "0"
  BY <1>1, <1>2, RunsHere DEF UpStep, Calls, InNap, InDown
<1>4. /\ SchedPart' /\ SemTypeOK' /\ UNCHANGED <<current, expires, expired>>
      /\ Adds(s) \/ \E h \in Procs : Hands(s, h)
  BY <1>2, <1>3, UpEffect DEF UpStep
<1>5. /\ state \in [All -> ProcState] /\ wait_state \in [All -> WaitState] /\ pc \in [All -> PC]
      /\ wakeup_flags \in [All -> {"WT_INTERRUPTED", "WT_KSEM"}]
      /\ value \in [Sync -> Nat]
  BY <1>1, Members DEF SchedTypeOK, TypePart, SemTypeOK
<1>6. pc'[p] = m /\ \A q \in All : q # p => pc'[q] = pc[q]
  BY <1>2, <1>5 DEF UpStep
<1>7. \A q \in All : \/ state'[q] = state[q] /\ wait_state'[q] = wait_state[q]
                     \/ /\ q \in Procs /\ q # p
                        /\ state[q] \notin {"FREE", "ZOMBIE"}
                        /\ state'[q] = "RUNNABLE" /\ wait_state'[q] = "0"
  <2>1. CASE Adds(s)
    BY <2>1 DEF Adds
  <2>2. ASSUME NEW h \in Procs, Hands(s, h)
        PROVE  \A q \in All : \/ state'[q] = state[q] /\ wait_state'[q] = wait_state[q]
                              \/ /\ q \in Procs /\ q # p
                                 /\ state[q] \notin {"FREE", "ZOMBIE"}
                                 /\ state'[q] = "RUNNABLE" /\ wait_state'[q] = "0"
    <3>1. /\ h \in All /\ h # p /\ state[h] \notin {"FREE", "ZOMBIE"}
          /\ state' = [state EXCEPT ![h] = "RUNNABLE"]
          /\ wait_state' = [wait_state EXCEPT ![h] = "0"]
      BY <2>2, <1>1, <1>2 DEF Hands, PlacePart, PlaceOk, InExit
    <3> QED BY <3>1, <1>5
  <2> QED BY <2>1, <2>2, <1>4
<1>8. state'[p] = "RUNNABLE" /\ wait_state'[p] = "0"
  BY <1>2, <1>3, <1>7
<1>9. UNCHANGED <<phase, ret, on, waited>>
  BY DEF UpStep
<1>10. ASSUME NEW q \in Procs PROVE PlaceOk(q)'
  <2>1. PlaceOk(q) /\ q \in All
    BY <1>1, <1>2 DEF PlacePart
  <2>2. CASE q # p
    <3>1. Stays(q)
      BY <2>1, <2>2, <1>4, <1>6, <1>7, <1>9 DEF Stays, UpStep
    <3>2. pc[q] \in OffCpu
      BY <2>1, <2>2, <1>2 DEF PlaceOk
    <3> QED BY <2>1, <3>1, <3>2, <1>9, PlaceFrame
  <2>3. CASE q = p
    <3>1. /\ pc[p] \notin Calls /\ m \notin Calls
          /\ phase = "sema" => m \notin OfCondvar
          /\ phase = "condvar" => m \notin OfSema
          /\ m \in {"signal", "signaled"} => cont'[p] \in {"test_right", "leave_put"}
      BY DEF UpStep
    <3>2. ~(p < waited) /\ phase # "done" /\ ~(expires[p] > 0 \/ p \in expired)
      BY <2>1, <2>3, <3>1 DEF PlaceOk, Calls
    <3>3. Signalling(p)' => cont'[p] \in {"test_right", "leave_put"}
      BY <3>1, <1>6, <2>3 DEF Signalling, DownTo, Calls, InDown
    <3> QED BY <3>1, <3>2, <3>3, <2>3, <1>2, <1>4, <1>6, <1>8, <1>9 DEF PlaceOk, Calls
  <2> QED BY <2>2, <2>3
<1>11. PlacePart'
  <2>1. /\ pc'[idleproc] = pc[idleproc] /\ state'[idleproc] = state[idleproc]
        /\ pc'[initproc] = pc[initproc] /\ state'[initproc] = state[initproc]
        /\ wait_state'[initproc] = wait_state[initproc]
    BY <1>2, <1>6, <1>7
  <2> QED BY <2>1, <1>1, <1>2, <1>4, <1>8, <1>10 DEF PlacePart
<1>12. SemPart'
  <2>1. \A q \in Procs : (pc'[q] = pc[q]) \/ (pc[q] \notin Calls /\ pc'[q] \notin Calls)
    BY <1>2, <1>6 DEF UpStep
  <2>2. {"down_schedule", "down_resume"} \subseteq Calls
    BY DEF Calls, InDown
  <2>3. CASE Adds(s)
    <3>1. /\ UNCHANGED <<wait_state, wait_queue, wakeup_flags>> /\ wait_queue[s] = <<>>
          /\ \A r \in Sync : r # s => value'[r] = value[r]
      BY <2>3, <1>5 DEF Adds
    <3>2. \A q \in Procs, r \in Sync : Waits(q, r)' <=> Waits(q, r)
      BY <3>1, <1>9 DEF Waits
    <3>3. ASSUME NEW r \in Sync
          PROVE  /\ value'[r] > 0 => wait_queue'[r] = <<>>
                 /\ NoRepeat(wait_queue'[r])
                 /\ ToSet(wait_queue'[r]) = {q \in Procs : Waits(q, r)'}
      BY <3>1, <3>2, <1>1 DEF SemPart
    <3>4. ASSUME NEW q \in Procs
          PROVE  /\ pc'[q] = "down_schedule" => wait_state'[q] = "WT_KSEM"
                 /\ pc'[q] = "down_resume" /\ wait_state'[q] # "WT_KSEM"
                    => wakeup_flags'[q] = "WT_KSEM"
      BY <3>1, <2>1, <2>2, <1>1 DEF SemPart
    <3> QED BY <3>3, <3>4 DEF SemPart
  <2>4. ASSUME NEW h \in Procs, Hands(s, h) PROVE SemPart'
    <3>1. /\ Waits(h, s) /\ h # p /\ pc[h] = "down_resume" /\ h \in All
          /\ wait_state' = [wait_state EXCEPT ![h] = "0"]
          /\ wakeup_flags' = [wakeup_flags EXCEPT ![h] = "WT_KSEM"]
          /\ value[s] = 0 /\ value' = value
          /\ NoRepeat(wait_queue'[s]) /\ ToSet(wait_queue'[s]) = ToSet(wait_queue[s]) \ {h}
          /\ \A r \in Sync : r # s => wait_queue'[r] = wait_queue[r]
      BY <2>4, <1>2 DEF Hands
    <3>2. /\ wait_state'[h] = "0" /\ wakeup_flags'[h] = "WT_KSEM"
          /\ \A q \in Procs : q # h => /\ wait_state'[q] = wait_state[q]
                                       /\ wakeup_flags'[q] = wakeup_flags[q]
      BY <3>1, <1>2, <1>5
    <3>3. \A q \in Procs, r \in Sync : Waits(q, r)' <=> Waits(q, r) /\ q # h
      BY <3>2, <1>9 DEF Waits
    <3>4. \A r \in Sync : Waits(h, r) => r = s
      BY <3>1 DEF Waits
    <3>5. ASSUME NEW r \in Sync
          PROVE  /\ value'[r] > 0 => wait_queue'[r] = <<>>
                 /\ NoRepeat(wait_queue'[r])
                 /\ ToSet(wait_queue'[r]) = {q \in Procs : Waits(q, r)'}
      <4>1. /\ value[r] > 0 => wait_queue[r] = <<>>
            /\ NoRepeat(wait_queue[r])
            /\ ToSet(wait_queue[r]) = {q \in Procs : Waits(q, r)}
        BY <1>1 DEF SemPart
      <4>2. CASE r = s
        BY <4>1, <4>2, <3>1, <3>3
      <4>3. CASE r # s
        BY <4>1, <4>3, <3>1, <3>3, <3>4
      <4> QED BY <4>2, <4>3
    <3>6. ASSUME NEW q \in Procs
          PROVE  /\ pc'[q] = "down_schedule" => wait_state'[q] = "WT_KSEM"
                 /\ pc'[q] = "down_resume" /\ wait_state'[q] # "WT_KSEM"
                    => wakeup_flags'[q] = "WT_KSEM"
      <4>1. CASE q = h
        BY <4>1, <3>1, <3>2, <1>6, <1>2
      <4>2. CASE q # h
        BY <4>2, <3>2, <2>1, <2>2, <1>1 DEF SemPart
      <4> QED BY <4>1, <4>2
    <3> QED BY <3>5, <3>6 DEF SemPart
  <2> QED BY <2>3, <2>4, <1>4
<1> QED BY <1>2, <1>3, <1>4, <1>6, <1>8, <1>11, <1>12

(* Passing on the mutex or next changes nobody's meal.                      *)
LEMMA UpMeals ==
    ASSUME NEW p \in Procs, NEW s \in {MUTEX, NEXT}, NEW m, UpStep(p, s, m),
           UNCHANGED phi_state, MealOk(p)'
    PROVE  MealPart' /\ \A q \in Procs : value'[S(q)] = value[S(q)]
<1>1. /\ s \in Sync /\ \A q \in Procs : S(q) # s /\ S(q) \in Sync
      /\ Procs \subseteq All
  BY Members
<1>2. /\ MealPart /\ SchedTypeOK /\ TypePart /\ UNCHANGED ret
  BY DEF UpStep, SyncInv, SchedPart
<1>3. /\ value \in [Sync -> Nat] /\ wait_state \in [All -> WaitState]
  BY <1>2, Members DEF TypePart, SemTypeOK, SchedTypeOK
<1>4. /\ Adds(s) \/ \E h \in Procs : Hands(s, h)
      /\ \A q \in Procs : q # p => pc'[q] = pc[q]
  BY <1>1, UpPlaces
<1>5. \A q \in Procs : value'[S(q)] = value[S(q)]
  BY <1>1, <1>3, <1>4 DEF Adds, Hands
<1>6. ASSUME NEW q \in Procs, q # p
      PROVE  /\ Thinks(q)' <=> Thinks(q)
             /\ Dines(q)' <=> Dines(q)
             /\ Hungers(q)' <=> Hungers(q)
  <2>1. CASE wait_state'[q] = wait_state[q]
    BY <2>1, <1>2, <1>4, <1>6 DEF Thinks, Dines, Hungers
  <2>2. CASE Hands(s, q)
    <3>1. pc[q] = "down_resume" /\ ret[q] \in {"hungry", "full", "signaled"}
      BY <2>2, <1>1 DEF Hands, Waits, DownOk
    <3> QED BY <3>1, <1>2, <1>4, <1>6 DEF Thinks, Dines, Hungers, InNap, InDown
  <2>3. wait_state'[q] = wait_state[q] \/ Hands(s, q)
    BY <1>1, <1>3, <1>4 DEF Adds, Hands
  <2> QED BY <2>1, <2>2, <2>3
<1>7. ASSUME NEW q \in Procs PROVE MealOk(q)'
  <2>1. CASE q # p
    <3>1. MealOk(q)
      BY <1>2 DEF MealPart
    <3> QED BY <3>1, <2>1, <1>4, <1>5, <1>6 DEF MealOk
  <2> QED BY <2>1
<1>8. NoNeighbours'
  BY <1>2 DEF MealPart, NoNeighbours
<1> QED BY <1>5, <1>7, <1>8 DEF MealPart

LEMMA ReleaseInv ==
    ASSUME SyncInv, NEW p \in Procs, Release(p) PROVE SyncInv'
<1> DEFINE l == pc[p]
           m == IF pc[p] = "release" THEN "acquire" ELSE "think"
<1>1. /\ TypePart /\ MealPart /\ MealOk(p) /\ pc \in [All -> PC] /\ p \in All
      /\ MUTEX \in Sync
  BY Members DEF SyncInv, MealPart, TypePart
<1>2. /\ phase = "sema" /\ current = p /\ l \in {"release", "leave_put"}
      /\ pc' = [pc EXCEPT ![p] = m] /\ up(MUTEX)
      /\ UNCHANGED <<phase, ret, cont, on, iter, phi_state, next_count, count, waited>>
  BY DEF Release, Up, Step, At, Goto, threadVars, phiVars
<1>3. UpStep(p, MUTEX, m)
  BY <1>2 DEF UpStep, Calls, InNap, InDown, InExit, InWait, OfCondvar, OfSema
<1>4. /\ SchedPart' /\ SemTypeOK' /\ PlacePart' /\ SemPart'
      /\ Adds(MUTEX) \/ \E h \in Procs : Hands(MUTEX, h)
      /\ pc'[p] = m
  BY <1>1, <1>3, UpPlaces
<1>5. TypePart'
  BY <1>1, <1>2, <1>4 DEF TypePart, PC
<1>6. value'[S(p)] = value[S(p)]
  BY <1>1, <1>4, Members DEF Adds, Hands, TypePart, SemTypeOK
<1>7. MealOk(p)'
  BY <1>1, <1>2, <1>4, <1>6 DEF MealOk, Thinks, Dines, Hungers, OfSema, InNap, InDown
<1>8. MealPart'
  BY <1>2, <1>3, <1>7, UpMeals
<1> QED BY <1>2, <1>4, <1>5, <1>8 DEF SyncInv, MonitorPart

(* A woken thread has its unit; for the others nothing changes.             *)
LEMMA HandsInside ==
    ASSUME NEW p \in Procs, NEW s \in Sync, NEW m, UpStep(p, s, m), NEW h \in Procs, Hands(s, h)
    PROVE  /\ h # p /\ Inside(h)' /\ ~Inside(h)
           /\ \A q \in Procs : q # p /\ q # h => (Inside(q)' <=> Inside(q))
<1>1. /\ Waits(h, s) /\ h # p /\ pc[h] = "down_resume" /\ h \in All /\ Procs \subseteq All
      /\ wait_state' = [wait_state EXCEPT ![h] = "0"] /\ UNCHANGED <<ret, on>>
      /\ wait_state \in [All -> WaitState]
      /\ \A q \in Procs : q # p => pc'[q] = pc[q]
  BY UpPlaces, Members DEF Hands, UpStep, SyncInv, SchedPart, SchedTypeOK
<1>2. \A q \in Procs : wait_state'[q] = IF q = h THEN "0" ELSE wait_state[q]
  BY <1>1
<1>3. Inside(h)' /\ ~Inside(h)
  BY <1>1, <1>2 DEF Inside, Granted, Waits
<1>4. ASSUME NEW q \in Procs, q # p, q # h PROVE Inside(q)' <=> Inside(q)
  BY <1>1, <1>2, <1>4, InsideFrame
<1> QED BY <1>1, <1>3, <1>4

(* Who signals and who waits does not depend on the scheduler.              *)
LEMMA UpCounts ==
    ASSUME NEW p \in Procs, NEW s \in Sync, NEW m, UpStep(p, s, m)
    PROVE  \A q \in Procs : q # p => /\ Signalling(q)' <=> Signalling(q)
                                     /\ Waiting(q)' <=> Waiting(q)
<1>1. UNCHANGED ret /\ \A q \in Procs : q # p => pc'[q] = pc[q]
  BY UpPlaces DEF UpStep
<1> QED BY <1>1 DEF Signalling, Waiting, DownTo

(* The monitor is handed on: to a signaller if there is one, to a thread at *)
(* the entrance if there is one, and is free otherwise.                     *)
LEMMA Handover ==
    ASSUME NEW p \in Procs, NEW m, UpStep(p, Successor, m), phase = "condvar",
           Inside(p), ~Inside(p)', ~Signalling(p), ~Signalling(p)',
           UNCHANGED next_count,
           \A q \in Procs : q # p => count'[q] = count[q],
           CountOk(p)'
    PROVE  MonitorPart'
<1> DEFINE s == Successor
<1>1. /\ s \in Sync /\ s \in {MUTEX, NEXT} /\ MUTEX \in Sync /\ NEXT \in Sync /\ MUTEX # NEXT
  BY Members DEF Successor
<1>2. /\ SyncInv /\ current = p /\ UNCHANGED phase /\ TypePart /\ PlacePart /\ SemPart
      /\ value \in [Sync -> Nat]
  BY Members DEF UpStep, SyncInv, TypePart, SemTypeOK
<1>3. /\ value[NEXT] = 0 /\ value[MUTEX] = 0
      /\ \A q \in Procs : Inside(q) => q = p
      /\ next_count = Cardinality(Signallers)
      /\ \A q \in Procs : CountOk(q)
  BY <1>2 DEF SyncInv, MonitorPart, OneOwner
<1> HIDE DEF s
<1>4. UpStep(p, s, m)
  BY DEF s
<1>5. /\ Adds(s) \/ \E h \in Procs : Hands(s, h)
      /\ \A q \in Procs : q # p => pc'[q] = pc[q]
  BY <1>1, <1>4, UpPlaces
<1>6. \A q \in Procs : q # p => /\ Signalling(q)' <=> Signalling(q)
                                /\ Waiting(q)' <=> Waiting(q)
  BY <1>1, <1>4, UpCounts
<1>7. next_count' = Cardinality(Signallers')
  <2>1. Signallers' = Signallers
    BY <1>6 DEF Signallers
  <2> QED BY <2>1, <1>3
<1>8. \A q \in Procs : CountOk(q)'
  BY <1>3, <1>6 DEF CountOk
<1>9. s = NEXT => wait_queue[s] # <<>>
  <2> SUFFICES ASSUME s = NEXT PROVE wait_queue[s] # <<>>
    OBVIOUS
  <2>1. next_count > 0
    BY <1>1 DEF s, Successor
  <2>2. Signallers # {}
    BY <2>1, <1>3, FS_EmptySet
  <2>3. PICK q \in Procs : Signalling(q)
    BY <2>2 DEF Signallers
  <2>4. q # p /\ PlaceOk(q) /\ ~Inside(q)
    BY <2>3, <1>2, <1>3 DEF PlacePart
  <2>5. pc[q] = "down_resume" /\ ret[q] = "signaled"
    BY <2>3, <2>4, <1>2 DEF PlaceOk, OffCpu, Signalling, DownTo
  <2>6. Waits(q, on[q]) /\ on[q] = NEXT
    BY <2>4, <2>5 DEF Inside, Granted, PlaceOk, InDown, DownOk
  <2>7. q \in ToSet(wait_queue[NEXT])
    BY <2>6, <1>1, <1>2 DEF SemPart
  <2>8. ToSet(<<>>) = {}
    BY DEF ToSet
  <2> QED BY <2>7, <2>8
<1>10. CASE Adds(s)
  <2>1. s = MUTEX /\ value' = [value EXCEPT ![s] = @ + 1] /\ UNCHANGED wait_state
    BY <1>1, <1>9, <1>10 DEF Adds
  <2>2. value'[MUTEX] = 1 /\ value'[NEXT] = 0
    BY <2>1, <1>1, <1>2, <1>3
  <2>3. \A q \in Procs : q # p => (Inside(q)' <=> Inside(q))
    BY <2>1, <1>5, InsideFrame DEF UpStep
  <2>4. OneOwner'
    BY <2>2, <2>3, <1>3 DEF OneOwner
  <2> QED BY <2>2, <2>4, <1>7, <1>8 DEF MonitorPart
<1>11. ASSUME NEW h \in Procs, Hands(s, h) PROVE MonitorPart'
  <2>1. value' = value
    BY <1>11 DEF Hands
  <2>2. /\ h # p /\ Inside(h)'
        /\ \A q \in Procs : q # p /\ q # h => (Inside(q)' <=> Inside(q))
    BY <1>1, <1>4, <1>11, HandsInside
  <2>3. \A q \in Procs : Inside(q)' => q = h
    BY <2>2, <1>3
  <2>4. OneOwner'
    BY <2>1, <2>2, <2>3, <1>3 DEF OneOwner
  <2> QED BY <2>1, <2>4, <1>3, <1>7, <1>8 DEF MonitorPart
<1> QED BY <1>5, <1>10, <1>11

LEMMA LeaveInv ==
    ASSUME SyncInv, NEW p \in Procs, Leave(p) PROVE SyncInv'
<1> DEFINE m == IF pc[p] = "leave_take" THEN "eat" ELSE "think"
           s == Successor
<1>1. /\ TypePart /\ MealPart /\ MonitorPart /\ MealOk(p) /\ s \in {MUTEX, NEXT} /\ s \in Sync
  BY Members DEF SyncInv, MealPart, Successor
<1>2. /\ phase = "condvar" /\ current = p /\ pc[p] \in {"leave_take", "leave_put"}
      /\ pc' = [pc EXCEPT ![p] = m] /\ up(s)
      /\ UNCHANGED <<phase, ret, cont, on, iter, phi_state, next_count, count, waited>>
  BY DEF Leave, Up, Step, At, Goto, threadVars, phiVars
<1>3. UpStep(p, s, m)
  BY <1>2 DEF UpStep, Calls, InNap, InDown, InExit, InWait, OfCondvar, OfSema
<1> HIDE DEF s
<1>4. SchedPart' /\ SemTypeOK' /\ PlacePart' /\ SemPart' /\ pc'[p] = m
  BY <1>1, <1>3, UpPlaces
<1>5. TypePart'
  BY <1>1, <1>2, <1>4 DEF TypePart, PC
<1>6. MealPart'
  <2>1. value[S(p)] = 0 /\ value'[S(p)] = 0
    <3>1. value[S(p)] = 0
      BY <1>1, <1>2 DEF MealOk, OfSema
    <3>2. Adds(s) \/ \E h \in Procs : Hands(s, h)
      BY <1>1, <1>3, UpPlaces
    <3> QED BY <3>1, <3>2, <1>1, Members DEF Adds, Hands, TypePart, SemTypeOK
  <2>2. MealOk(p)'
    BY <2>1, <1>1, <1>2, <1>4 DEF MealOk, Thinks, Dines, Hungers, OfSema, InNap, InDown
  <2> QED BY <2>2, <1>1, <1>2, <1>3, UpMeals
<1>7. MonitorPart'
  <2>1. /\ Inside(p) /\ ~Inside(p)' /\ ~Signalling(p) /\ ~Signalling(p)'
        /\ ~Waiting(p) /\ ~Waiting(p)'
    BY <1>2, <1>4 DEF Inside, Granted, Signalling, Waiting, DownTo
  <2>2. CountOk(p)'
    BY <2>1, <1>1, <1>2 DEF MonitorPart, CountOk
  <2> QED BY <2>1, <2>2, <1>2, <1>3, Handover DEF s
<1> QED BY <1>4, <1>5, <1>6, <1>7 DEF SyncInv

(* cond_wait: the thread counts itself and hands the monitor on.            *)
LEMMA CheckSelfInv ==
    ASSUME SyncInv, NEW p \in Procs, CheckSelf(p) PROVE SyncInv'
<1> DEFINE s == Successor
<1>1. /\ TypePart /\ MealPart /\ MonitorPart /\ MealOk(p) /\ s \in {MUTEX, NEXT} /\ s \in Sync
  BY Members DEF SyncInv, MealPart, Successor
<1>2. CASE phi_state[p] # "HUNGRY"
  <2>1. /\ Step(p, "check_self", "leave_take")
        /\ UNCHANGED <<schedVars, semVars, phase, ret, cont, on, iter, phi_state,
                       next_count, count, waited>>
    BY <1>2 DEF CheckSelf, Step
  <2> QED BY <2>1, <1>2, PassesInv
<1>3. CASE phi_state[p] = "HUNGRY"
  <2>1. /\ phase = "condvar" /\ current = p /\ pc[p] = "check_self"
        /\ pc' = [pc EXCEPT ![p] = "cond_wait"] /\ up(s)
        /\ count' = [count EXCEPT ![p] = @ + 1]
        /\ UNCHANGED <<phase, ret, cont, on, iter, phi_state, next_count, waited>>
    BY <1>3 DEF CheckSelf, At, Goto
  <2>2. UpStep(p, s, "cond_wait")
    BY <2>1 DEF UpStep, Calls, InNap, InDown, InExit, InWait, OfCondvar, OfSema
  <2> HIDE DEF s
  <2>3. SchedPart' /\ SemTypeOK' /\ PlacePart' /\ SemPart' /\ pc'[p] = "cond_wait"
    BY <1>1, <2>2, UpPlaces
  <2>4. /\ count[p] = 0 /\ count' \in [Procs -> Nat] /\ count'[p] = 1
        /\ \A q \in Procs : q # p => count'[q] = count[q]
    <3>1. ~Waiting(p)
      BY <2>1 DEF Waiting, DownTo
    <3>2. count[p] = 0
      BY <3>1, <1>1, <2>1 DEF MonitorPart, CountOk
    <3> QED BY <3>2, <2>1, <1>1 DEF TypePart
  <2>5. TypePart'
    BY <1>1, <2>1, <2>3, <2>4 DEF TypePart, PC
  <2>6. MealPart'
    <3>1. value[S(p)] = 0 /\ value'[S(p)] = 0
      <4>1. value[S(p)] = 0
        BY <1>1, <2>1 DEF MealOk, OfSema
      <4>2. Adds(s) \/ \E h \in Procs : Hands(s, h)
        BY <1>1, <2>2, UpPlaces
      <4> QED BY <4>1, <4>2, <1>1, Members DEF Adds, Hands, TypePart, SemTypeOK
    <3>2. MealOk(p)'
      BY <3>1, <1>3, <2>1, <2>3 DEF MealOk, Thinks, Dines, Hungers, OfSema, InNap, InDown
    <3> QED BY <3>2, <1>1, <2>1, <2>2, UpMeals
  <2>7. MonitorPart'
    <3>1. /\ Inside(p) /\ ~Inside(p)' /\ ~Signalling(p) /\ ~Signalling(p)' /\ Waiting(p)'
      BY <2>1, <2>3 DEF Inside, Granted, Signalling, Waiting, DownTo
    <3>2. CountOk(p)'
      BY <3>1, <2>4 DEF CountOk
    <3> QED BY <3>1, <3>2, <2>1, <2>2, <2>4, Handover DEF s
  <2> QED BY <2>3, <2>5, <2>6, <2>7 DEF SyncInv
<1> QED BY <1>2, <1>3

-----------------------------------------------------------------------------
(* A philosopher is let through to its meal: by itself, between the test    *)
(* and its down, or by a neighbour, while it waits.                         *)
LEMMA UpEats ==
    ASSUME NEW p \in Procs, NEW i \in Procs, NEW m, UpStep(p, S(i), m),
           CanEat(i), Become(i, "EATING"),
           i # p => MealOk(p)',
           i = p => pc[p] = "test_self" /\ m = "release"
    PROVE  /\ MealPart'
           /\ i # p => Hands(S(i), i) /\ value' = value
<1>1. /\ S(i) \in Sync /\ \A q \in Procs : S(q) = S(i) => q = i
      /\ Procs \subseteq All
  BY Members
<1>2. /\ MealPart /\ TypePart /\ PlacePart /\ SemPart /\ current = p /\ UNCHANGED ret
      /\ NoNeighbours
  BY DEF UpStep, SyncInv, MealPart
<1>3. /\ phi_state' = [phi_state EXCEPT ![i] = "EATING"]
      /\ phi_state'[i] = "EATING" /\ \A q \in Procs : q # i => phi_state'[q] = phi_state[q]
      /\ value \in [Sync -> Nat] /\ wait_state \in [All -> WaitState]
  BY <1>2, Members DEF Become, TypePart, SemTypeOK, UpStep, SyncInv, SchedPart, SchedTypeOK
<1>4. /\ Adds(S(i)) \/ \E h \in Procs : Hands(S(i), h)
      /\ pc'[p] = m /\ \A q \in Procs : q # p => pc'[q] = pc[q]
  BY <1>1, UpPlaces
<1>5. \A h \in Procs : Hands(S(i), h) => h = i /\ h # p
  <2> SUFFICES ASSUME NEW h \in Procs, Hands(S(i), h) PROVE h = i /\ h # p
    OBVIOUS
  <2>1. on[h] = S(i) /\ DownOk(h)
    BY DEF Hands, Waits
  <2>2. on[h] # MUTEX /\ on[h] # NEXT
    BY <2>1, Members
  <2>3. S(h) = S(i)
    BY <2>1, <2>2 DEF DownOk
  <2> QED BY <2>3, <1>1, <1>2 DEF Hands
<1>6. NoNeighbours'
  <2>1. ASSUME NEW q \in Procs, phi_state'[q] = "EATING"
        PROVE  phi_state'[LEFT(q)] # "EATING" /\ phi_state'[RIGHT(q)] # "EATING"
    <3>1. /\ LEFT(q) \in Procs /\ RIGHT(q) \in Procs /\ LEFT(q) # q /\ RIGHT(q) # q
          /\ LEFT(q) = i <=> q = RIGHT(i)
          /\ LEFT(i) = q <=> i = RIGHT(q)
      BY Table
    <3> QED BY <3>1, <2>1, <1>2, <1>3 DEF NoNeighbours, CanEat
  <2> QED BY <2>1 DEF NoNeighbours
<1>7. CASE i = p
  <2>1. pc[p] = "test_self" /\ m = "release" /\ value[S(p)] = 0
    <3>1. MealOk(p) /\ pc[p] = "test_self" /\ m = "release"
      BY <1>2, <1>7 DEF MealPart
    <3> QED BY <3>1 DEF MealOk, OfSema
  <2>2. Adds(S(p))
    BY <1>4, <1>5, <1>7
  <2>3. value'[S(p)] = 1 /\ UNCHANGED wait_state
        /\ \A q \in Procs : q # p => value'[S(q)] = value[S(q)]
    BY <2>1, <2>2, <1>1, <1>3, <1>7, Members DEF Adds
  <2>4. MealOk(p)'
    BY <2>1, <2>3, <1>3, <1>4, <1>7 DEF MealOk, Thinks, Dines, Hungers, OfSema, InNap, InDown
  <2>5. ASSUME NEW q \in Procs, q # p PROVE MealOk(q)'
    <3>1. MealOk(q)
      BY <1>2 DEF MealPart
    <3> QED BY <3>1, <2>3, <2>5, <1>2, <1>3, <1>4, <1>7, MealFrame
  <2> QED BY <2>4, <2>5, <1>6, <1>7 DEF MealPart
<1>8. CASE i # p
  <2>1. Waits(i, S(i)) /\ pc[i] = "down_resume" /\ ret[i] \in {"eat", "cond_waited"}
    BY <1>2, <1>8, HungryWaits DEF CanEat, Waits
  <2>2. wait_queue[S(i)] # <<>>
    <3>1. i \in ToSet(wait_queue[S(i)])
      BY <2>1, <1>1, <1>2 DEF SemPart
    <3>2. ToSet(<<>>) = {}
      BY DEF ToSet
    <3> QED BY <3>1, <3>2
  <2>3. Hands(S(i), i)
    BY <2>2, <1>4, <1>5 DEF Adds
  <2>4. /\ value' = value /\ wait_state'[i] = "0"
        /\ \A q \in Procs : q # i => wait_state'[q] = wait_state[q]
    BY <2>3, <1>1, <1>3 DEF Hands
  <2>5. ASSUME NEW q \in Procs PROVE MealOk(q)'
    <3>1. MealOk(q)
      BY <1>2 DEF MealPart
    <3>2. CASE q = p
      BY <3>2, <1>8
    <3>3. CASE q = i
      BY <3>1, <3>3, <2>1, <2>4, <1>2, <1>3, <1>4, <1>8
         DEF MealOk, Thinks, Dines, Hungers, OfSema, InNap, InDown
    <3>4. CASE q # p /\ q # i
      BY <3>1, <3>4, <2>4, <1>2, <1>3, <1>4, MealFrame
    <3> QED BY <3>2, <3>3, <3>4
  <2> QED BY <2>3, <2>4, <2>5, <1>6 DEF MealPart
<1> QED BY <1>7, <1>8

(* Testing a neighbour does not change the tester's own meal.               *)
LEMMA TesterMeal ==
    ASSUME NEW p \in Procs, NEW i \in Procs, NEW m, UpStep(p, S(i), m), i # p,
           Become(i, "EATING"), pc[p] \in {"test_left", "test_right"},
           m \in {"test_right", "leave_put", "signal"}
    PROVE  MealOk(p)'
<1>1. /\ S(i) \in Sync /\ S(p) \in Sync /\ S(p) # S(i)
  BY Members
<1>2. MealOk(p) /\ value \in [Sync -> Nat] /\ phi_state \in [Procs -> {"THINKING", "HUNGRY", "EATING"}]
  BY Members DEF UpStep, SyncInv, MealPart, TypePart, SemTypeOK
<1>3. value[S(p)] = 0 /\ phi_state[p] = "THINKING" /\ phi_state'[p] = "THINKING"
  BY <1>2 DEF MealOk, OfSema, Thinks, Become
<1>4. pc'[p] = m /\ (Adds(S(i)) \/ \E h \in Procs : Hands(S(i), h))
  BY <1>1, UpPlaces
<1>5. value'[S(p)] = 0
  BY <1>1, <1>2, <1>3, <1>4 DEF Adds, Hands
<1> QED BY <1>3, <1>4, <1>5 DEF MealOk, Thinks, Dines, Hungers, OfSema, InNap, InDown

LEMMA TestSemaInv ==
    ASSUME SyncInv, NEW p \in Procs, NEW l, NEW i \in Procs, NEW m, TestSema(p, l, i, m),
           \/ l = "test_self" /\ i = p /\ m = "release"
           \/ l = "test_left" /\ i # p /\ m = "test_right"
           \/ l = "test_right" /\ i # p /\ m = "leave_put"
    PROVE  SyncInv'
<1>1. TypePart /\ S(i) \in Sync
  BY Members DEF SyncInv
<1>2. /\ phase = "sema" /\ current = p /\ pc[p] = l /\ pc' = [pc EXCEPT ![p] = m] /\ Step(p, l, m)
      /\ UNCHANGED <<phase, ret, cont, on, iter, next_count, count, waited>>
  BY DEF TestSema, Step, At, Goto
<1>3. CASE CanEat(i)
  <2>1. Become(i, "EATING") /\ up(S(i))
    BY <1>3 DEF TestSema
  <2>2. UpStep(p, S(i), m)
    BY <2>1, <1>2 DEF UpStep, Calls, InNap, InDown, InExit, InWait, OfCondvar, OfSema
  <2>3. SchedPart' /\ SemTypeOK' /\ PlacePart' /\ SemPart'
    BY <2>2, <1>1, UpPlaces
  <2>4. TypePart'
    BY <2>1, <2>3, <1>1, <1>2 DEF TypePart, Become, PC
  <2>5. i # p => MealOk(p)'
    BY <2>1, <2>2, <1>2, TesterMeal
  <2>6. MealPart'
    BY <2>1, <2>2, <2>5, <1>2, <1>3, UpEats
  <2> QED BY <2>3, <2>4, <2>6, <1>2 DEF SyncInv, MonitorPart
<1>4. CASE ~CanEat(i)
  <2>1. UNCHANGED <<schedVars, semVars, phi_state>>
    BY <1>4 DEF TestSema
  <2> QED BY <2>1, <1>2, PassesInv
<1> QED BY <1>3, <1>4

(* cond_signal: the monitor goes to the waiter, the signaller will wait on  *)
(* next.                                                                    *)
LEMMA TestCondvarInv ==
    ASSUME SyncInv, NEW p \in Procs, NEW l, NEW i \in Procs, NEW m, TestCondvar(p, l, i, m),
           \/ l = "test_self" /\ i = p /\ m = "check_self"
           \/ l = "test_left" /\ i # p /\ m = "test_right"
           \/ l = "test_right" /\ i # p /\ m = "leave_put"
    PROVE  SyncInv'
<1>1. /\ TypePart /\ PlacePart /\ MealPart /\ MonitorPart /\ S(i) \in Sync
      /\ count \in [Procs -> Nat]
  BY Members DEF SyncInv, TypePart
<1>2. /\ phase = "condvar" /\ current = p /\ pc[p] = l /\ At(p, l)
      /\ UNCHANGED <<phase, ret, on, iter, count, waited>>
  BY DEF TestCondvar, At
<1>3. CountOk(i)
  BY <1>1, <1>2 DEF MonitorPart
<1>4. i = p => ~Waiting(i)
  BY <1>2 DEF Waiting, DownTo
<1>5. CanEat(i) /\ i # p => Waiting(i)
  BY <1>1, <1>2, HungryWaits DEF CanEat
<1>6. CASE ~CanEat(i)
  <2>1. pc' = [pc EXCEPT ![p] = m] /\ UNCHANGED <<schedVars, semVars, phi_state, next_count, cont>>
    BY <1>6 DEF TestCondvar, Goto
  <2>2. Step(p, l, m)
    BY <2>1, <1>2 DEF Step, Goto
  <2> QED BY <2>1, <2>2, <1>2, PassesInv
<1>7. CASE CanEat(i) /\ count[i] = 0
  <2>1. i = p
    BY <1>3, <1>5, <1>7 DEF CountOk
  <2>2. /\ pc' = [pc EXCEPT ![p] = m] /\ Become(i, "EATING")
        /\ UNCHANGED <<schedVars, semVars, next_count, cont>>
    BY <1>7 DEF TestCondvar, Goto
  <2>3. Step(p, "test_self", "check_self")
    BY <2>1, <2>2, <1>2 DEF Step, Goto
  <2> QED BY <2>1, <2>2, <2>3, <1>2, <1>7, TestsSelfInv
<1>8. CASE CanEat(i) /\ count[i] # 0
  <2>1. i # p /\ count[i] > 0
    BY <1>1, <1>3, <1>4, <1>8 DEF CountOk
  <2>2. /\ Become(i, "EATING") /\ next_count' = next_count + 1 /\ up(S(i))
        /\ cont' = [cont EXCEPT ![p] = m] /\ pc' = [pc EXCEPT ![p] = "signal"]
    BY <1>8, <2>1 DEF TestCondvar, Goto
  <2>3. cont'[p] = m /\ \A q \in Procs : q # p => cont'[q] = cont[q]
    BY <2>2, <1>1, Members DEF TypePart
  <2>4. UpStep(p, S(i), "signal")
    BY <2>1, <2>2, <2>3, <1>2 DEF UpStep, Calls, InNap, InDown, InExit, InWait, OfCondvar, OfSema
  <2>5. SchedPart' /\ SemTypeOK' /\ PlacePart' /\ SemPart' /\ pc'[p] = "signal"
    BY <2>4, <1>1, UpPlaces
  <2>6. TypePart'
    BY <2>1, <2>2, <2>5, <1>1, <1>2 DEF TypePart, Become, PC
  <2>7. MealOk(p)'
    BY <2>1, <2>2, <2>4, <1>2, TesterMeal
  <2>8. MealPart' /\ Hands(S(i), i) /\ value' = value
    BY <2>1, <2>2, <2>4, <2>7, <1>8, UpEats
  <2>9. MonitorPart'
    <3>1. /\ value[NEXT] = 0 /\ OneOwner /\ next_count = Cardinality(Signallers)
          /\ \A q \in Procs : CountOk(q)
      BY <1>1, <1>2 DEF MonitorPart
    <3>2. /\ Inside(p) /\ ~Inside(p)' /\ ~Signalling(p) /\ Signalling(p)'
          /\ ~Waiting(p) /\ ~Waiting(p)'
      BY <2>1, <2>5, <1>2 DEF Inside, Granted, Signalling, Waiting, DownTo
    <3>3. /\ Inside(i)' /\ \A q \in Procs : q # p /\ q # i => (Inside(q)' <=> Inside(q))
      BY <2>4, <2>8, <1>1, HandsInside
    <3>4. \A q \in Procs : q # p => /\ Signalling(q)' <=> Signalling(q)
                                    /\ Waiting(q)' <=> Waiting(q)
      BY <2>4, <1>1, UpCounts
    <3>5. OneOwner'
      <4>1. value[MUTEX] = 0 /\ \A q \in Procs : Inside(q) => q = p
        BY <3>1, <3>2 DEF OneOwner
      <4>2. \A q \in Procs : Inside(q)' => q = i
        BY <4>1, <3>2, <3>3
      <4> QED BY <4>1, <4>2, <3>3, <2>8 DEF OneOwner
    <3>6. next_count' = Cardinality(Signallers')
      <4>1. \A q \in Procs \ {p} : Signalling(q)' <=> Signalling(q)
        BY <3>4
      <4>2. next_count' = next_count + (IF Signalling(p)' THEN 1 ELSE 0)
                                     - (IF Signalling(p) THEN 1 ELSE 0)
        BY <3>2, <2>2, <1>1 DEF TypePart
      <4> QED BY <4>1, <4>2, <3>1, Counting
    <3>7. \A q \in Procs : CountOk(q)'
      BY <3>1, <3>2, <3>4, <1>2 DEF CountOk
    <3> QED BY <3>1, <3>5, <3>6, <3>7, <2>8 DEF MonitorPart
  <2> QED BY <2>5, <2>6, <2>8, <2>9 DEF SyncInv
<1> QED BY <1>6, <1>7, <1>8

-----------------------------------------------------------------------------
(* down: the places that call it, the semaphore, and where it returns to.   *)
Downs(p, l, s, m) ==
    \/ l = "take" /\ s = MUTEX /\ m = "hungry"
    \/ l = "put" /\ s = MUTEX /\ m = "full"
    \/ l = "acquire" /\ s = S(p) /\ m = "eat"
    \/ l = "signal" /\ s = NEXT /\ m = "signaled"
    \/ l = "cond_wait" /\ s = S(p) /\ m = "cond_waited"

LEMMA DownFacts ==
    ASSUME SyncInv, NEW p \in Procs, NEW l, NEW s, NEW m, Downs(p, l, s, m), current = p, pc[p] = l
    PROVE  /\ s \in Sync /\ m \in PC \ Calls /\ pc[p] \notin Calls
           /\ state[p] = "RUNNABLE" /\ wait_state[p] = "0" /\ p \in All
           /\ l = "acquire" => phase = "sema"
           /\ l \in {"signal", "cond_wait"} => phase = "condvar" /\ value[s] = 0
           /\ l # "acquire" => value[S(p)] = 0
           /\ ~(p < waited) /\ phase # "done" /\ ~(expires[p] > 0 \/ p \in expired)
<1>1. /\ SchedPart /\ TypePart /\ PlacePart /\ MealOk(p) /\ PlaceOk(p) /\ MonitorPart
  BY DEF SyncInv, MealPart, PlacePart
<1>2. s \in Sync /\ m \in PC \ Calls /\ pc[p] \notin Calls /\ p \in All
  BY Members DEF Downs, PC, Calls, InNap, InDown, InExit, InWait
<1>3. state[p] = "RUNNABLE" /\ wait_state[p] = "0"
  BY <1>1, <1>2, RunsHere DEF Calls, InNap, InDown
<1>4. (l = "acquire" => phase = "sema") /\ (l \in {"signal", "cond_wait"} => phase = "condvar")
  BY <1>1, WhichHalf DEF OfSema, OfCondvar
<1>5. l # "acquire" => value[S(p)] = 0
  BY <1>1 DEF MealOk, OfSema, Downs
<1>6. l \in {"signal", "cond_wait"} => value[s] = 0
  BY <1>1, <1>4, <1>5 DEF MonitorPart, Downs
<1>7. ~(p < waited) /\ phase # "done" /\ ~(expires[p] > 0 \/ p \in expired)
  BY <1>1, <1>2 DEF PlaceOk, Calls
<1> QED BY <1>2, <1>3, <1>4, <1>5, <1>6, <1>7

(* down finds a unit: only the mutex, which makes the thread the owner of   *)
(* the monitor, and s[p] after the test that let p eat, have one.           *)
LEMMA DownTakesInv ==
    ASSUME SyncInv, NEW p \in Procs, NEW l, NEW s, NEW m, Downs(p, l, s, m), At(p, l),
           down_takes(s), Goto(p, m), UNCHANGED <<ret, on>>,
           UNCHANGED <<phase, cont, iter, phiVars, waited>>
    PROVE  SyncInv'
<1>1. /\ SchedPart /\ TypePart /\ PlacePart /\ SemPart /\ MealPart /\ MonitorPart
      /\ MealOk(p) /\ PlaceOk(p)
  BY DEF SyncInv, MealPart, PlacePart
<1>2. /\ current = p /\ pc[p] = l /\ pc' = [pc EXCEPT ![p] = m]
      /\ value[s] > 0 /\ value' = [value EXCEPT ![s] = @ - 1]
      /\ UNCHANGED <<schedVars, wait_queue, wakeup_flags, ret, on, phase, cont, iter, waited>>
      /\ UNCHANGED <<phi_state, next_count, count>>
      /\ UNCHANGED <<state, wait_state, current, expires, expired>>
  BY DEF At, down_takes, Goto, phiVars, schedVars
<1>3. /\ s \in Sync /\ m \in PC \ Calls /\ pc[p] \notin Calls
      /\ state[p] = "RUNNABLE" /\ wait_state[p] = "0" /\ p \in All
      /\ l = "acquire" => phase = "sema"
      /\ l \in {"signal", "cond_wait"} => phase = "condvar" /\ value[s] = 0
      /\ l # "acquire" => value[S(p)] = 0
      /\ ~(p < waited) /\ phase # "done" /\ ~(expires[p] > 0 \/ p \in expired)
  BY <1>2, DownFacts
<1>4. l \in {"take", "put", "acquire"}
  BY <1>2, <1>3 DEF Downs
<1>5. /\ value \in [Sync -> Nat] /\ value' \in [Sync -> Nat] /\ value'[s] = value[s] - 1
      /\ \A r \in Sync : r # s => value'[r] = value[r]
      /\ pc \in [All -> PC] /\ pc'[p] = m /\ \A q \in All : q # p => pc'[q] = pc[q]
  <2>1. value \in [Sync -> Nat] /\ pc \in [All -> PC]
    BY <1>1, Members DEF TypePart, SemTypeOK
  <2>2. value[s] - 1 \in Nat
    BY <2>1, <1>2, <1>3
  <2> QED BY <2>1, <2>2, <1>2, <1>3
<1>6. SchedPart'
  BY <1>1, <1>2, SchedStays
<1>7. TypePart'
  <2>1. m \in PC
    BY <1>3
  <2>2. pc' \in [All -> PC]
    BY <2>1, <1>2, <1>5
  <2>3. SemTypeOK'
    BY <1>1, <1>2, <1>5, Members DEF TypePart, SemTypeOK
  <2> QED BY <2>2, <2>3, <1>1, <1>2 DEF TypePart
<1>8. PlacePart'
  <2>1. ASSUME NEW q \in Procs PROVE PlaceOk(q)'
    <3>1. PlaceOk(q) /\ q \in All
      BY <1>1, Members DEF PlacePart
    <3>2. CASE q # p
      <4>1. Stays(q) /\ pc[q] \in OffCpu
        BY <3>1, <3>2, <1>2, <1>5 DEF Stays, PlaceOk
      <4> QED BY <4>1, <3>1, <1>2, PlaceFrame
    <3>3. CASE q = p
      <4>1. m \in {"hungry", "full", "eat"} /\ ~Signalling(p)'
        BY <1>3, <1>4, <1>5 DEF Downs, Signalling, DownTo, Calls, InDown
      <4> QED BY <4>1, <3>3, <1>2, <1>3, <1>5
              DEF PlaceOk, InNap, InDown, InExit, InWait, OfSema, OfCondvar
    <3> QED BY <3>2, <3>3
  <2>2. pc'[idleproc] = pc[idleproc] /\ pc'[initproc] = pc[initproc]
    BY <1>5, Members
  <2> QED BY <2>1, <2>2, <1>1, <1>2, <1>3 DEF PlacePart
<1>9. SemPart'
  <2>1. \A q \in Procs, r \in Sync : Waits(q, r)' <=> Waits(q, r)
    BY <1>2 DEF Waits
  <2>2. ASSUME NEW r \in Sync
        PROVE  /\ value'[r] > 0 => wait_queue'[r] = <<>>
               /\ NoRepeat(wait_queue'[r])
               /\ ToSet(wait_queue'[r]) = {q \in Procs : Waits(q, r)'}
    <3>1. value'[r] > 0 => value[r] > 0
      BY <1>5
    <3> QED BY <3>1, <2>1, <1>1, <1>2 DEF SemPart
  <2>3. ASSUME NEW q \in Procs
        PROVE  /\ pc'[q] = "down_schedule" => wait_state'[q] = "WT_KSEM"
               /\ pc'[q] = "down_resume" /\ wait_state'[q] # "WT_KSEM"
                  => wakeup_flags'[q] = "WT_KSEM"
    BY <1>1, <1>2, <1>3, <1>5, Members DEF SemPart, Calls, InDown
  <2> QED BY <2>2, <2>3 DEF SemPart
<1>10. MealPart'
  <2>1. ASSUME NEW q \in Procs, q # p PROVE MealOk(q)'
    <3>1. MealOk(q) /\ q \in All /\ S(q) # s
      BY <2>1, <1>1, <1>4, Members DEF MealPart, Downs
    <3>2. value'[S(q)] = value[S(q)]
      BY <3>1, <1>5, Members
    <3> QED BY <3>1, <3>2, <2>1, <1>2, <1>5, MealFrame
  <2>2. MealOk(p)'
    <3>1. CASE l = "acquire"
      <4>1. m = "eat" /\ s = S(p)
        BY <3>1 DEF Downs
      <4>2. phi_state[p] = "EATING" /\ value[S(p)] = 1
        BY <4>1, <3>1, <1>1, <1>2 DEF MealOk, OfSema
      <4>3. value'[S(p)] = 0
        BY <4>1, <4>2, <1>5
      <4> QED BY <4>1, <4>2, <4>3, <1>2, <1>5
              DEF MealOk, Thinks, Dines, Hungers, OfSema, InNap, InDown
    <3>2. CASE l # "acquire"
      <4>1. s = MUTEX /\ S(p) # MUTEX /\ S(p) \in Sync
        BY <3>2, <1>4, Members DEF Downs
      <4>2. value'[S(p)] = 0
        BY <4>1, <3>2, <1>3, <1>5
      <4>3. \/ m = "hungry" /\ phi_state[p] = "THINKING"
            \/ m = "full" /\ phi_state[p] = "EATING"
        BY <3>2, <1>1, <1>2, <1>4 DEF Downs, MealOk, Thinks, Dines
      <4> QED BY <4>2, <4>3, <1>2, <1>5
              DEF MealOk, Thinks, Dines, Hungers, OfSema, InNap, InDown
    <3> QED BY <3>1, <3>2
  <2>3. NoNeighbours'
    BY <1>1, <1>2 DEF MealPart, NoNeighbours
  <2> QED BY <2>1, <2>2, <2>3 DEF MealPart
<1>11. MonitorPart'
  <2> SUFFICES ASSUME phase = "condvar"
               PROVE  /\ value'[NEXT] = 0 /\ OneOwner'
                      /\ next_count' = Cardinality(Signallers')
                      /\ \A q \in Procs : CountOk(q)'
    BY <1>2 DEF MonitorPart
  <2>1. /\ value[NEXT] = 0 /\ OneOwner /\ next_count = Cardinality(Signallers)
        /\ \A q \in Procs : CountOk(q)
    BY <1>1 DEF MonitorPart
  <2>2. s = MUTEX /\ m \in {"hungry", "full"}
    BY <1>3, <1>4 DEF Downs
  <2>3. /\ value[MUTEX] = 1 /\ \A q \in Procs : ~Inside(q)
    BY <2>1, <2>2, <1>2 DEF OneOwner
  <2>4. value'[MUTEX] = 0 /\ value'[NEXT] = 0
    BY <2>1, <2>2, <2>3, <1>5, Members
  <2>5. \A q \in Procs : q # p => /\ Inside(q)' <=> Inside(q)
                                  /\ Signalling(q)' <=> Signalling(q)
                                  /\ Waiting(q)' <=> Waiting(q)
    BY <1>2, <1>5, Members, InsideFrame
  <2>6. /\ Inside(p)' /\ ~Signalling(p) /\ ~Signalling(p)' /\ ~Waiting(p) /\ ~Waiting(p)'
    BY <2>2, <1>2, <1>4, <1>5 DEF Inside, Signalling, Waiting, DownTo
  <2>7. OneOwner'
    BY <2>3, <2>4, <2>5, <2>6 DEF OneOwner
  <2>8. Signallers' = Signallers
    BY <2>5, <2>6 DEF Signallers
  <2>9. \A q \in Procs : CountOk(q)'
    BY <2>1, <2>5, <2>6, <1>2 DEF CountOk
  <2> QED BY <2>1, <2>4, <2>7, <2>8, <2>9, <1>2
<1> QED BY <1>6, <1>7, <1>8, <1>9, <1>10, <1>11 DEF SyncInv

(* down finds none: the thread joins the queue and goes to sleep.           *)
LEMMA DownWaitsInv ==
    ASSUME SyncInv, NEW p \in Procs, NEW l, NEW s, NEW m, Downs(p, l, s, m), At(p, l),
           down_waits(p, s), Goto(p, "down_schedule"),
           ret' = [ret EXCEPT ![p] = m], on' = [on EXCEPT ![p] = s],
           UNCHANGED <<phase, cont, iter, phiVars, waited>>
    PROVE  SyncInv'
<1>1. /\ SchedPart /\ TypePart /\ PlacePart /\ SemPart /\ MealPart /\ MonitorPart
      /\ MealOk(p) /\ PlaceOk(p)
  BY DEF SyncInv, MealPart, PlacePart
<1>2. /\ current = p /\ pc[p] = l /\ pc' = [pc EXCEPT ![p] = "down_schedule"]
      /\ value[s] = 0 /\ value' = value
      /\ wait_queue' = [wait_queue EXCEPT ![s] = Append(@, p)]
      /\ wakeup_flags' = [wakeup_flags EXCEPT ![p] = "WT_INTERRUPTED"]
      /\ state' = [state EXCEPT ![p] = "SLEEPING"]
      /\ wait_state' = [wait_state EXCEPT ![p] = "WT_KSEM"]
      /\ UNCHANGED <<need_resched, current, expires, expired, irq, time_slice, run_list, panic>>
      /\ UNCHANGED <<phase, cont, iter, phi_state, next_count, count, waited>>
  BY DEF At, down_waits, Goto, phiVars, schedRest
<1>3. /\ s \in Sync /\ m \in PC \ Calls /\ pc[p] \notin Calls
      /\ state[p] = "RUNNABLE" /\ wait_state[p] = "0" /\ p \in All
      /\ l = "acquire" => phase = "sema"
      /\ l \in {"signal", "cond_wait"} => phase = "condvar"
      /\ l # "acquire" => value[S(p)] = 0
      /\ ~(p < waited) /\ phase # "done" /\ ~(expires[p] > 0 \/ p \in expired)
  BY <1>2, DownFacts
<1>4. /\ state \in [All -> ProcState] /\ wait_state \in [All -> WaitState] /\ pc \in [All -> PC]
      /\ ret \in [All -> PC] /\ on \in [All -> Sync] /\ wait_queue \in [Sync -> Seq(All)]
      /\ wakeup_flags \in [All -> {"WT_INTERRUPTED", "WT_KSEM"}]
  BY <1>1, Members DEF SchedPart, SchedTypeOK, TypePart, SemTypeOK
<1>5. /\ state'[p] = "SLEEPING" /\ wait_state'[p] = "WT_KSEM" /\ pc'[p] = "down_schedule"
      /\ ret'[p] = m /\ on'[p] = s
      /\ \A q \in All : q # p => /\ state'[q] = state[q] /\ wait_state'[q] = wait_state[q]
                                 /\ pc'[q] = pc[q] /\ ret'[q] = ret[q] /\ on'[q] = on[q]
                                 /\ wakeup_flags'[q] = wakeup_flags[q]
  BY <1>2, <1>3, <1>4
<1>6. SchedPart'
  <2>1. SchedTypeOK'
    BY <1>1, <1>2 DEF SchedPart, SchedTypeOK, ProcState, WaitState
  <2>2. QueueOk'
    BY <1>1, <1>2, <1>5 DEF SchedPart, QueueOk, Queued
  <2>3. WaitStateOk'
    BY <1>1, <1>5 DEF SchedPart, WaitStateOk
  <2> QED BY <2>1, <2>2, <2>3, <1>1, <1>2 DEF SchedPart
<1>7. /\ wait_queue'[s] = Append(wait_queue[s], p) /\ wait_queue[s] \in Seq(All)
      /\ \A r \in Sync : r # s => wait_queue'[r] = wait_queue[r]
      /\ wait_queue' \in [Sync -> Seq(All)]
  <2>1. Append(wait_queue[s], p) \in Seq(All)
    BY <1>3, <1>4
  <2> QED BY <2>1, <1>2, <1>3, <1>4
<1>8. TypePart'
  <2>1. pc' \in [All -> PC] /\ ret' \in [All -> PC] /\ on' \in [All -> Sync]
    BY <1>2, <1>3, <1>4 DEF PC
  <2>2. SemTypeOK'
    BY <1>1, <1>2, <1>4, <1>7, Members DEF TypePart, SemTypeOK
  <2> QED BY <2>1, <2>2, <1>1, <1>2 DEF TypePart
<1>9. PlacePart'
  <2>1. ASSUME NEW q \in Procs PROVE PlaceOk(q)'
    <3>1. PlaceOk(q) /\ q \in All
      BY <1>1, Members DEF PlacePart
    <3>2. CASE q # p
      <4>1. Stays(q) /\ pc[q] \in OffCpu
        BY <3>1, <3>2, <1>2, <1>5 DEF Stays, PlaceOk
      <4> QED BY <4>1, <3>1, <1>2, PlaceFrame
    <3>3. CASE q = p
      <4>1. DownOk(p)'
        BY <1>2, <1>3, <1>5 DEF Downs, DownOk
      <4>2. Signalling(p)' => cont'[p] \in {"test_right", "leave_put"}
        BY <1>1, <1>2, <1>5 DEF Downs, Signalling, DownTo, PlaceOk
      <4> QED BY <4>1, <4>2, <3>3, <1>2, <1>3, <1>5
              DEF PlaceOk, InNap, InDown, InExit, InWait, OfSema, OfCondvar
    <3> QED BY <3>2, <3>3
  <2>2. /\ pc'[idleproc] = pc[idleproc] /\ pc'[initproc] = pc[initproc]
        /\ state'[idleproc] = state[idleproc] /\ state'[initproc] = state[initproc]
        /\ wait_state'[initproc] = wait_state[initproc]
    BY <1>5, Members
  <2> QED BY <2>1, <2>2, <1>1, <1>2, <1>5 DEF PlacePart
<1>10. SemPart'
  <2>1. \A q \in Procs, r \in Sync : Waits(q, r)' <=> IF q = p THEN r = s ELSE Waits(q, r)
    BY <1>5, Members DEF Waits
  <2>2. \A r \in Sync : ~Waits(p, r)
    BY <1>3 DEF Waits
  <2>3. ASSUME NEW r \in Sync
        PROVE  /\ value'[r] > 0 => wait_queue'[r] = <<>>
               /\ NoRepeat(wait_queue'[r])
               /\ ToSet(wait_queue'[r]) = {q \in Procs : Waits(q, r)'}
    <3>1. /\ value[r] > 0 => wait_queue[r] = <<>>
          /\ NoRepeat(wait_queue[r])
          /\ ToSet(wait_queue[r]) = {q \in Procs : Waits(q, r)}
      BY <1>1 DEF SemPart
    <3>2. CASE r # s
      BY <3>1, <3>2, <2>1, <2>2, <1>2, <1>7
    <3>3. CASE r = s
      <4>1. p \notin ToSet(wait_queue[s])
        BY <3>1, <3>3, <2>2
      <4>2. /\ ToSet(wait_queue'[s]) = ToSet(wait_queue[s]) \cup {p}
            /\ NoRepeat(wait_queue'[s])
        BY <4>1, <3>1, <3>3, <1>3, <1>7, AppendQueue
      <4>3. {q \in Procs : Waits(q, s)'} = {q \in Procs : Waits(q, s)} \cup {p}
        BY <2>1, <2>2, <1>3
      <4> QED BY <4>2, <4>3, <3>1, <3>3, <1>2
    <3> QED BY <3>2, <3>3
  <2>4. ASSUME NEW q \in Procs
        PROVE  /\ pc'[q] = "down_schedule" => wait_state'[q] = "WT_KSEM"
               /\ pc'[q] = "down_resume" /\ wait_state'[q] # "WT_KSEM"
                  => wakeup_flags'[q] = "WT_KSEM"
    BY <1>1, <1>5, Members DEF SemPart
  <2> QED BY <2>3, <2>4 DEF SemPart
<1>11. MealPart'
  <2>1. ASSUME NEW q \in Procs, q # p PROVE MealOk(q)'
    <3>1. MealOk(q) /\ q \in All
      BY <1>1, Members DEF MealPart
    <3> QED BY <3>1, <2>1, <1>2, <1>5, MealFrame
  <2>2. value[S(p)] = 0
    BY <1>2, <1>3 DEF Downs
  <2>3. \/ m \in {"hungry", "signaled"} /\ phi_state[p] = "THINKING"
        \/ m = "full" /\ phi_state[p] = "EATING"
        \/ m \in {"eat", "cond_waited"} /\ phi_state[p] = "HUNGRY"
    BY <2>2, <1>1, <1>2 DEF Downs, MealOk, Thinks, Dines, Hungers, OfSema
  <2>4. MealOk(p)'
    BY <2>2, <2>3, <1>2, <1>5 DEF MealOk, Thinks, Dines, Hungers, OfSema, InNap, InDown
  <2>5. NoNeighbours'
    BY <1>1, <1>2 DEF MealPart, NoNeighbours
  <2> QED BY <2>1, <2>4, <2>5 DEF MealPart
<1>12. MonitorPart'
  <2> SUFFICES ASSUME phase = "condvar"
               PROVE  /\ value'[NEXT] = 0 /\ OneOwner'
                      /\ next_count' = Cardinality(Signallers')
                      /\ \A q \in Procs : CountOk(q)'
    BY <1>2 DEF MonitorPart
  <2>1. /\ value[NEXT] = 0 /\ OneOwner /\ next_count = Cardinality(Signallers)
        /\ \A q \in Procs : CountOk(q)
    BY <1>1 DEF MonitorPart
  <2>2. \A q \in Procs : q # p => /\ Inside(q)' <=> Inside(q)
                                  /\ Signalling(q)' <=> Signalling(q)
                                  /\ Waiting(q)' <=> Waiting(q)
    BY <1>5, Members, InsideFrame
  <2>3. /\ ~Inside(p) /\ ~Inside(p)' /\ (Signalling(p)' <=> Signalling(p))
        /\ (Waiting(p)' <=> Waiting(p))
    BY <1>2, <1>5 DEF Downs, Inside, Granted, Signalling, Waiting, DownTo
  <2>4. OneOwner' /\ Signallers' = Signallers
    BY <2>1, <2>2, <2>3, <1>2 DEF OneOwner, Signallers
  <2>5. \A q \in Procs : CountOk(q)'
    BY <2>1, <2>2, <2>3, <1>2 DEF CountOk
  <2> QED BY <2>1, <2>4, <2>5, <1>2
<1> QED BY <1>6, <1>8, <1>9, <1>10, <1>11, <1>12 DEF SyncInv

LEMMA DownInv ==
    ASSUME SyncInv, NEW p \in Procs, NEW l, NEW s, NEW m, Downs(p, l, s, m), Down(p, l, s, m)
    PROVE  SyncInv'
BY DownTakesInv, DownWaitsInv DEF Down

-----------------------------------------------------------------------------
(* Every step of the system keeps the invariant.                            *)
LEMMA NextInv == SyncInv /\ [Next]_vars => SyncInv'
<1> SUFFICES ASSUME SyncInv, [Next]_vars PROVE SyncInv'
  OBVIOUS
<1>1. CASE TimerIrq \/ TimerExpire \/ TimerTick
  BY <1>1, TimerInv
<1>2. CASE Idle \/ WaitSchedule
  <2>1. pc \in [All -> PC] /\ idleproc \in All
    BY Members DEF SyncInv, TypePart
  <2>2. CASE Idle
    <3>1. /\ current = idleproc /\ pc[current] = "idle" /\ schedule
          /\ UNCHANGED <<semVars, threadVars>> /\ pc' = pc
      BY <2>2 DEF Idle, At
    <3>2. pc' = [pc EXCEPT ![current] = "idle"]
      BY <3>1, <2>1
    <3> QED BY <3>1, <3>2, ScheduleInv
  <2>3. CASE WaitSchedule
    BY <2>3, ScheduleInv DEF WaitSchedule, Step, At, Goto
  <2> QED BY <1>2, <2>2, <2>3
<1>3. CASE Wait
  BY <1>3, WaitInv
<1>4. CASE SecondHalf
  BY <1>4, SecondHalfInv
<1>5. CASE Finish
  BY <1>5, FinishInv
<1>6. ASSUME NEW p \in Procs, ThreadStep(p) PROVE SyncInv'
  <2>1. CASE Think(p) \/ Eat(p)
    BY <2>1, NapsInv
  <2>2. CASE SleepSchedule(p) \/ DownSchedule(p) \/ ExitSchedule(p)
    BY <2>2, ScheduleInv DEF SleepSchedule, DownSchedule, ExitSchedule, Step, At, Goto
  <2>3. CASE SleepReturn(p)
    BY <2>3, SleepReturnInv
  <2>4. CASE DownResume(p)
    BY <2>4, DownResumeInv
  <2>5. CASE Hungry(p) \/ Full(p)
    BY <2>5, DeclareInv
  <2>6. CASE Take(p) \/ Put(p) \/ Acquire(p) \/ Signal(p) \/ CondWait(p)
    BY <2>6, DownInv DEF Take, Put, Acquire, Signal, CondWait, Downs
  <2>7. CASE Quit(p) \/ ExitWakeup(p)
    BY <2>7, ExitInv
  <2>8. LEFT(p) \in Procs /\ RIGHT(p) \in Procs /\ LEFT(p) # p /\ RIGHT(p) # p
    BY Table
  <2>9. CASE SemaStep(p)
    <3>1. CASE TestSema(p, "test_self", p, "release")
      BY <3>1, TestSemaInv
    <3>2. CASE TestSema(p, "test_left", LEFT(p), "test_right")
      BY <3>2, <2>8, TestSemaInv
    <3>3. CASE TestSema(p, "test_right", RIGHT(p), "leave_put")
      BY <3>3, <2>8, TestSemaInv
    <3>4. CASE Release(p)
      BY <3>4, ReleaseInv
    <3> QED BY <3>1, <3>2, <3>3, <3>4, <2>6, <2>9 DEF SemaStep
  <2>10. CASE CondvarStep(p)
    <3>1. CASE TestCondvar(p, "test_self", p, "check_self")
      BY <3>1, TestCondvarInv
    <3>2. CASE TestCondvar(p, "test_left", LEFT(p), "test_right")
      BY <3>2, <2>8, TestCondvarInv
    <3>3. CASE TestCondvar(p, "test_right", RIGHT(p), "leave_put")
      BY <3>3, <2>8, TestCondvarInv
    <3>4. CASE Signaled(p)
      BY <3>4, SignaledInv
    <3>5. CASE CheckSelf(p)
      BY <3>5, CheckSelfInv
    <3>6. CASE CondWaited(p)
      BY <3>6, CondWaitedInv
    <3>7. CASE Leave(p)
      BY <3>7, LeaveInv
    <3> QED BY <3>1, <3>2, <3>3, <3>4, <3>5, <3>6, <3>7, <2>6, <2>10 DEF CondvarStep
  <2> QED BY <1>6, <2>1, <2>2, <2>3, <2>4, <2>5, <2>6, <2>7, <2>9, <2>10 DEF ThreadStep
<1>7. CASE UNCHANGED vars
  <2>1. /\ UNCHANGED <<schedVars, semVars, ret, cont, on, iter, phiVars, phase, waited, pc>>
        /\ UNCHANGED <<state, wait_state, current, expires, expired>>
    BY <1>7 DEF vars, threadVars, schedVars
  <2>2. SchedPart /\ TypePart /\ PlacePart
    BY DEF SyncInv
  <2>3. SchedPart'
    BY <2>1, <2>2, SchedStays
  <2>4. TypePart'
    BY <2>1, <2>2 DEF TypePart, SemTypeOK, semVars, phiVars
  <2>5. PlacePart'
    <3>1. ASSUME NEW q \in Procs PROVE PlaceOk(q)'
      <4>1. PlaceOk(q) /\ Stays(q)
        BY <2>1, <2>2 DEF PlacePart, Stays
      <4>2. q # current' => pc[q] \in OffCpu
        BY <4>1, <2>1 DEF PlaceOk
      <4> QED BY <4>1, <4>2, <2>1, PlaceFrame
    <3> QED BY <3>1, <2>1, <2>2 DEF PlacePart
  <2> QED BY <2>1, <2>3, <2>4, <2>5, InitprocFrame
<1> QED BY <1>1, <1>2, <1>3, <1>4, <1>5, <1>6, <1>7 DEF Next, InitprocStep

-----------------------------------------------------------------------------
(* For every number of philosophers, of meals and every length of a nap:    *)
(* the parts of SyncInv hold whenever check_sync runs.  In particular no    *)
(* assertion of sched.c, default_sched.c, wait.c and sem.c fails.           *)
THEOREM SyncInvariant == Spec => []SyncInv
BY InitInv, NextInv, PTL DEF Spec

(* Neighbours never hold the fork between them at the same time, in either  *)
(* solution (phi_test_sema and phi_test_condvar, check_sync.c).             *)
THEOREM ForksExclusive == Spec => []NeighboursNeverEat
<1>1. SyncInv => NeighboursNeverEat
  <2> SUFFICES ASSUME SyncInv, NEW p \in Procs, Eating(p)
               PROVE  ~Eating(LEFT(p)) /\ ~Eating(RIGHT(p))
    BY DEF NeighboursNeverEat
  <2>1. \A q \in Procs : Eating(q) => phi_state[q] = "EATING"
    BY DEF SyncInv, MealPart, MealOk, Dines, Eating, InNap
  <2>2. NoNeighbours /\ LEFT(p) \in Procs /\ RIGHT(p) \in Procs
    BY Table DEF SyncInv, MealPart
  <2> QED BY <2>1, <2>2 DEF NoNeighbours
<1> QED BY <1>1, SyncInvariant, PTL

(* The wait queues hold who waits, a semaphore with units has no waiters,   *)
(* and a thread that up has woken has its unit (sem.c, wait.c).             *)
THEOREM UnitsExact == Spec => []SemOk
<1>1. SyncInv => SemOk
  <2> SUFFICES ASSUME SyncInv PROVE SemOk
    OBVIOUS
  <2>1. SchedPart /\ TypePart /\ SemPart
    BY DEF SyncInv
  <2>2. CheckSyncTypeOK
    BY <2>1 DEF SchedPart, TypePart, CheckSyncTypeOK
  <2>3. ASSUME NEW s \in Sync
        PROVE  /\ value[s] > 0 => wait_queue[s] = <<>>
               /\ \A i, j \in DOMAIN wait_queue[s] : wait_queue[s][i] = wait_queue[s][j] => i = j
               /\ ToSet(wait_queue[s]) = {p \in Procs : Waits(p, s)}
               /\ \A p \in Procs : pc[p] = "down_resume" /\ on[p] = s /\ ~Waits(p, s)
                                    => wakeup_flags[p] = "WT_KSEM"
    <3>1. \A p \in Procs : pc[p] = "down_resume" /\ on[p] = s /\ ~Waits(p, s)
                            => wakeup_flags[p] = "WT_KSEM"
      BY <2>1 DEF SemPart, Waits
    <3> QED BY <3>1, <2>1 DEF SemPart, NoRepeat
  <2> QED BY <2>2, <2>3 DEF SemOk
<1> QED BY <1>1, SyncInvariant, PTL

(* The monitor of monitor.c has one owner or is free, and its counters are  *)
(* exact.                                                                   *)
THEOREM OneInMonitor == Spec => []MonitorOk
<1>1. SyncInv => MonitorOk
  <2> SUFFICES ASSUME SyncInv, phase = "condvar"
               PROVE  /\ \A s \in Sync \ {MUTEX} : value[s] = 0
                      /\ value[MUTEX] + Cardinality({p \in Procs : Inside(p)}) = 1
                      /\ next_count = Cardinality({p \in Procs : Signalling(p)})
                      /\ \A p \in Procs : count[p] = IF Waiting(p) THEN 1 ELSE 0
    BY DEF MonitorOk
  <2>1. /\ value[NEXT] = 0 /\ OneOwner /\ next_count = Cardinality(Signallers)
        /\ \A p \in Procs : CountOk(p)
    BY DEF SyncInv, MonitorPart
  <2>2. \A p \in Procs : value[S(p)] = 0
    BY DEF SyncInv, MealPart, MealOk, PlacePart, PlaceOk
  <2>3. \A s \in Sync \ {MUTEX} : s = NEXT \/ \E p \in Procs : s = S(p)
    BY CheckSyncAssumption DEF Sync, MUTEX, NEXT, S
  <2>4. \A s \in Sync \ {MUTEX} : value[s] = 0
    BY <2>1, <2>2, <2>3
  <2> DEFINE Owners == {p \in Procs : Inside(p)}
  <2>5. CASE value[MUTEX] = 1 /\ \A p \in Procs : ~Inside(p)
    <3>1. Owners = {}
      BY <2>5
    <3>2. Cardinality(Owners) = 0
      BY <3>1, FS_EmptySet
    <3> QED BY <3>2, <2>1, <2>4, <2>5 DEF Signallers, CountOk
  <2>6. CASE value[MUTEX] = 0 /\ \E p \in Procs : Inside(p) /\ \A q \in Procs : Inside(q) => q = p
    <3>1. PICK p \in Procs : Inside(p) /\ \A q \in Procs : Inside(q) => q = p
      BY <2>6
    <3>2. Owners = {p}
      BY <3>1
    <3>3. Cardinality(Owners) = 1
      BY <3>2, FS_Singleton
    <3> QED BY <3>3, <2>1, <2>4, <2>6 DEF Signallers, CountOk
  <2> QED BY <2>1, <2>5, <2>6 DEF OneOwner
<1> QED BY <1>1, SyncInvariant, PTL

=============================================================================
