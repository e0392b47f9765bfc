---------------------------- MODULE StdinProofs ----------------------------
(***************************************************************************)
(* The keyboard of lab8 for any number of readers, keys and size of the    *)
(* ring buffer: no reader sleeps while there is something to read, the     *)
(* wait queue links live sleepers only, and the ring buffer hands out the  *)
(* keys in the order in which they were typed.                             *)
(***************************************************************************)
EXTENDS Stdin, QueueProofs

-----------------------------------------------------------------------------
(* The two routines of the scheduler that move processes, as in every proof *)
(* about a module that is composed with Sched.                              *)

(* schedule() keeps the run queue right and gives the CPU to a process that *)
(* can run; no assertion of RR_enqueue fails.                               *)
LEMMA ScheduleLemma ==
    ASSUME SchedTypeOK, QueueOk, state[idleproc] = "RUNNABLE", schedule
    PROVE  /\ SchedTypeOK' /\ wait_state' = wait_state /\ state' = state
           /\ QueueOk'
           /\ panic' = panic
           /\ state[current'] = "RUNNABLE"
<1> DEFINE runs == state[current] = "RUNNABLE"
           q == IF runs THEN Enqueued(run_list, current) ELSE run_list
           Others == Procs \cup {initproc}
           Ready == {p \in All : state[p] = "RUNNABLE"}
<1>1. /\ run_list \in Seq(Others) /\ current \in Others \cup {idleproc}
      /\ NoRepeat(run_list)
      /\ idleproc \notin Others /\ All = Others \cup {idleproc} /\ idleproc \in Ready
      /\ \A p \in Others : p \in ToSet(run_list) <=> p \in Ready /\ p # current
  BY SchedAssumption DEF SchedTypeOK, QueueOk, Queued, NoRepeat, ToSet, All
<1>2. /\ q = (IF current \in Ready /\ current # idleproc
               THEN Append(run_list, current) ELSE run_list)
      /\ runs <=> current \in Ready
  BY <1>1 DEF Enqueued
<1>3. /\ current' = (IF q = <<>> THEN idleproc ELSE Head(q))
      /\ run_list' = (IF q = <<>> THEN q ELSE Tail(q))
      /\ panic' = (IF runs THEN EnqueuePanic(current) ELSE panic)
      /\ need_resched' = [need_resched EXCEPT ![current] = FALSE]
      /\ time_slice' = (IF runs THEN Refilled(time_slice, current) ELSE time_slice)
      /\ UNCHANGED <<state, wait_state, expires, expired, irq>>
  BY DEF schedule
<1>4. /\ current' \in All /\ state[current'] = "RUNNABLE"
      /\ run_list' \in Seq(Others) /\ NoRepeat(run_list')
      /\ \A p \in All \ {idleproc} :
            p \in ToSet(run_list') <=> state[p] = "RUNNABLE" /\ p # current'
      /\ current \in Ready /\ current # idleproc => current \notin ToSet(run_list)
  <2>1. /\ current' \in Others \cup {idleproc} /\ current' \in Ready
        /\ run_list' \in Seq(Others) /\ NoRepeat(run_list')
        /\ \A p \in Others : p \in ToSet(run_list') <=> p \in Ready /\ p # current'
        /\ current \in Ready /\ current # idleproc => current \notin ToSet(run_list)
    <3>1. QueueTurn(Others, idleproc, Ready, current, run_list, q, current', run_list')
      BY <1>1, <1>2, <1>3 DEF QueueTurn
    <3> HIDE DEF q, Ready, Others
    <3> QED BY <3>1, TurnQueue
  <2> QED BY <2>1, <1>1
<1>5. panic' = panic
  BY <1>2, <1>3, <1>4 DEF EnqueuePanic, Queued, ToSet
<1>6. QueueOk'
  BY <1>3, <1>4 DEF QueueOk, Queued, NoRepeat, ToSet
<1>7. SchedTypeOK'
  <2>1. need_resched' \in [All -> BOOLEAN]
    BY <1>3 DEF SchedTypeOK
  <2>2. time_slice' \in [All -> 0..MAX_TIME_SLICE]
    BY <1>3, SchedAssumption DEF SchedTypeOK, Refilled
  <2> QED BY <1>3, <1>4, <1>5, <2>1, <2>2, <1>1 DEF SchedTypeOK
<1> QED BY <1>3, <1>4, <1>5, <1>6, <1>7

(* wakeup_proc of a process that is neither freed nor a zombie makes it     *)
(* runnable, and keeps the run queue and the wait states right.             *)
LEMMA WakeupLemma ==
    ASSUME SchedTypeOK, QueueOk, WaitStateOk, NEW p \in All, p # idleproc,
           state[p] \notin {"FREE", "ZOMBIE"}, wakeup_proc(p), current' = current
    PROVE  /\ run_list' \in Seq(Procs \cup {initproc})
           /\ time_slice' \in [All -> 0..MAX_TIME_SLICE]
           /\ state' = [state EXCEPT ![p] = "RUNNABLE"]
           /\ wait_state' = [wait_state EXCEPT ![p] = "0"]
           /\ QueueOk' /\ WaitStateOk'
           /\ panic' = panic
<1> DEFINE Others == Procs \cup {initproc}
<1>1. /\ run_list \in Seq(Others) /\ p \in Others
      /\ state \in [All -> ProcState] /\ wait_state \in [All -> WaitState]
      /\ time_slice \in [All -> 0..MAX_TIME_SLICE]
      /\ NoRepeat(run_list)
      /\ \A x \in All \ {idleproc} :
            x \in ToSet(run_list) <=> state[x] = "RUNNABLE" /\ x # current
  BY DEF SchedTypeOK, QueueOk, Queued, NoRepeat, ToSet, All
<1>2. CASE state[p] = "RUNNABLE"
  <2>1. UNCHANGED <<state, wait_state, run_list, time_slice, panic>>
    BY <1>2 DEF wakeup_proc
  <2>2. wait_state[p] = "0"
    BY <1>2 DEF WaitStateOk
  <2>3. QueueOk' /\ WaitStateOk'
    BY <2>1 DEF QueueOk, Queued, WaitStateOk
  <2> QED BY <1>1, <1>2, <2>1, <2>2, <2>3
<1>3. CASE state[p] # "RUNNABLE"
  <2>1. /\ state' = [state EXCEPT ![p] = "RUNNABLE"]
        /\ wait_state' = [wait_state EXCEPT ![p] = "0"]
        /\ run_list' = WokenQueue(p)
        /\ time_slice' = (IF p = current THEN time_slice ELSE Refilled(time_slice, p))
        /\ panic' = (IF p = current THEN panic ELSE EnqueuePanic(p))
    BY <1>3 DEF wakeup_proc, Awake
  <2>2. p \notin ToSet(run_list)
    BY <1>1, <1>3
  <2>3. panic' = panic
    BY <2>1, <2>2 DEF EnqueuePanic, Queued, ToSet
  <2>4. /\ run_list' \in Seq(Others) /\ NoRepeat(run_list')
        /\ \A x \in All \ {idleproc} :
              x \in ToSet(run_list') <=> state'[x] = "RUNNABLE" /\ x # current
    <3>1. CASE p = current
      BY <3>1, <2>1, <2>2, <1>1 DEF WokenQueue
    <3>2. CASE p # current
      <4>1. run_list' = Append(run_list, p)
        BY <3>2, <2>1 DEF WokenQueue, Enqueued
      <4>2. /\ run_list' \in Seq(Others) /\ NoRepeat(run_list')
            /\ ToSet(run_list') = ToSet(run_list) \cup {p}
        BY <4>1, <2>2, <1>1, AppendQueue
      <4> QED BY <4>2, <3>2, <2>1, <1>1
    <3> QED BY <3>1, <3>2
  <2>5. QueueOk'
    BY <2>4 DEF QueueOk, Queued, NoRepeat, ToSet
  <2>6. WaitStateOk'
    BY <2>1, <1>1 DEF WaitStateOk
  <2>7. time_slice' \in [All -> 0..MAX_TIME_SLICE]
    BY <2>1, <1>1, SchedAssumption DEF Refilled
  <2> QED BY <2>1, <2>3, <2>4, <2>5, <2>6, <2>7
<1> QED BY <1>2, <1>3

-----------------------------------------------------------------------------
(* The inductive invariant, by the parts of the state it is about: the      *)
(* scheduler; the device with the readers' buffers; the wait queue; who is  *)
(* where; and the interrupt.                                                *)

(* No process of this composition has a timer.                              *)
NoTimers == expires = [p \in All |-> 0] /\ expired = {}

SchedPart ==
    /\ panic = "no" /\ SchedTypeOK
    /\ QueueOk /\ WaitStateOk /\ NoTimers

(* What has been typed and not read is in the buffer.                       *)
BufferOk == \A i \in p_rpos..(p_wpos - 1) : stdin_buffer[i % STDIN_BUFSIZE] \in Keys

DevPart ==
    /\ stdin_buffer \in [0..(STDIN_BUFSIZE - 1) -> Keys \cup {NULL}]
    /\ p_rpos \in 0..p_wpos /\ p_wpos \in 0..MaxTyped
    /\ p_wpos - p_rpos <= STDIN_BUFSIZE
    /\ len \in [Procs -> 1..MaxLen]
    /\ buf \in [Procs -> Seq(Keys)] /\ \A p \in Procs : Len(buf[p]) <= len[p]
    /\ BufferOk

(* Program counters of a reader around its schedule(), in the rest of       *)
(* do_exit, and of initproc.                                                *)
InRead == {"read_schedule", "read_resume"}
InExit == {"exit_wakeup", "exit_schedule", "dead"}
InWait == {"wait", "wait_schedule"}

LinkPart ==
    /\ wait_queue \in Seq(Procs) /\ NoRepeat(wait_queue)
    /\ wakeup_flags \in [Procs -> {"WT_INTERRUPTED", "WT_KBD"}]
    /\ PF_EXITING \in SUBSET Procs
    /\ \A p \in ToSet(wait_queue) : pc[p] \in InRead /\ (Asleep(p) \/ p \in PF_EXITING)
    /\ \A p \in Procs : Asleep(p) => p \in ToSet(wait_queue)

(* Where a process is and what the scheduler says of it agree, and the      *)
(* current process is marked sleeping only until its schedule().            *)
PlaceOk ==
    /\ pc[idleproc] = "idle" /\ state[idleproc] = "RUNNABLE"
    /\ pc[initproc] \in InWait
    /\ state[initproc] \in {"RUNNABLE", "SLEEPING"}
    /\ wait_state[initproc] \in {"0", "WT_CHILD"}
    /\ \A p \in Procs :
          /\ pc[p] \notin InWait \cup {"idle"}
          /\ state[p] \in {"ZOMBIE", "FREE"} <=> pc[p] \in InExit
          /\ wait_state[p] # "0" => wait_state[p] = "WT_KBD" /\ pc[p] \in InRead
    /\ state[current] = "SLEEPING" => pc[current] \in {"read_schedule", "wait_schedule"}

PlacePart == pc \in [All -> PC] /\ PlaceOk

(* dev_stdin_write is called after run_timer_list, and goes on waking while *)
(* somebody is linked.                                                      *)
PollPart ==
    /\ poll \in {"no", "key", "wake"}
    /\ irq => poll = "no"
    /\ poll = "wake" => wait_queue # <<>>
    /\ NoSleepOnInput

KbdInv == SchedPart /\ DevPart /\ LinkPart /\ PlacePart /\ PollPart

LEMMA KbdInvImplies == KbdInv => LinkedOk /\ NoSleepOnInput
BY DEF KbdInv, LinkedOk, StdinTypeOK, SchedPart, DevPart, LinkPart, PlacePart,
       PollPart, InRead, NoRepeat

-----------------------------------------------------------------------------
(* What the current process may assume where it is not about to call        *)
(* schedule(): it is runnable, waits for nothing, and only woken readers    *)
(* are still linked.                                                        *)
LEMMA RunsHere ==
    ASSUME SchedPart, PlacePart, LinkPart, NEW p \in Procs \cup {initproc},
           current = p, pc[p] \notin {"read_schedule", "wait_schedule"} \cup InExit
    PROVE  /\ p \in All /\ p # idleproc
           /\ state[p] = "RUNNABLE" /\ wait_state[p] = "0"
           /\ pc[p] \notin InRead => p \notin ToSet(wait_queue)
<1>1. p \in All /\ p # idleproc
  BY SchedAssumption DEF All
<1>2. state[p] = "RUNNABLE"
  <2>1. state[p] # "SLEEPING"
    BY DEF PlacePart, PlaceOk
  <2>2. state[p] \notin {"ZOMBIE", "FREE"}
    BY DEF PlacePart, PlaceOk
  <2>3. state[p] \in ProcState
    BY <1>1 DEF SchedPart, SchedTypeOK
  <2> QED BY <2>1, <2>2, <2>3 DEF ProcState
<1>3. wait_state[p] = "0"
  BY <1>1, <1>2 DEF SchedPart, WaitStateOk
<1>4. pc[p] \notin InRead => p \notin ToSet(wait_queue)
  BY DEF LinkPart
<1> QED BY <1>1, <1>2, <1>3, <1>4

(* The parts whose variables a step leaves alone.                           *)
LEMMA SchedStays ==
    ASSUME SchedPart, UNCHANGED schedVars PROVE SchedPart'
<1>1. UNCHANGED <<state, wait_state, need_resched, time_slice, run_list,
                  current, expires, expired, irq, panic>>
  BY DEF schedVars
<1>2. SchedTypeOK'
  BY <1>1 DEF SchedPart, SchedTypeOK
<1>3. QueueOk' /\ WaitStateOk'
  BY <1>1 DEF SchedPart, QueueOk, Queued, WaitStateOk
<1> QED BY <1>1, <1>2, <1>3 DEF SchedPart, NoTimers

LEMMA DevStays ==
    ASSUME DevPart, UNCHANGED <<stdin_buffer, p_rpos, p_wpos, len, buf>> PROVE DevPart'
BY DEF DevPart, BufferOk

-----------------------------------------------------------------------------
(* One lemma for the steps of a reader that change neither the scheduler    *)
(* nor the device, one for those that end in schedule(), then the actions.  *)

Plain == PC \ (InRead \cup InExit \cup InWait \cup {"idle"})

LEMMA QuietStep ==
    ASSUME KbdInv, NEW p \in Procs, current = p, pc[p] \in Plain,
           NEW m \in Plain, pc' = [pc EXCEPT ![p] = m],
           UNCHANGED <<schedVars, devVars, poll, PF_EXITING>>, DevPart'
    PROVE  KbdInv'
<1>1. SchedPart /\ LinkPart /\ PlacePart /\ PollPart
  BY DEF KbdInv
<1>2. UNCHANGED <<state, wait_state, current, irq, p_rpos, p_wpos, wait_queue,
                  wakeup_flags, poll, PF_EXITING>>
  BY DEF schedVars, devVars
<1>3. SchedPart'
  BY <1>1, SchedStays
<1>4. /\ p \in All /\ p # idleproc /\ p # initproc /\ state[p] = "RUNNABLE"
      /\ p \notin ToSet(wait_queue)
  BY <1>1, RunsHere, SchedAssumption DEF Plain, InRead, InExit, InWait
<1>5. pc \in [All -> PC] /\ \A x \in All \ {p} : pc'[x] = pc[x]
  BY <1>1 DEF PlacePart
<1>6. pc' \in [All -> PC] /\ pc'[p] = m
  BY <1>4, <1>5 DEF Plain
<1>7. idleproc \in All /\ initproc \in All /\ Procs \subseteq All
  BY DEF All
<1>8. LinkPart'
  BY <1>1, <1>2, <1>4, <1>5, <1>7 DEF LinkPart, Asleep, ToSet
<1>9. PlacePart'
  <2>1. PlaceOk
    BY <1>1 DEF PlacePart
  <2>2. \A x \in Procs :
           /\ pc'[x] \notin InWait \cup {"idle"}
           /\ state'[x] \in {"ZOMBIE", "FREE"} <=> pc'[x] \in InExit
           /\ wait_state'[x] # "0" => wait_state'[x] = "WT_KBD" /\ pc'[x] \in InRead
    BY <2>1, <1>2, <1>5, <1>6, <1>7 DEF PlaceOk, Plain
  <2>3. pc'[idleproc] = pc[idleproc] /\ pc'[initproc] = pc[initproc]
    BY <1>4, <1>5, <1>7
  <2>4. state'[current'] # "SLEEPING"
    BY <1>2, <1>4
  <2> QED BY <2>1, <2>2, <2>3, <2>4, <1>2, <1>6 DEF PlacePart, PlaceOk
<1>10. PollPart'
  BY <1>1, <1>2 DEF PollPart, NoSleepOnInput, Asleep
<1> QED BY <1>3, <1>8, <1>9, <1>10 DEF KbdInv

(* The steps that end in schedule(): the program counter stays among those  *)
(* of the same place.                                                       *)
LEMMA ScheduleStep ==
    ASSUME KbdInv, ~InIrq, schedule,
           UNCHANGED <<devVars, poll, PF_EXITING, len, buf>>,
           pc' \in [All -> PC],
           \A x \in All : /\ pc'[x] \in InRead <=> pc[x] \in InRead
                          /\ pc'[x] \in InExit <=> pc[x] \in InExit
                          /\ pc'[x] \in InWait <=> pc[x] \in InWait
                          /\ pc'[x] = "idle" <=> pc[x] = "idle"
    PROVE  KbdInv'
<1>1. SchedPart /\ DevPart /\ LinkPart /\ PlacePart /\ PollPart
  BY DEF KbdInv
<1>2. /\ SchedTypeOK' /\ UNCHANGED <<wait_state, state, panic>>
      /\ QueueOk' /\ state[current'] = "RUNNABLE"
  BY <1>1, ScheduleLemma DEF SchedPart, PlacePart, PlaceOk
<1>3. UNCHANGED <<expires, expired, irq>>
  BY DEF schedule
<1>4. UNCHANGED <<stdin_buffer, p_rpos, p_wpos, wait_queue, wakeup_flags>>
  BY DEF devVars
<1>5. idleproc \in All /\ initproc \in All /\ Procs \subseteq All
  BY DEF All
<1>6. SchedPart'
  BY <1>1, <1>2, <1>3 DEF SchedPart, WaitStateOk, NoTimers
<1>7. DevPart'
  BY <1>1, <1>4, DevStays
<1>8. LinkPart'
  <2>1. ToSet(wait_queue) \subseteq Procs
    BY <1>1 DEF LinkPart, ToSet
  <2> QED BY <1>1, <1>2, <1>4, <1>5, <2>1 DEF LinkPart, Asleep
<1>9. PlacePart'
  BY <1>1, <1>2, <1>5 DEF PlacePart, PlaceOk
<1>10. PollPart'
  BY <1>1, <1>2, <1>3, <1>4 DEF PollPart, NoSleepOnInput, Asleep
<1> QED BY <1>6, <1>7, <1>8, <1>9, <1>10 DEF KbdInv

-----------------------------------------------------------------------------
(* The timer interrupt.                                                     *)

LEMMA TimerIrqStep == KbdInv /\ TimerIrq => KbdInv'
<1> SUFFICES ASSUME KbdInv, TimerIrq PROVE KbdInv'
  OBVIOUS
<1>1. SchedPart /\ DevPart /\ LinkPart /\ PlacePart /\ PollPart
  BY DEF KbdInv
<1>2. /\ ~irq /\ poll = "no" /\ irq' = TRUE
      /\ expires' = [p \in All |-> IF expires[p] > 0 THEN expires[p] - 1 ELSE 0]
      /\ expired' = Expired
      /\ UNCHANGED <<state, wait_state, need_resched, time_slice, run_list,
                     current, panic>>
      /\ UNCHANGED <<stdin_buffer, p_rpos, p_wpos, wait_queue, wakeup_flags,
                     poll, PF_EXITING, len, buf>>
      /\ pc' = IF pc[current] = "user" THEN [pc EXCEPT ![current] = "return"] ELSE pc
  BY DEF TimerIrq, run_timer_list_enter, InIrq, devVars
<1>3. NoTimers'
  BY <1>1, <1>2 DEF SchedPart, NoTimers, Expired
<1>4. idleproc \in All /\ initproc \in All /\ Procs \subseteq All /\ current \in All
  BY <1>1 DEF All, SchedPart, SchedTypeOK
<1>5. SchedPart'
  <2>1. SchedTypeOK'
    BY <1>1, <1>2, <1>3, SchedAssumption DEF SchedPart, SchedTypeOK, NoTimers
  <2>2. QueueOk' /\ WaitStateOk'
    BY <1>1, <1>2 DEF SchedPart, QueueOk, Queued, WaitStateOk
  <2> QED BY <1>1, <1>2, <1>3, <2>1, <2>2 DEF SchedPart
<1>6. DevPart'
  BY <1>1, <1>2, DevStays
<1>7. /\ pc' \in [All -> PC]
      /\ \A x \in All : pc'[x] # pc[x] => x = current /\ pc[x] = "user" /\ pc'[x] = "return"
  <2>1. pc \in [All -> PC] /\ "return" \in PC
    BY <1>1 DEF PlacePart, PC
  <2> QED BY <2>1, <1>2, <1>4
<1>8. LinkPart'
  <2>1. ToSet(wait_queue) \subseteq Procs
    BY <1>1 DEF LinkPart, ToSet
  <2> QED BY <1>1, <1>2, <1>4, <1>7, <2>1 DEF LinkPart, Asleep, InRead
<1>9. PlacePart'
  BY <1>1, <1>2, <1>4, <1>7 DEF PlacePart, PlaceOk, InRead, InExit, InWait
<1>10. PollPart'
  BY <1>1, <1>2 DEF PollPart, NoSleepOnInput, Asleep
<1> QED BY <1>5, <1>6, <1>8, <1>9, <1>10 DEF KbdInv

LEMMA TimerTickStep == KbdInv /\ TimerTick => KbdInv'
<1> SUFFICES ASSUME KbdInv, TimerTick PROVE KbdInv'
  OBVIOUS
<1>1. SchedPart /\ DevPart /\ LinkPart /\ PlacePart /\ PollPart
  BY DEF KbdInv
<1>2. /\ irq /\ irq' = FALSE /\ poll' = "key"
      /\ time_slice' = Ticked
      /\ need_resched' = IF current = idleproc \/ Ticked[current] = 0
                         THEN [need_resched EXCEPT ![current] = TRUE] ELSE need_resched
      /\ UNCHANGED <<state, wait_state, run_list, current, expires, expired, panic>>
      /\ UNCHANGED <<stdin_buffer, p_rpos, p_wpos, wait_queue, wakeup_flags,
                     PF_EXITING, len, buf, pc>>
  BY DEF TimerTick, run_timer_list_tick, devVars
<1>3. SchedPart'
  <2>1. /\ time_slice' \in [All -> 0..MAX_TIME_SLICE]
        /\ need_resched' \in [All -> BOOLEAN]
    BY <1>1, <1>2, SchedAssumption DEF SchedPart, SchedTypeOK, Ticked
  <2>2. SchedTypeOK'
    BY <1>1, <1>2, <2>1 DEF SchedPart, SchedTypeOK
  <2>3. QueueOk' /\ WaitStateOk'
    BY <1>1, <1>2 DEF SchedPart, QueueOk, Queued, WaitStateOk
  <2> QED BY <1>1, <1>2, <2>2, <2>3 DEF SchedPart, NoTimers
<1>4. DevPart'
  BY <1>1, <1>2, DevStays
<1>5. LinkPart'
  BY <1>1, <1>2 DEF LinkPart, Asleep
<1>6. PlacePart'
  BY <1>1, <1>2 DEF PlacePart, PlaceOk
<1>7. PollPart'
  BY <1>1, <1>2 DEF PollPart, NoSleepOnInput, Asleep
<1> QED BY <1>3, <1>4, <1>5, <1>6, <1>7 DEF KbdInv

LEMMA NoKeyStep == KbdInv /\ NoKey => KbdInv'
<1> SUFFICES ASSUME KbdInv, NoKey PROVE KbdInv'
  OBVIOUS
<1>1. SchedPart /\ DevPart /\ LinkPart /\ PlacePart /\ PollPart
  BY DEF KbdInv
<1>2. /\ poll = "key" /\ poll' = "no"
      /\ UNCHANGED <<schedVars, stdin_buffer, p_rpos, p_wpos, wait_queue,
                     wakeup_flags, PF_EXITING, len, buf, pc>>
      /\ UNCHANGED <<state, wait_state, current, irq>>
  BY DEF NoKey, devVars, schedVars
<1>3. SchedPart' /\ DevPart'
  BY <1>1, <1>2, SchedStays, DevStays
<1>4. LinkPart'
  BY <1>1, <1>2 DEF LinkPart, Asleep
<1>5. PlacePart'
  BY <1>1, <1>2 DEF PlacePart, PlaceOk
<1>6. PollPart'
  BY <1>1, <1>2 DEF PollPart, NoSleepOnInput, Asleep
<1> QED BY <1>3, <1>4, <1>5, <1>6 DEF KbdInv

(* A key: when nobody is linked nobody sleeps, and otherwise the wakeups    *)
(* are still to come.                                                       *)
LEMMA KeyStep == ASSUME KbdInv, NEW c \in Keys, Key(c) PROVE KbdInv'
<1>1. SchedPart /\ DevPart /\ LinkPart /\ PlacePart /\ PollPart
  BY DEF KbdInv
<1>2. /\ poll = "key" /\ p_wpos < MaxTyped
      /\ stdin_buffer' = [stdin_buffer EXCEPT ![p_wpos % STDIN_BUFSIZE] = c]
      /\ p_wpos' = Advanced
      /\ poll' = IF wait_queue = <<>> THEN "no" ELSE "wake"
      /\ UNCHANGED <<schedVars, p_rpos, wait_queue, wakeup_flags, PF_EXITING,
                     len, buf, pc>>
      /\ UNCHANGED <<state, wait_state, current, irq>>
  BY DEF Key, schedVars
<1>3. SchedPart'
  BY <1>1, <1>2, SchedStays
<1>4. DevPart'
  <2> DEFINE B == STDIN_BUFSIZE
  <2>1. B \in Nat \ {0} /\ MaxTyped \in Nat
    BY StdinAssumption
  <2>2. p_rpos \in Nat /\ p_wpos \in Nat /\ p_rpos <= p_wpos /\ p_wpos - p_rpos <= B
    BY <1>1, <2>1 DEF DevPart
  <2>3. /\ p_wpos' \in 0..MaxTyped /\ p_rpos' \in 0..p_wpos' /\ p_wpos' - p_rpos' <= B
        /\ p_wpos' <= p_wpos + 1
    BY <2>1, <2>2, <1>1, <1>2 DEF Advanced, DevPart
  <2>4. \A i \in Nat : i % B \in 0..(B - 1)
    BY <2>1
  <2>5. /\ stdin_buffer \in [0..(B - 1) -> Keys \cup {NULL}]
        /\ stdin_buffer' \in [0..(B - 1) -> Keys \cup {NULL}]
        /\ stdin_buffer'[p_wpos % B] = c
        /\ \A j \in 0..(B - 1) : j # p_wpos % B => stdin_buffer'[j] = stdin_buffer[j]
    BY <2>2, <2>4, <1>1, <1>2 DEF DevPart
  <2>6. ASSUME NEW i \in p_rpos'..(p_wpos' - 1) PROVE stdin_buffer'[i % B] \in Keys
    <3>1. i \in Nat /\ i <= p_wpos /\ i >= p_rpos
      BY <2>2, <2>3, <1>2
    <3>2. CASE i % B = p_wpos % B
      BY <3>2, <2>5
    <3>3. CASE i % B # p_wpos % B
      <4>1. i \in p_rpos..(p_wpos - 1)
        BY <3>1, <3>3, <2>2
      <4> QED BY <4>1, <3>1, <3>3, <2>4, <2>5, <1>1 DEF DevPart, BufferOk
    <3> QED BY <3>2, <3>3
  <2> QED BY <2>3, <2>5, <2>6, <1>1, <1>2 DEF DevPart, BufferOk
<1>5. LinkPart'
  BY <1>1, <1>2 DEF LinkPart, Asleep
<1>6. PlacePart'
  BY <1>1, <1>2 DEF PlacePart, PlaceOk
<1>7. PollPart'
  <2>1. wait_queue = <<>> => ToSet(wait_queue) = {}
    BY DEF ToSet
  <2>2. wait_queue = <<>> => \A p \in Procs : ~Asleep(p)
    BY <1>1, <2>1 DEF LinkPart
  <2> QED BY <1>1, <1>2, <2>2 DEF PollPart, NoSleepOnInput, Asleep
<1> QED BY <1>3, <1>4, <1>5, <1>6, <1>7 DEF KbdInv

(* What a wakeup of a process that sleeps, or has been woken already, does  *)
(* to the parts that are about the scheduler.                               *)
LEMMA WakeStep ==
    ASSUME SchedPart, PlacePart, NEW p \in Procs \cup {initproc},
           state[p] \notin {"ZOMBIE", "FREE"}, wakeup_proc(p),
           UNCHANGED <<need_resched, current, expires, expired, irq>>,
           pc' \in [All -> PC],
           \A x \in All : /\ pc'[x] \in InRead <=> pc[x] \in InRead
                          /\ pc'[x] \in InExit <=> pc[x] \in InExit
                          /\ pc'[x] \in InWait <=> pc[x] \in InWait
                          /\ pc'[x] = "idle" <=> pc[x] = "idle"
                          /\ pc'[x] \in {"read_schedule", "wait_schedule"}
                             <=> pc[x] \in {"read_schedule", "wait_schedule"}
    PROVE  /\ SchedPart' /\ PlacePart'
           /\ state' = [state EXCEPT ![p] = "RUNNABLE"]
           /\ wait_state' = [wait_state EXCEPT ![p] = "0"]
<1>1. p \in All /\ p # idleproc
  BY SchedAssumption DEF All
<1>2. /\ run_list' \in Seq(Procs \cup {initproc})
      /\ time_slice' \in [All -> 0..MAX_TIME_SLICE]
      /\ state' = [state EXCEPT ![p] = "RUNNABLE"]
      /\ wait_state' = [wait_state EXCEPT ![p] = "0"]
      /\ QueueOk' /\ WaitStateOk'
      /\ panic' = panic
  BY <1>1, WakeupLemma DEF SchedPart
<1>3. SchedTypeOK /\ state \in [All -> ProcState] /\ wait_state \in [All -> WaitState]
  BY DEF SchedPart, SchedTypeOK
<1>4. SchedTypeOK'
  BY <1>1, <1>2, <1>3 DEF SchedTypeOK, ProcState, WaitState
<1>5. SchedPart'
  BY <1>2, <1>4 DEF SchedPart, NoTimers
<1>6. idleproc \in All /\ initproc \in All /\ Procs \subseteq All /\ current \in All
  BY <1>3 DEF All, SchedTypeOK
<1>7. /\ state'[p] = "RUNNABLE" /\ wait_state'[p] = "0"
      /\ \A x \in All \ {p} : state'[x] = state[x] /\ wait_state'[x] = wait_state[x]
  BY <1>1, <1>2, <1>3
<1>8. PlacePart'
  BY <1>1, <1>6, <1>7 DEF PlacePart, PlaceOk
<1> QED BY <1>2, <1>5, <1>8

LEMMA WakeReaderStep == KbdInv /\ WakeReader => KbdInv'
<1> SUFFICES ASSUME KbdInv, WakeReader PROVE KbdInv'
  OBVIOUS
<1> DEFINE p == Head(wait_queue)
<1>1. SchedPart /\ DevPart /\ LinkPart /\ PlacePart /\ PollPart
  BY DEF KbdInv
<1>2. /\ poll = "wake"
      /\ wait_queue' = Tail(wait_queue)
      /\ wakeup_flags' = [wakeup_flags EXCEPT ![p] = "WT_KBD"]
      /\ wakeup_proc(p)
      /\ poll' = IF Tail(wait_queue) = <<>> THEN "no" ELSE "wake"
      /\ UNCHANGED <<need_resched, current, expires, expired, irq, stdin_buffer,
                     p_rpos, p_wpos, PF_EXITING, len, buf, pc>>
  BY DEF WakeReader, WakesAll
<1>3. /\ wait_queue' \in Seq(Procs) /\ NoRepeat(wait_queue')
      /\ p \in ToSet(wait_queue) /\ p \in Procs
      /\ ToSet(wait_queue') = ToSet(wait_queue) \ {p}
  BY <1>1, <1>2, TailQueue DEF LinkPart, PollPart
<1> HIDE DEF p
<1>4. p \in All /\ Procs \subseteq All
  BY <1>3 DEF All
<1>5. state[p] \notin {"ZOMBIE", "FREE"}
  BY <1>1, <1>3 DEF LinkPart, PlacePart, PlaceOk, InRead, InExit
<1>6. /\ SchedPart' /\ PlacePart'
      /\ state' = [state EXCEPT ![p] = "RUNNABLE"]
      /\ wait_state' = [wait_state EXCEPT ![p] = "0"]
  BY <1>1, <1>2, <1>3, <1>5, WakeStep DEF PlacePart
<1>7. /\ state'[p] = "RUNNABLE" /\ wait_state'[p] = "0"
      /\ \A x \in All \ {p} : state'[x] = state[x] /\ wait_state'[x] = wait_state[x]
  BY <1>1, <1>4, <1>6 DEF SchedPart, SchedTypeOK
<1>8. DevPart'
  BY <1>1, <1>2, DevStays
<1>9. LinkPart'
  <2>1. wakeup_flags' \in [Procs -> {"WT_INTERRUPTED", "WT_KBD"}]
    BY <1>1, <1>2, <1>3 DEF LinkPart
  <2>2. ToSet(wait_queue) \subseteq Procs
    BY <1>1 DEF LinkPart, ToSet
  <2> QED BY <1>1, <1>2, <1>3, <1>4, <1>7, <2>1, <2>2 DEF LinkPart, Asleep
<1>10. PollPart'
  <2>1. wait_queue' = <<>> => ToSet(wait_queue') = {}
    BY DEF ToSet
  <2>2. wait_queue' = <<>> => \A x \in Procs : ~Asleep(x)'
    BY <1>9, <2>1 DEF LinkPart
  <2> QED BY <1>1, <1>2, <2>2 DEF PollPart, NoSleepOnInput
<1> QED BY <1>6, <1>8, <1>9, <1>10 DEF KbdInv

(* kill of a reader that sleeps takes it off the CPU's waiters, but leaves  *)
(* its wait_t linked until it runs.                                         *)
LEMMA SysKillStep ==
    ASSUME KbdInv, NEW p \in Procs, NEW q \in Procs, SysKill(p, q) PROVE KbdInv'
<1>1. SchedPart /\ DevPart /\ LinkPart /\ PlacePart /\ PollPart
  BY DEF KbdInv
<1>2. /\ current = p /\ pc[p] = "user" /\ q # p
      /\ pc' = [pc EXCEPT ![p] = "return"]
      /\ state[q] # "FREE"
      /\ PF_EXITING' = PF_EXITING \cup {q}
      /\ IF Interruptible(wait_state[q])
         THEN wakeup_proc(q)
         ELSE UNCHANGED <<state, wait_state, run_list, time_slice, panic>>
      /\ UNCHANGED <<need_resched, current, expires, expired, irq, stdin_buffer,
                     p_rpos, p_wpos, wait_queue, wakeup_flags, poll, len, buf>>
  BY DEF SysKill, Step, At, Goto, devVars
<1>3. Procs \subseteq All /\ pc \in [All -> PC] /\ "return" \in PC
  BY <1>1 DEF All, PlacePart, PC
<1>4. pc' \in [All -> PC] /\ pc'[p] = "return" /\ \A x \in All \ {p} : pc'[x] = pc[x]
  BY <1>2, <1>3
<1>5. \A x \in All : /\ pc'[x] \in InRead <=> pc[x] \in InRead
                     /\ pc'[x] \in InExit <=> pc[x] \in InExit
                     /\ pc'[x] \in InWait <=> pc[x] \in InWait
                     /\ pc'[x] = "idle" <=> pc[x] = "idle"
                     /\ pc'[x] \in {"read_schedule", "wait_schedule"}
                        <=> pc[x] \in {"read_schedule", "wait_schedule"}
  BY <1>2, <1>4 DEF InRead, InExit, InWait
<1>6. DevPart'
  BY <1>1, <1>2, DevStays
<1>7. /\ SchedPart' /\ PlacePart'
      /\ \A x \in All \ {q} : state'[x] = state[x] /\ wait_state'[x] = wait_state[x]
      /\ Asleep(q)' => Asleep(q)
  <2>1. CASE Interruptible(wait_state[q])
    <3>1. state[q] \notin {"ZOMBIE", "FREE"}
      BY <2>1, <1>1, <1>2, <1>3 DEF SchedPart, WaitStateOk, Interruptible
    <3>2. /\ SchedPart' /\ PlacePart'
          /\ state' = [state EXCEPT ![q] = "RUNNABLE"]
          /\ wait_state' = [wait_state EXCEPT ![q] = "0"]
      BY <2>1, <3>1, <1>1, <1>2, <1>4, <1>5, WakeStep
    <3>3. state \in [All -> ProcState] /\ wait_state \in [All -> WaitState] /\ q \in All
      BY <1>1, <1>3 DEF SchedPart, SchedTypeOK
    <3>4. ~Asleep(q)'
      BY <3>2, <3>3 DEF Asleep
    <3> QED BY <3>2, <3>3, <3>4
  <2>2. CASE ~Interruptible(wait_state[q])
    <3>1. UNCHANGED <<state, wait_state, run_list, time_slice, panic>>
      BY <2>2, <1>2
    <3>2. SchedPart'
      BY <3>1, <1>1, <1>2, SchedStays DEF schedVars
    <3>3. idleproc \in All /\ initproc \in All /\ current \in All
      BY <1>1 DEF All, SchedPart, SchedTypeOK
    <3>4. PlacePart'
      BY <3>1, <3>3, <1>1, <1>2, <1>3, <1>4, <1>5 DEF PlacePart, PlaceOk
    <3> QED BY <3>1, <3>2, <3>4 DEF Asleep
  <2> QED BY <2>1, <2>2
<1>8. LinkPart'
  <2>1. ToSet(wait_queue) \subseteq Procs
    BY <1>1 DEF LinkPart, ToSet
  <2>2. \A x \in Procs : pc'[x] \in InRead <=> pc[x] \in InRead
    BY <1>3, <1>5
  <2> HIDE <1>5
  <2> QED BY <1>1, <1>2, <1>3, <1>7, <2>1, <2>2 DEF LinkPart, Asleep
<1>9. PollPart'
  BY <1>1, <1>2, <1>3, <1>7 DEF PollPart, NoSleepOnInput, Asleep
<1> QED BY <1>6, <1>7, <1>8, <1>9 DEF KbdInv

-----------------------------------------------------------------------------
(* dev_stdin_read.                                                          *)

LEMMA SysReadStep == ASSUME KbdInv, NEW p \in Procs, SysRead(p) PROVE KbdInv'
<1>1. /\ current = p /\ pc[p] = "user" /\ pc' = [pc EXCEPT ![p] = "reading"]
      /\ UNCHANGED <<schedVars, devVars, poll, PF_EXITING>>
      /\ UNCHANGED <<stdin_buffer, p_rpos, p_wpos>>
  BY DEF SysRead, Step, At, Goto, devVars
<1>2. PICK n \in 1..MaxLen : len' = [len EXCEPT ![p] = n]
  BY DEF SysRead
<1>3. buf' = [buf EXCEPT ![p] = <<>>]
  BY DEF SysRead
<1>4. DevPart
  BY DEF KbdInv
<1>5. DevPart'
  <2>1. /\ len' \in [Procs -> 1..MaxLen] /\ buf' \in [Procs -> Seq(Keys)]
        /\ \A x \in Procs : Len(buf'[x]) <= len'[x]
    <3>1. <<>> \in Seq(Keys) /\ Len(<<>>) = 0
      OBVIOUS
    <3> QED BY <3>1, <1>2, <1>3, <1>4 DEF DevPart
  <2> QED BY <2>1, <1>1, <1>4 DEF DevPart, BufferOk
<1>6. {"user", "reading"} \subseteq Plain
  BY DEF Plain, PC, InRead, InExit, InWait
<1> QED BY <1>1, <1>5, <1>6, QuietStep

LEMMA ReadKeyStep == ASSUME KbdInv, NEW p \in Procs, ReadKey(p) PROVE KbdInv'
<1>1. SchedPart /\ DevPart /\ LinkPart /\ PlacePart /\ PollPart
  BY DEF KbdInv
<1>2. /\ poll = "no" /\ Len(buf[p]) < len[p] /\ p_rpos < p_wpos
      /\ buf' = [buf EXCEPT ![p] = Append(@, stdin_buffer[p_rpos % STDIN_BUFSIZE])]
      /\ p_rpos' = p_rpos + 1
      /\ UNCHANGED <<schedVars, stdin_buffer, p_wpos, wait_queue, wakeup_flags,
                     poll, PF_EXITING, len, pc>>
      /\ UNCHANGED <<state, wait_state, current, irq>>
  BY DEF ReadKey, At, InIrq, schedVars
<1>3. SchedPart'
  BY <1>1, <1>2, SchedStays
<1>4. p_rpos \in Nat /\ p_wpos \in Nat
  BY <1>1, StdinAssumption DEF DevPart
<1>5. DevPart'
  <2> DEFINE c == stdin_buffer[p_rpos % STDIN_BUFSIZE]
  <2>1. c \in Keys
    BY <1>1, <1>2, <1>4 DEF DevPart, BufferOk
  <2> HIDE DEF c
  <2>2. buf \in [Procs -> Seq(Keys)] /\ buf' = [buf EXCEPT ![p] = Append(@, c)]
    BY <1>1, <1>2 DEF DevPart, c
  <2>3. /\ Append(buf[p], c) \in Seq(Keys)
        /\ Len(Append(buf[p], c)) = Len(buf[p]) + 1
        /\ Len(buf[p]) \in Nat
    BY <2>1, <2>2
  <2>4. /\ buf' \in [Procs -> Seq(Keys)]
        /\ \A x \in Procs : Len(buf'[x]) <= len'[x]
    BY <2>2, <2>3, <1>1, <1>2 DEF DevPart
  <2>5. p_rpos' \in 0..p_wpos' /\ p_wpos' \in 0..MaxTyped /\ p_wpos' - p_rpos' <= STDIN_BUFSIZE
    BY <1>1, <1>2, <1>4, StdinAssumption DEF DevPart
  <2>6. p_rpos'..(p_wpos' - 1) \subseteq p_rpos..(p_wpos - 1)
    BY <1>2, <1>4
  <2> QED BY <2>4, <2>5, <2>6, <1>1, <1>2 DEF DevPart, BufferOk
<1>6. LinkPart'
  BY <1>1, <1>2 DEF LinkPart, Asleep
<1>7. PlacePart'
  BY <1>1, <1>2 DEF PlacePart, PlaceOk
<1>8. PollPart'
  <2>1. \A x \in Procs : ~Asleep(x)
    BY <1>1, <1>2, <1>4 DEF PollPart, NoSleepOnInput
  <2> QED BY <2>1, <1>1, <1>2 DEF PollPart, NoSleepOnInput, Asleep
<1> QED BY <1>3, <1>5, <1>6, <1>7, <1>8 DEF KbdInv

(* wait_current_set: the reader is marked and linked in one step with its   *)
(* look at the empty buffer.                                                *)
LEMMA ReadWaitStep == ASSUME KbdInv, NEW p \in Procs, ReadWait(p) PROVE KbdInv'
<1>1. SchedPart /\ DevPart /\ LinkPart /\ PlacePart /\ PollPart
  BY DEF KbdInv
<1>2. /\ current = p /\ pc[p] = "reading" /\ p_rpos >= p_wpos
      /\ pc' = [pc EXCEPT ![p] = "read_schedule"]
      /\ state' = [state EXCEPT ![p] = "SLEEPING"]
      /\ wait_state' = [wait_state EXCEPT ![p] = "WT_KBD"]
      /\ wait_queue' = Append(wait_queue, p)
      /\ wakeup_flags' = [wakeup_flags EXCEPT ![p] = "WT_INTERRUPTED"]
      /\ UNCHANGED <<need_resched, time_slice, run_list, current, expires,
                     expired, irq, panic, stdin_buffer, p_rpos, p_wpos, poll,
                     PF_EXITING, len, buf>>
  BY DEF ReadWait, Step, At, Goto
<1>3. /\ p \in All /\ p # idleproc /\ p # initproc /\ state[p] = "RUNNABLE"
      /\ p \notin ToSet(wait_queue)
  BY <1>1, <1>2, RunsHere, SchedAssumption DEF InRead, InExit
<1>4. /\ state \in [All -> ProcState] /\ wait_state \in [All -> WaitState]
      /\ pc \in [All -> PC] /\ "read_schedule" \in PC
      /\ idleproc \in All /\ initproc \in All /\ Procs \subseteq All
  BY <1>1 DEF SchedPart, SchedTypeOK, PlacePart, PC, All
<1>5. /\ state'[p] = "SLEEPING" /\ wait_state'[p] = "WT_KBD" /\ pc'[p] = "read_schedule"
      /\ \A x \in All \ {p} : /\ state'[x] = state[x] /\ wait_state'[x] = wait_state[x]
                              /\ pc'[x] = pc[x]
  BY <1>2, <1>3, <1>4
<1>6. SchedPart'
  <2>1. SchedTypeOK'
    BY <1>1, <1>2, <1>4 DEF SchedPart, SchedTypeOK, ProcState, WaitState
  <2>2. QueueOk'
    BY <1>1, <1>2, <1>3, <1>5 DEF SchedPart, QueueOk, Queued
  <2>3. WaitStateOk'
    BY <1>1, <1>5 DEF SchedPart, WaitStateOk
  <2> QED BY <2>1, <2>2, <2>3, <1>1, <1>2 DEF SchedPart, NoTimers
<1>7. DevPart'
  BY <1>1, <1>2, DevStays
<1>8. LinkPart'
  <2>1. /\ wait_queue' \in Seq(Procs) /\ NoRepeat(wait_queue')
        /\ ToSet(wait_queue') = ToSet(wait_queue) \cup {p}
    BY <1>1, <1>2, <1>3, AppendQueue DEF LinkPart
  <2>2. wakeup_flags' \in [Procs -> {"WT_INTERRUPTED", "WT_KBD"}]
    BY <1>1, <1>2 DEF LinkPart
  <2>3. ToSet(wait_queue) \subseteq Procs
    BY <1>1 DEF LinkPart, ToSet
  <2> QED BY <2>1, <2>2, <2>3, <1>1, <1>2, <1>3, <1>4, <1>5 DEF LinkPart, Asleep, InRead
<1>9. PlacePart'
  <2>1. pc' \in [All -> PC]
    BY <1>2, <1>4
  <2> QED BY <2>1, <1>1, <1>2, <1>3, <1>4, <1>5, SchedAssumption
          DEF PlacePart, PlaceOk, InRead, InExit, InWait
<1>10. PollPart'
  <2>1. p_rpos = p_wpos
    BY <1>1, <1>2, StdinAssumption DEF DevPart
  <2>2. wait_queue' # <<>>
    BY <1>1, <1>2, AppendQueue DEF LinkPart
  <2> QED BY <2>1, <2>2, <1>1, <1>2 DEF PollPart, NoSleepOnInput
<1> QED BY <1>6, <1>7, <1>8, <1>9, <1>10 DEF KbdInv

(* wait_current_del, after a key or a kill has woken the reader.            *)
LEMMA ReadResumeStep == ASSUME KbdInv, NEW p \in Procs, ReadResume(p) PROVE KbdInv'
<1> DEFINE m == IF wakeup_flags[p] = "WT_KBD" THEN "reading" ELSE "return"
<1>1. SchedPart /\ DevPart /\ LinkPart /\ PlacePart /\ PollPart
  BY DEF KbdInv
<1>2. /\ current = p /\ pc[p] = "read_resume" /\ poll = "no"
      /\ pc' = [pc EXCEPT ![p] = m]
      /\ wait_queue' = wait_current_del(wait_queue, p)
      /\ UNCHANGED <<schedVars, stdin_buffer, p_rpos, p_wpos, wakeup_flags, poll,
                     PF_EXITING, len, buf>>
      /\ UNCHANGED <<state, wait_state, current, irq>>
  BY DEF ReadResume, Step, At, Goto, Unlinked, InIrq, schedVars
<1>3. /\ p \in All /\ p # idleproc /\ p # initproc
      /\ state[p] = "RUNNABLE" /\ wait_state[p] = "0"
  BY <1>1, <1>2, RunsHere, SchedAssumption DEF InRead, InExit
<1>4. m \in {"reading", "return"}
  OBVIOUS
<1> HIDE DEF m
<1>5. /\ pc \in [All -> PC] /\ m \in PC
      /\ idleproc \in All /\ initproc \in All /\ Procs \subseteq All
  BY <1>1, <1>4 DEF PlacePart, PC, All
<1>6. pc' \in [All -> PC] /\ pc'[p] = m /\ \A x \in All \ {p} : pc'[x] = pc[x]
  BY <1>2, <1>3, <1>5
<1>7. SchedPart' /\ DevPart'
  BY <1>1, <1>2, SchedStays, DevStays
<1>8. LinkPart'
  <2>1. /\ wait_queue' \in Seq(Procs) /\ NoRepeat(wait_queue')
        /\ ToSet(wait_queue') = ToSet(wait_queue) \ {p}
    BY <1>1, <1>2, WaitDelQueue DEF LinkPart
  <2>2. ToSet(wait_queue) \subseteq Procs
    BY <1>1 DEF LinkPart, ToSet
  <2> QED BY <2>1, <2>2, <1>1, <1>2, <1>3, <1>5, <1>6 DEF LinkPart, Asleep
<1>9. PlacePart'
  BY <1>1, <1>2, <1>3, <1>4, <1>5, <1>6 DEF PlacePart, PlaceOk, InRead, InExit, InWait
<1>10. PollPart'
  BY <1>1, <1>2 DEF PollPart, NoSleepOnInput, Asleep
<1> QED BY <1>7, <1>8, <1>9, <1>10 DEF KbdInv

-----------------------------------------------------------------------------
(* The end of a trap, do_exit, and initproc.                                *)

LEMMA PlainSteps ==
    ASSUME KbdInv, NEW p \in Procs, ReadAll(p) \/ SysOther(p) \/ SysExit(p)
    PROVE  KbdInv'
<1>1. /\ current = p
      /\ \E m \in {"return", "exit"} : pc' = [pc EXCEPT ![p] = m]
      /\ pc[p] \in {"user", "reading"}
      /\ UNCHANGED <<schedVars, devVars, poll, PF_EXITING>>
      /\ UNCHANGED <<stdin_buffer, p_rpos, p_wpos, len, buf>>
  BY DEF ReadAll, SysOther, SysExit, Step, At, Goto, devVars
<1>2. {"user", "reading", "return", "exit"} \subseteq Plain
  BY DEF Plain, PC, InRead, InExit, InWait
<1>3. DevPart'
  BY <1>1, DevStays DEF KbdInv
<1> QED BY <1>1, <1>2, <1>3, QuietStep

LEMMA TrapReturnStep == ASSUME KbdInv, NEW p \in Procs, TrapReturn(p) PROVE KbdInv'
<1>1. /\ current = p /\ pc[p] = "return" /\ ~InIrq
      /\ UNCHANGED <<devVars, poll, PF_EXITING, len, buf>>
      /\ UNCHANGED <<stdin_buffer, p_rpos, p_wpos>>
  BY DEF TrapReturn, At, devVars
<1>2. {"user", "return", "exit"} \subseteq Plain
  BY DEF Plain, PC, InRead, InExit, InWait
<1>3. DevPart'
  BY <1>1, DevStays DEF KbdInv
<1>4. PICK m \in {"user", "exit"} :
         /\ pc' = [pc EXCEPT ![p] = m]
         /\ schedule \/ UNCHANGED schedVars
  BY DEF TrapReturn, Goto
<1>5. CASE UNCHANGED schedVars
  BY <1>1, <1>2, <1>3, <1>4, <1>5, QuietStep
<1>6. CASE schedule
  <2>1. pc \in [All -> PC] /\ p \in All
    BY DEF KbdInv, PlacePart, All
  <2>2. /\ pc' \in [All -> PC] /\ pc'[p] = m
        /\ \A x \in All \ {p} : pc'[x] = pc[x]
    BY <2>1, <1>2, <1>4 DEF Plain
  <2>3. \A x \in All : /\ pc'[x] \in InRead <=> pc[x] \in InRead
                       /\ pc'[x] \in InExit <=> pc[x] \in InExit
                       /\ pc'[x] \in InWait <=> pc[x] \in InWait
                       /\ pc'[x] = "idle" <=> pc[x] = "idle"
    BY <2>2, <1>1 DEF InRead, InExit, InWait
  <2> QED BY <2>2, <2>3, <1>1, <1>6, ScheduleStep
<1> QED BY <1>4, <1>5, <1>6

(* The last schedule() of each routine.                                     *)
LEMMA ScheduleSteps ==
    ASSUME KbdInv,
           \/ \E p \in Procs : ReadSchedule(p) \/ ExitSchedule(p)
           \/ WaitSchedule \/ Idle
    PROVE  KbdInv'
<1>1. PICK x \in All, m \in {"read_resume", "dead", "wait", "idle"} :
         /\ pc' = [pc EXCEPT ![x] = m]
         /\ \/ pc[x] = "read_schedule" /\ m = "read_resume"
            \/ pc[x] = "exit_schedule" /\ m = "dead"
            \/ pc[x] = "wait_schedule" /\ m = "wait"
            \/ pc[x] = "idle" /\ m = "idle"
  <2>1. Procs \subseteq All /\ initproc \in All /\ idleproc \in All
    BY DEF All
  <2>2. Idle => pc' = [pc EXCEPT ![idleproc] = "idle"] /\ pc[idleproc] = "idle"
    BY <2>1 DEF Idle, At, KbdInv, PlacePart
  <2> QED BY <2>1, <2>2 DEF ReadSchedule, ExitSchedule, WaitSchedule, Step, At, Goto
<1>2. /\ ~InIrq /\ schedule
      /\ UNCHANGED <<devVars, poll, PF_EXITING, len, buf>>
  BY DEF ReadSchedule, ExitSchedule, WaitSchedule, Idle, Step, At
<1>3. pc \in [All -> PC] /\ m \in PC
  BY <1>1 DEF KbdInv, PlacePart, PC
<1>4. pc' \in [All -> PC] /\ pc'[x] = m /\ \A y \in All \ {x} : pc'[y] = pc[y]
  BY <1>1, <1>3
<1>5. \A y \in All : /\ pc'[y] \in InRead <=> pc[y] \in InRead
                     /\ pc'[y] \in InExit <=> pc[y] \in InExit
                     /\ pc'[y] \in InWait <=> pc[y] \in InWait
                     /\ pc'[y] = "idle" <=> pc[y] = "idle"
  BY <1>1, <1>4 DEF InRead, InExit, InWait
<1> QED BY <1>2, <1>4, <1>5, ScheduleStep

LEMMA ExitStep == ASSUME KbdInv, NEW p \in Procs, Exit(p) PROVE KbdInv'
<1>1. SchedPart /\ DevPart /\ LinkPart /\ PlacePart /\ PollPart
  BY DEF KbdInv
<1>2. /\ current = p /\ pc[p] = "exit" /\ pc' = [pc EXCEPT ![p] = "exit_wakeup"]
      /\ state' = [state EXCEPT ![p] = "ZOMBIE"]
      /\ UNCHANGED <<wait_state, need_resched, time_slice, run_list, current,
                     expires, expired, irq, panic, poll, PF_EXITING, len, buf>>
      /\ UNCHANGED <<stdin_buffer, p_rpos, p_wpos, wait_queue, wakeup_flags>>
  BY DEF Exit, Step, At, Goto, devVars
<1>3. /\ p \in All /\ p # idleproc /\ p # initproc
      /\ state[p] = "RUNNABLE" /\ wait_state[p] = "0" /\ p \notin ToSet(wait_queue)
  BY <1>1, <1>2, RunsHere, SchedAssumption DEF InRead, InExit
<1>4. /\ state \in [All -> ProcState] /\ pc \in [All -> PC] /\ "exit_wakeup" \in PC
      /\ idleproc \in All /\ initproc \in All /\ Procs \subseteq All
  BY <1>1 DEF SchedPart, SchedTypeOK, PlacePart, PC, All
<1>5. /\ state'[p] = "ZOMBIE" /\ pc'[p] = "exit_wakeup" /\ pc' \in [All -> PC]
      /\ \A x \in All \ {p} : state'[x] = state[x] /\ pc'[x] = pc[x]
  BY <1>2, <1>3, <1>4
<1>6. SchedPart'
  <2>1. SchedTypeOK'
    BY <1>1, <1>2, <1>4 DEF SchedPart, SchedTypeOK, ProcState
  <2>2. QueueOk'
    BY <1>1, <1>2, <1>3, <1>5 DEF SchedPart, QueueOk, Queued
  <2>3. WaitStateOk'
    BY <1>1, <1>2, <1>3, <1>5 DEF SchedPart, WaitStateOk
  <2> QED BY <2>1, <2>2, <2>3, <1>1, <1>2 DEF SchedPart, NoTimers
<1>7. DevPart'
  BY <1>1, <1>2, DevStays
<1>8. LinkPart'
  <2>1. ToSet(wait_queue) \subseteq Procs
    BY <1>1 DEF LinkPart, ToSet
  <2> QED BY <2>1, <1>1, <1>2, <1>3, <1>4, <1>5 DEF LinkPart, Asleep
<1>9. PlacePart'
  BY <1>1, <1>2, <1>3, <1>4, <1>5 DEF PlacePart, PlaceOk, InRead, InExit, InWait
<1>10. PollPart'
  BY <1>1, <1>2, <1>3, <1>4, <1>5 DEF PollPart, NoSleepOnInput, Asleep
<1> QED BY <1>6, <1>7, <1>8, <1>9, <1>10 DEF KbdInv

LEMMA ExitWakeupStep == ASSUME KbdInv, NEW p \in Procs, ExitWakeup(p) PROVE KbdInv'
<1>1. SchedPart /\ DevPart /\ LinkPart /\ PlacePart /\ PollPart
  BY DEF KbdInv
<1>2. /\ pc[p] = "exit_wakeup" /\ pc' = [pc EXCEPT ![p] = "exit_schedule"]
      /\ IF wait_state[initproc] = "WT_CHILD"
         THEN wakeup_proc(initproc)
         ELSE UNCHANGED <<state, wait_state, run_list, time_slice, panic>>
      /\ UNCHANGED <<need_resched, current, expires, expired, irq, poll,
                     PF_EXITING, len, buf>>
      /\ UNCHANGED <<stdin_buffer, p_rpos, p_wpos, wait_queue, wakeup_flags>>
  BY DEF ExitWakeup, Step, At, Goto, devVars
<1>3. /\ Procs \subseteq All /\ p \in All /\ pc \in [All -> PC] /\ "exit_schedule" \in PC
      /\ initproc \notin Procs /\ initproc \in All /\ idleproc \in All
  BY <1>1, SchedAssumption DEF All, PlacePart, PC
<1>4. pc' \in [All -> PC] /\ pc'[p] = "exit_schedule" /\ \A x \in All \ {p} : pc'[x] = pc[x]
  BY <1>2, <1>3
<1>5. \A x \in All : /\ pc'[x] \in InRead <=> pc[x] \in InRead
                     /\ pc'[x] \in InExit <=> pc[x] \in InExit
                     /\ pc'[x] \in InWait <=> pc[x] \in InWait
                     /\ pc'[x] = "idle" <=> pc[x] = "idle"
                     /\ pc'[x] \in {"read_schedule", "wait_schedule"}
                        <=> pc[x] \in {"read_schedule", "wait_schedule"}
  BY <1>2, <1>4 DEF InRead, InExit, InWait
<1>6. /\ SchedPart' /\ PlacePart'
      /\ \A x \in Procs : state'[x] = state[x] /\ wait_state'[x] = wait_state[x]
  <2>1. CASE wait_state[initproc] = "WT_CHILD"
    <3>1. state[initproc] \notin {"ZOMBIE", "FREE"}
      BY <1>1 DEF PlacePart, PlaceOk
    <3>2. /\ SchedPart' /\ PlacePart'
          /\ state' = [state EXCEPT ![initproc] = "RUNNABLE"]
          /\ wait_state' = [wait_state EXCEPT ![initproc] = "0"]
      BY <2>1, <3>1, <1>1, <1>2, <1>4, <1>5, WakeStep
    <3>3. state \in [All -> ProcState] /\ wait_state \in [All -> WaitState]
      BY <1>1 DEF SchedPart, SchedTypeOK
    <3> QED BY <3>2, <3>3, <1>3
  <2>2. CASE wait_state[initproc] # "WT_CHILD"
    <3>1. UNCHANGED <<state, wait_state, run_list, time_slice, panic>>
      BY <2>2, <1>2
    <3>2. SchedPart'
      BY <3>1, <1>1, <1>2, SchedStays DEF schedVars
    <3>3. current \in All
      BY <1>1 DEF SchedPart, SchedTypeOK
    <3>4. PlacePart'
      BY <3>1, <3>3, <1>1, <1>2, <1>3, <1>4, <1>5 DEF PlacePart, PlaceOk
    <3> QED BY <3>1, <3>2, <3>4
  <2> QED BY <2>1, <2>2
<1>7. DevPart'
  BY <1>1, <1>2, DevStays
<1>8. LinkPart'
  <2>1. ToSet(wait_queue) \subseteq Procs
    BY <1>1 DEF LinkPart, ToSet
  <2>2. \A x \in Procs : pc'[x] \in InRead <=> pc[x] \in InRead
    BY <1>3, <1>5
  <2> QED BY <1>1, <1>2, <1>3, <1>6, <2>1, <2>2 DEF LinkPart, Asleep
<1>9. PollPart'
  BY <1>1, <1>2, <1>6 DEF PollPart, NoSleepOnInput, Asleep
<1> QED BY <1>6, <1>7, <1>8, <1>9 DEF KbdInv

LEMMA WaitFoundStep == KbdInv /\ WaitFound => KbdInv'
<1> SUFFICES ASSUME KbdInv, WaitFound PROVE KbdInv'
  OBVIOUS
<1>1. SchedPart /\ DevPart /\ LinkPart /\ PlacePart /\ PollPart
  BY DEF KbdInv
<1>2. PICK q \in Procs : state[q] = "ZOMBIE" /\ state' = [state EXCEPT ![q] = "FREE"]
  BY DEF WaitFound
<1>3. /\ current = initproc
      /\ UNCHANGED <<wait_state, need_resched, time_slice, run_list, current,
                     expires, expired, irq, panic, poll, PF_EXITING, len, buf, pc>>
      /\ UNCHANGED <<stdin_buffer, p_rpos, p_wpos, wait_queue, wakeup_flags>>
  BY DEF WaitFound, At, devVars
<1>4. /\ state \in [All -> ProcState] /\ q \in All /\ q # initproc /\ q # idleproc
      /\ idleproc \in All /\ initproc \in All /\ Procs \subseteq All
  BY <1>1, SchedAssumption DEF SchedPart, SchedTypeOK, All
<1>5. state'[q] = "FREE" /\ \A x \in All \ {q} : state'[x] = state[x]
  BY <1>2, <1>4
<1>6. SchedPart'
  <2>1. SchedTypeOK'
    BY <1>1, <1>2, <1>3, <1>4 DEF SchedPart, SchedTypeOK, ProcState
  <2>2. QueueOk'
    BY <1>1, <1>2, <1>3, <1>4, <1>5 DEF SchedPart, QueueOk, Queued
  <2>3. WaitStateOk'
    BY <1>1, <1>2, <1>3, <1>4, <1>5 DEF SchedPart, WaitStateOk
  <2> QED BY <2>1, <2>2, <2>3, <1>1, <1>3 DEF SchedPart, NoTimers
<1>7. DevPart'
  BY <1>1, <1>3, DevStays
<1>8. LinkPart'
  <2>1. ToSet(wait_queue) \subseteq Procs
    BY <1>1 DEF LinkPart, ToSet
  <2> QED BY <2>1, <1>1, <1>2, <1>3, <1>4, <1>5 DEF LinkPart, Asleep
<1>9. PlacePart'
  BY <1>1, <1>2, <1>3, <1>4, <1>5 DEF PlacePart, PlaceOk
<1>10. PollPart'
  BY <1>1, <1>2, <1>3, <1>4, <1>5 DEF PollPart, NoSleepOnInput, Asleep
<1> QED BY <1>6, <1>7, <1>8, <1>9, <1>10 DEF KbdInv

LEMMA WaitSleepStep == KbdInv /\ WaitSleep => KbdInv'
<1> SUFFICES ASSUME KbdInv, WaitSleep PROVE KbdInv'
  OBVIOUS
<1>1. SchedPart /\ DevPart /\ LinkPart /\ PlacePart /\ PollPart
  BY DEF KbdInv
<1>2. /\ current = initproc /\ pc[initproc] = "wait"
      /\ pc' = [pc EXCEPT ![initproc] = "wait_schedule"]
      /\ state' = [state EXCEPT ![initproc] = "SLEEPING"]
      /\ wait_state' = [wait_state EXCEPT ![initproc] = "WT_CHILD"]
      /\ UNCHANGED <<need_resched, time_slice, run_list, current, expires,
                     expired, irq, panic, poll, PF_EXITING, len, buf>>
      /\ UNCHANGED <<stdin_buffer, p_rpos, p_wpos, wait_queue, wakeup_flags>>
  BY DEF WaitSleep, Step, At, Goto, devVars
<1>3. state[initproc] = "RUNNABLE"
  BY <1>1, <1>2, RunsHere DEF InExit
<1>4. /\ state \in [All -> ProcState] /\ wait_state \in [All -> WaitState]
      /\ pc \in [All -> PC] /\ "wait_schedule" \in PC
      /\ idleproc \in All /\ initproc \in All /\ Procs \subseteq All
      /\ initproc # idleproc /\ initproc \notin Procs
  BY <1>1, SchedAssumption DEF SchedPart, SchedTypeOK, PlacePart, PC, All
<1>5. /\ state'[initproc] = "SLEEPING" /\ wait_state'[initproc] = "WT_CHILD"
      /\ pc'[initproc] = "wait_schedule" /\ pc' \in [All -> PC]
      /\ \A x \in All \ {initproc} : /\ state'[x] = state[x]
                                     /\ wait_state'[x] = wait_state[x]
                                     /\ pc'[x] = pc[x]
  BY <1>2, <1>4
<1>6. SchedPart'
  <2>1. SchedTypeOK'
    BY <1>1, <1>2, <1>4 DEF SchedPart, SchedTypeOK, ProcState, WaitState
  <2>2. QueueOk'
    BY <1>1, <1>2, <1>3, <1>4, <1>5 DEF SchedPart, QueueOk, Queued
  <2>3. WaitStateOk'
    BY <1>1, <1>4, <1>5 DEF SchedPart, WaitStateOk
  <2> QED BY <2>1, <2>2, <2>3, <1>1, <1>2 DEF SchedPart, NoTimers
<1>7. DevPart'
  BY <1>1, <1>2, DevStays
<1>8. LinkPart'
  <2>1. ToSet(wait_queue) \subseteq Procs
    BY <1>1 DEF LinkPart, ToSet
  <2> QED BY <2>1, <1>1, <1>2, <1>4, <1>5 DEF LinkPart, Asleep
<1>9. PlacePart'
  BY <1>1, <1>2, <1>4, <1>5 DEF PlacePart, PlaceOk, InWait
<1>10. PollPart'
  BY <1>1, <1>2, <1>4, <1>5 DEF PollPart, NoSleepOnInput, Asleep
<1> QED BY <1>6, <1>7, <1>8, <1>9, <1>10 DEF KbdInv

-----------------------------------------------------------------------------
(* The invariant holds initially and is kept by every step.                 *)

LEMMA InitInv == Init => KbdInv
<1> SUFFICES ASSUME Init PROVE KbdInv
  OBVIOUS
<1>1. /\ idleproc \in All /\ initproc \in All /\ Procs \subseteq All
      /\ \A x \in All : x \in Procs \/ x = idleproc \/ x = initproc
      /\ idleproc \notin Procs /\ initproc \notin Procs /\ idleproc # initproc
  BY SchedAssumption DEF All
<1>2. run_list \in Seq(Procs) /\ NoRepeat(run_list) /\ ToSet(run_list) = Procs
  BY SetToSeqsQueue, StdinAssumption DEF Init
<1>3. SchedPart
  <2>1. SchedTypeOK
    <3>1. run_list \in Seq(Procs \cup {initproc})
      <4>1. Len(run_list) \in Nat /\ run_list \in [1..Len(run_list) -> Procs]
        BY <1>2
      <4> QED BY <4>1
    <3>2. current \in All /\ expires \in [All -> 0..MaxSleep] /\ expired \in SUBSET All
      BY <1>1, SchedAssumption DEF Init
    <3>3. /\ need_resched \in [All -> BOOLEAN]
          /\ time_slice \in [All -> 0..MAX_TIME_SLICE]
      BY <1>1, SchedAssumption DEF Init
    <3>4. state \in [All -> ProcState] /\ wait_state \in [All -> WaitState]
      BY DEF Init, ProcState, WaitState
    <3> QED BY <3>1, <3>2, <3>3, <3>4 DEF Init, SchedTypeOK, Panics
  <2>2. QueueOk
    BY <1>1, <1>2 DEF Init, QueueOk, Queued, NoRepeat, ToSet
  <2>3. WaitStateOk
    BY <1>1 DEF Init, WaitStateOk
  <2> QED BY <2>1, <2>2, <2>3 DEF Init, SchedPart, NoTimers
<1>4. DevPart
  <2>1. <<>> \in Seq(Keys) /\ Len(<<>>) = 0
    OBVIOUS
  <2>2. stdin_buffer \in [0..(STDIN_BUFSIZE - 1) -> Keys \cup {NULL}]
    BY DEF Init
  <2>3. p_rpos = 0 /\ p_wpos = 0
    BY DEF Init
  <2>4. len \in [Procs -> 1..MaxLen] /\ buf \in [Procs -> Seq(Keys)]
        /\ \A p \in Procs : Len(buf[p]) <= len[p]
    BY <2>1, StdinAssumption DEF Init
  <2> QED BY <2>2, <2>3, <2>4, StdinAssumption DEF DevPart, BufferOk
<1>5. LinkPart
  <2>1. wait_queue = <<>> /\ wait_queue \in Seq(Procs) /\ NoRepeat(wait_queue)
        /\ ToSet(wait_queue) = {}
    BY DEF Init, NoRepeat, ToSet
  <2>2. \A p \in Procs : ~Asleep(p)
    BY <1>1 DEF Init, Asleep
  <2> QED BY <2>1, <2>2 DEF Init, LinkPart
<1>6. PlacePart
  <2>1. pc \in [All -> PC]
    BY DEF Init, PC
  <2>2. pc[idleproc] = "idle" /\ pc[initproc] = "wait" /\ \A p \in Procs : pc[p] = "user"
    BY <1>1 DEF Init
  <2>3. /\ state[idleproc] = "RUNNABLE" /\ state[initproc] = "SLEEPING"
        /\ wait_state[initproc] = "WT_CHILD" /\ current = idleproc
        /\ \A p \in Procs : state[p] = "RUNNABLE" /\ wait_state[p] = "0"
    BY <1>1 DEF Init
  <2> QED BY <2>1, <2>2, <2>3 DEF PlacePart, PlaceOk, InRead, InExit, InWait
<1>7. PollPart
  BY StdinAssumption DEF Init, PollPart, NoSleepOnInput
<1> QED BY <1>3, <1>4, <1>5, <1>6, <1>7 DEF KbdInv

LEMMA StutterInv == KbdInv /\ UNCHANGED vars => KbdInv'
<1> SUFFICES ASSUME KbdInv, UNCHANGED vars PROVE KbdInv'
  OBVIOUS
<1>1. /\ UNCHANGED schedVars /\ UNCHANGED <<state, wait_state, current, irq>>
      /\ UNCHANGED <<stdin_buffer, p_rpos, p_wpos, wait_queue, wakeup_flags,
                     poll, PF_EXITING, len, buf, pc>>
  BY DEF vars, schedVars, devVars
<1>2. SchedPart' /\ DevPart'
  BY <1>1, SchedStays, DevStays DEF KbdInv
<1>3. LinkPart'
  BY <1>1 DEF KbdInv, LinkPart, Asleep
<1>4. PlacePart'
  BY <1>1 DEF KbdInv, PlacePart, PlaceOk
<1>5. PollPart'
  BY <1>1 DEF KbdInv, PollPart, NoSleepOnInput, Asleep
<1> QED BY <1>2, <1>3, <1>4, <1>5 DEF KbdInv

LEMMA NextInv == KbdInv /\ [Next]_vars => KbdInv'
<1> SUFFICES ASSUME KbdInv, [Next]_vars PROVE KbdInv'
  OBVIOUS
<1>1. CASE TimerIrq
  BY <1>1, TimerIrqStep
<1>2. CASE TimerTick
  BY <1>2, TimerTickStep
<1>3. CASE PollStep
  BY <1>3, NoKeyStep, WakeReaderStep, KeyStep DEF PollStep
<1>4. CASE Idle
  BY <1>4, ScheduleSteps
<1>5. CASE InitprocStep
  BY <1>5, WaitFoundStep, WaitSleepStep, ScheduleSteps DEF InitprocStep
<1>6. ASSUME NEW p \in Procs, KernelStep(p) PROVE KbdInv'
  <2>1. CASE ReadKey(p)
    BY <2>1, ReadKeyStep
  <2>2. CASE ReadAll(p)
    BY <2>2, PlainSteps
  <2>3. CASE ReadWait(p)
    BY <2>3, ReadWaitStep
  <2>4. CASE ReadSchedule(p) \/ ExitSchedule(p)
    BY <2>4, ScheduleSteps
  <2>5. CASE ReadResume(p)
    BY <2>5, ReadResumeStep
  <2>6. CASE TrapReturn(p)
    BY <2>6, TrapReturnStep
  <2>7. CASE Exit(p)
    BY <2>7, ExitStep
  <2>8. CASE ExitWakeup(p)
    BY <2>8, ExitWakeupStep
  <2> QED BY <1>6, <2>1, <2>2, <2>3, <2>4, <2>5, <2>6, <2>7, <2>8 DEF KernelStep
<1>7. ASSUME NEW p \in Procs, UserStep(p) PROVE KbdInv'
  <2>1. CASE SysRead(p)
    BY <2>1, SysReadStep
  <2>2. CASE SysOther(p) \/ SysExit(p)
    BY <2>2, PlainSteps
  <2>3. CASE \E q \in Procs : SysKill(p, q)
    BY <2>3, SysKillStep
  <2> QED BY <1>7, <2>1, <2>2, <2>3 DEF UserStep
<1>8. CASE UNCHANGED vars
  BY <1>8, StutterInv
<1> QED BY <1>1, <1>2, <1>3, <1>4, <1>5, <1>6, <1>7, <1>8 DEF Next

(* The inductive invariant holds in every behaviour of dev_stdin.c with its *)
(* readers, its interrupts and the kills.                                   *)
THEOREM KbdInvariant == Spec => []KbdInv
BY InitInv, NextInv, PTL DEF Spec

(* The wait queue of the keyboard links live sleepers only, each once, and  *)
(* no assertion of wait.c and sched.c fails (dev_stdin_read with do_kill).  *)
THEOREM WaitersLinked == Spec => []LinkedOk
BY KbdInvariant, KbdInvImplies, PTL

(* No reader sleeps while there is a key to read: no order of the interrupt *)
(* and dev_stdin_read loses a wakeup.                                       *)
THEOREM NoLostKey == Spec => []NoSleepOnInput
BY KbdInvariant, KbdInvImplies, PTL

-----------------------------------------------------------------------------
(* The ring buffer implements the abstract keyboard.                        *)

(* The abstract queue as a sequence, for positions r and w and a buffer b.  *)
LEMMA UnreadQueue ==
    ASSUME NEW r \in Nat, NEW w \in Nat, r <= w, NEW b,
           \A i \in r..(w - 1) : b[i % STDIN_BUFSIZE] \in Keys
    PROVE  LET q == [i \in 1..(w - r) |-> b[(r + i - 1) % STDIN_BUFSIZE]]
           IN  q \in Seq(Keys) /\ Len(q) = w - r
<1> DEFINE n == w - r
           q == [i \in 1..n |-> b[(r + i - 1) % STDIN_BUFSIZE]]
<1>1. n \in Nat
  OBVIOUS
<1>2. \A i \in 1..n : r + i - 1 \in r..(w - 1)
  OBVIOUS
<1>3. q \in [1..n -> Keys]
  BY <1>2
<1> HIDE DEF q, n
<1>4. q \in Seq(Keys) /\ Len(q) = n
  BY <1>1, <1>3
<1> QED BY <1>4 DEF q, n

LEMMA UnreadNow ==
    ASSUME DevPart
    PROVE  /\ Unread \in Seq(Keys) /\ Len(Unread) = p_wpos - p_rpos
           /\ \A i \in 1..(p_wpos - p_rpos) :
                 Unread[i] = stdin_buffer[(p_rpos + i - 1) % STDIN_BUFSIZE]
<1>1. /\ p_rpos \in Nat /\ p_wpos \in Nat /\ p_rpos <= p_wpos
      /\ \A i \in p_rpos..(p_wpos - 1) : stdin_buffer[i % STDIN_BUFSIZE] \in Keys
  BY StdinAssumption DEF DevPart, BufferOk
<1> DEFINE q == [i \in 1..(p_wpos - p_rpos) |-> stdin_buffer[(p_rpos + i - 1) % STDIN_BUFSIZE]]
<1>2. q \in Seq(Keys) /\ Len(q) = p_wpos - p_rpos
  BY <1>1, UnreadQueue
<1>3. Unread = q
  BY DEF Unread
<1> QED BY <1>2, <1>3

LEMMA UnreadThen ==
    ASSUME DevPart'
    PROVE  /\ Unread' \in Seq(Keys) /\ Len(Unread') = p_wpos' - p_rpos'
           /\ \A i \in 1..(p_wpos' - p_rpos') :
                 Unread'[i] = stdin_buffer'[(p_rpos' + i - 1) % STDIN_BUFSIZE]
<1>1. /\ p_rpos' \in Nat /\ p_wpos' \in Nat /\ p_rpos' <= p_wpos'
      /\ \A i \in p_rpos'..(p_wpos' - 1) : stdin_buffer'[i % STDIN_BUFSIZE] \in Keys
  <2>1. BufferOk' /\ p_rpos' \in 0..p_wpos' /\ p_wpos' \in 0..MaxTyped
    BY DEF DevPart
  <2>2. p_rpos' \in Nat /\ p_wpos' \in Nat /\ p_rpos' <= p_wpos'
    BY <2>1, StdinAssumption
  <2> QED BY <2>1, <2>2 DEF BufferOk
<1> DEFINE q == [i \in 1..(p_wpos' - p_rpos') |-> stdin_buffer'[(p_rpos' + i - 1) % STDIN_BUFSIZE]]
<1>2. q \in Seq(Keys) /\ Len(q) = p_wpos' - p_rpos'
  BY <1>1, UnreadQueue
<1>3. Unread' = q
  BY DEF Unread
<1> QED BY <1>2, <1>3

(* A key: it joins the queue, or takes the place of the oldest.             *)
LEMMA KeyIsType ==
    ASSUME KbdInv, NEW c \in Keys, Key(c) PROVE Ideal!Type(c)
<1> DEFINE B == STDIN_BUFSIZE
           n == p_wpos - p_rpos
<1>1. DevPart /\ DevPart'
  BY KeyStep DEF KbdInv
<1>2. B \in Nat \ {0}
  BY StdinAssumption
<1>3. /\ p_rpos \in Nat /\ p_wpos \in Nat /\ n \in Nat /\ n <= B
      /\ stdin_buffer \in [0..(B - 1) -> Keys \cup {NULL}]
  BY <1>1, StdinAssumption DEF DevPart
<1>4. /\ stdin_buffer' = [stdin_buffer EXCEPT ![p_wpos % B] = c]
      /\ p_wpos' = (IF n < B THEN p_wpos + 1 ELSE p_wpos)
      /\ p_rpos' = p_rpos /\ buf' = buf
  BY DEF Key, Advanced
<1>5. \A i \in Nat : i % B \in 0..(B - 1)
  BY <1>2, DivMod
<1>6. \A j \in 0..(B - 1) :
         stdin_buffer'[j] = IF j = p_wpos % B THEN c ELSE stdin_buffer[j]
  BY <1>3, <1>4
<1>7. /\ Unread \in Seq(Keys) /\ Len(Unread) = n
      /\ \A i \in 1..n : Unread[i] = stdin_buffer[(p_rpos + i - 1) % B]
  BY <1>1, UnreadNow
<1>8. /\ Unread' \in Seq(Keys) /\ Len(Unread') = p_wpos' - p_rpos
      /\ \A i \in 1..(p_wpos' - p_rpos) :
            Unread'[i] = stdin_buffer'[(p_rpos + i - 1) % B]
  BY <1>1, <1>4, UnreadThen
<1>9. CASE n < B
  <2>1. /\ Append(Unread, c) \in Seq(Keys) /\ Len(Append(Unread, c)) = n + 1
        /\ \A i \in 1..n : Append(Unread, c)[i] = Unread[i]
        /\ Append(Unread, c)[n + 1] = c
    BY <1>7
  <2>2. Len(Unread') = n + 1 /\ p_wpos' - p_rpos = n + 1
    BY <1>3, <1>4, <1>8, <1>9
  <2>3. ASSUME NEW i \in 1..(n + 1) PROVE Unread'[i] = Append(Unread, c)[i]
    <3>1. p_rpos + i - 1 \in Nat /\ Unread'[i] = stdin_buffer'[(p_rpos + i - 1) % B]
      BY <1>3, <1>8, <2>2
    <3>2. CASE i = n + 1
      <4>1. p_rpos + i - 1 = p_wpos
        BY <3>2, <1>3
      <4> QED BY <3>1, <3>2, <4>1, <2>1, <1>3, <1>5, <1>6
    <3>3. CASE i # n + 1
      <4>1. i \in 1..n /\ p_rpos + i - 1 < p_wpos /\ p_wpos - (p_rpos + i - 1) < B
        BY <3>3, <1>2, <1>3, <1>9
      <4>2. (p_rpos + i - 1) % B # p_wpos % B
        BY <3>1, <4>1, <1>2, <1>3, CellsDiffer
      <4>3. Unread'[i] = stdin_buffer[(p_rpos + i - 1) % B]
        BY <3>1, <4>2, <1>5, <1>6
      <4> QED BY <4>1, <4>3, <2>1, <1>7
    <3> QED BY <3>2, <3>3
  <2> HIDE DEF n
  <2>4. Unread' = Append(Unread, c)
    BY <2>1, <2>2, <2>3, <1>8, SeqEqual
  <2> QED BY <2>4, <1>4, <1>7, <1>9 DEF Ideal!Type
<1>10. CASE ~(n < B)
  <2>1. n = B /\ p_wpos' - p_rpos = n /\ p_wpos = p_rpos + B
    BY <1>2, <1>3, <1>4, <1>10
  <2>2. /\ Tail(Unread) \in Seq(Keys) /\ Len(Tail(Unread)) = n - 1
        /\ \A i \in 1..(n - 1) : Tail(Unread)[i] = Unread[i + 1]
    BY <1>2, <1>7, <2>1
  <2>3. /\ <<c>> \o Tail(Unread) \in Seq(Keys)
        /\ Len(<<c>> \o Tail(Unread)) = n
        /\ \A i \in 1..n : (<<c>> \o Tail(Unread))[i] =
                              IF i <= 1 THEN <<c>>[i] ELSE Tail(Unread)[i - 1]
    <3>1. <<c>> \in Seq(Keys) /\ Len(<<c>>) = 1
      OBVIOUS
    <3> QED BY <3>1, <2>1, <2>2, <1>2, ConcatProperties
  <2>4. ASSUME NEW i \in 1..n PROVE Unread'[i] = (<<c>> \o Tail(Unread))[i]
    <3>1. p_rpos + i - 1 \in Nat /\ Unread'[i] = stdin_buffer'[(p_rpos + i - 1) % B]
      <4>1. i \in 1..(p_wpos' - p_rpos)
        BY <2>1
      <4>2. p_rpos + i - 1 \in Nat
        BY <1>3
      <4> QED BY <4>1, <4>2, <1>8
    <3>2. p_wpos % B = p_rpos % B
      BY <2>1, <1>2, <1>3, CellsSame
    <3>3. CASE i = 1
      <4>1. p_rpos + i - 1 = p_rpos
        BY <3>3, <1>3
      <4>2. Unread'[i] = c
        BY <3>1, <3>2, <4>1, <1>3, <1>5, <1>6
      <4>3. (<<c>> \o Tail(Unread))[i] = c
        BY <2>3, <3>3
      <4> QED BY <4>2, <4>3
    <3>4. CASE i # 1
      <4>1. p_rpos < p_rpos + i - 1 /\ (p_rpos + i - 1) - p_rpos < B
        BY <3>4, <2>1, <1>2, <1>3
      <4>2. p_rpos % B # (p_rpos + i - 1) % B
        BY <3>1, <4>1, <1>2, <1>3, CellsDiffer
      <4>3. Unread'[i] = stdin_buffer[(p_rpos + i - 1) % B]
        BY <3>1, <3>2, <4>2, <1>5, <1>6
      <4>4. i - 1 \in 1..(n - 1) /\ (i - 1) + 1 = i /\ ~(i <= 1)
        BY <3>4, <1>3
      <4>5. (<<c>> \o Tail(Unread))[i] = Unread[i]
        BY <2>2, <2>3, <4>4
      <4> QED BY <4>3, <4>5, <1>7
    <3> QED BY <3>3, <3>4
  <2>5. Len(Unread') = n
    BY <1>8, <2>1
  <2> HIDE DEF n
  <2>6. Unread' = <<c>> \o Tail(Unread)
    BY <2>3, <2>4, <2>5, <1>8, SeqEqual
  <2> QED BY <2>6, <1>4, <1>7, <1>10 DEF Ideal!Type
<1> QED BY <1>9, <1>10

(* A key read is the oldest.                                                *)
LEMMA ReadKeyIsGive ==
    ASSUME KbdInv, NEW p \in Procs, ReadKey(p) PROVE Ideal!Give(p)
<1> DEFINE B == STDIN_BUFSIZE
           n == p_wpos - p_rpos
           c == stdin_buffer[p_rpos % B]
<1>1. DevPart /\ DevPart'
  BY ReadKeyStep DEF KbdInv
<1>2. /\ Len(buf[p]) < len[p] /\ p_rpos < p_wpos
      /\ buf' = [buf EXCEPT ![p] = Append(@, c)]
      /\ p_rpos' = p_rpos + 1
      /\ UNCHANGED <<stdin_buffer, p_wpos>>
  BY DEF ReadKey
<1>3. /\ p_rpos \in Nat /\ p_wpos \in Nat /\ n \in Nat \ {0} /\ len[p] <= MaxLen
      /\ len[p] \in Nat /\ MaxLen \in Nat /\ Len(buf[p]) \in Nat
  BY <1>1, <1>2, StdinAssumption DEF DevPart
<1>4. /\ Unread \in Seq(Keys) /\ Len(Unread) = n
      /\ \A i \in 1..n : Unread[i] = stdin_buffer[(p_rpos + i - 1) % B]
  BY <1>1, UnreadNow
<1>5. /\ Unread' \in Seq(Keys) /\ Len(Unread') = p_wpos - (p_rpos + 1)
      /\ \A i \in 1..(p_wpos - (p_rpos + 1)) :
            Unread'[i] = stdin_buffer[((p_rpos + 1) + i - 1) % B]
  BY <1>1, <1>2, UnreadThen
<1>6. Unread # <<>> /\ Head(Unread) = c
  <2>1. Unread # <<>> /\ Head(Unread) = Unread[1]
    BY <1>3, <1>4
  <2>2. 1 \in 1..n /\ p_rpos + 1 - 1 = p_rpos
    BY <1>3
  <2> QED BY <2>1, <2>2, <1>4
<1>7. Unread' = Tail(Unread)
  <2>1. /\ Tail(Unread) \in Seq(Keys) /\ Len(Tail(Unread)) = n - 1
        /\ \A i \in 1..(n - 1) : Tail(Unread)[i] = Unread[i + 1]
    BY <1>3, <1>4
  <2>2. p_wpos - (p_rpos + 1) = n - 1
    BY <1>3
  <2>3. ASSUME NEW i \in 1..(n - 1) PROVE Unread'[i] = Tail(Unread)[i]
    <3>1. i + 1 \in 1..n /\ p_rpos + (i + 1) - 1 = (p_rpos + 1) + i - 1
      BY <1>3
    <3>2. Unread[i + 1] = stdin_buffer[((p_rpos + 1) + i - 1) % B]
      BY <3>1, <1>4
    <3>3. Unread'[i] = stdin_buffer[((p_rpos + 1) + i - 1) % B]
      BY <2>2, <1>5
    <3> QED BY <3>2, <3>3, <2>1
  <2>4. Len(Unread') = n - 1
    BY <2>2, <1>5
  <2> HIDE DEF n
  <2> QED BY <2>1, <2>3, <2>4, <1>5, SeqEqual
<1>8. Len(buf[p]) < MaxLen
  BY <1>2, <1>3
<1> HIDE DEF c, n
<1> QED BY <1>2, <1>6, <1>7, <1>8 DEF Ideal!Give

(* Every other step leaves the abstract keyboard alone, or starts a call.   *)
LEMMA KeyboardStep ==
    KbdInv /\ [Next]_vars => [Ideal!KeyboardNext]_<<Unread, buf>>
<1> SUFFICES ASSUME KbdInv, [Next]_vars
             PROVE  [Ideal!KeyboardNext]_<<Unread, buf>>
  OBVIOUS
<1>1. UNCHANGED <<stdin_buffer, p_rpos, p_wpos, buf>> => UNCHANGED <<Unread, buf>>
  BY DEF Unread
<1>2. CASE \E c \in Keys : Key(c)
  BY <1>2, KeyIsType DEF Ideal!KeyboardNext
<1>3. CASE \E p \in Procs : ReadKey(p)
  BY <1>3, ReadKeyIsGive DEF Ideal!KeyboardNext
<1>4. ASSUME NEW p \in Procs, SysRead(p) PROVE Ideal!KeyboardNext
  <2>1. buf' = [buf EXCEPT ![p] = <<>>] /\ UNCHANGED <<stdin_buffer, p_rpos, p_wpos>>
    BY <1>4 DEF SysRead, devVars
  <2>2. Unread' = Unread
    BY <2>1 DEF Unread
  <2> QED BY <2>1, <2>2 DEF Ideal!KeyboardNext, Ideal!Ask
<1>5. CASE TimerIrq \/ TimerTick \/ NoKey \/ WakeReader \/ Idle \/ InitprocStep
  <2>1. UNCHANGED <<stdin_buffer, p_rpos, p_wpos, buf>>
    BY <1>5 DEF TimerIrq, TimerTick, NoKey, WakeReader, Idle, InitprocStep,
                WaitFound, WaitSleep, WaitSchedule, devVars
  <2> QED BY <2>1, <1>1
<1>6. ASSUME NEW p \in Procs,
             ReadAll(p) \/ ReadWait(p) \/ ReadSchedule(p) \/ ReadResume(p)
             \/ TrapReturn(p) \/ Exit(p) \/ ExitWakeup(p) \/ ExitSchedule(p)
             \/ SysOther(p) \/ SysExit(p) \/ \E q \in Procs : SysKill(p, q)
      PROVE  UNCHANGED <<Unread, buf>>
  <2>1. UNCHANGED <<stdin_buffer, p_rpos, p_wpos, buf>>
    BY <1>6 DEF ReadAll, ReadWait, ReadSchedule, ReadResume, TrapReturn, Exit,
                ExitWakeup, ExitSchedule, SysOther, SysExit, SysKill, devVars
  <2> QED BY <2>1, <1>1
<1>7. CASE UNCHANGED vars
  <2>1. UNCHANGED <<stdin_buffer, p_rpos, p_wpos, buf>>
    BY <1>7 DEF vars, devVars
  <2> QED BY <2>1, <1>1
<1> QED BY <1>2, <1>3, <1>4, <1>5, <1>6, <1>7
        DEF Next, PollStep, KernelStep, UserStep

LEMMA KeyboardInit == Init => Ideal!TypedFirst
<1> SUFFICES ASSUME Init PROVE Unread = <<>> /\ buf = [p \in Procs |-> <<>>]
  BY DEF Ideal!TypedFirst
<1>1. DevPart
  BY InitInv DEF KbdInv
<1>2. Unread \in Seq(Keys) /\ Len(Unread) = 0
  BY <1>1, UnreadNow DEF Init
<1>3. <<>> \in Seq(Keys) /\ Len(<<>>) = 0
  OBVIOUS
<1>4. Unread = <<>>
  BY <1>2, <1>3, SeqEqual
<1> QED BY <1>4 DEF Init

(* dev_stdin.c hands out the keys in the order in which they were typed,    *)
(* each to one reader, and loses one only when the buffer is full: every    *)
(* step is one of the abstract keyboard or leaves it alone.                 *)
THEOREM RingIsKeyboard == Spec => ImplementsKeyboard
<1>1. KbdInv /\ [Next]_vars => [Ideal!KeyboardNext]_<<Unread, buf>>
  BY KeyboardStep
<1> QED BY <1>1, KeyboardInit, KbdInvariant, PTL
        DEF Spec, ImplementsKeyboard, Ideal!KeyboardSpec

=============================================================================
