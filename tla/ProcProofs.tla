----------------------------- MODULE ProcProofs -----------------------------
(***************************************************************************)
(* Proofs about module Proc, for any number of processes and any bounds,   *)
(* under the one assumption that copy_files finds memory (README.md says   *)
(* what happens when it does not).                                         *)
(***************************************************************************)
EXTENDS ProcInv, QueueProofs

-----------------------------------------------------------------------------
(* The two routines of the scheduler that move processes, as in every proof *)
(* about a module that is composed with Sched.                              *)

(* schedule() keeps the run queue right and gives the CPU to a process that *)
(* can run; no assertion of RR_enqueue fails.                               *)
LEMMA ScheduleLemma ==
    ASSUME SchedTypeOK, QueueOk, state[idleproc] = "RUNNABLE", schedule
    PROVE  /\ SchedTypeOK' /\ wait_state' = wait_state /\ state' = state
           /\ QueueOk'
           /\ panic' = panic
           /\ state[current'] = "RUNNABLE"
<1> DEFINE runs == state[current] = "RUNNABLE"
           q == IF runs THEN Enqueued(run_list, current) ELSE run_list
           Others == Procs \cup {initproc}
           Ready == {p \in All : state[p] = "RUNNABLE"}
<1>1. /\ run_list \in Seq(Others) /\ current \in Others \cup {idleproc}
      /\ NoRepeat(run_list)
      /\ idleproc \notin Others /\ All = Others \cup {idleproc} /\ idleproc \in Ready
      /\ \A p \in Others : p \in ToSet(run_list) <=> p \in Ready /\ p # current
  BY SchedAssumption DEF SchedTypeOK, QueueOk, Queued, NoRepeat, ToSet, All
<1>2. /\ q = (IF current \in Ready /\ current # idleproc
               THEN Append(run_list, current) ELSE run_list)
      /\ runs <=> current \in Ready
  BY <1>1 DEF Enqueued
<1>3. /\ current' = (IF q = <<>> THEN idleproc ELSE Head(q))
      /\ run_list' = (IF q = <<>> THEN q ELSE Tail(q))
      /\ panic' = (IF runs THEN EnqueuePanic(current) ELSE panic)
      /\ need_resched' = [need_resched EXCEPT ![current] = FALSE]
      /\ time_slice' = (IF runs THEN Refilled(time_slice, current) ELSE time_slice)
      /\ UNCHANGED <<state, wait_state, expires, expired, irq>>
  BY DEF schedule
<1>4. /\ current' \in All /\ state[current'] = "RUNNABLE"
      /\ run_list' \in Seq(Others) /\ NoRepeat(run_list')
      /\ \A p \in All \ {idleproc} :
            p \in ToSet(run_list') <=> state[p] = "RUNNABLE" /\ p # current'
      /\ current \in Ready /\ current # idleproc => current \notin ToSet(run_list)
  <2>1. /\ current' \in Others \cup {idleproc} /\ current' \in Ready
        /\ run_list' \in Seq(Others) /\ NoRepeat(run_list')
        /\ \A p \in Others : p \in ToSet(run_list') <=> p \in Ready /\ p # current'
        /\ current \in Ready /\ current # idleproc => current \notin ToSet(run_list)
    <3>1. QueueTurn(Others, idleproc, Ready, current, run_list, q, current', run_list')
      BY <1>1, <1>2, <1>3 DEF QueueTurn
    <3> HIDE DEF q, Ready, Others
    <3> QED BY <3>1, TurnQueue
  <2> QED BY <2>1, <1>1
<1>5. panic' = panic
  BY <1>2, <1>3, <1>4 DEF EnqueuePanic, Queued, ToSet
<1>6. QueueOk'
  BY <1>3, <1>4 DEF QueueOk, Queued, NoRepeat, ToSet
<1>7. SchedTypeOK'
  <2>1. need_resched' \in [All -> BOOLEAN]
    BY <1>3 DEF SchedTypeOK
  <2>2. time_slice' \in [All -> 0..MAX_TIME_SLICE]
    BY <1>3, SchedAssumption DEF SchedTypeOK, Refilled
  <2> QED BY <1>3, <1>4, <1>5, <2>1, <2>2, <1>1 DEF SchedTypeOK
<1> QED BY <1>3, <1>4, <1>5, <1>6, <1>7

(* wakeup_proc of a process that is neither freed nor a zombie makes it     *)
(* runnable, and keeps the run queue and the wait states right.             *)
LEMMA WakeupLemma ==
    ASSUME SchedTypeOK, QueueOk, WaitStateOk, NEW p \in All, p # idleproc,
           state[p] \notin {"FREE", "ZOMBIE"}, wakeup_proc(p), current' = current
    PROVE  /\ run_list' \in Seq(Procs \cup {initproc})
           /\ time_slice' \in [All -> 0..MAX_TIME_SLICE]
           /\ state' = [state EXCEPT ![p] = "RUNNABLE"]
           /\ wait_state' = [wait_state EXCEPT ![p] = "0"]
           /\ QueueOk' /\ WaitStateOk'
           /\ panic' = panic
<1> DEFINE Others == Procs \cup {initproc}
<1>1. /\ run_list \in Seq(Others) /\ p \in Others
      /\ state \in [All -> ProcState] /\ wait_state \in [All -> WaitState]
      /\ time_slice \in [All -> 0..MAX_TIME_SLICE]
      /\ NoRepeat(run_list)
      /\ \A x \in All \ {idleproc} :
            x \in ToSet(run_list) <=> state[x] = "RUNNABLE" /\ x # current
  BY DEF SchedTypeOK, QueueOk, Queued, NoRepeat, ToSet, All
<1>2. CASE state[p] = "RUNNABLE"
  <2>1. UNCHANGED <<state, wait_state, run_list, time_slice, panic>>
    BY <1>2 DEF wakeup_proc
  <2>2. wait_state[p] = "0"
    BY <1>2 DEF WaitStateOk
  <2>3. QueueOk' /\ WaitStateOk'
    BY <2>1 DEF QueueOk, Queued, WaitStateOk
  <2> QED BY <1>1, <1>2, <2>1, <2>2, <2>3
<1>3. CASE state[p] # "RUNNABLE"
  <2>1. /\ state' = [state EXCEPT ![p] = "RUNNABLE"]
        /\ wait_state' = [wait_state EXCEPT ![p] = "0"]
        /\ run_list' = WokenQueue(p)
        /\ time_slice' = (IF p = current THEN time_slice ELSE Refilled(time_slice, p))
        /\ panic' = (IF p = current THEN panic ELSE EnqueuePanic(p))
    BY <1>3 DEF wakeup_proc, Awake
  <2>2. p \notin ToSet(run_list)
    BY <1>1, <1>3
  <2>3. panic' = panic
    BY <2>1, <2>2 DEF EnqueuePanic, Queued, ToSet
  <2>4. /\ run_list' \in Seq(Others) /\ NoRepeat(run_list')
        /\ \A x \in All \ {idleproc} :
              x \in ToSet(run_list') <=> state'[x] = "RUNNABLE" /\ x # current
    <3>1. CASE p = current
      BY <3>1, <2>1, <2>2, <1>1 DEF WokenQueue
    <3>2. CASE p # current
      <4>1. run_list' = Append(run_list, p)
        BY <3>2, <2>1 DEF WokenQueue, Enqueued
      <4>2. /\ run_list' \in Seq(Others) /\ NoRepeat(run_list')
            /\ ToSet(run_list') = ToSet(run_list) \cup {p}
        BY <4>1, <2>2, <1>1, AppendQueue
      <4> QED BY <4>2, <3>2, <2>1, <1>1
    <3> QED BY <3>1, <3>2
  <2>5. QueueOk'
    BY <2>4 DEF QueueOk, Queued, NoRepeat, ToSet
  <2>6. WaitStateOk'
    BY <2>1, <1>1 DEF WaitStateOk
  <2>7. time_slice' \in [All -> 0..MAX_TIME_SLICE]
    BY <2>1, <1>1, SchedAssumption DEF Refilled
  <2> QED BY <2>1, <2>3, <2>4, <2>5, <2>6, <2>7
<1> QED BY <1>2, <1>3

-----------------------------------------------------------------------------
(* The invariant.  One lemma for the steps that leave the scheduler alone, one  *)
(* for those that end in schedule(), then one step per action.              *)

(* IInv without the types of the variables that processes have beside the   *)
(* scheduler's.                                                             *)
Core == /\ SchedTypeOK /\ wait_state \in [All -> {"0", "WT_CHILD", "WT_TIMER"}]
        /\ pc \in [All -> PC]
        /\ QueueOk /\ WaitStateOk
        /\ PcInv /\ CurrentInv /\ FixedInv /\ ParentInv /\ IrqInv
        /\ TimerOk /\ PanicOk

Rest == /\ umode \in [All -> BOOLEAN] /\ exiting \in [All -> BOOLEAN]
        /\ parent \in [All -> All \cup {NULL}] /\ cptr \in [All -> All \cup {NULL}]
        /\ yptr \in [All -> All \cup {NULL}] /\ optr \in [All -> All \cup {NULL}]
        /\ proc_list \in SUBSET (Procs \cup {initproc}) /\ nr_process \in Int
        /\ mm \in [All -> BOOLEAN] /\ filesp \in [All -> BOOLEAN]
        /\ waitpid \in [All -> Procs \cup {initproc, NULL}]
        /\ walk \in [All -> All \cup {NULL}] /\ started \in 0..InitThreads

LEMMA IInvSplit == IInv <=> Core /\ Rest
BY DEF IInv, Core, Rest, TypeInv, ProcTypeOK

(* Program counters of a process that runs and is marked runnable.          *)
RunPc == {"boot", "user", "kthread", "trapret", "wait", "wait_scan",
          "wait_sleep", "waited", "wait_found", "init_loop", "init_quit", "exit"}

(* A process that moves within RunPc while the scheduler's variables stay.  *)
LEMMA QuietStep ==
    ASSUME Core, NEW p \in Procs \cup {initproc}, current = p, pc[p] \in RunPc,
           NEW m \in RunPc, pc' = [pc EXCEPT ![p] = m],
           UNCHANGED schedVars, UNCHANGED parent,
           m = "wait_found" => walk'[p] \in All /\ state[walk'[p]] = "ZOMBIE"
    PROVE  Core'
<1>1. /\ p \in All /\ p # idleproc /\ m \in PC
      /\ pc \in [All -> PC]
      /\ \A x \in All \ {p} : pc'[x] = pc[x]
      /\ pc'[p] = m
  BY SchedAssumption DEF Core, All, RunPc, PC
<1>2. /\ state[p] \notin {"FREE", "ZOMBIE", "SLEEPING"}
      /\ wait_state[p] = "0" /\ ~Armed(p)
  BY <1>1 DEF Core, RunPc, PcInv, CurrentInv, WaitStateOk, TimerOk, ExitPc
<1>3. UNCHANGED <<state, wait_state, need_resched, time_slice, run_list,
                  current, expires, expired, irq, panic>>
  BY DEF schedVars
<1>4. SchedTypeOK' /\ QueueOk' /\ WaitStateOk' /\ IrqInv' /\ PanicOk'
  <2>1. SchedTypeOK'
    BY <1>3 DEF Core, SchedTypeOK
  <2>2. Queued' = Queued
    BY <1>3 DEF Queued
  <2>3. QueueOk'
    BY <1>3, <2>2 DEF Core, QueueOk
  <2>4. WaitStateOk' /\ IrqInv' /\ PanicOk'
    BY <1>3 DEF Core, WaitStateOk, IrqInv, PanicOk
  <2> QED BY <2>1, <2>3, <2>4
<1>5. wait_state' \in [All -> {"0", "WT_CHILD", "WT_TIMER"}] /\ pc' \in [All -> PC]
  BY <1>1, <1>3 DEF Core
<1>6. PcInv'
  BY <1>1, <1>2, <1>3 DEF Core, PcInv, RunPc, ExitPc
<1>7. CurrentInv'
  BY <1>1, <1>2, <1>3 DEF Core, CurrentInv, RunPc
<1>8. FixedInv'
  BY <1>1, <1>3 DEF Core, FixedInv, RunPc, ExitPc
<1>9. ParentInv'
  BY <1>1 DEF Core, ParentInv, RunPc
<1>10. TimerOk'
  BY <1>1, <1>2, <1>3 DEF Core, TimerOk, Armed
<1> QED BY <1>4, <1>5, <1>6, <1>7, <1>8, <1>9, <1>10 DEF Core

(* A step that ends in schedule(): a yield, a block, or an exit.            *)
SwitchPc == {<<"trapret", "user">>, <<"idle", "idle">>, <<"sleep", "slept">>,
             <<"wait_schedule", "waited">>, <<"init_loop", "wait">>,
             <<"exit_schedule", "dead">>}

LEMMA SwitchStep ==
    ASSUME Core, Rest, NEW p \in All, current = p, NEW m, <<pc[p], m>> \in SwitchPc,
           pc' = [pc EXCEPT ![p] = m], schedule, UNCHANGED procVars
    PROVE  Core' /\ Rest'
<1>1. /\ SchedTypeOK' /\ wait_state' = wait_state /\ state' = state
      /\ QueueOk' /\ panic' = panic /\ state[current'] = "RUNNABLE"
      /\ UNCHANGED <<expires, expired, irq>>
  <2>1. SchedTypeOK /\ QueueOk /\ state[idleproc] = "RUNNABLE"
    BY DEF Core, FixedInv
  <2> QED BY <2>1, ScheduleLemma DEF schedule
<1>2. /\ m \in PC /\ pc \in [All -> PC]
      /\ \A x \in All \ {p} : pc'[x] = pc[x]
      /\ pc'[p] = m
  BY DEF Core, SwitchPc, PC
<1>3. Rest' /\ UNCHANGED <<parent, walk>>
  BY DEF Rest, procVars, linkVars
<1>4. current' \in All
  BY <1>1 DEF SchedTypeOK
<1>5. WaitStateOk' /\ IrqInv' /\ PanicOk'
  BY <1>1 DEF Core, WaitStateOk, IrqInv, PanicOk
<1>6. wait_state' \in [All -> {"0", "WT_CHILD", "WT_TIMER"}] /\ pc' \in [All -> PC]
  BY <1>1, <1>2 DEF Core
<1>7. PcInv'
  BY <1>1, <1>2 DEF Core, PcInv, SwitchPc, ExitPc
<1>8. FixedInv'
  BY <1>1, <1>2, SchedAssumption DEF Core, FixedInv, SwitchPc, ExitPc, All
<1>9. CurrentInv'
  BY <1>1, <1>2, <1>4, <1>7 DEF Core, CurrentInv, PcInv, SwitchPc, ExitPc
<1>10. ParentInv'
  BY <1>2, <1>3 DEF Core, ParentInv, SwitchPc
<1>11. TimerOk'
  BY <1>1, <1>2 DEF Core, TimerOk, Armed, SwitchPc
<1> QED BY <1>1, <1>3, <1>5, <1>6, <1>7, <1>8, <1>9, <1>10, <1>11 DEF Core

LEMMA IInvPrimed == Core' /\ Rest' => IInv'
BY DEF IInv, Core, Rest, TypeInv, ProcTypeOK

(* The steps that leave the scheduler alone.                                *)
Quiet(p) ==
    \/ SysOther(p) \/ SysExit(p) \/ SysWait(p) \/ Exec(p) \/ KThreadReturn(p)
    \/ WaitRepeat(p) \/ WaitScan(p) \/ Waited(p)
    \/ p = initproc /\ (InitBooted \/ InitQuit)

LEMMA QuietActions ==
    ASSUME IInv, NEW p \in Procs \cup {initproc}, Quiet(p)
    PROVE  IInv'
<1>1. Core /\ Rest /\ pc \in [All -> PC] /\ p \in All
  BY IInvSplit DEF Core, All
<1>2. \E m \in RunPc :
         /\ current = p /\ pc[p] \in RunPc
         /\ pc' = [pc EXCEPT ![p] = m]
         /\ UNCHANGED schedVars /\ UNCHANGED parent
         /\ m = "wait_found" => walk'[p] \in All /\ state[walk'[p]] = "ZOMBIE"
  <2>1. CASE SysOther(p)
    BY <2>1 DEF SysOther, At, Return, ReturnPc, Goto, RunPc, procVars, linkVars
  <2>2. CASE SysExit(p) \/ SysWait(p) \/ KThreadReturn(p)
    BY <2>2 DEF SysExit, SysWait, KThreadReturn, Step, At, Goto, RunPc, procVars, linkVars
  <2>3. CASE Exec(p)
    BY <2>3 DEF Exec, At, Goto, RunPc, linkVars
  <2>4. CASE WaitRepeat(p)
    <3>1. CASE waitpid[p] = NULL
      <4>1. ~IsChild(p, waitpid[p])
        BY <3>1, <1>1, SchedAssumption DEF IsChild, Rest, All
      <4> QED BY <2>4, <3>1, <4>1 DEF WaitRepeat, At, Goto, RunPc, linkVars
    <3>2. CASE waitpid[p] # NULL /\ IsChild(p, waitpid[p])
      <4>1. waitpid[p] \in All
        BY <3>2, <1>1 DEF Rest, All
      <4>2. PICK m \in {"wait_found", "wait_sleep"} :
               /\ pc' = [pc EXCEPT ![p] = m]
               /\ m = "wait_found" => state[waitpid[p]] = "ZOMBIE"
        BY <2>4, <3>2 DEF WaitRepeat, Goto
      <4>3. walk'[p] = waitpid[p]
        BY <2>4, <3>2, <1>1 DEF WaitRepeat, Rest
      <4> QED BY <2>4, <4>1, <4>2, <4>3 DEF WaitRepeat, At, RunPc, linkVars
    <3>3. CASE waitpid[p] # NULL /\ ~IsChild(p, waitpid[p])
      BY <2>4, <3>3 DEF WaitRepeat, WaitFails, At, Goto, RunPc, linkVars
    <3> QED BY <3>1, <3>2, <3>3
  <2>5. CASE WaitScan(p)
    <3>1. CASE walk[p] = NULL
      BY <2>5, <3>1 DEF WaitScan, WaitFails, At, Goto, RunPc, linkVars
    <3>2. CASE walk[p] # NULL /\ state[walk[p]] = "ZOMBIE"
      <4>1. walk'[p] \in All /\ pc' = [pc EXCEPT ![p] = "wait_found"] /\ walk' = walk
        BY <2>5, <3>2, <1>1 DEF WaitScan, Rest, Goto
      <4> QED BY <2>5, <3>2, <4>1 DEF WaitScan, At, RunPc, linkVars
    <3>3. CASE walk[p] # NULL /\ state[walk[p]] # "ZOMBIE"
      <4>1. pc[p] = "wait_scan" /\ pc' = [pc EXCEPT ![p] = "wait_scan"]
        BY <2>5, <3>3, <1>1 DEF WaitScan, At
      <4> QED BY <2>5, <4>1 DEF WaitScan, At, RunPc, linkVars
    <3> QED BY <3>1, <3>2, <3>3
  <2>6. CASE Waited(p)
    BY <2>6 DEF Waited, At, Goto, RunPc, linkVars
  <2>7. CASE p = initproc /\ (InitBooted \/ InitQuit)
    BY <2>7 DEF InitBooted, InitQuit, Step, At, Goto, RunPc, procVars, linkVars
  <2> QED BY <2>1, <2>2, <2>3, <2>4, <2>5, <2>6, <2>7 DEF Quiet
<1>3. Core'
  BY <1>1, <1>2, QuietStep
<1>4. Rest'
  <2>1. CASE \/ SysOther(p) \/ SysExit(p) \/ KThreadReturn(p)
             \/ p = initproc /\ (InitBooted \/ InitQuit)
    BY <2>1, <1>1 DEF SysOther, SysExit, KThreadReturn, InitBooted, InitQuit,
                      procVars, linkVars, Rest
  <2>2. CASE SysWait(p)
    BY <2>2, <1>1 DEF SysWait, linkVars, Rest
  <2>3. CASE Exec(p)
    BY <2>3, <1>1 DEF Exec, linkVars, Rest
  <2>4. CASE WaitRepeat(p)
    BY <2>4, <1>1 DEF WaitRepeat, WaitFails, IsChild, linkVars, Rest, All
  <2>5. CASE WaitScan(p)
    BY <2>5, <1>1 DEF WaitScan, WaitFails, linkVars, Rest
  <2>6. CASE Waited(p)
    BY <2>6, <1>1 DEF Waited, linkVars, Rest
  <2> QED BY <2>1, <2>2, <2>3, <2>4, <2>5, <2>6 DEF Quiet
<1> QED BY <1>3, <1>4, IInvPrimed

(* The steps that end in schedule().                                        *)
Switch(p) ==
    \/ SleepSchedule(p) \/ WaitSchedule(p) \/ ExitSchedule(p) \/ TrapReturn(p)
    \/ p = initproc /\ InitLoop
    \/ p = idleproc /\ Idle

LEMMA SwitchActions ==
    ASSUME IInv, NEW p \in All, Switch(p)
    PROVE  IInv'
<1>1. Core /\ Rest /\ pc \in [All -> PC]
  BY IInvSplit DEF Core
<1>2. CASE \E m : /\ current = p /\ <<pc[p], m>> \in SwitchPc
                  /\ pc' = [pc EXCEPT ![p] = m] /\ schedule /\ UNCHANGED procVars
  BY <1>1, <1>2, SwitchStep, IInvPrimed
<1>3. CASE \/ SleepSchedule(p) \/ WaitSchedule(p) \/ ExitSchedule(p)
           \/ p = initproc /\ InitLoop
  BY <1>2, <1>3 DEF SleepSchedule, WaitSchedule, ExitSchedule, InitLoop, Step, At,
                    Goto, SwitchPc
<1>4. CASE p = idleproc /\ Idle
  <2>1. pc[p] = "idle" /\ pc' = [pc EXCEPT ![p] = "idle"]
    BY <1>4, <1>1 DEF Idle, At
  <2> QED BY <2>1, <1>2, <1>4 DEF Idle, At, SwitchPc
<1>5. CASE TrapReturn(p)
  <2>1. CASE schedule /\ pc' = [pc EXCEPT ![p] = "user"]
    BY <2>1, <1>2, <1>5 DEF TrapReturn, At, SwitchPc
  <2>2. CASE \E m \in {"user", "exit"} : pc' = [pc EXCEPT ![p] = m] /\ UNCHANGED schedVars
    <3>1. PICK m \in {"user", "exit"} : pc' = [pc EXCEPT ![p] = m] /\ UNCHANGED schedVars
      BY <2>2
    <3>2. p # idleproc /\ pc[p] = "trapret" /\ current = p
      BY <1>1, <1>5 DEF Core, FixedInv, TrapReturn, At
    <3>3. Core'
      BY <1>1, <1>5, <3>1, <3>2, QuietStep DEF TrapReturn, All, RunPc, procVars, linkVars
    <3>4. Rest'
      BY <1>1, <1>5 DEF TrapReturn, procVars, linkVars, Rest
    <3> QED BY <3>3, <3>4, IInvPrimed
  <2> QED BY <2>1, <2>2, <1>5 DEF TrapReturn, Goto
<1> QED BY <1>3, <1>4, <1>5 DEF Switch

-----------------------------------------------------------------------------
(* The timer interrupt.                                                     *)

LEMMA TimerIrqStep ==
    ASSUME IInv, TimerIrq
    PROVE  IInv'
<1>1. Core /\ Rest /\ pc \in [All -> PC] /\ current \in All
  BY IInvSplit DEF Core, SchedTypeOK
<1>2. /\ irq' = TRUE
      /\ expires' = [p \in All |-> IF expires[p] > 0 THEN expires[p] - 1 ELSE 0]
      /\ expired' = {p \in All : expires[p] = 1}
      /\ UNCHANGED <<state, wait_state, need_resched, time_slice, run_list,
                     current, panic>>
      /\ UNCHANGED parent
      /\ pc' = IF pc[current] = "user" THEN [pc EXCEPT ![current] = "trapret"] ELSE pc
      /\ expired = {}
  BY <1>1 DEF TimerIrq, run_timer_list_enter, Expired, procVars, linkVars, Core, IrqInv
<1>3. /\ pc' \in [All -> PC]
      /\ \A p \in All : \/ pc'[p] = pc[p]
                        \/ p = current /\ pc[p] = "user" /\ pc'[p] = "trapret"
  BY <1>1, <1>2 DEF PC
<1>4. SchedTypeOK'
  <2>1. expires \in [All -> 0..MaxSleep] /\ MaxSleep \in Nat
    BY <1>1, SchedAssumption DEF Core, SchedTypeOK
  <2>2. \A p \in All : (IF expires[p] > 0 THEN expires[p] - 1 ELSE 0) \in 0..MaxSleep
    BY <2>1
  <2>3. expires' \in [All -> 0..MaxSleep] /\ expired' \in SUBSET All
    BY <1>2, <2>2
  <2> QED BY <2>3, <1>1, <1>2 DEF Core, SchedTypeOK
<1>5. QueueOk'
  <2>1. Queued' = Queued
    BY <1>2 DEF Queued
  <2> QED BY <1>1, <1>2, <2>1 DEF Core, QueueOk
<1>6. /\ WaitStateOk' /\ IrqInv' /\ PanicOk'
      /\ wait_state' \in [All -> {"0", "WT_CHILD", "WT_TIMER"}]
  <2>1. IrqInv'
    BY <1>2 DEF IrqInv
  <2> QED BY <1>1, <1>2, <2>1 DEF Core, WaitStateOk, PanicOk
<1>7. PcInv'
  BY <1>1, <1>2, <1>3 DEF Core, PcInv, ExitPc
<1>8. CurrentInv'
  <2>1. walk' = walk
    BY DEF TimerIrq, procVars
  <2> QED BY <1>1, <1>2, <1>3, <2>1 DEF Core, CurrentInv
<1>9. FixedInv' /\ ParentInv'
  BY <1>1, <1>2, <1>3, SchedAssumption DEF Core, FixedInv, ParentInv, ExitPc, All
<1>10. TimerOk'
  <2>1. \A p \in All : Armed(p)' <=> Armed(p)
    <3>1. expires \in [All -> 0..MaxSleep]
      BY <1>1 DEF Core, SchedTypeOK
    <3>2. \A p \in All : expires[p] > 0 <=> (expires'[p] > 0 \/ expires[p] = 1)
      BY <3>1, <1>2, SchedAssumption
    <3> QED BY <3>2, <1>2 DEF Armed
  <2> QED BY <1>1, <1>2, <1>3, <2>1 DEF Core, TimerOk
<1>11. Rest'
  BY <1>1 DEF TimerIrq, procVars, linkVars, Rest
<1> QED BY <1>3, <1>4, <1>5, <1>6, <1>7, <1>8, <1>9, <1>10, <1>11, IInvPrimed DEF Core

LEMMA TimerTickStep ==
    ASSUME IInv, TimerTick
    PROVE  IInv'
<1>1. Core /\ Rest /\ current \in All
  BY IInvSplit DEF Core, SchedTypeOK
<1>2. /\ UNCHANGED <<state, wait_state, run_list, current, expires, expired, panic,
                     pc, parent, walk>>
      /\ irq' = FALSE /\ expired = {}
      /\ time_slice' = Ticked
      /\ need_resched' = IF current = idleproc \/ Ticked[current] = 0
                         THEN [need_resched EXCEPT ![current] = TRUE] ELSE need_resched
  BY DEF TimerTick, run_timer_list_tick, procVars, linkVars
<1>3. SchedTypeOK'
  <2>1. time_slice \in [All -> 0..MAX_TIME_SLICE] /\ MAX_TIME_SLICE \in Nat
    BY <1>1, SchedAssumption DEF Core, SchedTypeOK
  <2>2. Ticked \in [All -> 0..MAX_TIME_SLICE]
    <3>1. CASE time_slice[current] > 0
      <4>1. time_slice[current] - 1 \in 0..MAX_TIME_SLICE
        BY <2>1, <1>1, <3>1
      <4> QED BY <4>1, <2>1, <1>1 DEF Ticked
    <3>2. CASE ~(time_slice[current] > 0)
      BY <3>2, <2>1 DEF Ticked
    <3> QED BY <3>1, <3>2
  <2>3. need_resched' \in [All -> BOOLEAN]
    BY <1>1, <1>2 DEF Core, SchedTypeOK
  <2> QED BY <2>2, <2>3, <1>1, <1>2 DEF Core, SchedTypeOK
<1>4. QueueOk'
  <2>1. Queued' = Queued
    BY <1>2 DEF Queued
  <2> QED BY <1>1, <1>2, <2>1 DEF Core, QueueOk
<1>5. /\ WaitStateOk' /\ IrqInv' /\ PanicOk' /\ PcInv' /\ FixedInv' /\ ParentInv'
      /\ wait_state' \in [All -> {"0", "WT_CHILD", "WT_TIMER"}] /\ pc' \in [All -> PC]
  BY <1>1, <1>2 DEF Core, WaitStateOk, IrqInv, PanicOk, PcInv, FixedInv, ParentInv
<1>6. CurrentInv' /\ TimerOk'
  BY <1>1, <1>2 DEF Core, CurrentInv, TimerOk, Armed
<1>7. Rest'
  BY <1>1 DEF TimerTick, procVars, linkVars, Rest
<1> QED BY <1>3, <1>4, <1>5, <1>6, <1>7, IInvPrimed DEF Core

-----------------------------------------------------------------------------
(* The steps that change the state of the current process.                  *)

(* What Core says of a process that runs in the kernel or in user mode.     *)
LEMMA RunningFacts ==
    ASSUME Core, NEW p \in Procs \cup {initproc}, current = p, pc[p] \in RunPc
    PROVE  /\ p \in All /\ p # idleproc
           /\ state[p] = "RUNNABLE" /\ wait_state[p] = "0" /\ ~Armed(p)
           /\ p \notin Queued
<1>1. p \in All /\ p # idleproc
  BY SchedAssumption DEF All
<1>2. state[p] \in ProcState /\ state[p] \notin {"FREE", "ZOMBIE", "SLEEPING"}
  BY <1>1 DEF Core, SchedTypeOK, RunPc, PcInv, CurrentInv, ExitPc
<1>3. ~Armed(p)
  BY <1>1 DEF Core, TimerOk, RunPc
<1> QED BY <1>1, <1>2, <1>3 DEF Core, WaitStateOk, QueueOk, ProcState

LEMMA SysYieldStep ==
    ASSUME IInv, NEW p \in Procs \cup {initproc}, SysYield(p)
    PROVE  IInv'
<1>1. Core /\ Rest /\ current = p /\ pc[p] = "user" /\ p \in All /\ p # idleproc
  BY IInvSplit, SchedAssumption DEF SysYield, At, All
<1>2. PICK m \in {"trapret", "kthread"} : pc' = [pc EXCEPT ![p] = m]
  BY DEF SysYield, Return, ReturnPc, Goto
<1>3. /\ UNCHANGED <<state, wait_state, time_slice, run_list, current, expires,
                     expired, irq, panic, parent, walk>>
      /\ need_resched' = [need_resched EXCEPT ![p] = TRUE]
      /\ Rest'
  BY <1>1 DEF SysYield, procVars, linkVars, Rest
<1>4. SchedTypeOK'
  BY <1>1, <1>3 DEF Core, SchedTypeOK
<1>5. QueueOk'
  <2>1. Queued' = Queued
    BY <1>3 DEF Queued
  <2> QED BY <1>1, <1>3, <2>1 DEF Core, QueueOk
<1>6. /\ pc' \in [All -> PC] /\ pc'[p] = m
      /\ \A x \in All \ {p} : pc'[x] = pc[x]
  BY <1>1, <1>2 DEF Core, PC
<1>7. /\ WaitStateOk' /\ IrqInv' /\ PanicOk'
      /\ wait_state' \in [All -> {"0", "WT_CHILD", "WT_TIMER"}]
  BY <1>1, <1>3 DEF Core, WaitStateOk, IrqInv, PanicOk
<1>8. PcInv' /\ CurrentInv'
  BY <1>1, <1>3, <1>6 DEF Core, PcInv, CurrentInv, ExitPc
<1>9. FixedInv' /\ ParentInv'
  BY <1>1, <1>2, <1>3, <1>6 DEF Core, FixedInv, ParentInv, ExitPc
<1>10. TimerOk'
  BY <1>1, <1>3, <1>6 DEF Core, TimerOk, Armed
<1> QED BY <1>3, <1>4, <1>5, <1>6, <1>7, <1>8, <1>9, <1>10, IInvPrimed DEF Core

LEMMA SleepStep ==
    ASSUME IInv, NEW p \in Procs \cup {initproc}, Sleep(p)
    PROVE  IInv'
<1>1. Core /\ Rest /\ current = p /\ pc[p] \in RunPc /\ pc[p] \in {"user", "kthread"}
  BY IInvSplit DEF Sleep, At, RunPc
<1>2. /\ p \in All /\ p # idleproc
      /\ state[p] = "RUNNABLE" /\ wait_state[p] = "0" /\ ~Armed(p) /\ p \notin Queued
  BY <1>1, RunningFacts
<1>3. PICK t \in 1..MaxSleep : expires' = [expires EXCEPT ![p] = t]
  BY DEF Sleep, add_timer
<1>4. /\ state' = [state EXCEPT ![p] = "SLEEPING"]
      /\ wait_state' = [wait_state EXCEPT ![p] = "WT_TIMER"]
      /\ pc' = [pc EXCEPT ![p] = "sleep"]
      /\ UNCHANGED <<need_resched, time_slice, run_list, current, expired, irq,
                     panic, parent, walk>>
      /\ Rest'
  BY <1>1 DEF Sleep, Goto, procVars, linkVars, Rest
<1>5. SchedTypeOK'
  <2>1. expires' \in [All -> 0..MaxSleep]
    BY <1>1, <1>3, SchedAssumption DEF Core, SchedTypeOK
  <2>2. state' \in [All -> ProcState] /\ wait_state' \in [All -> WaitState]
    BY <1>1, <1>4 DEF Core, SchedTypeOK, ProcState, WaitState
  <2> QED BY <1>1, <1>4, <2>1, <2>2 DEF Core, SchedTypeOK
<1>6. /\ pc' \in [All -> PC] /\ pc'[p] = "sleep"
      /\ \A x \in All \ {p} : pc'[x] = pc[x]
      /\ state'[p] = "SLEEPING" /\ wait_state'[p] = "WT_TIMER" /\ expires'[p] > 0
      /\ \A x \in All \ {p} : /\ state'[x] = state[x] /\ wait_state'[x] = wait_state[x]
                              /\ expires'[x] = expires[x]
      /\ wait_state' \in [All -> {"0", "WT_CHILD", "WT_TIMER"}]
  BY <1>1, <1>2, <1>3, <1>4 DEF Core, SchedTypeOK, PC
<1>7. QueueOk'
  <2>1. Queued' = Queued
    BY <1>4 DEF Queued
  <2> QED BY <1>1, <1>2, <1>4, <1>6, <2>1 DEF Core, QueueOk
<1>8. WaitStateOk' /\ IrqInv' /\ PanicOk'
  <2>1. WaitStateOk'
    BY <1>1, <1>6 DEF Core, WaitStateOk
  <2>2. expired = {}
    BY <1>1 DEF Core, IrqInv, Sleep, At
  <2> QED BY <1>1, <1>4, <2>1, <2>2 DEF Core, IrqInv, PanicOk
<1>9. PcInv' /\ CurrentInv'
  BY <1>1, <1>2, <1>4, <1>6 DEF Core, PcInv, CurrentInv, ExitPc
<1>10. FixedInv' /\ ParentInv'
  BY <1>1, <1>2, <1>4, <1>6 DEF Core, FixedInv, ParentInv, ExitPc
<1>11. TimerOk'
  BY <1>1, <1>4, <1>6 DEF Core, TimerOk, Armed
<1> QED BY <1>4, <1>5, <1>6, <1>7, <1>8, <1>9, <1>10, <1>11, IInvPrimed DEF Core

LEMMA SleepReturnStep ==
    ASSUME IInv, NEW p \in Procs \cup {initproc}, SleepReturn(p)
    PROVE  IInv'
<1>1. Core /\ Rest /\ current = p /\ pc[p] = "slept" /\ p \in All /\ p # idleproc
  BY IInvSplit, SchedAssumption DEF SleepReturn, At, All
<1>2. PICK m \in {"trapret", "kthread"} : pc' = [pc EXCEPT ![p] = m]
  BY DEF SleepReturn, Return, ReturnPc, Goto
<1>3. /\ UNCHANGED <<state, wait_state, need_resched, time_slice, run_list, current,
                     irq, panic, parent, walk>>
      /\ expires' = [expires EXCEPT ![p] = 0] /\ expired' = expired \ {p}
      /\ Rest'
  BY <1>1 DEF SleepReturn, del_timer, procVars, linkVars, Rest
<1>4. SchedTypeOK'
  <2>1. expires' \in [All -> 0..MaxSleep]
    BY <1>1, <1>3, SchedAssumption DEF Core, SchedTypeOK
  <2> QED BY <1>1, <1>3, <2>1 DEF Core, SchedTypeOK
<1>5. QueueOk'
  <2>1. Queued' = Queued
    BY <1>3 DEF Queued
  <2> QED BY <1>1, <1>3, <2>1 DEF Core, QueueOk
<1>6. /\ pc' \in [All -> PC] /\ pc'[p] = m
      /\ \A x \in All \ {p} : pc'[x] = pc[x] /\ expires'[x] = expires[x]
      /\ expires'[p] = 0
  BY <1>1, <1>2, <1>3 DEF Core, PC, SchedTypeOK
<1>7. /\ WaitStateOk' /\ IrqInv' /\ PanicOk'
      /\ wait_state' \in [All -> {"0", "WT_CHILD", "WT_TIMER"}]
  <2>1. IrqInv'
    BY <1>1, <1>3, <1>6 DEF Core, IrqInv, SchedTypeOK
  <2> QED BY <1>1, <1>3, <2>1 DEF Core, WaitStateOk, PanicOk
<1>8. state[p] \notin {"FREE", "ZOMBIE", "SLEEPING"} /\ wait_state[p] = "0"
  BY <1>1 DEF Core, PcInv, CurrentInv, WaitStateOk, ExitPc
<1>9. PcInv' /\ CurrentInv'
  BY <1>1, <1>3, <1>6, <1>8 DEF Core, PcInv, CurrentInv, ExitPc
<1>10. FixedInv' /\ ParentInv'
  BY <1>1, <1>2, <1>3, <1>6 DEF Core, FixedInv, ParentInv, ExitPc
<1>11. TimerOk'
  BY <1>1, <1>3, <1>6, <1>8 DEF Core, TimerOk, Armed
<1> QED BY <1>3, <1>4, <1>5, <1>6, <1>7, <1>9, <1>10, <1>11, IInvPrimed DEF Core

LEMMA WaitSleepStep ==
    ASSUME IInv, NEW p \in Procs \cup {initproc}, WaitSleep(p)
    PROVE  IInv'
<1>1. Core /\ Rest /\ current = p /\ pc[p] \in RunPc /\ pc[p] = "wait_sleep"
  BY IInvSplit DEF WaitSleep, Step, At, RunPc
<1>2. /\ p \in All /\ p # idleproc
      /\ state[p] = "RUNNABLE" /\ wait_state[p] = "0" /\ ~Armed(p) /\ p \notin Queued
  BY <1>1, RunningFacts
<1>3. /\ state' = [state EXCEPT ![p] = "SLEEPING"]
      /\ wait_state' = [wait_state EXCEPT ![p] = "WT_CHILD"]
      /\ pc' = [pc EXCEPT ![p] = "wait_schedule"]
      /\ UNCHANGED <<need_resched, time_slice, run_list, current, expires, expired,
                     irq, panic, parent>>
      /\ Rest'
  BY <1>1 DEF WaitSleep, Step, Goto, linkVars, Rest
<1>4. SchedTypeOK'
  <2>1. state' \in [All -> ProcState] /\ wait_state' \in [All -> WaitState]
    BY <1>1, <1>3 DEF Core, SchedTypeOK, ProcState, WaitState
  <2> QED BY <1>1, <1>3, <2>1 DEF Core, SchedTypeOK
<1>5. /\ pc' \in [All -> PC] /\ pc'[p] = "wait_schedule"
      /\ \A x \in All \ {p} : pc'[x] = pc[x]
      /\ state'[p] = "SLEEPING" /\ wait_state'[p] = "WT_CHILD"
      /\ \A x \in All \ {p} : state'[x] = state[x] /\ wait_state'[x] = wait_state[x]
      /\ wait_state' \in [All -> {"0", "WT_CHILD", "WT_TIMER"}]
  BY <1>1, <1>2, <1>3 DEF Core, SchedTypeOK, PC
<1>6. QueueOk'
  <2>1. Queued' = Queued
    BY <1>3 DEF Queued
  <2> QED BY <1>1, <1>2, <1>3, <1>5, <2>1 DEF Core, QueueOk
<1>7. WaitStateOk' /\ IrqInv' /\ PanicOk'
  <2>1. WaitStateOk'
    BY <1>1, <1>5 DEF Core, WaitStateOk
  <2> QED BY <1>1, <1>3, <2>1 DEF Core, IrqInv, PanicOk
<1>8. PcInv' /\ CurrentInv'
  BY <1>1, <1>2, <1>3, <1>5 DEF Core, PcInv, CurrentInv, ExitPc
<1>9. FixedInv' /\ ParentInv'
  BY <1>1, <1>2, <1>3, <1>5 DEF Core, FixedInv, ParentInv, ExitPc
<1>10. TimerOk'
  BY <1>1, <1>2, <1>3, <1>5 DEF Core, TimerOk, Armed
<1> QED BY <1>3, <1>4, <1>5, <1>6, <1>7, <1>8, <1>9, <1>10, IInvPrimed DEF Core

-----------------------------------------------------------------------------
(* The steps that may wake another process.                                 *)

(* What a step does to the scheduler when it wakes one process or none.     *)
Woken ==
    /\ run_list' \in Seq(Procs \cup {initproc})
    /\ time_slice' \in [All -> 0..MAX_TIME_SLICE]
    /\ state' \in [All -> ProcState]
    /\ wait_state' \in [All -> {"0", "WT_CHILD", "WT_TIMER"}]
    /\ \A x \in All :
          \/ state'[x] = state[x] /\ wait_state'[x] = wait_state[x]
          \/ /\ state[x] \notin {"FREE", "ZOMBIE"} /\ state'[x] = "RUNNABLE"
             /\ wait_state'[x] = "0"
    /\ QueueOk' /\ WaitStateOk' /\ panic' = panic

LEMMA WakeupWoken ==
    ASSUME Core, Rest, NEW q \in All, q # idleproc, state[q] \notin {"FREE", "ZOMBIE"},
           wakeup_proc(q), current' = current
    PROVE  Woken /\ wait_state'[q] = "0"
<1>1. SchedTypeOK /\ QueueOk /\ WaitStateOk
  BY DEF Core
<1>2. /\ run_list' \in Seq(Procs \cup {initproc})
      /\ time_slice' \in [All -> 0..MAX_TIME_SLICE]
      /\ state' = [state EXCEPT ![q] = "RUNNABLE"]
      /\ wait_state' = [wait_state EXCEPT ![q] = "0"]
      /\ QueueOk' /\ WaitStateOk'
      /\ panic' = panic
  BY <1>1, WakeupLemma
<1>3. /\ state' \in [All -> ProcState] /\ state'[q] = "RUNNABLE"
      /\ \A x \in All \ {q} : state'[x] = state[x]
  BY <1>2 DEF Core, SchedTypeOK, ProcState
<1>4. /\ wait_state' \in [All -> {"0", "WT_CHILD", "WT_TIMER"}] /\ wait_state'[q] = "0"
      /\ \A x \in All \ {q} : wait_state'[x] = wait_state[x]
  BY <1>2 DEF Core
<1> QED BY <1>2, <1>3, <1>4 DEF Woken

LEMMA NobodyWoken ==
    ASSUME Core, UNCHANGED <<state, wait_state, time_slice, run_list, panic, current>>
    PROVE  Woken
<1>1. Queued' = Queued
  BY DEF Queued
<1>2. QueueOk'
  BY <1>1 DEF Core, QueueOk
<1>3. WaitStateOk'
  BY DEF Core, WaitStateOk
<1> QED BY <1>2, <1>3 DEF Woken, Core, SchedTypeOK

LEMMA WakeStep ==
    ASSUME Core, Woken, UNCHANGED <<need_resched, current, irq, walk>>, ParentInv',
           \/ UNCHANGED <<expires, expired>>
           \/ \E q \in All : wait_state'[q] = "0" /\ del_timer(q) /\ irq,
           NEW m, pc' = [pc EXCEPT ![current] = m],
           \/ m = pc[current]
           \/ pc[current] = "user" /\ m \in {"trapret", "kthread"}
           \/ pc[current] = "exit_wakeup" /\ m = "exit_reparent"
    PROVE  Core'
<1>1. /\ pc' \in [All -> PC] /\ pc'[current] = m /\ current \in All
      /\ \A x \in All \ {current} : pc'[x] = pc[x]
  BY DEF Core, SchedTypeOK, PC
<1>2. expires' \in [All -> 0..MaxSleep] /\ expired' \in SUBSET All /\ IrqInv'
  <2>1. CASE UNCHANGED <<expires, expired>>
    BY <2>1 DEF Core, SchedTypeOK, IrqInv
  <2>2. CASE \E q \in All : del_timer(q)
    <3>1. PICK q \in All : expires' = [expires EXCEPT ![q] = 0] /\ expired' = expired \ {q}
      BY <2>2 DEF del_timer
    <3>2. expires' \in [All -> 0..MaxSleep]
      BY <3>1, SchedAssumption DEF Core, SchedTypeOK
    <3> QED BY <3>1, <3>2 DEF Core, SchedTypeOK, IrqInv
  <2> QED BY <2>1, <2>2
<1>3. SchedTypeOK'
  <2>1. wait_state' \in [All -> WaitState]
    BY DEF Woken, WaitState
  <2> QED BY <2>1, <1>2 DEF Core, SchedTypeOK, Woken
<1>4. PanicOk' /\ QueueOk' /\ WaitStateOk'
  BY DEF Core, Woken, PanicOk
<1>5. \A x \in All : \/ state'[x] = state[x] /\ wait_state'[x] = wait_state[x]
                     \/ /\ state[x] \notin {"FREE", "ZOMBIE"} /\ state'[x] = "RUNNABLE"
                        /\ wait_state'[x] = "0"
  BY DEF Woken
<1>6. PcInv'
  <2> SUFFICES ASSUME NEW x \in All
               PROVE  /\ state'[x] = "FREE" <=> pc'[x] = "free"
                      /\ state'[x] = "ZOMBIE" <=> pc'[x] \in ExitPc
                      /\ wait_state'[x] = "WT_TIMER" => pc'[x] \in {"sleep", "slept"}
                      /\ wait_state'[x] = "WT_CHILD" => pc'[x] \in {"wait_schedule", "waited"}
    BY DEF PcInv
  <2>1. /\ state[x] = "FREE" <=> pc[x] = "free"
        /\ state[x] = "ZOMBIE" <=> pc[x] \in ExitPc
        /\ wait_state[x] = "WT_TIMER" => pc[x] \in {"sleep", "slept"}
        /\ wait_state[x] = "WT_CHILD" => pc[x] \in {"wait_schedule", "waited"}
    BY DEF Core, PcInv
  <2> QED BY <2>1, <1>1, <1>5 DEF ExitPc
<1>7. CurrentInv'
  <2>1. pc'[current] \notin {"free", "dead"}
    BY <1>1 DEF Core, CurrentInv
  <2>2. state'[current] = "SLEEPING" => pc'[current] \in {"sleep", "wait_schedule"}
    BY <1>1, <1>5 DEF Core, CurrentInv
  <2>3. ASSUME NEW x \in All, pc'[x] = "wait_found"
        PROVE  x = current /\ walk[x] \in All /\ state'[walk[x]] = "ZOMBIE"
    BY <2>3, <1>1, <1>5 DEF Core, CurrentInv
  <2> QED BY <2>1, <2>2, <2>3 DEF CurrentInv
<1>8. FixedInv'
  BY <1>1, <1>5, SchedAssumption DEF Core, FixedInv, ExitPc, All
<1>9. TimerOk'
  <2>1. ASSUME NEW x \in All, pc[x] \in {"sleep", "slept"} PROVE pc'[x] \in {"sleep", "slept"}
    BY <2>1, <1>1
  <2>2. CASE UNCHANGED <<expires, expired>>
    BY <2>1, <2>2, <1>5 DEF Core, TimerOk, Armed
  <2>3. ASSUME NEW q \in All, wait_state'[q] = "0", del_timer(q)
        PROVE  TimerOk'
    <3>1. /\ ~Armed(q)'
          /\ \A x \in All \ {q} : Armed(x)' <=> Armed(x)
      BY <2>3 DEF Armed, del_timer, Core, SchedTypeOK
    <3> QED BY <3>1, <2>1, <2>3, <1>5 DEF Core, TimerOk
  <2> QED BY <2>2, <2>3
<1> QED BY <1>1, <1>2, <1>3, <1>4, <1>6, <1>7, <1>8, <1>9 DEF Core, Woken

LEMMA SysKillStep ==
    ASSUME IInv, NEW p \in Procs \cup {initproc}, SysKill(p)
    PROVE  IInv'
<1>1. Core /\ Rest /\ current = p /\ pc[p] = "user"
  BY IInvSplit DEF SysKill, At
<1>2. /\ UNCHANGED <<need_resched, current, expires, expired, irq, walk, parent>>
      /\ Rest'
  BY <1>1 DEF SysKill, do_kill, linkVars, Rest
<1>3. PICK q \in Killable : do_kill(q)
  BY DEF SysKill
<1>4. Woken
  <2>1. q \in All /\ q # idleproc
    BY ProcAssumption, SchedAssumption DEF All
  <2>2. CASE KillWakes(q)
    <3>1. state[q] = "SLEEPING" /\ wakeup_proc(q)
      BY <1>1, <1>3, <2>1, <2>2 DEF do_kill, KillWakes, Interruptible, Core, WaitStateOk
    <3> QED BY <3>1, <2>1, <1>1, <1>2, WakeupWoken
  <2>3. CASE ~KillWakes(q)
    BY <2>3, <1>1, <1>2, <1>3, NobodyWoken DEF do_kill
  <2> QED BY <2>2, <2>3
<1>5. PICK m \in {"trapret", "kthread"} : pc' = [pc EXCEPT ![p] = m]
  BY DEF SysKill, Return, ReturnPc, Goto
<1>6. ParentInv'
  BY <1>1, <1>2, <1>5 DEF Core, ParentInv
<1>7. Core'
  BY <1>1, <1>2, <1>4, <1>5, <1>6, WakeStep
<1> QED BY <1>2, <1>7, IInvPrimed

LEMMA ExitWakeupStep ==
    ASSUME IInv, NEW p \in Procs \cup {initproc}, ExitWakeup(p)
    PROVE  IInv'
<1>1. Core /\ Rest /\ current = p /\ pc[p] = "exit_wakeup" /\ p \in All
  BY IInvSplit DEF ExitWakeup, At, All
<1>2. /\ UNCHANGED <<need_resched, current, expires, expired, irq, walk, parent>>
      /\ pc' = [pc EXCEPT ![p] = "exit_reparent"]
      /\ Rest'
  BY <1>1 DEF ExitWakeup, Goto, procVars, linkVars, Rest
<1>3. Woken
  <2>1. parent[p] \in All
    BY <1>1 DEF Core, ParentInv
  <2>2. CASE WakesParent(p)
    <3>1. state[parent[p]] = "SLEEPING" /\ wakeup_proc(parent[p]) /\ parent[p] # idleproc
      BY <1>1, <2>1, <2>2 DEF ExitWakeup, WakesParent, Core, WaitStateOk, FixedInv
    <3> QED BY <3>1, <2>1, <1>1, <1>2, WakeupWoken
  <2>3. CASE ~WakesParent(p)
    BY <2>3, <1>1, <1>2, NobodyWoken DEF ExitWakeup
  <2> QED BY <2>2, <2>3
<1>4. ParentInv'
  BY <1>1, <1>2 DEF Core, ParentInv
<1>5. Core'
  BY <1>1, <1>2, <1>3, <1>4, WakeStep
<1> QED BY <1>2, <1>5, IInvPrimed

LEMMA ExitReparentStep ==
    ASSUME IInv, NEW p \in Procs \cup {initproc}, ExitReparent(p)
    PROVE  IInv'
<1>1. /\ Core /\ Rest /\ current = p /\ pc[p] = "exit_reparent" /\ p \in All
      /\ pc \in [All -> PC] /\ initproc \in All /\ initproc # idleproc
  BY IInvSplit, SchedAssumption DEF ExitReparent, At, All, Core
<1>2. cptr[p] \in All
  BY <1>1 DEF ExitReparent, Rest
<1>3. /\ UNCHANGED <<need_resched, current, expires, expired, irq, walk, pc>>
      /\ parent' = [parent EXCEPT ![cptr[p]] = initproc]
  BY DEF ExitReparent
<1>4. Rest'
  <2>1. /\ parent' \in [All -> All \cup {NULL}] /\ cptr' \in [All -> All \cup {NULL}]
        /\ optr' \in [All -> All \cup {NULL}]
    BY <1>1, <1>2 DEF ExitReparent, Rest
  <2>2. yptr' \in [All -> All \cup {NULL}]
    BY <1>1, <1>2 DEF ExitReparent, Rest
  <2> QED BY <1>1, <2>1, <2>2 DEF ExitReparent, Rest
<1>5. Woken
  <2>1. CASE WakesInit(cptr[p])
    <3>1. state[initproc] = "SLEEPING" /\ wakeup_proc(initproc)
      BY <1>1, <2>1 DEF ExitReparent, WakesInit, Core, WaitStateOk
    <3> QED BY <3>1, <1>1, <1>3, WakeupWoken
  <2>2. CASE ~WakesInit(cptr[p])
    BY <2>2, <1>1, <1>3, NobodyWoken DEF ExitReparent
  <2> QED BY <2>1, <2>2
<1>6. ParentInv'
  BY <1>1, <1>2, <1>3 DEF Core, ParentInv, Rest
<1>7. pc' = [pc EXCEPT ![current] = pc[current]]
  BY <1>1, <1>3
<1>8. Core'
  BY <1>1, <1>3, <1>5, <1>6, <1>7, WakeStep
<1> QED BY <1>4, <1>8, IInvPrimed

LEMMA TimerExpireStep ==
    ASSUME IInv, TimerExpire
    PROVE  IInv'
<1>1. Core /\ Rest /\ pc \in [All -> PC] /\ current \in All
  BY IInvSplit DEF Core, SchedTypeOK
<1>2. PICK q \in expired : run_timer_list_expire(q)
  BY DEF TimerExpire
<1>3. /\ UNCHANGED <<need_resched, current, irq, walk, pc, parent>>
      /\ del_timer(q) /\ irq
      /\ Rest'
  BY <1>1, <1>2 DEF TimerExpire, run_timer_list_expire, procVars, linkVars, Rest
<1>4. /\ q \in All /\ pc[q] \in {"sleep", "slept"}
  BY <1>1, <1>2 DEF Core, SchedTypeOK, TimerOk, Armed
<1>5. q # idleproc /\ state[q] \notin {"FREE", "ZOMBIE"}
  BY <1>1, <1>4 DEF Core, FixedInv, PcInv, ExitPc
<1>6. wakeup_proc(q)
  BY <1>1, <1>2, <1>4 DEF run_timer_list_expire, Core, Interruptible
<1>7. Woken /\ wait_state'[q] = "0"
  BY <1>1, <1>3, <1>4, <1>5, <1>6, WakeupWoken
<1>8. ParentInv'
  BY <1>1, <1>3 DEF Core, ParentInv
<1>9. pc' = [pc EXCEPT ![current] = pc[current]]
  BY <1>1, <1>3
<1>10. Core'
  BY <1>1, <1>3, <1>4, <1>7, <1>8, <1>9, WakeStep
<1> QED BY <1>3, <1>10, IInvPrimed

-----------------------------------------------------------------------------
(* The end of a process.                                                    *)

LEMMA ExitStep ==
    ASSUME IInv, NEW p \in Procs \cup {initproc}, Exit(p)
    PROVE  IInv'
<1>1. Core /\ Rest /\ current = p /\ pc[p] = "exit" /\ pc[p] \in RunPc
  BY IInvSplit DEF Exit, At, RunPc
<1>2. /\ p \in All /\ p # idleproc
      /\ state[p] = "RUNNABLE" /\ wait_state[p] = "0" /\ ~Armed(p) /\ p \notin Queued
  BY <1>1, RunningFacts
<1>3. /\ UNCHANGED <<wait_state, need_resched, time_slice, run_list, current,
                     expires, expired, irq, parent, walk>>
      /\ Queued' = Queued
  BY DEF Exit, linkVars, Queued
<1>4. Rest'
  BY <1>1 DEF Exit, linkVars, Rest
<1>5. CASE p = initproc
  <2>1. UNCHANGED <<state, pc>> /\ panic' = "initproc exit"
    BY <1>5 DEF Exit
  <2>2. SchedTypeOK'
    BY <1>1, <1>3, <2>1 DEF Core, SchedTypeOK, Panics
  <2>3. QueueOk' /\ WaitStateOk' /\ IrqInv'
    BY <1>1, <1>3, <2>1 DEF Core, QueueOk, WaitStateOk, IrqInv
  <2>4. PcInv' /\ FixedInv' /\ ParentInv' /\ PanicOk'
    BY <1>1, <1>3, <2>1 DEF Core, PcInv, FixedInv, ParentInv, PanicOk
  <2>5. CurrentInv' /\ TimerOk'
    BY <1>1, <1>3, <2>1 DEF Core, CurrentInv, TimerOk, Armed
  <2> QED BY <1>1, <1>3, <1>4, <2>1, <2>2, <2>3, <2>4, <2>5, IInvPrimed DEF Core
<1>6. CASE p # initproc
  <2>1. /\ state' = [state EXCEPT ![p] = "ZOMBIE"]
        /\ pc' = [pc EXCEPT ![p] = "exit_wakeup"]
        /\ panic' = panic
    BY <1>6 DEF Exit, Goto
  <2>2. /\ state' \in [All -> ProcState] /\ state'[p] = "ZOMBIE"
        /\ pc' \in [All -> PC] /\ pc'[p] = "exit_wakeup"
        /\ \A x \in All \ {p} : pc'[x] = pc[x] /\ state'[x] = state[x]
    BY <1>1, <1>2, <2>1 DEF Core, SchedTypeOK, PC, ProcState
  <2>3. SchedTypeOK'
    BY <1>1, <1>3, <2>1, <2>2 DEF Core, SchedTypeOK
  <2>4. QueueOk'
    BY <1>1, <1>2, <1>3, <2>2 DEF Core, QueueOk
  <2>5. WaitStateOk'
    BY <1>1, <1>2, <1>3, <2>2 DEF Core, WaitStateOk
  <2>6. IrqInv' /\ PanicOk'
    BY <1>1, <1>3, <2>1 DEF Core, IrqInv, PanicOk
  <2>7. PcInv'
    BY <1>1, <1>2, <1>3, <2>2 DEF Core, PcInv, ExitPc
  <2>8. CurrentInv'
    BY <1>1, <1>2, <1>3, <2>2 DEF Core, CurrentInv
  <2>9. FixedInv' /\ ParentInv'
    BY <1>1, <1>2, <1>3, <1>6, <2>2, SchedAssumption DEF Core, FixedInv, ParentInv, ExitPc, All
  <2>10. TimerOk'
    BY <1>1, <1>2, <1>3, <2>2 DEF Core, TimerOk, Armed
  <2> QED BY <1>1, <1>3, <1>4, <2>2, <2>3, <2>4, <2>5, <2>6, <2>7, <2>8, <2>9, <2>10,
             IInvPrimed DEF Core
<1> QED BY <1>5, <1>6

LEMMA ExitReparentedStep ==
    ASSUME IInv, NEW p \in Procs \cup {initproc}, ExitReparented(p)
    PROVE  IInv'
<1>1. /\ Core /\ Rest /\ current = p /\ pc[p] = "exit_reparent" /\ p \in All
      /\ pc \in [All -> PC]
  BY IInvSplit DEF ExitReparented, Step, At, All, Core
<1>2. /\ pc' = [pc EXCEPT ![p] = "exit_schedule"]
      /\ UNCHANGED <<state, wait_state, need_resched, time_slice, run_list, current,
                     expires, expired, irq, panic, parent, walk>>
      /\ Rest'
  BY <1>1 DEF ExitReparented, Step, Goto, schedVars, procVars, linkVars, Rest
<1>3. /\ pc' \in [All -> PC] /\ pc'[p] = "exit_schedule"
      /\ \A x \in All \ {p} : pc'[x] = pc[x]
  BY <1>1, <1>2 DEF PC
<1>4. Woken
  BY <1>1, <1>2, NobodyWoken
<1>5. SchedTypeOK' /\ IrqInv'
  BY <1>1, <1>2 DEF Core, SchedTypeOK, IrqInv
<1>6. PanicOk' /\ wait_state' \in [All -> {"0", "WT_CHILD", "WT_TIMER"}]
  BY <1>1, <1>2 DEF Core, PanicOk
<1>7. PcInv' /\ CurrentInv'
  BY <1>1, <1>2, <1>3 DEF Core, PcInv, CurrentInv, ExitPc
<1>8. FixedInv' /\ ParentInv'
  BY <1>1, <1>2, <1>3 DEF Core, FixedInv, ParentInv, ExitPc
<1>9. TimerOk'
  BY <1>1, <1>2, <1>3 DEF Core, TimerOk, Armed
<1> QED BY <1>2, <1>3, <1>4, <1>5, <1>6, <1>7, <1>8, <1>9, IInvPrimed DEF Core, Woken

(* A structure that do_wait is about to free is a child's, dead, not        *)
(* queued and without a timer.                                              *)
LEMMA FoundFacts ==
    ASSUME Core, Rest, NEW p \in Procs \cup {initproc}, current = p, pc[p] = "wait_found"
    PROVE  /\ walk[p] \in Procs /\ walk[p] # p
           /\ state[walk[p]] = "ZOMBIE" /\ pc[walk[p]] \in ExitPc
           /\ wait_state[walk[p]] = "0" /\ ~Armed(walk[p])
<1>1. walk[p] \in All /\ state[walk[p]] = "ZOMBIE" /\ pc[walk[p]] \in ExitPc
  BY DEF Core, CurrentInv, PcInv, All
<1>2. walk[p] \notin {idleproc, initproc} /\ walk[p] # p
  BY <1>1 DEF Core, FixedInv, ExitPc
<1>3. wait_state[walk[p]] = "0" /\ ~Armed(walk[p])
  BY <1>1 DEF Core, WaitStateOk, TimerOk, ExitPc
<1> QED BY <1>1, <1>2, <1>3 DEF All

LEMMA WaitFoundStep ==
    ASSUME IInv, NEW p \in Procs \cup {initproc}, WaitFound(p)
    PROVE  IInv'
<1> DEFINE c == walk[p]
<1>1. /\ Core /\ Rest /\ current = p /\ pc[p] = "wait_found" /\ p \in All
      /\ pc \in [All -> PC]
  BY IInvSplit DEF WaitFound, At, All, Core
<1>2. /\ c \in Procs /\ c # p /\ c \in All /\ c \notin {idleproc, initproc}
      /\ state[c] = "ZOMBIE" /\ pc[c] \in ExitPc
      /\ wait_state[c] = "0" /\ ~Armed(c)
  BY <1>1, FoundFacts, SchedAssumption DEF All
<1>3. PICK m \in {"init_loop", "trapret"} : pc' = [pc EXCEPT ![c] = "free", ![p] = m]
  BY <1>2 DEF WaitFound
<1>4. /\ state' = [state EXCEPT ![c] = "FREE"]
      /\ need_resched' = [need_resched EXCEPT ![c] = FALSE]
      /\ time_slice' = [time_slice EXCEPT ![c] = 0]
      /\ parent' = [parent EXCEPT ![c] = NULL]
      /\ UNCHANGED <<wait_state, run_list, current, expires, expired, irq, panic>>
      /\ Queued' = Queued
      /\ remove_links(c)
  <2>1. /\ remove_links(c)
        /\ state' = [state EXCEPT ![c] = "FREE"]
        /\ need_resched' = [need_resched EXCEPT ![c] = FALSE]
        /\ time_slice' = [time_slice EXCEPT ![c] = 0]
        /\ UNCHANGED <<wait_state, run_list, current, expires, expired, irq, panic>>
    BY <1>2 DEF WaitFound
  <2>2. parent' = [parent EXCEPT ![c] = NULL]
    BY <2>1 DEF remove_links
  <2>3. Queued' = Queued
    BY <2>1 DEF Queued
  <2> QED BY <2>1, <2>2, <2>3
<1>5. /\ pc' \in [All -> PC] /\ pc'[p] = m /\ pc'[c] = "free"
      /\ state' \in [All -> ProcState] /\ state'[c] = "FREE"
      /\ \A x \in All \ {c} : state'[x] = state[x] /\ (x # p => pc'[x] = pc[x])
  BY <1>1, <1>2, <1>3, <1>4 DEF Core, SchedTypeOK, PC, ProcState
<1>6. /\ state[p] \notin {"FREE", "ZOMBIE", "SLEEPING"} /\ wait_state[p] = "0"
      /\ p # idleproc /\ ~Armed(p)
  BY <1>1, RunningFacts DEF RunPc
<1>7. Rest'
  <2>1. /\ yptr' \in [All -> All \cup {NULL}] /\ optr' \in [All -> All \cup {NULL}]
    <3>1. /\ optr[c] \in All \cup {NULL} /\ yptr[c] \in All \cup {NULL}
          /\ yptr \in [All -> All \cup {NULL}] /\ optr \in [All -> All \cup {NULL}]
      BY <1>1, <1>2 DEF Rest
    <3>2. /\ yptr' = [q \in All |-> IF q = c THEN NULL
                                   ELSE IF q = optr[c] THEN yptr[c] ELSE yptr[q]]
          /\ optr' = [q \in All |-> IF q = c THEN NULL
                                   ELSE IF q = yptr[c] THEN optr[c] ELSE optr[q]]
      BY <1>4 DEF remove_links, YoungerRemoved
    <3> HIDE DEF c
    <3> QED BY <3>1, <3>2
  <2>2. cptr' \in [All -> All \cup {NULL}] /\ parent' \in [All -> All \cup {NULL}]
    BY <1>1, <1>2, <1>4 DEF remove_links, Rest
  <2>3. /\ umode' \in [All -> BOOLEAN] /\ exiting' \in [All -> BOOLEAN]
        /\ waitpid' \in [All -> Procs \cup {initproc, NULL}]
        /\ walk' \in [All -> All \cup {NULL}]
        /\ UNCHANGED <<mm, filesp, started>>
    BY <1>1, <1>2 DEF WaitFound, Rest
  <2>4. proc_list' \in SUBSET (Procs \cup {initproc}) /\ nr_process' \in Int
    BY <1>1, <1>2, <1>4 DEF remove_links, Rest
  <2> QED BY <1>1, <2>1, <2>2, <2>3, <2>4 DEF Rest
<1>8. SchedTypeOK'
  <2>1. 0 \in 0..MAX_TIME_SLICE
    BY SchedAssumption
  <2>2. time_slice' \in [All -> 0..MAX_TIME_SLICE]
    BY <2>1, <1>1, <1>4 DEF Core, SchedTypeOK
  <2>3. need_resched' \in [All -> BOOLEAN]
    BY <1>1, <1>4 DEF Core, SchedTypeOK
  <2> QED BY <1>1, <1>4, <1>5, <2>2, <2>3 DEF Core, SchedTypeOK
<1>9. QueueOk'
  BY <1>1, <1>2, <1>4, <1>5 DEF Core, QueueOk
<1>10. WaitStateOk'
  BY <1>1, <1>2, <1>4, <1>5 DEF Core, WaitStateOk
<1>11. IrqInv' /\ PanicOk'
  BY <1>1, <1>4 DEF Core, IrqInv, PanicOk
<1>12. PcInv'
  BY <1>1, <1>2, <1>3, <1>4, <1>5, <1>6 DEF Core, PcInv, ExitPc
<1>13. CurrentInv'
  BY <1>1, <1>2, <1>3, <1>4, <1>5, <1>6 DEF Core, CurrentInv
<1>14. FixedInv'
  BY <1>1, <1>2, <1>3, <1>5, <1>6, SchedAssumption DEF Core, FixedInv, ExitPc, All
<1>15. ParentInv'
  BY <1>1, <1>2, <1>3, <1>4, <1>5, <1>6 DEF Core, ParentInv, Rest
<1>16. TimerOk'
  BY <1>1, <1>2, <1>3, <1>4, <1>5, <1>6 DEF Core, TimerOk, Armed
<1> QED BY <1>1, <1>4, <1>5, <1>7, <1>8, <1>9, <1>10, <1>11, <1>12, <1>13, <1>14, <1>15,
           <1>16, IInvPrimed DEF Core

-----------------------------------------------------------------------------
(* The beginning of a process.                                              *)

LEMMA ForkStep ==
    ASSUME IInv, CopyFilesFails = FALSE, NEW p \in Procs \cup {initproc}, NEW c \in Procs,
           do_fork(p, c), current = p, pc[p] \in {"user", "boot"},
           NEW l \in {"user", "kthread"}, NEW m \in {"trapret", "boot"},
           pc' = [pc EXCEPT ![c] = l, ![p] = m],
           started' \in 0..InitThreads
    PROVE  IInv'
<1>1. Core /\ Rest /\ pc \in [All -> PC] /\ pc[p] \in RunPc
  BY IInvSplit DEF Core, RunPc
<1>2. /\ p \in All /\ p # idleproc
      /\ state[p] = "RUNNABLE" /\ wait_state[p] = "0" /\ ~Armed(p) /\ p \notin Queued
  BY <1>1, RunningFacts
<1>3. /\ c \in All /\ c # p /\ c # idleproc /\ c # initproc
      /\ state[c] = "FREE" /\ pc[c] = "free" /\ c \notin Queued /\ ~Armed(c)
  <2>1. c \in All /\ c # idleproc /\ c # initproc /\ state[c] = "FREE"
    BY SchedAssumption DEF All, do_fork
  <2>2. pc[c] = "free" /\ c \notin Queued
    BY <1>1, <2>1 DEF Core, PcInv, QueueOk
  <2>3. ~Armed(c)
    BY <1>1, <2>1, <2>2 DEF Core, TimerOk
  <2> QED BY <1>2, <2>1, <2>2, <2>3
<1>4. /\ set_links(p, c)
      /\ state' = [state EXCEPT ![c] = "RUNNABLE"]
      /\ wait_state' = [wait_state EXCEPT ![c] = "0"]
      /\ need_resched' = [need_resched EXCEPT ![c] = FALSE]
      /\ time_slice' = [time_slice EXCEPT ![c] = MAX_TIME_SLICE]
      /\ run_list' = Append(run_list, c)
      /\ UNCHANGED <<current, expires, expired, irq>>
      /\ walk' = [walk EXCEPT ![c] = NULL]
  BY DEF do_fork
<1>5. panic' = panic
  BY <1>2, <1>3 DEF do_fork, EnqueuePanic
<1>6. parent' = [parent EXCEPT ![c] = p]
  BY <1>4 DEF set_links
<1>7. /\ pc' \in [All -> PC] /\ pc'[p] = m /\ pc'[c] = l
      /\ state' \in [All -> ProcState] /\ state'[c] = "RUNNABLE"
      /\ wait_state' \in [All -> {"0", "WT_CHILD", "WT_TIMER"}] /\ wait_state'[c] = "0"
      /\ \A x \in All \ {c} : /\ state'[x] = state[x] /\ wait_state'[x] = wait_state[x]
                              /\ x # p => pc'[x] = pc[x]
  BY <1>1, <1>2, <1>3, <1>4 DEF Core, SchedTypeOK, PC, ProcState
<1>8. Rest'
  <2>1. /\ yptr' \in [All -> All \cup {NULL}] /\ optr' \in [All -> All \cup {NULL}]
        /\ cptr' \in [All -> All \cup {NULL}] /\ parent' \in [All -> All \cup {NULL}]
    <3>1. /\ yptr' = [q \in All |-> IF q = c THEN NULL
                                   ELSE IF q = cptr[p] THEN c ELSE yptr[q]]
          /\ optr' = [optr EXCEPT ![c] = cptr[p]]
          /\ cptr' = [cptr EXCEPT ![p] = c, ![c] = NULL]
      BY <1>4 DEF set_links
    <3> QED BY <3>1, <1>1, <1>2, <1>3, <1>6 DEF Rest
  <2>2. proc_list' \in SUBSET (Procs \cup {initproc}) /\ nr_process' \in Int
    BY <1>1, <1>4 DEF set_links, Rest
  <2>3. /\ umode' = [umode EXCEPT ![c] = umode[p]]
        /\ exiting' = [exiting EXCEPT ![c] = FALSE]
        /\ mm' = [mm EXCEPT ![c] = mm[p]]
        /\ waitpid' = [waitpid EXCEPT ![c] = NULL]
        /\ filesp' = [filesp EXCEPT ![c] = TRUE]
    BY DEF do_fork
  <2>4. /\ umode' \in [All -> BOOLEAN] /\ exiting' \in [All -> BOOLEAN]
        /\ mm' \in [All -> BOOLEAN] /\ filesp' \in [All -> BOOLEAN]
        /\ waitpid' \in [All -> Procs \cup {initproc, NULL}]
        /\ walk' \in [All -> All \cup {NULL}]
    BY <1>1, <1>2, <1>4, <2>3 DEF Rest
  <2> QED BY <2>1, <2>2, <2>4 DEF Rest
<1>9. SchedTypeOK' /\ QueueOk'
  <2> DEFINE S == Procs \cup {initproc}
  <2>1. run_list \in Seq(S) /\ NoRepeat(run_list) /\ Queued = ToSet(run_list)
    BY <1>1 DEF Core, SchedTypeOK, QueueOk, NoRepeat, Queued, ToSet
  <2>2. /\ run_list' \in Seq(S) /\ NoRepeat(run_list')
        /\ ToSet(run_list') = ToSet(run_list) \cup {c}
    BY <2>1, <1>3, <1>4, AppendQueue
  <2>3. MAX_TIME_SLICE \in 0..MAX_TIME_SLICE
    BY SchedAssumption
  <2>4. time_slice' \in [All -> 0..MAX_TIME_SLICE] /\ need_resched' \in [All -> BOOLEAN]
    BY <2>3, <1>1, <1>4 DEF Core, SchedTypeOK
  <2>5. wait_state' \in [All -> WaitState]
    BY <1>7 DEF WaitState
  <2>6. SchedTypeOK'
    BY <2>2, <2>4, <2>5, <1>1, <1>4, <1>5, <1>7 DEF Core, SchedTypeOK
  <2>7. Queued' = Queued \cup {c}
    BY <2>1, <2>2 DEF Queued, ToSet
  <2>8. \A x \in All \ {idleproc} : x \in Queued' <=> state'[x] = "RUNNABLE" /\ x # current'
    BY <2>7, <1>1, <1>3, <1>4, <1>7 DEF Core, QueueOk
  <2>9. QueueOk'
    BY <2>2, <2>8 DEF QueueOk, NoRepeat
  <2> QED BY <2>6, <2>9
<1>10. WaitStateOk'
  BY <1>1, <1>7 DEF Core, WaitStateOk
<1>11. IrqInv' /\ PanicOk'
  BY <1>1, <1>4, <1>5 DEF Core, IrqInv, PanicOk
<1>12. PcInv'
  BY <1>1, <1>2, <1>3, <1>7 DEF Core, PcInv, ExitPc
<1>13. CurrentInv'
  BY <1>1, <1>2, <1>3, <1>4, <1>7 DEF Core, CurrentInv
<1>14. FixedInv'
  BY <1>1, <1>2, <1>3, <1>7, SchedAssumption DEF Core, FixedInv, ExitPc, All
<1>15. ParentInv'
  BY <1>1, <1>2, <1>3, <1>6, <1>7 DEF Core, ParentInv, Rest
<1>16. TimerOk'
  BY <1>1, <1>2, <1>3, <1>4, <1>7 DEF Core, TimerOk, Armed
<1> QED BY <1>7, <1>8, <1>9, <1>10, <1>11, <1>12, <1>13, <1>14, <1>15, <1>16, IInvPrimed
        DEF Core

LEMMA SysForkStep ==
    ASSUME IInv, CopyFilesFails = FALSE, NEW p \in Procs \cup {initproc}, SysFork(p)
    PROVE  IInv'
<1>1. PICK c \in Procs : do_fork(p, c) /\ pc' = [pc EXCEPT ![c] = "user", ![p] = "trapret"]
  BY DEF SysFork
<1>2. current = p /\ pc[p] = "user" /\ started' \in 0..InitThreads
  BY IInvSplit DEF SysFork, At, Rest
<1> QED BY <1>1, <1>2, ForkStep

LEMMA InitThreadStep ==
    ASSUME IInv, CopyFilesFails = FALSE, InitThread
    PROVE  IInv'
<1>1. Core /\ Rest /\ current = initproc /\ pc[initproc] = "boot" /\ pc \in [All -> PC]
  BY IInvSplit DEF InitThread, At, Core
<1>2. started' \in 0..InitThreads
  BY <1>1, ProcAssumption DEF InitThread, Rest
<1>3. PICK c \in Procs : do_fork(initproc, c) /\ pc' = [pc EXCEPT ![c] = "kthread"]
  BY DEF InitThread
<1>4. pc' = [pc EXCEPT ![c] = "kthread", ![initproc] = "boot"]
  BY <1>1, <1>3, SchedAssumption
<1> QED BY <1>1, <1>2, <1>3, <1>4, ForkStep

-----------------------------------------------------------------------------
(* The invariant holds, and with it the properties it is made of.           *)

LEMMA HaltedStep ==
    ASSUME IInv, UNCHANGED vars
    PROVE  IInv'
<1>1. Core /\ Rest
  BY IInvSplit
<1>2. /\ UNCHANGED <<state, wait_state, need_resched, time_slice, run_list,
                     current, expires, expired, irq, panic, pc, parent, walk>>
      /\ Rest' /\ Queued' = Queued
  BY <1>1 DEF vars, schedVars, procVars, linkVars, Rest, Queued
<1>3. SchedTypeOK' /\ IrqInv'
  BY <1>1, <1>2 DEF Core, SchedTypeOK, IrqInv
<1>4. QueueOk' /\ WaitStateOk'
  BY <1>1, <1>2 DEF Core, QueueOk, WaitStateOk
<1>5. PcInv' /\ CurrentInv' /\ FixedInv' /\ ParentInv'
  BY <1>1, <1>2 DEF Core, PcInv, CurrentInv, FixedInv, ParentInv
<1>6. TimerOk' /\ PanicOk'
  BY <1>1, <1>2 DEF Core, TimerOk, Armed, PanicOk
<1> QED BY <1>1, <1>2, <1>3, <1>4, <1>5, <1>6, IInvPrimed DEF Core

LEMMA InitStepInv == Init => IInv
<1> SUFFICES ASSUME Init PROVE IInv
  OBVIOUS
<1>1. /\ idleproc \in All /\ initproc \in All /\ idleproc # initproc
      /\ idleproc \notin Procs /\ initproc \notin Procs
      /\ 0 \in 0..MAX_TIME_SLICE /\ MAX_TIME_SLICE \in 0..MAX_TIME_SLICE /\ 0 \in 0..MaxSleep
  BY SchedAssumption DEF All
<1>2. /\ pc[idleproc] = "idle" /\ pc[initproc] = "boot" /\ \A x \in Procs : pc[x] = "free"
      /\ pc \in [All -> PC]
  BY <1>1 DEF Init, PC, All
<1>3. /\ state[idleproc] = "RUNNABLE" /\ state[initproc] = "RUNNABLE"
      /\ \A x \in Procs : state[x] = "FREE"
      /\ state \in [All -> ProcState]
  BY <1>1 DEF Init, ProcState, All
<1>4. run_list = <<initproc>> /\ run_list \in Seq(Procs \cup {initproc}) /\ Queued = {initproc}
  <2>1. run_list = <<initproc>> /\ DOMAIN <<initproc>> = {1} /\ <<initproc>>[1] = initproc
    BY DEF Init
  <2>2. <<initproc>> \in Seq(Procs \cup {initproc})
    OBVIOUS
  <2> QED BY <2>1, <2>2 DEF Queued
<1>5. SchedTypeOK
  <2>1. /\ need_resched \in [All -> BOOLEAN] /\ wait_state \in [All -> WaitState]
        /\ current \in All /\ expired \in SUBSET All /\ irq \in BOOLEAN /\ panic \in Panics
    BY <1>1 DEF Init, WaitState, Panics
  <2>2. /\ time_slice \in [All -> 0..MAX_TIME_SLICE] /\ expires \in [All -> 0..MaxSleep]
    BY <1>1 DEF Init
  <2> QED BY <2>1, <2>2, <1>3, <1>4 DEF SchedTypeOK
<1>6. Rest
  <2>1. started \in 0..InitThreads
    BY ProcAssumption DEF Init
  <2> QED BY <2>1, <1>1 DEF Init, Rest
<1>7. QueueOk
  <2>1. \A i, j \in DOMAIN run_list : run_list[i] = run_list[j] => i = j
    BY <1>4
  <2>2. current = idleproc
    BY DEF Init
  <2> QED BY <2>1, <2>2, <1>1, <1>3, <1>4 DEF QueueOk, All
<1>8. WaitStateOk /\ wait_state \in [All -> {"0", "WT_CHILD", "WT_TIMER"}]
  BY <1>3 DEF Init, WaitStateOk, All
<1>9. PcInv
  BY <1>2, <1>3 DEF Init, PcInv, ExitPc, All
<1>10. CurrentInv /\ FixedInv
  BY <1>1, <1>2, <1>3 DEF Init, CurrentInv, FixedInv, ExitPc, All
<1>11. ParentInv
  BY <1>1, <1>2 DEF Init, ParentInv, All
<1>12. TimerOk /\ IrqInv /\ PanicOk
  BY DEF Init, TimerOk, Armed, IrqInv, PanicOk
<1> QED BY <1>2, <1>5, <1>6, <1>7, <1>8, <1>9, <1>10, <1>11, <1>12, IInvSplit DEF Core

LEMMA NextStepInv ==
    ASSUME CopyFilesFails = FALSE, IInv, [Next]_vars
    PROVE  IInv'
<1>1. CASE UNCHANGED vars
  BY <1>1, HaltedStep
<1>2. CASE Irq \/ Idle \/ InitStep \/ Halted
  <2>1. CASE Irq
    BY <2>1, TimerIrqStep, TimerExpireStep, TimerTickStep DEF Irq
  <2>2. CASE Idle
    BY <2>2, SwitchActions DEF Switch, All
  <2>3. CASE InitThread
    BY <2>3, InitThreadStep
  <2>4. CASE InitBooted \/ InitQuit
    BY <2>4, QuietActions DEF Quiet
  <2>5. CASE InitLoop
    BY <2>5, SwitchActions DEF Switch, All
  <2>6. CASE Halted
    BY <2>6, HaltedStep DEF Halted
  <2> QED BY <1>2, <2>1, <2>2, <2>3, <2>4, <2>5, <2>6 DEF InitStep
<1>3. ASSUME NEW p \in Procs \cup {initproc},
             UserStep(p) \/ Sleep(p) \/ Exec(p) \/ KernelStep(p)
      PROVE  IInv'
  <2>0. p \in All
    BY DEF All
  <2>1. CASE Quiet(p)
    BY <2>1, QuietActions
  <2>2. CASE Switch(p)
    BY <2>0, <2>2, SwitchActions
  <2>3. CASE SysFork(p) \/ SysYield(p) \/ SysKill(p)
    BY <2>3, SysForkStep, SysYieldStep, SysKillStep
  <2>4. CASE Sleep(p) \/ SleepReturn(p) \/ WaitSleep(p)
    BY <2>4, SleepStep, SleepReturnStep, WaitSleepStep
  <2>5. CASE WaitFound(p) \/ Exit(p) \/ ExitWakeup(p)
    BY <2>5, WaitFoundStep, ExitStep, ExitWakeupStep
  <2>6. CASE ExitReparent(p) \/ ExitReparented(p)
    BY <2>6, ExitReparentStep, ExitReparentedStep
  <2> QED BY <1>3, <2>1, <2>2, <2>3, <2>4, <2>5, <2>6 DEF UserStep, KernelStep, Quiet, Switch
<1> QED BY <1>1, <1>2, <1>3 DEF Next

(* The inductive invariant of the process system holds in every reachable   *)
(* state, for any set of processes, however interrupts, system calls, kill  *)
(* and the scheduler interleave, when copy_files finds memory.              *)
THEOREM Invariant == ASSUME CopyFilesFails = FALSE PROVE Spec => []IInv
<1>1. Init => IInv
  BY InitStepInv
<1>2. IInv /\ [Next]_vars => IInv'
  BY NextStepInv
<1> QED BY <1>1, <1>2, PTL DEF Spec

(* Every variable keeps its type.                                           *)
THEOREM TypeCorrect == ASSUME CopyFilesFails = FALSE PROVE Spec => []ProcTypeOK
<1>1. IInv => ProcTypeOK
  BY DEF IInv, TypeInv
<1> QED BY <1>1, Invariant, PTL

(* The run queue holds exactly the processes that can run and do not, once  *)
(* each: wakeup_proc, schedule and do_fork never lose or duplicate one.     *)
THEOREM QueueCorrect == ASSUME CopyFilesFails = FALSE PROVE Spec => []QueueOk
<1>1. IInv => QueueOk
  BY DEF IInv
<1> QED BY <1>1, Invariant, PTL

(* A process has a wait_state exactly while it sleeps: no wakeup, by a      *)
(* timer, an exit or a kill, leaves one behind.                             *)
THEOREM WaitStateCorrect == ASSUME CopyFilesFails = FALSE PROVE Spec => []WaitStateOk
<1>1. IInv => WaitStateOk
  BY DEF IInv
<1> QED BY <1>1, Invariant, PTL

(* The timer on a sleeper's kernel stack is linked only while do_sleep has  *)
(* not returned, and who sleeps on a timer has one.                         *)
THEOREM TimerCorrect == ASSUME CopyFilesFails = FALSE PROVE Spec => []TimerOk
<1>1. IInv => TimerOk
  BY DEF IInv
<1> QED BY <1>1, Invariant, PTL

(* No assertion of the scheduler, of do_fork or of run_timer_list fails,    *)
(* no zombie is woken and no dead process runs; the kernel can only stop    *)
(* because initproc exits.                                                  *)
THEOREM PanicFree == ASSUME CopyFilesFails = FALSE PROVE Spec => []NoPanic
<1>1. IInv => NoPanic
  BY DEF IInv, CurrentInv, PanicOk, NoPanic
<1> QED BY <1>1, Invariant, PTL

-----------------------------------------------------------------------------
(* The process tree: the links of siblings stay lists, nothing points to a  *)
(* freed structure, no wakeup is lost between do_exit and do_wait, and Proc *)
(* implements ProcLife.                                                     *)
-----------------------------------------------------------------------------
(* Lists of siblings.                                                       *)

(* A list depends on the links of its members only.                         *)
LEMMA ChainSame ==
    ASSUME NEW S, NEW q \in Seq(S), NEW K, NEW h, NEW o, NEW y, NEW w,
           NEW o2, NEW y2, NEW w2,
           Chain(q, K, h, o, y, w), w \subseteq w2,
           \A x \in K : o2[x] = o[x] /\ y2[x] = y[x]
    PROVE  Chain(q, K, h, o2, y2, w2)
<1>1. \A i \in DOMAIN q : q[i] \in K
  BY DEF Chain
<1> QED BY <1>1 DEF Chain

(* set_links, and the hand-over of a child: a new youngest child.           *)
Pushed(K, h, o, y, c, o2, y2) ==
    /\ c \notin K /\ c # NULL /\ NULL \notin K
    /\ o2[c] = h /\ y2[c] = NULL
    /\ h \in K => y2[h] = c
    /\ \A x \in K : o2[x] = o[x] /\ (x # h => y2[x] = y[x])

LEMMA ChainPush ==
    ASSUME NEW S, NEW q \in Seq(S), NEW K, NEW h, NEW o, NEW y, NEW w,
           NEW o2, NEW y2, NEW w2, NEW c \in S,
           Chain(q, K, h, o, y, w), Pushed(K, h, o, y, c, o2, y2)
    PROVE  \E r \in Seq(S) : Chain(r, K \cup {c}, c, o2, y2, w2)
<1> DEFINE n == Len(q)
           r == <<c>> \o q
<1>1. /\ n \in Nat /\ DOMAIN q = 1..n
      /\ \A i \in 1..n : q[i] \in S /\ q[i] \in K
  BY DEF Chain
<1>2. /\ r \in Seq(S) /\ Len(r) = n + 1 /\ DOMAIN r = 1..(n + 1)
      /\ r[1] = c /\ \A i \in 1..n : r[i + 1] = q[i]
  OBVIOUS
<1> HIDE DEF r, n
<1>3. \A i \in 1..(n + 1) : i = 1 \/ (i - 1 \in 1..n /\ r[i] = q[i - 1])
  <2> SUFFICES ASSUME NEW i \in 1..(n + 1), i # 1
               PROVE  i - 1 \in 1..n /\ r[i] = q[i - 1]
    OBVIOUS
  <2>1. i - 1 \in 1..n /\ (i - 1) + 1 = i
    BY <1>1
  <2> QED BY <2>1, <1>2
<1>4. NoRepeat(r)
  <2> SUFFICES ASSUME NEW i \in 1..(n + 1), NEW j \in 1..(n + 1), r[i] = r[j]
               PROVE  i = j
    BY <1>2 DEF NoRepeat
  <2>1. i - 1 \in 1..n /\ j - 1 \in 1..n /\ q[i - 1] = q[j - 1] => i - 1 = j - 1
    BY <1>1 DEF Chain
  <2> QED BY <2>1, <1>1, <1>2, <1>3 DEF Pushed
<1>5. {r[i] : i \in DOMAIN r} = K \cup {c}
  <2>1. \A x \in K : \E i \in 1..n : x = q[i]
    BY <1>1 DEF Chain
  <2>2. \A i \in 1..n : i + 1 \in 1..(n + 1)
    BY <1>1
  <2>3. 1 \in 1..(n + 1)
    BY <1>1
  <2>4. ASSUME NEW x \in K \cup {c} PROVE \E i \in 1..(n + 1) : r[i] = x
    BY <2>1, <2>2, <2>3, <1>2
  <2>5. ASSUME NEW i \in 1..(n + 1) PROVE r[i] \in K \cup {c}
    BY <1>1, <1>2, <1>3
  <2> QED BY <2>4, <2>5, <1>2
<1>6. c = Nth(r, 1)
  BY <1>1, <1>2 DEF Nth
<1>7. ASSUME NEW i \in 1..(n + 1)
      PROVE  o2[r[i]] = Nth(r, i + 1) /\ y2[r[i]] = Nth(r, i - 1)
  <2>1. CASE i = 1
    <3>1. Nth(r, 0) = NULL
      BY <1>1, <1>2 DEF Nth
    <3>2. Nth(r, 2) = Nth(q, 1)
      <4>1. CASE n = 0
        BY <4>1, <1>1, <1>2 DEF Nth
      <4>2. CASE n # 0
        <5>1. 1 \in 1..n /\ 1 + 1 = 2 /\ 2 \in 1..(n + 1)
          BY <4>2, <1>1
        <5> QED BY <5>1, <1>1, <1>2 DEF Nth
      <4> QED BY <4>1, <4>2
    <3> QED BY <2>1, <3>1, <3>2, <1>2 DEF Pushed, Chain
  <2>2. CASE i # 1
    <3> DEFINE k == i - 1
    <3>1. k \in 1..n /\ r[i] = q[k] /\ q[k] \in K
      BY <2>2, <1>1, <1>3
    <3>2. Nth(r, i + 1) = Nth(q, k + 1)
      <4>1. CASE k = n
        BY <4>1, <1>1, <1>2, <3>1 DEF Nth
      <4>2. CASE k # n
        <5>1. k + 1 \in 1..n /\ (k + 1) + 1 = i + 1 /\ i + 1 \in 1..(n + 1)
          BY <4>2, <1>1, <3>1
        <5>2. r[i + 1] = q[k + 1]
          BY <5>1, <1>2
        <5> QED BY <5>1, <5>2, <1>1, <1>2 DEF Nth
      <4> QED BY <4>1, <4>2
    <3>3. o2[r[i]] = Nth(r, i + 1)
      BY <3>1, <3>2, <1>1 DEF Pushed, Chain
    <3>4. CASE k = 1
      <4>1. q[1] = h
        BY <3>1, <3>4, <1>1 DEF Chain, Nth
      <4>2. Nth(r, 1) = c /\ i - 1 = 1
        BY <3>4, <1>6
      <4> QED BY <3>1, <3>3, <3>4, <4>1, <4>2 DEF Pushed
    <3>5. CASE k # 1
      <4>1. k - 1 \in 1..n /\ 1 \in 1..n /\ (k - 1) + 1 = k /\ k \in 1..(n + 1)
        BY <3>1, <3>5, <1>1
      <4>2. q[k] # q[1] /\ q[1] = h
        BY <4>1, <3>1, <3>5, <1>1 DEF Chain, Nth
      <4>3. y2[q[k]] = y[q[k]] /\ y[q[k]] = Nth(q, k - 1)
        BY <4>2, <3>1, <3>5, <1>1 DEF Pushed, Chain
      <4>4. r[k] = q[k - 1]
        BY <4>1, <1>2
      <4>5. Nth(r, k) = Nth(q, k - 1)
        BY <4>1, <4>4, <1>1, <1>2 DEF Nth
      <4> QED BY <3>1, <3>3, <4>3, <4>5
    <3> QED BY <3>4, <3>5
  <2> QED BY <2>1, <2>2
<1> QED BY <1>2, <1>4, <1>5, <1>6, <1>7 DEF Chain, NoRepeat

(* do_exit takes the youngest child off the list of its parent; the yptr of *)
(* the next one still points to it.                                         *)
LEMMA ChainTail ==
    ASSUME NEW S, NEW q \in Seq(S), NEW K, NEW h, NEW o, NEW y, NEW w,
           NEW o2, NEW y2, NEW w2,
           Chain(q, K, h, o, y, w), h \in K, NULL \notin K, h \in w2,
           \A x \in K \ {h} : o2[x] = o[x] /\ y2[x] = y[x]
    PROVE  \E r \in Seq(S) : Chain(r, K \ {h}, o[h], o2, y2, w2)
<1> DEFINE n == Len(q)
           r == Tail(q)
<1>1. n \in Nat /\ DOMAIN q = 1..n /\ \A i \in 1..n : q[i] \in K
  BY DEF Chain
<1>2. n # 0 /\ 1 \in 1..n /\ q[1] = h
  <2>1. 1 \in DOMAIN q /\ q[1] = h
    BY DEF Chain, Nth
  <2> QED BY <2>1, <1>1
<1>3. /\ r \in Seq(S) /\ DOMAIN r = 1..(n - 1)
      /\ \A i \in 1..(n - 1) : r[i] = q[i + 1]
  BY <1>1, <1>2
<1> HIDE DEF r, n
<1>4. \A i \in 1..(n - 1) : /\ i + 1 \in 1..n /\ r[i] = q[i + 1]
                            /\ q[i + 1] \in K \ {h}
  <2> SUFFICES ASSUME NEW i \in 1..(n - 1)
               PROVE  i + 1 \in 1..n /\ q[i + 1] \in K /\ q[i + 1] # h
    BY <1>3
  <2>1. i + 1 \in 1..n /\ i + 1 # 1
    BY <1>1
  <2>2. q[i + 1] = q[1] => i + 1 = 1
    BY <2>1, <1>1, <1>2 DEF Chain
  <2> QED BY <2>1, <2>2, <1>1, <1>2
<1>5. NoRepeat(r)
  <2> SUFFICES ASSUME NEW i \in 1..(n - 1), NEW j \in 1..(n - 1), r[i] = r[j]
               PROVE  i = j
    BY <1>3 DEF NoRepeat
  <2>1. i + 1 \in 1..n /\ j + 1 \in 1..n /\ q[i + 1] = q[j + 1]
    BY <1>4
  <2>2. \A k, l \in 1..n : q[k] = q[l] => k = l
    BY <1>1 DEF Chain
  <2>3. i + 1 = j + 1
    BY <2>1, <2>2
  <2> QED BY <2>3
<1>6. {r[i] : i \in DOMAIN r} = K \ {h}
  <2>1. ASSUME NEW x \in K \ {h} PROVE \E i \in 1..(n - 1) : r[i] = x
    <3>1. PICK k \in 1..n : q[k] = x
      BY <1>1 DEF Chain
    <3>2. k - 1 \in 1..(n - 1) /\ (k - 1) + 1 = k
      BY <3>1, <1>1, <1>2
    <3> QED BY <3>1, <3>2, <1>3
  <2>2. ASSUME NEW i \in 1..(n - 1) PROVE r[i] \in K \ {h}
    BY <1>4
  <2>3. {r[i] : i \in DOMAIN r} = {r[i] : i \in 1..(n - 1)}
    BY <1>3
  <2>4. {r[i] : i \in 1..(n - 1)} \subseteq K \ {h}
    BY <2>2
  <2>5. K \ {h} \subseteq {r[i] : i \in 1..(n - 1)}
    BY <2>1
  <2> QED BY <2>3, <2>4, <2>5
<1>7. \A i \in 1..n : Nth(r, i) = Nth(q, i + 1)
  <2> SUFFICES ASSUME NEW i \in 1..n PROVE Nth(r, i) = Nth(q, i + 1)
    OBVIOUS
  <2>1. CASE i = n
    <3>1. i \notin 1..(n - 1) /\ i + 1 \notin 1..n
      BY <2>1, <1>1
    <3> QED BY <3>1, <1>1, <1>3 DEF Nth
  <2>2. CASE i # n
    <3>1. i \in 1..(n - 1)
      BY <2>2, <1>1
    <3> QED BY <3>1, <1>1, <1>3, <1>4 DEF Nth
  <2> QED BY <2>1, <2>2
<1>8. o[h] = Nth(r, 1)
  <2>1. o[q[1]] = Nth(q, 1 + 1)
    BY <1>1, <1>2 DEF Chain
  <2> QED BY <2>1, <1>2, <1>7
<1>9. ASSUME NEW i \in 1..(n - 1)
      PROVE  /\ o2[r[i]] = Nth(r, i + 1)
             /\ y2[r[i]] = Nth(r, i - 1) \/ (i = 1 /\ y2[r[i]] \in w2)
  <2>1. /\ i + 1 \in 1..n /\ r[i] = q[i + 1] /\ i + 1 # 1 /\ (i + 1) - 1 = i
        /\ o2[r[i]] = o[q[i + 1]] /\ y2[r[i]] = y[q[i + 1]]
    BY <1>1, <1>4
  <2>2. o[q[i + 1]] = Nth(q, (i + 1) + 1) /\ y[q[i + 1]] = Nth(q, (i + 1) - 1)
    BY <2>1, <1>1 DEF Chain
  <2>3. o2[r[i]] = Nth(r, i + 1)
    BY <2>1, <2>2, <1>7
  <2>4. CASE i = 1
    BY <2>1, <2>2, <2>3, <2>4, <1>1, <1>2 DEF Nth
  <2>5. CASE i # 1
    <3>1. i - 1 \in 1..n /\ (i - 1) + 1 = i
      BY <2>5, <1>1
    <3> QED BY <3>1, <2>1, <2>2, <2>3, <1>7
  <2> QED BY <2>4, <2>5
<1> QED BY <1>3, <1>5, <1>6, <1>8, <1>9 DEF Chain, NoRepeat

(* remove_links takes one child out of the list of its parent.              *)
Cut(K, h, o, y, c, h2, o2, y2) ==
    /\ c \in K /\ NULL \notin K
    /\ h2 = IF y[c] = NULL THEN o[c] ELSE h
    /\ \A x \in K \ {c} : /\ o2[x] = IF x = y[c] THEN o[c] ELSE o[x]
                          /\ y2[x] = IF x = o[c] THEN y[c] ELSE y[x]

LEMMA ChainCut ==
    ASSUME NEW S, NEW q \in Seq(S), NEW K, NEW h, NEW o, NEW y,
           NEW h2, NEW o2, NEW y2, NEW w2, NEW c,
           Chain(q, K, h, o, y, {}), Cut(K, h, o, y, c, h2, o2, y2)
    PROVE  \E r \in Seq(S) : Chain(r, K \ {c}, h2, o2, y2, w2)
<1> DEFINE n == Len(q)
<1>1. n \in Nat /\ DOMAIN q = 1..n /\ \A i \in 1..n : q[i] \in K
  BY DEF Chain
<1>2. PICK k \in 1..n : q[k] = c
  BY <1>1 DEF Chain, Cut
<1> DEFINE r == RemoveAt(q, k)
           From(j) == IF j < k THEN j ELSE j + 1
<1>3. /\ r \in Seq(S) /\ DOMAIN r = 1..(n - 1)
      /\ \A j \in 1..(n - 1) : r[j] = q[From(j)]
  <2>1. /\ r \in Seq(S) /\ Len(r) = n - 1
        /\ \A j \in 1..(n - 1) : r[j] = IF j < k THEN q[j] ELSE q[j + 1]
    BY <1>1, <1>2, RemoveAtElements
  <2> HIDE DEF r
  <2> QED BY <2>1, <1>1, <1>2
<1> HIDE DEF r, n
<1>4. \A j \in 1..(n - 1) : From(j) \in 1..n /\ From(j) # k /\ q[From(j)] \in K \ {c}
  <2> SUFFICES ASSUME NEW j \in 1..(n - 1)
               PROVE  From(j) \in 1..n /\ From(j) # k /\ q[From(j)] \in K \ {c}
    OBVIOUS
  <2>1. From(j) \in 1..n /\ From(j) # k
    BY <1>1, <1>2
  <2> HIDE DEF From
  <2> QED BY <2>1, <1>1, <1>2 DEF Chain
<1>5. \A i \in 1..n : i # k => \E j \in 1..(n - 1) : From(j) = i
  <2> SUFFICES ASSUME NEW i \in 1..n, i # k
               PROVE  \E j \in 1..(n - 1) : From(j) = i
    OBVIOUS
  <2>1. CASE i < k
    <3>1. i \in 1..(n - 1) /\ From(i) = i
      BY <2>1, <1>1, <1>2
    <3> QED BY <3>1
  <2>2. CASE i > k
    <3>1. i - 1 \in 1..(n - 1) /\ From(i - 1) = i
      BY <2>2, <1>1, <1>2
    <3> QED BY <3>1
  <2> QED BY <2>1, <2>2, <1>1, <1>2
<1>6. NoRepeat(r)
  <2> SUFFICES ASSUME NEW i \in 1..(n - 1), NEW j \in 1..(n - 1), r[i] = r[j]
               PROVE  i = j
    BY <1>3 DEF NoRepeat
  <2>1. From(i) \in 1..n /\ From(j) \in 1..n /\ q[From(i)] = q[From(j)]
    BY <1>3, <1>4
  <2>2. From(i) = From(j)
    <3> HIDE DEF From
    <3> QED BY <2>1, <1>1 DEF Chain
  <2> QED BY <2>2, <1>1, <1>2
<1>7. {r[i] : i \in DOMAIN r} = K \ {c}
  <2>1. ASSUME NEW x \in K \ {c} PROVE \E j \in 1..(n - 1) : r[j] = x
    <3>1. PICK i \in 1..n : q[i] = x /\ i # k
      BY <1>1, <1>2 DEF Chain
    <3>2. PICK j \in 1..(n - 1) : From(j) = i
      BY <3>1, <1>5
    <3> QED BY <3>1, <3>2, <1>3
  <2>2. ASSUME NEW j \in 1..(n - 1) PROVE r[j] \in K \ {c}
    BY <1>3, <1>4
  <2> QED BY <2>1, <2>2, <1>3
<1>8. \A j \in 0..n : Nth(r, j) = Nth(q, From(j))
  <2> SUFFICES ASSUME NEW j \in 0..n PROVE Nth(r, j) = Nth(q, From(j))
    OBVIOUS
  <2>1. CASE j \in 1..(n - 1)
    <3>1. From(j) \in 1..n /\ r[j] = q[From(j)]
      BY <2>1, <1>3, <1>4
    <3> HIDE DEF From
    <3> QED BY <2>1, <3>1, <1>1, <1>3 DEF Nth
  <2>2. CASE j \notin 1..(n - 1)
    <3>1. From(j) \notin 1..n
      BY <2>2, <1>1, <1>2
    <3> HIDE DEF From
    <3> QED BY <2>2, <3>1, <1>1, <1>3 DEF Nth
  <2> QED BY <2>1, <2>2
<1>9. y[c] = Nth(q, k - 1) /\ o[c] = Nth(q, k + 1) /\ h = Nth(q, 1)
  BY <1>1, <1>2 DEF Chain
<1>10. h2 = Nth(r, 1)
  <2>1. CASE k = 1
    <3>1. Nth(q, 0) = NULL /\ k - 1 = 0 /\ k + 1 = 2 /\ From(1) = 2 /\ 1 \in 0..n
      BY <2>1, <1>1, <1>2 DEF Nth
    <3> HIDE DEF From
    <3> QED BY <3>1, <1>8, <1>9 DEF Cut
  <2>2. CASE k # 1
    <3>1. k - 1 \in 1..n /\ From(1) = 1 /\ 1 \in 0..n
      BY <2>2, <1>1, <1>2
    <3>2. Nth(q, k - 1) # NULL
      BY <3>1, <1>1 DEF Nth, Cut
    <3> HIDE DEF From
    <3> QED BY <3>1, <3>2, <1>8, <1>9 DEF Cut
  <2> QED BY <2>1, <2>2
<1>11. \A i \in 1..n, j \in 0..(n + 1) : q[i] = Nth(q, j) <=> i = j
  <2> SUFFICES ASSUME NEW i \in 1..n, NEW j \in 0..(n + 1)
               PROVE  q[i] = Nth(q, j) <=> i = j
    OBVIOUS
  <2>1. CASE j \in 1..n
    BY <2>1, <1>1 DEF Nth, Chain
  <2>2. CASE j \notin 1..n
    BY <2>2, <1>1 DEF Nth, Cut
  <2> QED BY <2>1, <2>2
<1>12. ASSUME NEW j \in 1..(n - 1)
       PROVE  o2[r[j]] = Nth(r, j + 1) /\ y2[r[j]] = Nth(r, j - 1)
  <2> DEFINE i == From(j)
  <2>1. i \in 1..n /\ i # k /\ r[j] = q[i] /\ q[i] \in K \ {c}
    BY <1>3, <1>4
  <2>2. /\ j + 1 \in 0..n /\ j - 1 \in 0..n /\ k - 1 \in 0..(n + 1) /\ k + 1 \in 0..(n + 1)
        /\ i = k - 1 <=> j = k - 1
        /\ i = k + 1 <=> j = k
        /\ j = k - 1 => From(j + 1) = k + 1
        /\ j # k - 1 => From(j + 1) = i + 1
        /\ j = k => From(j - 1) = k - 1
        /\ j # k => From(j - 1) = i - 1
    BY <1>1, <1>2
  <2> HIDE DEF i, From
  <2>3. (q[i] = y[c] <=> j = k - 1) /\ (q[i] = o[c] <=> j = k)
    BY <2>1, <2>2, <1>9, <1>11
  <2>4. o[q[i]] = Nth(q, i + 1) /\ y[q[i]] = Nth(q, i - 1)
    BY <2>1, <1>1 DEF Chain
  <2>5. o2[q[i]] = Nth(r, j + 1)
    <3>1. Nth(r, j + 1) = Nth(q, From(j + 1))
      BY <2>2, <1>8
    <3>2. CASE j = k - 1
      BY <3>1, <3>2, <2>1, <2>2, <2>3, <1>9 DEF Cut
    <3>3. CASE j # k - 1
      BY <3>1, <3>3, <2>1, <2>2, <2>3, <2>4 DEF Cut
    <3> QED BY <3>2, <3>3
  <2>6. y2[q[i]] = Nth(r, j - 1)
    <3>1. Nth(r, j - 1) = Nth(q, From(j - 1))
      BY <2>2, <1>8
    <3>2. CASE j = k
      BY <3>1, <3>2, <2>1, <2>2, <2>3, <1>9 DEF Cut
    <3>3. CASE j # k
      BY <3>1, <3>3, <2>1, <2>2, <2>3, <2>4 DEF Cut
    <3> QED BY <3>2, <3>3
  <2> QED BY <2>1, <2>5, <2>6
<1> HIDE DEF From
<1> QED BY <1>3, <1>6, <1>7, <1>10, <1>12 DEF Chain, NoRepeat

-----------------------------------------------------------------------------
(* What the invariants say of a state.                                      *)

(* Types, and what else IInv says that the tree needs.                      *)
LEMMA TreeTypes ==
    ASSUME IInv
    PROVE  /\ pc \in [All -> PC] /\ current \in All /\ panic \in {"no", "initproc exit"}
           /\ state \in [All -> ProcState] /\ wait_state \in [All -> WaitState]
           /\ parent \in [All -> All \cup {NULL}] /\ cptr \in [All -> All \cup {NULL}]
           /\ yptr \in [All -> All \cup {NULL}] /\ optr \in [All -> All \cup {NULL}]
           /\ proc_list \subseteq Procs \cup {initproc}
           /\ waitpid \in [All -> Procs \cup {initproc, NULL}]
           /\ walk \in [All -> All \cup {NULL}]
BY DEF IInv, TypeInv, ProcTypeOK, SchedTypeOK, PanicOk

LEMMA Names ==
    /\ idleproc \in All /\ initproc \in All /\ idleproc # initproc
    /\ idleproc \notin Procs /\ initproc \notin Procs
    /\ NULL \notin All /\ Procs \subseteq All
    /\ All = Procs \cup {initproc} \cup {idleproc}
BY SchedAssumption DEF All

(* What is not free has a structure that is linked, or is idleproc.         *)
LEMMA LiveFacts ==
    ASSUME IInv, TreeInv
    PROVE  /\ \A x \in All : x \in Live <=> pc[x] # "free"
           /\ Live \subseteq All /\ NULL \notin Live /\ proc_list \subseteq Live
           /\ idleproc \notin proc_list /\ initproc \in proc_list
           /\ current \in Live
           /\ \A c \in proc_list : parent[c] \in Live
<1>1. \A x \in All : state[x] = "FREE" <=> pc[x] = "free"
  BY DEF IInv, PcInv
<1>2. \A x \in Procs \cup {initproc} : x \in proc_list <=> pc[x] # "free"
  BY <1>1, Names DEF TreeInv, ListedInv
<1>3. pc[idleproc] = "idle" /\ pc[initproc] # "free" /\ pc[current] # "free"
  BY Names DEF IInv, FixedInv, CurrentInv
<1>4. proc_list \subseteq Procs \cup {initproc} /\ current \in All
  BY TreeTypes
<1>5. \A c \in proc_list : parent[c] \in Live
  BY DEF TreeInv, HomeInv
<1> QED BY <1>2, <1>3, <1>4, <1>5, Names DEF Live

(* The list of the children of p, with an empty head when there are none.   *)
LEMMA FamilyFacts ==
    ASSUME IInv, TreeInv, NEW p \in Live
    PROVE  /\ \E q \in Seq(proc_list) : Family(p, q) /\ Scanned(p, q)
           /\ cptr[p] = NULL <=> Children(p) = {}
           /\ cptr[p] # NULL => cptr[p] \in Children(p)
<1>1. PICK q \in Seq(proc_list) : Family(p, q) /\ Scanned(p, q)
  BY DEF TreeInv, FamilyInv
<1>2. /\ {q[i] : i \in DOMAIN q} = Children(p) /\ cptr[p] = Nth(q, 1)
      /\ DOMAIN q = 1..Len(q) /\ Len(q) \in Nat
  BY <1>1 DEF Family, Chain
<1>3. NULL \notin Children(p)
  BY LiveFacts DEF Children
<1>4. CASE 1 \in DOMAIN q
  BY <1>1, <1>2, <1>3, <1>4 DEF Nth
<1>5. CASE 1 \notin DOMAIN q
  <2>1. DOMAIN q = {}
    BY <1>2, <1>5
  <2> QED BY <2>1, <1>1, <1>2, <1>3, <1>5 DEF Nth
<1> QED BY <1>4, <1>5

-----------------------------------------------------------------------------
(* Steps that leave the tree alone: the process that has the CPU goes on to *)
(* m, processes may be woken, nobody starts to wait for a child, dies or is *)
(* freed.                                                                   *)
WaitPc == {"wait_scan", "wait_sleep", "wait_found"}

Settled(m) ==
    /\ m \notin WaitPc \cup {"init_quit"} /\ pc[current] \notin WaitPc
    /\ m \in {"wait_schedule", "waited"} => UNCHANGED waitpid
    /\ m = "dead" => pc[current] = "exit_schedule"
    /\ m = "exit_schedule" \/ pc[current] = "exit_reparent" => cptr[current] = NULL
    /\ pc[current] = "exit_wakeup" => wait_state'[parent[current]] # "WT_CHILD"

Moved(m) ==
    /\ pc' = [pc EXCEPT ![current] = m]
    /\ m # "free" /\ (m \in ExitPc <=> pc[current] \in ExitPc)
    /\ current' = current \/ m \in OffCpu
    /\ UNCHANGED linkVars /\ UNCHANGED walk
    /\ current = initproc => m \in InitPc
    /\ \A x \in All : x # current \/ x = initproc => waitpid'[x] = waitpid[x]
    /\ \A x \in All : wait_state'[x] = "WT_CHILD" => wait_state[x] = "WT_CHILD"
    /\ \/ m = pc[current] /\ current' = current /\ UNCHANGED waitpid
       \/ Settled(m)

LEMMA MovedStep ==
    ASSUME IInv, IInv', TreeInv, NEW m, Moved(m)
    PROVE  TreeInv'
<1>1. /\ pc \in [All -> PC] /\ current \in All /\ pc'[current] = m
      /\ \A x \in All : x # current => pc'[x] = pc[x]
  BY TreeTypes DEF Moved
<1>2. UNCHANGED <<parent, cptr, yptr, optr, proc_list, nr_process, walk>>
  BY DEF Moved, linkVars
<1>3. \A x \in All : /\ state'[x] = "FREE" <=> state[x] = "FREE"
                     /\ state'[x] = "ZOMBIE" <=> state[x] = "ZOMBIE"
  <2>1. \A x \in All : /\ pc'[x] = "free" <=> pc[x] = "free"
                       /\ pc'[x] \in ExitPc <=> pc[x] \in ExitPc
    BY <1>1 DEF Moved, IInv, CurrentInv
  <2> QED BY <2>1 DEF IInv, PcInv
<1>4. Live' = Live /\ \A x : Children(x)' = Children(x)
  BY <1>2 DEF Live, Children
<1>5. OffCpuInv'
  BY <1>1 DEF Moved, TreeInv, OffCpuInv
<1>6. ListedInv'
  BY <1>2, <1>3, Names DEF TreeInv, ListedInv
<1>7. RootInv'
  BY <1>1, <1>2, Names DEF Moved, TreeInv, RootInv
<1>8. HomeInv'
  <2> SUFFICES ASSUME NEW c \in proc_list
               PROVE  parent[c] \in Live /\ pc'[parent[c]] \notin {"exit_schedule", "dead"}
    BY <1>2, <1>4 DEF HomeInv
  <2>1. parent[c] \in Live /\ parent[c] \in All /\ pc[parent[c]] \notin {"exit_schedule", "dead"}
    BY LiveFacts DEF TreeInv, HomeInv
  <2>2. CASE parent[c] # current
    BY <2>1, <2>2, <1>1
  <2>3. CASE parent[c] = current
    <3>1. cptr[current] # NULL
      BY <2>3, LiveFacts, FamilyFacts DEF Children
    <3> QED BY <2>1, <2>3, <3>1, <1>1 DEF Moved, Settled
  <2> QED BY <2>2, <2>3
<1>9. AcyclicInv'
  BY <1>2 DEF TreeInv, AcyclicInv
<1>10. FamilyInv'
  <2> SUFFICES ASSUME NEW p \in Live
               PROVE  \E q \in Seq(proc_list) : Family(p, q)' /\ Scanned(p, q)'
    BY <1>2, <1>4 DEF FamilyInv
  <2>1. PICK q \in Seq(proc_list) : Family(p, q) /\ Scanned(p, q)
    BY FamilyFacts
  <2>2. Family(p, q)'
    <3>1. CASE Loose(p) \subseteq Loose(p)'
      <4>1. Chain(q, Children(p), cptr[p], optr, yptr, Loose(p)')
        BY <2>1, <3>1, ChainSame DEF Family
      <4> QED BY <4>1, <1>2, <1>4 DEF Family
    <3>2. CASE ~(Loose(p) \subseteq Loose(p)')
      <4>1. pc[p] = "exit_reparent" /\ pc'[p] # "exit_reparent"
        BY <3>2, <1>2 DEF Loose
      <4>2. p = current /\ cptr[p] = NULL
        BY <4>1, <1>1, LiveFacts DEF Moved, Settled
      <4>3. Children(p) = {}
        BY <4>2, FamilyFacts
      <4>4. Chain(q, Children(p), cptr[p], optr, yptr, Loose(p)')
        BY <2>1, <4>3 DEF Family, Chain
      <4> QED BY <4>4, <1>2, <1>4 DEF Family
    <3> QED BY <3>1, <3>2
  <2>3. Scanned(p, q)'
    <3> SUFFICES ASSUME pc'[p] = "wait_scan" PROVE Scanned(p, q)'
      BY DEF Scanned
    <3>1. pc[p] = "wait_scan"
      BY <1>1, LiveFacts DEF Moved, Settled, WaitPc
    <3>2. PICK i \in 1..(Len(q) + 1) : /\ walk[p] = Nth(q, i)
                                      /\ \A j \in 1..(i - 1) : state[q[j]] # "ZOMBIE"
      BY <2>1, <3>1 DEF Scanned
    <3>3. \A j \in 1..(i - 1) : state'[q[j]] # "ZOMBIE"
      <4> TAKE j \in 1..(i - 1)
      <4>1. j \in 1..Len(q) /\ q[j] \in proc_list
        OBVIOUS
      <4>2. q[j] \in All
        BY <4>1, LiveFacts
      <4> QED BY <4>2, <3>2, <1>3
    <3> QED BY <3>2, <3>3, <1>2 DEF Scanned
  <2> QED BY <2>2, <2>3
<1>11. WalkInv'
  <2> SUFFICES ASSUME NEW p \in All, walk[p] # NULL
               PROVE  /\ p = current' /\ pc'[p] \in WaitPc
                      /\ walk[p] \in proc_list /\ parent[walk[p]] = p
    BY <1>2 DEF WalkInv, WalkOk, WaitPc
  <2>1. p = current /\ pc[p] \in WaitPc /\ walk[p] \in proc_list /\ parent[walk[p]] = p
    BY DEF TreeInv, WalkInv, WalkOk, WaitPc
  <2>2. m = pc[current] /\ current' = current
    BY <2>1 DEF Moved, Settled
  <2> QED BY <2>1, <2>2, <1>1
<1>12. WaitInv'
  <2>1. \A p \in All, c \in proc_list : Awaited(p, c)' => Awaited(p, c) \/ waitpid'[p] # waitpid[p]
    BY <1>2, <1>3, LiveFacts DEF Awaited
  <2>2. \A p \in All : HasSomebody(p) => HasSomebody(p)' \/ waitpid'[p] # waitpid[p]
    BY <1>2 DEF HasSomebody
  <2>3. CASE m = pc[current] /\ current' = current /\ UNCHANGED waitpid
    <3>1. \A x \in All : pc'[x] = pc[x]
      BY <2>3, <1>1
    <3> QED BY <2>1, <2>2, <2>3, <3>1, <1>2, LiveFacts DEF Moved, TreeInv, WaitInv, WaitOk
  <2>4. CASE Settled(m)
    <3>1. \A x \in All : pc'[x] \notin {"wait_scan", "wait_sleep"}
      BY <2>4, <1>1 DEF Settled, WaitPc, TreeInv, OffCpuInv, OffCpu
    <3> SUFFICES ASSUME NEW p \in All, wait_state'[p] = "WT_CHILD"
                 PROVE  /\ HasSomebody(p)'
                        /\ \A c \in proc_list : ~Awaited(p, c)'
      BY <3>1, <1>2 DEF WaitInv, WaitOk
    <3>2. wait_state[p] = "WT_CHILD"
      BY DEF Moved
    <3>3. pc'[p] \in {"wait_schedule", "waited"}
      BY DEF IInv, PcInv
    <3>4. waitpid'[p] = waitpid[p]
      BY <2>4, <3>3, <1>1 DEF Moved, Settled
    <3>5. HasSomebody(p)'
      BY <2>2, <3>2, <3>4 DEF TreeInv, WaitInv, WaitOk
    <3>6. ASSUME NEW c \in proc_list, Awaited(p, c)' PROVE FALSE
      <4>1. Awaited(p, c)
        BY <2>1, <3>4, <3>6
      <4>2. c = current /\ pc[c] = "exit_wakeup" /\ parent[c] = p
        BY <3>2, <4>1 DEF TreeInv, WaitInv, WaitOk, Awaited
      <4> QED BY <4>2, <2>4 DEF Settled
    <3> QED BY <3>5, <3>6
  <2> QED BY <2>3, <2>4 DEF Moved
<1>13. QuitInv'
  BY <1>1, <1>2, Names DEF Moved, Settled, TreeInv, QuitInv
<1>14. FreeInv'
  BY <1>2, <1>4 DEF TreeInv, FreeInv
<1> QED BY <1>5, <1>6, <1>7, <1>8, <1>9, <1>10, <1>11, <1>12, <1>13, <1>14 DEF TreeInv

(* Waking somebody starts nobody's wait.                                    *)
LEMMA WakeupWaits ==
    ASSUME IInv, NEW q \in All, wakeup_proc(q)
    PROVE  /\ \A x \in All : wait_state'[x] = "WT_CHILD" => wait_state[x] = "WT_CHILD"
           /\ wait_state'[q] # "WT_CHILD"
<1>1. wait_state \in [All -> WaitState] /\ (wait_state[q] = "WT_CHILD" => state[q] = "SLEEPING")
  BY TreeTypes DEF IInv, WaitStateOk
<1> QED BY <1>1 DEF wakeup_proc, Awake

(* The timer interrupt, whatever it interrupts.                             *)
LEMMA MovedByIrq ==
    ASSUME IInv, TreeInv, Irq
    PROVE  \E m : Moved(m)
<1> DEFINE m == IF pc[current] = "user" /\ TimerIrq THEN "trapret" ELSE pc[current]
<1>1. pc \in [All -> PC] /\ current \in All /\ pc[current] \notin {"free", "dead"}
  BY TreeTypes DEF IInv, CurrentInv
<1>2. pc' = [pc EXCEPT ![current] = m] /\ UNCHANGED <<current, procVars>>
  BY <1>1 DEF Irq, TimerIrq, TimerExpire, TimerTick, run_timer_list_enter,
              run_timer_list_expire, run_timer_list_tick
<1>3. \A x \in All : wait_state'[x] = "WT_CHILD" => wait_state[x] = "WT_CHILD"
  <2>1. CASE TimerExpire
    <3>1. PICK p \in expired : run_timer_list_expire(p)
      BY <2>1 DEF TimerExpire
    <3>2. p \in All
      BY DEF IInv, TypeInv, ProcTypeOK, SchedTypeOK
    <3>3. wait_state' = wait_state \/ wakeup_proc(p)
      BY <3>1 DEF run_timer_list_expire
    <3> QED BY <3>2, <3>3, WakeupWaits
  <2>2. CASE TimerIrq \/ TimerTick
    BY <2>2 DEF TimerIrq, TimerTick, run_timer_list_enter, run_timer_list_tick
  <2> QED BY <2>1, <2>2 DEF Irq
<1>4. current = initproc => pc[current] \in InitPc /\ pc[current] # "user"
  BY DEF TreeInv, RootInv, InitPc
<1>5. CASE m = pc[current]
  BY <1>1, <1>2, <1>3, <1>4, <1>5 DEF Moved, procVars, ExitPc
<1>6. CASE m # pc[current]
  <2>1. pc[current] = "user" /\ m = "trapret"
    BY <1>6
  <2>2. Settled(m)
    BY <2>1 DEF Settled, WaitPc
  <2> QED BY <1>1, <1>2, <1>3, <1>4, <2>1, <2>2 DEF Moved, procVars, ExitPc
<1> QED BY <1>5, <1>6

(* Where the current process goes on, in the actions that leave the tree    *)
(* alone and that look for no child.                                        *)
Paths ==
    {"user", "kthread", "trapret", "slept"}
        \X {"user", "kthread", "trapret", "exit", "wait", "sleep"}
    \cup {<<"boot", "wait">>, <<"init_loop", "wait">>, <<"init_quit", "exit">>,
          <<"idle", "idle">>, <<"sleep", "slept">>, <<"wait_schedule", "waited">>,
          <<"waited", "wait">>, <<"waited", "exit">>,
          <<"exit_wakeup", "exit_reparent">>, <<"exit_reparent", "exit_schedule">>,
          <<"exit_schedule", "dead">>}

Passes(p, m) ==
    /\ current = p /\ pc' = [pc EXCEPT ![p] = m] /\ <<pc[p], m>> \in Paths
    /\ current' = current \/ m \in OffCpu
    /\ UNCHANGED linkVars /\ UNCHANGED walk
    /\ \/ UNCHANGED waitpid
       \/ /\ m \in {"wait", "exit"} /\ \A x \in All \ {p} : waitpid'[x] = waitpid[x]
          /\ p # initproc \/ waitpid'[p] = NULL
    /\ \A x \in All : wait_state'[x] = "WT_CHILD" => wait_state[x] = "WT_CHILD"
    /\ pc[p] = "exit_reparent" => cptr[p] = NULL
    /\ pc[p] = "exit_wakeup" => wait_state'[parent[p]] # "WT_CHILD"

LEMMA PassesMoved ==
    ASSUME IInv, TreeInv, NEW p \in All, NEW m, Passes(p, m)
    PROVE  Moved(m)
<1>1. /\ pc[p] \in {"user", "kthread", "trapret", "slept"}
         /\ m \in {"user", "kthread", "trapret", "exit", "wait", "sleep"}
      \/ /\ pc[p] \in {"boot", "init_loop", "waited"} /\ m = "wait"
      \/ /\ pc[p] \in {"init_quit", "waited"} /\ m = "exit"
      \/ /\ pc[p] = "idle" /\ m = "idle"
      \/ /\ pc[p] = "sleep" /\ m = "slept"
      \/ /\ pc[p] = "wait_schedule" /\ m = "waited"
      \/ /\ pc[p] = "exit_wakeup" /\ m = "exit_reparent"
      \/ /\ pc[p] = "exit_reparent" /\ m = "exit_schedule"
      \/ /\ pc[p] = "exit_schedule" /\ m = "dead"
  BY DEF Passes, Paths
<1>2. p = initproc => pc[p] \in InitPc /\ waitpid[p] = NULL
  BY DEF TreeInv, RootInv
<1>3. p = initproc => m \in InitPc
  BY <1>1, <1>2 DEF InitPc
<1>4. m # "free" /\ (m \in ExitPc <=> pc[p] \in ExitPc)
  BY <1>1 DEF ExitPc
<1>5. \A x \in All : x # p \/ x = initproc => waitpid'[x] = waitpid[x]
  BY <1>2 DEF Passes
<1>6. Settled(m)
  BY <1>1 DEF Passes, Settled, WaitPc
<1> QED BY <1>3, <1>4, <1>5, <1>6 DEF Passes, Moved

(* The steps that end in schedule().                                        *)
LEMMA MovedBySwitch ==
    ASSUME IInv, TreeInv, NEW p \in All, Switch(p)
    PROVE  \E m : Moved(m)
<1>1. pc \in [All -> PC]
  BY TreeTypes
<1>2. \E m : Passes(p, m)
  <2>1. CASE SleepSchedule(p)
    BY <2>1 DEF SleepSchedule, Step, At, Goto, schedule, procVars, linkVars, Passes,
                Paths, OffCpu
  <2>2. CASE WaitSchedule(p)
    BY <2>2 DEF WaitSchedule, Step, At, Goto, schedule, procVars, linkVars, Passes,
                Paths, OffCpu
  <2>3. CASE ExitSchedule(p)
    BY <2>3 DEF ExitSchedule, Step, At, Goto, schedule, procVars, linkVars, Passes,
                Paths, OffCpu
  <2>4. CASE p = initproc /\ InitLoop
    BY <2>4 DEF InitLoop, Step, At, Goto, schedule, procVars, linkVars, Passes,
                Paths, OffCpu
  <2>5. CASE p = idleproc /\ Idle
    <3>1. pc[p] = "idle" /\ pc' = [pc EXCEPT ![p] = "idle"]
      BY <1>1, <2>5 DEF Idle, At
    <3> QED BY <3>1, <2>5 DEF Idle, At, schedule, procVars, linkVars, Passes,
                              Paths, OffCpu
  <2>6. CASE TrapReturn(p)
    <3>1. /\ current = p /\ pc[p] = "trapret" /\ UNCHANGED <<procVars, wait_state>>
          /\ \/ pc' = [pc EXCEPT ![p] = "user"]
             \/ pc' = [pc EXCEPT ![p] = "exit"] /\ current' = current
      BY <2>6 DEF TrapReturn, At, Goto, schedule, schedVars
    <3> QED BY <3>1 DEF procVars, linkVars, Passes, Paths, OffCpu
  <2> QED BY <2>1, <2>2, <2>3, <2>4, <2>5, <2>6 DEF Switch
<1> QED BY <1>2, PassesMoved

(* The steps that leave the scheduler alone, but for the walk of do_wait.   *)
LEMMA MovedByQuiet ==
    ASSUME IInv, TreeInv, NEW p \in Procs \cup {initproc}, Quiet(p),
           ~WaitRepeat(p), ~WaitScan(p)
    PROVE  \E m : Moved(m)
<1>1. pc \in [All -> PC] /\ p \in All /\ waitpid \in [All -> Procs \cup {initproc, NULL}]
  BY TreeTypes, Names
<1>2. \E m : Passes(p, m)
  <2>1. CASE SysOther(p)
    BY <2>1 DEF SysOther, Return, ReturnPc, At, Goto, schedVars, procVars, linkVars,
                Passes, Paths
  <2>2. CASE SysExit(p)
    BY <2>2 DEF SysExit, Step, At, Goto, schedVars, procVars, linkVars, Passes, Paths
  <2>3. CASE KThreadReturn(p)
    BY <2>3 DEF KThreadReturn, Step, At, Goto, schedVars, procVars, linkVars, Passes, Paths
  <2>4. CASE Exec(p)
    <3>1. /\ current = p /\ pc[p] \in {"user", "kthread"}
          /\ UNCHANGED <<schedVars, linkVars, waitpid, walk>>
          /\ \E m \in {"trapret", "user", "exit"} : pc' = [pc EXCEPT ![p] = m]
      BY <2>4 DEF Exec, At, Goto
    <3> QED BY <3>1 DEF schedVars, Passes, Paths
  <2>5. CASE SysWait(p)
    <3>1. /\ current = p /\ pc[p] = "user" /\ pc' = [pc EXCEPT ![p] = "wait"]
          /\ UNCHANGED <<schedVars, linkVars, walk>>
          /\ \A x \in All \ {p} : waitpid'[x] = waitpid[x]
      BY <1>1, <2>5 DEF SysWait, Step, At, Goto
    <3>2. p # initproc
      BY <3>1 DEF TreeInv, RootInv, InitPc
    <3> QED BY <3>1, <3>2 DEF schedVars, Passes, Paths
  <2>6. CASE Waited(p)
    <3>1. /\ current = p /\ pc[p] = "waited"
          /\ UNCHANGED <<schedVars, linkVars, walk>>
          /\ \/ pc' = [pc EXCEPT ![p] = "wait"] /\ UNCHANGED waitpid
             \/ /\ pc' = [pc EXCEPT ![p] = "exit"] /\ waitpid'[p] = NULL
                /\ \A x \in All \ {p} : waitpid'[x] = waitpid[x]
      BY <1>1, <2>6 DEF Waited, At, Goto
    <3> QED BY <3>1 DEF schedVars, Passes, Paths
  <2>7. CASE p = initproc /\ (InitBooted \/ InitQuit)
    BY <2>7 DEF InitBooted, InitQuit, Step, At, Goto, schedVars, procVars, linkVars,
                Passes, Paths
  <2> QED BY <2>1, <2>2, <2>3, <2>4, <2>5, <2>6, <2>7 DEF Quiet
<1> QED BY <1>1, <1>2, PassesMoved

(* The other system calls, and do_exit but for the hand-over of children.   *)
LEMMA MovedByCall ==
    ASSUME IInv, TreeInv, NEW p \in Procs \cup {initproc},
           \/ SysYield(p) \/ SysKill(p) \/ Sleep(p) \/ SleepReturn(p)
           \/ ExitWakeup(p) \/ ExitReparented(p)
    PROVE  \E m : Moved(m)
<1>1. pc \in [All -> PC] /\ p \in All /\ wait_state \in [All -> WaitState]
  BY TreeTypes, Names
<1>2. \E m : Passes(p, m)
  <2>1. CASE SysYield(p)
    BY <2>1 DEF SysYield, Return, ReturnPc, At, Goto, procVars, linkVars, Passes, Paths
  <2>2. CASE SysKill(p)
    <3>1. PICK q \in Killable : do_kill(q)
      BY <2>2 DEF SysKill
    <3>2. q \in All
      BY <3>1, ProcAssumption, Names
    <3>3. \A x \in All : wait_state'[x] = "WT_CHILD" => wait_state[x] = "WT_CHILD"
      BY <3>1, <3>2, WakeupWaits DEF do_kill
    <3> QED BY <2>2, <3>3 DEF SysKill, Return, ReturnPc, At, Goto, Passes, Paths
  <2>3. CASE Sleep(p)
    <3>1. \A x \in All : wait_state'[x] = "WT_CHILD" => wait_state[x] = "WT_CHILD"
      BY <1>1, <2>3 DEF Sleep
    <3> QED BY <2>3, <3>1 DEF Sleep, At, Goto, procVars, linkVars, Passes, Paths
  <2>4. CASE SleepReturn(p)
    BY <2>4 DEF SleepReturn, Return, ReturnPc, At, Goto, procVars, linkVars, Passes, Paths
  <2>5. CASE ExitWakeup(p)
    <3>1. current = p /\ pc[p] = "exit_wakeup" /\ pc' = [pc EXCEPT ![p] = "exit_reparent"]
      BY <2>5 DEF ExitWakeup, At, Goto
    <3>2. parent[p] \in All
      BY <1>1, <3>1 DEF IInv, ParentInv
    <3>3. /\ \A x \in All : wait_state'[x] = "WT_CHILD" => wait_state[x] = "WT_CHILD"
          /\ wait_state'[parent[p]] # "WT_CHILD"
      BY <2>5, <3>2, WakeupWaits DEF ExitWakeup, WakesParent
    <3> QED BY <2>5, <3>1, <3>3 DEF ExitWakeup, procVars, linkVars, Passes, Paths
  <2>6. CASE ExitReparented(p)
    BY <2>6 DEF ExitReparented, Step, At, Goto, schedVars, procVars, linkVars, Passes, Paths
  <2> QED BY <2>1, <2>2, <2>3, <2>4, <2>5, <2>6
<1> QED BY <1>1, <1>2, PassesMoved

-----------------------------------------------------------------------------
(* do_wait looks for a child.                                               *)

(* Nobody but the current process p moves, and p only within do_wait.       *)
Walks(p, m) ==
    /\ current = p /\ current' = current /\ pc' = [pc EXCEPT ![p] = m]
    /\ pc[p] \in {"wait", "wait_scan", "wait_sleep"}
    /\ m \in WaitPc \cup {"wait_schedule", "trapret", "init_quit"}
    /\ UNCHANGED linkVars
    /\ \A x \in All \ {p} : /\ walk'[x] = walk[x] /\ waitpid'[x] = waitpid[x]
                            /\ wait_state'[x] = wait_state[x]
    /\ p = initproc => m \in InitPc /\ waitpid'[p] = NULL

(* What is left to show of p.                                               *)
Goes(p) ==
    /\ \E q \in Seq(proc_list) : Family(p, q) /\ Scanned(p, q)'
    /\ WalkOk(p)' /\ WaitOk(p)' /\ QuitInv'

LEMMA WalksStep ==
    ASSUME IInv, IInv', TreeInv, NEW p \in All, NEW m, Walks(p, m), Goes(p)
    PROVE  TreeInv'
<1>1. /\ pc'[p] = m /\ \A x \in All : x # p => pc'[x] = pc[x]
      /\ current = p /\ current' = p
  BY TreeTypes DEF Walks
<1>2. UNCHANGED <<parent, cptr, yptr, optr, proc_list, nr_process>>
  BY DEF Walks, linkVars
<1>3. \A x \in All : /\ state'[x] = "FREE" <=> state[x] = "FREE"
                     /\ state'[x] = "ZOMBIE" <=> state[x] = "ZOMBIE"
  <2>1. \A x \in All : /\ pc'[x] = "free" <=> pc[x] = "free"
                       /\ pc'[x] \in ExitPc <=> pc[x] \in ExitPc
    BY <1>1 DEF Walks, WaitPc, ExitPc
  <2> QED BY <2>1 DEF IInv, PcInv
<1>4. Live' = Live /\ \A x : Children(x)' = Children(x)
  BY <1>2 DEF Live, Children
<1>5. OffCpuInv'
  BY <1>1 DEF TreeInv, OffCpuInv
<1>6. ListedInv'
  BY <1>2, <1>3, Names DEF TreeInv, ListedInv
<1>7. RootInv'
  BY <1>1, <1>2, Names DEF Walks, TreeInv, RootInv
<1>8. HomeInv'
  <2> SUFFICES ASSUME NEW c \in proc_list
               PROVE  parent[c] \in Live /\ pc'[parent[c]] \notin {"exit_schedule", "dead"}
    BY <1>2, <1>4 DEF HomeInv
  <2>1. parent[c] \in Live /\ parent[c] \in All /\ pc[parent[c]] \notin {"exit_schedule", "dead"}
    BY LiveFacts DEF TreeInv, HomeInv
  <2> QED BY <2>1, <1>1 DEF Walks, WaitPc
<1>9. AcyclicInv'
  BY <1>2 DEF TreeInv, AcyclicInv
<1>10. \A x \in All : \A q : Family(x, q)' <=> Family(x, q)
  <2> SUFFICES ASSUME NEW x \in All, NEW q PROVE Family(x, q)' <=> Family(x, q)
    OBVIOUS
  <2>1. Loose(x)' = Loose(x)
    BY <1>1, <1>2 DEF Loose, Walks, WaitPc
  <2> QED BY <2>1, <1>2, <1>4 DEF Family
<1>11. FamilyInv'
  <2> SUFFICES ASSUME NEW x \in Live
               PROVE  \E q \in Seq(proc_list) : Family(x, q)' /\ Scanned(x, q)'
    BY <1>2, <1>4 DEF FamilyInv
  <2>1. CASE x = p
    BY <2>1, <1>10 DEF Goes
  <2>2. CASE x # p
    <3>1. x \in All /\ pc'[x] # "wait_scan"
      BY <2>2, <1>1, LiveFacts DEF TreeInv, OffCpuInv, OffCpu
    <3>2. PICK q \in Seq(proc_list) : Family(x, q)
      BY FamilyFacts
    <3> QED BY <3>1, <3>2, <1>10 DEF Scanned
  <2> QED BY <2>1, <2>2
<1>12. WalkInv'
  <2> SUFFICES ASSUME NEW x \in All PROVE WalkOk(x)'
    BY DEF WalkInv
  <2>1. CASE x # p
    <3>1. walk'[x] = NULL
      BY <2>1, <1>1 DEF Walks, TreeInv, WalkInv, WalkOk
    <3> QED BY <3>1 DEF WalkOk
  <2> QED BY <2>1 DEF Goes
<1>13. WaitInv'
  <2> SUFFICES ASSUME NEW x \in All, x # p PROVE WaitOk(x)'
    BY DEF WaitInv, Goes
  <2>1. /\ pc'[x] \notin {"wait_scan", "wait_sleep"}
        /\ waitpid'[x] = waitpid[x] /\ wait_state'[x] = wait_state[x]
    BY <1>1 DEF Walks, TreeInv, OffCpuInv, OffCpu
  <2>2. HasSomebody(x)' <=> HasSomebody(x)
    BY <2>1, <1>2 DEF HasSomebody
  <2>3. \A c \in proc_list : Awaited(x, c)' => Awaited(x, c)
    BY <2>1, <1>2, <1>3, LiveFacts DEF Awaited
  <2>4. pc[current] # "exit_wakeup"
    BY <1>1 DEF Walks
  <2>5. WaitOk(x)
    BY DEF TreeInv, WaitInv
  <2> QED BY <2>1, <2>2, <2>3, <2>4, <2>5, <1>2 DEF WaitOk
<1>14. FreeInv'
  BY <1>2, <1>4 DEF TreeInv, FreeInv
<1> QED BY <1>5, <1>6, <1>7, <1>8, <1>9, <1>11, <1>12, <1>13, <1>14 DEF TreeInv, Goes

(* A child list passed to its end has no zombie.                            *)
LEMMA ScannedAll ==
    ASSUME IInv, TreeInv, NEW p \in Live, pc[p] = "wait_scan", walk[p] = NULL
    PROVE  \A c \in Children(p) : state[c] # "ZOMBIE"
<1>1. PICK q \in Seq(proc_list) : Family(p, q) /\ Scanned(p, q)
  BY FamilyFacts
<1>2. PICK i \in 1..(Len(q) + 1) : /\ walk[p] = Nth(q, i)
                                  /\ \A j \in 1..(i - 1) : state[q[j]] # "ZOMBIE"
  BY <1>1 DEF Scanned
<1>3. DOMAIN q = 1..Len(q) /\ Len(q) \in Nat /\ \A j \in 1..Len(q) : q[j] \in proc_list
  OBVIOUS
<1>4. i \notin 1..Len(q)
  BY <1>2, <1>3, LiveFacts DEF Nth
<1>5. i - 1 = Len(q)
  BY <1>3, <1>4
<1>6. \A c \in Children(p) : \E j \in 1..Len(q) : q[j] = c
  BY <1>1, <1>3 DEF Family, Chain
<1> QED BY <1>2, <1>5, <1>6

(* When initproc has no child there is nobody else: every process has it    *)
(* among its ancestors.                                                     *)
LEMMA OnlyInit ==
    ASSUME IInv, TreeInv, cptr[initproc] = NULL
    PROVE  proc_list = {initproc}
<1> SUFFICES ASSUME proc_list \ {initproc} # {} PROVE FALSE
  BY LiveFacts
<1>1. PICK c \in proc_list \ {initproc} : parent[c] \notin proc_list \ {initproc}
  BY DEF TreeInv, AcyclicInv
<1>2. parent[c] \in {initproc, idleproc}
  BY <1>1, LiveFacts DEF Live
<1>3. parent[c] = initproc
  BY <1>1, <1>2, LiveFacts DEF TreeInv, RootInv
<1>4. initproc \in Live /\ Children(initproc) = {}
  BY LiveFacts, FamilyFacts
<1> QED BY <1>1, <1>3, <1>4 DEF Children

(* A process within do_wait runs and does not sleep.                        *)
LEMMA WalkerFacts ==
    ASSUME IInv, IInv', TreeInv, NEW p \in All, current = p,
           pc[p] \in {"wait", "wait_scan", "wait_sleep"}
    PROVE  /\ p \in Live /\ wait_state[p] # "WT_CHILD"
           /\ wait_state'[p] = "WT_CHILD" => pc'[p] \in {"wait_schedule", "waited"}
           /\ \E q \in Seq(proc_list) : Family(p, q) /\ Scanned(p, q)
           /\ cptr[p] # NULL => cptr[p] \in Children(p)
           /\ pc[p] # "wait_scan" /\ pc[p] # "wait_sleep" => walk[p] = NULL
BY LiveFacts, FamilyFacts DEF IInv, PcInv, TreeInv, WalkInv, WalkOk

LEMMA WaitRepeatTree ==
    ASSUME IInv, IInv', TreeInv, NEW p \in Procs \cup {initproc}, WaitRepeat(p)
    PROVE  TreeInv'
<1>1. /\ current = p /\ current' = p /\ pc[p] = "wait" /\ p \in All
      /\ UNCHANGED <<schedVars, linkVars>>
      /\ UNCHANGED <<state, wait_state, parent, cptr, yptr, optr, proc_list>>
  BY Names DEF WaitRepeat, At, schedVars, linkVars
<1>2. /\ pc \in [All -> PC] /\ walk \in [All -> All \cup {NULL}]
      /\ waitpid \in [All -> Procs \cup {initproc, NULL}]
  BY TreeTypes
<1>3. p = initproc => waitpid[p] = NULL
  BY DEF TreeInv, RootInv
<1>4. PICK q \in Seq(proc_list) : Family(p, q)
  BY <1>1, WalkerFacts
<1>5. CASE /\ waitpid[p] = NULL /\ walk' = [walk EXCEPT ![p] = cptr[p]]
           /\ pc' = [pc EXCEPT ![p] = "wait_scan"] /\ UNCHANGED waitpid
  <2>1. walk'[p] = cptr[p] /\ pc'[p] = "wait_scan" /\ waitpid'[p] = NULL
    BY <1>1, <1>2, <1>5
  <2>2. Walks(p, "wait_scan")
    BY <1>1, <1>2, <1>3, <1>5 DEF Walks, WaitPc, InitPc
  <2>3. Scanned(p, q)'
    <3>1. 1 \in 1..(Len(q) + 1) /\ cptr[p] = Nth(q, 1) /\ \A j : j \notin 1..(1 - 1)
      BY <1>4 DEF Family, Chain
    <3> QED BY <2>1, <3>1 DEF Scanned
  <2>4. WalkOk(p)' /\ WaitOk(p)' /\ QuitInv'
    <3>1. WalkOk(p)'
      BY <1>1, <2>1, WalkerFacts DEF WalkOk, Children
    <3>2. WaitOk(p)'
      BY <1>1, <2>1, WalkerFacts DEF WaitOk
    <3>3. pc'[initproc] # "init_quit" \/ pc[initproc] = "init_quit"
      BY <1>2, <1>5, <2>1, Names
    <3> QED BY <3>1, <3>2, <3>3, <1>1 DEF TreeInv, QuitInv
  <2> QED BY <1>1, <1>4, <2>2, <2>3, <2>4, WalksStep DEF Goes
<1>6. CASE /\ waitpid[p] # NULL /\ parent[waitpid[p]] = p /\ waitpid[p] \in proc_list
           /\ walk' = [walk EXCEPT ![p] = waitpid[p]]
           /\ pc' = [pc EXCEPT ![p] = IF state[waitpid[p]] = "ZOMBIE" THEN "wait_found"
                                                                      ELSE "wait_sleep"]
           /\ UNCHANGED waitpid
  <2> DEFINE m == IF state[waitpid[p]] = "ZOMBIE" THEN "wait_found" ELSE "wait_sleep"
  <2>1. walk'[p] = waitpid[p] /\ pc'[p] = m /\ waitpid'[p] = waitpid[p]
    BY <1>1, <1>2, <1>6
  <2>2. Walks(p, m)
    BY <1>1, <1>2, <1>3, <1>6 DEF Walks, WaitPc, InitPc
  <2>3. Scanned(p, q)'
    BY <2>1 DEF Scanned
  <2>4. WalkOk(p)' /\ WaitOk(p)' /\ QuitInv'
    <3>1. WalkOk(p)'
      BY <1>1, <1>6, <2>1 DEF WalkOk
    <3>2. WaitOk(p)'
      BY <1>1, <1>6, <2>1, WalkerFacts DEF WaitOk, HasSomebody, Awaited
    <3>3. pc'[initproc] # "init_quit" \/ pc[initproc] = "init_quit"
      BY <1>2, <1>6, <2>1, Names
    <3> QED BY <3>1, <3>2, <3>3, <1>1 DEF TreeInv, QuitInv
  <2> HIDE DEF m
  <2> QED BY <1>1, <1>4, <2>2, <2>3, <2>4, WalksStep DEF Goes
<1>7. CASE /\ waitpid[p] # NULL
           /\ pc' = [pc EXCEPT ![p] = IF p = initproc THEN "init_quit" ELSE "trapret"]
           /\ walk' = [walk EXCEPT ![p] = NULL] /\ waitpid' = [waitpid EXCEPT ![p] = NULL]
  <2>1. /\ p # initproc /\ pc' = [pc EXCEPT ![p] = "trapret"]
        /\ walk'[p] = NULL /\ pc'[p] = "trapret"
    BY <1>1, <1>2, <1>3, <1>7
  <2>2. Walks(p, "trapret")
    BY <1>1, <1>2, <1>7, <2>1 DEF Walks
  <2>3. Scanned(p, q)' /\ WalkOk(p)' /\ WaitOk(p)'
    BY <1>1, <2>1, WalkerFacts DEF Scanned, WalkOk, WaitOk
  <2>4. QuitInv'
    BY <1>1, <1>2, <2>1, Names DEF TreeInv, QuitInv
  <2> QED BY <1>1, <1>4, <2>2, <2>3, <2>4, WalksStep DEF Goes
<1>8. waitpid[p] \in proc_list => waitpid[p] # NULL
  BY LiveFacts
<1> QED BY <1>5, <1>6, <1>7, <1>8 DEF WaitRepeat, WaitFails, IsChild, Goto

LEMMA WaitScanTree ==
    ASSUME IInv, IInv', TreeInv, NEW p \in Procs \cup {initproc}, WaitScan(p)
    PROVE  TreeInv'
<1>1. /\ current = p /\ current' = p /\ pc[p] = "wait_scan" /\ p \in All
      /\ UNCHANGED <<schedVars, linkVars>>
      /\ UNCHANGED <<state, wait_state, parent, cptr, yptr, optr, proc_list>>
  BY Names DEF WaitScan, At, schedVars, linkVars
<1>2. /\ pc \in [All -> PC] /\ walk \in [All -> All \cup {NULL}]
      /\ waitpid \in [All -> Procs \cup {initproc, NULL}]
  BY TreeTypes
<1>3. waitpid[p] = NULL /\ p \in Live
  BY <1>1, LiveFacts DEF TreeInv, WaitInv, WaitOk
<1>4. PICK q \in Seq(proc_list) : Family(p, q) /\ Scanned(p, q)
  BY <1>1, WalkerFacts
<1>5. walk[p] # NULL => walk[p] \in proc_list /\ parent[walk[p]] = p
  BY <1>1 DEF TreeInv, WalkInv, WalkOk
<1>6. CASE /\ walk[p] = NULL /\ cptr[p] # NULL /\ pc' = [pc EXCEPT ![p] = "wait_sleep"]
           /\ UNCHANGED <<waitpid, walk>>
  <2>1. walk'[p] = NULL /\ pc'[p] = "wait_sleep" /\ waitpid'[p] = NULL
    BY <1>1, <1>2, <1>3, <1>6
  <2>2. Walks(p, "wait_sleep")
    BY <1>1, <1>2, <1>3, <1>6 DEF Walks, WaitPc, InitPc
  <2>3. \A c \in Children(p) : state[c] # "ZOMBIE"
    BY <1>1, <1>3, <1>6, ScannedAll
  <2>4. WaitOk(p)'
    BY <1>1, <1>6, <2>1, <2>3, WalkerFacts DEF WaitOk, HasSomebody, Awaited, Children
  <2>5. Scanned(p, q)' /\ WalkOk(p)'
    BY <2>1 DEF Scanned, WalkOk
  <2>6. QuitInv'
    BY <1>1, <1>2, <1>6, <2>1, Names DEF TreeInv, QuitInv
  <2> QED BY <1>1, <1>4, <2>2, <2>4, <2>5, <2>6, WalksStep DEF Goes
<1>7. CASE /\ walk[p] = NULL /\ cptr[p] = NULL
           /\ pc' = [pc EXCEPT ![p] = IF p = initproc THEN "init_quit" ELSE "trapret"]
           /\ walk' = [walk EXCEPT ![p] = NULL] /\ waitpid' = [waitpid EXCEPT ![p] = NULL]
  <2> DEFINE m == IF p = initproc THEN "init_quit" ELSE "trapret"
  <2>1. /\ pc'[p] = m /\ walk'[p] = NULL /\ waitpid'[p] = NULL
    BY <1>1, <1>2, <1>7
  <2>2. Walks(p, m)
    BY <1>1, <1>2, <1>7, <2>1 DEF Walks, InitPc
  <2>3. Scanned(p, q)' /\ WalkOk(p)' /\ WaitOk(p)'
    BY <1>1, <2>1, WalkerFacts DEF Scanned, WalkOk, WaitOk
  <2>4. QuitInv'
    <3>1. CASE p = initproc
      BY <3>1, <1>1, <1>7, OnlyInit DEF QuitInv
    <3>2. CASE p # initproc
      BY <3>2, <1>1, <1>2, <1>7, Names DEF TreeInv, QuitInv
    <3> QED BY <3>1, <3>2
  <2> HIDE DEF m
  <2> QED BY <1>1, <1>4, <2>2, <2>3, <2>4, WalksStep DEF Goes
<1>8. CASE /\ walk[p] # NULL /\ pc' = [pc EXCEPT ![p] = "wait_found"]
           /\ UNCHANGED <<waitpid, walk>>
  <2>1. walk'[p] = walk[p] /\ pc'[p] = "wait_found"
    BY <1>1, <1>2, <1>8
  <2>2. Walks(p, "wait_found")
    BY <1>1, <1>2, <1>3, <1>8 DEF Walks, WaitPc, InitPc
  <2>3. Scanned(p, q)' /\ WalkOk(p)' /\ WaitOk(p)'
    BY <1>1, <1>5, <2>1, WalkerFacts DEF Scanned, WalkOk, WaitOk
  <2>4. QuitInv'
    BY <1>1, <1>2, <1>8, <2>1, Names DEF TreeInv, QuitInv
  <2> QED BY <1>1, <1>4, <2>2, <2>3, <2>4, WalksStep DEF Goes
<1>9. CASE /\ walk[p] # NULL /\ state[walk[p]] # "ZOMBIE"
           /\ walk' = [walk EXCEPT ![p] = optr[walk[p]]]
           /\ UNCHANGED <<pc, waitpid>>
  <2>1. /\ walk'[p] = optr[walk[p]] /\ pc'[p] = "wait_scan" /\ waitpid'[p] = NULL
        /\ pc' = [pc EXCEPT ![p] = "wait_scan"]
    BY <1>1, <1>2, <1>3, <1>9
  <2>2. Walks(p, "wait_scan")
    BY <1>1, <1>2, <1>3, <1>9, <2>1 DEF Walks, WaitPc, InitPc
  <2>3. PICK i \in 1..(Len(q) + 1) : /\ walk[p] = Nth(q, i)
                                    /\ \A j \in 1..(i - 1) : state[q[j]] # "ZOMBIE"
    BY <1>1, <1>4 DEF Scanned
  <2>4. /\ DOMAIN q = 1..Len(q) /\ Len(q) \in Nat
        /\ \A j \in 1..Len(q) : q[j] \in proc_list /\ q[j] \in Children(p)
    BY <1>4 DEF Family, Chain
  <2>5. i \in 1..Len(q) /\ walk[p] = q[i]
    BY <1>9, <2>3, <2>4 DEF Nth
  <2>6. walk'[p] = Nth(q, i + 1)
    BY <1>4, <2>1, <2>4, <2>5 DEF Family, Chain
  <2>7. Scanned(p, q)'
    <3>1. i + 1 \in 1..(Len(q) + 1) /\ \A j \in 1..((i + 1) - 1) : j \in 1..(i - 1) \/ j = i
      BY <2>4, <2>5
    <3>2. \A j \in 1..((i + 1) - 1) : state[q[j]] # "ZOMBIE"
      BY <1>9, <2>3, <2>5, <3>1
    <3> QED BY <1>1, <2>6, <3>1, <3>2 DEF Scanned
  <2>8. WalkOk(p)'
    <3>1. walk'[p] = NULL \/ (i + 1 \in DOMAIN q /\ walk'[p] = q[i + 1])
      BY <2>6 DEF Nth
    <3>2. walk'[p] = NULL \/ walk'[p] \in Children(p)
      BY <3>1, <2>4
    <3> QED BY <1>1, <2>1, <3>2 DEF WalkOk, Children
  <2>9. WaitOk(p)'
    BY <1>1, <2>1, WalkerFacts DEF WaitOk
  <2>10. QuitInv'
    BY <1>1, <1>9 DEF TreeInv, QuitInv
  <2> QED BY <1>1, <1>4, <2>2, <2>7, <2>8, <2>9, <2>10, WalksStep DEF Goes
<1> QED BY <1>6, <1>7, <1>8, <1>9 DEF WaitScan, WaitFails, HasKid, Goto

LEMMA WaitSleepTree ==
    ASSUME IInv, IInv', TreeInv, NEW p \in Procs \cup {initproc}, WaitSleep(p)
    PROVE  TreeInv'
<1>1. /\ current = p /\ current' = p /\ pc[p] = "wait_sleep" /\ p \in All
      /\ pc' = [pc EXCEPT ![p] = "wait_schedule"]
      /\ state' = [state EXCEPT ![p] = "SLEEPING"]
      /\ wait_state' = [wait_state EXCEPT ![p] = "WT_CHILD"]
      /\ walk' = [walk EXCEPT ![p] = NULL]
      /\ UNCHANGED <<linkVars, waitpid>>
      /\ UNCHANGED <<parent, cptr, yptr, optr, proc_list>>
  BY Names DEF WaitSleep, Step, At, Goto, linkVars
<1>2. /\ pc \in [All -> PC] /\ walk \in [All -> All \cup {NULL}]
      /\ state \in [All -> ProcState] /\ wait_state \in [All -> WaitState]
  BY TreeTypes
<1>3. PICK q \in Seq(proc_list) : Family(p, q)
  BY <1>1, WalkerFacts
<1>4. walk'[p] = NULL /\ pc'[p] = "wait_schedule"
  BY <1>1, <1>2
<1>5. Walks(p, "wait_schedule")
  BY <1>1, <1>2 DEF Walks, InitPc, TreeInv, RootInv
<1>6. Scanned(p, q)' /\ WalkOk(p)'
  BY <1>4 DEF Scanned, WalkOk
<1>7. WaitOk(p)'
  <2>1. HasSomebody(p) /\ \A c \in proc_list : ~Awaited(p, c)
    BY <1>1 DEF TreeInv, WaitInv, WaitOk
  <2>2. \A c \in proc_list : state'[c] = "ZOMBIE" => state[c] = "ZOMBIE"
    BY <1>1, <1>2, LiveFacts
  <2>3. HasSomebody(p)' /\ \A c \in proc_list : ~Awaited(p, c)'
    BY <1>1, <2>1, <2>2 DEF HasSomebody, Awaited
  <2> QED BY <1>1, <1>4, <2>3 DEF WaitOk
<1>8. QuitInv'
  BY <1>1, <1>2, <1>4, Names DEF TreeInv, QuitInv
<1> QED BY <1>1, <1>3, <1>5, <1>6, <1>7, <1>8, WalksStep DEF Goes

-----------------------------------------------------------------------------
(* Nothing moves.                                                           *)
LEMMA HaltedTree ==
    ASSUME IInv, IInv', TreeInv, UNCHANGED vars
    PROVE  TreeInv'
<1> DEFINE m == pc[current]
<1>1. pc \in [All -> PC] /\ current \in All /\ m \notin {"free", "dead"}
  BY TreeTypes DEF IInv, CurrentInv
<1>2. /\ pc' = pc /\ current' = current /\ wait_state' = wait_state
      /\ waitpid' = waitpid /\ walk' = walk /\ linkVars' = linkVars
  BY DEF vars, schedVars, procVars
<1>3. current = initproc => m \in InitPc
  BY DEF TreeInv, RootInv
<1>4. Moved(m)
  BY <1>1, <1>2, <1>3 DEF Moved
<1> QED BY <1>4, MovedStep

-----------------------------------------------------------------------------
(* do_exit: the process becomes a zombie; it is the one whose wakeup of the *)
(* parent is still to come.                                                 *)
LEMMA ExitTree ==
    ASSUME IInv, IInv', TreeInv, NEW p \in Procs \cup {initproc}, Exit(p)
    PROVE  TreeInv'
<1>1. /\ current = p /\ current' = p /\ pc[p] = "exit" /\ p \in All
      /\ UNCHANGED <<linkVars, wait_state, waitpid, walk>>
      /\ UNCHANGED <<parent, cptr, yptr, optr, proc_list, nr_process>>
  BY Names DEF Exit, At, linkVars
<1>2. /\ pc \in [All -> PC] /\ state \in [All -> ProcState]
  BY TreeTypes
<1>3. CASE p = initproc
  <2>1. pc' = pc
    BY <1>3 DEF Exit
  <2>2. Moved("exit")
    BY <1>1, <1>2, <1>3, <2>1 DEF Moved, InitPc, ExitPc
  <2> QED BY <2>2, MovedStep
<1>4. CASE p # initproc
  <2>1. /\ state' = [state EXCEPT ![p] = "ZOMBIE"] /\ pc' = [pc EXCEPT ![p] = "exit_wakeup"]
    BY <1>4 DEF Exit, Goto
  <2>2. /\ pc'[p] = "exit_wakeup" /\ \A x \in All : x # p => pc'[x] = pc[x]
        /\ \A x \in All : x # p => state'[x] = state[x]
        /\ state'[p] # "FREE" /\ state[p] # "FREE" /\ state[p] # "ZOMBIE"
    BY <1>1, <1>2, <2>1 DEF IInv, PcInv, ExitPc
  <2>3. Live' = Live /\ \A x : Children(x)' = Children(x)
    BY <1>1 DEF Live, Children
  <2>4. \A x \in All : x # p => pc[x] \in OffCpu
    BY <1>1 DEF TreeInv, OffCpuInv
  <2>5. OffCpuInv'
    BY <1>1, <2>2, <2>4 DEF OffCpuInv
  <2>6. ListedInv'
    <3>1. \A x \in Procs \cup {initproc} : state'[x] = "FREE" <=> state[x] = "FREE"
      BY <2>2, Names
    <3> QED BY <1>1, <3>1 DEF TreeInv, ListedInv
  <2>7. RootInv'
    BY <1>1, <1>4, <2>2, Names DEF TreeInv, RootInv
  <2>8. HomeInv'
    <3>1. \A c \in proc_list : parent[c] \in Live /\ parent[c] \in All
                               /\ pc[parent[c]] \notin {"exit_schedule", "dead"}
      BY LiveFacts DEF TreeInv, HomeInv
    <3>2. \A c \in proc_list : pc'[parent[c]] \notin {"exit_schedule", "dead"}
      BY <2>2, <3>1
    <3> QED BY <1>1, <2>3, <3>1, <3>2 DEF HomeInv
  <2>9. AcyclicInv'
    BY <1>1 DEF TreeInv, AcyclicInv
  <2>10. FamilyInv'
    <3> SUFFICES ASSUME NEW x \in Live
                 PROVE  \E q \in Seq(proc_list) : Family(x, q)' /\ Scanned(x, q)'
      BY <1>1, <2>3 DEF FamilyInv
    <3>1. PICK q \in Seq(proc_list) : Family(x, q)
      BY FamilyFacts
    <3>2. x \in All /\ pc'[x] # "wait_scan"
          /\ (pc'[x] = "exit_reparent" <=> pc[x] = "exit_reparent")
      BY <1>1, <2>2, <2>4, LiveFacts DEF OffCpu
    <3>3. Family(x, q)'
      BY <1>1, <2>3, <3>1, <3>2 DEF Family, Loose
    <3> QED BY <3>2, <3>3 DEF Scanned
  <2>11. WalkInv'
    <3>1. \A x \in All : walk[x] = NULL
      BY <1>1 DEF TreeInv, WalkInv, WalkOk
    <3> QED BY <1>1, <3>1 DEF WalkInv, WalkOk
  <2>12. WaitInv'
    <3> SUFFICES ASSUME NEW x \in All, wait_state[x] = "WT_CHILD"
                 PROVE  /\ HasSomebody(x)'
                        /\ \A c \in proc_list : Awaited(x, c)' => c = p
      BY <1>1, <2>2, <2>4 DEF WaitInv, WaitOk, OffCpu
    <3>1. WaitOk(x)
      BY DEF TreeInv, WaitInv
    <3>2. HasSomebody(x)'
      BY <1>1, <3>1 DEF WaitOk, HasSomebody
    <3>3. ASSUME NEW c \in proc_list, c # p, Awaited(x, c)' PROVE FALSE
      <4>1. Awaited(x, c)
        BY <1>1, <2>2, <3>3, LiveFacts DEF Awaited
      <4> QED BY <1>1, <3>1, <3>3, <4>1 DEF WaitOk
    <3> QED BY <3>2, <3>3
  <2>13. QuitInv'
    BY <1>1, <1>4, <2>2, Names DEF TreeInv, QuitInv
  <2>14. FreeInv'
    BY <1>1, <2>3 DEF TreeInv, FreeInv
  <2> QED BY <2>5, <2>6, <2>7, <2>8, <2>9, <2>10, <2>11, <2>12, <2>13, <2>14 DEF TreeInv
<1> QED BY <1>3, <1>4

-----------------------------------------------------------------------------
(* Steps that change the relations.                                         *)

LEMMA SeqIn ==
    ASSUME NEW S, NEW T, NEW q \in Seq(S), \A i \in DOMAIN q : q[i] \in T
    PROVE  q \in Seq(T)
OBVIOUS

(* The members of a list of siblings point to each other.                   *)
LEMMA KinFacts ==
    ASSUME IInv, TreeInv, NEW p \in Live
    PROVE  \A d \in Children(p) :
              /\ optr[d] \in Children(p) \cup {NULL}
              /\ yptr[d] \in Children(p) \cup {NULL} \cup Loose(p)
<1>1. PICK q \in Seq(proc_list) : Family(p, q)
  BY FamilyFacts
<1>2. {q[i] : i \in DOMAIN q} = Children(p)
  BY <1>1 DEF Family, Chain
<1>3. \A i : Nth(q, i) \in Children(p) \cup {NULL}
  BY <1>2 DEF Nth
<1> SUFFICES ASSUME NEW i \in DOMAIN q
             PROVE  /\ optr[q[i]] \in Children(p) \cup {NULL}
                    /\ yptr[q[i]] \in Children(p) \cup {NULL} \cup Loose(p)
  BY <1>2
<1>4. /\ optr[q[i]] = Nth(q, i + 1)
      /\ yptr[q[i]] = Nth(q, i - 1) \/ yptr[q[i]] \in Loose(p)
  BY <1>1 DEF Family, Chain
<1> QED BY <1>3, <1>4

(* What do_wait is about to reap: a child without children, off the CPU for *)
(* good.                                                                    *)
LEMMA ReapFacts ==
    ASSUME IInv, TreeInv, NEW p \in Procs \cup {initproc}, current = p,
           pc[p] = "wait_found"
    PROVE  /\ walk[p] \in Procs \cap proc_list /\ walk[p] # p /\ parent[walk[p]] = p
           /\ state[walk[p]] = "ZOMBIE" /\ pc[walk[p]] = "dead"
           /\ Children(walk[p]) = {}
<1> DEFINE c == walk[p]
<1>1. c \in Procs /\ c # p /\ state[c] = "ZOMBIE" /\ pc[c] \in ExitPc
  BY IInvSplit, FoundFacts
<1>2. c \in proc_list /\ parent[c] = p
  BY <1>1, Names DEF TreeInv, WalkInv, WalkOk
<1>3. pc[c] = "dead"
  BY <1>1, Names DEF TreeInv, OffCpuInv, OffCpu, ExitPc
<1>4. Children(c) = {}
  BY <1>3 DEF TreeInv, HomeInv, Children
<1> QED BY <1>1, <1>2, <1>3, <1>4

(* do_wait reaps the zombie it found.                                       *)
LEMMA WaitFoundTree ==
    ASSUME IInv, IInv', TreeInv, NEW p \in Procs \cup {initproc}, WaitFound(p)
    PROVE  TreeInv'
<1> DEFINE c == walk[p]
           m == IF p = initproc THEN "init_loop" ELSE "trapret"
<1>1. /\ current = p /\ current' = p /\ pc[p] = "wait_found" /\ p \in All /\ p \in Live
      /\ pc \in [All -> PC] /\ UNCHANGED wait_state
  BY Names, TreeTypes, LiveFacts DEF WaitFound, At
<1>2. /\ c \in Procs \cap proc_list /\ c \in Live /\ c # p /\ parent[c] = p /\ c # initproc
      /\ c # idleproc
      /\ state[c] = "ZOMBIE" /\ pc[c] = "dead" /\ Children(c) = {}
  BY <1>1, ReapFacts, Names, LiveFacts
<1>3. /\ remove_links(c) /\ state' = [state EXCEPT ![c] = "FREE"]
      /\ pc' = [pc EXCEPT ![c] = "free", ![p] = m]
      /\ walk' = [walk EXCEPT ![p] = NULL, ![c] = NULL]
      /\ waitpid' = [waitpid EXCEPT ![p] = NULL, ![c] = NULL]
  BY <1>2 DEF WaitFound
<1> HIDE DEF c
<1>4. /\ proc_list' = proc_list \ {c} /\ nr_process' = nr_process - 1
      /\ \A d \in All : parent'[d] = IF d = c THEN NULL ELSE parent[d]
      /\ \A d \in All \ {c} : /\ optr'[d] = IF d = yptr[c] THEN optr[c] ELSE optr[d]
                              /\ yptr'[d] = IF d = optr[c] THEN yptr[c] ELSE yptr[d]
      /\ cptr'[p] = IF yptr[c] = NULL THEN optr[c] ELSE cptr[p]
      /\ \A x \in All : x # p => cptr'[x] = cptr[x]
  <2>1. /\ parent \in [All -> All \cup {NULL}] /\ cptr \in [All -> All \cup {NULL}]
        /\ c \in All
    BY TreeTypes, <1>2, Names
  <2> QED BY <1>1, <1>2, <1>3, <2>1 DEF remove_links, YoungerRemoved
<1>5. /\ pc'[p] = m /\ pc'[c] = "free"
      /\ \A x \in All : x # p /\ x # c => pc'[x] = pc[x]
      /\ \A x \in All : x # p => pc[x] \in OffCpu
  BY <1>1, <1>2, <1>3, Names DEF TreeInv, OffCpuInv
<1>6. Live' = Live \ {c}
  BY <1>2, <1>4 DEF Live
<1>7. /\ \A x \in All : x # p => Children(x)' = Children(x)
      /\ Children(p)' = Children(p) \ {c}
  <2>1. proc_list \subseteq All
    BY LiveFacts
  <2> QED BY <1>2, <1>4, <2>1, Names DEF Children
<1>8. /\ optr[c] \in Children(p) \cup {NULL} /\ yptr[c] \in Children(p) \cup {NULL}
  <2>1. c \in Children(p) /\ Loose(p) = {}
    BY <1>1, <1>2 DEF Children, Loose
  <2> QED BY <1>1, <2>1, KinFacts
<1>9. OffCpuInv'
  BY <1>1, <1>5 DEF OffCpuInv, OffCpu
<1>10. ListedInv'
  <2>1. \A x \in Procs \cup {initproc} : x \in All /\ (state'[x] = "FREE" <=> x = c \/ state[x] = "FREE")
    BY <1>2, <1>3, TreeTypes, Names
  <2>2. proc_list' = {x \in Procs \cup {initproc} : state'[x] # "FREE"}
    BY <1>2, <1>4, <2>1 DEF TreeInv, ListedInv
  <2>3. IsFiniteSet(proc_list) /\ nr_process = Cardinality(proc_list) + 1
    BY DEF TreeInv, ListedInv
  <2>4. IsFiniteSet(proc_list') /\ Cardinality(proc_list') = Cardinality(proc_list) - 1
    BY <1>2, <1>4, <2>3, FS_RemoveElement
  <2>5. Cardinality(proc_list) \in Nat
    BY <2>3, FS_CardinalityType
  <2>6. nr_process' = Cardinality(proc_list') + 1
    BY <1>4, <2>3, <2>4, <2>5
  <2> QED BY <2>2, <2>4, <2>6 DEF ListedInv
<1>11. RootInv'
  <2>1. pc'[initproc] \in InitPc
    BY <1>2, <1>5, Names DEF TreeInv, RootInv, InitPc
  <2>2. waitpid'[initproc] = NULL
    BY <1>2, <1>3, Names, TreeTypes DEF TreeInv, RootInv
  <2>3. idleproc \notin Children(p) /\ idleproc # NULL
    BY LiveFacts, Names DEF Children
  <2>4. parent'[idleproc] = NULL /\ yptr'[idleproc] = NULL /\ optr'[idleproc] = NULL
    BY <1>2, <1>4, <1>8, <2>3, Names DEF TreeInv, RootInv
  <2>5. \A d \in All : parent'[d] = idleproc <=> d = initproc
    BY <1>2, <1>4, <2>3 DEF TreeInv, RootInv
  <2> QED BY <2>1, <2>2, <2>4, <2>5 DEF RootInv
<1>12. HomeInv'
  <2> SUFFICES ASSUME NEW d \in proc_list \ {c}
               PROVE  parent'[d] \in Live' /\ pc'[parent'[d]] \notin {"exit_schedule", "dead"}
    BY <1>4 DEF HomeInv
  <2>1. /\ d \in All /\ parent[d] \in Live /\ parent[d] \in All
        /\ pc[parent[d]] \notin {"exit_schedule", "dead"}
    BY LiveFacts DEF TreeInv, HomeInv
  <2>2. parent'[d] = parent[d] /\ parent[d] # c
    BY <1>2, <1>4, <2>1 DEF Children
  <2> QED BY <1>5, <1>6, <2>1, <2>2
<1>13. AcyclicInv'
  <2> SUFFICES ASSUME NEW T \in SUBSET (proc_list \ {c}), T # {}
               PROVE  \E d \in T : parent'[d] \notin T
    BY <1>4 DEF AcyclicInv
  <2>1. PICK d \in T : parent[d] \notin T
    BY DEF TreeInv, AcyclicInv
  <2>2. d \in All /\ d # c
    BY LiveFacts
  <2> QED BY <1>4, <2>1, <2>2
<1>14. FamilyInv'
  <2> SUFFICES ASSUME NEW x \in Live \ {c}
               PROVE  \E q \in Seq(proc_list') : Family(x, q)'
    <3>1. \A x \in Live \ {c} : pc'[x] # "wait_scan"
      BY <1>1, <1>5, LiveFacts DEF OffCpu
    <3> QED BY <1>6, <3>1 DEF FamilyInv, Scanned
  <2>1. x \in All /\ c \notin Children(x)' /\ Children(x)' \subseteq proc_list'
    BY <1>2, <1>4, <1>7, LiveFacts DEF Children
  <2>2. PICK q \in Seq(proc_list) : Family(x, q)
    BY FamilyFacts
  <2>3. \E r \in Seq(proc_list) :
           Chain(r, Children(x)', cptr'[x], optr', yptr', Loose(x)')
    <3>1. CASE x = p
      <4>1. Loose(p) = {} /\ Chain(q, Children(p), cptr[p], optr, yptr, {})
        BY <1>1, <2>2, <3>1 DEF Family, Loose
      <4>2. Cut(Children(p), cptr[p], optr, yptr, c, cptr'[p], optr', yptr')
        <5>1. c \in Children(p) /\ NULL \notin Children(p) /\ Children(p) \subseteq All
          BY <1>2, LiveFacts DEF Children
        <5> QED BY <1>4, <5>1 DEF Cut
      <4>3. \E r \in Seq(proc_list) :
               Chain(r, Children(p) \ {c}, cptr'[p], optr', yptr', Loose(p)')
        BY <4>1, <4>2, ChainCut
      <4> QED BY <3>1, <4>3, <1>7
    <3>2. CASE x # p
      <4>1. Loose(x) = {}
        BY <2>1, <3>2, <1>5 DEF Loose, OffCpu
      <4>2. \A d \in Children(x) : /\ d \in All \ {c} /\ d \notin Children(p) /\ d # NULL
        BY <1>2, <3>2, LiveFacts DEF Children
      <4>3. \A d \in Children(x) : optr'[d] = optr[d] /\ yptr'[d] = yptr[d]
        BY <4>2, <1>4, <1>8
      <4>4. Chain(q, Children(x), cptr[x], optr', yptr', Loose(x)')
        BY <2>2, <4>1, <4>3, ChainSame DEF Family
      <4> QED BY <2>1, <3>2, <4>4, <1>4, <1>7
    <3> QED BY <3>1, <3>2
  <2>4. PICK r \in Seq(proc_list) :
           Chain(r, Children(x)', cptr'[x], optr', yptr', Loose(x)')
    BY <2>3
  <2>5. \A i \in DOMAIN r : r[i] \in proc_list'
    BY <2>1, <2>4 DEF Chain
  <2>6. r \in Seq(proc_list')
    BY <2>5, SeqIn
  <2> QED BY <2>4, <2>6 DEF Family
<1>15. WalkInv'
  <2>1. \A x \in All : x # p => walk[x] = NULL
    BY <1>1 DEF TreeInv, WalkInv, WalkOk
  <2>2. \A x \in All : walk'[x] = NULL
    BY <1>3, <2>1, TreeTypes
  <2> QED BY <2>2 DEF WalkInv, WalkOk
<1>16. WaitInv'
  <2> SUFFICES ASSUME NEW x \in All, wait_state[x] = "WT_CHILD"
               PROVE  /\ HasSomebody(x)'
                      /\ \A d \in proc_list' : ~Awaited(x, d)'
    BY <1>1, <1>5 DEF WaitInv, WaitOk, OffCpu
  <2>1. pc[x] \in {"wait_schedule", "waited"} /\ WaitOk(x)
    BY DEF IInv, PcInv, TreeInv, WaitInv
  <2>2. x # p /\ x # c /\ waitpid'[x] = waitpid[x]
    BY <1>1, <1>2, <1>3, <2>1, TreeTypes
  <2>3. HasSomebody(x)'
    <3>1. CASE waitpid[x] = NULL
      BY <1>4, <2>1, <2>2, <3>1 DEF WaitOk, HasSomebody
    <3>2. CASE waitpid[x] # NULL
      <4>1. waitpid[x] \in All \cap proc_list /\ parent[waitpid[x]] = x
        BY <2>1, <3>2, TreeTypes, Names DEF WaitOk, HasSomebody
      <4> QED BY <1>2, <1>4, <2>2, <3>2, <4>1 DEF HasSomebody
    <3> QED BY <3>1, <3>2
  <2>4. ASSUME NEW d \in proc_list', Awaited(x, d)' PROVE FALSE
    <3>1. d \in proc_list /\ d # c /\ d \in All
      BY <1>4, LiveFacts
    <3>2. Awaited(x, d)
      BY <1>3, <1>4, <2>2, <2>4, <3>1, TreeTypes DEF Awaited
    <3> QED BY <1>1, <2>1, <3>1, <3>2 DEF WaitOk
  <2> QED BY <2>3, <2>4
<1>17. QuitInv'
  <2>1. pc'[initproc] = "init_quit" => pc[initproc] = "init_quit"
    BY <1>2, <1>5, Names
  <2> QED BY <1>2, <2>1 DEF TreeInv, QuitInv
<1>18. FreeInv'
  BY <1>4, <1>6 DEF TreeInv, FreeInv
<1> QED BY <1>9, <1>10, <1>11, <1>12, <1>13, <1>14, <1>15, <1>16, <1>17, <1>18
        DEF TreeInv

(* What do_exit is about to hand over: the youngest child of a process that *)
(* is neither initproc nor idleproc.                                        *)
LEMMA OrphanFacts ==
    ASSUME IInv, TreeInv, NEW p \in Procs \cup {initproc}, current = p,
           pc[p] = "exit_reparent", cptr[p] # NULL
    PROVE  /\ p # initproc /\ p # idleproc /\ p \in Live
           /\ cptr[p] \in proc_list /\ parent[cptr[p]] = p
           /\ cptr[p] # initproc /\ cptr[p] # idleproc /\ cptr[p] # NULL
<1>1. p # initproc /\ p # idleproc /\ p \in Live
  BY LiveFacts, Names DEF TreeInv, RootInv, InitPc
<1>2. cptr[p] \in proc_list /\ parent[cptr[p]] = p
  BY <1>1, FamilyFacts DEF Children
<1>3. cptr[p] # initproc /\ cptr[p] # idleproc
  BY <1>1, <1>2, LiveFacts, Names DEF TreeInv, RootInv
<1> QED BY <1>1, <1>2, <1>3

(* do_exit hands one child over to initproc.                                *)
LEMMA ExitReparentTree ==
    ASSUME IInv, IInv', TreeInv, NEW p \in Procs \cup {initproc}, ExitReparent(p)
    PROVE  TreeInv'
<1> DEFINE c == cptr[p]
           h == cptr[initproc]
<1>1. /\ current = p /\ current' = p /\ pc[p] = "exit_reparent" /\ p \in All
      /\ UNCHANGED <<pc, walk, waitpid, proc_list, nr_process>>
  BY Names DEF ExitReparent, At
<1>2. /\ p # initproc /\ p # idleproc /\ p \in Live
      /\ c \in proc_list /\ c \in All /\ parent[c] = p
      /\ c # initproc /\ c # idleproc /\ c # NULL
  BY <1>1, OrphanFacts, LiveFacts DEF ExitReparent
<1>3. initproc \in Live /\ pc[initproc] \in InitPc /\ parent[initproc] = idleproc
      /\ waitpid[initproc] = NULL
  BY LiveFacts, Names DEF TreeInv, RootInv
<1>4. h \in Children(initproc) \cup {NULL}
  BY <1>3, FamilyFacts
<1>5. /\ \A d \in All : parent'[d] = IF d = c THEN initproc ELSE parent[d]
      /\ \A d \in All : optr'[d] = IF d = c THEN h ELSE optr[d]
      /\ \A d \in All : yptr'[d] = IF d = c THEN NULL ELSE IF d = h THEN c ELSE yptr[d]
      /\ cptr'[p] = optr[c] /\ cptr'[initproc] = c
      /\ \A x \in All : x # p /\ x # initproc => cptr'[x] = cptr[x]
  <2>1. /\ parent \in [All -> All \cup {NULL}] /\ cptr \in [All -> All \cup {NULL}]
        /\ optr \in [All -> All \cup {NULL}]
    BY TreeTypes
  <2> QED BY <1>1, <1>2, <2>1, Names DEF ExitReparent
<1>6. /\ \A x \in All : wait_state'[x] = "WT_CHILD" => wait_state[x] = "WT_CHILD"
      /\ state[c] = "ZOMBIE" => wait_state'[initproc] # "WT_CHILD"
  <2>1. CASE WakesInit(c)
    BY <2>1, WakeupWaits, Names DEF ExitReparent
  <2>2. CASE ~WakesInit(c)
    BY <2>2 DEF ExitReparent, WakesInit
  <2> QED BY <2>1, <2>2
<1> HIDE DEF c, h
<1>7. \A x \in All : /\ state'[x] = "FREE" <=> state[x] = "FREE"
                     /\ state'[x] = "ZOMBIE" <=> state[x] = "ZOMBIE"
  BY <1>1 DEF IInv, PcInv
<1>8. \A x \in All : x # p => pc[x] \in OffCpu
  BY <1>1 DEF TreeInv, OffCpuInv
<1>9. Live' = Live
  BY <1>1 DEF Live
<1>10. /\ Children(p)' = Children(p) \ {c}
       /\ Children(initproc)' = Children(initproc) \cup {c} /\ c \notin Children(initproc)
       /\ \A x \in All : x # p /\ x # initproc => Children(x)' = Children(x)
  <2>1. proc_list \subseteq All
    BY LiveFacts
  <2> QED BY <1>1, <1>2, <1>5, <2>1 DEF Children
<1>11. OffCpuInv'
  BY <1>1 DEF TreeInv, OffCpuInv
<1>12. ListedInv'
  BY <1>1, <1>7, Names DEF TreeInv, ListedInv
<1>13. RootInv'
  <2>1. idleproc # c /\ idleproc # h
    BY <1>2, <1>4, LiveFacts, Names DEF Children
  <2>2. \A d \in All : parent'[d] = idleproc <=> d = initproc
    BY <1>2, <1>5, Names DEF TreeInv, RootInv
  <2> QED BY <1>1, <1>3, <1>5, <2>1, <2>2, Names DEF TreeInv, RootInv
<1>14. HomeInv'
  <2> SUFFICES ASSUME NEW d \in proc_list
               PROVE  parent'[d] \in Live /\ pc[parent'[d]] \notin {"exit_schedule", "dead"}
    BY <1>1, <1>9 DEF HomeInv
  <2>1. /\ d \in All /\ parent[d] \in Live /\ parent[d] \in All
        /\ pc[parent[d]] \notin {"exit_schedule", "dead"}
    BY LiveFacts DEF TreeInv, HomeInv
  <2> QED BY <1>3, <1>5, <2>1 DEF InitPc
<1>15. AcyclicInv'
  <2> SUFFICES ASSUME NEW T \in SUBSET proc_list, T # {}
               PROVE  \E d \in T : parent'[d] \notin T
    BY <1>1 DEF AcyclicInv
  <2>1. T \subseteq All /\ idleproc \notin T
    BY LiveFacts
  <2>2. CASE initproc \in T
    BY <2>1, <2>2, <1>2, <1>3, <1>5
  <2>3. CASE initproc \notin T
    <3>1. PICK d \in T : parent[d] \notin T
      BY DEF TreeInv, AcyclicInv
    <3> QED BY <2>1, <2>3, <3>1, <1>5
  <2> QED BY <2>2, <2>3
<1>16. FamilyInv'
  <2>1. \A x \in Live : pc[x] # "wait_scan"
    BY <1>1, <1>8, LiveFacts DEF OffCpu
  <2> SUFFICES ASSUME NEW x \in Live
               PROVE  \E r \in Seq(proc_list) :
                         Chain(r, Children(x)', cptr'[x], optr', yptr', Loose(x)')
    BY <1>1, <1>9, <2>1 DEF FamilyInv, Scanned, Family
  <2>2. PICK q \in Seq(proc_list) : Chain(q, Children(x), cptr[x], optr, yptr, Loose(x))
    BY FamilyFacts DEF Family
  <2>3. \A d \in Children(x) : d \in All /\ d # NULL /\ parent[d] = x
    BY LiveFacts DEF Children
  <2>4. CASE x = p
    <3>1. Loose(p) = proc_list /\ Loose(p)' = proc_list /\ c \in Children(p)
          /\ NULL \notin Children(p)
      BY <1>1, <1>2, <2>3, <2>4 DEF Loose, Children
    <3>2. \A d \in Children(p) \ {c} : optr'[d] = optr[d] /\ yptr'[d] = yptr[d]
      <4>1. \A d \in Children(p) : d # h
        BY <1>2, <1>4, <2>3, <2>4 DEF Children
      <4> QED BY <1>5, <2>3, <2>4, <4>1
    <3>3. \E r \in Seq(proc_list) :
             Chain(r, Children(p) \ {c}, optr[c], optr', yptr', proc_list)
      <4>1. Chain(q, Children(p), c, optr, yptr, proc_list)
        BY <2>2, <2>4, <3>1 DEF c
      <4>2. c \in proc_list
        BY <1>2
      <4> QED BY <3>1, <3>2, <4>1, <4>2, ChainTail
    <3> QED BY <2>4, <3>1, <3>3, <1>5, <1>10
  <2>5. CASE x = initproc
    <3>1. Chain(q, Children(initproc), h, optr, yptr, Loose(initproc))
      BY <2>2, <2>5 DEF h
    <3>2. Pushed(Children(initproc), h, optr, yptr, c, optr', yptr')
      BY <1>2, <1>5, <1>10, <2>3, <2>5 DEF Pushed
    <3>3. \E r \in Seq(proc_list) :
             Chain(r, Children(initproc) \cup {c}, c, optr', yptr', Loose(initproc)')
      BY <1>2, <3>1, <3>2, ChainPush
    <3> QED BY <2>5, <3>3, <1>5, <1>10
  <2>6. CASE x # p /\ x # initproc
    <3>1. Loose(x) = {} /\ x \in All
      BY <2>6, <1>8, LiveFacts DEF Loose, OffCpu
    <3>2. \A d \in Children(x) : optr'[d] = optr[d] /\ yptr'[d] = yptr[d]
      <4>1. \A d \in Children(x) : d # h /\ d # c
        BY <1>2, <1>4, <2>3, <2>6 DEF Children
      <4> QED BY <1>5, <2>3, <4>1
    <3>3. Chain(q, Children(x), cptr[x], optr', yptr', Loose(x)')
      BY <2>2, <3>1, <3>2, ChainSame
    <3> QED BY <2>6, <3>1, <3>3, <1>5, <1>10
  <2> QED BY <2>4, <2>5, <2>6
<1>17. WalkInv'
  <2>1. \A x \in All : walk[x] = NULL
    BY <1>1 DEF TreeInv, WalkInv, WalkOk
  <2> QED BY <1>1, <2>1 DEF WalkInv, WalkOk
<1>18. WaitInv'
  <2> SUFFICES ASSUME NEW x \in All, wait_state'[x] = "WT_CHILD"
               PROVE  /\ HasSomebody(x)'
                      /\ \A d \in proc_list : ~Awaited(x, d)'
    BY <1>1, <1>8 DEF WaitInv, WaitOk, OffCpu
  <2>1. wait_state[x] = "WT_CHILD" /\ WaitOk(x) /\ x # p
    BY <1>1, <1>6 DEF IInv, PcInv, TreeInv, WaitInv
  <2>2. HasSomebody(x)'
    <3>1. CASE waitpid[x] = NULL
      BY <1>1, <1>2, <1>5, <2>1, <3>1 DEF WaitOk, HasSomebody
    <3>2. CASE waitpid[x] # NULL
      <4>1. waitpid[x] \in All \cap proc_list /\ parent[waitpid[x]] = x
        BY <2>1, <3>2, TreeTypes, Names DEF WaitOk, HasSomebody
      <4> QED BY <1>1, <1>2, <1>5, <2>1, <3>2, <4>1 DEF HasSomebody
    <3> QED BY <3>1, <3>2
  <2>3. ASSUME NEW d \in proc_list, Awaited(x, d)' PROVE FALSE
    <3>1. d \in All
      BY LiveFacts
    <3>2. d # c
      <4> SUFFICES ASSUME d = c PROVE FALSE
        OBVIOUS
      <4>1. x = initproc /\ state[c] = "ZOMBIE"
        BY <1>5, <1>7, <2>3, <3>1 DEF Awaited
      <4> QED BY <1>6, <4>1
    <3>3. Awaited(x, d)
      BY <1>1, <1>5, <1>7, <2>3, <3>1, <3>2 DEF Awaited
    <3> QED BY <1>1, <2>1, <3>3 DEF WaitOk
  <2> QED BY <2>2, <2>3
<1>19. QuitInv'
  BY <1>1 DEF TreeInv, QuitInv
<1>20. FreeInv'
  BY <1>2, <1>5, <1>9, LiveFacts DEF TreeInv, FreeInv
<1> QED BY <1>11, <1>12, <1>13, <1>14, <1>15, <1>16, <1>17, <1>18, <1>19, <1>20
        DEF TreeInv

(* do_fork links a new youngest child.                                      *)
LEMMA ForkTree ==
    ASSUME IInv, IInv', TreeInv, CopyFilesFails = FALSE,
           NEW p \in Procs \cup {initproc}, NEW c \in Procs,
           do_fork(p, c), current = p, pc[p] \in {"user", "boot"},
           NEW l \in {"user", "kthread"}, NEW m \in {"trapret", "boot"},
           pc[p] = "boot" => m = "boot",
           pc' = [pc EXCEPT ![c] = l, ![p] = m]
    PROVE  TreeInv'
<1> DEFINE h == cptr[p]
<1>1. /\ p \in All /\ p # idleproc /\ c \in All /\ c # initproc /\ c # idleproc /\ c # NULL
      /\ p \in Live /\ c \notin proc_list /\ c \notin Live /\ c # p
  BY Names, LiveFacts DEF do_fork, Live
<1>2. /\ current' = p /\ wait_state' = [wait_state EXCEPT ![c] = "0"]
      /\ state' = [state EXCEPT ![c] = "RUNNABLE"] /\ state[c] = "FREE"
      /\ waitpid' = [waitpid EXCEPT ![c] = NULL] /\ walk' = [walk EXCEPT ![c] = NULL]
      /\ proc_list' = proc_list \cup {c} /\ nr_process' = nr_process + 1
  BY DEF do_fork, set_links
<1>3. /\ \A d \in All : parent'[d] = IF d = c THEN p ELSE parent[d]
      /\ \A d \in All : optr'[d] = IF d = c THEN h ELSE optr[d]
      /\ \A d \in All : yptr'[d] = IF d = c THEN NULL ELSE IF d = h THEN c ELSE yptr[d]
      /\ cptr'[p] = c /\ cptr'[c] = NULL
      /\ \A x \in All : x # p /\ x # c => cptr'[x] = cptr[x]
  <2>1. /\ parent \in [All -> All \cup {NULL}] /\ cptr \in [All -> All \cup {NULL}]
        /\ optr \in [All -> All \cup {NULL}]
    BY TreeTypes
  <2> QED BY <1>1, <2>1 DEF do_fork, set_links
<1>4. /\ pc'[p] = m /\ pc'[c] = l /\ \A x \in All : x # p /\ x # c => pc'[x] = pc[x]
      /\ \A x \in All : x # p => pc[x] \in OffCpu
  BY <1>1, TreeTypes DEF TreeInv, OffCpuInv
<1>5. h \in Children(p) \cup {NULL}
  BY <1>1, FamilyFacts
<1> HIDE DEF h
<1>6. Live' = Live \cup {c}
  BY <1>2 DEF Live
<1>7. \A d \in proc_list : /\ d \in All /\ d # c /\ d # NULL /\ d # idleproc
                           /\ parent[d] \in Live /\ parent[d] \in All /\ parent[d] # c
  BY <1>1, LiveFacts
<1>8. /\ Children(p)' = Children(p) \cup {c} /\ c \notin Children(p)
      /\ Children(c)' = {}
      /\ \A x \in All : x # p /\ x # c => Children(x)' = Children(x)
  BY <1>1, <1>2, <1>3, <1>7 DEF Children
<1>9. OffCpuInv'
  BY <1>2, <1>4 DEF OffCpuInv, OffCpu
<1>10. ListedInv'
  <2>1. \A x \in Procs \cup {initproc} : x \in All /\ (state'[x] = "FREE" <=> x # c /\ state[x] = "FREE")
    BY <1>2, TreeTypes, Names
  <2>2. proc_list' = {x \in Procs \cup {initproc} : state'[x] # "FREE"}
    BY <1>2, <2>1 DEF TreeInv, ListedInv
  <2>3. IsFiniteSet(proc_list) /\ nr_process = Cardinality(proc_list) + 1
    BY DEF TreeInv, ListedInv
  <2>4. IsFiniteSet(proc_list') /\ Cardinality(proc_list') = Cardinality(proc_list) + 1
    BY <1>1, <1>2, <2>3, FS_AddElement
  <2>5. Cardinality(proc_list) \in Nat
    BY <2>3, FS_CardinalityType
  <2>6. nr_process' = Cardinality(proc_list') + 1
    BY <1>2, <2>3, <2>4, <2>5
  <2> QED BY <2>2, <2>4, <2>6 DEF ListedInv
<1>11. RootInv'
  <2>1. idleproc # h
    BY <1>5, <1>7, Names DEF Children
  <2>2. \A d \in All : parent'[d] = idleproc <=> d = initproc
    BY <1>1, <1>3 DEF TreeInv, RootInv
  <2>3. pc'[initproc] \in InitPc
    BY <1>1, <1>4, Names DEF TreeInv, RootInv, InitPc
  <2>4. waitpid'[initproc] = NULL
    BY <1>1, <1>2, TreeTypes, Names DEF TreeInv, RootInv
  <2> QED BY <1>1, <1>3, <2>1, <2>2, <2>3, <2>4, Names DEF TreeInv, RootInv
<1>12. HomeInv'
  <2> SUFFICES ASSUME NEW d \in proc_list \cup {c}
               PROVE  parent'[d] \in Live' /\ pc'[parent'[d]] \notin {"exit_schedule", "dead"}
    BY <1>2 DEF HomeInv
  <2>1. CASE d = c
    BY <2>1, <1>1, <1>3, <1>4, <1>6
  <2>2. CASE d # c
    <3>1. /\ d \in All /\ parent'[d] = parent[d] /\ parent[d] \in Live
          /\ parent[d] \in All /\ parent[d] # c
          /\ pc[parent[d]] \notin {"exit_schedule", "dead"}
      BY <2>2, <1>3, <1>7 DEF TreeInv, HomeInv
    <3> QED BY <3>1, <1>4, <1>6
  <2> QED BY <2>1, <2>2
<1>13. AcyclicInv'
  <2> SUFFICES ASSUME NEW T \in SUBSET (proc_list \cup {c}), T # {}
               PROVE  \E d \in T : parent'[d] \notin T
    BY <1>2 DEF AcyclicInv
  <2>1. CASE T \ {c} = {}
    BY <2>1, <1>1, <1>3
  <2>2. CASE T \ {c} # {}
    <3>1. PICK d \in T \ {c} : parent[d] \notin T \ {c}
      BY <2>2 DEF TreeInv, AcyclicInv
    <3>2. d \in proc_list
      BY <3>1
    <3> QED BY <3>1, <3>2, <1>3, <1>7
  <2> QED BY <2>1, <2>2
<1>14. FamilyInv'
  <2>1. \A x \in Live' : x \in All /\ pc'[x] # "wait_scan"
    BY <1>1, <1>4, <1>6, LiveFacts DEF OffCpu
  <2> SUFFICES ASSUME NEW x \in Live'
               PROVE  \E r \in Seq(proc_list') :
                         Chain(r, Children(x)', cptr'[x], optr', yptr', Loose(x)')
    BY <2>1 DEF FamilyInv, Scanned, Family
  <2>2. CASE x = c
    <3> DEFINE r == << >>
    <3>1. r \in Seq(proc_list') /\ Chain(r, {}, NULL, optr', yptr', Loose(x)')
      BY DEF Chain, Nth
    <3> HIDE DEF r
    <3> QED BY <2>2, <3>1, <1>3, <1>8
  <2>3. CASE x # c
    <3>1. x \in Live /\ x \in All
      BY <2>1, <2>3, <1>6
    <3>2. PICK q \in Seq(proc_list) : Chain(q, Children(x), cptr[x], optr, yptr, Loose(x))
      BY <3>1, FamilyFacts DEF Family
    <3>3. q \in Seq(proc_list')
      <4>1. \A i \in DOMAIN q : q[i] \in proc_list'
        BY <1>2
      <4> QED BY <4>1, SeqIn
    <3>4. \A d \in Children(x) : d \in All /\ d # NULL /\ d # c /\ parent[d] = x
      BY <1>7 DEF Children
    <3>5. CASE x = p
      <4>1. Chain(q, Children(p), h, optr, yptr, Loose(p))
        BY <3>2, <3>5 DEF h
      <4>2. Pushed(Children(p), h, optr, yptr, c, optr', yptr')
        BY <1>1, <1>3, <3>4, <3>5 DEF Pushed
      <4>3. c \in proc_list'
        BY <1>2
      <4>4. \E r \in Seq(proc_list') :
               Chain(r, Children(p) \cup {c}, c, optr', yptr', Loose(p)')
        BY <3>3, <4>1, <4>2, <4>3, ChainPush
      <4> QED BY <3>5, <4>4, <1>3, <1>8
    <3>6. CASE x # p
      <4>1. Loose(x) = {}
        BY <3>1, <3>6, <1>4 DEF Loose, OffCpu
      <4>2. \A d \in Children(x) : optr'[d] = optr[d] /\ yptr'[d] = yptr[d]
        <5>1. \A d \in Children(x) : d # h
          BY <1>5, <3>4, <3>6 DEF Children
        <5> QED BY <1>3, <3>4, <5>1
      <4>3. Chain(q, Children(x), cptr[x], optr', yptr', Loose(x)')
        BY <3>2, <4>1, <4>2, ChainSame
      <4> QED BY <2>3, <3>1, <3>3, <3>6, <4>3, <1>3, <1>8
    <3> QED BY <3>5, <3>6
  <2> QED BY <2>2, <2>3
<1>15. WalkInv'
  <2>1. \A x \in All : walk[x] = NULL
    BY DEF TreeInv, WalkInv, WalkOk
  <2>2. \A x \in All : walk'[x] = NULL
    BY <1>2, <2>1, TreeTypes
  <2> QED BY <2>2 DEF WalkInv, WalkOk
<1>16. WaitInv'
  <2> SUFFICES ASSUME NEW x \in All, wait_state'[x] = "WT_CHILD"
               PROVE  /\ HasSomebody(x)'
                      /\ \A d \in proc_list' : ~Awaited(x, d)'
    BY <1>4 DEF WaitInv, WaitOk, OffCpu
  <2>1. x # c /\ wait_state[x] = "WT_CHILD" /\ x # p
    BY <1>1, <1>2, TreeTypes DEF IInv, PcInv
  <2>2. waitpid'[x] = waitpid[x] /\ WaitOk(x)
    BY <1>2, <2>1, TreeTypes DEF TreeInv, WaitInv
  <2>3. HasSomebody(x)'
    BY <1>2, <1>3, <1>7, <2>1, <2>2 DEF WaitOk, HasSomebody
  <2>4. ASSUME NEW d \in proc_list', Awaited(x, d)' PROVE FALSE
    <3>1. d # c /\ d \in proc_list /\ d \in All
      BY <1>1, <1>2, <1>7, <2>4, TreeTypes DEF Awaited
    <3>2. Awaited(x, d)
      BY <1>2, <1>3, <2>2, <2>4, <3>1, TreeTypes DEF Awaited
    <3> QED BY <2>1, <2>2, <3>1, <3>2 DEF WaitOk
  <2> QED BY <2>3, <2>4
<1>17. QuitInv'
  <2> SUFFICES ASSUME pc'[initproc] = "init_quit" PROVE FALSE
    BY DEF QuitInv
  <2>1. p # initproc /\ pc[initproc] = "init_quit"
    BY <1>1, <1>4, Names
  <2>2. p \in proc_list
    BY <1>1 DEF Live
  <2> QED BY <2>1, <2>2 DEF TreeInv, QuitInv
<1>18. FreeInv'
  BY <1>3, <1>6 DEF TreeInv, FreeInv
<1> QED BY <1>9, <1>10, <1>11, <1>12, <1>13, <1>14, <1>15, <1>16, <1>17, <1>18
        DEF TreeInv

LEMMA SysForkTree ==
    ASSUME IInv, IInv', TreeInv, CopyFilesFails = FALSE,
           NEW p \in Procs \cup {initproc}, SysFork(p)
    PROVE  TreeInv'
<1>1. PICK c \in Procs : do_fork(p, c) /\ pc' = [pc EXCEPT ![c] = "user", ![p] = "trapret"]
  BY DEF SysFork
<1>2. current = p /\ pc[p] = "user"
  BY DEF SysFork, At
<1> QED BY <1>1, <1>2, ForkTree

LEMMA InitThreadTree ==
    ASSUME IInv, IInv', TreeInv, CopyFilesFails = FALSE, InitThread
    PROVE  TreeInv'
<1>1. current = initproc /\ pc[initproc] = "boot" /\ pc \in [All -> PC]
  BY TreeTypes DEF InitThread, At
<1>2. PICK c \in Procs : do_fork(initproc, c) /\ pc' = [pc EXCEPT ![c] = "kthread"]
  BY DEF InitThread
<1>3. pc' = [pc EXCEPT ![c] = "kthread", ![initproc] = "boot"]
  BY <1>1, <1>2, Names
<1> QED BY <1>1, <1>2, <1>3, ForkTree

-----------------------------------------------------------------------------
(* The tree is right in every state.                                        *)

LEMMA InitTree == Init => TreeInv
<1> SUFFICES ASSUME Init PROVE TreeInv
  OBVIOUS
<1>1. /\ pc[idleproc] = "idle" /\ pc[initproc] = "boot"
      /\ \A x \in All : x # idleproc /\ x # initproc => pc[x] = "free"
      /\ \A x \in All : state[x] = "FREE" <=> x \in Procs
      /\ current = idleproc /\ proc_list = {initproc} /\ nr_process = 2
      /\ \A x \in All : parent[x] = IF x = initproc THEN idleproc ELSE NULL
      /\ \A x \in All : cptr[x] = IF x = idleproc THEN initproc ELSE NULL
      /\ \A x \in All : /\ yptr[x] = NULL /\ optr[x] = NULL
                        /\ waitpid[x] = NULL /\ walk[x] = NULL /\ wait_state[x] = "0"
  BY Names DEF Init
<1>2. OffCpuInv
  BY <1>1 DEF OffCpuInv, OffCpu
<1>3. ListedInv
  <2>1. proc_list = {x \in Procs \cup {initproc} : state[x] # "FREE"}
    BY <1>1, Names
  <2>2. IsFiniteSet(proc_list) /\ Cardinality(proc_list) = 1
    BY <1>1, FS_Singleton
  <2> QED BY <1>1, <2>1, <2>2 DEF ListedInv
<1>4. RootInv /\ HomeInv /\ WalkInv /\ WaitInv /\ QuitInv
  <2>1. RootInv
    BY <1>1, Names DEF RootInv, InitPc
  <2>2. HomeInv
    BY <1>1, Names DEF HomeInv, Live
  <2>3. WalkInv
    BY <1>1 DEF WalkInv, WalkOk
  <2>4. WaitInv
    BY <1>1, Names DEF WaitInv, WaitOk
  <2>5. QuitInv
    BY <1>1 DEF QuitInv
  <2> QED BY <2>1, <2>2, <2>3, <2>4, <2>5
<1>5. AcyclicInv
  BY <1>1, Names DEF AcyclicInv
<1>6. FamilyInv
  <2> SUFFICES ASSUME NEW x \in Live
               PROVE  \E q \in Seq(proc_list) : Family(x, q) /\ Scanned(x, q)
    BY DEF FamilyInv
  <2>1. x \in {initproc, idleproc} /\ pc[x] \in {"boot", "idle"}
    BY <1>1 DEF Live
  <2>2. CASE x = initproc
    <3>1. Children(x) = {} /\ cptr[x] = NULL
      BY <1>1, <2>2, Names DEF Children
    <3> DEFINE q == << >>
    <3>2. q \in Seq(proc_list) /\ Chain(q, {}, NULL, optr, yptr, Loose(x))
      BY DEF Chain, Nth
    <3> HIDE DEF q
    <3> QED BY <2>1, <3>1, <3>2 DEF Family, Scanned
  <2>3. CASE x = idleproc
    <3>1. Children(x) = {initproc} /\ cptr[x] = initproc
      BY <1>1, <2>3, Names DEF Children
    <3> DEFINE q == <<initproc>>
    <3>2. q \in Seq(proc_list) /\ DOMAIN q = {1} /\ q[1] = initproc
      BY <1>1
    <3> HIDE DEF q
    <3>3. Nth(q, 1) = initproc /\ Nth(q, 1 + 1) = NULL /\ Nth(q, 1 - 1) = NULL
      BY <3>2 DEF Nth
    <3>4. {q[i] : i \in DOMAIN q} = {initproc}
      BY <3>2
    <3>5. optr[initproc] = NULL /\ yptr[initproc] = NULL
      BY <1>1, Names
    <3>6. Chain(q, {initproc}, initproc, optr, yptr, Loose(x))
      BY <3>2, <3>3, <3>4, <3>5 DEF Chain
    <3> QED BY <2>1, <3>1, <3>2, <3>6 DEF Family, Scanned
  <2> QED BY <2>1, <2>2, <2>3
<1>7. FreeInv
  BY <1>1 DEF FreeInv, Live
<1> QED BY <1>2, <1>3, <1>4, <1>5, <1>6, <1>7 DEF TreeInv

LEMMA NextTree ==
    ASSUME CopyFilesFails = FALSE, IInv, TreeInv, [Next]_vars
    PROVE  TreeInv'
<1>1. IInv'
  BY NextStepInv
<1>2. CASE UNCHANGED vars
  BY <1>1, <1>2, HaltedTree
<1>3. CASE Irq
  BY <1>1, <1>3, MovedByIrq, MovedStep
<1>4. CASE Idle
  BY <1>1, <1>4, MovedBySwitch, MovedStep, Names DEF Switch
<1>5. CASE InitStep
  <2>1. CASE InitThread
    BY <1>1, <2>1, InitThreadTree
  <2>2. CASE InitLoop
    BY <1>1, <2>2, MovedBySwitch, MovedStep, Names DEF Switch
  <2>3. CASE InitBooted \/ InitQuit
    <3>1. ~WaitRepeat(initproc) /\ ~WaitScan(initproc) /\ Quiet(initproc)
      BY <2>3 DEF Quiet, InitBooted, InitQuit, Step, At, WaitRepeat, WaitScan
    <3> QED BY <1>1, <3>1, MovedByQuiet, MovedStep
  <2> QED BY <1>5, <2>1, <2>2, <2>3 DEF InitStep
<1>6. ASSUME NEW p \in Procs \cup {initproc},
             UserStep(p) \/ Sleep(p) \/ Exec(p) \/ KernelStep(p)
      PROVE  TreeInv'
  <2>1. CASE SysFork(p)
    BY <1>1, <2>1, SysForkTree
  <2>2. CASE SysYield(p) \/ SysKill(p) \/ Sleep(p) \/ SleepReturn(p)
             \/ ExitWakeup(p) \/ ExitReparented(p)
    BY <1>1, <2>2, MovedByCall, MovedStep
  <2>3. CASE Switch(p)
    BY <1>1, <2>3, MovedBySwitch, MovedStep, Names
  <2>4. CASE WaitRepeat(p) \/ WaitScan(p) \/ WaitSleep(p) \/ WaitFound(p)
    BY <1>1, <2>4, WaitRepeatTree, WaitScanTree, WaitSleepTree, WaitFoundTree
  <2>5. CASE Quiet(p) /\ ~WaitRepeat(p) /\ ~WaitScan(p)
    BY <1>1, <2>5, MovedByQuiet, MovedStep
  <2>6. CASE Exit(p) \/ ExitReparent(p)
    BY <1>1, <2>6, ExitTree, ExitReparentTree
  <2> QED BY <1>6, <2>1, <2>2, <2>3, <2>4, <2>5, <2>6
          DEF UserStep, KernelStep, Quiet, Switch
<1> QED BY <1>2, <1>3, <1>4, <1>5, <1>6 DEF Next, Halted

(* Whatever forks, exits and waits come in whatever order, every live       *)
(* process is on one list of siblings, all parents lead to idleproc, and    *)
(* do_wait holds on to a child of its own only.                             *)
THEOREM TreeCorrect == ASSUME CopyFilesFails = FALSE PROVE Spec => [](IInv /\ TreeInv)
<1>1. Init => TreeInv
  BY InitTree
<1>2. IInv /\ TreeInv /\ [Next]_vars => TreeInv'
  BY NextTree
<1> QED BY <1>1, <1>2, Invariant, PTL DEF Spec

-----------------------------------------------------------------------------
(* What holds with it.                                                      *)

(* No wakeup is lost between do_exit and do_wait, wherever a kill, a timer  *)
(* or the hand-over of children comes in between.                           *)
THEOREM WakeupsKept == ASSUME CopyFilesFails = FALSE PROVE Spec => []NoLostWakeup
<1>1. IInv /\ TreeInv => NoLostWakeup
  BY DEF TreeInv, WaitInv, WaitOk, HasSomebody, Awaited, NoLostWakeup
<1> QED BY <1>1, TreeCorrect, PTL

(* No pointer of the CPU, the run queue, the timers, the relations or a     *)
(* walk of do_wait leads to a structure that do_wait has freed, and every   *)
(* process has a parent that can still wait for it.                         *)
THEOREM PointersLive == ASSUME CopyFilesFails = FALSE PROVE Spec => []NoDangling
<1>1. ASSUME IInv, TreeInv PROVE NoDangling
  <2> DEFINE live == {x \in All : state[x] # "FREE"}
  <2>1. live = Live
    <3>1. \A x \in All : state[x] = "FREE" <=> pc[x] = "free"
      BY <1>1 DEF IInv, PcInv
    <3> QED BY <1>1, <3>1, LiveFacts
  <2>2. {current} \cup Queued \cup {x \in All : Armed(x)} \subseteq Live
    <3>1. current \in Live
      BY <1>1, LiveFacts
    <3>2. Queued \subseteq Live
      <4> SUFFICES ASSUME NEW x \in Queued PROVE x \in Live
        OBVIOUS
      <4>1. x \in Procs \cup {initproc}
        BY <1>1 DEF IInv, TypeInv, ProcTypeOK, SchedTypeOK, Queued
      <4>2. x \in All \ {idleproc} /\ state[x] = "RUNNABLE"
        BY <1>1, <4>1, Names DEF IInv, QueueOk
      <4> QED BY <2>1, <4>2
    <3>3. \A x \in All : Armed(x) => x \in Live
      BY <1>1, LiveFacts DEF IInv, TimerOk
    <3> QED BY <3>1, <3>2, <3>3
  <2>3. ASSUME NEW x \in Live
        PROVE  {parent[x], cptr[x], yptr[x], optr[x], walk[x]} \subseteq Live \cup {NULL}
    <3>1. cptr[x] \in Live \cup {NULL} /\ walk[x] \in Live \cup {NULL}
      BY <1>1, LiveFacts, FamilyFacts DEF TreeInv, WalkInv, WalkOk, Children
    <3>2. CASE x = idleproc
      BY <1>1, <3>1, <3>2 DEF TreeInv, RootInv
    <3>3. CASE x # idleproc
      <4>1. x \in proc_list
        BY <3>3 DEF Live
      <4>2. parent[x] \in Live /\ x \in Children(parent[x])
        BY <1>1, <4>1, LiveFacts DEF Children
      <4>3. /\ optr[x] \in Children(parent[x]) \cup {NULL}
            /\ yptr[x] \in Children(parent[x]) \cup {NULL} \cup Loose(parent[x])
        BY <1>1, <4>2, KinFacts
      <4>4. Children(parent[x]) \subseteq Live /\ Loose(parent[x]) \subseteq Live
        BY <1>1, LiveFacts DEF Children, Loose
      <4> QED BY <3>1, <4>2, <4>3, <4>4
    <3> QED BY <3>2, <3>3
  <2>4. ASSUME NEW c \in proc_list, state[parent[c]] = "ZOMBIE"
        PROVE  parent[c] = current /\ pc[parent[c]] \in {"exit_wakeup", "exit_reparent"}
    <3>1. parent[c] \in All
      BY <1>1, LiveFacts
    <3>2. pc[parent[c]] \in ExitPc /\ pc[parent[c]] \notin {"exit_schedule", "dead"}
      BY <1>1, <2>4, <3>1 DEF IInv, PcInv, TreeInv, HomeInv
    <3> QED BY <1>1, <3>1, <3>2 DEF ExitPc, OffCpu, TreeInv, OffCpuInv
  <2> HIDE DEF live
  <2> QED BY <2>1, <2>2, <2>3, <2>4 DEF NoDangling, live
<1> QED BY <1>1, TreeCorrect, PTL

(* The walk along optr from the youngest child visits the list.             *)
Along(h, o, f) ==
    f = [n \in Nat |-> IF n = 0 THEN h
                       ELSE IF f[n - 1] = NULL THEN NULL ELSE o[f[n - 1]]]

LEMMA NthNext ==
    ASSUME NEW S, NEW q \in Seq(S), NULL \notin S, NEW K, NEW h, NEW o, NEW y, NEW w,
           Chain(q, K, h, o, y, w), NEW n \in Nat, n # 0
    PROVE  Nth(q, n + 1) = IF Nth(q, n) = NULL THEN NULL ELSE o[Nth(q, n)]
<1>1. DOMAIN q = 1..Len(q) /\ Len(q) \in Nat /\ \A i \in 1..Len(q) : q[i] \in S
  OBVIOUS
<1>2. CASE n \in 1..Len(q)
  BY <1>1, <1>2 DEF Nth, Chain
<1>3. CASE n \notin 1..Len(q)
  <2>1. n + 1 \notin 1..Len(q)
    BY <1>1, <1>3
  <2> QED BY <1>1, <1>3, <2>1 DEF Nth
<1> QED BY <1>2, <1>3

LEMMA AlongExists ==
    ASSUME NEW S, NEW q \in Seq(S), NULL \notin S, NEW K, NEW h, NEW o, NEW y, NEW w,
           Chain(q, K, h, o, y, w)
    PROVE  \E f : Along(h, o, f)
<1> DEFINE f == [n \in Nat |-> Nth(q, n + 1)]
<1>1. \A n \in Nat : f[n] = IF n = 0 THEN h
                            ELSE IF f[n - 1] = NULL THEN NULL ELSE o[f[n - 1]]
  <2> SUFFICES ASSUME NEW n \in Nat, n # 0
               PROVE  f[n] = IF f[n - 1] = NULL THEN NULL ELSE o[f[n - 1]]
    <3>1. f[0] = h
      BY DEF Chain
    <3> QED BY <3>1
  <2>1. n - 1 \in Nat /\ (n - 1) + 1 = n
    OBVIOUS
  <2>2. f[n] = Nth(q, n + 1) /\ f[n - 1] = Nth(q, n)
    BY <2>1
  <2> HIDE DEF f
  <2> QED BY <2>2, NthNext
<1>2. f = [n \in Nat |-> f[n]]
  OBVIOUS
<1> HIDE DEF f
<1>3. Along(h, o, f)
  BY <1>1, <1>2 DEF Along
<1> QED BY <1>3

LEMMA AlongIs ==
    ASSUME NEW S, NEW q \in Seq(S), NULL \notin S, NEW K, NEW h, NEW o, NEW y, NEW w,
           Chain(q, K, h, o, y, w), NEW f, Along(h, o, f)
    PROVE  \A n \in Nat : f[n] = Nth(q, n + 1)
<1> DEFINE T == {n \in Nat : f[n] = Nth(q, n + 1)}
<1>1. 0 \in T
  BY DEF Along, Chain
<1>2. ASSUME NEW n \in Nat, n \in T PROVE n + 1 \in T
  <2>1. n + 1 \in Nat /\ n + 1 # 0 /\ (n + 1) - 1 = n
    OBVIOUS
  <2>2. f[n + 1] = IF f[n] = NULL THEN NULL ELSE o[f[n]]
    BY <2>1 DEF Along
  <2>3. Nth(q, (n + 1) + 1) = IF Nth(q, n + 1) = NULL THEN NULL ELSE o[Nth(q, n + 1)]
    BY <2>1, NthNext
  <2> QED BY <1>2, <2>1, <2>2, <2>3
<1>3. Nat \subseteq T
  <2> HIDE DEF T
  <2> QED BY <1>1, <1>2, SetInduction
<1> QED BY <1>3

LEMMA NthChildIs ==
    ASSUME IInv, TreeInv, NEW p \in Live, NEW q \in Seq(proc_list), Family(p, q)
    PROVE  \A n \in Nat : NthChild(p)[n] = Nth(q, n + 1)
<1>1. NULL \notin proc_list /\ Chain(q, Children(p), cptr[p], optr, yptr, Loose(p))
  BY LiveFacts DEF Family
<1>2. \E f : Along(cptr[p], optr, f)
  BY <1>1, AlongExists
<1>3. Along(cptr[p], optr, NthChild(p))
  BY <1>2 DEF Along, NthChild
<1> QED BY <1>1, <1>3, AlongIs

(* A list of siblings is no longer than the list of all processes.          *)
LEMMA SiblingsFew ==
    ASSUME IInv, TreeInv, NEW p \in Live, NEW q \in Seq(proc_list), Family(p, q)
    PROVE  Len(q) \in Nat /\ nr_process \in Nat /\ Len(q) <= nr_process
<1>1. Len(q) \in Nat /\ DOMAIN q = 1..Len(q) /\ q \in [1..Len(q) -> proc_list]
  OBVIOUS
<1>2. IsFiniteSet(proc_list) /\ nr_process = Cardinality(proc_list) + 1
  BY DEF TreeInv, ListedInv
<1>3. q \in Injection(1..Len(q), proc_list)
  BY <1>1 DEF Family, Chain, Injection, IsInjective
<1>4. Cardinality(1..Len(q)) <= Cardinality(proc_list)
  BY <1>2, <1>3, FS_Injection
<1>5. Cardinality(1..Len(q)) = Len(q)
  BY <1>1, FS_Interval
<1>6. Cardinality(proc_list) \in Nat
  BY <1>2, FS_CardinalityType
<1> QED BY <1>1, <1>2, <1>4, <1>5, <1>6

(* The links of the children of one process, but for the yptr of the        *)
(* youngest while do_exit hands them over.                                  *)
LEMMA ListOk ==
    ASSUME IInv, TreeInv, NEW p \in Live, pc[p] # "exit_reparent"
    PROVE  /\ \A c \in Children(p) : \E n \in 0..nr_process : NthChild(p)[n] = c
           /\ cptr[p] # NULL => parent[cptr[p]] = p /\ yptr[cptr[p]] = NULL
           /\ \A c \in Children(p) : optr[c] # NULL =>
                 parent[optr[c]] = p /\ yptr[optr[c]] = c
<1>1. PICK q \in Seq(proc_list) : Family(p, q)
  BY FamilyFacts
<1>2. Chain(q, Children(p), cptr[p], optr, yptr, {})
  BY <1>1 DEF Family, Loose
<1>3. DOMAIN q = 1..Len(q) /\ Len(q) \in Nat /\ {q[i] : i \in 1..Len(q)} = Children(p)
  BY <1>2 DEF Chain
<1>4. NULL \notin Children(p) /\ \A d \in Children(p) : parent[d] = p
  BY LiveFacts DEF Children
<1>5. \A i \in 1..Len(q) : optr[q[i]] = Nth(q, i + 1) /\ yptr[q[i]] = Nth(q, i - 1)
  BY <1>2, <1>3 DEF Chain
<1>6. ASSUME NEW c \in Children(p) PROVE \E n \in 0..nr_process : NthChild(p)[n] = c
  <2>1. PICK i \in 1..Len(q) : q[i] = c
    BY <1>3
  <2>2. i - 1 \in 0..nr_process /\ i - 1 \in Nat /\ (i - 1) + 1 = i
    BY <1>1, <1>3, SiblingsFew
  <2>3. NthChild(p)[i - 1] = Nth(q, (i - 1) + 1)
    BY <1>1, <2>2, NthChildIs
  <2> QED BY <1>3, <2>1, <2>2, <2>3 DEF Nth
<1>7. ASSUME cptr[p] # NULL PROVE parent[cptr[p]] = p /\ yptr[cptr[p]] = NULL
  <2>1. cptr[p] = Nth(q, 1)
    BY <1>2 DEF Chain
  <2>2. 1 \in 1..Len(q) /\ cptr[p] = q[1]
    BY <1>3, <1>7, <2>1 DEF Nth
  <2>3. Nth(q, 1 - 1) = NULL
    BY <1>3 DEF Nth
  <2> QED BY <1>3, <1>4, <1>5, <2>2, <2>3
<1>8. ASSUME NEW c \in Children(p), optr[c] # NULL
      PROVE  parent[optr[c]] = p /\ yptr[optr[c]] = c
  <2>1. PICK i \in 1..Len(q) : q[i] = c
    BY <1>3
  <2>2. i + 1 \in 1..Len(q) /\ optr[c] = q[i + 1] /\ (i + 1) - 1 = i
    BY <1>3, <1>5, <1>8, <2>1 DEF Nth
  <2>3. yptr[q[i + 1]] = Nth(q, (i + 1) - 1)
    BY <1>5, <2>2
  <2>4. Nth(q, i) = c
    BY <1>3, <2>1 DEF Nth
  <2> QED BY <1>3, <1>4, <2>2, <2>3, <2>4
<1> QED BY <1>6, <1>7, <1>8

(* set_links, remove_links and the hand-over in do_exit keep the children   *)
(* of every process in one doubly linked list, and the assertions at the    *)
(* end of init_main hold.                                                   *)
THEOREM RelationsCorrect == ASSUME CopyFilesFails = FALSE PROVE Spec => []RelationsOk
<1>1. ASSUME IInv, TreeInv PROVE RelationsOk
  <2>1. ASSUME pc[current] # "exit_reparent", NEW p \in Live
        PROVE  pc[p] # "exit_reparent"
    BY <1>1, <2>1, LiveFacts DEF TreeInv, OffCpuInv, OffCpu
  <2>2. ASSUME pc[initproc] = "init_quit"
        PROVE  /\ cptr[initproc] = NULL /\ yptr[initproc] = NULL /\ optr[initproc] = NULL
               /\ nr_process = 2 /\ proc_list = {initproc}
    <3>1. proc_list = {initproc}
      BY <1>1, <2>2 DEF TreeInv, QuitInv
    <3>2. nr_process = 2
      BY <1>1, <3>1, FS_Singleton DEF TreeInv, ListedInv
    <3>3. parent[initproc] = idleproc /\ initproc \in Live /\ idleproc \in Live
      BY <1>1, LiveFacts, Names DEF TreeInv, RootInv, Live
    <3>4. Children(initproc) = {} /\ Children(idleproc) = {initproc}
      BY <3>1, <3>3, Names DEF Children
    <3>5. cptr[initproc] = NULL
      BY <1>1, <3>3, <3>4, FamilyFacts
    <3>6. pc[idleproc] # "exit_reparent"
      BY <1>1, Names DEF IInv, FixedInv
    <3>7. cptr[idleproc] = initproc
      BY <1>1, <3>3, <3>4, FamilyFacts
    <3>8. yptr[initproc] = NULL
      BY <1>1, <3>3, <3>6, <3>7, ListOk, Names
    <3>9. optr[initproc] = NULL
      <4>1. optr[initproc] \in {initproc, NULL}
        BY <1>1, <3>3, <3>4, KinFacts
      <4>2. optr[initproc] # NULL => yptr[optr[initproc]] = initproc
        BY <1>1, <3>3, <3>4, <3>6, ListOk
      <4> QED BY <3>8, <4>1, <4>2, Names
    <3> QED BY <3>1, <3>2, <3>5, <3>8, <3>9
  <2>3. ASSUME pc[current] # "exit_reparent", NEW p \in proc_list \cup {idleproc}
        PROVE  /\ \A c \in Children(p) : \E n \in 0..nr_process : NthChild(p)[n] = c
               /\ cptr[p] # NULL => parent[cptr[p]] = p /\ yptr[cptr[p]] = NULL
               /\ \A c \in Children(p) : optr[c] # NULL =>
                     parent[optr[c]] = p /\ yptr[optr[c]] = c
    <3>1. p \in Live
      BY DEF Live
    <3> QED BY <1>1, <2>1, <2>3, <3>1, ListOk
  <2> QED BY <2>2, <2>3 DEF RelationsOk
<1> QED BY <1>1, TreeCorrect, PTL

-----------------------------------------------------------------------------
(* The life cycle: do_fork, do_exit and the end of do_wait are Create, Die  *)
(* and Reap of ProcLife, every other step changes nothing that it shows.    *)

Lives == [x \in All |-> LifeOf(x)]
Pars == [x \in All |-> ParentOf(x)]

Same == Lives' = Lives /\ Pars' = Pars

Creates(p, c) ==
    /\ Lives[p] = "alive" /\ Lives[c] = "none"
    /\ Lives' = [Lives EXCEPT ![c] = "alive"]
    /\ Pars' = [Pars EXCEPT ![c] = p]

Dies(p) ==
    /\ p \in Procs /\ Lives[p] = "alive"
    /\ Lives' = [Lives EXCEPT ![p] = "zombie"]
    /\ Pars' = [x \in All |-> IF Pars[x] = p THEN initproc ELSE Pars[x]]

Reaps(p, c) ==
    /\ Lives[p] = "alive" /\ Lives[c] = "zombie" /\ Pars[c] = p
    /\ Lives' = [Lives EXCEPT ![c] = "none"]
    /\ Pars' = [Pars EXCEPT ![c] = NULL]

(* Who is dead and who is there stays.                                      *)
Still ==
    \A x \in All : /\ state'[x] = "FREE" <=> state[x] = "FREE"
                   /\ state'[x] = "ZOMBIE" <=> state[x] = "ZOMBIE"

LEMMA StillLife ==
    ASSUME IInv, IInv', Still, UNCHANGED parent
    PROVE  Same
<1>1. \A x \in All : LifeOf(x)' = LifeOf(x)
  BY DEF Still, LifeOf
<1>2. \A x \in All : ParentOf(x)' = ParentOf(x)
  <2> TAKE x \in All
  <2>1. parent[x] \in All \cup {NULL}
    BY TreeTypes
  <2> QED BY <2>1 DEF Still, ParentOf
<1> QED BY <1>1, <1>2 DEF Same, Lives, Pars

LEMMA MovedLife ==
    ASSUME IInv, IInv', NEW m, Moved(m)
    PROVE  Same
<1>1. /\ pc'[current] = m /\ \A x \in All : x # current => pc'[x] = pc[x]
  BY TreeTypes DEF Moved
<1>2. \A x \in All : /\ pc'[x] = "free" <=> pc[x] = "free"
                     /\ pc'[x] \in ExitPc <=> pc[x] \in ExitPc
  BY <1>1 DEF Moved, IInv, CurrentInv
<1>3. Still
  BY <1>2 DEF Still, IInv, PcInv
<1> QED BY <1>3, StillLife DEF Moved, linkVars

(* do_wait up to the child that it finds.                                   *)
LEMMA WalksLife ==
    ASSUME IInv, IInv', NEW p \in Procs \cup {initproc},
           WaitRepeat(p) \/ WaitScan(p) \/ WaitSleep(p)
    PROVE  Same
<1>1. parent' = parent
  BY DEF WaitRepeat, WaitScan, WaitSleep, linkVars
<1>2. CASE WaitRepeat(p) \/ WaitScan(p)
  <2>1. Still
    BY <1>2 DEF Still, WaitRepeat, WaitScan, schedVars
  <2> QED BY <1>1, <2>1, StillLife
<1>3. CASE WaitSleep(p)
  <2>1. p \in All /\ state[p] # "FREE" /\ state[p] # "ZOMBIE"
    BY <1>3, Names DEF WaitSleep, Step, At, IInv, PcInv, ExitPc
  <2>2. Still
    BY <1>3, <2>1, TreeTypes DEF Still, WaitSleep
  <2> QED BY <1>1, <2>2, StillLife
<1> QED BY <1>2, <1>3

(* A process that is handed over had initproc as its parent already: its    *)
(* old parent is a zombie.                                                  *)
LEMMA ReparentLife ==
    ASSUME IInv, IInv', TreeInv, NEW p \in Procs \cup {initproc}, ExitReparent(p)
    PROVE  Same
<1> DEFINE c == cptr[p]
<1>1. current = p /\ pc[p] = "exit_reparent" /\ pc' = pc /\ p \in All
  BY Names DEF ExitReparent, At
<1>2. /\ c \in All /\ parent[c] = p /\ p # NULL /\ initproc # NULL
      /\ parent' = [parent EXCEPT ![c] = initproc]
  BY <1>1, OrphanFacts, LiveFacts, Names DEF ExitReparent
<1> HIDE DEF c
<1>3. Still
  BY <1>1 DEF Still, IInv, PcInv
<1>4. state[p] = "ZOMBIE" /\ state'[initproc] # "ZOMBIE"
  BY <1>1, Names DEF IInv, PcInv, FixedInv, ExitPc
<1>5. \A x \in All : ParentOf(x)' = ParentOf(x)
  <2> TAKE x \in All
  <2>1. parent[x] \in All \cup {NULL} /\ parent'[x] = IF x = c THEN initproc ELSE parent[x]
    BY <1>2, TreeTypes
  <2> QED BY <1>2, <1>3, <1>4, <2>1 DEF Still, ParentOf
<1>6. \A x \in All : LifeOf(x)' = LifeOf(x)
  BY <1>3 DEF Still, LifeOf
<1> QED BY <1>5, <1>6 DEF Same, Lives, Pars

LEMMA ExitLife ==
    ASSUME IInv, IInv', TreeInv, NEW p \in Procs \cup {initproc}, Exit(p)
    PROVE  Same \/ Dies(p)
<1>1. pc[p] = "exit" /\ p \in All /\ parent' = parent
  BY Names DEF Exit, At, linkVars
<1>2. CASE p = initproc
  <2>1. Still
    BY <1>2 DEF Exit, Still
  <2> QED BY <1>1, <2>1, StillLife
<1>3. CASE p # initproc
  <2>1. p \in Procs /\ state' = [state EXCEPT ![p] = "ZOMBIE"]
    BY <1>3 DEF Exit
  <2>2. state[p] # "FREE" /\ state[p] # "ZOMBIE"
    BY <1>1 DEF IInv, PcInv, ExitPc
  <2>3. /\ state'[p] = "ZOMBIE" /\ \A x \in All : x # p => state'[x] = state[x]
    BY <1>1, <2>1, TreeTypes
  <2>4. \A x \in All : LifeOf(x)' = IF x = p THEN "zombie" ELSE LifeOf(x)
    BY <2>3 DEF LifeOf
  <2>5. \A x \in All : ParentOf(x)' = IF ParentOf(x) = p THEN initproc ELSE ParentOf(x)
    <3> TAKE x \in All
    <3>1. parent[x] \in All \cup {NULL} /\ p # NULL
      BY <1>1, TreeTypes, Names
    <3> QED BY <1>1, <1>3, <2>2, <2>3, <3>1 DEF ParentOf
  <2>6. LifeOf(p) = "alive"
    BY <2>2 DEF LifeOf
  <2> QED BY <1>1, <2>1, <2>4, <2>5, <2>6 DEF Dies, Lives, Pars
<1> QED BY <1>2, <1>3

LEMMA ForkLife ==
    ASSUME IInv, TreeInv, CopyFilesFails = FALSE,
           NEW p \in Procs \cup {initproc}, NEW c \in Procs, do_fork(p, c),
           pc[p] \in {"user", "boot"}
    PROVE  Creates(p, c)
<1>1. p \in All /\ c \in All /\ p # NULL
  BY Names
<1>2. /\ state[c] = "FREE" /\ state' = [state EXCEPT ![c] = "RUNNABLE"]
      /\ parent' = [parent EXCEPT ![c] = p]
  BY DEF do_fork, set_links
<1>3. state[p] # "FREE" /\ state[p] # "ZOMBIE"
  BY <1>1 DEF IInv, PcInv, ExitPc
<1>4. \A x \in All : /\ state'[x] = IF x = c THEN "RUNNABLE" ELSE state[x]
                     /\ parent'[x] = IF x = c THEN p ELSE parent[x]
  BY <1>1, <1>2, TreeTypes
<1>5. \A x \in All : LifeOf(x)' = IF x = c THEN "alive" ELSE LifeOf(x)
  BY <1>4 DEF LifeOf
<1>6. \A x \in All : ParentOf(x)' = IF x = c THEN p ELSE ParentOf(x)
  <2> TAKE x \in All
  <2>1. parent[x] \in All \cup {NULL}
    BY TreeTypes
  <2> QED BY <1>1, <1>2, <1>3, <1>4, <2>1 DEF ParentOf
<1>7. LifeOf(p) = "alive" /\ LifeOf(c) = "none"
  BY <1>2, <1>3 DEF LifeOf
<1> QED BY <1>1, <1>5, <1>6, <1>7 DEF Creates, Lives, Pars

LEMMA ReapLife ==
    ASSUME IInv, TreeInv, NEW p \in Procs \cup {initproc}, WaitFound(p)
    PROVE  \E c \in All : Reaps(p, c)
<1> DEFINE c == walk[p]
<1>1. current = p /\ pc[p] = "wait_found" /\ p \in All /\ p # NULL
  BY Names DEF WaitFound, At
<1>2. /\ c \in Procs \cap proc_list /\ c \in All /\ parent[c] = p
      /\ c # initproc /\ c # idleproc
      /\ state[c] = "ZOMBIE" /\ Children(c) = {} /\ c # NULL
  BY <1>1, ReapFacts, Names
<1>3. state' = [state EXCEPT ![c] = "FREE"] /\ parent' = [parent EXCEPT ![c] = NULL]
  BY <1>2 DEF WaitFound, remove_links
<1> HIDE DEF c
<1>4. state[p] # "FREE" /\ state[p] # "ZOMBIE"
  BY <1>1 DEF IInv, PcInv, ExitPc
<1>5. \A x \in All : /\ state'[x] = IF x = c THEN "FREE" ELSE state[x]
                     /\ parent'[x] = IF x = c THEN NULL ELSE parent[x]
  BY <1>2, <1>3, TreeTypes
<1>6. \A x \in All : LifeOf(x)' = IF x = c THEN "none" ELSE LifeOf(x)
  BY <1>5 DEF LifeOf
<1>7. \A x \in All : ParentOf(x)' = IF x = c THEN NULL ELSE ParentOf(x)
  <2> TAKE x \in All
  <2>1. parent[x] \in All \cup {NULL}
    BY TreeTypes
  <2>2. parent[x] # c
    <3>1. CASE x \in proc_list
      BY <1>2, <3>1 DEF Children
    <3>2. CASE x \notin proc_list
      BY <1>2, <3>2 DEF TreeInv, RootInv, FreeInv, Live
    <3> QED BY <3>1, <3>2
  <2> QED BY <1>5, <2>1, <2>2 DEF ParentOf
<1>8. LifeOf(p) = "alive" /\ LifeOf(c) = "zombie" /\ ParentOf(c) = p
  BY <1>2, <1>4 DEF LifeOf, ParentOf
<1>9. Reaps(p, c)
  BY <1>1, <1>2, <1>6, <1>7, <1>8 DEF Reaps, Lives, Pars
<1> QED BY <1>2, <1>9

LEMMA LifeStep ==
    ASSUME CopyFilesFails = FALSE, IInv, IInv', TreeInv, [Next]_vars
    PROVE  Same \/ \E p, c \in All : Creates(p, c) \/ Dies(p) \/ Reaps(p, c)
<1>1. CASE UNCHANGED vars
  <2>1. Still /\ parent' = parent
    BY <1>1 DEF vars, schedVars, procVars, linkVars, Still
  <2> QED BY <2>1, StillLife
<1>2. CASE Irq
  BY <1>2, MovedByIrq, MovedLife
<1>3. CASE Idle
  BY <1>3, MovedBySwitch, MovedLife, Names DEF Switch
<1>4. CASE InitStep
  <2>1. CASE InitThread
    <3>1. PICK c \in Procs : do_fork(initproc, c)
      BY <2>1 DEF InitThread
    <3>2. pc[initproc] = "boot" /\ initproc \in All /\ c \in All
      BY <2>1, Names DEF InitThread, At
    <3> QED BY <3>1, <3>2, ForkLife
  <2>2. CASE InitLoop
    BY <2>2, MovedBySwitch, MovedLife, Names DEF Switch
  <2>3. CASE InitBooted \/ InitQuit
    <3>1. ~WaitRepeat(initproc) /\ ~WaitScan(initproc) /\ Quiet(initproc)
      BY <2>3 DEF Quiet, InitBooted, InitQuit, Step, At, WaitRepeat, WaitScan
    <3> QED BY <3>1, MovedByQuiet, MovedLife
  <2> QED BY <1>4, <2>1, <2>2, <2>3 DEF InitStep
<1>5. ASSUME NEW p \in Procs \cup {initproc},
             UserStep(p) \/ Sleep(p) \/ Exec(p) \/ KernelStep(p)
      PROVE  Same \/ \E c \in All : Creates(p, c) \/ Dies(p) \/ Reaps(p, c)
  <2>1. CASE SysFork(p)
    <3>1. PICK c \in Procs : do_fork(p, c)
      BY <2>1 DEF SysFork
    <3>2. pc[p] = "user" /\ c \in All
      BY <2>1, Names DEF SysFork, At
    <3> QED BY <3>1, <3>2, ForkLife
  <2>2. CASE SysYield(p) \/ SysKill(p) \/ Sleep(p) \/ SleepReturn(p)
             \/ ExitWakeup(p) \/ ExitReparented(p)
    BY <2>2, MovedByCall, MovedLife
  <2>3. CASE Switch(p)
    BY <2>3, MovedBySwitch, MovedLife, Names
  <2>4. CASE WaitRepeat(p) \/ WaitScan(p) \/ WaitSleep(p)
    BY <2>4, WalksLife
  <2>5. CASE Quiet(p) /\ ~WaitRepeat(p) /\ ~WaitScan(p)
    BY <2>5, MovedByQuiet, MovedLife
  <2>6. CASE ExitReparent(p)
    BY <2>6, ReparentLife
  <2>7. CASE Exit(p)
    BY <2>7, ExitLife, Names
  <2>8. CASE WaitFound(p)
    BY <2>8, ReapLife
  <2> QED BY <1>5, <2>1, <2>2, <2>3, <2>4, <2>5, <2>6, <2>7, <2>8
          DEF UserStep, KernelStep, Quiet, Switch
<1> QED BY <1>1, <1>2, <1>3, <1>4, <1>5, Names DEF Next, Halted

(* do_fork, do_exit and do_wait implement the life cycle of ProcLife: only  *)
(* the living fork, who ends passes its children on to initproc, and only   *)
(* the parent reaps, once.                                                  *)
THEOREM LifeCycle == ASSUME CopyFilesFails = FALSE PROVE Spec => ImplementsLife
<1>1. Init => Life!LifeInit
  <2> SUFFICES ASSUME Init PROVE Life!LifeInit
    OBVIOUS
  <2>1. /\ \A x \in All : state[x] = IF x \in Procs THEN "FREE" ELSE "RUNNABLE"
        /\ \A x \in All : parent[x] = IF x = initproc THEN idleproc ELSE NULL
    BY DEF Init
  <2>2. \A x \in All : LifeOf(x) = IF x \in Procs THEN "none" ELSE "alive"
    BY <2>1 DEF LifeOf
  <2>3. \A x \in All : ParentOf(x) = IF x = initproc THEN idleproc ELSE NULL
    BY <2>1, Names DEF ParentOf
  <2> QED BY <2>2, <2>3 DEF Life!LifeInit, Life!All, All
<1>2. ASSUME CopyFilesFails = FALSE
      PROVE IInv /\ IInv' /\ TreeInv /\ [Next]_vars => [Life!LifeNext]_(Life!lifeVars)
  <2> SUFFICES ASSUME IInv, IInv', TreeInv, [Next]_vars
               PROVE  Life!LifeNext \/ UNCHANGED Life!lifeVars
    OBVIOUS
  <2>1. UNCHANGED Life!lifeVars <=> Same
    BY DEF Life!lifeVars, Same, Lives, Pars
  <2>2. ASSUME NEW p \in All, NEW c \in All
        PROVE  /\ Life!Create(p, c) <=> Creates(p, c)
               /\ Life!Die(p) <=> Dies(p)
               /\ Life!Reap(p, c) <=> Reaps(p, c)
    BY DEF Life!Create, Life!Die, Life!Reap, Life!All, All, Creates, Dies, Reaps,
           Lives, Pars
  <2>3. Life!All = All
    BY DEF Life!All, All
  <2> QED BY <1>2, <2>1, <2>2, <2>3, LifeStep DEF Life!LifeNext
<1> QED BY <1>1, <1>2, TreeCorrect, PTL DEF Spec, ImplementsLife, Life!LifeSpec

=============================================================================
