------------------------------ MODULE ProcInv ------------------------------
(***************************************************************************)
(* The inductive invariant behind the safety of module Proc: the parts of  *)
(* ProcProps it proves, strengthened by what pc says about the other       *)
(* variables.  ProcProofs proves it.                                       *)
(***************************************************************************)
EXTENDS ProcProps, FiniteSets

ExitPc == {"exit_wakeup", "exit_reparent", "exit_schedule", "dead"}

(* No process of this module sleeps on a semaphore or on the keyboard.      *)
TypeInv ==
    /\ ProcTypeOK
    /\ wait_state \in [All -> {"0", "WT_CHILD", "WT_TIMER"}]

(* The state of a process follows from where it is.                         *)
PcInv ==
    \A p \in All :
        /\ state[p] = "FREE" <=> pc[p] = "free"
        /\ state[p] = "ZOMBIE" <=> pc[p] \in ExitPc
        /\ wait_state[p] = "WT_TIMER" => pc[p] \in {"sleep", "slept"}
        /\ wait_state[p] = "WT_CHILD" => pc[p] \in {"wait_schedule", "waited"}

(* The running process exists and has not left the CPU for good, is marked  *)
(* sleeping only right before schedule(), and only it can be about to free  *)
(* a zombie.                                                                *)
CurrentInv ==
    /\ pc[current] \notin {"free", "dead"}
    /\ state[current] = "SLEEPING" => pc[current] \in {"sleep", "wait_schedule"}
    /\ \A p \in All : pc[p] = "wait_found" =>
          p = current /\ walk[p] \in All /\ state[walk[p]] = "ZOMBIE"

(* idleproc always can run, initproc never ends.                            *)
FixedInv ==
    /\ state[idleproc] = "RUNNABLE"
    /\ \A p \in All : pc[p] = "idle" <=> p = idleproc
    /\ pc[initproc] \notin {"free"} \cup ExitPc

ParentInv == \A p \in All : pc[p] \notin {"free", "idle"} => parent[p] \in All

IrqInv == \A p \in expired : irq /\ expires[p] = 0

PanicOk == panic \in {"no", "initproc exit"}

IInv ==
    /\ TypeInv /\ QueueOk /\ WaitStateOk
    /\ PcInv /\ CurrentInv /\ FixedInv /\ ParentInv /\ IrqInv
    /\ TimerOk /\ PanicOk

-----------------------------------------------------------------------------
(* The process tree: what RelationsOk, NoDangling and NoLostWakeup need to  *)
(* be inductive.                                                            *)

(* Labels of a process that waits for the CPU.  Every other label is one    *)
(* of the current process: kernel code is not preempted.                    *)
OffCpu == {"free", "idle", "boot", "user", "kthread", "slept", "wait", "waited",
           "dead"}

OffCpuInv == \A p \in All : p # current => pc[p] \in OffCpu

(* proc_list links what is allocated, and nr_process counts it.             *)
ListedInv ==
    /\ proc_list = {p \in Procs \cup {initproc} : state[p] # "FREE"}
    /\ IsFiniteSet(proc_list)
    /\ nr_process = Cardinality(proc_list) + 1

Live == proc_list \cup {idleproc}

(* The root: initproc runs init_main only and is the one child of idleproc. *)
InitPc == {"boot", "wait", "wait_scan", "wait_sleep", "wait_schedule", "waited",
           "wait_found", "init_loop", "init_quit", "exit"}

RootInv ==
    /\ pc[initproc] \in InitPc
    /\ waitpid[initproc] = NULL
    /\ parent[idleproc] = NULL /\ yptr[idleproc] = NULL /\ optr[idleproc] = NULL
    /\ \A c \in All : parent[c] = idleproc <=> c = initproc

(* Everybody has a parent, one that has not left its loop over the children *)
(* in do_exit.                                                              *)
HomeInv ==
    \A c \in proc_list :
        parent[c] \in Live /\ pc[parent[c]] \notin {"exit_schedule", "dead"}

(* A structure that is not allocated has no parent.                         *)
FreeInv == \A c \in All \ Live : parent[c] = NULL

(* The parents of a set of processes are not all in the set: all lead to    *)
(* idleproc in the end.                                                     *)
AcyclicInv == \A T \in SUBSET proc_list : T # {} => \E c \in T : parent[c] \notin T

(* q is a list of the processes of K that starts at head and goes along o,  *)
(* with y leading back.  The y of the head may be one of loose instead.     *)
Nth(q, i) == IF i \in DOMAIN q THEN q[i] ELSE NULL

Chain(q, K, head, o, y, loose) ==
    /\ \A i, j \in DOMAIN q : q[i] = q[j] => i = j
    /\ {q[i] : i \in DOMAIN q} = K
    /\ head = Nth(q, 1)
    /\ \A i \in DOMAIN q :
          /\ o[q[i]] = Nth(q, i + 1)
          /\ y[q[i]] = Nth(q, i - 1) \/ (i = 1 /\ y[q[i]] \in loose)

(* The children of p from the youngest to the oldest.  While do_exit hands  *)
(* them over, the yptr of the youngest that is left still points to the one *)
(* handed over before.                                                      *)
Loose(p) == IF pc[p] = "exit_reparent" THEN proc_list ELSE {}

Family(p, q) == Chain(q, Children(p), cptr[p], optr, yptr, Loose(p))

(* do_wait has passed only children that are not zombies.                   *)
Scanned(p, q) ==
    pc[p] = "wait_scan" =>
        \E i \in 1..(Len(q) + 1) :
            /\ walk[p] = Nth(q, i)
            /\ \A j \in 1..(i - 1) : state[q[j]] # "ZOMBIE"

FamilyInv == \A p \in Live : \E q \in Seq(proc_list) : Family(p, q) /\ Scanned(p, q)

(* The local variable proc of do_wait is a child, and only while it runs.   *)
WalkOk(p) ==
    walk[p] # NULL =>
        /\ p = current /\ pc[p] \in {"wait_scan", "wait_sleep", "wait_found"}
        /\ walk[p] \in proc_list /\ parent[walk[p]] = p

WalkInv == \A p \in All : WalkOk(p)

(* NoLostWakeup for one process, and the same from the end of the walk.     *)
HasSomebody(p) ==
    IF waitpid[p] = NULL THEN cptr[p] # NULL
                         ELSE waitpid[p] \in proc_list /\ parent[waitpid[p]] = p

Awaited(p, c) == parent[c] = p /\ waitpid[p] \in {NULL, c} /\ state[c] = "ZOMBIE"

WaitOk(p) ==
    /\ pc[p] = "wait_scan" => waitpid[p] = NULL
    /\ pc[p] = "wait_sleep" \/ wait_state[p] = "WT_CHILD" => HasSomebody(p)
    /\ pc[p] = "wait_sleep" => \A c \in proc_list : ~Awaited(p, c)
    /\ wait_state[p] = "WT_CHILD" =>
          \A c \in proc_list : Awaited(p, c) => c = current /\ pc[c] = "exit_wakeup"

WaitInv == \A p \in All : WaitOk(p)

QuitInv == pc[initproc] = "init_quit" => proc_list = {initproc}

TreeInv ==
    /\ OffCpuInv /\ ListedInv /\ RootInv /\ HomeInv /\ FreeInv /\ AcyclicInv
    /\ FamilyInv /\ WalkInv /\ WaitInv /\ QuitInv

=============================================================================
