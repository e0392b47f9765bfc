----------------------------- MODULE ProcProps -----------------------------
(***************************************************************************)
(* What the processes of module Proc promise: safety, liveness, and two    *)
(* statements of the comments of proc.c that the code does not keep.       *)
(***************************************************************************)
EXTENDS Proc

-----------------------------------------------------------------------------
(* Safety.                                                                  *)

(* No wakeup is lost between do_exit and do_wait: a process asleep in       *)
(* do_wait has a child to wait for, and that child is not yet a zombie, or  *)
(* is in do_exit right before its wakeup_proc(parent).                      *)
NoLostWakeup ==
    \A p \in All : wait_state[p] = "WT_CHILD" =>
        /\ IF waitpid[p] = NULL THEN cptr[p] # NULL
                                ELSE parent[waitpid[p]] = p
        /\ \A c \in proc_list :
              /\ parent[c] = p
              /\ state[c] = "ZOMBIE"
              /\ waitpid[p] \in {NULL, c}
              => c = current /\ pc[c] = "exit_wakeup"

Armed(p) == expires[p] > 0 \/ p \in expired

(* The timer of do_sleep is a local variable on the sleeper's kernel stack: *)
(* it is linked only while do_sleep has not returned, although kill may end *)
(* the sleep early, and who sleeps on a timer has one that will expire.     *)
TimerOk ==
    \A p \in All :
        /\ wait_state[p] = "WT_TIMER" => Armed(p)
        /\ Armed(p) => pc[p] \in {"sleep", "slept"}

(* No pointer leads to a freed structure: not from the CPU, the run queue,  *)
(* the timers, the relations of a process, or a walk of do_wait.  And no    *)
(* parent is a zombie once do_exit has handed its children over: everybody  *)
(* has a parent that can still wait for it.                                 *)
NoDangling ==
    LET live == {p \in All : state[p] # "FREE"} IN
    /\ {current} \cup Queued \cup {p \in All : Armed(p)} \subseteq live
    /\ \A p \in live :
          {parent[p], cptr[p], yptr[p], optr[p], walk[p]} \subseteq live \cup {NULL}
    /\ \A c \in proc_list :
          LET p == parent[c] IN
          state[p] = "ZOMBIE" => p = current /\ pc[p] \in {"exit_wakeup", "exit_reparent"}

(* The relations are doubly linked lists of the children of each process:   *)
(* the youngest is the parent's cptr, every child is reached from it along  *)
(* optr, and yptr leads back (do_exit is in between while it moves them).   *)
(* The assertions at the end of init_main hold: when it finds no child,     *)
(* every other process has been waited for and unlinked.                    *)
NthChild(p) ==
    LET nth[n \in Nat] == IF n = 0 THEN cptr[p]
                          ELSE IF nth[n - 1] = NULL THEN NULL
                          ELSE optr[nth[n - 1]]
    IN  nth

Children(p) == {c \in proc_list : parent[c] = p}

RelationsOk ==
    /\ pc[current] # "exit_reparent" =>
         \A p \in proc_list \cup {idleproc} :
            /\ \A c \in Children(p) : \E n \in 0..nr_process : NthChild(p)[n] = c
            /\ cptr[p] # NULL => parent[cptr[p]] = p /\ yptr[cptr[p]] = NULL
            /\ \A c \in Children(p) : optr[c] # NULL =>
                  parent[optr[c]] = p /\ yptr[optr[c]] = c
    /\ pc[initproc] = "init_quit" =>
         /\ cptr[initproc] = NULL /\ yptr[initproc] = NULL /\ optr[initproc] = NULL
         /\ nr_process = 2
         /\ proc_list = {initproc}

(* No assertion fails and no panic is reached but the last one, do_exit of  *)
(* initproc: schedule() does not return to do_exit ("do_exit will not       *)
(* return!!"), nothing is queued twice, and no zombie is woken.             *)
NoPanic == panic \in {"no", "initproc exit"} /\ pc[current] # "dead"

(* Proc implements the life cycle of ProcLife.  A process dies when do_exit *)
(* makes it a zombie; the loop that hands its children over comes after,    *)
(* and so a child of a zombie is by then a child of initproc.               *)
LifeOf(p) == CASE state[p] = "FREE"   -> "none"
               [] state[p] = "ZOMBIE" -> "zombie"
               [] OTHER               -> "alive"

ParentOf(c) ==
    IF parent[c] # NULL /\ state[parent[c]] = "ZOMBIE" THEN initproc ELSE parent[c]

Life == INSTANCE ProcLife WITH
            life <- [p \in All |-> LifeOf(p)],
            par  <- [p \in All |-> ParentOf(p)]

ImplementsLife == Life!LifeSpec

-----------------------------------------------------------------------------
(* Liveness, unless the kernel has stopped.                                 *)

Stopped == panic # "no"

(* Round robin starves nobody: a queued process gets the CPU.               *)
RunnableRuns == \A p \in Procs : p \in Queued ~> (current = p \/ Stopped)

Ended(p) == state[p] \in {"ZOMBIE", "FREE"}

(* A killed user process ends wherever the kill found it, in user mode or   *)
(* asleep, unless it goes to sleep in do_wait after the kill.               *)
KilledEndsOrWaits ==
    \A p \in Procs :
        exiting[p] /\ umode[p] ~> (Ended(p) \/ wait_state[p] = "WT_CHILD" \/ Stopped)

(* A sleeper wakes.                                                         *)
SleeperWakes ==
    \A p \in Procs : wait_state[p] = "WT_TIMER" ~> (wait_state[p] = "0" \/ Stopped)

(* A parent that sleeps in do_wait for a child goes on after that child has *)
(* become a zombie.                                                         *)
ParentGoesOn ==
    \A p, c \in Procs :
        (/\ state[c] = "ZOMBIE" /\ parent[c] = p
         /\ wait_state[p] = "WT_CHILD" /\ waitpid[p] \in {NULL, c})
        ~> (pc[p] \notin {"wait_schedule", "waited"} \/ Stopped)

(* initproc collects orphans: when it has a zombie it reaps one.            *)
OrphanReaped ==
    (\E c \in Procs : state[c] = "ZOMBIE" /\ parent[c] = initproc)
    ~> (pc[initproc] = "init_loop" \/ Stopped)

=============================================================================
