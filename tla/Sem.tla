--------------------------------- MODULE Sem ---------------------------------
(***************************************************************************)
(* Semaphores and their wait queues: kern/sync/sem.c and kern/sync/wait.c. *)
(*                                                                         *)
(* Like Sched, this module has state and one operator per routine, and no  *)
(* processes.  A wait_t is a local variable of the process that waits, and *)
(* is represented by it.                                                   *)
(***************************************************************************)
EXTENDS Sched, Wait

CONSTANT Sems  \* the semaphores

VARIABLES
    value,        \* sem->value
    wait_queue,   \* sem->wait_queue, the first to wait at the head
    wakeup_flags  \* wait->wakeup_flags of a process's wait_t

semVars == <<value, wait_queue, wakeup_flags>>

SemTypeOK ==
    /\ value \in [Sems -> Nat]
    /\ wait_queue \in [Sems -> Seq(All)]
    /\ wakeup_flags \in [All -> {"WT_INTERRUPTED", "WT_KSEM"}]

-----------------------------------------------------------------------------
(* What wakeup_proc and wait_current_set leave alone.                       *)
schedRest == <<need_resched, current, expires, expired, irq>>

(* up: without a waiter the value grows; otherwise the unit is handed to    *)
(* the first waiter, and the value stays 0.                                 *)
GivesAndKeeps(s) == [value EXCEPT ![s] = @ + 1]                   \* wrong
Given(s) == IF wait_queue[s] = <<>> THEN [value EXCEPT ![s] = @ + 1] ELSE value

up(s) ==
    /\ value' = Given(s)
    /\ \/ /\ wait_queue[s] = <<>>
          /\ UNCHANGED <<state, wait_state, run_list, time_slice, panic,
                         wait_queue, wakeup_flags>>
       \/ /\ wait_queue[s] # <<>>
          /\ wait_state[Head(wait_queue[s])] # "WT_KSEM"
          /\ panic' = "wait_state"
          /\ UNCHANGED <<state, wait_state, run_list, time_slice, wait_queue,
                         wakeup_flags>>
       \/ /\ wait_queue[s] # <<>>
          /\ wait_state[Head(wait_queue[s])] = "WT_KSEM"
          /\ wait_queue' = [wait_queue EXCEPT ![s] = Tail(@)]
          /\ wakeup_flags' = [wakeup_flags EXCEPT ![Head(wait_queue[s])] = "WT_KSEM"]
          /\ wakeup_proc(Head(wait_queue[s]))
    /\ UNCHANGED schedRest

(* down by p takes a unit ...                                               *)
down_takes(s) ==
    /\ value[s] > 0
    /\ value' = [value EXCEPT ![s] = @ - 1]
    /\ UNCHANGED <<schedVars, wait_queue, wakeup_flags>>

(* ... or p joins the wait queue (wait_current_set); schedule() follows ... *)
down_waits(p, s) ==
    /\ value[s] = 0
    /\ wait_queue' = [wait_queue EXCEPT ![s] = Append(@, p)]
    /\ wakeup_flags' = [wakeup_flags EXCEPT ![p] = "WT_INTERRUPTED"]
    /\ state' = [state EXCEPT ![p] = "SLEEPING"]
    /\ wait_state' = [wait_state EXCEPT ![p] = "WT_KSEM"]
    /\ UNCHANGED <<schedRest, time_slice, run_list, panic, value>>

(* ... and p runs again: wait_current_del, and down's assert(flags == 0).   *)
down_returns(p, s) ==
    /\ wait_queue' = [wait_queue EXCEPT ![s] = wait_current_del(@, p)]
    /\ panic' = IF wakeup_flags[p] # "WT_KSEM" THEN "wakeup_flags" ELSE panic
    /\ UNCHANGED <<schedRest, state, wait_state, time_slice, run_list, value,
                   wakeup_flags>>

=============================================================================
