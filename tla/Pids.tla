-------------------------------- MODULE Pids --------------------------------
(***************************************************************************)
(* Pids: get_pid of kern/process/proc.c, the same in lab4 to lab8, between *)
(* do_fork's test of nr_process and set_links, and remove_links in do_wait.*)
(*                                                                         *)
(* get_pid keeps two static variables: the pids between last_pid and       *)
(* next_safe are known to be free, so that most calls look at no process.  *)
(* Nothing interrupts it that touches proc_list; its loop is cut into      *)
(* turns so that its goto and its end can be reasoned about.               *)
(***************************************************************************)
EXTENDS Integers, Sequences, SequencesExt

CONSTANTS MAX_PROCESS, MAX_PID

(* static_assert(MAX_PID > MAX_PROCESS).                                    *)
ASSUME PidAssumption ==
    /\ MAX_PROCESS \in Nat \ {0} /\ MAX_PID \in Nat
    /\ MAX_PID > MAX_PROCESS

VARIABLES
    proc_list,  \* the pids of the linked processes, the newest first
    last_pid,
    next_safe,
    le          \* the place in proc_list get_pid looks at; 0 outside get_pid

vars == <<proc_list, last_pid, next_safe, le>>

(* idleproc counts in nr_process and is not in proc_list.                   *)
nr_process == Len(proc_list) + 1

InUse == {proc_list[i] : i \in DOMAIN proc_list}

Init ==
    /\ proc_list = <<>>
    /\ last_pid = MAX_PID
    /\ next_safe = MAX_PID
    /\ le = 0

-----------------------------------------------------------------------------
NeverFull == FALSE                                                \* wrong
Full == nr_process >= MAX_PROCESS

Wrapped(pid) == IF pid >= MAX_PID THEN 1 ELSE pid

(* next_safe = MAX_PID and the walk from the first process on.              *)
Scan ==
    /\ next_safe' = MAX_PID
    /\ le' = 1

(* do_fork calls get_pid; a pid before next_safe needs no walk.             *)
GetPid ==
    /\ le = 0 /\ ~Full
    /\ last_pid' = Wrapped(last_pid + 1)
    /\ IF last_pid + 1 < next_safe
       THEN le' = Len(proc_list) + 1 /\ UNCHANGED next_safe
       ELSE Scan
    /\ UNCHANGED proc_list

(* The process at le has the pid: the next one is tried, for the rest of    *)
(* the walk while it is safe, in a new walk when it is not.                 *)
GoesOn == next_safe' = MAX_PID /\ le' = le + 1                    \* wrong
Repeat == Scan

PidTaken ==
    /\ le \in DOMAIN proc_list
    /\ proc_list[le] = last_pid
    /\ IF last_pid + 1 < next_safe
       THEN /\ last_pid' = last_pid + 1
            /\ le' = le + 1
            /\ UNCHANGED next_safe
       ELSE /\ last_pid' = Wrapped(last_pid + 1)
            /\ Repeat
    /\ UNCHANGED proc_list

(* It has another one, which may be the nearest above.                      *)
PidPassed ==
    /\ le \in DOMAIN proc_list
    /\ proc_list[le] # last_pid
    /\ next_safe' = IF proc_list[le] > last_pid /\ next_safe > proc_list[le]
                    THEN proc_list[le] ELSE next_safe
    /\ le' = le + 1
    /\ UNCHANGED <<proc_list, last_pid>>

(* get_pid returns, and set_links puts the new process first.               *)
SetLinks ==
    /\ le = Len(proc_list) + 1
    /\ proc_list' = <<last_pid>> \o proc_list
    /\ le' = 0
    /\ UNCHANGED <<last_pid, next_safe>>

(* do_wait has found a zombie, which is not initproc (pid 1).               *)
RemoveLinks(i) ==
    /\ le = 0
    /\ proc_list[i] # 1
    /\ proc_list' = RemoveAt(proc_list, i)
    /\ UNCHANGED <<last_pid, next_safe, le>>

Walk == PidTaken \/ PidPassed \/ SetLinks

Next == GetPid \/ Walk \/ \E i \in DOMAIN proc_list : RemoveLinks(i)

Spec == Init /\ [][Next]_vars

(* get_pid runs in the kernel, where no other process gets the CPU.         *)
FairSpec == Spec /\ WF_vars(Walk)

-----------------------------------------------------------------------------
TypeOK ==
    /\ proc_list \in Seq(1..(MAX_PID - 1))
    /\ last_pid \in 1..MAX_PID
    /\ next_safe \in 1..MAX_PID
    /\ le \in 0..(Len(proc_list) + 1)

(* No two processes have one pid, although last_pid wraps at MAX_PID and    *)
(* processes end in any order; the answer of get_pid is nobody's; and when  *)
(* get_pid has returned, the window it will hand out without a walk, after  *)
(* last_pid and before next_safe, has no pid in use.                        *)
PidsUnique ==
    /\ TypeOK
    /\ \A i, j \in DOMAIN proc_list : proc_list[i] = proc_list[j] => i = j
    /\ le = Len(proc_list) + 1 => last_pid \notin InUse
    /\ le = 0 => \A pid \in InUse : pid > last_pid => pid >= next_safe

(* get_pid returns, however its walks start again: of MAX_PID - 1 pids at   *)
(* least one is free because do_fork stops at MAX_PROCESS.                  *)
GetPidEnds == le # 0 ~> le = 0

=============================================================================
