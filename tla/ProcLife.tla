------------------------------ MODULE ProcLife ------------------------------
(***************************************************************************)
(* What process management promises to programs, without scheduling,       *)
(* sleeping, links or interrupts: a process is created by a living         *)
(* process, which becomes its parent; it dies once; at that moment its     *)
(* children become children of the init process; and it disappears when    *)
(* its parent, which is alive, has waited for it.  Module ProcProps shows  *)
(* that module Proc implements it.                                         *)
(***************************************************************************)
CONSTANTS Procs, idleproc, initproc, NULL

All == Procs \cup {idleproc, initproc}

VARIABLES
    life,   \* "none", "alive" or "zombie"
    par     \* the parent, NULL for idleproc and for a process that is not there

lifeVars == <<life, par>>

LifeInit ==
    /\ life = [p \in All |-> IF p \in Procs THEN "none" ELSE "alive"]
    /\ par = [p \in All |-> IF p = initproc THEN idleproc ELSE NULL]

Create(p, c) ==
    /\ life[p] = "alive" /\ life[c] = "none"
    /\ life' = [life EXCEPT ![c] = "alive"]
    /\ par' = [par EXCEPT ![c] = p]

Die(p) ==
    /\ p \in Procs
    /\ life[p] = "alive"
    /\ life' = [life EXCEPT ![p] = "zombie"]
    /\ par' = [c \in All |-> IF par[c] = p THEN initproc ELSE par[c]]

Reap(p, c) ==
    /\ life[p] = "alive" /\ life[c] = "zombie" /\ par[c] = p
    /\ life' = [life EXCEPT ![c] = "none"]
    /\ par' = [par EXCEPT ![c] = NULL]

LifeNext == \E p, c \in All : Create(p, c) \/ Die(p) \/ Reap(p, c)

LifeSpec == LifeInit /\ [][LifeNext]_lifeVars

=============================================================================
