---------------------------- MODULE IdealStride -----------------------------
(***************************************************************************)
(* Stride scheduling with strides of any size: whoever is to run is one of *)
(* those with the least stride, which then grows by BIG_STRIDE divided by  *)
(* the priority.  Only differences matter, so a stride is given as how far *)
(* it is ahead of the least one of the processes that can run.             *)
(*                                                                         *)
(* The order is promised only while exact is TRUE: it ends when a process  *)
(* joins whose stride is farther than BIG_STRIDE from another's.  Anybody  *)
(* may be picked from then on, until the order is back.                    *)
(***************************************************************************)
EXTENDS Integers, FiniteSets

CONSTANTS Procs, BIG_STRIDE, Priorities

NULL == 0

VARIABLES running, \* or NULL
          ready, ahead, priority,
          exact    \* ahead is known and is the order of choice

vars == <<running, ready, ahead, priority, exact>>

CanRun == IF running = NULL THEN ready ELSE ready \cup {running}

Normal(f, S) ==
    [p \in Procs |-> IF p \in S THEN f[p] - f[CHOOSE q \in S : \A r \in S : f[q] <= f[r]] ELSE 0]

-----------------------------------------------------------------------------
Init ==
    /\ running = NULL
    /\ ready = {}
    /\ ahead = [p \in Procs |-> 0]
    /\ priority = [p \in Procs |-> 1]
    /\ exact = TRUE

(* The strides f of the processes S that can run, if they are still known.  *)
Strides(f, S) ==
    LET near == \A p \in S : Normal(f, S)[p] <= BIG_STRIDE
    IN  \/ exact /\ near /\ exact' /\ ahead' = Normal(f, S)
        \/ exact /\ ~near /\ ~exact' /\ ahead' = [p \in Procs |-> 0]
        \/ ~exact /\ exact' \in BOOLEAN /\ ahead' \in [Procs -> 0..BIG_STRIDE]

(* One of S, with the least stride, goes on; one alone is in order.         *)
Run(S) ==
    \/ /\ S = {}
       /\ running' = NULL /\ ready' = {}
       /\ ahead' = [p \in Procs |-> 0] /\ exact'
       /\ UNCHANGED priority
    \/ \E p \in S :
          /\ exact => \A q \in S : ahead[p] <= ahead[q]
          /\ running' = p
          /\ ready' = S \ {p}
          /\ Strides([ahead EXCEPT ![p] = @ + BIG_STRIDE \div priority[p]], S)
          /\ S = {p} => exact'
          /\ UNCHANGED priority

Reschedule == Run(CanRun)
Sleep == running # NULL /\ Run(ready)

(* A process joins with any stride; a new one has priority 1.               *)
Join(p) ==
    /\ p \notin CanRun
    /\ ready' = ready \cup {p}
    /\ priority' \in {priority, [priority EXCEPT ![p] = 1]}
    /\ \E gap \in -BIG_STRIDE..2 * BIG_STRIDE + 1 : Strides([ahead EXCEPT ![p] = gap], CanRun')
    /\ UNCHANGED running

SetPriority(k) ==
    /\ running # NULL
    /\ priority' = [priority EXCEPT ![running] = k]
    /\ UNCHANGED <<running, ready, ahead, exact>>

Next ==
    \/ Reschedule
    \/ Sleep
    \/ \E p \in Procs : Join(p)
    \/ \E k \in Priorities : SetPriority(k)

Spec == Init /\ [][Next]_vars

=============================================================================
