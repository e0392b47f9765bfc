------------------------------ MODULE Timeouts ------------------------------
(***************************************************************************)
(* What the timers of lab8 promise (kern/schedule/sched.c), without the    *)
(* list that stores them: every running timer has its own count of ticks   *)
(* and comes due after exactly that many, whatever other timers do.        *)
(* Module Timer implements this; module Sched keeps timers in this form.   *)
(***************************************************************************)
EXTENDS Integers

CONSTANTS Owners,   \* the processes; each has at most one timer
          MaxTicks  \* bound on the ticks of a timer

VARIABLES left,     \* ticks that remain, 0 for no timer
          due,      \* timers that have run out and are not handled yet
          serving   \* TRUE while the timer interrupt is in service

clock == <<left, due, serving>>

TimeoutsInit ==
    /\ left = [p \in Owners |-> 0]
    /\ due = {}
    /\ serving = FALSE

Start(p) ==
    /\ ~serving
    /\ left[p] = 0
    /\ \E t \in 1..MaxTicks : left' = [left EXCEPT ![p] = t]
    /\ UNCHANGED <<due, serving>>

Stop(p) ==
    /\ ~serving
    /\ left' = [left EXCEPT ![p] = 0]
    /\ UNCHANGED <<due, serving>>

Tick ==
    /\ ~serving
    /\ serving' = TRUE
    /\ left' = [p \in Owners |-> IF left[p] > 0 THEN left[p] - 1 ELSE 0]
    /\ due' = {p \in Owners : left[p] = 1}

Handle(p) ==
    /\ serving
    /\ p \in due
    /\ due' = due \ {p}
    /\ UNCHANGED <<left, serving>>

Served ==
    /\ serving
    /\ due = {}
    /\ serving' = FALSE
    /\ UNCHANGED <<left, due>>

TimeoutsNext ==
    Tick \/ Served \/ \E p \in Owners : Start(p) \/ Stop(p) \/ Handle(p)

TimeoutsSpec == TimeoutsInit /\ [][TimeoutsNext]_clock

=============================================================================
