-------------------------------- MODULE Timer --------------------------------
(***************************************************************************)
(* The timer list of lab8: add_timer, del_timer and run_timer_list of      *)
(* kern/schedule/sched.c.  A timer stores the ticks between itself and its *)
(* predecessor, so that a tick touches the head alone.                     *)
(*                                                                         *)
(* The three routines run with interrupts disabled.  run_timer_list is cut *)
(* into the decrement, one step per iteration of its loop, and its end, so *)
(* that the order in which timers expire is visible; nothing interleaves.  *)
(***************************************************************************)
EXTENDS Integers, Sequences, SequencesExt

CONSTANTS Owners,   \* the processes; each has at most one timer
          MaxTicks  \* bound on the argument of do_sleep (a model bound)

ASSUME TimerAssumption == MaxTicks \in Nat \ {0}

VARIABLES
    timer_list,  \* owners of the linked timers, the head first
    expires,     \* timer->expires; 0 for a timer that is not linked
    serving      \* TRUE inside run_timer_list

timerVars == <<timer_list, expires, serving>>

Linked == ToSet(timer_list)

(* Type invariant.  No difference is negative: when a tick takes one from    *)
(* the head, the head has one to give (the assertion of run_timer_list),     *)
(* although timers that expire together are stored with a difference of 0.   *)
TimerTypeOK ==
    /\ timer_list \in Seq(Owners)
    /\ \A i, j \in DOMAIN timer_list : timer_list[i] = timer_list[j] => i = j
    /\ expires \in [Owners -> 0..MaxTicks]
    /\ serving \in BOOLEAN

TimerInit ==
    /\ timer_list = <<>>
    /\ expires = [p \in Owners |-> 0]
    /\ serving = FALSE

-----------------------------------------------------------------------------
(* Ticks from now until the timers before position i have expired: what the *)
(* loop of add_timer has subtracted when it reaches that position.          *)
Before(i) ==
    LET sum[n \in Nat] == IF n = 0 THEN 0 ELSE sum[n - 1] + expires[timer_list[n]]
    IN  sum[i - 1]

(* Where add_timer's loop stops for a timer of t ticks.                     *)
Stops(t, i) == t - Before(i) < expires[timer_list[i]]

Place(t) ==
    LET stops == {i \in DOMAIN timer_list : Stops(t, i)}
    IN  IF stops = {} THEN Len(timer_list) + 1
                      ELSE CHOOSE i \in stops : \A j \in stops : i <= j

(* The successor of a new timer counts from the new timer.                  *)
NotShortened(k, d) == expires                                     \* wrong
Shortened(k, d) ==
    IF k \in DOMAIN timer_list THEN [expires EXCEPT ![timer_list[k]] = @ - d]
                               ELSE expires

add_timer(p, t) ==
    LET k == Place(t)
        d == t - Before(k)
    IN  /\ p \notin Linked
        /\ timer_list' = InsertAt(timer_list, k, p)
        /\ expires' = [Shortened(k, d) EXCEPT ![p] = d]

(* del_timer gives what is left of the timer to its successor.              *)
NotReturned(i) == expires                                         \* wrong
Returned(i) ==
    IF i + 1 \in DOMAIN timer_list
    THEN [expires EXCEPT ![timer_list[i + 1]] = @ + expires[timer_list[i]]]
    ELSE expires

del_timer(p) ==
    IF p \in Linked
    THEN LET i == CHOOSE j \in DOMAIN timer_list : timer_list[j] = p
         IN  /\ timer_list' = RemoveAt(timer_list, i)
             /\ expires' = [Returned(i) EXCEPT ![p] = 0]
    ELSE UNCHANGED <<timer_list, expires>>

-----------------------------------------------------------------------------
(* The steps: do_sleep's two calls, and run_timer_list.                     *)

Add(p) ==
    /\ ~serving
    /\ \E t \in 1..MaxTicks : add_timer(p, t)
    /\ UNCHANGED serving

Del(p) ==
    /\ ~serving
    /\ del_timer(p)
    /\ UNCHANGED serving

(* The decrement; assert(timer->expires != 0) is part of TimerTypeOK.        *)
Enter ==
    /\ ~serving
    /\ serving' = TRUE
    /\ expires' = IF timer_list = <<>> THEN expires
                  ELSE [expires EXCEPT ![Head(timer_list)] = @ - 1]
    /\ UNCHANGED timer_list

(* while (timer->expires == 0): the timer is the head of the list, its      *)
(* owner is woken and it is deleted.                                        *)
HeadExpired == timer_list # <<>> /\ expires[Head(timer_list)] = 0

Expire ==
    /\ serving
    /\ HeadExpired
    /\ del_timer(Head(timer_list))
    /\ UNCHANGED serving

Leave ==
    /\ serving
    /\ ~HeadExpired
    /\ serving' = FALSE
    /\ UNCHANGED <<timer_list, expires>>

TimerNext ==
    \/ Enter \/ Expire \/ Leave
    \/ \E p \in Owners : Add(p) \/ Del(p)

TimerSpec == TimerInit /\ [][TimerNext]_timerVars

-----------------------------------------------------------------------------
(* The list implements independent timers: every insertion and deletion     *)
(* leaves the ticks of all others alone, and each expires in its own tick.  *)
Position(p) == CHOOSE i \in DOMAIN timer_list : timer_list[i] = p
Left(p) == IF p \in Linked THEN Before(Position(p) + 1) ELSE 0

Independent == INSTANCE Timeouts WITH
    left <- [p \in Owners |-> Left(p)],
    due  <- {p \in Linked : Left(p) = 0}

ImplementsTimeouts == Independent!TimeoutsSpec

=============================================================================
