------------------------------- MODULE Stride -------------------------------
(***************************************************************************)
(* The stride scheduler of lab6, default_sched_stride.c: a skew heap of    *)
(* processes (skew_heap.h), ordered by strides of a machine word that are  *)
(* compared by the sign of their difference, with schedule and wakeup_proc *)
(* around it.  schedule is called at any time: by a process that yields or *)
(* sleeps, or when stride_proc_tick finds the time slice used up.          *)
(*                                                                         *)
(* Every call runs with interrupts off and is one step.  Links of a        *)
(* process that is not in the heap are not read and are NULL here.         *)
(***************************************************************************)
EXTENDS Integers, FiniteSets, Sequences

CONSTANTS Procs,
          WORD,       \* the number of values of lab6_stride: 2^32
          BIG_STRIDE, \* the largest number of a signed word: 2^31 - 1
          Priorities  \* bound: the priorities a process may ask for

NULL == 0

ASSUME StrideAssumption ==
    /\ Procs \subseteq Nat \ {NULL} /\ IsFiniteSet(Procs)
    /\ BIG_STRIDE \in Nat /\ WORD = 2 * (BIG_STRIDE + 1)
    /\ Priorities \subseteq 1..BIG_STRIDE

VARIABLES rq,      \* the heap: its root and the links of the processes
          current, \* NULL is the idle process
          state, lab6_stride, lab6_priority

strideVars == <<rq, current, state, lab6_stride, lab6_priority>>

Signed(n) == IF n % WORD < WORD \div 2 THEN n % WORD ELSE (n % WORD) - WORD

(* wrong: the values themselves are compared.                               *)
Unsigned(stride, p, q) == stride[p] - stride[q]

(* Less than 0 when p is to be above q.                                     *)
proc_stride_comp_f(stride, p, q) == Signed(stride[p] - stride[q])

-----------------------------------------------------------------------------
(* skew_heap.h, on a record of the root and the three links.                *)
Nodes == Procs \cup {NULL}

(* Which of two nodes skew_heap_merge makes the root.                       *)
Upper(stride, x, y) ==
    IF y = NULL \/ (x # NULL /\ proc_stride_comp_f(stride, x, y) < 0) THEN x ELSE y

(* The next level of the recursion of skew_heap_merge: the right child of   *)
(* the root takes its place.                                                *)
Deeper(heap, stride, xy) ==
    IF Upper(stride, xy[1], xy[2]) = xy[1] THEN <<heap.right[xy[1]], xy[2]>>
                                           ELSE <<xy[1], heap.right[xy[2]]>>

(* The arguments of each level of the recursion of skew_heap_merge(a, b).   *)
Args(heap, stride, a, b) ==
    LET args[n \in Nat] == IF n = 0 THEN <<a, b>> ELSE Deeper(heap, stride, args[n - 1])
    IN  args

(* The nodes it visits, and last what is left when one of the two is NULL.  *)
Visited(heap, stride, a, b) ==
    LET args == Args(heap, stride, a, b)
        levels == {n \in 0..Cardinality(Procs) :
                      \A k \in 0..n - 1 : args[k][1] # NULL /\ args[k][2] # NULL}
    IN  [i \in {n + 1 : n \in levels} |-> Upper(stride, args[i - 1][1], args[i - 1][2])]

(* wrong: the other child of a visited node is dropped.                     *)
ChildDropped(heap, stride, a, b) ==
    LET path == Visited(heap, stride, a, b)
        Next(p, old) == IF \E i \in 1..Len(path) - 1 : path[i] = p
                        THEN path[1 + CHOOSE i \in DOMAIN path : path[i] = p] ELSE old
    IN  [heap EXCEPT !.pool = path[1], !.left = [p \in Procs |-> Next(p, @[p])]]

(* Each visited node's children change sides, and the rest goes to the left.*)
Merged(heap, path) ==
    LET inner == 1..Len(path) - 1
        Place(p) == CHOOSE i \in DOMAIN path : path[i] = p
        On(S, p) == \E i \in S : path[i] = p
    IN  [pool |-> path[1],
         left |-> [p \in Procs |-> IF On(inner, p) THEN path[Place(p) + 1] ELSE heap.left[p]],
         right |-> [p \in Procs |-> IF On(inner, p) THEN heap.left[p] ELSE heap.right[p]],
         parent |-> [p \in Procs |-> IF On(DOMAIN path \ {1}, p) THEN path[Place(p) - 1]
                                     ELSE heap.parent[p]]]

skew_heap_merge(heap, stride, a, b) == Merged(heap, Visited(heap, stride, a, b))

skew_heap_insert(heap, stride, p) == skew_heap_merge(heap, stride, heap.pool, p)

skew_heap_remove(heap, stride, p) ==
    LET up == heap.parent[p]
        merged == skew_heap_merge(heap, stride, heap.left[p], heap.right[p])
        rep == merged.pool
        Link(side) == [q \in Procs |-> IF q = p THEN NULL
                                       ELSE IF q = up /\ side[q] = p THEN rep
                                       ELSE side[q]]
    IN  [pool |-> IF up = NULL THEN rep ELSE heap.pool,
         left |-> Link(merged.left),
         right |-> Link(merged.right),
         parent |-> [q \in Procs |-> IF q = p THEN NULL ELSE IF q = rep THEN up ELSE merged.parent[q]]]

-----------------------------------------------------------------------------
(* The scheduling class: the heap, and the processes that have a queue      *)
(* (proc->rq).                                                              *)
stride_enqueue(q, stride, p) ==
    LET left == IF p \in q.procs THEN skew_heap_remove(q.heap, stride, p) ELSE q.heap
    IN  [heap |-> skew_heap_insert(left, stride, p), procs |-> q.procs \cup {p}]

stride_dequeue(q, stride, p) ==
    IF p \in q.procs THEN [heap |-> skew_heap_remove(q.heap, stride, p), procs |-> q.procs \ {p}]
    ELSE q

(* The stride of p, which stride_pick_next has picked.                      *)
Passed(stride, priority, p) ==
    [stride EXCEPT ![p] =
        (@ + IF priority[p] = 0 THEN BIG_STRIDE ELSE BIG_STRIDE \div priority[p]) % WORD]

-----------------------------------------------------------------------------
StrideInit ==
    /\ rq = [heap |-> [pool |-> NULL, left |-> [p \in Procs |-> NULL],
                      right |-> [p \in Procs |-> NULL], parent |-> [p \in Procs |-> NULL]],
             procs |-> {}]
    /\ current = NULL
    /\ state = [p \in Procs |-> "unused"]
    /\ lab6_stride = [p \in Procs |-> 0]
    /\ lab6_priority = [p \in Procs |-> 1]

(* schedule; stays: current is still runnable.                              *)
schedule(stays) ==
    LET q == IF stays THEN stride_enqueue(rq, lab6_stride, current) ELSE rq
        next == q.heap.pool
    IN  /\ current' = next
        /\ IF next = NULL
           THEN rq' = q /\ UNCHANGED lab6_stride
           ELSE /\ lab6_stride' = Passed(lab6_stride, lab6_priority, next)
                /\ rq' = stride_dequeue(q, lab6_stride', next)
        /\ UNCHANGED lab6_priority

Reschedule == schedule(current # NULL) /\ UNCHANGED state

(* current goes to sleep, or it ends and its structure is free for another. *)
StopsRunning(left) ==
    /\ current # NULL
    /\ state' = [state EXCEPT ![current] = left]
    /\ schedule(FALSE)

Sleep == StopsRunning("sleeping")
do_exit == StopsRunning("unused")

CanRun == rq.procs \cup ({current} \ {NULL})

(* wrong: who wakes up starts from stride 0 again.                          *)
StrideReset(p) ==
    /\ state[p] = "sleeping"
    /\ state' = [state EXCEPT ![p] = "runnable"]
    /\ lab6_stride' = [lab6_stride EXCEPT ![p] = 0]
    /\ rq' = stride_enqueue(rq, lab6_stride', p)
    /\ UNCHANGED <<current, lab6_priority>>

(* wakeup_proc of a process that sleeps: it is queued with the stride it    *)
(* had, however far the others have come since.                             *)
wakeup_proc(p) ==
    /\ state[p] = "sleeping"
    /\ state' = [state EXCEPT ![p] = "runnable"]
    /\ rq' = stride_enqueue(rq, lab6_stride, p)
    /\ UNCHANGED <<current, lab6_stride, lab6_priority>>

(* do_fork: alloc_proc, and wakeup_proc of the new process, whose stride is *)
(* 0; the first process is made by idleproc.                                *)
do_fork(p) ==
    /\ current # NULL \/ \A q \in Procs : state[q] = "unused"
    /\ state[p] = "unused"
    /\ state' = [state EXCEPT ![p] = "runnable"]
    /\ lab6_stride' = [lab6_stride EXCEPT ![p] = 0]
    /\ lab6_priority' = [lab6_priority EXCEPT ![p] = 1]
    /\ rq' = stride_enqueue(rq, lab6_stride', p)
    /\ UNCHANGED current

lab6_set_priority(k) ==
    /\ current # NULL
    /\ lab6_priority' = [lab6_priority EXCEPT ![current] = IF k = 0 THEN 1 ELSE k]
    /\ UNCHANGED <<rq, current, state, lab6_stride>>

StrideNext ==
    \/ Reschedule
    \/ Sleep
    \/ do_exit
    \/ \E p \in Procs : do_fork(p)
    \/ \E p \in Procs : wakeup_proc(p)
    \/ \E k \in Priorities : lab6_set_priority(k)

StrideSpec == StrideInit /\ [][StrideNext]_strideVars

(* The tick, which comes whatever a process does: weak fairness of          *)
(* Reschedule, which is enabled just when there is a process that can run.  *)
StrideFairSpec == StrideSpec /\ ([]<>(CanRun = {}) \/ []<><<Reschedule>>_strideVars)

-----------------------------------------------------------------------------
(* Properties.                                                              *)

(* The nodes right below p.                                                 *)
Children(p) == {rq.heap.left[p], rq.heap.right[p]} \ {NULL}

(* skew_heap_merge, skew_heap_insert, skew_heap_remove, stride_enqueue:     *)
(* whatever the order of calls, and also when the comparison of strides is  *)
(* no order at all, the links are one tree of just the runnable processes   *)
(* that do not run: none is lost and none is in it twice.                   *)
HeapOk ==
    /\ rq.procs = {p \in Procs : state[p] = "runnable"} \ {current}
    /\ (rq.heap.pool = NULL) = (rq.procs = {})
    /\ \A p \in rq.procs \ {rq.heap.pool} :
          /\ rq.heap.parent[p] \in rq.procs
          /\ p \in Children(rq.heap.parent[p])
    /\ \A p \in rq.procs :
          /\ rq.heap.left[p] = rq.heap.right[p] => rq.heap.left[p] = NULL
          /\ \A q \in Children(p) : rq.heap.parent[q] = p
    /\ Cardinality((UNION {Children(p) : p \in rq.procs}) \cup {rq.heap.pool})
         = Cardinality(rq.procs \cup {rq.heap.pool})

(* The distance of q's stride above p's.                                    *)
Above(p, q) == (lab6_stride[q] - lab6_stride[p]) % WORD

(* All strides of S are at most BIG_STRIDE above one of them.               *)
Close(S) == \E p \in S : \A q \in S : Above(p, q) <= BIG_STRIDE

(* The strides that are compared are close, and the heap is in their order. *)
InOrder ==
    /\ \A p \in rq.procs : \A q \in Children(p) : proc_stride_comp_f(lab6_stride, p, q) <= 0
    /\ CanRun # {} => Close(CanRun)

(* The process whose stride the others' are counted from.                   *)
Least == CHOOSE p \in CanRun : \A q \in CanRun : Above(p, q) <= BIG_STRIDE

(* How far the others are ahead of it, where there is an order.             *)
Lead == [p \in Procs |-> IF InOrder /\ p \in CanRun THEN Above(Least, p) ELSE 0]

Ideal == INSTANCE IdealStride WITH
    running <- current,
    ready <- rq.procs,
    ahead <- Lead,
    exact <- InOrder,
    priority <- lab6_priority

(* stride_pick_next with strides that overflow: as long as nobody is queued *)
(* with a stride farther than BIG_STRIDE from the others', who goes on is   *)
(* always one that the ideal scheduler, whose strides never overflow, could *)
(* have picked; only such a process, new or awake again, ends the order,    *)
(* which is back at the latest when one process at most can run.            *)
ImplementsIdeal == Ideal!Spec

(* Somebody is forked, or is woken with a stride far from the others'.      *)
Disturbed ==
    \/ \E p \in Procs : do_fork(p)
    \/ (\E p \in Procs : wakeup_proc(p)) /\ ~Close(CanRun)'

(* schedule, stride_pick_next: who can run will run, whatever the others    *)
(* do, across the overflow of the strides, unless there is no end of new    *)
(* processes and of late sleepers that overtake it; and also when the order *)
(* of the heap was lost before.                                             *)
NobodyStarves ==
    (<>[][~Disturbed]_strideVars) => \A p \in Procs : state[p] = "runnable" ~> current = p

=============================================================================
