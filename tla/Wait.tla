-------------------------------- MODULE Wait --------------------------------
(***************************************************************************)
(* The wait queues of lab8, kern/sync/wait.c and wait.h: what a sleeper    *)
(* does with its wait_t when it runs again.  A queue is the sequence of    *)
(* the processes whose wait_t is linked, the first at the head.            *)
(***************************************************************************)
EXTENDS Sequences, SequencesExt

(* wait_current_del(queue, wait): a wait_t that is still in the queue is    *)
(* unlinked; whoever woke its process may have done so before.              *)
wait_current_del(q, p) ==
    IF p \in ToSet(q) THEN RemoveAt(q, CHOOSE i \in DOMAIN q : q[i] = p) ELSE q

=============================================================================
