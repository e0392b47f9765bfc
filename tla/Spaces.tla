------------------------------- MODULE Spaces -------------------------------
(***************************************************************************)
(* What processes may expect of their memory: each has a space of its own, *)
(* which starts as its program or as a copy of its parent's, and which     *)
(* nobody but the process itself changes.  Page tables, frames, reference  *)
(* counts and copy on write cannot be seen.                                *)
(***************************************************************************)
EXTENDS Integers, Sequences

CONSTANTS Procs,
          VASize,   \* the number of pages of a space
          Programs, \* a program is a sequence of segments, see Vm
          Values    \* what a page may hold; 0 is a cleared page

UNMAPPED == -1
Addrs == 0..VASize - 1
NoSpace == [a \in Addrs |-> UNMAPPED]

VARIABLE space

(* What the pages of a segment hold at the start: its part of the file,     *)
(* then zeros.                                                              *)
Holds(seg, a) == IF a < seg.file THEN seg.value ELSE 0

Loaded(image, prog) ==
    \A i \in DOMAIN prog : \A a \in prog[i].lo..prog[i].hi - 1 : image[a] = Holds(prog[i], a)

Change(p, image) == space' = [space EXCEPT ![p] = image]

-----------------------------------------------------------------------------
Init == space = [p \in Procs |-> NoSpace]

Load(p) ==
    /\ space' \in [Procs -> [Addrs -> Values \cup {UNMAPPED}]]
    /\ \A q \in Procs \ {p} : space'[q] = space[q]
    /\ \E prog \in Programs : Loaded(space'[p], prog)

Fork(p, q) ==
    /\ space[p] # NoSpace
    /\ space[q] = NoSpace
    /\ Change(q, space[p])

Store(p, a, v) ==
    /\ space[p][a] # UNMAPPED
    /\ Change(p, [space[p] EXCEPT ![a] = v])

End(p) == Change(p, NoSpace)

Next ==
    \E p \in Procs :
       \/ Load(p)
       \/ \E q \in Procs \ {p} : Fork(p, q)
       \/ \E a \in Addrs, v \in Values : Store(p, a, v)
       \/ End(p)

Spec == Init /\ [][Next]_space

=============================================================================
