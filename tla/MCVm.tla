-------------------------------- MODULE MCVm --------------------------------
EXTENDS Vm

(* Text and data beside each other in one table, and the same with cleared  *)
(* pages that go on into the next table, as user.ld lays them out.          *)
Segment(lo, file, hi, w) == [lo |-> lo, file |-> file, hi |-> hi, w |-> w, value |-> 1]
Small == <<Segment(0, 1, 1, FALSE), Segment(1, 2, 2, TRUE)>>
Large == <<Segment(0, 1, 1, FALSE), Segment(1, 2, 3, TRUE)>>
MCPrograms == {Small, Large}
Symmetry == Permutations(Procs)

=============================================================================
