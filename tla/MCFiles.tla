------------------------------- MODULE MCFiles -------------------------------
EXTENDS Files, TLC

Others == Permutations(Procs \ {initproc})
Symmetry == Others \cup Permutations(RegFiles)

(* Sets of flags of every kind that open tells apart.                       *)
AllFlags == {{}, {"O_RDWR", "O_TRUNC"}, {"O_CREAT", "O_EXCL"}, {"O_RDWR", "O_CREAT"}}

=============================================================================
