------------------------------- MODULE MCProc -------------------------------
EXTENDS ProcInv, TLC

Symmetry == Permutations(Procs)
=============================================================================
