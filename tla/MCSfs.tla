-------------------------------- MODULE MCSfs --------------------------------
EXTENDS Sfs, TLC

Symmetry == Permutations(Fds) \cup Permutations(Files)

=============================================================================
