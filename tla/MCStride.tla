------------------------------ MODULE MCStride ------------------------------
EXTENDS Stride

MCProcs == 1..3

=============================================================================
