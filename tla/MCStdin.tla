------------------------------ MODULE MCStdin ------------------------------
EXTENDS Stdin, TLC

=============================================================================
