---------------------------- MODULE MCCheckSync ----------------------------
EXTENDS CheckSync, TLC

=============================================================================
