------------------------------- MODULE MCPids -------------------------------
EXTENDS Pids

=============================================================================
