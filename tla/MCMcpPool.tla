----------------------------- MODULE MCMcpPool -----------------------------
EXTENDS McpPool, TLC

MCInstances == 1 .. 2
MCConns == 1 .. 2

(* The threads run the same drains.                                        *)
Symmetry == Permutations(Threads)

=============================================================================
