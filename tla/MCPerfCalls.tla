---------------------------- MODULE MCPerfCalls -----------------------------
(* Constants of PerfCalls for TLC. *)
EXTENDS PerfCalls, TLC

CONSTANTS small, large   \* an event on its own, and a group of two
OneAndTwo == (small :> 1) @@ (large :> 2)

Symmetry == Permutations(Threads) \cup Permutations(Tids)
=============================================================================
