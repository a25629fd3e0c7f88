-------------------------- MODULE MCOrderExecution --------------------------
(* Small instances of OrderExecution: orders are interchangeable.            *)
EXTENDS OrderExecution, TLC

Symmetry == Permutations(Orders) \cup Permutations(Fills)
=============================================================================
