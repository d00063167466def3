-------------------------- MODULE MCPolicyControl --------------------------
(* Instances of PolicyControl for TLC. *)
EXTENDS PolicyControl, TLC

Swaps == Permutations(Caller)
=============================================================================
