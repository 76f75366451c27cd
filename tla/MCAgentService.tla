--------------------------- MODULE MCAgentService ---------------------------
(* TLC instances of the build supervisor. *)
EXTENDS AgentService, TLC

MCOwners == Pods \X Boots

Symmetry == Permutations(Jobs) \cup Permutations(Pods)
=============================================================================
