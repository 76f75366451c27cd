-------------------------- MODULE MCKubeJobBuilds --------------------------
(* TLC instances of the k8s-Job builds. *)
EXTENDS KubeJobBuilds, TLC

\* Job names: one per task, or one shared by all (ids that end alike).
OwnNames == [j \in Jobs |-> j]
SharedName == [j \in Jobs |-> CHOOSE k \in Jobs : TRUE]

Symmetry == Permutations(Jobs) \cup Permutations(Pods)
=============================================================================
