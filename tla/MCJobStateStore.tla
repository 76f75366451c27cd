-------------------------- MODULE MCJobStateStore --------------------------
(* TLC instance of the job-state store: jobs and owners are model values. *)
EXTENDS JobStateStore, TLC

JobSymmetry == Permutations(Jobs) \cup Permutations(Owners)
=============================================================================
