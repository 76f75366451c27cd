----------------------------- MODULE MergePolicy -----------------------------
(***************************************************************************)
(* The merge decision (backend/merge/merge_policy.py) and how the endgame  *)
(* asks for it (merge_disposition and merge_gate_signals of                *)
(* services/pr_endgame.py).  Pure operators.                               *)
(*                                                                         *)
(* A tier is its bucket: "auto"/"low" are low, "async"/"medium" medium,    *)
(* "blocking"/"hard" hard, any other spelling "unknown"; an absent one is  *)
(* "absent".  A task is                                                    *)
(*   tier      task_metadata.reviewTier                                    *)
(*   floor     the tier its changed paths call for                         *)
(*   contract  "legacy", "verified" or "hold" (resolve_contract)           *)
(*   signed    the signed execution.review_tier of a verified contract     *)
(*   gates     deployment.system_gates                                     *)
(*   risky     a high risk class, or production                            *)
(*   metaRed   task_metadata records a failed verdict, no CI parity, red   *)
(*             CI, or an achieved VAL below its floor                      *)
(***************************************************************************)
EXTENDS Naturals

Buckets == {"low", "medium", "hard"}

Rank(tier) == CASE tier = "low" -> 1 [] tier = "medium" -> 2 [] tier = "hard" -> 3
                [] OTHER -> 0

\* raise_review_tier
Stricter(tier, floor) == IF Rank(floor) > Rank(tier) THEN floor ELSE tier

HumanOnlyGates == {"human-approval"}

\* deployment_block_reasons: whether there is a reason.
DeploymentBlocks(task, satisfied) == task.risky \/ task.gates \ satisfied # {}

\* decide_merge, of a low tier's evidence: green CI, a passing verdict, the VAL
\* floor and CI parity.
DecideMerge(tier, evidence, blocks) ==
    IF tier \notin {"low", "medium"} \/ blocks THEN "hold-blocking"
    ELSE IF tier = "low" /\ evidence THEN "auto-merge"
    ELSE "hold-async"

\* The tier merge_disposition decides on; "hold" when it decides nothing.
EffectiveTier(task) ==
    LET own == IF task.tier = "absent" THEN "low" ELSE task.tier IN
    CASE task.contract = "hold" -> "hold"
      [] task.contract = "verified" ->
            IF task.signed \notin Buckets THEN "hold"
            ELSE IF task.tier = "unknown" THEN "unknown"
            ELSE Stricter(task.signed, task.tier)
      [] OTHER -> IF own = "unknown" THEN own ELSE Stricter(own, task.floor)

\* merge_gate_signals: a recorded handback or a negative record beats what was
\* fetched.
Evidence(task, handbackFile, verdictPass, ciGreen) ==
    verdictPass /\ ciGreen /\ ~handbackFile /\ ~task.metaRed

\* merge_disposition
MergeDisposition(task, handbackFile, verdictPass, ciGreen, satisfied) ==
    LET tier == EffectiveTier(task) IN
    IF tier = "hold" THEN "hold-blocking"
    ELSE DecideMerge(tier, Evidence(task, handbackFile, verdictPass, ciGreen),
                     DeploymentBlocks(task, satisfied))
=============================================================================
