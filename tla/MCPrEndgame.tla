----------------------------- MODULE MCPrEndgame -----------------------------
(* TLC instances of the PR endgame: the tasks whose policy differs. *)
EXTENDS PrEndgame

Plain == [tier |-> "low", floor |-> "low", contract |-> "legacy", signed |-> "absent",
          gates |-> {}, risky |-> FALSE, metaRed |-> FALSE]

\* An ordinary low task, one a person must approve, and one whose signed contract
\* asks for more review than its metadata says.
MCSettings == {<<Plain, "aifactory">>,
               <<[Plain EXCEPT !.gates = {"human-approval"}], "copilot">>,
               <<[Plain EXCEPT !.contract = "verified", !.signed = "medium"], "any">>}
=============================================================================
