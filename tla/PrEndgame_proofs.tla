-------------------------- MODULE PrEndgame_proofs --------------------------
(***************************************************************************)
(* Theorems about the PR endgame, for every set of tasks, every setting    *)
(* and every number of commits, polls, cycles, reviews and faults.         *)
(*                                                                         *)
(* What makes a merge legitimate was read in earlier steps, while people   *)
(* go on pushing and reviewing.  The inductive invariant EInv says what    *)
(* the watcher still knows at each place of its round: which commit a      *)
(* person has approved (Approval), that no commit of its own is on the     *)
(* branch past the gate (OwnWork), and what the gate has established       *)
(* (Gated).                                                                *)
(***************************************************************************)
EXTENDS PrEndgame, TLAPS

Reviewers == {"copilot", "person"}

\* The reviews, which EndgameTypeOK leaves out, and the bounds of the cycles.
ReviewsOK ==
    /\ reviews \in [Reviewers -> [latest : Verdicts \cup {"none"}, commit : 0..MaxHead,
                                  ever : SUBSET Verdicts]]
    /\ eg.pc = "fix" => eg.fix < MaxFix

\* Every approval that stands was given to a commit, and a task that needs a
\* person reaches the gate only with a head a person has approved.
Approval ==
    /\ reviews["person"].latest = "approved" => reviews["person"].commit \in approvedAt
    /\ eg.human /\ eg.pc \in {"gate", "veto", "evidence", "merge"}
          => eg.match \in approvedAt

\* A commit of the endgame shows in its counters, and past the gate there is none.
OwnWork ==
    /\ \A h \in Heads : branch.by[h] = "endgame" => eg.fix > 0 \/ eg.conflict > 0
    /\ eg.pc = "resolve" => eg.conflict > 0
    /\ eg.pc \in {"veto", "evidence", "merge"} => eg.fix = 0 /\ eg.conflict = 0

\* The task's policy lets the endgame merge, with or without a person.
Permitted ==
    /\ ~task.risky /\ ~task.metaRed /\ EffectiveTier(task) = "low"
    /\ "human-approval" \in task.gates => eg.human

\* A head whose evidence is in has passed the gate.
Gated == eg.pc = "merge" => eg.match \in verified /\ Permitted

\* A commit the endgame merged is on the branch.
OnBranch == AutoMerged => pr.merged \in 1..branch.tip

EInv == /\ EndgameTypeOK /\ ReviewsOK /\ Approval /\ OwnWork /\ Gated /\ OnBranch
        /\ MergedWasVerified /\ PersonApprovedMerge

-----------------------------------------------------------------------------
(* Types *)

Pcs == {"policy", "create", "poll", "fix", "approval", "reviews", "gate",
        "veto", "evidence", "merge", "resolve", "done"}

EgRecord == [pc : Pcs, auto : BOOLEAN, human : BOOLEAN, polls : 0..MaxPolls,
             fix : 0..MaxFix, conflict : 0..MaxConflict, match : 0..MaxHead]

TypeInv == EndgameTypeOK /\ ReviewsOK

\* The next place of a round keeps the record's type.
LEMMA GotoType ==
    ASSUME eg \in EgRecord, NEW pc \in Pcs, Goto(pc)
    PROVE  /\ eg' \in EgRecord
           /\ eg'.pc = pc
           /\ eg'.match = IF pc \in {"poll", "done"} THEN 0 ELSE eg.match
           /\ eg'.auto = eg.auto /\ eg'.human = eg.human /\ eg'.polls = eg.polls
           /\ eg'.fix = eg.fix /\ eg'.conflict = eg.conflict
<1> DEFINE m == IF pc \in {"poll", "done"} THEN 0 ELSE eg.match
<1>1. m \in 0..MaxHead
  BY EndgameAssumption DEF EgRecord
<1>2. eg' = [eg EXCEPT !.pc = pc, !.match = m]
  BY DEF Goto
<1> HIDE DEF m
<1>3. /\ eg' \in EgRecord
      /\ eg'.pc = pc /\ eg'.match = m
      /\ eg'.auto = eg.auto /\ eg'.human = eg.human /\ eg'.polls = eg.polls
      /\ eg'.fix = eg.fix /\ eg'.conflict = eg.conflict
  BY <1>1, <1>2 DEF EgRecord
<1> QED
  BY <1>3 DEF m

\* A push adds one commit on top and changes no other.
LEMMA PushFacts ==
    ASSUME branch \in [tip : Heads, by : [Heads -> {"build", "endgame", "person"}],
                       known : Heads],
           branch.known <= branch.tip,
           NEW who \in {"endgame", "person"}, Push(who)
    PROVE  /\ branch' \in [tip : Heads, by : [Heads -> {"build", "endgame", "person"}],
                           known : Heads]
           /\ branch'.known <= branch'.tip
           /\ branch'.tip = branch.tip + 1
           /\ branch'.by[branch'.tip] = who
           /\ \A h \in Heads \ {branch'.tip} : branch'.by[h] = branch.by[h]
BY EndgameAssumption DEF Heads, Push

\* The initial state has its types.
LEMMA InitType == Init => TypeInv
<1> SUFFICES ASSUME Init PROVE TypeInv
  OBVIOUS
<1>1. <<task, reviewer>> \in Settings
  BY EndgameAssumption DEF Init
<1>2. /\ branch \in [tip : Heads, by : [Heads -> {"build", "endgame", "person"}],
                     known : Heads]
      /\ branch.known <= branch.tip
      /\ verified \subseteq 1..branch.tip
  BY EndgameAssumption DEF Init, Heads
<1>3. /\ pr \in [state : {"none", "open", "merged", "closed"},
                 merged : 0..MaxHead, mergedBy : {"nobody", "endgame", "person"},
                 clean : BOOLEAN]
      /\ handback \in [pc : {"none", "record", "done"}, file : BOOLEAN, row : BOOLEAN]
      /\ eg \in EgRecord
  BY EndgameAssumption DEF Init, EgRecord, Pcs
<1>4. engine \in Verdicts \cup {"pending"} /\ approvedAt \subseteq Heads
  BY DEF Init
<1>5. ReviewsOK
  BY EndgameAssumption DEF Init, ReviewsOK, Reviewers, Verdicts
<1> QED
  BY <1>1, <1>2, <1>3, <1>4, <1>5 DEF TypeInv, EndgameTypeOK, EgRecord, Pcs

-----------------------------------------------------------------------------
(* The inductive invariant *)

HandbackRecord == [pc : {"none", "record", "done"}, file : BOOLEAN, row : BOOLEAN]

\* A step of the watcher that leaves GitHub alone keeps the invariant if the
\* place it goes to knows what it must.
LEMMA WatcherStep ==
    ASSUME EInv, UNCHANGED <<task, reviewer, github>>,
           handback' \in HandbackRecord, eg' \in EgRecord,
           eg'.fix >= eg.fix, eg'.conflict >= eg.conflict,
           eg'.pc = "fix" => eg'.fix < MaxFix,
           eg'.human /\ eg'.pc \in {"gate", "veto", "evidence", "merge"}
              => eg'.match \in approvedAt,
           eg'.pc = "resolve" => eg'.conflict > 0,
           eg'.pc \in {"veto", "evidence", "merge"} => eg'.fix = 0 /\ eg'.conflict = 0,
           eg'.pc = "merge" => eg'.match \in verified /\ Permitted'
    PROVE  EInv'
<1>1. /\ task' = task /\ reviewer' = reviewer /\ branch' = branch /\ pr' = pr
      /\ verified' = verified /\ engine' = engine /\ reviews' = reviews
      /\ approvedAt' = approvedAt
  BY DEF github
<1>2. EndgameTypeOK'
  BY <1>1 DEF EInv, EndgameTypeOK, EgRecord, Pcs, HandbackRecord
<1>3. ReviewsOK' /\ Approval' /\ Gated'
  BY <1>1 DEF EInv, ReviewsOK, Approval, Gated
<1>4. OwnWork'
  <2>1. eg.fix \in 0..MaxFix /\ eg.conflict \in 0..MaxConflict
    BY DEF EInv, EndgameTypeOK
  <2>2. eg'.fix \in 0..MaxFix /\ eg'.conflict \in 0..MaxConflict
    BY DEF EgRecord
  <2> QED
    BY <1>1, <2>1, <2>2, EndgameAssumption DEF EInv, OwnWork
<1>5. OnBranch' /\ MergedWasVerified' /\ PersonApprovedMerge'
  BY <1>1 DEF EInv, OnBranch, MergedWasVerified, PersonApprovedMerge, AutoMerged
<1> QED
  BY <1>2, <1>3, <1>4, <1>5 DEF EInv

\* What the types say of the watcher.
LEMMA EgType == EInv => /\ eg \in EgRecord /\ handback \in HandbackRecord
                        /\ eg.fix \in Nat /\ eg.conflict \in Nat
                        /\ eg.fix >= eg.fix /\ eg.conflict >= eg.conflict
BY EndgameAssumption DEF EInv, EndgameTypeOK, EgRecord, Pcs, HandbackRecord

\* The initial state satisfies the inductive invariant.
LEMMA InitEInv == Init => EInv
<1> SUFFICES ASSUME Init PROVE EInv
  OBVIOUS
<1>1. /\ ReviewsOK
      /\ EndgameTypeOK
  BY InitType DEF TypeInv
<1>2. /\ eg.pc = "policy"
      /\ pr.mergedBy = "nobody"
      /\ reviews["person"].latest = "none"
      /\ \A h \in Heads : branch.by[h] = "build"
  BY DEF Init
<1> QED
  BY <1>1, <1>2 DEF EInv, Approval, OwnWork, Gated, OnBranch, MergedWasVerified,
                    PersonApprovedMerge, AutoMerged

\* A step back to the poll or to the end needs to know nothing.
LEMMA BackStep ==
    ASSUME EInv, UNCHANGED <<task, reviewer, github, handback>>,
           NEW pc \in {"poll", "done"}, Goto(pc)
    PROVE  EInv'
<1>1. /\ eg' \in EgRecord /\ eg'.pc = pc /\ eg'.fix = eg.fix /\ eg'.conflict = eg.conflict
  BY EgType, GotoType DEF Pcs
<1>2. handback' \in HandbackRecord
  BY EgType
<1> QED
  BY <1>1, <1>2, EgType, WatcherStep

\* The policy decides before anything is read.
LEMMA DecidePolicyEInv ==
    ASSUME EInv, NEW flag \in AutoMerge, DecidePolicy(flag)
    PROVE  EInv'
<1> DEFINE free == Prospective({}) = "auto-merge"
           gated == ~free /\ Prospective(HumanOnlyGates) = "auto-merge"
           human == flag /\ ~handback.row /\ gated
           auto == flag /\ ~handback.row /\ (free \/ gated)
<1>1. human \in BOOLEAN /\ auto \in BOOLEAN
  OBVIOUS
<1>2. eg' = [eg EXCEPT !.pc = "create", !.human = human, !.auto = auto]
  BY DEF DecidePolicy
<1>3. UNCHANGED <<task, reviewer, github, handback>>
  BY DEF DecidePolicy
<1> HIDE DEF human, auto
<1>4. /\ eg' \in EgRecord /\ eg'.pc = "create" /\ eg'.fix = eg.fix
      /\ eg'.conflict = eg.conflict
  BY <1>1, <1>2, EgType DEF EgRecord, Pcs
<1> QED
  BY <1>3, <1>4, EgType, WatcherStep

\* A poll leads to the gate directly only where no person has to approve.
LEMMA PollEInv ==
    ASSUME EInv, Poll
    PROVE  EInv'
<1>1. UNCHANGED <<task, reviewer, github, handback>>
  BY DEF Poll
<1>2. CASE Goto("done")
  BY <1>1, <1>2, BackStep
<1>3. CASE eg.pc = "poll" /\ eg.polls > 0 /\ eg' = [eg EXCEPT !.polls = @ - 1]
  <2>1. /\ eg' \in EgRecord /\ eg'.pc = "poll" /\ eg'.fix = eg.fix
        /\ eg'.conflict = eg.conflict
    BY <1>3, EgType, EndgameAssumption DEF EgRecord
  <2> QED
    BY <1>1, <2>1, EgType, WatcherStep
<1>4. CASE eg.polls > 0 /\ eg' = [eg EXCEPT !.pc = AfterReview, !.polls = @ - 1]
  <2>1. /\ AfterReview \in {"fix", "done", "approval", "gate", "poll"}
        /\ AfterReview = "fix" => eg.fix < MaxFix
        /\ AfterReview = "gate" => ~eg.human
    <3>1. CASE Verdict = "changes_requested"
      BY <3>1 DEF AfterReview
    <3>2. CASE Verdict # "changes_requested" /\ Approved
      BY <3>2 DEF AfterReview
    <3>3. CASE Verdict # "changes_requested" /\ ~Approved
      BY <3>3 DEF AfterReview
    <3> QED
      BY <3>1, <3>2, <3>3
  <2>2. /\ eg' \in EgRecord /\ eg'.pc = AfterReview /\ eg'.fix = eg.fix
        /\ eg'.conflict = eg.conflict /\ eg'.human = eg.human
    <3> DEFINE a == AfterReview
               n == eg.polls - 1
    <3>1. n \in 0..MaxPolls
      BY <1>4, EgType, EndgameAssumption DEF EgRecord
    <3>2. a \in Pcs
      BY <2>1 DEF Pcs
    <3>3. eg' = [eg EXCEPT !.pc = a, !.polls = n]
      BY <1>4
    <3> HIDE DEF a, n
    <3>4. /\ eg' \in EgRecord /\ eg'.pc = a /\ eg'.fix = eg.fix
          /\ eg'.conflict = eg.conflict /\ eg'.human = eg.human
      BY <3>1, <3>2, <3>3, EgType DEF EgRecord
    <3> QED
      BY <3>4 DEF a
  <2> QED
    BY <1>1, <2>1, <2>2, EgType, WatcherStep
<1> QED
  BY <1>2, <1>3, <1>4 DEF Poll

\* The head is read before the reviews.
LEMMA ReadHeadEInv ==
    ASSUME EInv, ReadHead
    PROVE  EInv'
<1>1. branch.tip \in 0..MaxHead
  BY EndgameAssumption DEF EInv, EndgameTypeOK, Heads
<1>2. /\ eg' \in EgRecord /\ eg'.pc = "reviews" /\ eg'.fix = eg.fix
      /\ eg'.conflict = eg.conflict
  BY <1>1, EgType DEF ReadHead, EgRecord, Pcs
<1>3. UNCHANGED <<task, reviewer, github, handback>>
  BY DEF ReadHead
<1> QED
  BY <1>2, <1>3, EgType, WatcherStep

\* A round that goes on has a head that a person approved.
LEMMA ReadReviewsEInv ==
    ASSUME EInv, ReadReviews
    PROVE  EInv'
<1>1. UNCHANGED <<task, reviewer, github, handback>>
  BY DEF ReadReviews
<1>2. CASE HumanApproved
  <2>1. Goto("gate")
    BY <1>2 DEF ReadReviews
  <2>2. eg.match \in approvedAt
    BY <1>2 DEF HumanApproved, EInv, Approval
  <2>3. /\ eg' \in EgRecord /\ eg'.pc = "gate" /\ eg'.match = eg.match
        /\ eg'.fix = eg.fix /\ eg'.conflict = eg.conflict
    BY <2>1, EgType, GotoType DEF Pcs
  <2> QED
    BY <1>1, <2>2, <2>3, EgType, WatcherStep
<1>3. CASE ~HumanApproved
  BY <1>1, <1>3, BackStep DEF ReadReviews
<1> QED
  BY <1>2, <1>3

\* The gate lets nothing through once the endgame has pushed.
LEMMA GateHeadEInv ==
    ASSUME EInv, GateHead
    PROVE  EInv'
<1>1. UNCHANGED <<task, reviewer, github, handback>>
  BY DEF GateHead
<1>2. CASE EndgamePushed
  BY <1>1, <1>2, BackStep DEF GateHead
<1>3. CASE ~EndgamePushed
  <2> DEFINE m == IF eg.human THEN eg.match ELSE branch.tip
  <2>1. m \in 0..MaxHead /\ (eg.human => m \in approvedAt)
    BY EgType, EndgameAssumption
       DEF GateHead, EInv, EndgameTypeOK, Heads, Approval, EgRecord
  <2>2. eg' = [eg EXCEPT !.pc = "veto", !.match = m]
    BY <1>3 DEF GateHead
  <2> HIDE DEF m
  <2>3. /\ eg' \in EgRecord /\ eg'.pc = "veto" /\ eg'.match = m /\ eg'.human = eg.human
        /\ eg'.fix = eg.fix /\ eg'.conflict = eg.conflict
    BY <2>1, <2>2, EgType DEF EgRecord, Pcs
  <2>4. eg.fix = 0 /\ eg.conflict = 0
    BY <1>3, EgType DEF EndgamePushed
  <2> QED
    BY <1>1, <2>1, <2>3, <2>4, EgType, WatcherStep
<1> QED
  BY <1>2, <1>3

\* The veto changes nothing about the head.
LEMMA CheckVetoEInv ==
    ASSUME EInv, CheckVeto
    PROVE  EInv'
<1>1. UNCHANGED <<task, reviewer, github, handback>>
  BY DEF CheckVeto
<1>2. CASE Goto("poll")
  BY <1>1, <1>2, BackStep
<1>3. CASE eg.pc = "veto" /\ Goto("evidence")
  <2>1. /\ eg' \in EgRecord /\ eg'.pc = "evidence" /\ eg'.match = eg.match
        /\ eg'.human = eg.human /\ eg'.fix = eg.fix /\ eg'.conflict = eg.conflict
    BY <1>3, EgType, GotoType DEF Pcs
  <2>2. /\ eg.human => eg.match \in approvedAt
        /\ eg.fix = 0 /\ eg.conflict = 0
    BY <1>3 DEF EInv, Approval, OwnWork
  <2> QED
    BY <1>1, <2>1, <2>2, EgType, WatcherStep
<1> QED
  BY <1>2, <1>3 DEF CheckVeto

\* A green gate: the head is verified, and the policy allows the merge.
LEMMA GreenMeans ==
    ASSUME GateGreen
    PROVE  eg.match \in verified /\ Permitted
<1> DEFINE satisfied == IF eg.human THEN HumanOnlyGates ELSE {}
           blocks == DeploymentBlocks(task, satisfied)
           evidence == Evidence(task, handback.file, eg.match \in verified, TRUE)
<1>1. EffectiveTier(task) # "hold" /\ DecideMerge(EffectiveTier(task), evidence, blocks) = "auto-merge"
  BY DEF GateGreen, MergeDisposition
<1>2. EffectiveTier(task) = "low" /\ evidence /\ ~blocks
  BY <1>1 DEF DecideMerge
<1>3. eg.match \in verified /\ ~task.metaRed
  BY <1>2 DEF Evidence
<1>4. ~task.risky /\ task.gates \ satisfied = {}
  BY <1>2 DEF DeploymentBlocks
<1>5. "human-approval" \in task.gates => eg.human
  BY <1>4
<1> QED
  BY <1>2, <1>3, <1>4, <1>5 DEF Permitted

\* Past the gate the head is verified and the policy allows the merge.
LEMMA CheckGateEInv ==
    ASSUME EInv, CheckGate
    PROVE  EInv'
<1>1. UNCHANGED <<task, reviewer, github, handback>>
  BY DEF CheckGate
<1>2. CASE Goto("poll")
  BY <1>1, <1>2, BackStep
<1>3. CASE eg.pc = "evidence" /\ GateGreen /\ Goto("merge")
  <2>1. /\ eg' \in EgRecord /\ eg'.pc = "merge" /\ eg'.match = eg.match
        /\ eg'.human = eg.human /\ eg'.fix = eg.fix /\ eg'.conflict = eg.conflict
    BY <1>3, EgType, GotoType DEF Pcs
  <2>2. /\ eg.human => eg.match \in approvedAt
        /\ eg.fix = 0 /\ eg.conflict = 0
    BY <1>3 DEF EInv, Approval, OwnWork
  <2>3. eg'.match \in verified /\ Permitted'
    BY <1>1, <1>3, <2>1, GreenMeans DEF Permitted
  <2> QED
    BY <1>1, <2>1, <2>2, <2>3, EgType, WatcherStep
<1> QED
  BY <1>2, <1>3 DEF CheckGate

\* The head of the branch at a merge: no commit of the endgame, verified, and
\* approved where a person must approve.
LEMMA MergeTarget ==
    ASSUME EInv, eg.pc = "merge", MergeAccepted
    PROVE  /\ branch.tip \in Heads
           /\ branch.tip \in verified
           /\ branch.by[branch.tip] # "endgame"
           /\ ~task.risky /\ ~task.metaRed /\ EffectiveTier(task) = "low"
           /\ "human-approval" \in task.gates => branch.tip \in approvedAt
<1>1. branch.tip = eg.match /\ branch.tip \in Heads
  BY DEF MergeAccepted, EInv, EndgameTypeOK
<1>2. eg.match \in verified /\ Permitted
  BY DEF EInv, Gated
<1>3. branch.by[branch.tip] # "endgame"
  BY <1>1 DEF EInv, OwnWork
<1>4. eg.human => eg.match \in approvedAt
  BY DEF EInv, Approval
<1> QED
  BY <1>1, <1>2, <1>3, <1>4 DEF Permitted

\* A merge by the endgame of such a head keeps what is said of merges.
LEMMA MergedKeeps ==
    ASSUME EInv, eg.pc = "merge", MergeAccepted, Merged("endgame"),
           UNCHANGED <<task, branch, verified, approvedAt>>
    PROVE  /\ pr' \in [state : {"none", "open", "merged", "closed"},
                       merged : 0..MaxHead, mergedBy : {"nobody", "endgame", "person"},
                       clean : BOOLEAN]
           /\ OnBranch' /\ MergedWasVerified' /\ PersonApprovedMerge'
<1>1. /\ pr' \in [state : {"none", "open", "merged", "closed"},
                  merged : 0..MaxHead, mergedBy : {"nobody", "endgame", "person"},
                  clean : BOOLEAN]
      /\ pr'.merged = branch.tip
  <2>1. branch.tip \in 0..MaxHead
    BY EndgameAssumption DEF EInv, EndgameTypeOK, Heads
  <2>2. pr \in [state : {"none", "open", "merged", "closed"},
                merged : 0..MaxHead, mergedBy : {"nobody", "endgame", "person"},
                clean : BOOLEAN]
    BY DEF EInv, EndgameTypeOK
  <2>3. pr' = [pr EXCEPT !.state = "merged", !.merged = branch.tip, !.mergedBy = "endgame"]
    BY DEF Merged
  <2> QED
    BY <2>1, <2>2, <2>3
<1>2. branch.tip \in 1..branch.tip
  BY MergeTarget, EndgameAssumption DEF Heads
<1> QED
  BY <1>1, <1>2, MergeTarget DEF OnBranch, MergedWasVerified, PersonApprovedMerge, AutoMerged

\* Whatever the answer to the merge call, a merge that happened was legitimate.
LEMMA MergeEInv ==
    ASSUME EInv, Merge
    PROVE  EInv'
<1>1. eg.pc = "merge" /\ UNCHANGED <<task, reviewer, branch, verified, engine, reviews,
                                     approvedAt, handback>>
  BY DEF Merge
<1>2. /\ pr' \in [state : {"none", "open", "merged", "closed"},
                  merged : 0..MaxHead, mergedBy : {"nobody", "endgame", "person"},
                  clean : BOOLEAN]
      /\ OnBranch' /\ MergedWasVerified' /\ PersonApprovedMerge'
  <2>1. CASE MergeAccepted /\ Merged("endgame")
    BY <1>1, <2>1, MergedKeeps
  <2>2. CASE UNCHANGED pr
    BY <1>1, <2>2 DEF EInv, EndgameTypeOK, OnBranch, MergedWasVerified,
                      PersonApprovedMerge, AutoMerged
  <2> QED
    BY <2>1, <2>2 DEF Merge
<1>3. /\ eg' \in EgRecord /\ eg'.pc \in {"done", "resolve"}
      /\ eg'.fix = eg.fix /\ eg'.conflict >= eg.conflict
      /\ eg'.pc = "resolve" => eg'.conflict > 0
  <2>1. CASE Goto("done")
    BY <2>1, EgType, GotoType DEF Pcs
  <2>2. CASE eg.conflict < MaxConflict /\ eg' = [eg EXCEPT !.pc = "resolve", !.conflict = @ + 1]
    <3> DEFINE n == eg.conflict + 1
    <3>1. n \in 0..MaxConflict /\ n >= eg.conflict /\ n > 0
      BY <2>2, EgType, EndgameAssumption DEF EgRecord
    <3>2. eg' = [eg EXCEPT !.pc = "resolve", !.conflict = n]
      BY <2>2
    <3> HIDE DEF n
    <3> QED
      BY <3>1, <3>2, EgType DEF EgRecord, Pcs
  <2> QED
    BY <2>1, <2>2 DEF Merge
<1>4. EndgameTypeOK' /\ ReviewsOK'
  BY <1>1, <1>2, <1>3 DEF EInv, EndgameTypeOK, EgRecord, Pcs, ReviewsOK
<1>5. Approval' /\ Gated'
  BY <1>1, <1>3 DEF EInv, Approval, Gated
<1>6. OwnWork'
  <2>1. eg'.conflict \in Nat
    BY <1>3, EndgameAssumption DEF EgRecord
  <2> QED
    BY <1>1, <1>3, <2>1, EgType DEF EInv, OwnWork
<1> QED
  BY <1>2, <1>4, <1>5, <1>6 DEF EInv

\* A push on top changes nothing about a commit that was merged before.
LEMMA PushKeepsMerged ==
    ASSUME EInv, NEW who \in {"endgame", "person"}, Push(who),
           UNCHANGED <<task, verified, approvedAt>>,
           pr'.merged = pr.merged, pr'.mergedBy = pr.mergedBy
    PROVE  /\ OnBranch' /\ MergedWasVerified' /\ PersonApprovedMerge'
           /\ verified' \subseteq 1..branch'.tip
<1>1. /\ branch'.tip = branch.tip + 1
      /\ \A h \in Heads \ {branch'.tip} : branch'.by[h] = branch.by[h]
      /\ branch.tip \in Heads
  BY PushFacts DEF EInv, EndgameTypeOK
<1>2. AutoMerged => pr.merged \in 1..branch.tip /\ pr.merged \in Heads \ {branch'.tip}
  BY <1>1, EndgameAssumption DEF EInv, OnBranch, Heads
<1>3. AutoMerged' = AutoMerged
  BY DEF AutoMerged
<1>4. OnBranch'
  BY <1>1, <1>2, <1>3, EndgameAssumption DEF OnBranch, Heads
<1>5. MergedWasVerified' /\ PersonApprovedMerge'
  BY <1>1, <1>2, <1>3 DEF EInv, MergedWasVerified, PersonApprovedMerge
<1>6. verified' \subseteq 1..branch'.tip
  BY <1>1, EndgameAssumption DEF EInv, EndgameTypeOK, Heads
<1> QED
  BY <1>4, <1>5, <1>6

\* What the endgame's own push does to the branch.
LEMMA PushWorkKeeps ==
    ASSUME EInv, PushWork, UNCHANGED <<task, verified, approvedAt>>,
           pr'.merged = pr.merged, pr'.mergedBy = pr.mergedBy
    PROVE  /\ OnBranch' /\ MergedWasVerified' /\ PersonApprovedMerge'
           /\ verified' \subseteq 1..branch'.tip
           /\ branch' \in [tip : Heads, by : [Heads -> {"build", "endgame", "person"}],
                           known : Heads]
           /\ branch'.known <= branch'.tip
<1>1. CASE Push("endgame")
  BY <1>1, PushKeepsMerged, PushFacts DEF EInv, EndgameTypeOK
<1>2. CASE UNCHANGED branch
  BY <1>2 DEF EInv, EndgameTypeOK, OnBranch, MergedWasVerified, PersonApprovedMerge, AutoMerged
<1> QED
  BY <1>1, <1>2 DEF PushWork

\* The fixer touches the receipt file only.
LEMMA FixerType ==
    ASSUME EInv, RunFixer
    PROVE  handback' \in HandbackRecord /\ handback'.row = handback.row
BY EgType DEF RunFixer, HandbackRecord

\* A fix cycle counts itself in the step in which it pushes.
LEMMA FixEInv ==
    ASSUME EInv, Fix
    PROVE  EInv'
<1>1. /\ eg.pc = "fix" /\ eg.fix < MaxFix
      /\ UNCHANGED <<task, reviewer, pr, verified, engine, reviews, approvedAt>>
  BY DEF Fix, EInv, ReviewsOK
<1>2. /\ eg' \in EgRecord /\ eg'.pc \in {"poll", "done"} /\ eg'.fix > 0
  <2>1. PICK pc \in {"poll", "done"} : eg' = [eg EXCEPT !.pc = pc, !.fix = @ + 1]
    BY DEF Fix
  <2> DEFINE n == eg.fix + 1
  <2>2. n \in 0..MaxFix /\ n > 0
    BY <1>1, EgType, EndgameAssumption DEF EgRecord
  <2>3. eg' = [eg EXCEPT !.pc = pc, !.fix = n]
    BY <2>1
  <2> HIDE DEF n
  <2> QED
    BY <2>2, <2>3, EgType DEF EgRecord, Pcs
<1>3. /\ OnBranch' /\ MergedWasVerified' /\ PersonApprovedMerge'
      /\ verified' \subseteq 1..branch'.tip
      /\ branch' \in [tip : Heads, by : [Heads -> {"build", "endgame", "person"}],
                      known : Heads]
      /\ branch'.known <= branch'.tip
  <2>1. CASE PushWork
    BY <1>1, <2>1, PushWorkKeeps
  <2>2. CASE UNCHANGED branch
    BY <1>1, <2>2
       DEF EInv, EndgameTypeOK, OnBranch, MergedWasVerified, PersonApprovedMerge, AutoMerged
  <2> QED
    BY <2>1, <2>2 DEF Fix
<1>4. handback' \in HandbackRecord
  BY FixerType DEF Fix
<1>5. EndgameTypeOK' /\ ReviewsOK'
  BY <1>1, <1>2, <1>3, <1>4
     DEF EInv, EndgameTypeOK, EgRecord, Pcs, ReviewsOK, HandbackRecord
<1>6. Approval' /\ OwnWork' /\ Gated'
  BY <1>1, <1>2 DEF EInv, Approval, OwnWork, Gated
<1> QED
  BY <1>3, <1>5, <1>6 DEF EInv

\* A conflict cycle was counted before it pushes.
LEMMA ResolveEInv ==
    ASSUME EInv, Resolve
    PROVE  EInv'
<1>1. /\ eg.pc = "resolve" /\ eg.conflict > 0
      /\ UNCHANGED <<task, reviewer, verified, engine, reviews, approvedAt>>
  BY DEF Resolve, EInv, OwnWork
<1>2. /\ eg' \in EgRecord /\ eg'.pc \in {"poll", "done"} /\ eg'.conflict > 0
  <2>1. PICK pc \in {"poll", "done"} : Goto(pc)
    BY DEF Resolve
  <2> QED
    BY <1>1, <2>1, EgType, GotoType DEF Pcs
<1>3. /\ pr' \in [state : {"none", "open", "merged", "closed"},
                  merged : 0..MaxHead, mergedBy : {"nobody", "endgame", "person"},
                  clean : BOOLEAN]
      /\ pr'.merged = pr.merged /\ pr'.mergedBy = pr.mergedBy
  BY DEF Resolve, EInv, EndgameTypeOK
<1>4. /\ OnBranch' /\ MergedWasVerified' /\ PersonApprovedMerge'
      /\ verified' \subseteq 1..branch'.tip
      /\ branch' \in [tip : Heads, by : [Heads -> {"build", "endgame", "person"}],
                      known : Heads]
      /\ branch'.known <= branch'.tip
  <2>1. CASE PushWork
    BY <1>1, <1>3, <2>1, PushWorkKeeps
  <2>2. CASE UNCHANGED branch
    BY <1>1, <1>3, <2>2
       DEF EInv, EndgameTypeOK, OnBranch, MergedWasVerified, PersonApprovedMerge, AutoMerged
  <2> QED
    BY <2>1, <2>2 DEF Resolve
<1>5. handback' \in HandbackRecord
  BY FixerType, EgType DEF Resolve
<1>6. EndgameTypeOK' /\ ReviewsOK'
  BY <1>1, <1>2, <1>3, <1>4, <1>5
     DEF EInv, EndgameTypeOK, EgRecord, Pcs, ReviewsOK, HandbackRecord
<1>7. Approval' /\ OwnWork' /\ Gated'
  BY <1>1, <1>2 DEF EInv, Approval, OwnWork, Gated
<1> QED
  BY <1>4, <1>6, <1>7 DEF EInv

PrRecord == [state : {"none", "open", "merged", "closed"},
             merged : 0..MaxHead, mergedBy : {"nobody", "endgame", "person"},
             clean : BOOLEAN]

\* A step that changes the pull request only, and merges nothing for the endgame.
LEMMA PrStep ==
    ASSUME EInv, UNCHANGED <<task, reviewer, branch, verified, engine, reviews,
                             approvedAt, handback, eg>>,
           pr' \in PrRecord,
           AutoMerged' => AutoMerged /\ pr'.merged = pr.merged
    PROVE  EInv'
<1>1. EndgameTypeOK' /\ ReviewsOK' /\ Approval' /\ OwnWork' /\ Gated'
  BY DEF EInv, EndgameTypeOK, ReviewsOK, Approval, OwnWork, Gated, Permitted, PrRecord
<1>2. OnBranch' /\ MergedWasVerified' /\ PersonApprovedMerge'
  BY DEF EInv, OnBranch, MergedWasVerified, PersonApprovedMerge
<1> QED
  BY <1>1, <1>2 DEF EInv

\* Opening the pull request merges nothing.
LEMMA CreatePrEInv ==
    ASSUME EInv, CreatePr
    PROVE  EInv'
<1>1. UNCHANGED <<task, reviewer, branch, verified, engine, reviews, approvedAt, handback>>
  BY DEF CreatePr
<1>2. /\ pr' \in PrRecord /\ pr'.merged = pr.merged /\ pr'.mergedBy = pr.mergedBy
  BY DEF CreatePr, OpenPr, EInv, EndgameTypeOK, PrRecord
<1>3. /\ eg' \in EgRecord /\ eg'.pc \in {"poll", "done"}
      /\ eg'.fix = eg.fix /\ eg'.conflict = eg.conflict
  <2>1. CASE Goto("done")
    BY <2>1, EgType, GotoType DEF Pcs
  <2>2. CASE eg' = [eg EXCEPT !.pc = "poll", !.polls = MaxPolls]
    <3>1. MaxPolls \in 0..MaxPolls
      BY EndgameAssumption
    <3> QED
      BY <2>2, <3>1, EgType DEF EgRecord, Pcs
  <2> QED
    BY <2>1, <2>2 DEF CreatePr
<1>4. EndgameTypeOK' /\ ReviewsOK'
  BY <1>1, <1>2, <1>3 DEF EInv, EndgameTypeOK, EgRecord, Pcs, ReviewsOK, PrRecord
<1>5. Approval' /\ OwnWork' /\ Gated'
  BY <1>1, <1>3 DEF EInv, Approval, OwnWork, Gated
<1>6. OnBranch' /\ MergedWasVerified' /\ PersonApprovedMerge'
  BY <1>1, <1>2 DEF EInv, OnBranch, MergedWasVerified, PersonApprovedMerge, AutoMerged
<1> QED
  BY <1>4, <1>5, <1>6 DEF EInv

-----------------------------------------------------------------------------
(* People, GitHub, CI and TFactory *)

\* A person may push at any time: the head that was judged stays what it was.
LEMMA PersonPushesEInv ==
    ASSUME EInv, PersonPushes
    PROVE  EInv'
<1>1. Push("person") /\ UNCHANGED <<task, reviewer, pr, verified, engine, reviews,
                                    approvedAt, handback, eg>>
  BY DEF PersonPushes
<1>2. /\ OnBranch' /\ MergedWasVerified' /\ PersonApprovedMerge'
      /\ verified' \subseteq 1..branch'.tip
  BY <1>1, PushKeepsMerged
<1>3. /\ branch' \in [tip : Heads, by : [Heads -> {"build", "endgame", "person"}],
                      known : Heads]
      /\ branch'.known <= branch'.tip
      /\ branch'.by[branch'.tip] = "person"
      /\ \A h \in Heads \ {branch'.tip} : branch'.by[h] = branch.by[h]
  BY <1>1, PushFacts DEF EInv, EndgameTypeOK
<1>4. EndgameTypeOK' /\ ReviewsOK' /\ Approval' /\ Gated'
  BY <1>1, <1>2, <1>3 DEF EInv, EndgameTypeOK, ReviewsOK, Approval, Gated, Permitted
<1>5. OwnWork'
  BY <1>1, <1>3 DEF EInv, OwnWork
<1> QED
  BY <1>2, <1>4, <1>5 DEF EInv

\* A new review may replace an approval, but the commit stays approved.
LEMMA GithubReviewEInv ==
    ASSUME EInv, NEW r \in Reviewers, NEW verdict \in Verdicts, GithubReview(r, verdict)
    PROVE  EInv'
<1> DEFINE approves == r = "person" /\ verdict = "approved"
           c == IF approves THEN branch.tip ELSE 0
           review == [latest |-> verdict, ever |-> reviews[r].ever \cup {verdict},
                      commit |-> c]
<1>1. UNCHANGED <<task, reviewer, branch, pr, verified, engine, handback, eg>>
  BY DEF GithubReview
<1>2. /\ reviews' = [reviews EXCEPT ![r] = review]
      /\ approvedAt' = IF approves THEN approvedAt \cup {branch.tip} ELSE approvedAt
  BY DEF GithubReview
<1>3. branch.tip \in Heads /\ c \in 0..MaxHead
  BY EndgameAssumption DEF EInv, EndgameTypeOK, Heads
<1>4. ReviewsOK'
  <2>1. review \in [latest : Verdicts \cup {"none"}, commit : 0..MaxHead,
                    ever : SUBSET Verdicts]
    <3>1. reviews[r].ever \in SUBSET Verdicts
      BY DEF EInv, ReviewsOK
    <3> HIDE DEF c
    <3> QED
      BY <1>3, <3>1
  <2>2. reviews' \in [Reviewers -> [latest : Verdicts \cup {"none"}, commit : 0..MaxHead,
                                   ever : SUBSET Verdicts]]
    <3> HIDE DEF review
    <3> QED
      BY <1>2, <2>1 DEF EInv, ReviewsOK
  <2> QED
    BY <1>1, <2>2 DEF EInv, ReviewsOK
<1>5. approvedAt \subseteq approvedAt' /\ approvedAt' \subseteq Heads
  BY <1>2, <1>3 DEF EInv, EndgameTypeOK
<1>6. reviews'["person"].latest = "approved" => reviews'["person"].commit \in approvedAt'
  <2>1. CASE approves
    BY <1>2, <2>1 DEF EInv, ReviewsOK, Reviewers
  <2>2. CASE ~approves
    BY <1>2, <2>2 DEF EInv, ReviewsOK, Reviewers, Approval
  <2> QED
    BY <2>1, <2>2
<1>7. EndgameTypeOK' /\ OwnWork' /\ Gated' /\ OnBranch' /\ MergedWasVerified'
  BY <1>1, <1>5 DEF EInv, EndgameTypeOK, OwnWork, Gated, Permitted, OnBranch,
                    MergedWasVerified, AutoMerged
<1>8. Approval' /\ PersonApprovedMerge'
  BY <1>1, <1>5, <1>6 DEF EInv, Approval, PersonApprovedMerge, AutoMerged
<1> QED
  BY <1>4, <1>7, <1>8 DEF EInv

\* Verdicts of CI and TFactory only add verified commits.
LEMMA CommitVerifiedEInv ==
    ASSUME EInv, NEW h \in Heads, CommitVerified(h)
    PROVE  EInv'
<1>1. /\ UNCHANGED <<task, reviewer, branch, pr, engine, reviews, approvedAt, handback, eg>>
      /\ verified \subseteq verified' /\ verified' \subseteq 1..branch.tip
  BY EndgameAssumption DEF CommitVerified, EInv, EndgameTypeOK, Heads
<1>2. EndgameTypeOK' /\ ReviewsOK' /\ Approval' /\ OwnWork' /\ Gated'
  BY <1>1 DEF EInv, EndgameTypeOK, ReviewsOK, Approval, OwnWork, Gated, Permitted
<1>3. OnBranch' /\ MergedWasVerified' /\ PersonApprovedMerge'
  BY <1>1 DEF EInv, OnBranch, MergedWasVerified, PersonApprovedMerge, AutoMerged
<1> QED
  BY <1>2, <1>3 DEF EInv

\* The external steps that touch neither branch nor reviews.
LEMMA EngineAndHandbackEInv ==
    ASSUME EInv,
           \/ ReceiveHandback \/ RecordReceipt
           \/ \E v \in Verdicts : EngineReview(v)
    PROVE  EInv'
<1>1. UNCHANGED <<task, reviewer, branch, pr, verified, reviews, approvedAt, eg>>
  BY DEF ReceiveHandback, RecordReceipt, EngineReview, github
<1>2. handback' \in HandbackRecord
  BY EgType DEF ReceiveHandback, RecordReceipt, EngineReview, HandbackRecord
<1>3. engine' \in Verdicts \cup {"pending"}
  BY DEF EInv, EndgameTypeOK, ReceiveHandback, RecordReceipt, EngineReview, github
<1>4. EndgameTypeOK' /\ ReviewsOK' /\ Approval' /\ OwnWork' /\ Gated'
  BY <1>1, <1>2, <1>3
     DEF EInv, EndgameTypeOK, ReviewsOK, Approval, OwnWork, Gated, Permitted, HandbackRecord
<1>5. OnBranch' /\ MergedWasVerified' /\ PersonApprovedMerge'
  BY <1>1 DEF EInv, OnBranch, MergedWasVerified, PersonApprovedMerge, AutoMerged
<1> QED
  BY <1>4, <1>5 DEF EInv

\* A conflict with the base merges nothing.
LEMMA BaseAdvancesEInv ==
    ASSUME EInv, BaseAdvances
    PROVE  EInv'
<1>1. /\ pr' \in PrRecord /\ pr'.merged = pr.merged /\ pr'.mergedBy = pr.mergedBy
  BY DEF BaseAdvances, EInv, EndgameTypeOK, PrRecord
<1>2. UNCHANGED <<task, reviewer, branch, verified, engine, reviews, approvedAt, handback,
                  eg>>
  BY DEF BaseAdvances
<1> QED
  BY <1>1, <1>2, PrStep DEF AutoMerged

\* What a person merges is not the endgame's merge.
LEMMA PersonDecidesEInv ==
    ASSUME EInv, NEW state \in {"merged", "closed"}, PersonDecides(state)
    PROVE  EInv'
<1>1. UNCHANGED <<task, reviewer, branch, verified, engine, reviews, approvedAt, handback,
                  eg>>
  BY DEF PersonDecides
<1>2. CASE Merged("person")
  <2>1. branch.tip \in 0..MaxHead /\ pr \in PrRecord
    BY EndgameAssumption DEF EInv, EndgameTypeOK, Heads, PrRecord
  <2>2. pr' = [pr EXCEPT !.state = "merged", !.merged = branch.tip, !.mergedBy = "person"]
    BY <1>2 DEF Merged
  <2>3. pr' \in PrRecord /\ pr'.mergedBy = "person"
    BY <2>1, <2>2 DEF PrRecord
  <2> QED
    BY <1>1, <2>3, PrStep DEF AutoMerged
<1>3. CASE pr' = [pr EXCEPT !.state = state]
  <2>1. /\ pr' \in PrRecord /\ pr'.merged = pr.merged /\ pr'.mergedBy = pr.mergedBy
    BY <1>3 DEF EInv, EndgameTypeOK, PrRecord
  <2> QED
    BY <1>1, <2>1, PrStep DEF AutoMerged
<1> QED
  BY <1>2, <1>3 DEF PersonDecides

-----------------------------------------------------------------------------
\* The reviews are those of the two reviewers.
LEMMA ReviewDomain == EInv => DOMAIN reviews = Reviewers
BY DEF EInv, ReviewsOK

\* Every step of the watcher and of the world keeps the invariant.
LEMMA NextEInv == EInv /\ [Next]_vars => EInv'
<1> SUFFICES ASSUME EInv, [Next]_vars PROVE EInv'
  OBVIOUS
<1>1. CASE EndgameStep
  <2>1. ASSUME NEW flag \in AutoMerge, DecidePolicy(flag) PROVE EInv'
    BY <2>1, DecidePolicyEInv
  <2> QED
    BY <1>1, <2>1, CreatePrEInv, PollEInv, FixEInv, ReadHeadEInv, ReadReviewsEInv,
       GateHeadEInv, CheckVetoEInv, CheckGateEInv, MergeEInv, ResolveEInv
       DEF EndgameStep
<1>2. CASE CrashRestart
  BY <1>2, BackStep DEF CrashRestart
<1>3. CASE External
  <2>1. ASSUME NEW v \in Verdicts, NEW r \in DOMAIN reviews, GithubReview(r, v) PROVE EInv'
    BY <2>1, ReviewDomain, GithubReviewEInv
  <2>2. ASSUME NEW h \in Heads, CommitVerified(h) PROVE EInv'
    BY <2>2, CommitVerifiedEInv
  <2>3. ASSUME NEW s \in {"merged", "closed"}, PersonDecides(s) PROVE EInv'
    BY <2>3, PersonDecidesEInv
  <2> QED
    BY <1>3, <2>1, <2>2, <2>3, PersonPushesEInv, BaseAdvancesEInv, EngineAndHandbackEInv
       DEF External
<1>4. CASE UNCHANGED vars
  <2>1. UNCHANGED <<task, reviewer, branch, pr, verified, engine, reviews, approvedAt,
                    handback, eg>>
    BY <1>4 DEF vars, github
  <2>2. pr' \in PrRecord
    BY <2>1 DEF EInv, EndgameTypeOK, PrRecord
  <2> QED
    BY <2>1, <2>2, PrStep DEF AutoMerged
<1> QED
  BY <1>1, <1>2, <1>3, <1>4 DEF Next

\* EInv holds in every reachable state.
LEMMA EInvHolds == Spec => []EInv
<1> QED
  BY InitEInv, NextEInv, PTL DEF Spec

-----------------------------------------------------------------------------
(* Theorems *)

\* Every variable of the endgame keeps its type, and the cycles stay within their
\* bounds.
THEOREM EndgameTypeCorrect == Spec => []EndgameTypeOK
<1>1. EInv => EndgameTypeOK
  BY DEF EInv
<1> QED
  BY <1>1, EInvHolds, PTL

\* pr_endgame.py (#637, #1695) -- a commit the endgame merges is verified, is not
\* its own work, and belongs to a task it may merge, whatever is pushed, reviewed
\* or handed back between its reads.
THEOREM OnlyVerifiedMerged == Spec => []MergedWasVerified
<1>1. EInv => MergedWasVerified
  BY DEF EInv
<1> QED
  BY <1>1, EInvHolds, PTL

\* pr_endgame.py (#1663) -- where the policy asks for a person, the merged commit
\* is one a person approved, also when others are pushed after the approval.
THEOREM OnlyApprovedMerged == Spec => []PersonApprovedMerge
<1>1. EInv => PersonApprovedMerge
  BY DEF EInv
<1> QED
  BY <1>1, EInvHolds, PTL

\* completion_orchestration.py (#543) -- every push of the endgame is on top of
\* all commits people have pushed.
THEOREM PushesKeepPeoplesWork == Spec => PersonCommitsKept
<1> DEFINE Kept == branch'.tip # branch.tip /\ branch'.by[branch'.tip] = "endgame"
                     => \A h \in Heads : h <= branch.tip /\ branch.by[h] = "person"
                                            => h <= branch.known
<1>1. EInv /\ [Next]_vars => [Kept]_vars
  <2> SUFFICES ASSUME EInv, Next, branch'.tip # branch.tip,
                      branch'.by[branch'.tip] = "endgame"
               PROVE  branch.known = branch.tip
    BY EndgameAssumption DEF Heads
  <2>1. Fix \/ Resolve \/ PersonPushes
    BY DEF Next, EndgameStep, External, CrashRestart, DecidePolicy, CreatePr, Poll,
           ReadHead, ReadReviews, GateHead, CheckVeto, CheckGate, Merge, ReceiveHandback,
           RecordReceipt, BaseAdvances, EngineReview, GithubReview, CommitVerified,
           PersonDecides, github
  <2>2. ~PersonPushes
    BY PushFacts DEF PersonPushes, EInv, EndgameTypeOK
  <2>3. PushWork
    BY <2>1, <2>2 DEF Fix, Resolve
  <2> QED
    BY <2>3 DEF PushWork, PushAccepted
<1> QED
  BY <1>1, EInvHolds, PTL DEF Spec, PersonCommitsKept

\* A handback on record outside the last two steps of a round keeps the watcher out
\* of them: only CheckVeto leads there, and it reads the row.
Vetoing == handback.row /\ eg.pc \notin {"evidence", "merge"} /\ ~AutoMerged

\* A recorded handback is never forgotten, and its veto never lapses.
LEMMA VetoStays == EInv /\ Vetoing /\ [Next]_vars => Vetoing'
<1> SUFFICES ASSUME EInv, Vetoing, [Next]_vars PROVE Vetoing'
  OBVIOUS
<1>1. handback'.row
  <2>1. CASE RunFixer
    BY <2>1, FixerType DEF Vetoing
  <2>2. CASE UNCHANGED handback
    BY <2>2 DEF Vetoing
  <2>3. CASE ReceiveHandback \/ RecordReceipt
    BY <2>3, EgType DEF Vetoing, ReceiveHandback, RecordReceipt, HandbackRecord
  <2> QED
    BY <2>1, <2>2, <2>3
       DEF Next, EndgameStep, External, CrashRestart, DecidePolicy, CreatePr, Poll, Fix,
           ReadHead, ReadReviews, GateHead, CheckVeto, CheckGate, Merge, Resolve,
           PersonPushes, BaseAdvances, EngineReview, GithubReview, CommitVerified,
           PersonDecides, vars
<1>2. eg'.pc \notin {"evidence", "merge"}
  <2>1. CASE EndgameStep
    <3>1. CASE CheckVeto
      <4>1. Goto("poll")
        BY <3>1 DEF CheckVeto, Vetoing, Vetoed
      <4> QED
        BY <4>1, EgType, GotoType DEF Pcs
    <3>2. CASE Poll
      <4>1. AfterReview \notin {"evidence", "merge"}
        BY DEF AfterReview
      <4>2. eg'.pc \in {AfterReview, eg.pc, "done"}
        BY <3>2, EgType DEF Poll, Goto, EgRecord
      <4> QED
        BY <4>1, <4>2 DEF Vetoing
    <3>3. CASE (\E flag \in AutoMerge : DecidePolicy(flag)) \/ CreatePr \/ Fix \/ ReadHead
      BY <3>3, EgType DEF DecidePolicy, CreatePr, Fix, ReadHead, Goto, EgRecord
    <3>4. CASE ReadReviews \/ GateHead \/ Resolve
      BY <3>4, EgType DEF ReadReviews, GateHead, Resolve, Goto, EgRecord
    <3>5. CASE CheckGate \/ Merge
      BY <3>5 DEF CheckGate, Merge, Vetoing
    <3> QED
      BY <2>1, <3>1, <3>2, <3>3, <3>4, <3>5 DEF EndgameStep
  <2>2. CASE CrashRestart
    BY <2>2, EgType DEF CrashRestart, Goto, EgRecord
  <2>3. CASE UNCHANGED eg
    BY <2>3 DEF Vetoing
  <2> QED
    BY <2>1, <2>2, <2>3
       DEF Next, External, PersonPushes, ReceiveHandback, RecordReceipt, BaseAdvances,
           EngineReview, GithubReview, CommitVerified, PersonDecides, vars
<1>3. ~AutoMerged'
  <2>1. CASE Merge
    BY <2>1 DEF Merge, Vetoing
  <2>2. CASE UNCHANGED pr
    BY <2>2 DEF Vetoing, AutoMerged
  <2>3. CASE CreatePr \/ Resolve \/ BaseAdvances
    BY <2>3 DEF CreatePr, Resolve, BaseAdvances, OpenPr, Vetoing, AutoMerged, EInv,
                EndgameTypeOK
  <2>4. ASSUME NEW s \in {"merged", "closed"}, PersonDecides(s) PROVE ~AutoMerged'
    BY <2>4 DEF PersonDecides, Merged, Vetoing, AutoMerged, EInv, EndgameTypeOK
  <2> QED
    BY <2>1, <2>2, <2>3, <2>4
       DEF Next, EndgameStep, External, CrashRestart, DecidePolicy, Poll, Fix, ReadHead,
           ReadReviews, GateHead, CheckVeto, CheckGate, PersonPushes, ReceiveHandback,
           RecordReceipt, EngineReview, GithubReview, CommitVerified, vars, github
<1> QED
  BY <1>1, <1>2, <1>3 DEF Vetoing

\* handback_receipt_store.py (#1696) -- from the moment a handback is on record,
\* unless the veto has just been read, the endgame never merges, whatever the QA
\* fixer deletes.
THEOREM HandbackVetoes == Spec => HandbackHolds
<1>1. Vetoing => ~AutoMerged
  BY DEF Vetoing
<1> QED
  BY <1>1, VetoStays, EInvHolds, PTL DEF Spec, HandbackHolds, Vetoing
=============================================================================
