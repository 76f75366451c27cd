------------------------------ MODULE PrEndgame ------------------------------
(***************************************************************************)
(* The end of a build: run_pr_endgame and its background watcher           *)
(* watch_and_finish (services/pr_endgame.py) open a pull request, wait for *)
(* the reviewer, the TFactory verdict and CI, and merge, while people, CI  *)
(* and TFactory act on the same PR.                                        *)
(*                                                                         *)
(* One task and its branch.  Commits are numbered in the order of their    *)
(* push; pushes of people, the verdicts of CI and TFactory on a commit,    *)
(* reviews, and GitHub's answers are external.  The gate wants both CI and *)
(* TFactory, so a commit is verified or not; red, failed and missing are   *)
(* the same to it.  Every gh or git call is a step of its own where what   *)
(* it reads can change before it is used.  The durable store is enabled.   *)
(***************************************************************************)
EXTENDS MergePolicy, FiniteSets

CONSTANTS
    Settings,    \* the tasks considered (records as described in MergePolicy), each
                 \* with the AIFACTORY_PR_REVIEWER it runs under
    AutoMerge,   \* the AIFACTORY_AUTO_MERGE settings considered
    MaxHead,     \* bound on the commits of the branch
    MaxPolls,    \* polls of watch_and_finish
    MaxFix,      \* max_fix_cycles
    MaxConflict, \* max_conflict_cycles
    MaxReviews,  \* bound on the reviews of people and Copilot
    MaxFaults    \* bound on failed calls and restarts

ASSUME EndgameAssumption ==
    /\ {MaxHead, MaxPolls, MaxFix, MaxConflict, MaxReviews, MaxFaults} \subseteq Nat
    /\ MaxHead > 0
    /\ \A s \in Settings : s = <<s[1], s[2]>> /\ s[2] \in {"aifactory", "copilot", "any"}
    /\ AutoMerge \subseteq BOOLEAN

Heads == 1..MaxHead
Verdicts == {"approved", "changes_requested"}

VARIABLES
    task,       \* the task's merge-relevant records
    reviewer,   \* who gates the merge
    branch,     \* the commits on origin: tip, who pushed each, and what the
                \* task's worktree last saw there
    pr,         \* the pull request: state, merged commit, by whom, no conflicts
    verified,   \* commits with green CI that TFactory triaged without a reject
    engine,     \* the stored verdict of AIFactory's review engine
    reviews,    \* GitHub reviews: each reviewer's latest, the commit it approves,
                \* and all states ever
    approvedAt, \* commits a person has approved at some time
    handback,   \* the TFactory handback: its request, the file and the database row
    eg,         \* the endgame
    count       \* what the bounds count

github == <<branch, pr, verified, engine, reviews, approvedAt>>
vars == <<task, reviewer, github, handback, eg, count>>

Init ==
    /\ \E s \in Settings : task = s[1] /\ reviewer = s[2]
    /\ branch = [tip |-> 1, by |-> [h \in Heads |-> "build"], known |-> 1]
    /\ pr = [state |-> "none", merged |-> 0, mergedBy |-> "nobody", clean |-> TRUE]
    /\ verified = {}
    /\ engine = "pending"
    /\ reviews = [r \in {"copilot", "person"} |->
                   [latest |-> "none", commit |-> 0, ever |-> {}]]
    /\ approvedAt = {}
    /\ handback = [pc |-> "none", file |-> FALSE, row |-> FALSE]
    /\ eg = [pc |-> "policy", auto |-> FALSE, human |-> FALSE, polls |-> 0, fix |-> 0,
             conflict |-> 0, match |-> 0]
    /\ count = [reviews |-> 0, faults |-> 0]

Uncounted == UNCHANGED count
Fault == /\ count.faults < MaxFaults
         /\ count' = [count EXCEPT !.faults = @ + 1]

\* match_head does not outlive a round of the watch.
Goto(pc) == eg' = [eg EXCEPT !.pc = pc, !.match = IF pc \in {"poll", "done"} THEN 0 ELSE @]

(***************************************************************************)
(* run_pr_endgame                                                          *)
(***************************************************************************)

\* The disposition with the evidence still to come, and once more as if a
\* person had approved.
Prospective(satisfied) == MergeDisposition(task, handback.file, TRUE, TRUE, satisfied)

\* The policy may only make AIFACTORY_AUTO_MERGE stricter.
DecidePolicy(flag) ==
    LET free == Prospective({}) = "auto-merge"
        gated == ~free /\ Prospective(HumanOnlyGates) = "auto-merge"
    IN  /\ eg.pc = "policy"
        /\ eg' = [eg EXCEPT !.pc = "create", !.human = flag /\ ~handback.row /\ gated,
                            !.auto = flag /\ ~handback.row /\ (free \/ gated)]
        /\ UNCHANGED <<task, reviewer, github, handback>> /\ Uncounted

\* gh pr create (external) opens a PR of the branch or reports the one that is open.
OpenPr == pr' = [pr EXCEPT !.state = "open"]

\* create_pr; a call that fails may have opened the PR all the same.
CreatePr ==
    /\ eg.pc = "create"
    /\ \/ /\ OpenPr /\ Uncounted
          /\ eg' = [eg EXCEPT !.pc = "poll", !.polls = MaxPolls]
       \/ /\ Fault /\ Goto("done")
          /\ OpenPr \/ UNCHANGED pr
    /\ UNCHANGED <<task, reviewer, branch, verified, engine, reviews, approvedAt,
                   handback>>

(***************************************************************************)
(* watch_and_finish                                                        *)
(***************************************************************************)

\* read_review_verdict over every review there ever was.
Ever == reviews["copilot"].ever \cup reviews["person"].ever
GithubVerdict == CASE "changes_requested" \in Ever -> "changes_requested"
                   [] "changes_requested" \notin Ever /\ "approved" \in Ever -> "approved"
                   [] OTHER -> "pending"

\* The verdict of one poll, and whether it satisfies the reviewer's gate.
Verdict == IF reviewer = "aifactory" THEN engine ELSE GithubVerdict
Approved == IF reviewer = "copilot" THEN "approved" \in reviews["copilot"].ever
            ELSE Verdict = "approved"

\* The fixers are wired for AIFactory's own reviewer only.
HasFixers == reviewer = "aifactory"

\* MUTANT of AfterReview: one fix cycle too many.
AfterReview_oneMore ==
    CASE Verdict = "changes_requested" ->
            IF HasFixers /\ eg.fix <= MaxFix THEN "fix" ELSE "done"
      [] Verdict # "changes_requested" /\ Approved ->
            IF ~eg.auto THEN "done" ELSE IF eg.human THEN "approval" ELSE "gate"
      [] OTHER -> "poll"

AfterReview ==
    CASE Verdict = "changes_requested" ->
            IF HasFixers /\ eg.fix < MaxFix THEN "fix" ELSE "done"
      [] Verdict # "changes_requested" /\ Approved ->
            IF ~eg.auto THEN "done" ELSE IF eg.human THEN "approval" ELSE "gate"
      [] OTHER -> "poll"

\* MUTANT of Poll: a poll is not counted and has no deadline.
Poll_unbounded ==
    /\ eg.pc = "poll"
    /\ Goto(AfterReview)
    /\ UNCHANGED <<task, reviewer, github, handback>> /\ Uncounted

\* One poll; a failed read is a pending verdict, the deadline an early end.
Poll ==
    /\ eg.pc = "poll"
    /\ \/ /\ eg.polls > 0
          /\ eg' = [eg EXCEPT !.pc = AfterReview, !.polls = @ - 1]
       \/ /\ eg.polls > 0
          /\ eg' = [eg EXCEPT !.polls = @ - 1]
       \/ Goto("done")
    /\ UNCHANGED <<task, reviewer, github, handback>> /\ Uncounted

\* A commit pushed by who becomes the tip, known to the worktree if it is its own.
Push(who) ==
    /\ branch.tip < MaxHead
    /\ branch' = [tip |-> branch.tip + 1,
                  by |-> [branch.by EXCEPT ![branch.tip + 1] = who],
                  known |-> IF who = "endgame" THEN branch.tip + 1 ELSE branch.known]

\* MUTANT of PushAccepted: push --force.
PushAccepted_force == TRUE

\* Whether origin takes the worktree's push: a plain push needs a fast-forward, a
\* push with lease needs origin where the worktree last saw it.
PushAccepted == branch.known = branch.tip

\* A push of what the QA fixer or the rebase made of the worktree, if anything.
PushWork == PushAccepted /\ (Push("endgame") \/ UNCHANGED branch)

\* apply_correction writes the receipt file, and the QA fixer may delete it.
RunFixer == handback' \in {[handback EXCEPT !.file = b] : b \in BOOLEAN}

\* fix_fn: the QA fixer, then git push; a refused push or an error ends the watch.
Fix ==
    /\ eg.pc = "fix"
    /\ RunFixer
    /\ \/ /\ PushWork /\ Uncounted
          /\ eg' = [eg EXCEPT !.pc = "poll", !.fix = @ + 1]
       \/ /\ \/ ~PushAccepted /\ Uncounted
             \/ Fault
          /\ eg' = [eg EXCEPT !.pc = "done", !.fix = @ + 1]
          /\ UNCHANGED branch
    /\ UNCHANGED <<task, reviewer, pr, verified, engine, reviews, approvedAt>>

\* human_approval_head reads the head first,
ReadHead ==
    /\ eg.pc = "approval"
    /\ eg' = [eg EXCEPT !.pc = "reviews", !.match = branch.tip]
    /\ UNCHANGED <<task, reviewer, github, handback>> /\ Uncounted

\* MUTANT of HumanApproved: an approval of whatever commit.
HumanApproved_anyCommit == reviews["person"].latest = "approved"

\* then the reviews: a person's latest decisive one approves that head, and nobody
\* else's stands against it.
HumanApproved ==
    /\ reviews["person"].latest = "approved" /\ reviews["person"].commit = eg.match
    /\ reviews["copilot"].latest # "changes_requested"

ReadReviews ==
    /\ eg.pc = "reviews"
    /\ Goto(IF HumanApproved THEN "gate" ELSE "poll")
    /\ UNCHANGED <<task, reviewer, github, handback>> /\ Uncounted

\* MUTANT of EndgamePushed: only a resolved conflict counts.
EndgamePushed_conflictOnly == eg.conflict > 0

\* The tip may be the endgame's own work.
EndgamePushed == eg.fix > 0 \/ eg.conflict > 0

\* The head the gate will judge: the approved one, else the PR's tip.
GateHead ==
    /\ eg.pc = "gate"
    /\ IF EndgamePushed THEN Goto("done")
       ELSE eg' = [eg EXCEPT !.pc = "veto", !.match = IF eg.human THEN @ ELSE branch.tip]
    /\ UNCHANGED <<task, reviewer, github, handback>> /\ Uncounted

\* MUTANT of Vetoed: the receipt row is only looked at when the PR is opened.
Vetoed_atOpenOnly == FALSE

\* on_record
Vetoed == handback.row

\* _with_receipt_veto; a failed lookup vetoes.
CheckVeto ==
    /\ eg.pc = "veto"
    /\ \/ Goto(IF Vetoed THEN "poll" ELSE "evidence") /\ Uncounted
       \/ Goto("poll") /\ Fault
    /\ UNCHANGED <<task, reviewer, github, handback>>

\* The merge gate of eg.match.
GateGreen ==
    MergeDisposition(task, handback.file, eg.match \in verified, TRUE,
                     IF eg.human THEN HumanOnlyGates ELSE {}) = "auto-merge"

\* A red or missing signal keeps polling.
CheckGate ==
    /\ eg.pc = "evidence"
    /\ \/ Goto(IF GateGreen THEN "merge" ELSE "poll") /\ Uncounted
       \/ Goto("poll") /\ Fault
    /\ UNCHANGED <<task, reviewer, github, handback>>

\* MUTANT of MergeAccepted: gh pr merge without --match-head-commit.
MergeAccepted_anyHead == pr.state = "open" /\ pr.clean

\* gh pr merge --match-head-commit (external): what GitHub accepts.
MergeAccepted == pr.state = "open" /\ pr.clean /\ branch.tip = eg.match

\* The PR is merged at the tip by who.
Merged(who) == pr' = [pr EXCEPT !.state = "merged", !.merged = branch.tip,
                               !.mergedBy = who]

\* merge_pr; whatever made it fail, a lost answer included, conflicts are next.
Merge ==
    /\ eg.pc = "merge"
    /\ \/ /\ MergeAccepted /\ Merged("endgame")
          /\ Goto("done") /\ Uncounted
       \/ /\ \/ ~MergeAccepted /\ UNCHANGED pr /\ Uncounted
             \/ UNCHANGED pr /\ Fault
             \/ MergeAccepted /\ Merged("endgame") /\ Fault
          /\ IF HasFixers /\ eg.conflict < MaxConflict
             THEN eg' = [eg EXCEPT !.pc = "resolve", !.conflict = @ + 1]
             ELSE Goto("done")
    /\ UNCHANGED <<task, reviewer, branch, verified, engine, reviews, approvedAt,
                   handback>>

\* resolve_pr_conflicts and the push with lease.
Resolve ==
    /\ eg.pc = "resolve"
    /\ RunFixer \/ UNCHANGED handback
    /\ \/ /\ PushWork /\ Uncounted
          /\ pr' = [pr EXCEPT !.clean = TRUE]
          /\ Goto("poll")
       \/ /\ \/ ~PushAccepted /\ Uncounted
             \/ Fault
          /\ Goto("done") /\ UNCHANGED <<branch, pr>>
    /\ UNCHANGED <<task, reviewer, verified, engine, reviews, approvedAt>>

(***************************************************************************)
(* People, GitHub, CI, TFactory and restarts (external)                    *)
(***************************************************************************)

PersonPushes ==
    /\ pr.state = "open"
    /\ Push("person")
    /\ UNCHANGED <<task, reviewer, pr, verified, engine, reviews, approvedAt, handback,
                   eg, count>>

GithubReview(r, verdict) ==
    /\ pr.state = "open" /\ count.reviews < MaxReviews
    /\ reviews' = [reviews EXCEPT ![r] =
                     [latest |-> verdict, ever |-> @.ever \cup {verdict},
                      commit |-> IF r = "person" /\ verdict = "approved" THEN branch.tip
                                 ELSE 0]]
    /\ approvedAt' = IF r = "person" /\ verdict = "approved"
                     THEN approvedAt \cup {branch.tip} ELSE approvedAt
    /\ count' = [count EXCEPT !.reviews = @ + 1]
    /\ UNCHANGED <<task, reviewer, branch, pr, verified, engine, handback, eg>>

\* The review engine stores a verdict (start_review, at the opening or after a fix).
EngineReview(verdict) ==
    /\ pr.state = "open" /\ reviewer = "aifactory"
    /\ count.reviews < MaxReviews
    /\ engine' = verdict
    /\ count' = [count EXCEPT !.reviews = @ + 1]
    /\ UNCHANGED <<task, reviewer, branch, pr, verified, reviews, approvedAt, handback,
                   eg>>

\* CI and TFactory are both done with a commit.
CommitVerified(h) ==
    /\ h <= branch.tip /\ h \notin verified
    /\ verified' = verified \cup {h}
    /\ UNCHANGED <<task, reviewer, branch, pr, engine, reviews, approvedAt, handback, eg,
                   count>>

\* TFactory hands the build back: apply_correction writes the receipt file and
\* starts the QA fixer, which may delete it,
ReceiveHandback ==
    /\ handback.pc = "none"
    /\ \E b \in BOOLEAN : handback' = [handback EXCEPT !.pc = "record", !.file = b]
    /\ UNCHANGED <<task, reviewer, github, eg, count>>

\* and record writes the durable copy, or logs that it could not.
RecordReceipt ==
    /\ handback.pc = "record"
    /\ \/ handback' = [handback EXCEPT !.pc = "done", !.row = TRUE] /\ Uncounted
       \/ handback' = [handback EXCEPT !.pc = "done"] /\ Fault
    /\ UNCHANGED <<task, reviewer, github, eg>>

BaseAdvances ==
    /\ pr.state = "open" /\ pr.clean /\ Fault
    /\ pr' = [pr EXCEPT !.clean = FALSE]
    /\ UNCHANGED <<task, reviewer, branch, verified, engine, reviews, approvedAt,
                   handback, eg>>

\* A person merges the PR or closes it.
PersonDecides(state) ==
    /\ pr.state = "open"
    /\ IF state = "merged" THEN Merged("person") ELSE pr' = [pr EXCEPT !.state = state]
    /\ UNCHANGED <<task, reviewer, branch, verified, engine, reviews, approvedAt,
                   handback, eg, count>>

\* The server restarts: the watcher is gone for good (its marker says it ran).
CrashRestart ==
    /\ eg.pc # "done" /\ Fault
    /\ Goto("done")
    /\ UNCHANGED <<task, reviewer, github, handback>>

-----------------------------------------------------------------------------
EndgameStep == \/ \E flag \in AutoMerge : DecidePolicy(flag)
               \/ CreatePr \/ Poll \/ Fix \/ ReadHead \/ ReadReviews \/ GateHead
               \/ CheckVeto \/ CheckGate \/ Merge \/ Resolve

External ==
    \/ PersonPushes \/ ReceiveHandback \/ RecordReceipt \/ BaseAdvances
    \/ \E v \in Verdicts : EngineReview(v) \/ \E r \in DOMAIN reviews : GithubReview(r, v)
    \/ \E h \in Heads : CommitVerified(h)
    \/ \E s \in {"merged", "closed"} : PersonDecides(s)

\* What happens to the PR after the watch is nothing to the endgame.
Next == \/ EndgameStep \/ CrashRestart
        \/ eg.pc # "done" /\ External

Spec == Init /\ [][Next]_vars

\* The watcher is a task of the running server; the rest of the world owes nothing.
FairSpec == Spec /\ WF_vars(EndgameStep)

-----------------------------------------------------------------------------
(***************************************************************************)
(* Properties                                                              *)
(***************************************************************************)

\* The variables have their types.
EndgameTypeOK ==
    /\ <<task, reviewer>> \in Settings
    /\ branch \in [tip : Heads, by : [Heads -> {"build", "endgame", "person"}],
                   known : Heads]
    /\ branch.known <= branch.tip
    /\ pr \in [state : {"none", "open", "merged", "closed"},
               merged : 0..MaxHead, mergedBy : {"nobody", "endgame", "person"},
               clean : BOOLEAN]
    /\ verified \subseteq 1..branch.tip
    /\ engine \in Verdicts \cup {"pending"}
    /\ approvedAt \subseteq Heads
    /\ handback \in [pc : {"none", "record", "done"}, file : BOOLEAN, row : BOOLEAN]
    /\ eg \in [pc : {"policy", "create", "poll", "fix", "approval", "reviews", "gate",
                     "veto", "evidence", "merge", "resolve", "done"},
               auto : BOOLEAN, human : BOOLEAN, polls : 0..MaxPolls, fix : 0..MaxFix,
               conflict : 0..MaxConflict, match : 0..MaxHead]

AutoMerged == pr.mergedBy = "endgame"

\* The commit the endgame merged is one that TFactory passed and CI passed, that
\* the endgame did not push itself, and the task's policy lets it merge by itself
\* (#637, #1695), whatever was pushed, reviewed or handed back in between.
MergedWasVerified ==
    AutoMerged => /\ pr.merged \in verified
                  /\ branch.by[pr.merged] # "endgame"
                  /\ ~task.risky /\ ~task.metaRed /\ EffectiveTier(task) = "low"

\* A task whose policy asks for a person is merged only at a commit a person
\* approved (#1663).
PersonApprovedMerge ==
    (AutoMerged /\ "human-approval" \in task.gates) => pr.merged \in approvedAt

\* A handback that is on record before the veto is read keeps the endgame from
\* merging for ever, also when the QA fixer has deleted the receipt file (#1696).
HandbackHolds ==
    [](handback.row /\ eg.pc \notin {"evidence", "merge"} /\ ~AutoMerged => []~AutoMerged)

\* No push of the endgame throws away a commit a person pushed (#543: with lease).
PersonCommitsKept ==
    [][branch'.tip # branch.tip /\ branch'.by[branch'.tip] = "endgame"
         => \A h \in Heads : h <= branch.tip /\ branch.by[h] = "person" => h <= branch.known]_vars

\* The endgame always ends: merged, or left to a person.
EndgameEnds == <>(eg.pc = "done")

\* pr_endgame.py:968 "the overall latest-per-reviewer signal": a review that its
\* author has replaced no longer counts.
VerdictIsLatest ==
    LET latest == {reviews[r].latest : r \in DOMAIN reviews} IN
    GithubVerdict = (CASE "changes_requested" \in latest -> "changes_requested"
                       [] "changes_requested" \notin latest /\ "approved" \in latest ->
                            "approved"
                       [] OTHER -> "pending")
=============================================================================
