---------------------------- MODULE IntakePoller ----------------------------
(***************************************************************************)
(* Label-driven intake: the poller loop of services/intake_poller.py, the  *)
(* decision logic of intake/poller.py, the two-phase claim table of        *)
(* intake/processed_store.py, and the handler of POST /api/tasks/from-issue*)
(* (routes/from_issue.py) that the poller calls.                           *)
(*                                                                         *)
(* A tick runs poll_once in a worker thread.  A tick that overruns its     *)
(* timeout is abandoned while its thread keeps running, so several workers *)
(* can be inside poll_once at once.  Likewise a POST whose answer does not *)
(* come within 10 s is given up while the server keeps working on it.      *)
(*                                                                         *)
(* Age is abstracted to fresh/stale around the 600 s that both             *)
(* RECLAIM_AFTER_S and the default requeue_after_s use.  One repository is *)
(* polled; an issue's tier is fixed ("low" stands for low and medium).     *)
(***************************************************************************)
EXTENDS Naturals, FiniteSets

CONSTANTS
    Issues,     \* open issues carrying a factory:<tier> label
    Workers,    \* threads that can be inside poll_once
    Slots,      \* from-issue requests the server can be working on
    MaxFaults,  \* bound on the faults of a behaviour
    Features    \* the faults that may happen

ASSUME IntakeAssumption ==
    /\ IsFiniteSet(Issues) /\ IsFiniteSet(Workers) /\ IsFiniteSet(Slots)
    /\ MaxFaults \in Nat
    /\ Features \subseteq {"provider", "storage", "timeout", "start-error",
                           "crash", "wipe", "lose-spec"}

None == "none"

NoClaim == [row |-> FALSE, confirmed |-> FALSE, stale |-> FALSE]
FreshClaim == [row |-> TRUE, confirmed |-> FALSE, stale |-> FALSE]

Idle == [pc |-> "idle", issue |-> None, seen |-> {}, sawQueued |-> {}]
FreeSlot == [phase |-> "free", issue |-> None, waiter |-> None]

VARIABLES
    tier,       \* the tier of each issue
    labels,     \* factory:queued and factory:failed on each issue
    claim,      \* the intake_processed row of each issue
    specs,      \* specs on disk stamped with each issue's number
    starts,     \* builds started for those specs
    planned,    \* issues PFactory has accepted
    lost,       \* issues whose spec was once removed
    worker,     \* the state of each poll_once thread
    tick,       \* the worker the loop is waiting for
    req,        \* the from-issue requests in the server
    faults

vars == <<tier, labels, claim, specs, starts, planned, lost, worker, tick,
          req, faults>>
board == <<specs, starts, planned, lost>>

Pcs == {"idle", "fetch", "next", "post", "posted", "confirm", "queued",
        "failed", "unmark", "heal_age", "heal_label", "heal_unmark"}

Init ==
    /\ tier \in [Issues -> {"low", "hard"}]
    /\ labels = [i \in Issues |-> {}]
    /\ claim = [i \in Issues |-> NoClaim]
    /\ specs = [i \in Issues |-> 0]
    /\ starts = [i \in Issues |-> 0]
    /\ planned = {}
    /\ lost = {}
    /\ worker = [w \in Workers |-> Idle]
    /\ tick = None
    /\ req = [s \in Slots |-> FreeSlot]
    /\ faults = 0

Fault(f) == /\ f \in Features
            /\ faults < MaxFaults
            /\ faults' = faults + 1

NoFault == UNCHANGED faults

(***************************************************************************)
(* One pass of poll_once.                                                  *)
(***************************************************************************)

\* poller_loop: the next tick hands poll_once to a thread and waits for it.
TickBegin(w) ==
    /\ tick = None
    /\ worker[w].pc = "idle"
    /\ tick' = w
    /\ worker' = [worker EXCEPT ![w].pc = "fetch"]
    /\ UNCHANGED <<tier, labels, claim, board, req, faults>>

\* poller_loop: wait_for times out; the thread is left to finish on its own.
TickAbandon ==
    /\ tick # None
    /\ tick' = None
    /\ UNCHANGED <<tier, labels, claim, board, worker, req, faults>>

\* The worker states that follow the end of one issue, and of the pass.
Move(w, pc) == worker' = [worker EXCEPT ![w].pc = pc]
IssueDone(w) == worker' = [worker EXCEPT ![w].pc = "next", ![w].issue = None]

\* _fetch_issues: the labels are read once, for the whole pass.
Fetch(w) ==
    /\ worker[w].pc = "fetch"
    /\ \/ /\ worker' = [worker EXCEPT ![w].pc = "next", ![w].seen = Issues,
                ![w].sawQueued = {i \in Issues : "queued" \in labels[i]}]
          /\ NoFault
       \/ /\ Fault("provider")
          /\ Move(w, "next")
    /\ UNCHANGED <<tier, labels, claim, board, tick, req>>

\* The end of the loop over the fetched issues; wait_for returns if it still waits.
PassEnds(w) ==
    /\ worker[w].pc = "next" /\ worker[w].seen = {}
    /\ worker' = [worker EXCEPT ![w] = Idle]
    /\ tick' = IF tick = w THEN None ELSE tick
    /\ UNCHANGED <<tier, labels, claim, board, req, faults>>

AtIssue(w, i) == worker[w].pc = "next" /\ i \in worker[w].seen

Take(w, i, pc) ==
    worker' = [worker EXCEPT ![w].pc = pc, ![w].issue = i, ![w].seen = @ \ {i}]
Skip(w, i) == worker' = [worker EXCEPT ![w].seen = @ \ {i}]

\* MUTANT of Claimable: one-phase claims, which no later tick can take over.
Claimable_once(c) == ~c.row

\* mark_processed: insert, or reclaim an unconfirmed row older than the cutoff.
Claimable(c) == ~c.row \/ (~c.confirmed /\ c.stale)

\* process_issue up to the claim, for an issue not seen queued.
ClaimIssue(w, i) ==
    /\ AtIssue(w, i) /\ i \notin worker[w].sawQueued
    /\ \/ /\ Claimable(claim[i])
          /\ claim' = [claim EXCEPT ![i] = FreshClaim]
          /\ Take(w, i, "post")
          /\ NoFault
       \/ /\ ~Claimable(claim[i])
          /\ Skip(w, i)
          /\ UNCHANGED claim /\ NoFault
       \/ /\ Fault("storage")
          /\ Skip(w, i)
          /\ UNCHANGED claim
    /\ UNCHANGED <<tier, labels, board, tick, req>>

\* _route_low_medium: the request enters the server.
PostFromIssue(w, s) ==
    LET i == worker[w].issue IN
    /\ worker[w].pc = "post" /\ tier[i] = "low"
    /\ req[s].phase = "free"
    /\ req' = [req EXCEPT ![s] = [phase |-> "fetching", issue |-> i, waiter |-> w]]
    /\ Move(w, "posted")
    /\ UNCHANGED <<tier, labels, claim, board, tick, faults>>

\* MUTANT of AfterPost: a POST that failed is taken for a finished route.
AfterPost_errorIsOk(answer) == IF answer = "refused" THEN "failed" ELSE "confirm"

\* _post_json: the answer decides what process_issue does next.
AfterPost(answer) ==
    CASE answer = "ok" -> "confirm"
      [] answer = "refused" -> "failed"    \* 4xx: TerminalIntakeError
      [] answer = "error" -> "unmark"      \* 5xx, unreachable, timed out

\* _route_hard: PFactory (external) may have accepted what it did not answer.
PostHard(w) ==
    LET i == worker[w].issue IN
    /\ worker[w].pc = "post" /\ tier[i] = "hard"
    /\ \/ /\ planned' = planned \union {i}
          /\ Move(w, AfterPost("ok")) /\ NoFault
       \/ /\ Move(w, AfterPost("refused"))
          /\ UNCHANGED planned /\ NoFault
       \/ /\ Fault("timeout")
          /\ planned' \in {planned, planned \union {i}}
          /\ Move(w, AfterPost("error"))
    /\ UNCHANGED <<tier, labels, claim, specs, starts, lost, tick, req>>

\* urlopen's timeout: the poller stops waiting, the server does not stop working.
PostTimeout(w) ==
    /\ worker[w].pc = "posted"
    /\ Fault("timeout")
    /\ req' = [s \in Slots |-> IF req[s].waiter = w
                               THEN [req[s] EXCEPT !.waiter = None] ELSE req[s]]
    /\ Move(w, AfterPost("error"))
    /\ UNCHANGED <<tier, labels, claim, board, tick>>

(***************************************************************************)
(* create_from_issue.                                                      *)
(***************************************************************************)

\* The response reaches the poster if it still waits, and the request is over.
Respond(s, answer) ==
    /\ req' = [req EXCEPT ![s] = FreeSlot]
    /\ worker' = IF req[s].waiter = None THEN worker
                 ELSE [worker EXCEPT ![req[s].waiter].pc = AfterPost(answer)]

\* 404, 400, 422: the project, the repository or the request is not acceptable.
RequestRefused(s) ==
    /\ req[s].phase = "fetching"
    /\ Respond(s, "refused")
    /\ UNCHANGED <<tier, labels, claim, board, tick, faults>>

\* 502: the provider did not return the issue.
RequestFetchFails(s) ==
    /\ req[s].phase = "fetching"
    /\ Fault("provider")
    /\ Respond(s, "error")
    /\ UNCHANGED <<tier, labels, claim, board, tick>>

\* MUTANT of Existing: only an issue whose build was started counts as ingested.
Existing_started(s) == starts[req[s].issue] > 0

\* _find_existing_spec
Existing(s) == specs[req[s].issue] > 0

\* After the fetch, lookup and _write_spec run without an await between them.
RequestResolves(s) ==
    LET i == req[s].issue IN
    /\ req[s].phase = "fetching"
    /\ IF Existing(s)
       THEN Respond(s, "ok") /\ UNCHANGED specs
       ELSE /\ specs' = [specs EXCEPT ![i] = @ + 1]
            /\ req' = [req EXCEPT ![s].phase = "starting"]
            /\ UNCHANGED worker
    /\ UNCHANGED <<tier, labels, claim, starts, planned, lost, tick, faults>>

\* _start_build: the agent service takes the task, or raises and the answer is 500.
RequestStarts(s) ==
    LET i == req[s].issue IN
    /\ req[s].phase = "starting"
    /\ \/ /\ starts' = [starts EXCEPT ![i] = @ + 1]
          /\ Respond(s, "ok") /\ NoFault
       \/ /\ Fault("start-error")
          /\ Respond(s, "error") /\ UNCHANGED starts
    /\ UNCHANGED <<tier, labels, claim, specs, planned, lost, tick>>

(***************************************************************************)
(* process_issue after the route.                                          *)
(***************************************************************************)

\* MUTANT of Confirmed: an upsert that leaves half a row when the claim is gone.
Confirmed_upsert(c) == [c EXCEPT !.confirmed = TRUE]

\* confirm_processed: an UPDATE, which changes nothing when the row is gone.
Confirmed(c) == [c EXCEPT !.confirmed = c.row]

ConfirmClaim(w) ==
    LET i == worker[w].issue IN
    /\ worker[w].pc = "confirm"
    /\ \/ claim' = [claim EXCEPT ![i] = Confirmed(@)] /\ NoFault
       \/ Fault("storage") /\ UNCHANGED claim
    /\ Move(w, "queued")
    /\ UNCHANGED <<tier, labels, board, tick, req>>

\* The label a finished route gets; a provider error is swallowed by _safe.
MarkIssue(w, pc, label) ==
    LET i == worker[w].issue IN
    /\ worker[w].pc = pc
    /\ \/ labels' = [labels EXCEPT ![i] = @ \union {label}] /\ NoFault
       \/ Fault("provider") /\ UNCHANGED labels
    /\ IssueDone(w)
    /\ UNCHANGED <<tier, claim, board, tick, req>>

ApplyQueued(w) == MarkIssue(w, "queued", "queued")

\* A terminal failure: the label and the comment; the claim is left as it is.
ApplyFailed(w) == MarkIssue(w, "failed", "failed")

\* unmark_processed after a transient failure.
Unmark(w, pc) ==
    LET i == worker[w].issue IN
    /\ worker[w].pc = pc
    /\ \/ claim' = [claim EXCEPT ![i] = NoClaim] /\ NoFault
       \/ Fault("storage") /\ UNCHANGED claim
    /\ IssueDone(w)
    /\ UNCHANGED <<tier, labels, board, tick, req>>

RollBack(w) == Unmark(w, "unmark")

(***************************************************************************)
(* _maybe_self_heal: a queued issue without a spec is opened again.        *)
(***************************************************************************)

\* _build_exists, for an issue seen queued; a hard issue's build is elsewhere.
HealCheckBuild(w, i) ==
    /\ AtIssue(w, i) /\ i \in worker[w].sawQueued
    /\ IF tier[i] = "hard" \/ specs[i] > 0 THEN Skip(w, i) ELSE Take(w, i, "heal_age")
    /\ UNCHANGED <<tier, labels, claim, board, tick, req, faults>>

\* claimed_at: no row, or a row within the grace, is left alone.
HealCheckAge(w) ==
    LET c == claim[worker[w].issue] IN
    /\ worker[w].pc = "heal_age"
    /\ \/ c.row /\ c.stale /\ Move(w, "heal_label") /\ NoFault
       \/ ~(c.row /\ c.stale) /\ IssueDone(w) /\ NoFault
       \/ Fault("storage") /\ IssueDone(w)
    /\ UNCHANGED <<tier, labels, claim, board, tick, req>>

\* _requeue, first half: an error here is swallowed and skips the second half.
HealUnlabel(w) ==
    LET i == worker[w].issue IN
    /\ worker[w].pc = "heal_label"
    /\ \/ /\ labels' = [labels EXCEPT ![i] = @ \ {"queued"}]
          /\ Move(w, "heal_unmark") /\ NoFault
       \/ /\ Fault("provider")
          /\ IssueDone(w) /\ UNCHANGED labels
    /\ UNCHANGED <<tier, claim, board, tick, req>>

\* _requeue, second half.
HealUnmark(w) == Unmark(w, "heal_unmark")

(***************************************************************************)
(* Time, restarts and what happens to the data from outside.               *)
(***************************************************************************)

\* The calls between a claim and its confirm are bounded (10 s for the POST,
\* 30 s for the database), so a claim does not go stale under its own route.
Routing(i) == \E w \in Workers : /\ worker[w].issue = i
                                 /\ worker[w].pc \in {"post", "posted", "confirm", "unmark"}

ClaimAges(i) ==
    /\ claim[i].row /\ ~claim[i].stale /\ ~Routing(i)
    /\ claim' = [claim EXCEPT ![i].stale = TRUE]
    /\ UNCHANGED <<tier, labels, board, worker, tick, req, faults>>

\* The pod rolls: threads and requests die, the table, labels and specs stay.
CrashRestart ==
    /\ Fault("crash")
    /\ worker' = [w \in Workers |-> Idle]
    /\ tick' = None
    /\ req' = [s \in Slots |-> FreeSlot]
    /\ UNCHANGED <<tier, labels, claim, board>>

\* The SQLite file is deleted.
WipeTable ==
    /\ Fault("wipe")
    /\ claim' = [i \in Issues |-> NoClaim]
    /\ UNCHANGED <<tier, labels, board, worker, tick, req>>

\* The spec directory of a task is removed (a deleted task, a lost workspace).
SpecRemoved(i) ==
    /\ specs[i] > 0
    /\ \A s \in Slots : req[s].issue # i
    /\ Fault("lose-spec")
    /\ specs' = [specs EXCEPT ![i] = 0]
    /\ starts' = [starts EXCEPT ![i] = 0]
    /\ lost' = lost \union {i}
    /\ UNCHANGED <<tier, labels, claim, planned, worker, tick, req>>

(***************************************************************************)
(* The specification.                                                      *)
(***************************************************************************)

Server(s) == \/ RequestRefused(s) \/ RequestFetchFails(s)
             \/ RequestResolves(s) \/ RequestStarts(s)

Thread(w) ==
    \/ Fetch(w) \/ PassEnds(w) \/ PostHard(w) \/ PostTimeout(w)
    \/ ConfirmClaim(w) \/ ApplyQueued(w) \/ ApplyFailed(w) \/ RollBack(w)
    \/ HealCheckAge(w) \/ HealUnlabel(w) \/ HealUnmark(w)
    \/ \E i \in Issues : ClaimIssue(w, i) \/ HealCheckBuild(w, i)
    \/ \E s \in Slots : PostFromIssue(w, s)

Next ==
    \/ \E w \in Workers : TickBegin(w) \/ Thread(w)
    \/ \E s \in Slots : Server(s)
    \/ \E i \in Issues : ClaimAges(i) \/ SpecRemoved(i)
    \/ TickAbandon \/ CrashRestart \/ WipeTable

Spec == Init /\ [][Next]_vars

\* The loop ticks for ever, every thread and request goes on (hung calls end:
\* the faults that make them fail are bounded), and time passes.
FairSpec ==
    /\ Spec
    /\ WF_vars(\E w \in Workers : TickBegin(w))
    /\ \A w \in Workers : WF_vars(Thread(w))
    /\ \A s \in Slots : WF_vars(Server(s))
    /\ \A i \in Issues : WF_vars(ClaimAges(i))

-----------------------------------------------------------------------------
(***************************************************************************)
(* Properties.                                                             *)
(***************************************************************************)

\* The variables have their types.
IntakeTypeOK ==
    /\ tier \in [Issues -> {"low", "hard"}]
    /\ labels \in [Issues -> SUBSET {"queued", "failed"}]
    /\ claim \in [Issues -> [row : BOOLEAN, confirmed : BOOLEAN, stale : BOOLEAN]]
    /\ \A i \in Issues : ~claim[i].row => claim[i] = NoClaim
    /\ specs \in [Issues -> Nat] /\ starts \in [Issues -> Nat]
    /\ planned \subseteq Issues /\ lost \subseteq Issues
    /\ worker \in [Workers -> [pc : Pcs, issue : Issues \union {None},
                               seen : SUBSET Issues, sawQueued : SUBSET Issues]]
    /\ tick \in Workers \union {None}
    /\ req \in [Slots -> [phase : {"free", "fetching", "starting"},
                          issue : Issues \union {None}, waiter : Workers \union {None}]]
    /\ faults \in 0..MaxFaults

\* However many workers, abandoned ticks, timed-out requests that go on in the
\* server, restarts and wiped tables there are, an issue has at most one spec
\* and that spec is started at most once (#878: no duplicate build).
OneBuildPerIssue == \A i \in Issues : specs[i] <= 1 /\ starts[i] <= specs[i]

\* A receiver has taken the issue.
Landed(i) == specs[i] > 0 \/ i \in planned

\* A confirmed claim, and the factory:queued label, are only ever put on an
\* issue that a receiver has taken: no route that failed hides its issue.
MarkedWasLanded ==
    \A i \in Issues : (claim[i].confirmed \/ "queued" \in labels[i])
                         => (Landed(i) \/ i \in lost)

\* Every labelled issue is taken by a receiver or reported with factory:failed,
\* whatever the faults (spec removal aside: see SelfHealCompletes).
EventuallyHandled ==
    \A i \in Issues : <>(Landed(i) \/ "failed" \in labels[i] \/ i \in lost)

\* An issue that lost its spec after it was queued is dispatched again
\* (poller.py: "clear the guard + release the claim so the next tick re-routes it").
SelfHealCompletes ==
    \A i \in Issues : (i \in lost /\ "queued" \in labels[i])
                         ~> (Landed(i) \/ "failed" \in labels[i])

\* A routed issue has a build (poller.py: a queued issue that never built is
\* re-opened).
QueuedIsBuilt ==
    \A i \in Issues : (tier[i] = "low" /\ "queued" \in labels[i])
                         ~> (starts[i] > 0)

\* Only a stranded claim is reclaimed, never that of an issue whose route ended
\* in factory:failed.
FailedNotReclaimed ==
    [][\A i \in Issues : ("failed" \in labels[i] /\ claim[i].row /\ claim[i].stale)
                            => claim'[i] # FreshClaim]_vars
=============================================================================
