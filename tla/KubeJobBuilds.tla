---------------------------- MODULE KubeJobBuilds ----------------------------
(***************************************************************************)
(* Builds that run as Kubernetes Jobs: AgentService's k8s-Job side         *)
(* (server/services/agent_kubejob.py) over KubeJobBuildBackend             *)
(* (build_backend.py), the durable store and the credential pool.          *)
(*                                                                         *)
(* A replica dispatches a Job for every granted row and keeps three sets   *)
(* in memory: the builds it believes live (is_running), those dispatched   *)
(* since the current reconcile began, and the tasks whose dispatch raised  *)
(* and whose credential is held until their Job is known to be gone.  One  *)
(* loop per replica polls the rows, reaps rows whose Job ended or          *)
(* vanished, checks the held credentials and sweeps orphan Jobs.  Every    *)
(* await is a step boundary: launches, stops, Jobs and the loops of other  *)
(* replicas interleave with each step of a loop.                           *)
(*                                                                         *)
(* Abstractions: logs, the console, plan status and usage reports are left *)
(* out; a hook's bookkeeping and the drain that ends it are one step.  A   *)
(* drain called by a loop is awaited by it: the loop does not go on while  *)
(* a launch of its own drain is in flight.  A task has at most one launch  *)
(* and one stop in flight.  Bounds: at most MaxStarts start requests and   *)
(* MaxFaults faults.                                                       *)
(***************************************************************************)
EXTENDS JobStateStore, ClaudeTokenPool

CONSTANTS
    Pods,          \* replicas
    JobName,       \* task -> name of its Job (job_dispatch._short keeps 20 characters)
    SweepDeletes,  \* AIFACTORY_SWEEP_DRY_RUN=false
    MaxStarts,     \* start requests users make
    MaxFaults,     \* faults of the environment
    Features       \* what may happen besides, see EnvironmentFeatures

EnvironmentFeatures == {"stop", "store-error", "api-error", "crash", "pool-reset"}
Names == {JobName[j] : j \in Jobs}

ASSUME NamesOfJobs == DOMAIN JobName = Jobs
ASSUME KubeBounds == MaxStarts \in Nat /\ MaxFaults \in Nat /\ SweepDeletes \in BOOLEAN
ASSUME FeaturesKnown == Features \subseteq EnvironmentFeatures

VARIABLES
    kjob,        \* name -> the Job object
    launch,      \* task -> its launch: pc, pod, who waits for it, credential
    stop,        \* task -> its stop: pc, pod
    loop,        \* pod -> the reconcile loop
    active,      \* pod -> _active_kubejob_task_ids
    dispatched,  \* pod -> _kubejob_dispatched_this_tick
    held,        \* pod -> _held_credentials
    pool,        \* pod -> its credential pool
    starts, faults

kubeVars == <<kjob, launch, stop, loop, active, dispatched, held, pool, starts, faults>>
vars == <<storeVars, kubeVars>>

NoJob == [st |-> "none"]
NoLaunch == [pc |-> "none"]
NoStop == [pc |-> "none"]
IdleLoop == [pc |-> "idle"]

Init ==
    /\ StoreInit
    /\ kjob = [n \in Names |-> NoJob]
    /\ launch = [j \in Jobs |-> NoLaunch]
    /\ stop = [j \in Jobs |-> NoStop]
    /\ loop = [p \in Pods |-> IdleLoop]
    /\ active = [p \in Pods |-> {}]
    /\ dispatched = [p \in Pods |-> {}]
    /\ held = [p \in Pods |-> {}]
    /\ pool = [p \in Pods |-> NewPool(Jobs)]
    /\ starts = 0 /\ faults = 0

Fault(f) == f \in Features /\ faults < MaxFaults /\ faults' = faults + 1
NoFault == UNCHANGED faults

ReleaseCredential(p, j) == pool' = [pool EXCEPT ![p] = Release(@, j)]

-----------------------------------------------------------------------------
(* Launches: start_task_execution or a drain, then _dispatch_build_job *)

Granted(p, by) == [pc |-> "granted", pod |-> p, by |-> by]

StartTask(p, j) ==
    /\ starts < MaxStarts /\ starts' = starts + 1
    /\ launch[j] = NoLaunch
    /\ Admit(j)
    /\ launch' = IF HasFreeSlot THEN [launch EXCEPT ![j] = Granted(p, "request")] ELSE launch
    /\ UNCHANGED <<kjob, stop, loop, active, dispatched, held, pool, faults>>

\* _drain_queue_durable: the promoted rows are dispatched by the caller.
DrainFrom(p, by) ==
    \E S \in SUBSET Queued :
        /\ \A j \in S : launch[j] = NoLaunch
        /\ Drain(S)
        /\ launch' = [j \in Jobs |-> IF j \in S THEN Granted(p, by) ELSE launch[j]]

\* A loop's drain launches one promoted row after the other.
Turn(j) ==
    launch[j].by = "loop" =>
        \A k \in Jobs \ {j} : launch[k].pc \notin {"none", "granted"} => launch[k].by # "loop"

\* _resolve_claude_token_pooled; what follows until the Job is created awaits.
CheckoutToken(j) ==
    LET p == launch[j].pod
    IN  /\ launch[j].pc = "granted" /\ Turn(j)
        /\ pool' = [pool EXCEPT ![p] = Checkout(@, j)]
        /\ launch' = [launch EXCEPT ![j] = [pc |-> "prepared", pod |-> p, by |-> @.by,
                                            cred |-> pool'[p].checkedOut[j]]]
        /\ UNCHANGED <<storeVars, kjob, stop, loop, active, dispatched, held, starts, faults>>

NewJob_noToken(j) == [st |-> "active", task |-> j, cred |-> NoCred, old |-> FALSE]

NewJob(j) == [st |-> "active", task |-> j, cred |-> launch[j].cred, old |-> FALSE]

CreateJob(j) ==
    /\ launch[j].pc = "prepared" /\ kjob[JobName[j]] = NoJob
    /\ kjob' = [kjob EXCEPT ![JobName[j]] = NewJob(j)]
    /\ launch' = [launch EXCEPT ![j].pc = "created"]
    /\ UNCHANGED <<storeVars, stop, loop, active, dispatched, held, pool, starts, faults>>

DispatchRaises_unheld(j) ==
    /\ launch' = [launch EXCEPT ![j].pc = "failed"]
    /\ UNCHANGED <<stop, loop, active, dispatched, held, pool, starts>>

\* Any raise of dispatch: hold the credential until the Job is seen gone.
DispatchRaises(j) ==
    /\ held' = [held EXCEPT ![launch[j].pod] = @ \cup {j}]
    /\ launch' = [launch EXCEPT ![j].pc = "failed"]
    /\ UNCHANGED <<stop, loop, active, dispatched, pool, starts>>

\* The name is taken (409), or the worktree, environment or API call fails; a
\* failed call may have created the Job.
CreateRaises(j) ==
    /\ launch[j].pc = "prepared"
    /\ \/ kjob[JobName[j]] # NoJob /\ UNCHANGED kjob /\ NoFault
       \/ Fault("api-error") /\ UNCHANGED kjob
       \/ /\ Fault("api-error") /\ kjob[JobName[j]] = NoJob
          /\ kjob' = [kjob EXCEPT ![JobName[j]] = NewJob(j)]
    /\ DispatchRaises(j)
    /\ UNCHANGED storeVars

WriteRef(j) ==
    /\ launch[j].pc = "created"
    /\ SetWorkerRef(j)
    /\ launch' = [launch EXCEPT ![j].pc = "recorded"]
    /\ UNCHANGED <<kjob, stop, loop, active, dispatched, held, pool, starts, faults>>

\* The ref write fails: roll the Job back (#1677), best effort.
WriteRefRaises(j) ==
    /\ launch[j].pc = "created"
    /\ Fault("store-error")
    /\ kjob' \in {kjob, [kjob EXCEPT ![JobName[j]] = NoJob]}
    /\ DispatchRaises(j)
    /\ UNCHANGED storeVars

\* The build is live from here (#1662), and owns its credential (#1714).
MarkLive(j) ==
    LET p == launch[j].pod
    IN  /\ launch[j].pc = "recorded"
        /\ active' = [active EXCEPT ![p] = @ \cup {j}]
        /\ held' = [held EXCEPT ![p] = @ \ {j}]
        /\ dispatched' = [dispatched EXCEPT ![p] = @ \cup {j}]
        /\ launch' = [launch EXCEPT ![j] = NoLaunch]
        /\ UNCHANGED <<storeVars, kjob, stop, loop, pool, starts, faults>>

\* The caller frees the slot; the write may fail too.
LaunchFailed(j) ==
    /\ launch[j].pc = "failed"
    /\ \/ MarkTerminal(j, "failed", TRUE) /\ NoFault
       \/ Fault("store-error") /\ UNCHANGED storeVars
    /\ launch' = [launch EXCEPT ![j] = NoLaunch]
    /\ UNCHANGED <<kjob, stop, loop, active, dispatched, held, pool, starts>>

LaunchStep(j) == \/ CheckoutToken(j) \/ CreateJob(j) \/ CreateRaises(j) \/ WriteRef(j)
                 \/ WriteRefRaises(j) \/ MarkLive(j) \/ LaunchFailed(j)

-----------------------------------------------------------------------------
(* _stop_kubejob_build *)

OwnedByJob(j) == row[j].state = "running" /\ row[j].kind = "k8s-job"

StopBegin(p, j) ==
    /\ "stop" \in Features
    /\ stop[j] = NoStop /\ OwnedByJob(j)
    /\ stop' = [stop EXCEPT ![j] = [pc |-> "delete", pod |-> p]]
    /\ UNCHANGED <<storeVars, kjob, launch, loop, active, dispatched, held, pool, starts, faults>>

\* delete_job reads the row again and deletes by name; a failure is ignored.
StopDelete(j) ==
    /\ stop[j].pc = "delete"
    /\ \/ /\ kjob' = IF row[j].kind = "k8s-job" THEN [kjob EXCEPT ![JobName[j]] = NoJob] ELSE kjob
          /\ NoFault
       \/ Fault("api-error") /\ UNCHANGED kjob
    /\ stop' = [stop EXCEPT ![j].pc = "mark"]
    /\ UNCHANGED <<storeVars, launch, loop, active, dispatched, held, pool, starts>>

StopMark(j) ==
    /\ stop[j].pc = "mark"
    /\ \/ MarkTerminal(j, "failed", TRUE) /\ NoFault
       \/ Fault("store-error") /\ UNCHANGED storeVars
    /\ stop' = [stop EXCEPT ![j].pc = "release"]
    /\ UNCHANGED <<kjob, launch, loop, active, dispatched, held, pool, starts>>

StopRelease(j) ==
    /\ stop[j].pc = "release"
    /\ ReleaseCredential(stop[j].pod, j)
    /\ DrainFrom(stop[j].pod, "request")
    /\ stop' = [stop EXCEPT ![j] = NoStop]
    /\ UNCHANGED <<kjob, loop, active, dispatched, held, starts, faults>>

StopStep(j) == StopDelete(j) \/ StopMark(j) \/ StopRelease(j)

-----------------------------------------------------------------------------
(* The loop: reconcile_kubejob_builds *)

ActiveRows_claimedOnly == {j \in Running : row[j].kind = "k8s-job"}

\* get_active_kubejobs: running rows of a Job, or granted and unclaimed.
ActiveRows == {j \in Running : row[j].kind \in {"k8s-job", "pending"}}

\* A loop waits for the launches its own drain started.
At(p, pc) ==
    /\ loop[p].pc = pc
    /\ \A j \in Jobs : launch[j] # NoLaunch => launch[j].pod # p \/ launch[j].by # "loop"
Goto(p, l) == loop' = [loop EXCEPT ![p] = l]
Polling(todo, live, out) == [pc |-> "poll", todo |-> todo, live |-> live, out |-> out]

\* The set is reset before the first await (#1662).
ReconcileBegin(p) ==
    /\ At(p, "idle")
    /\ dispatched' = [dispatched EXCEPT ![p] = {}]
    /\ Goto(p, [pc |-> "read"])
    /\ UNCHANGED <<storeVars, kjob, launch, stop, active, held, pool, starts, faults>>

\* A failed read leaves the previous answer standing.
ReconcileRead(p) ==
    /\ At(p, "read")
    /\ \/ Goto(p, Polling(ActiveRows, {}, FALSE)) /\ NoFault
       \/ Fault("store-error") /\ Goto(p, [pc |-> "reap"])
    /\ UNCHANGED <<storeVars, kjob, launch, stop, active, dispatched, held, pool, starts>>

\* reconcile_by_poll reads the row again; a row it cannot read keeps its last
\* answer (#1693).
Poll(p, j) ==
    LET l == loop[p]
        stillLive(S) == Polling(l.todo \ {j}, l.live \cup S, l.out)
    IN  /\ At(p, "poll") /\ j \in l.todo
        /\ \/ row[j].state \in TerminalStates /\ NoFault
              /\ Goto(p, [pc |-> "polled", todo |-> l.todo \ {j}, live |-> l.live, out |-> TRUE,
                          cur |-> j])
           \/ row[j].state \notin TerminalStates /\ NoFault /\ Goto(p, stillLive({j}))
           \/ Fault("store-error") /\ Goto(p, stillLive(active[p] \cap {j}))
        /\ UNCHANGED <<storeVars, kjob, launch, stop, active, dispatched, held, pool, starts>>

\* After the console is reaped, the finished build's credential goes back.
PollRelease(p) ==
    LET l == loop[p]
    IN  /\ At(p, "polled")
        /\ ReleaseCredential(p, l.cur)
        /\ Goto(p, Polling(l.todo, l.live, l.out))
        /\ UNCHANGED <<storeVars, kjob, launch, stop, active, dispatched, held, starts, faults>>

PublishedLive_polledOnly(p) == loop[p].live

\* The rows of this tick, and what was dispatched while it was reading.
PublishedLive(p) == loop[p].live \cup dispatched[p]

\* Replace the live set wholesale; drain when a build finished.
Publish(p) ==
    /\ At(p, "poll") /\ loop[p].todo = {}
    /\ active' = [active EXCEPT ![p] = PublishedLive(p)]
    /\ IF loop[p].out THEN DrainFrom(p, "loop") ELSE UNCHANGED <<storeVars, launch>>
    /\ Goto(p, [pc |-> "reap"])
    /\ UNCHANGED <<kjob, stop, dispatched, held, pool, starts, faults>>

ReconcileStep(p) == \/ ReconcileBegin(p) \/ ReconcileRead(p) \/ PollRelease(p) \/ Publish(p)
                    \/ \E j \in Jobs : Poll(p, j)

-----------------------------------------------------------------------------
(* The loop: reap_vanished_jobs *)

Reaping(todo, lost, reaped) ==
    [pc |-> "reaping", todo |-> todo, lost |-> lost, reaped |-> reaped]

\* lost: rows without a recorded Job name, whose name is reconstructed (#1606).
ReapRead(p) ==
    /\ At(p, "reap")
    /\ \/ /\ Goto(p, Reaping(ActiveRows, {j \in ActiveRows : row[j].kind = "pending"}, {}))
          /\ NoFault
       \/ Fault("store-error") /\ Goto(p, [pc |-> "held", todo |-> held[p]])
    /\ UNCHANGED <<storeVars, kjob, launch, stop, active, dispatched, held, pool, starts>>

JobOutcome(n) ==
    CASE kjob[n].st = "none" -> "gone"
      [] kjob[n].st = "active" -> "running"
      [] OTHER -> kjob[n].st

\* The row after the one being looked at.
NextRow(l, reaped) == Reaping(l.todo, l.lost, l.reaped \cup reaped)

WithOutcome(l, j, pc, o) ==
    [pc |-> pc, todo |-> l.todo \ {j}, lost |-> l.lost, reaped |-> l.reaped, cur |-> j,
     outcome |-> o]

\* _job_outcome: an API error reads as running.  A reconstructed name that is
\* not gone must be verified before anything is written.
Observe(p, j) ==
    LET l == loop[p]
        resolve(o) == IF j \in l.lost /\ o # "gone" THEN WithOutcome(l, j, "verify", o)
                      ELSE IF o = "running" THEN Reaping(l.todo \ {j}, l.lost, l.reaped)
                      ELSE WithOutcome(l, j, "verdict", o)
    IN  /\ At(p, "reaping") /\ j \in l.todo
        /\ \/ Goto(p, resolve(JobOutcome(JobName[j]))) /\ NoFault
           \/ Fault("api-error") /\ Goto(p, resolve("running"))
        /\ UNCHANGED <<storeVars, kjob, launch, stop, active, dispatched, held, pool, starts>>

\* job_labels stamps the same shortened id that makes the name.
JobIdLabel(j) == JobName[j]

\* _reconstructed_job_is_ours: a Job that cannot be read leaves the row alone.
IsOurs(j) == /\ kjob[JobName[j]] # NoJob
             /\ JobIdLabel(kjob[JobName[j]].task) = JobIdLabel(j)

Verify(p) ==
    LET l == loop[p]
    IN  /\ At(p, "verify")
        /\ \/ NoFault /\ Goto(p, IF IsOurs(l.cur) THEN [l EXCEPT !.pc = "repair"]
                                                  ELSE NextRow(l, {}))
           \/ Fault("api-error") /\ Goto(p, NextRow(l, {}))
        /\ UNCHANGED <<storeVars, kjob, launch, stop, active, dispatched, held, pool, starts>>

\* _repair_worker_ref, best effort.
Repair(p) ==
    LET l == loop[p]
    IN  /\ At(p, "repair")
        /\ \/ SetWorkerRef(l.cur) /\ NoFault
           \/ Fault("store-error") /\ UNCHANGED storeVars
        /\ Goto(p, IF l.outcome = "running" THEN NextRow(l, {}) ELSE [l EXCEPT !.pc = "verdict"])
        /\ UNCHANGED <<kjob, launch, stop, active, dispatched, held, pool, starts>>

Failing(l) == IF l.outcome = "succeeded" THEN {} ELSE {l.cur}

\* _done or _fail: the terminal write.  When it fails the hook does not run.
Verdict(p) ==
    LET l == loop[p]
    IN  /\ At(p, "verdict")
        /\ \/ /\ IF l.outcome = "succeeded" THEN MarkTerminal(l.cur, "done", FALSE)
                                            ELSE MarkTerminal(l.cur, "failed", TRUE)
              /\ Goto(p, [l EXCEPT !.pc = "hook"]) /\ NoFault
           \/ /\ Fault("store-error") /\ UNCHANGED storeVars
              /\ Goto(p, NextRow(l, Failing(l)))
        /\ UNCHANGED <<kjob, launch, stop, active, dispatched, held, pool, starts>>

\* _on_kubejob_build_done and _on_kubejob_build_failed.
Hook(p) ==
    /\ At(p, "hook")
    /\ ReleaseCredential(p, loop[p].cur)
    /\ DrainFrom(p, "loop")
    /\ Goto(p, NextRow(loop[p], Failing(loop[p])))
    /\ UNCHANGED <<kjob, stop, active, dispatched, held, starts, faults>>

\* One release after the other.
ReleaseAll(pl, S) ==
    [pl EXCEPT
        !.checkedOut = [t \in Jobs |-> IF t \in S THEN NoCred ELSE pl.checkedOut[t]],
        !.inUse = [c \in Creds |->
                     LET given == Cardinality({t \in S : pl.checkedOut[t] = c})
                     IN  IF pl.inUse[c] > given THEN pl.inUse[c] - given ELSE 0]]

\* reap_kubejob_builds: the reaped builds' credentials once more, and a drain.
ReapEnd(p) ==
    LET l == loop[p]
    IN  /\ At(p, "reaping") /\ l.todo = {}
        /\ IF l.reaped = {} THEN UNCHANGED <<storeVars, launch, pool>>
           ELSE /\ pool' = [pool EXCEPT ![p] = ReleaseAll(@, l.reaped)]
                /\ DrainFrom(p, "loop")
        /\ Goto(p, [pc |-> "held", todo |-> held[p]])
        /\ UNCHANGED <<kjob, stop, active, dispatched, held, starts, faults>>

ReapStep(p) == \/ ReapRead(p) \/ Verify(p) \/ Repair(p) \/ Verdict(p) \/ Hook(p) \/ ReapEnd(p)
               \/ \E j \in Jobs : Observe(p, j)

-----------------------------------------------------------------------------
(* The loop: held credentials and orphan Jobs *)

HeldRow(todo) == [pc |-> "held", todo |-> todo]

\* job_gone: true only when the lookup answers 404.
HeldProbe(p, j) ==
    LET l == loop[p]
    IN  /\ At(p, "held") /\ j \in l.todo
        /\ \/ kjob[JobName[j]] = NoJob /\ NoFault
              /\ Goto(p, [pc |-> "gone", todo |-> l.todo \ {j}, cur |-> j])
           \/ kjob[JobName[j]] # NoJob /\ NoFault /\ Goto(p, HeldRow(l.todo \ {j}))
           \/ Fault("api-error") /\ Goto(p, HeldRow(l.todo \ {j}))
        /\ UNCHANGED <<storeVars, kjob, launch, stop, active, dispatched, held, pool, starts>>

HeldRelease(p) ==
    LET l == loop[p]
    IN  /\ At(p, "gone")
        /\ ReleaseCredential(p, l.cur)
        /\ held' = [held EXCEPT ![p] = @ \ {l.cur}]
        /\ Goto(p, HeldRow(l.todo))
        /\ UNCHANGED <<storeVars, kjob, launch, stop, active, dispatched, starts, faults>>

\* sweep_orphan_jobs: the owners are read before the Jobs are listed.
SweepRead(p) ==
    /\ At(p, "held") /\ loop[p].todo = {}
    /\ \/ NoFault /\ Goto(p, [pc |-> "list", owned |-> {JobName[j] : j \in ActiveRows}])
       \/ Fault("store-error") /\ Goto(p, IdleLoop)
    /\ UNCHANGED <<storeVars, kjob, launch, stop, active, dispatched, held, pool, starts>>

Sweepable_noGrace(p) == {n \in Names : kjob[n] # NoJob /\ n \notin loop[p].owned}

\* Jobs no active row owns, older than the grace period.
Sweepable(p) == {n \in Names : kjob[n] # NoJob /\ n \notin loop[p].owned /\ kjob[n].old}

SweepList(p) ==
    /\ At(p, "list")
    /\ \/ NoFault /\ Goto(p, [pc |-> "sweep", todo |-> Sweepable(p)])
       \/ Fault("api-error") /\ Goto(p, IdleLoop)
    /\ UNCHANGED <<storeVars, kjob, launch, stop, active, dispatched, held, pool, starts>>

\* Deletion is by name; a dry run only reports.
SweepDelete(p, n) ==
    /\ At(p, "sweep") /\ n \in loop[p].todo
    /\ \/ NoFault /\ kjob' = IF SweepDeletes THEN [kjob EXCEPT ![n] = NoJob] ELSE kjob
       \/ SweepDeletes /\ Fault("api-error") /\ UNCHANGED kjob
    /\ Goto(p, [loop[p] EXCEPT !.todo = @ \ {n}])
    /\ UNCHANGED <<storeVars, launch, stop, active, dispatched, held, pool, starts>>

TickEnd(p) ==
    /\ At(p, "sweep") /\ loop[p].todo = {}
    /\ Goto(p, IdleLoop)
    /\ UNCHANGED <<storeVars, kjob, launch, stop, active, dispatched, held, pool, starts, faults>>

SweepStep(p) == \/ HeldRelease(p) \/ SweepRead(p) \/ SweepList(p) \/ TickEnd(p)
                \/ \E j \in Jobs : HeldProbe(p, j)
                \/ \E n \in Names : SweepDelete(p, n)

LoopStep(p) == ReconcileStep(p) \/ ReapStep(p) \/ SweepStep(p)

-----------------------------------------------------------------------------
(* Jobs (Kubernetes), crashes, profile changes *)

\* A Job ends by itself, by its activeDeadlineSeconds or because its pod is
\* evicted, and is garbage collected, observed by a loop or not.
JobFinishes(n) ==
    /\ kjob[n].st = "active"
    /\ \E s \in {"succeeded", "failed"} : kjob' = [kjob EXCEPT ![n].st = s]
    /\ UNCHANGED <<storeVars, launch, stop, loop, active, dispatched, held, pool, starts, faults>>

JobCollected(n) ==
    /\ kjob[n].st \in {"succeeded", "failed"}
    /\ kjob' = [kjob EXCEPT ![n] = NoJob]
    /\ UNCHANGED <<storeVars, launch, stop, loop, active, dispatched, held, pool, starts, faults>>

\* Older than _SWEEP_GRACE_SECONDS: neither a ref write nor the time between a
\* sweep's two reads is that long.
JobAges(n) ==
    /\ kjob[n] # NoJob /\ ~kjob[n].old
    /\ \A j \in Jobs : JobName[j] = n => launch[j].pc # "created"
    /\ \A p \in Pods : loop[p].pc # "list"
    /\ kjob' = [kjob EXCEPT ![n].old = TRUE]
    /\ UNCHANGED <<storeVars, launch, stop, loop, active, dispatched, held, pool, starts, faults>>

\* The replica dies with its memory and coroutines; the new process drains the
\* queue (reconcile_on_startup) and starts a new loop.
CrashRestart(p) ==
    /\ Fault("crash")
    /\ \E S \in SUBSET Queued :
         /\ Drain(S)
         /\ launch' = [j \in Jobs |-> IF j \in S THEN Granted(p, "request")
                                      ELSE IF launch[j] # NoLaunch /\ launch[j].pod = p
                                           THEN NoLaunch ELSE launch[j]]
    /\ stop' = [j \in Jobs |-> IF stop[j] # NoStop /\ stop[j].pod = p THEN NoStop ELSE stop[j]]
    /\ loop' = [loop EXCEPT ![p] = IdleLoop]
    /\ active' = [active EXCEPT ![p] = {}]
    /\ dispatched' = [dispatched EXCEPT ![p] = {}]
    /\ held' = [held EXCEPT ![p] = {}]
    /\ pool' = [pool EXCEPT ![p] = NewPool(Jobs)]
    /\ UNCHANGED <<kjob, starts>>

\* reset_token_pool: a profile change drops the pool; the next one starts fresh.
ResetPool(p) ==
    /\ Fault("pool-reset")
    /\ pool' = [pool EXCEPT ![p] = NewPool(Jobs)]
    /\ UNCHANGED <<storeVars, kjob, launch, stop, loop, active, dispatched, held, starts>>

-----------------------------------------------------------------------------
ClusterStep == \E n \in Names : JobFinishes(n) \/ JobCollected(n) \/ JobAges(n)

Next ==
    \/ \E p \in Pods, j \in Jobs : StartTask(p, j) \/ StopBegin(p, j)
    \/ \E j \in Jobs : LaunchStep(j) \/ StopStep(j)
    \/ \E p \in Pods : LoopStep(p) \/ CrashRestart(p) \/ ResetPool(p)
    \/ ClusterStep

Spec == Init /\ [][Next]_vars

\* Coroutines are scheduled, the loop ticks for ever, and a Job ends (its
\* deadline), ages and is collected.  Nobody has to start or stop a build.
Fairness ==
    /\ \A j \in Jobs : WF_vars(LaunchStep(j)) /\ WF_vars(StopStep(j))
    /\ \A p \in Pods : WF_vars(LoopStep(p))
    /\ \A n \in Names : /\ WF_vars(JobFinishes(n)) /\ WF_vars(JobCollected(n))
                        /\ WF_vars(JobAges(n))

FairSpec == Spec /\ Fairness

-----------------------------------------------------------------------------
(* Properties *)

JobObject == [st : {"active", "succeeded", "failed"}, task : Jobs, cred : Creds, old : BOOLEAN]
Outcomes == {"gone", "running", "succeeded", "failed"}

LoopState ==
    [pc : {"idle", "read", "reap"}]
    \cup [pc : {"poll"}, todo : SUBSET Jobs, live : SUBSET Jobs, out : BOOLEAN]
    \cup [pc : {"polled"}, todo : SUBSET Jobs, live : SUBSET Jobs, out : {TRUE}, cur : Jobs]
    \cup [pc : {"reaping"}, todo : SUBSET Jobs, lost : SUBSET Jobs, reaped : SUBSET Jobs]
    \cup [pc : {"verify", "repair", "verdict", "hook"}, todo : SUBSET Jobs, lost : SUBSET Jobs,
          reaped : SUBSET Jobs, cur : Jobs, outcome : Outcomes]
    \cup [pc : {"held"}, todo : SUBSET Jobs]
    \cup [pc : {"gone"}, todo : SUBSET Jobs, cur : Jobs]
    \cup [pc : {"list"}, owned : SUBSET Names]
    \cup [pc : {"sweep"}, todo : SUBSET Names]

\* Every variable keeps its type.
KubeTypeOK ==
    /\ kjob \in [Names -> JobObject \cup {NoJob}]
    /\ launch \in [Jobs -> {NoLaunch}
                      \cup [pc : {"granted"}, pod : Pods, by : {"request", "loop"}]
                      \cup [pc : {"prepared", "created", "recorded", "failed"}, pod : Pods,
                            by : {"request", "loop"}, cred : Creds]]
    /\ stop \in [Jobs -> {NoStop} \cup [pc : {"delete", "mark", "release"}, pod : Pods]]
    /\ loop \in [Pods -> LoopState]
    /\ {active, dispatched, held} \subseteq [Pods -> SUBSET Jobs]
    /\ pool \in [Pods -> PoolState(Jobs)]
    /\ starts \in 0..MaxStarts /\ faults \in 0..MaxFaults

\* claude_token_pool.py:69 -- "how many live builds currently hold this
\* credential": launches, stops, verdicts, holds, crashes and profile changes
\* that check out and release in any order, some of them twice, never let a
\* credential's count drift from the tasks that hold it.
PoolCountsHolders == \A p \in Pods : CountsHolders(pool[p])

\* agent_kubejob.py:517-520 and :893-902 -- is_running must not say a live build
\* is dead, or recovery resets it: a reconcile pass drops a build from the live
\* set only when its row is no longer a running Job's, also when the build was
\* dispatched while the pass was reading rows.
LiveBuildStaysKnown ==
    [][\A p \in Pods, j \in Jobs :
          /\ loop[p].pc = "poll" /\ loop'[p].pc = "reap"
          /\ j \in active[p] \ active'[p]
          => ~OwnedByJob(j) \/ launch[j] # NoLaunch]_vars

\* build_backend.py:1673 -- "old build Jobs with no active owner row": although
\* rows and Jobs are read at different times, a sweep never picks the Job of a
\* build that runs.
SweepListsOnlyOrphans ==
    [][\A p \in Pods, j \in Jobs :
          loop[p].pc = "list" /\ loop'[p].pc = "sweep" /\ JobName[j] \in loop'[p].todo
          => ~OwnedByJob(j)]_vars

\* build_backend.py:1591-1595 -- "never strand a build": whatever fails on the
\* way, a row that holds a slot gives it back once its Job is over.
SlotGivenBack == \A j \in Jobs : row[j].state = "running" ~> row[j].state # "running"

\* agent_kubejob.py:447-449 -- "released when the Job reaches a terminal state
\* (reconcile / reap / stop)": every credential checked out for a build goes back
\* to the pool of the replica that dispatched it, also when the dispatch raised.
CredentialReturned ==
    \A p \in Pods, j \in Jobs :
        pool[p].checkedOut[j] # NoCred ~> pool[p].checkedOut[j] = NoCred

\* job_state_store.py:471-472 -- "reaping a live build is the one outcome worse
\* than leaking one": the reaper never ends a row that a launch is working on.
ReaperSparesLaunch ==
    [][\A p \in Pods : loop[p].pc = "verdict" /\ loop'[p].pc = "hook"
          => launch[loop[p].cur] = NoLaunch]_vars

\* The credentials that running Jobs of other tasks carry.
Carried(j) == {kjob[n].cred : n \in {n \in Names : kjob[n].st = "active" /\ kjob[n].task # j}}

\* agent_kubejob.py:444-445 -- "concurrent Jobs draw DISTINCT tokens": a dispatch
\* is not handed the token of a running Job while another token is unused.
DistinctTokens ==
    [][\A j \in Jobs :
          launch[j].pc = "granted" /\ launch'[j].pc = "prepared" /\ Carried(j) # Creds
          => launch'[j].cred \notin Carried(j)]_vars

\* build_backend.py:1476-1479 -- the label is compared "before this row's verdict
\* is written from that Job's status": no row gets the verdict of another task's
\* Job.
OwnVerdict ==
    [][\A p \in Pods :
          LET l == loop[p]
          IN  l.pc = "verdict" /\ loop'[p].pc = "hook" /\ kjob[JobName[l.cur]] # NoJob
              => kjob[JobName[l.cur]].task = l.cur]_vars

\* build_backend.py:1595 and :1759 -- "a row that the Job already transitioned out
\* of running is skipped", on_done "fires once": only a running row is ended.
EndsRunningRows ==
    [][\A p \in Pods : loop[p].pc = "verdict" /\ loop'[p].pc = "hook"
          => row[loop[p].cur].state = "running"]_vars
=============================================================================
