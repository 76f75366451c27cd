---------------------------- MODULE AgentService ----------------------------
(***************************************************************************)
(* The control plane's build supervisor (server/services/agent_service.py, *)
(* agent_queue.py, process_monitor.py, agent_spec_creation.py) on several  *)
(* replicas that share the job-state store, with the in-pod subprocess     *)
(* build backend.                                                          *)
(*                                                                         *)
(* A replica is one asyncio event loop, so the code between two awaits is  *)
(* one step and everything else may run at an await.  What is in flight:   *)
(*   proc[i]    a spawned process together with the _monitor_process       *)
(*              coroutine that watches it (pc: where that coroutine is)    *)
(*   launch[t]  a granted slot on its way to a process (_start_build_unit, *)
(*              called by a start request, by a drain or by a monitor)     *)
(*   stop[t]    a stop_task coroutine                                      *)
(* A crash takes the replica's processes and coroutines with it (they      *)
(* share its container); only the store and the control files survive.     *)
(*                                                                         *)
(* Bounds: MaxBoot container boots per pod, MaxProcs processes at a time,  *)
(* MaxStarts start requests, one launch and one stop in flight per task.   *)
(***************************************************************************)
EXTENDS JobStateStore

CONSTANTS
    Pods,        \* replica names (POD_NAME)
    MaxBoot,     \* container boots per pod
    MaxProcs,    \* process slots
    MaxStarts,   \* start requests users make
    Features     \* what the environment may do, see EnvironmentFeatures

EnvironmentFeatures ==
    {"spec", "stop", "failover", "spawn-failure", "monitor-error", "crash", "scale-in"}
Boots == 1..MaxBoot
ProcIds == 1..MaxProcs
Unmonitored == MaxProcs + 1   \* the handle of a dead process whose monitor has finished

ASSUME OwnersAreBoots == Owners = Pods \X Boots
ASSUME Bounds == MaxBoot \in Nat \ {0} /\ MaxProcs \in Nat \ {0} /\ MaxStarts \in Nat
ASSUME FeaturesKnown == Features \subseteq EnvironmentFeatures

VARIABLES
    pod,           \* "up", "down" (container restarting) or "gone" (scaled in)
    boot,          \* BOOT_ID of each pod
    proc,          \* processes and their monitors
    runningTasks,  \* AgentService.running_tasks of each pod: task -> process, 0 if none
    taskStopped,   \* AgentService._task_stopped
    profiles,      \* tasks in _task_profiles (they hold a pooled credential)
    control,       \* task_control.json: status and reviewReason
    specStarts,    \* start_spec_creation calls past their guard, per pod and task
    launch, stop,  \* launches and stops in flight, per task
    drainDue,      \* pods whose reaper or startup reconcile has a drain to run
    starts         \* start requests so far

serviceVars == <<pod, boot, proc, runningTasks, taskStopped, profiles, control,
                 specStarts, launch, stop, drainDue, starts>>
vars == <<storeVars, serviceVars>>

Owner(p) == <<p, boot[p]>>
Up(p) == pod[p] = "up"

NoProcess == [pc |-> "none"]
NoLaunch == [pc |-> "none"]
NoStop == [pc |-> "none"]

\* left: what the process leaves on disk -- a plan waiting for approval,
\* subtasks still pending, only stuck ones, a finished plan, or no spec at all.
Leftovers == {"review", "pending", "stuck", "finished", "nothing"}
\* first: the process of a start, not of a retry.  A first process may be
\* retried or continued, and has a process group of its own (start_new_session).
Process ==
    [pc : {"watch", "handle", "retrying", "restart", "starting", "startFailed",
           "unwatched"},
     pod : Pods, task : Jobs, kind : {"spec", "build"}, live : BOOLEAN,
     code : {0, 1}, left : Leftovers, first : BOOLEAN]

\* A monitor on its way out no longer looks at its process.
Leaving ==
    [pc : {"cleanup", "exit", "drain"}, pod : Pods, task : Jobs] \cup
    [pc : {"free"}, pod : Pods, task : Jobs, outcome : {"done", "review"}]
Launch == [pc : {"granted", "promoted", "claimed", "spawning", "failed"}, pod : Pods,
           by : 0..MaxProcs]
Stop == [pc : {"cleanup", "mark", "delete"}, pod : Pods]
ControlStates == {"none", "queued", "plan_review", "completed", "errors"}

Init ==
    /\ StoreInit
    /\ pod = [p \in Pods |-> "up"]
    /\ boot = [p \in Pods |-> 1]
    /\ proc = [i \in ProcIds |-> NoProcess]
    /\ runningTasks = [p \in Pods |-> [t \in Jobs |-> 0]]
    /\ taskStopped = [p \in Pods |-> {}]
    /\ profiles = [p \in Pods |-> {}]
    /\ control = [t \in Jobs |-> "none"]
    /\ specStarts = [p \in Pods |-> [t \in Jobs |-> 0]]
    /\ launch = [t \in Jobs |-> NoLaunch]
    /\ stop = [t \in Jobs |-> NoStop]
    /\ drainDue = {}
    /\ starts = 0

-----------------------------------------------------------------------------
(* Helpers *)

FreeProc(i) == proc[i].pc = "none" /\ \A k \in ProcIds : k < i => proc[k].pc # "none"

NewProcess(p, t, k, first) ==
    [pc |-> "watch", pod |-> p, task |-> t, kind |-> k, live |-> TRUE, code |-> 0,
     left |-> "finished", first |-> first]

At(i, pc) == proc[i].pc = pc
Alive(i) == i \in ProcIds /\ proc[i].pc \in {"watch", "unwatched"} /\ proc[i].live
Goto(i, pc) == [proc EXCEPT ![i].pc = pc]
Leave(i, pc) == [proc EXCEPT ![i] = [pc |-> pc, pod |-> @.pod, task |-> @.task]]
Exited(i) == proc[i].pc \in {"watch", "handle"} /\ ~proc[i].live

\* The terminal clean-up every monitor path shares: running_tasks and the
\* pooled credential are dropped by task id, whatever process they name now.
Forget(p, t) ==
    /\ runningTasks' = [runningTasks EXCEPT ![p][t] = 0]
    /\ profiles' = [profiles EXCEPT ![p] = @ \ {t}]

ExitLifecycle_rawStatus(c) == c

\* task_control.json keeps the reason under "reviewReason"; the exit path reads
\* "review_reason", so every human_review status maps to review.
ExitLifecycle(c) ==
    IF c \in {"plan_review", "completed", "errors"} THEN "review" ELSE "done"

\* monitor_process has returned: a task still tracked was restarted and keeps
\* its slot; for another the terminal state is decided here and written after
\* an await (_free_durable_slot_on_exit up to _k8s_job_owns).
Return(i, tracked) ==
    IF tracked[proc[i].task] # 0
    THEN Leave(i, "drain")
    ELSE [proc EXCEPT ![i] = [pc |-> "free", pod |-> @.pod, task |-> @.task,
                              outcome |-> ExitLifecycle(control[@.task])]]

\* The last step of monitor i: an entry that still names its process is left
\* with a dead process nobody watches.
Retire(i) ==
    [p \in Pods |-> [t \in Jobs |-> IF runningTasks[p][t] = i THEN Unmonitored
                                                             ELSE runningTasks[p][t]]]

\* drain, and a launch for every row it promoted.
DrainFrom(p) ==
    \E S \in SUBSET Queued :
        /\ \A t \in S : launch[t] = NoLaunch
        /\ Drain(S)
        /\ launch' = [t \in Jobs |-> IF t \in S
                                     THEN [pc |-> "promoted", pod |-> p, by |-> 0]
                                     ELSE launch[t]]

-----------------------------------------------------------------------------
(* start_task_execution, _drain_queue_durable, _start_build_unit *)

\* admit under the store's lock; a granted slot goes on to a launch, a queued
\* one is marked queued for the board.
AdmitFor(p, t, by) ==
    /\ launch[t] = NoLaunch
    /\ Admit(t)
    /\ IF HasFreeSlot
       THEN /\ launch' = [launch EXCEPT ![t] = [pc |-> "granted", pod |-> p, by |-> by]]
            /\ UNCHANGED control
       ELSE /\ control' = [control EXCEPT ![t] = "queued"]
            /\ UNCHANGED launch

StartTask(p, t) ==
    /\ Up(p) /\ starts < MaxStarts
    /\ runningTasks[p][t] = 0                    \* otherwise ValueError -> 409
    /\ AdmitFor(p, t, 0)
    /\ starts' = starts + 1
    /\ UNCHANGED <<pod, boot, proc, runningTasks, taskStopped, profiles, specStarts,
                   stop, drainDue>>

\* A drain skips a promoted row this replica already runs.
SkipPromoted(t) ==
    /\ launch[t].pc = "promoted" /\ runningTasks[launch[t].pod][t] # 0
    /\ launch' = [launch EXCEPT ![t] = NoLaunch]
    /\ UNCHANGED <<storeVars, pod, boot, proc, runningTasks, taskStopped, profiles,
                   control, specStarts, stop, drainDue, starts>>

Claim_unstamped(t) ==
    /\ \/ launch[t].pc = "granted"
       \/ launch[t].pc = "promoted" /\ runningTasks[launch[t].pod][t] = 0
    /\ launch' = [launch EXCEPT ![t].pc = "claimed"]
    /\ UNCHANGED <<storeVars, pod, boot, proc, runningTasks, taskStopped, profiles,
                   control, specStarts, stop, drainDue, starts>>

\* Claim before spawn (#1705).
Claim(t) ==
    /\ \/ launch[t].pc = "granted"
       \/ launch[t].pc = "promoted" /\ runningTasks[launch[t].pod][t] = 0
    /\ MarkRunning(t, Owner(launch[t].pod))
    /\ launch' = [launch EXCEPT ![t].pc = "claimed"]
    /\ UNCHANGED <<pod, boot, proc, runningTasks, taskStopped, profiles, control,
                   specStarts, stop, drainDue, starts>>

\* _start_build_unit raises: a refused backend config, a claim or a spawn error.
LaunchRaises(t) ==
    /\ "spawn-failure" \in Features
    /\ launch[t].pc \in {"granted", "promoted", "claimed", "spawning"}
    /\ launch' = [launch EXCEPT ![t].pc = "failed"]
    /\ UNCHANGED <<storeVars, pod, boot, proc, runningTasks, taskStopped, profiles,
                   control, specStarts, stop, drainDue, starts>>

\* _spawn_task_execution refuses a task this replica already runs, else takes
\* a pooled credential ...
SpawnBegin(t) ==
    LET p == launch[t].pod
    IN  /\ launch[t].pc = "claimed" /\ runningTasks[p][t] = 0
        /\ profiles' = [profiles EXCEPT ![p] = @ \cup {t}]
        /\ launch' = [launch EXCEPT ![t].pc = "spawning"]
        /\ UNCHANGED <<storeVars, pod, boot, proc, runningTasks, taskStopped, control,
                       specStarts, stop, drainDue, starts>>

\* ... and after its awaits the process, its tracking and its monitor exist.
Spawn(t) ==
    LET p == launch[t].pod
        by == launch[t].by
    IN  /\ launch[t].pc = "spawning"
        /\ \E i \in ProcIds :
              /\ FreeProc(i)
              /\ proc' = [k \in ProcIds |-> IF k = i THEN NewProcess(p, t, "build", TRUE)
                                            ELSE IF k = by THEN Leave(k, "exit")[k]
                                            ELSE proc[k]]
              /\ runningTasks' = [runningTasks EXCEPT ![p][t] = i]
        /\ launch' = [launch EXCEPT ![t] = NoLaunch]
        /\ UNCHANGED <<storeVars, pod, boot, taskStopped, profiles, control, specStarts,
                       stop, drainDue, starts>>

SpawnRefused(t) ==
    /\ launch[t].pc = "claimed" /\ runningTasks[launch[t].pod][t] # 0
    /\ launch' = [launch EXCEPT ![t].pc = "failed"]
    /\ UNCHANGED <<storeVars, pod, boot, proc, runningTasks, taskStopped, profiles,
                   control, specStarts, stop, drainDue, starts>>

\* The except branch of both callers frees the slot; a monitor that was
\* waiting for this start goes on with its own except branch.
LaunchFailed(t) ==
    /\ launch[t].pc = "failed"
    /\ MarkTerminal(t, "failed", TRUE)
    /\ launch' = [launch EXCEPT ![t] = NoLaunch]
    /\ proc' = [k \in ProcIds |-> IF k = launch[t].by
                                  THEN [proc[k] EXCEPT !.pc = "startFailed"]
                                  ELSE proc[k]]
    /\ UNCHANGED <<pod, boot, runningTasks, taskStopped, profiles, control, specStarts,
                   stop, drainDue, starts>>

-----------------------------------------------------------------------------
(* start_spec_creation: spec creation runs outside the admission cap. *)

\* The guard and the credential ...
StartSpec(p, t) ==
    /\ "spec" \in Features /\ Up(p) /\ starts < MaxStarts
    /\ runningTasks[p][t] = 0
    /\ profiles' = [profiles EXCEPT ![p] = @ \cup {t}]
    /\ specStarts' = [specStarts EXCEPT ![p][t] = @ + 1]
    /\ starts' = starts + 1
    /\ UNCHANGED <<storeVars, pod, boot, proc, runningTasks, taskStopped, control, launch,
                   stop, drainDue>>

\* ... and after the awaits the process; the guard is not looked at again.
SpawnSpec(p, t) ==
    /\ specStarts[p][t] > 0
    /\ specStarts' = [specStarts EXCEPT ![p][t] = @ - 1]
    /\ \E i \in ProcIds :
          /\ FreeProc(i)
          /\ proc' = [proc EXCEPT ![i] = NewProcess(p, t, "spec", TRUE)]
          /\ runningTasks' = [runningTasks EXCEPT ![p][t] = i]
    /\ UNCHANGED <<storeVars, pod, boot, taskStopped, profiles, control, launch, stop,
                   drainDue, starts>>

\* The spawn raises: the credential stays checked out.
SpecRaises(p, t) ==
    /\ specStarts[p][t] > 0
    /\ specStarts' = [specStarts EXCEPT ![p][t] = @ - 1]
    /\ UNCHANGED <<storeVars, pod, boot, proc, runningTasks, taskStopped, profiles,
                   control, launch, stop, drainDue, starts>>

-----------------------------------------------------------------------------
(* monitor_process *)

\* What a process that ends with this code may leave, as far as the monitor of
\* its kind looks at it.
LeftBy(kind, code) ==
    CASE kind = "spec" -> {"review", "finished", "nothing"}
      [] code = 1 -> {"review", "finished"}
      [] OTHER -> Leftovers \ {"nothing"}

ProcExit(i) ==
    /\ At(i, "watch") /\ proc[i].live
    /\ \E c \in {0, 1} : \E l \in LeftBy(proc[i].kind, c) :
          proc' = [proc EXCEPT ![i].live = FALSE, ![i].code = c, ![i].left = l]
    /\ UNCHANGED <<storeVars, pod, boot, runningTasks, taskStopped, profiles, control,
                   specStarts, launch, stop, drainDue, starts>>

\* Model fallback or profile failover of a first attempt that failed.
RetryDecide(i) ==
    /\ "failover" \in Features
    /\ At(i, "watch") /\ Exited(i) /\ proc[i].code = 1 /\ proc[i].first
    /\ proc[i].task \in profiles[proc[i].pod]
    /\ proc' = Goto(i, "retrying")
    /\ UNCHANGED <<storeVars, pod, boot, runningTasks, taskStopped, profiles, control,
                   specStarts, launch, stop, drainDue, starts>>

RetrySpawn_oldHandle(i) ==
    /\ At(i, "retrying")
    /\ \E k \in ProcIds :
          /\ FreeProc(k)
          /\ proc' = [Leave(i, "drain") EXCEPT
                         ![k] = NewProcess(proc[i].pod, proc[i].task, proc[i].kind, FALSE)]
    /\ UNCHANGED <<storeVars, pod, boot, runningTasks, taskStopped, profiles, control,
                   specStarts, launch, stop, drainDue, starts>>

\* The retry takes over running_tasks with a monitor that may not retry again.
\* It is spawned without start_new_session: no process group of its own.  The
\* old monitor returns at once and finds the slot kept.
RetrySpawn(i) ==
    LET p == proc[i].pod
        t == proc[i].task
    IN  /\ At(i, "retrying")
        /\ \E k \in ProcIds :
              /\ FreeProc(k)
              /\ proc' = [Leave(i, "drain") EXCEPT
                             ![k] = NewProcess(p, t, proc[i].kind, FALSE)]
              /\ runningTasks' = [runningTasks EXCEPT ![p][t] = k]
        /\ UNCHANGED <<storeVars, pod, boot, taskStopped, profiles, control, specStarts,
                       launch, stop, drainDue, starts>>

\* No alternate profile, or fallback switched off.
RetryUnavailable(i) ==
    /\ At(i, "retrying")
    /\ proc' = Goto(i, "handle")
    /\ UNCHANGED <<storeVars, pod, boot, runningTasks, taskStopped, profiles, control,
                   specStarts, launch, stop, drainDue, starts>>

\* A plan waits for approval: park at human_review.
ParkForReview(i) ==
    /\ Exited(i) /\ proc[i].left = "review"
    /\ control' = [control EXCEPT ![proc[i].task] = "plan_review"]
    /\ Forget(proc[i].pod, proc[i].task)
    /\ proc' = Leave(i, "exit")
    /\ UNCHANGED <<storeVars, pod, boot, taskStopped, specStarts, launch, stop,
                   drainDue, starts>>

\* Spec creation over: start the build, whatever the exit code.
AutoStart(i) ==
    /\ Exited(i) /\ proc[i].kind = "spec" /\ proc[i].left = "finished"
    /\ Forget(proc[i].pod, proc[i].task)
    /\ proc' = Goto(i, "restart")
    /\ UNCHANGED <<storeVars, pod, boot, taskStopped, control, specStarts, launch, stop,
                   drainDue, starts>>

\* The common end of a build, and of a spec creation that left no spec.
Ending(i) ==
    /\ Exited(i) /\ proc[i].left # "review"
    /\ proc[i].kind = "build" \/ proc[i].left = "nothing"

\* stop_task is handling this task: leave the clean-up to it.
DeferToStop(i) ==
    LET p == proc[i].pod
    IN  /\ Ending(i) /\ proc[i].task \in taskStopped[p]
        /\ taskStopped' = [taskStopped EXCEPT ![p] = @ \ {proc[i].task}]
        /\ proc' = Return(i, runningTasks[p])
        /\ UNCHANGED <<storeVars, pod, boot, runningTasks, profiles, control,
                       specStarts, launch, stop, drainDue, starts>>

\* Subtasks remain after a clean exit: auto-continuation.
AutoContinue(i) ==
    /\ Ending(i) /\ proc[i].task \notin taskStopped[proc[i].pod]
    /\ proc[i].code = 0 /\ proc[i].left = "pending" /\ proc[i].first
    /\ Forget(proc[i].pod, proc[i].task)
    /\ proc' = Goto(i, "restart")
    /\ UNCHANGED <<storeVars, pod, boot, taskStopped, control, specStarts, launch, stop,
                   drainDue, starts>>

RestartTask_resetsRow(i) ==
    LET p == proc[i].pod
        t == proc[i].task
    IN  /\ At(i, "restart") /\ launch[t] = NoLaunch
        /\ row' = [row EXCEPT ![t] = AdmittedRow(TRUE)]
        /\ launch' = [launch EXCEPT ![t] = [pc |-> "granted", pod |-> p, by |-> i]]
        /\ proc' = Goto(i, "starting")
        /\ UNCHANGED <<olderThan, enqueued, removing, control>>
        /\ UNCHANGED <<pod, boot, runningTasks, taskStopped, profiles, specStarts, stop,
                       drainDue, starts>>

\* The monitor calls start_task_execution for its own task and waits.
RestartTask(i) ==
    LET p == proc[i].pod
        t == proc[i].task
    IN  /\ At(i, "restart")
        /\ IF runningTasks[p][t] # 0 \/ row[t].state \in ActiveStates
           THEN /\ proc' = Goto(i, "startFailed")
                /\ UNCHANGED <<storeVars, launch, control>>
           ELSE /\ AdmitFor(p, t, i)
                /\ proc' = IF HasFreeSlot THEN Goto(i, "starting") ELSE Leave(i, "exit")
        /\ UNCHANGED <<pod, boot, runningTasks, taskStopped, profiles, specStarts, stop,
                       drainDue, starts>>

\* Auto-start failed: the board shows the spec as completed, for a manual start.
AutoStartFailed(i) ==
    /\ At(i, "startFailed") /\ proc[i].kind = "spec"
    /\ control' = [control EXCEPT ![proc[i].task] = "completed"]
    /\ proc' = Leave(i, "exit")
    /\ UNCHANGED <<storeVars, pod, boot, runningTasks, taskStopped, profiles,
                   specStarts, launch, stop, drainDue, starts>>

\* The build's final status (#287: stuck subtasks are a failed build), none for
\* a spec creation; a failed continuation falls through to here.  Events and
\* notifications follow, so the clean-up is a later step.
Complete(i) ==
    /\ \/ Ending(i) /\ proc[i].task \notin taskStopped[proc[i].pod]
       \/ At(i, "startFailed") /\ proc[i].kind = "build"
    /\ control' = [control EXCEPT ![proc[i].task] =
                     CASE proc[i].kind = "spec" -> @
                       [] proc[i].code = 0 /\ proc[i].left # "stuck" -> "completed"
                       [] OTHER -> "errors"]
    /\ proc' = Leave(i, "cleanup")
    /\ UNCHANGED <<storeVars, pod, boot, runningTasks, taskStopped, profiles,
                   specStarts, launch, stop, drainDue, starts>>

\* An unexpected error in the monitor: the except branch records a failure and
\* drops the task's tracking, even while the process is alive.
MonitorRaises(i) ==
    /\ "monitor-error" \in Features
    /\ At(i, "watch") \/ Exited(i)
    /\ control' = IF proc[i].kind = "build"
                  THEN [control EXCEPT ![proc[i].task] = "errors"] ELSE control
    /\ Forget(proc[i].pod, proc[i].task)
    /\ \/ ~proc[i].live /\ proc' = Leave(i, "exit")
       \/ proc[i].live /\ \E k \in ProcIds :
             FreeProc(k) /\ proc' = [Goto(i, "unwatched") EXCEPT ![k] = Leave(i, "exit")[i]]
    /\ UNCHANGED <<storeVars, pod, boot, taskStopped, specStarts, launch, stop, drainDue,
                   starts>>

UnwatchedExit(i) ==
    /\ At(i, "unwatched")
    /\ proc' = [proc EXCEPT ![i] = NoProcess]
    /\ UNCHANGED <<storeVars, pod, boot, runningTasks, taskStopped, profiles, control,
                   specStarts, launch, stop, drainDue, starts>>

Cleanup(i) ==
    /\ At(i, "cleanup")
    /\ Forget(proc[i].pod, proc[i].task)
    /\ proc' = Return(i, runningTasks'[proc[i].pod])
    /\ UNCHANGED <<storeVars, pod, boot, taskStopped, control, specStarts, launch, stop,
                   drainDue, starts>>

-----------------------------------------------------------------------------
(* _free_durable_slot_on_exit, then _drain_queue *)

ExitCheck(i) ==
    /\ At(i, "exit")
    /\ proc' = Return(i, runningTasks[proc[i].pod])
    /\ UNCHANGED <<storeVars, pod, boot, runningTasks, taskStopped, profiles, control,
                   specStarts, launch, stop, drainDue, starts>>

FreeSlot_skips(i) ==
    /\ At(i, "free")
    /\ UNCHANGED storeVars
    /\ proc' = Leave(i, "drain")
    /\ UNCHANGED <<pod, boot, runningTasks, taskStopped, profiles, control, specStarts,
                   launch, stop, drainDue, starts>>

FreeSlot(i) ==
    /\ At(i, "free")
    /\ MarkTerminal(proc[i].task, proc[i].outcome, FALSE)
    /\ proc' = Leave(i, "drain")
    /\ UNCHANGED <<pod, boot, runningTasks, taskStopped, profiles, control, specStarts,
                   launch, stop, drainDue, starts>>

MonitorDrain_dropped(i) ==
    /\ At(i, "drain")
    /\ proc' = [proc EXCEPT ![i] = NoProcess]
    /\ runningTasks' = Retire(i)
    /\ UNCHANGED <<storeVars, pod, boot, taskStopped, profiles, control, specStarts,
                   launch, stop, drainDue, starts>>

MonitorDrain(i) ==
    /\ At(i, "drain")
    /\ DrainFrom(proc[i].pod)
    /\ proc' = [proc EXCEPT ![i] = NoProcess]
    /\ runningTasks' = Retire(i)
    /\ UNCHANGED <<pod, boot, taskStopped, profiles, control, specStarts, stop,
                   drainDue, starts>>

-----------------------------------------------------------------------------
(* stop_task *)

\* What dies with a replica: its processes, coroutines and memory.
LoseReplica(p) ==
    /\ proc' = [i \in ProcIds |-> IF proc[i].pc # "none" /\ proc[i].pod = p
                                  THEN NoProcess ELSE proc[i]]
    /\ runningTasks' = [runningTasks EXCEPT ![p] = [t \in Jobs |-> 0]]
    /\ taskStopped' = [taskStopped EXCEPT ![p] = {}]
    /\ profiles' = [profiles EXCEPT ![p] = {}]
    /\ launch' = [t \in Jobs |-> IF launch[t].pc # "none" /\ launch[t].pod = p
                                 THEN NoLaunch ELSE launch[t]]
    /\ stop' = [t \in Jobs |-> IF stop[t].pc # "none" /\ stop[t].pod = p
                               THEN NoStop ELSE stop[t]]
    /\ RemoveQueuedAbort({t \in removing : stop[t].pc = "delete" /\ stop[t].pod = p})
    /\ specStarts' = [specStarts EXCEPT ![p] = [t \in Jobs |-> 0]]
    /\ drainDue' = drainDue \ {p}
    /\ UNCHANGED <<control, starts>>

\* Mark the task stopped, then signal the process group of its process.
StopBegin(p, t) ==
    LET i == runningTasks[p][t]
    IN  /\ "stop" \in Features /\ Up(p) /\ stop[t] = NoStop
        /\ i # 0 /\ (Alive(i) => proc[i].first)
        /\ taskStopped' = [taskStopped EXCEPT ![p] = @ \cup {t}]
        /\ stop' = [stop EXCEPT ![t] = [pc |-> "cleanup", pod |-> p]]
        /\ \/ ~Alive(i) /\ UNCHANGED proc
           \/ Alive(i) /\ \E l \in LeftBy(proc[i].kind, 1) :
                proc' = [proc EXCEPT ![i].live = FALSE, ![i].code = 1, ![i].left = l]
        /\ UNCHANGED <<storeVars, pod, boot, runningTasks, profiles, control,
                       specStarts, launch, drainDue, starts>>

\* A retried process has the server's own process group: killpg ends the server.
StopSignalsServer(p, t) ==
    LET i == runningTasks[p][t]
    IN  /\ "stop" \in Features /\ Up(p) /\ stop[t] = NoStop
        /\ i # 0 /\ Alive(i) /\ ~proc[i].first
        /\ boot[p] < MaxBoot
        /\ pod' = [pod EXCEPT ![p] = "down"]
        /\ LoseReplica(p)
        /\ UNCHANGED boot

\* The process is reaped: record the failure (unless the monitor has cleaned up
\* already and _spec_dirs no longer says where) and pop the task's tracking.
StopCleanup(t) ==
    /\ stop[t].pc = "cleanup"
    /\ \/ control' = [control EXCEPT ![t] = "errors"]
       \/ runningTasks[stop[t].pod][t] = 0 /\ UNCHANGED control
    /\ Forget(stop[t].pod, t)
    /\ stop' = [stop EXCEPT ![t].pc = "mark"]
    /\ UNCHANGED <<storeVars, pod, boot, proc, taskStopped, specStarts, launch,
                   drainDue, starts>>

StopMark(t) ==
    /\ stop[t].pc = "mark"
    /\ MarkTerminal(t, "failed", TRUE)
    /\ stop' = [stop EXCEPT ![t] = NoStop]
    /\ UNCHANGED <<pod, boot, proc, runningTasks, taskStopped, profiles, control,
                   specStarts, launch, drainDue, starts>>

\* A queued task: remove its row so that it never auto-starts.
StopQueued(p, t) ==
    /\ "stop" \in Features /\ Up(p) /\ stop[t] = NoStop
    /\ runningTasks[p][t] = 0
    /\ RemoveQueuedRead(t)
    /\ stop' = [stop EXCEPT ![t] = [pc |-> "delete", pod |-> p]]
    /\ UNCHANGED <<pod, boot, proc, runningTasks, taskStopped, profiles, control,
                   specStarts, launch, drainDue, starts>>

StopDelete(t) ==
    /\ stop[t].pc = "delete"
    /\ RemoveQueuedDelete(t)
    /\ stop' = [stop EXCEPT ![t] = NoStop]
    /\ UNCHANGED <<pod, boot, proc, runningTasks, taskStopped, profiles, control,
                   specStarts, launch, drainDue, starts>>

-----------------------------------------------------------------------------
(* Crashes, restarts, reconcile_on_startup, reap_orphaned_subprocess_rows *)

Crash(p) ==
    /\ "crash" \in Features /\ Up(p) /\ boot[p] < MaxBoot
    /\ pod' = [pod EXCEPT ![p] = "down"]
    /\ LoseReplica(p)
    /\ UNCHANGED boot

ScaleIn(p) ==
    /\ "scale-in" \in Features /\ Up(p) /\ \E q \in Pods \ {p} : pod[q] # "gone"
    /\ pod' = [pod EXCEPT ![p] = "gone"]
    /\ LoseReplica(p)
    /\ UNCHANGED boot

\* A new boot id; startup reconcile always drains.
Restart(p) ==
    /\ pod[p] = "down"
    /\ pod' = [pod EXCEPT ![p] = "up"]
    /\ boot' = [boot EXCEPT ![p] = @ + 1]
    /\ drainDue' = drainDue \cup {p}
    /\ UNCHANGED <<storeVars, proc, runningTasks, taskStopped, profiles, control,
                   specStarts, launch, stop, starts>>

Orphaned_goneOnly(p, o) == o[1] # p /\ pod[o[1]] = "gone"

Orphaned_anyOtherPod(p, o) ==
    \/ o[1] = p /\ o[2] # boot[p]
    \/ o[1] # p

\* A claim is orphaned when its pod restarted under it, or no longer exists.
Orphaned(p, o) ==
    \/ o[1] = p /\ o[2] # boot[p]
    \/ o[1] # p /\ pod[o[1]] = "gone"

Reap(p, t) ==
    /\ Up(p)
    /\ \E o \in Owners : Orphaned(p, o) /\ FailSubprocessRow(t, o)
    /\ drainDue' = drainDue \cup {p}
    /\ UNCHANGED <<pod, boot, proc, runningTasks, taskStopped, profiles, control,
                   specStarts, launch, stop, starts>>

ReconcileDrain(p) ==
    /\ Up(p) /\ p \in drainDue
    /\ DrainFrom(p)
    /\ drainDue' = drainDue \ {p}
    /\ UNCHANGED <<pod, boot, proc, runningTasks, taskStopped, profiles, control,
                   specStarts, stop, starts>>

-----------------------------------------------------------------------------
LaunchStep(t) == \/ SkipPromoted(t) \/ Claim(t) \/ SpawnBegin(t) \/ Spawn(t)
                 \/ SpawnRefused(t) \/ LaunchFailed(t)

MonitorStep(i) == \/ RetryDecide(i) \/ RetrySpawn(i) \/ RetryUnavailable(i)
                  \/ ParkForReview(i) \/ AutoStart(i) \/ DeferToStop(i)
                  \/ AutoContinue(i) \/ RestartTask(i) \/ AutoStartFailed(i)
                  \/ Complete(i) \/ Cleanup(i) \/ ExitCheck(i) \/ FreeSlot(i)
                  \/ MonitorDrain(i)

StopStep(t) == StopCleanup(t) \/ StopMark(t) \/ StopDelete(t)

ReconcileStep(p) == Restart(p) \/ ReconcileDrain(p) \/ \E t \in Jobs : Reap(p, t)

Next ==
    \/ \E p \in Pods, t \in Jobs : \/ StartTask(p, t) \/ StartSpec(p, t)
                                   \/ StopBegin(p, t) \/ StopSignalsServer(p, t)
                                   \/ StopQueued(p, t)
                                   \/ SpawnSpec(p, t) \/ SpecRaises(p, t)
    \/ \E t \in Jobs : LaunchStep(t) \/ LaunchRaises(t) \/ StopStep(t)
    \/ \E i \in ProcIds : \/ ProcExit(i) \/ UnwatchedExit(i)
                           \/ MonitorRaises(i) \/ MonitorStep(i)
    \/ \E p \in Pods : Crash(p) \/ ScaleIn(p) \/ ReconcileStep(p)

Spec == Init /\ [][Next]_vars

\* Every coroutine that is ready runs, every process exits in the end, the
\* kubelet restarts a dead container and the reconcile loop keeps ticking.
\* Nothing makes a user start or stop a build, or a pod crash.
Fairness ==
    /\ \A t \in Jobs : WF_vars(LaunchStep(t)) /\ WF_vars(StopStep(t))
    /\ \A i \in ProcIds : WF_vars(ProcExit(i) \/ UnwatchedExit(i))
                           /\ WF_vars(MonitorStep(i))
    /\ \A p \in Pods : WF_vars(Restart(p)) /\ WF_vars(ReconcileDrain(p))
                       /\ \A t \in Jobs : WF_vars(Reap(p, t)) /\ WF_vars(SpawnSpec(p, t))

FairSpec == Spec /\ Fairness
-----------------------------------------------------------------------------
(* Properties *)

\* Every variable keeps its type: rows, process and monitor records, launches
\* and stops in flight, and the memory of each replica.
AgentTypeOK ==
    /\ StoreTypeOK
    /\ pod \in [Pods -> {"up", "down", "gone"}]
    /\ boot \in [Pods -> Boots]
    /\ proc \in [ProcIds -> Process \cup Leaving \cup {NoProcess}]
    /\ runningTasks \in [Pods -> [Jobs -> 0..Unmonitored]]
    /\ taskStopped \in [Pods -> SUBSET Jobs]
    /\ profiles \in [Pods -> SUBSET Jobs]
    /\ control \in [Jobs -> ControlStates]
    /\ specStarts \in [Pods -> [Jobs -> 0..MaxStarts]]
    /\ launch \in [Jobs -> Launch \cup {NoLaunch}]
    /\ stop \in [Jobs -> Stop \cup {NoStop}]
    /\ drainDue \subseteq Pods
    /\ starts \in 0..MaxStarts

\* The supervisor changes the store only by its transactions, in any
\* interleaving of requests, monitors, stops, drains, crashes and reaps: what
\* holds of the store holds of the system (AdmissionCap, RowCoherent).
ImplementsStore == SubprocessSpec

LiveBuilds == {i \in ProcIds : Alive(i) /\ proc[i].kind = "build"}
HeldBy(t, p) ==
    row[t].state = "running" /\ row[t].kind = "subprocess" /\ row[t].owner = Owner(p)

\* agent_kubejob.py:586 (#1705: claim before spawn) -- while a build process is
\* alive its row is running and stamped with the pod and boot that run it, so
\* that no admission, drain or reaper of another replica can take its slot.
LiveBuildOwned == \A i \in LiveBuilds : HeldBy(proc[i].task, proc[i].pod)

\* models.py:1140 -- replicas "cannot exceed MAX_CONCURRENT_TASKS or
\* double-start the same job_id": counted in live processes over all pods.
LiveBuildsWithinCap ==
    /\ Cap > 0 => Cardinality(LiveBuilds) <= Cap
    /\ \A i, k \in LiveBuilds : i # k => proc[i].task # proc[k].task

\* Every running_tasks entry names a process of that task whose monitor has
\* not finished, so that somebody will still remove the entry and free the slot.
TrackedProcessMonitored ==
    \A p \in Pods, t \in Jobs :
        LET i == runningTasks[p][t]
        IN  i # 0 => i # Unmonitored /\ proc[i].task = t /\ proc[i].pod = p

\* Whoever will free the slot of a claimed row: a launch under way, a monitor
\* that has not written the terminal state yet, or a stop about to write it.
Server(t, p) ==
    \/ launch[t].pc \in {"claimed", "spawning", "failed"} /\ launch[t].pod = p
    \/ stop[t].pc \in {"cleanup", "mark"} /\ stop[t].pod = p
    \/ \E i \in ProcIds : proc[i].pc \notin {"none", "drain", "unwatched"}
                          /\ proc[i].task = t /\ proc[i].pod = p

\* agent_service.py:398 and :1666 -- a claimed slot of a replica that is alive
\* is never abandoned: somebody on that replica still frees it (the reaper
\* touches only claims of dead boots, so nobody else would).
ClaimedSlotServed ==
    \A t \in Jobs, p \in Pods : Up(p) /\ HeldBy(t, p) => Server(t, p)

\* job_state_store.py:471 -- "reaping a live build is the one outcome worse
\* than leaking one": a reap never fails a row whose stamped owner still runs
\* a process of that build.
ReaperSparesOwner ==
    [][\A t \in Jobs, p \in Pods :
         (\E r \in Pods : Reap(r, t)) /\ HeldBy(t, p)
            => \A i \in LiveBuilds : ~(proc[i].task = t /\ proc[i].pod = p)]_vars

\* agent_service.py:834 -- a build parked at the cap leaves the queue: once
\* users stop submitting, every queued build is started, failed or removed.
QueuedEventuallyLeaves ==
    \A t \in Jobs : row[t].state = "queued" ~> row[t].state # "queued"

\* A granted slot comes back: no running row stays running for ever.
SlotEventuallyFreed ==
    \A t \in Jobs : row[t].state = "running" ~> row[t].state # "running"

\* agent_service.py:1666 (#1705) -- a subprocess claim whose owner's boot is
\* over is failed in the end.
OrphanEventuallyFreed ==
    \A t \in Jobs, o \in Owners :
        (row[t].state = "running" /\ row[t].kind = "subprocess" /\ row[t].owner = o
            /\ (pod[o[1]] = "gone" \/ boot[o[1]] # o[2]))
        ~> ~(row[t].state = "running" /\ row[t].owner = o)

\* job_state_store.py:48 -- "pending" means nobody has claimed the slot yet,
\* "which is what makes it reapable": a grant is claimed, or its slot is freed.
GrantEventuallyClaimed ==
    \A t \in Jobs :
        (row[t].state = "running" /\ row[t].kind = "pending")
            ~> ~(row[t].state = "running" /\ row[t].kind = "pending")

\* agent_service.py:834 -- a parked build is "auto-started when a running build
\* finishes": nothing but a stop takes a queued row anywhere but to running.
QueuedNeverBuried ==
    [][\A t \in Jobs : row[t].state = "queued"
          => row'[t].state \in {"queued", "running", "absent"}]_vars

\* agent_service.py:409 -- "failures -> failed": the exit path of a build whose
\* status is human_review with reason errors records the row as failed.
FailureRecordedFailed ==
    [][\A i \in ProcIds :
         (At(i, "free") /\ proc'[i].pc = "drain" /\ row[proc[i].task].state = "running"
            /\ row'[proc[i].task].state # "running" /\ control[proc[i].task] = "errors")
         => row'[proc[i].task].state = "failed"]_vars

\* process_monitor.py:671 -- a clean exit with subtasks left restarts the build
\* "instead of marking as completed": the store can admit the continuation.
ContinuationAdmissible ==
    \A i \in ProcIds :
        At(i, "restart") /\ proc[i].kind = "build" => row[proc[i].task].state \notin ActiveStates

\* agent_service.py:1484 -- "Mark as stopped BEFORE termination so
\* _monitor_process defers to us": a monitor restarts no task marked stopped.
MonitorDefersToStop ==
    [][\A i \in ProcIds :
         (\/ At(i, "retrying") /\ proc'[i].pc = "drain"
          \/ Exited(i) /\ proc'[i].pc = "restart")
         => proc[i].task \notin taskStopped[proc[i].pod]]_vars

\* agent_service.py:1399 -- "Builds are spawned with start_new_session=True", so
\* a stop signals the build's own process group: no stop takes the server down.
ServerSurvivesStop == \A p \in Pods : Up(p)

\* agent_service.py:1553 -- after a stop the monitor's own terminal write "is a
\* harmless no-op": it never ends a run another launch has been granted.
ExitWriteHarmless ==
    [][\A i \in ProcIds :
         (At(i, "free") /\ proc'[i].pc = "drain" /\ launch[proc[i].task] # NoLaunch)
         => row'[proc[i].task].state = row[proc[i].task].state]_vars

\* job_state_store.py:567 -- remove_queued removes "a parked (queued) job":
\* stopping a queued task never deletes the row of a running build.
StopRemovesOnlyQueued ==
    [][\A t \in Jobs : stop[t].pc = "delete" /\ stop'[t].pc = "none" /\ row'[t].state = "absent"
          => row[t].state \in {"queued", "absent"}]_vars

=============================================================================
