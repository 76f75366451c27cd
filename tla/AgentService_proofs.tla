------------------------ MODULE AgentService_proofs ------------------------
(***************************************************************************)
(* Theorems about the build supervisor, for any tasks, replicas, cap and   *)
(* bounds.                                                                 *)
(*                                                                         *)
(* The first part holds whatever the environment does: the types, and that *)
(* the supervisor implements the job-state store, so that what is proved   *)
(* of the store holds of the system.  What has to be added to the types to *)
(* make them inductive is where a coroutine can be (OnUpPods, Starters)    *)
(* and that the bounds on boots and starts are respected (BootsLeft,       *)
(* SpecStartsCounted).                                                     *)
(***************************************************************************)
EXTENDS AgentService, JobStateStore_proofs

ProcRecord == Process \cup Leaving \cup {NoProcess}
LaunchRecord == Launch \cup {NoLaunch}
StopRecord == Stop \cup {NoStop}

\* Where a monitor still has its process, and where it is on its way out.
ProcessPcs == {"watch", "handle", "retrying", "restart", "starting", "startFailed",
               "unwatched"}
LeavingPcs == {"cleanup", "exit", "drain"}

\* A container that will restart has a boot left.
BootsLeft == \A p \in Pods : pod[p] = "down" => boot[p] < MaxBoot

SpecStartsCounted == \A p \in Pods, t \in Jobs : specStarts[p][t] <= starts

\* What is in flight is in flight on a replica that is up.
OnUpPods ==
    /\ \A i \in ProcIds : proc[i].pc # "none" => Up(proc[i].pod)
    /\ \A t \in Jobs : launch[t].pc # "none" => Up(launch[t].pod)
    /\ \A t \in Jobs : stop[t].pc # "none" => Up(stop[t].pod)
    /\ \A p \in Pods, t \in Jobs : specStarts[p][t] > 0 => Up(p)

\* A launch made for a monitor has that monitor waiting for it.
Starters ==
    \A t \in Jobs : launch[t].pc # "none" /\ launch[t].by # 0 =>
        /\ proc[launch[t].by].pc = "starting"
        /\ proc[launch[t].by].task = t
        /\ proc[launch[t].by].pod = launch[t].pod

AInv == AgentTypeOK /\ BootsLeft /\ SpecStartsCounted /\ OnUpPods /\ Starters

-----------------------------------------------------------------------------
(* Records *)

\* What a process slot holds, by the place of its monitor.
LEMMA ProcFields ==
    ASSUME NEW r \in ProcRecord
    PROVE  /\ r.pc = "none" <=> r = NoProcess
           /\ r.pc # "none" => r.pod \in Pods /\ r.task \in Jobs
           /\ r.pc \in ProcessPcs => r \in Process
           /\ r.pc = "free" => r.outcome \in {"done", "review"}
           /\ r.pc \in ProcessPcs \cup LeavingPcs \cup {"free", "none"}
BY DEF ProcRecord, Process, Leaving, NoProcess, ProcessPcs, LeavingPcs

\* A monitor moves to another place with its process.
LEMMA GotoRecord ==
    ASSUME NEW r \in Process, NEW x \in ProcessPcs
    PROVE  LET R == [r EXCEPT !.pc = x]
           IN  /\ R \in Process /\ R \in ProcRecord
               /\ R.pc = x /\ R.pod = r.pod /\ R.task = r.task /\ R.kind = r.kind
               /\ R.live = r.live /\ R.first = r.first
BY DEF Process, ProcRecord, ProcessPcs

\* A monitor on its way out, before and after it has decided the outcome.
LEMMA LeaveRecord ==
    ASSUME NEW x \in LeavingPcs, NEW p \in Pods, NEW t \in Jobs
    PROVE  [pc |-> x, pod |-> p, task |-> t] \in ProcRecord
BY DEF Leaving, ProcRecord, LeavingPcs

\* The outcome is one the store knows.
LEMMA FreeRecord ==
    ASSUME NEW o \in {"done", "review"}, NEW p \in Pods, NEW t \in Jobs
    PROVE  [pc |-> "free", pod |-> p, task |-> t, outcome |-> o] \in ProcRecord
BY DEF Leaving, ProcRecord

\* A process that has just been spawned.
LEMMA NewProcessRecord ==
    ASSUME NEW p \in Pods, NEW t \in Jobs, NEW k \in {"spec", "build"}, NEW f \in BOOLEAN
    PROVE  NewProcess(p, t, k, f) \in Process /\ NewProcess(p, t, k, f) \in ProcRecord
BY DEF NewProcess, Process, ProcRecord, Leftovers

\* A process that has just died.
LEMMA DeadRecord ==
    ASSUME NEW r \in Process, NEW c \in {0, 1}, NEW l \in Leftovers
    PROVE  LET R == [r EXCEPT !.live = FALSE, !.code = c, !.left = l]
           IN  /\ R \in Process /\ R \in ProcRecord
               /\ R.pc = r.pc /\ R.pod = r.pod /\ R.task = r.task /\ R.kind = r.kind
               /\ R.live = FALSE /\ R.first = r.first
BY DEF Process, ProcRecord

\* A launch, by its place.
LEMMA LaunchFields ==
    ASSUME NEW r \in LaunchRecord
    PROVE  /\ r.pc = "none" <=> r = NoLaunch
           /\ r.pc # "none" => r \in Launch /\ r.pod \in Pods /\ r.by \in 0..MaxProcs
BY DEF LaunchRecord, Launch, NoLaunch

\* A launch moves on.
LEMMA LaunchMoves ==
    ASSUME NEW r \in Launch, NEW x \in {"granted", "promoted", "claimed", "spawning", "failed"}
    PROVE  LET R == [r EXCEPT !.pc = x]
           IN  R \in LaunchRecord /\ R.pc = x /\ R.pod = r.pod /\ R.by = r.by
BY DEF LaunchRecord, Launch

\* A stop, by its place.
LEMMA StopFields ==
    ASSUME NEW r \in StopRecord
    PROVE  /\ r.pc = "none" <=> r = NoStop
           /\ r.pc # "none" => r \in Stop /\ r.pod \in Pods
BY DEF StopRecord, Stop, NoStop

\* What the invariant says of one slot, one launch, one stop.
LEMMA InFlight ==
    ASSUME AInv
    PROVE  /\ \A i \in ProcIds : proc[i] \in ProcRecord
           /\ \A t \in Jobs : launch[t] \in LaunchRecord
           /\ \A t \in Jobs : stop[t] \in StopRecord
           /\ StoreTypeOK
           /\ proc = [i \in ProcIds |-> proc[i]]
           /\ launch = [t \in Jobs |-> launch[t]]
           /\ stop = [t \in Jobs |-> stop[t]]
BY DEF AInv, AgentTypeOK, ProcRecord, LaunchRecord, StopRecord

-----------------------------------------------------------------------------
(* Shapes of steps *)

MemoryTypeOK ==
    /\ runningTasks \in [Pods -> [Jobs -> 0..Unmonitored]]
    /\ taskStopped \in [Pods -> SUBSET Jobs]
    /\ profiles \in [Pods -> SUBSET Jobs]
    /\ control \in [Jobs -> ControlStates]

\* A monitor that no launch is waiting for moves, on its replica, or is over.
LEMMA MonitorMoves ==
    ASSUME AInv, NEW i \in ProcIds, proc[i].pc \notin {"none", "starting"},
           NEW R \in ProcRecord, R.pc # "none" => R.pod = proc[i].pod,
           proc' = [proc EXCEPT ![i] = R],
           StoreTypeOK', MemoryTypeOK',
           UNCHANGED <<pod, boot, specStarts, launch, stop, drainDue, starts>>
    PROVE  AInv'
<1>1. \A k \in ProcIds : proc'[k] = IF k = i THEN R ELSE proc[k]
  BY InFlight
<1>2. proc' \in [ProcIds -> ProcRecord]
  BY InFlight
<1>3. AgentTypeOK'
  BY <1>2 DEF AInv, AgentTypeOK, MemoryTypeOK, ProcRecord
<1>4. BootsLeft' /\ SpecStartsCounted'
  BY DEF AInv, BootsLeft, SpecStartsCounted
<1>5. OnUpPods'
  BY <1>1 DEF AInv, OnUpPods, Up
<1>6. Starters'
  <2> SUFFICES ASSUME NEW t \in Jobs, launch[t].pc # "none" /\ launch[t].by # 0
               PROVE  proc'[launch[t].by] = proc[launch[t].by]
    BY DEF AInv, Starters
  <2>1. launch[t].by \in ProcIds /\ launch[t].by # i
    BY InFlight, LaunchFields, Bounds DEF AInv, Starters, ProcIds
  <2> QED
    BY <1>1, <2>1
<1> QED
  BY <1>3, <1>4, <1>5, <1>6 DEF AInv

\* A launch that no monitor waits for, or goes on waiting for, moves or ends.
LEMMA LaunchMovesInv ==
    ASSUME AInv, NEW t \in Jobs, launch[t].pc # "none",
           NEW L \in LaunchRecord,
           L.pc # "none" => L.pod = launch[t].pod /\ L.by = launch[t].by,
           launch' = [launch EXCEPT ![t] = L],
           StoreTypeOK', MemoryTypeOK',
           UNCHANGED <<pod, boot, proc, specStarts, stop, drainDue, starts>>
    PROVE  AInv'
<1>1. \A u \in Jobs : launch'[u] = IF u = t THEN L ELSE launch[u]
  BY InFlight
<1>2. launch' \in [Jobs -> LaunchRecord]
  BY InFlight
<1>3. AgentTypeOK'
  BY <1>2 DEF AInv, AgentTypeOK, MemoryTypeOK, LaunchRecord
<1>4. BootsLeft' /\ SpecStartsCounted'
  BY DEF AInv, BootsLeft, SpecStartsCounted
<1>5. OnUpPods'
  BY <1>1 DEF AInv, OnUpPods, Up
<1>6. Starters'
  BY <1>1 DEF AInv, Starters
<1> QED
  BY <1>3, <1>4, <1>5, <1>6 DEF AInv

\* Only the memory of the replicas, the store or the stops change.
LEMMA QuietStep ==
    ASSUME AInv, StoreTypeOK', MemoryTypeOK',
           stop' \in [Jobs -> StopRecord],
           \A t \in Jobs : stop'[t].pc # "none" => Up(stop'[t].pod),
           drainDue' \subseteq Pods,
           UNCHANGED <<pod, boot, proc, specStarts, launch, starts>>
    PROVE  AInv'
<1>1. AgentTypeOK'
  BY DEF AInv, AgentTypeOK, MemoryTypeOK, StopRecord
<1>2. BootsLeft' /\ SpecStartsCounted' /\ Starters'
  BY DEF AInv, BootsLeft, SpecStartsCounted, Starters
<1>3. OnUpPods'
  BY DEF AInv, OnUpPods, Up
<1> QED
  BY <1>1, <1>2, <1>3 DEF AInv

\* The memory types that a step leaves alone.
LEMMA MemoryKept ==
    ASSUME AInv
    PROVE  /\ runningTasks \in [Pods -> [Jobs -> 0..Unmonitored]]
           /\ taskStopped \in [Pods -> SUBSET Jobs]
           /\ profiles \in [Pods -> SUBSET Jobs]
           /\ control \in [Jobs -> ControlStates]
           /\ UNCHANGED <<runningTasks, taskStopped, profiles, control>> => MemoryTypeOK'
BY DEF AInv, AgentTypeOK, MemoryTypeOK

\* What Forget leaves.
LEMMA ForgetType ==
    ASSUME AInv, NEW p \in Pods, NEW t \in Jobs, Forget(p, t)
    PROVE  /\ runningTasks' \in [Pods -> [Jobs -> 0..Unmonitored]]
           /\ profiles' \in [Pods -> SUBSET Jobs]
           /\ runningTasks'[p][t] = 0
           /\ \A q \in Pods, u \in Jobs : q # p \/ u # t => runningTasks'[q][u] = runningTasks[q][u]
<1>1. 0 \in 0..Unmonitored
  BY Bounds DEF Unmonitored
<1>2. runningTasks \in [Pods -> [Jobs -> 0..Unmonitored]] /\ profiles \in [Pods -> SUBSET Jobs]
  BY MemoryKept
<1> QED
  BY <1>1, <1>2 DEF Forget

\* A store that a step leaves alone keeps its types.
LEMMA StoreKept ==
    ASSUME AInv, UNCHANGED storeVars
    PROVE  StoreTypeOK'
BY DEF AInv, AgentTypeOK, StoreTypeOK, storeVars

-----------------------------------------------------------------------------
(* Initial states *)

\* The initial state satisfies the inductive invariant.
LEMMA InitAInv == Init => AInv
<1> SUFFICES ASSUME Init PROVE AInv
  OBVIOUS
<1>1. StoreTypeOK
  BY StoreInitType DEF Init
<1>2. 0 \in 0..Unmonitored /\ 0 \in 0..MaxStarts /\ 1 \in Boots
  BY Bounds DEF Unmonitored, Boots
<1>3. AgentTypeOK
  BY <1>1, <1>2 DEF Init, AgentTypeOK, ControlStates
<1>4. BootsLeft /\ SpecStartsCounted
  BY DEF Init, BootsLeft, SpecStartsCounted
<1>5. OnUpPods /\ Starters
  BY DEF Init, OnUpPods, Starters, NoProcess, NoLaunch, NoStop
<1> QED
  BY <1>3, <1>4, <1>5 DEF AInv

-----------------------------------------------------------------------------
(* The supervisor's steps are transactions of the store *)

\* A replica's identity is one that claims are stamped with.
LEMMA OwnerType ==
    ASSUME AInv, NEW p \in Pods
    PROVE  Owner(p) \in Owners
BY OwnersAreBoots DEF AInv, AgentTypeOK, Owner

\* A drain of the supervisor is a drain of the store.
LEMMA DrainStep ==
    ASSUME NEW p, DrainFrom(p)
    PROVE  SubprocessStep
BY DEF DrainFrom, SubprocessStep, Queued

\* Losing a replica aborts transactions, and nothing else.
LEMMA LoseReplicaStep ==
    ASSUME NEW p, LoseReplica(p)
    PROVE  SubprocessStep
<1> DEFINE S == {t \in removing : stop[t].pc = "delete" /\ stop[t].pod = p}
<1>1. S \in SUBSET removing /\ RemoveQueuedAbort(S)
  BY DEF LoseReplica
<1> QED
  BY <1>1 DEF SubprocessStep

\* A terminal write.
LEMMA TerminalStep ==
    ASSUME NEW j \in Jobs, NEW s \in {"done", "review", "failed"}, NEW err \in BOOLEAN,
           MarkTerminal(j, s, err)
    PROVE  SubprocessStep
<1>1. s \in TerminalStates
  BY DEF TerminalStates, EndedStates
<1> QED
  BY <1>1, Zenon DEF SubprocessStep

\* A start, a claim, a failed launch.
LEMMA LaunchStoreStep ==
    ASSUME AInv, NEW t \in Jobs, LaunchStep(t) \/ LaunchRaises(t)
    PROVE  SubprocessStep \/ UNCHANGED storeVars
<1>1. CASE Claim(t)
  <2>1. launch[t].pod \in Pods
    BY <1>1, InFlight, LaunchFields DEF Claim
  <2>2. Owner(launch[t].pod) \in Owners
    BY <2>1, OwnerType
  <2> QED
    BY <1>1, <2>2 DEF Claim, SubprocessStep
<1>2. CASE LaunchFailed(t)
  BY <1>2, TerminalStep DEF LaunchFailed
<1>3. CASE \/ SkipPromoted(t) \/ SpawnBegin(t) \/ Spawn(t) \/ SpawnRefused(t)
           \/ LaunchRaises(t)
  BY <1>3, Zenon DEF SkipPromoted, SpawnBegin, Spawn, SpawnRefused, LaunchRaises
<1> QED
  BY <1>1, <1>2, <1>3 DEF LaunchStep

\* The steps of a monitor.
LEMMA MonitorStoreStep ==
    ASSUME AInv, NEW i \in ProcIds,
           ProcExit(i) \/ UnwatchedExit(i) \/ MonitorRaises(i) \/ MonitorStep(i)
    PROVE  SubprocessStep \/ UNCHANGED storeVars
<1>0. proc[i] \in ProcRecord
  BY InFlight
<1>1. CASE RestartTask(i)
  <2>1. proc[i].task \in Jobs
    BY <1>0, <1>1, ProcFields DEF RestartTask, At
  <2> QED
    BY <1>1, <2>1, Zenon DEF RestartTask, AdmitFor, SubprocessStep
<1>2. CASE FreeSlot(i)
  <2>1. proc[i].task \in Jobs /\ proc[i].outcome \in {"done", "review"}
    BY <1>0, <1>2, ProcFields DEF FreeSlot, At
  <2> QED
    BY <1>2, <2>1, TerminalStep DEF FreeSlot
<1>3. CASE MonitorDrain(i)
  BY <1>3, DrainStep DEF MonitorDrain
<1>4. CASE \/ RetryDecide(i) \/ RetrySpawn(i) \/ RetryUnavailable(i) \/ ParkForReview(i)
           \/ AutoStart(i) \/ DeferToStop(i) \/ AutoContinue(i)
  BY <1>4 DEF RetryDecide, RetrySpawn, RetryUnavailable, ParkForReview, AutoStart,
              DeferToStop, AutoContinue
<1>5. CASE \/ AutoStartFailed(i) \/ Complete(i) \/ Cleanup(i) \/ ExitCheck(i)
           \/ ProcExit(i) \/ UnwatchedExit(i) \/ MonitorRaises(i)
  BY <1>5 DEF AutoStartFailed, Complete, Cleanup, ExitCheck, ProcExit, UnwatchedExit,
              MonitorRaises
<1> QED
  BY <1>1, <1>2, <1>3, <1>4, <1>5 DEF MonitorStep

\* Stops.
LEMMA StopStoreStep ==
    ASSUME AInv, NEW t \in Jobs, StopStep(t)
    PROVE  SubprocessStep \/ UNCHANGED storeVars
<1>1. CASE StopCleanup(t)
  BY <1>1 DEF StopCleanup
<1>2. CASE StopMark(t)
  BY <1>2, TerminalStep DEF StopMark
<1>3. CASE StopDelete(t)
  BY <1>3 DEF StopDelete, SubprocessStep
<1> QED
  BY <1>1, <1>2, <1>3 DEF StopStep

\* What users do.
LEMMA RequestStoreStep ==
    ASSUME AInv, NEW p \in Pods, NEW t \in Jobs,
           \/ StartTask(p, t) \/ StartSpec(p, t) \/ StopBegin(p, t)
           \/ StopSignalsServer(p, t) \/ StopQueued(p, t)
           \/ SpawnSpec(p, t) \/ SpecRaises(p, t)
    PROVE  SubprocessStep \/ UNCHANGED storeVars
<1>1. CASE StartTask(p, t)
  BY <1>1 DEF StartTask, AdmitFor, SubprocessStep
<1>2. CASE StopSignalsServer(p, t)
  BY <1>2, LoseReplicaStep DEF StopSignalsServer
<1>3. CASE StopQueued(p, t)
  BY <1>3 DEF StopQueued, SubprocessStep
<1>4. CASE StartSpec(p, t) \/ StopBegin(p, t) \/ SpawnSpec(p, t) \/ SpecRaises(p, t)
  BY <1>4 DEF StartSpec, StopBegin, SpawnSpec, SpecRaises
<1> QED
  BY <1>1, <1>2, <1>3, <1>4

\* What happens to replicas.
LEMMA ReplicaStoreStep ==
    ASSUME AInv, NEW p \in Pods, Crash(p) \/ ScaleIn(p) \/ ReconcileStep(p)
    PROVE  SubprocessStep \/ UNCHANGED storeVars
<1>1. CASE Crash(p) \/ ScaleIn(p)
  BY <1>1, LoseReplicaStep DEF Crash, ScaleIn
<1>2. CASE Restart(p)
  BY <1>2 DEF Restart
<1>3. CASE ReconcileDrain(p)
  BY <1>3, DrainStep DEF ReconcileDrain
<1>4. CASE \E t \in Jobs : Reap(p, t)
  BY <1>4 DEF Reap, SubprocessStep
<1> QED
  BY <1>1, <1>2, <1>3, <1>4 DEF ReconcileStep

\* Every step of the supervisor is a transaction of the store or leaves it alone.
LEMMA NextStoreStep ==
    ASSUME AInv, [Next]_vars
    PROVE  [SubprocessStep]_storeVars
<1>1. CASE UNCHANGED vars
  BY <1>1 DEF vars
<1>2. CASE Next
  BY <1>2, LaunchStoreStep, MonitorStoreStep, StopStoreStep, RequestStoreStep,
     ReplicaStoreStep DEF Next
<1> QED
  BY <1>1, <1>2

-----------------------------------------------------------------------------
(* Monitors keep the invariant *)

\* Where a monitor that leaves goes.
LEMMA LeaveShape ==
    ASSUME AInv, NEW i \in ProcIds, proc[i].pc # "none", NEW x \in LeavingPcs
    PROVE  \E R \in ProcRecord : /\ R.pc = x /\ R.pod = proc[i].pod /\ R.task = proc[i].task
                                 /\ Leave(i, x) = [proc EXCEPT ![i] = R]
<1> DEFINE R == [pc |-> x, pod |-> proc[i].pod, task |-> proc[i].task]
<1>1. R \in ProcRecord
  BY InFlight, ProcFields, LeaveRecord
<1>2. Leave(i, x) = [proc EXCEPT ![i] = R]
  BY DEF Leave
<1> QED
  BY <1>1, <1>2

\* Where a monitor goes that has returned.
LEMMA ReturnShape ==
    ASSUME AInv, NEW i \in ProcIds, proc[i].pc # "none", NEW tracked
    PROVE  \E R \in ProcRecord :
              /\ R.pod = proc[i].pod /\ R.task = proc[i].task
              /\ R.pc = IF tracked[proc[i].task] # 0 THEN "drain" ELSE "free"
              /\ Return(i, tracked) = [proc EXCEPT ![i] = R]
<1>1. proc[i].pod \in Pods /\ proc[i].task \in Jobs
  BY InFlight, ProcFields
<1>2. CASE tracked[proc[i].task] # 0
  BY <1>2, LeaveShape DEF Return, LeavingPcs
<1>3. CASE tracked[proc[i].task] = 0
  <2> DEFINE o == ExitLifecycle(control[proc[i].task])
             R == [pc |-> "free", pod |-> proc[i].pod, task |-> proc[i].task, outcome |-> o]
  <2>1. o \in {"done", "review"}
    BY DEF ExitLifecycle
  <2>2. Return(i, tracked) = [proc EXCEPT ![i] = R]
    BY <1>3 DEF Return
  <2> HIDE DEF o
  <2>3. R \in ProcRecord
    BY <1>1, <2>1, FreeRecord
  <2> QED
    BY <1>3, <2>2, <2>3
<1> QED
  BY <1>2, <1>3

\* Where a monitor goes that keeps its process.
LEMMA GotoShape ==
    ASSUME AInv, NEW i \in ProcIds, proc[i].pc \in ProcessPcs, NEW x \in ProcessPcs
    PROVE  \E R \in ProcRecord : /\ R.pc = x /\ R.pod = proc[i].pod /\ R.task = proc[i].task
                                 /\ R.kind = proc[i].kind /\ R.live = proc[i].live
                                 /\ Goto(i, x) = [proc EXCEPT ![i] = R]
<1>1. proc[i] \in Process
  BY InFlight, ProcFields
<1>2. Goto(i, x) = [proc EXCEPT ![i] = [proc[i] EXCEPT !.pc = x]]
  BY DEF Goto
<1> QED
  BY <1>1, <1>2, GotoRecord

\* What a dying process leaves is something a process may leave.
LEMMA LeftByType ==
    ASSUME NEW k, NEW c
    PROVE  LeftBy(k, c) \subseteq Leftovers
<1>1. CASE k = "spec"
  BY <1>1 DEF LeftBy, Leftovers
<1>2. CASE k # "spec" /\ c = 1
  BY <1>2 DEF LeftBy, Leftovers
<1>3. CASE k # "spec" /\ c # 1
  BY <1>3 DEF LeftBy, Leftovers
<1> QED
  BY <1>1, <1>2, <1>3

\* Process i dies with code c and leaves l.
Dead(i, c, l) == [proc EXCEPT ![i].live = FALSE, ![i].code = c, ![i].left = l]

\* Where a process goes that dies.
LEMMA DeathShape ==
    ASSUME AInv, NEW i \in ProcIds, proc[i] \in Process, NEW c \in {0, 1}, NEW l \in Leftovers
    PROVE  \E R \in ProcRecord :
              /\ R.pc = proc[i].pc /\ R.pod = proc[i].pod /\ R.task = proc[i].task
              /\ R.kind = proc[i].kind /\ R.live = FALSE
              /\ Dead(i, c, l) = [proc EXCEPT ![i] = R]
<1> DEFINE R == [proc[i] EXCEPT !.live = FALSE, !.code = c, !.left = l]
<1>1. proc = [k \in ProcIds |-> proc[k]]
  BY InFlight
<1>2. Dead(i, c, l) = [proc EXCEPT ![i] = R]
  BY <1>1 DEF Dead
<1>3. /\ R \in ProcRecord /\ R.pc = proc[i].pc /\ R.pod = proc[i].pod
      /\ R.task = proc[i].task /\ R.kind = proc[i].kind /\ R.live = FALSE
  BY DEF Process, ProcRecord
<1> QED
  BY <1>2, <1>3

\* A process dies.
LEMMA ProcExitAInv ==
    ASSUME AInv, NEW i \in ProcIds, ProcExit(i), StoreTypeOK'
    PROVE  AInv'
<1>1. /\ proc[i].pc = "watch" /\ proc[i] \in Process
      /\ UNCHANGED <<pod, boot, runningTasks, taskStopped, profiles, control,
                     specStarts, launch, stop, drainDue, starts>>
  BY InFlight, ProcFields DEF ProcExit, At, ProcessPcs
<1>2. PICK c \in {0, 1}, l \in Leftovers : proc' = Dead(i, c, l)
  <2>1. PICK c \in {0, 1} : \E l \in LeftBy(proc[i].kind, c) : proc' = Dead(i, c, l)
    BY Zenon DEF ProcExit, Dead
  <2>2. PICK l \in LeftBy(proc[i].kind, c) : proc' = Dead(i, c, l)
    BY <2>1
  <2> QED
    BY <2>2, LeftByType
<1>3. PICK R \in ProcRecord : R.pod = proc[i].pod /\ proc' = [proc EXCEPT ![i] = R]
  <2>1. proc[i] \in Process
    BY <1>1
  <2>2. PICK R \in ProcRecord :
           /\ R.pc = proc[i].pc /\ R.pod = proc[i].pod /\ R.task = proc[i].task
           /\ R.kind = proc[i].kind /\ R.live = FALSE
           /\ Dead(i, c, l) = [proc EXCEPT ![i] = R]
    BY <2>1, DeathShape, Zenon
  <2> QED
    BY <1>2, <2>2
<1> QED
  BY <1>1, <1>3, MemoryKept, MonitorMoves

\* A process nobody watches dies.
LEMMA UnwatchedExitAInv ==
    ASSUME AInv, NEW i \in ProcIds, UnwatchedExit(i), StoreTypeOK'
    PROVE  AInv'
<1>1. NoProcess \in ProcRecord /\ NoProcess.pc = "none"
  BY DEF ProcRecord, NoProcess
<1> QED
  BY <1>1, MemoryKept, MonitorMoves DEF UnwatchedExit, At

\* The steps that only move the monitor.
LEMMA QuietMonitorAInv ==
    ASSUME AInv, NEW i \in ProcIds, StoreTypeOK',
           RetryDecide(i) \/ RetryUnavailable(i) \/ ExitCheck(i) \/ FreeSlot(i)
    PROVE  AInv'
<1>1. CASE RetryDecide(i)
  BY <1>1, GotoShape, MemoryKept, MonitorMoves DEF RetryDecide, At, ProcessPcs
<1>2. CASE RetryUnavailable(i)
  BY <1>2, GotoShape, MemoryKept, MonitorMoves DEF RetryUnavailable, At, ProcessPcs
<1>3. CASE ExitCheck(i)
  <2>1. proc[i].pc = "exit" /\ MemoryTypeOK'
        /\ UNCHANGED <<pod, boot, specStarts, launch, stop, drainDue, starts>>
    BY <1>3, MemoryKept DEF ExitCheck, At
  <2> DEFINE tracked == runningTasks[proc[i].pod]
  <2>2. proc[i].pc # "none" /\ proc' = Return(i, tracked)
    BY <1>3, <2>1 DEF ExitCheck
  <2> HIDE DEF tracked
  <2>3. PICK R \in ProcRecord :
           /\ R.pod = proc[i].pod /\ R.task = proc[i].task
           /\ R.pc = IF tracked[proc[i].task] # 0 THEN "drain" ELSE "free"
           /\ Return(i, tracked) = [proc EXCEPT ![i] = R]
    BY <2>2, ReturnShape
  <2>4. proc' = [proc EXCEPT ![i] = R]
    BY <2>2, <2>3
  <2> QED
    BY <2>1, <2>3, <2>4, MonitorMoves
<1>4. CASE FreeSlot(i)
  <2>1. proc[i].pc = "free" /\ MemoryTypeOK'
        /\ UNCHANGED <<pod, boot, specStarts, launch, stop, drainDue, starts>>
    BY <1>4, MemoryKept DEF FreeSlot, At
  <2>2. PICK R \in ProcRecord : R.pod = proc[i].pod /\ proc' = [proc EXCEPT ![i] = R]
    BY <1>4, <2>1, LeaveShape DEF FreeSlot, LeavingPcs
  <2> QED
    BY <2>1, <2>2, MonitorMoves
<1> QED
  BY <1>1, <1>2, <1>3, <1>4

\* The steps that forget the task.
LEMMA ForgettingMonitorAInv ==
    ASSUME AInv, NEW i \in ProcIds, StoreTypeOK',
           ParkForReview(i) \/ AutoStart(i) \/ AutoContinue(i) \/ Cleanup(i)
    PROVE  AInv'
<1>1. /\ proc[i].pc \in {"watch", "handle", "cleanup"}
      /\ proc[i].pod \in Pods /\ proc[i].task \in Jobs
  <2>1. proc[i].pc \in {"watch", "handle", "cleanup"}
    BY DEF ParkForReview, AutoStart, AutoContinue, Cleanup, Ending, Exited, At
  <2> QED
    BY <2>1, InFlight, ProcFields
<1>2. Forget(proc[i].pod, proc[i].task) /\ UNCHANGED taskStopped
  BY DEF ParkForReview, AutoStart, AutoContinue, Cleanup
<1>3. control' \in [Jobs -> ControlStates]
  BY <1>1, MemoryKept DEF ParkForReview, AutoStart, AutoContinue, Cleanup, ControlStates
<1>4. MemoryTypeOK'
  BY <1>1, <1>2, <1>3, ForgetType, MemoryKept DEF MemoryTypeOK
<1>5. UNCHANGED <<pod, boot, specStarts, launch, stop, drainDue, starts>>
  BY DEF ParkForReview, AutoStart, AutoContinue, Cleanup
<1>6. \E R \in ProcRecord : R.pod = proc[i].pod /\ proc' = [proc EXCEPT ![i] = R]
  <2>1. CASE ParkForReview(i)
    BY <1>1, <2>1, LeaveShape DEF ParkForReview, LeavingPcs
  <2>2. CASE AutoStart(i)
    BY <2>2, GotoShape DEF AutoStart, ProcessPcs, Exited
  <2>3. CASE AutoContinue(i)
    BY <2>3, GotoShape DEF AutoContinue, ProcessPcs, Exited, Ending
  <2>4. CASE Cleanup(i)
    BY <1>1, <2>4, ReturnShape DEF Cleanup
  <2> QED
    BY <2>1, <2>2, <2>3, <2>4
<1> QED
  BY <1>1, <1>4, <1>5, <1>6, MonitorMoves

\* The steps that write the control file or defer to a stop.
LEMMA RecordingMonitorAInv ==
    ASSUME AInv, NEW i \in ProcIds, StoreTypeOK',
           AutoStartFailed(i) \/ Complete(i) \/ DeferToStop(i)
    PROVE  AInv'
<1>1. /\ proc[i].pc \in {"watch", "handle", "startFailed"}
      /\ proc[i].pod \in Pods /\ proc[i].task \in Jobs
  <2>1. proc[i].pc \in {"watch", "handle", "startFailed"}
    BY DEF AutoStartFailed, Complete, DeferToStop, Ending, Exited, At
  <2> QED
    BY <2>1, InFlight, ProcFields
<1>2. UNCHANGED <<runningTasks, profiles, pod, boot, specStarts, launch, stop, drainDue,
                  starts>>
  BY DEF AutoStartFailed, Complete, DeferToStop
<1>3. taskStopped' \in [Pods -> SUBSET Jobs]
  BY <1>1, MemoryKept DEF AutoStartFailed, Complete, DeferToStop
<1>4. control' \in [Jobs -> ControlStates]
  <2>1. CASE AutoStartFailed(i)
    BY <1>1, <2>1, MemoryKept DEF AutoStartFailed, ControlStates
  <2>2. CASE Complete(i)
    <3> DEFINE c == CASE proc[i].kind = "spec" -> control[proc[i].task]
                      [] proc[i].code = 0 /\ proc[i].left # "stuck" -> "completed"
                      [] OTHER -> "errors"
    <3>1. c \in ControlStates
      BY <1>1, MemoryKept DEF ControlStates
    <3>2. control' = [control EXCEPT ![proc[i].task] = c]
      BY <2>2 DEF Complete
    <3> HIDE DEF c
    <3> QED
      BY <3>1, <3>2, MemoryKept
  <2>3. CASE DeferToStop(i)
    BY <2>3, MemoryKept DEF DeferToStop
  <2> QED
    BY <2>1, <2>2, <2>3
<1>5. MemoryTypeOK'
  BY <1>2, <1>3, <1>4, MemoryKept DEF MemoryTypeOK
<1>6. \E R \in ProcRecord : R.pod = proc[i].pod /\ proc' = [proc EXCEPT ![i] = R]
  BY <1>1, LeaveShape, ReturnShape DEF AutoStartFailed, Complete, DeferToStop, LeavingPcs
<1> QED
  BY <1>1, <1>2, <1>5, <1>6, MonitorMoves

-----------------------------------------------------------------------------
(* Steps of several coroutines *)

SpecsOK ==
    /\ starts \in 0..MaxStarts
    /\ specStarts \in [Pods -> [Jobs -> 0..MaxStarts]]
    /\ SpecStartsCounted
    /\ \A p \in Pods, t \in Jobs : specStarts[p][t] > 0 => Up(p)

\* Spec starts that a step leaves alone.
LEMMA SpecsKept ==
    ASSUME AInv
    PROVE  SpecsOK /\ (UNCHANGED <<starts, specStarts, pod>> => SpecsOK')
BY DEF AInv, AgentTypeOK, SpecsOK, SpecStartsCounted, OnUpPods, Up

\* Any processes but the waiting ones change; launches and stops start, move or end.
LEMMA EverythingMoves ==
    ASSUME AInv, StoreTypeOK', MemoryTypeOK', SpecsOK',
           proc' \in [ProcIds -> ProcRecord],
           \A i \in ProcIds : proc'[i].pc # "none" => Up(proc'[i].pod),
           \A i \in ProcIds : proc[i].pc = "starting" => proc'[i] = proc[i],
           launch' \in [Jobs -> LaunchRecord],
           \A t \in Jobs : launch'[t].pc # "none" => Up(launch'[t].pod),
           \A t \in Jobs : launch'[t].pc # "none" /\ launch'[t].by # 0 =>
                /\ launch[t].pc # "none"
                /\ launch'[t].by = launch[t].by /\ launch'[t].pod = launch[t].pod,
           stop' \in [Jobs -> StopRecord],
           \A t \in Jobs : stop'[t].pc # "none" => Up(stop'[t].pod),
           drainDue' \subseteq Pods,
           UNCHANGED <<pod, boot>>
    PROVE  AInv'
<1>1. AgentTypeOK'
  BY DEF AInv, AgentTypeOK, MemoryTypeOK, SpecsOK, ProcRecord, LaunchRecord, StopRecord
<1>2. BootsLeft' /\ SpecStartsCounted'
  BY DEF AInv, BootsLeft, SpecsOK
<1>3. OnUpPods'
  <2>1. (\A t \in Jobs : stop[t].pc # "none" => Up(stop[t].pod))'
    BY DEF Up
  <2>2. (\A i \in ProcIds : proc[i].pc # "none" => Up(proc[i].pod))'
    BY DEF Up
  <2>3. (\A t \in Jobs : launch[t].pc # "none" => Up(launch[t].pod))'
    BY DEF Up
  <2> QED
    BY <2>1, <2>2, <2>3 DEF OnUpPods, SpecsOK
<1>4. Starters'
  <2> SUFFICES ASSUME NEW t \in Jobs, launch'[t].pc # "none" /\ launch'[t].by # 0
               PROVE  /\ proc'[launch'[t].by].pc = "starting"
                      /\ proc'[launch'[t].by].task = t
                      /\ proc'[launch'[t].by].pod = launch'[t].pod
    BY DEF Starters
  <2>1. launch'[t].by \in ProcIds
    BY LaunchFields, Bounds DEF ProcIds
  <2> QED
    BY <2>1 DEF AInv, Starters
<1> QED
  BY <1>1, <1>2, <1>3, <1>4 DEF AInv

\* The same when the stops stay as they are.
LEMMA CoroutinesMove ==
    ASSUME AInv, StoreTypeOK', MemoryTypeOK', SpecsOK',
           proc' \in [ProcIds -> ProcRecord],
           \A i \in ProcIds : proc'[i].pc # "none" => Up(proc'[i].pod),
           \A i \in ProcIds : proc[i].pc = "starting" => proc'[i] = proc[i],
           launch' \in [Jobs -> LaunchRecord],
           \A t \in Jobs : launch'[t].pc # "none" => Up(launch'[t].pod),
           \A t \in Jobs : launch'[t].pc # "none" /\ launch'[t].by # 0 =>
                /\ launch[t].pc # "none"
                /\ launch'[t].by = launch[t].by /\ launch'[t].pod = launch[t].pod,
           drainDue' \subseteq Pods,
           UNCHANGED <<pod, boot, stop>>
    PROVE  AInv'
<1>1. /\ stop' \in [Jobs -> StopRecord]
      /\ \A t \in Jobs : stop'[t].pc # "none" => Up(stop'[t].pod)
  BY InFlight DEF AInv, OnUpPods
<1> QED
  BY <1>1, EverythingMoves

\* A process takes a free slot while monitor i moves.
LEMMA SlotTaken ==
    ASSUME AInv, NEW i \in ProcIds, proc[i].pc \notin {"none", "starting"},
           NEW k \in ProcIds, proc[k].pc = "none",
           NEW R \in ProcRecord, R.pod = proc[i].pod,
           NEW N \in ProcRecord, N.pod = proc[i].pod,
           proc' = [j \in ProcIds |-> IF j = k THEN N ELSE IF j = i THEN R ELSE proc[j]],
           StoreTypeOK', MemoryTypeOK',
           UNCHANGED <<pod, boot, specStarts, launch, stop, drainDue, starts>>
    PROVE  AInv'
<1>1. proc' \in [ProcIds -> ProcRecord]
  BY InFlight
<1>2. \A j \in ProcIds : proc'[j] = IF j = k THEN N ELSE IF j = i THEN R ELSE proc[j]
  OBVIOUS
<1>3. /\ \A j \in ProcIds : proc'[j].pc # "none" => Up(proc'[j].pod)
      /\ \A j \in ProcIds : proc[j].pc = "starting" => proc'[j] = proc[j]
  BY <1>2 DEF AInv, OnUpPods
<1>4. /\ launch' \in [Jobs -> LaunchRecord] /\ launch' = launch
      /\ \A t \in Jobs : launch'[t].pc # "none" => Up(launch'[t].pod)
  BY InFlight DEF AInv, OnUpPods
<1>5. drainDue' \subseteq Pods
  BY DEF AInv, AgentTypeOK
<1> QED
  BY <1>1, <1>3, <1>4, <1>5, SpecsKept, CoroutinesMove

\* The retry's process and its monitor.
LEMMA RetrySpawnAInv ==
    ASSUME AInv, NEW i \in ProcIds, RetrySpawn(i), StoreTypeOK'
    PROVE  AInv'
<1> DEFINE p == proc[i].pod
           t == proc[i].task
<1>1. proc[i].pc = "retrying" /\ proc[i] \in Process /\ p \in Pods /\ t \in Jobs
  BY InFlight, ProcFields DEF RetrySpawn, At, ProcessPcs
<1>2. PICK k \in ProcIds : /\ proc[k].pc = "none"
                           /\ proc' = [Leave(i, "drain") EXCEPT
                                          ![k] = NewProcess(p, t, proc[i].kind, FALSE)]
                           /\ runningTasks' = [runningTasks EXCEPT ![p][t] = k]
  BY DEF RetrySpawn, FreeProc
<1> DEFINE N == NewProcess(p, t, proc[i].kind, FALSE)
<1>3. N \in ProcRecord /\ N.pod = p
  <2>1. proc[i].kind \in {"spec", "build"}
    BY <1>1 DEF Process
  <2> QED
    BY <1>1, <2>1, NewProcessRecord DEF NewProcess
<1>4. PICK R \in ProcRecord : R.pod = p /\ Leave(i, "drain") = [proc EXCEPT ![i] = R]
  BY <1>1, LeaveShape DEF LeavingPcs
<1> HIDE DEF N
<1>5. proc' = [j \in ProcIds |-> IF j = k THEN N ELSE IF j = i THEN R ELSE proc[j]]
  BY <1>2, <1>4, InFlight DEF N
<1>6. MemoryTypeOK'
  <2>1. k \in 0..Unmonitored
    BY Bounds DEF ProcIds, Unmonitored
  <2> QED
    BY <1>1, <1>2, <2>1, MemoryKept DEF RetrySpawn, MemoryTypeOK
<1>7. /\ proc[k].pc = "none" /\ proc[i].pc \notin {"none", "starting"}
      /\ UNCHANGED <<pod, boot, specStarts, launch, stop, drainDue, starts>>
  BY <1>1, <1>2 DEF RetrySpawn
<1> QED
  BY <1>3, <1>4, <1>5, <1>6, <1>7, SlotTaken

\* The monitor raises; a process that is alive goes on unwatched.
LEMMA MonitorRaisesAInv ==
    ASSUME AInv, NEW i \in ProcIds, MonitorRaises(i), StoreTypeOK'
    PROVE  AInv'
<1>1. /\ proc[i].pc \in {"watch", "handle"} /\ proc[i] \in Process
      /\ proc[i].pod \in Pods /\ proc[i].task \in Jobs
  <2>1. proc[i].pc \in {"watch", "handle"}
    BY DEF MonitorRaises, At, Exited
  <2> QED
    BY <2>1, InFlight, ProcFields DEF ProcessPcs
<1>2. MemoryTypeOK'
  <2>1. control' \in [Jobs -> ControlStates]
    BY <1>1, MemoryKept DEF MonitorRaises, ControlStates
  <2> QED
    BY <1>1, <2>1, ForgetType, MemoryKept DEF MonitorRaises, MemoryTypeOK
<1>3. UNCHANGED <<pod, boot, specStarts, launch, stop, drainDue, starts>>
  BY DEF MonitorRaises
<1>4. PICK R \in ProcRecord : R.pod = proc[i].pod /\ Leave(i, "exit") = [proc EXCEPT ![i] = R]
  BY <1>1, LeaveShape DEF LeavingPcs
<1>5. CASE proc' = Leave(i, "exit")
  BY <1>1, <1>2, <1>3, <1>4, <1>5, MonitorMoves
<1>6. CASE \E k \in ProcIds :
             FreeProc(k) /\ proc' = [Goto(i, "unwatched") EXCEPT ![k] = Leave(i, "exit")[i]]
  <2>1. PICK k \in ProcIds :
          /\ proc[k].pc = "none"
          /\ proc' = [Goto(i, "unwatched") EXCEPT ![k] = Leave(i, "exit")[i]]
    BY <1>6 DEF FreeProc
  <2>2. PICK Q \in ProcRecord : Q.pod = proc[i].pod /\ Goto(i, "unwatched") = [proc EXCEPT ![i] = Q]
    BY <1>1, GotoShape DEF ProcessPcs
  <2>3. Leave(i, "exit")[i] = R
    BY <1>4, InFlight
  <2>4. proc' = [j \in ProcIds |-> IF j = k THEN R ELSE IF j = i THEN Q ELSE proc[j]]
    BY <2>1, <2>2, <2>3, InFlight
  <2> QED
    BY <1>1, <1>2, <1>3, <1>4, <2>1, <2>2, <2>4, SlotTaken
<1> QED
  BY <1>5, <1>6 DEF MonitorRaises

\* The launches a drain makes.
LEMMA DrainLaunches ==
    ASSUME AInv, NEW p \in Pods, Up(p), DrainFrom(p)
    PROVE  /\ launch' \in [Jobs -> LaunchRecord]
           /\ \A t \in Jobs : launch'[t].pc # "none" => Up(launch'[t].pod)
           /\ \A t \in Jobs : launch'[t].pc # "none" /\ launch'[t].by # 0
                                => launch'[t] = launch[t]
<1> DEFINE L == [pc |-> "promoted", pod |-> p, by |-> 0]
<1>1. L \in LaunchRecord /\ L.pod = p /\ L.by = 0
  BY Bounds DEF LaunchRecord, Launch
<1>2. PICK S \in SUBSET Queued : launch' = [t \in Jobs |-> IF t \in S THEN L ELSE launch[t]]
  BY DEF DrainFrom
<1> HIDE DEF L
<1>3. \A t \in Jobs : launch'[t] = IF t \in S THEN L ELSE launch[t]
  BY <1>2
<1>4. launch' \in [Jobs -> LaunchRecord]
  BY <1>1, <1>2, InFlight
<1>5. \A t \in Jobs : launch'[t].pc # "none" => Up(launch'[t].pod)
  BY <1>1, <1>3 DEF AInv, OnUpPods
<1>6. \A t \in Jobs : launch'[t].pc # "none" /\ launch'[t].by # 0 => launch'[t] = launch[t]
  BY <1>1, <1>3
<1> QED
  BY <1>4, <1>5, <1>6

\* A monitor's last step.
LEMMA MonitorDrainAInv ==
    ASSUME AInv, NEW i \in ProcIds, MonitorDrain(i), StoreTypeOK'
    PROVE  AInv'
<1>1. proc[i].pc = "drain" /\ proc[i].pod \in Pods /\ Up(proc[i].pod)
  BY InFlight, ProcFields DEF MonitorDrain, At, AInv, OnUpPods
<1>2. /\ launch' \in [Jobs -> LaunchRecord]
      /\ \A t \in Jobs : launch'[t].pc # "none" => Up(launch'[t].pod)
      /\ \A t \in Jobs : launch'[t].pc # "none" /\ launch'[t].by # 0
                           => launch'[t] = launch[t]
  BY <1>1, DrainLaunches DEF MonitorDrain
<1>3. NoProcess \in ProcRecord /\ NoProcess.pc = "none"
  BY DEF ProcRecord, NoProcess
<1>4. proc' = [proc EXCEPT ![i] = NoProcess]
  BY DEF MonitorDrain
<1>5. proc' \in [ProcIds -> ProcRecord]
  BY <1>3, <1>4, InFlight
<1>6. \A j \in ProcIds : proc'[j] = IF j = i THEN NoProcess ELSE proc[j]
  BY <1>4, InFlight
<1>7. /\ \A j \in ProcIds : proc'[j].pc # "none" => Up(proc'[j].pod)
      /\ \A j \in ProcIds : proc[j].pc = "starting" => proc'[j] = proc[j]
  BY <1>1, <1>3, <1>6 DEF AInv, OnUpPods
<1>8. MemoryTypeOK'
  <2>1. Unmonitored \in 0..Unmonitored
    BY Bounds DEF Unmonitored
  <2>2. runningTasks' \in [Pods -> [Jobs -> 0..Unmonitored]]
    BY <2>1, MemoryKept DEF MonitorDrain, Retire
  <2> QED
    BY <2>2, MemoryKept DEF MonitorDrain, MemoryTypeOK
<1>9. drainDue' \subseteq Pods /\ UNCHANGED <<pod, boot, stop, starts, specStarts>>
  BY DEF MonitorDrain, AInv, AgentTypeOK
<1> QED
  BY <1>2, <1>5, <1>7, <1>8, <1>9, SpecsKept, CoroutinesMove

\* What an admission changes of the launches and the control file.
LEMMA AdmitForType ==
    ASSUME AInv, NEW p \in Pods, NEW t \in Jobs, NEW b \in 0..MaxProcs, AdmitFor(p, t, b)
    PROVE  /\ launch[t] = NoLaunch
           /\ control' \in [Jobs -> ControlStates]
           /\ \/ HasFreeSlot /\ \E L \in LaunchRecord :
                   /\ L.pc = "granted" /\ L.pod = p /\ L.by = b
                   /\ launch' = [launch EXCEPT ![t] = L]
              \/ ~HasFreeSlot /\ launch' = launch
<1> DEFINE L == [pc |-> "granted", pod |-> p, by |-> b]
<1>1. L \in LaunchRecord /\ L.pc = "granted" /\ L.pod = p /\ L.by = b
  BY DEF LaunchRecord, Launch
<1>2. control' \in [Jobs -> ControlStates]
  BY MemoryKept DEF AdmitFor, ControlStates
<1> QED
  BY <1>1, <1>2 DEF AdmitFor

\* A user's start.
LEMMA StartTaskAInv ==
    ASSUME AInv, NEW p \in Pods, NEW t \in Jobs, StartTask(p, t), StoreTypeOK'
    PROVE  AInv'
<1>1. /\ Up(p) /\ AdmitFor(p, t, 0)
      /\ UNCHANGED <<pod, boot, proc, runningTasks, taskStopped, profiles, specStarts,
                     stop, drainDue>>
  BY DEF StartTask
<1>2. 0 \in 0..MaxProcs
  BY Bounds
<1>3. MemoryTypeOK'
  BY <1>1, <1>2, AdmitForType, MemoryKept DEF MemoryTypeOK
<1>4. SpecsOK'
  <2>1. starts' \in 0..MaxStarts /\ starts' = starts + 1 /\ starts \in Nat
    BY Bounds DEF StartTask, AInv, AgentTypeOK
  <2>2. specStarts \in [Pods -> [Jobs -> 0..MaxStarts]]
    BY DEF AInv, AgentTypeOK
  <2> QED
    BY <1>1, <2>1, <2>2 DEF AInv, SpecsOK, SpecStartsCounted, OnUpPods, Up
<1>5. /\ launch' \in [Jobs -> LaunchRecord]
      /\ \A u \in Jobs : launch'[u].pc # "none" => Up(launch'[u].pod)
      /\ \A u \in Jobs : launch'[u].pc # "none" /\ launch'[u].by # 0
                           => launch'[u] = launch[u]
  <2>1. CASE HasFreeSlot
    <3>1. PICK L \in LaunchRecord : /\ L.pod = p /\ L.by = 0
                                    /\ launch' = [launch EXCEPT ![t] = L]
      BY <1>1, <1>2, <2>1, AdmitForType
    <3>2. \A u \in Jobs : launch'[u] = IF u = t THEN L ELSE launch[u]
      BY <3>1, InFlight
    <3> QED
      BY <1>1, <3>1, <3>2, InFlight DEF AInv, OnUpPods
  <2>2. CASE ~HasFreeSlot
    BY <1>1, <1>2, <2>2, AdmitForType, InFlight DEF AInv, OnUpPods
  <2> QED
    BY <2>1, <2>2
<1>6. proc' \in [ProcIds -> ProcRecord] /\ drainDue' \subseteq Pods
  BY <1>1, InFlight DEF AInv, AgentTypeOK
<1>7. \A i \in ProcIds : proc'[i].pc # "none" => Up(proc'[i].pod)
  BY <1>1 DEF AInv, OnUpPods
<1> QED
  BY <1>1, <1>3, <1>4, <1>5, <1>6, <1>7, CoroutinesMove

\* A monitor restarts its own task.
LEMMA RestartTaskAInv ==
    ASSUME AInv, NEW i \in ProcIds, RestartTask(i), StoreTypeOK'
    PROVE  AInv'
<1> DEFINE p == proc[i].pod
           t == proc[i].task
<1>1. /\ proc[i].pc = "restart" /\ p \in Pods /\ t \in Jobs /\ Up(p) /\ i \in 0..MaxProcs
      /\ UNCHANGED <<pod, boot, runningTasks, taskStopped, profiles, specStarts, stop,
                     drainDue, starts>>
  <2>1. proc[i].pc = "restart"
    BY DEF RestartTask, At
  <2>2. p \in Pods /\ t \in Jobs /\ Up(p)
    BY <2>1, InFlight, ProcFields DEF AInv, OnUpPods
  <2>3. i \in 0..MaxProcs
    BY Bounds DEF ProcIds
  <2> QED
    BY <2>1, <2>2, <2>3 DEF RestartTask
<1>2. CASE proc' = Goto(i, "startFailed") /\ UNCHANGED <<launch, control>>
  BY <1>1, <1>2, GotoShape, MemoryKept, MonitorMoves DEF ProcessPcs
<1>3. CASE AdmitFor(p, t, i) /\ ~HasFreeSlot /\ proc' = Leave(i, "exit")
  <2>1. UNCHANGED launch /\ MemoryTypeOK'
    BY <1>1, <1>3, AdmitForType, MemoryKept DEF MemoryTypeOK
  <2>2. PICK R \in ProcRecord : R.pod = p /\ proc' = [proc EXCEPT ![i] = R]
    BY <1>1, <1>3, LeaveShape DEF LeavingPcs
  <2> QED
    BY <1>1, <2>1, <2>2, MonitorMoves
<1>4. CASE AdmitFor(p, t, i) /\ HasFreeSlot /\ proc' = Goto(i, "starting")
  <2>1. PICK L \in LaunchRecord : /\ L.pod = p /\ L.by = i
                                  /\ launch' = [launch EXCEPT ![t] = L]
    BY <1>1, <1>4, AdmitForType
  <2>2. PICK R \in ProcRecord : /\ R.pc = "starting" /\ R.pod = p /\ R.task = t
                                /\ proc' = [proc EXCEPT ![i] = R]
    BY <1>1, <1>4, GotoShape DEF ProcessPcs
  <2>3. /\ launch' \in [Jobs -> LaunchRecord] /\ proc' \in [ProcIds -> ProcRecord]
        /\ \A u \in Jobs : launch'[u] = IF u = t THEN L ELSE launch[u]
        /\ \A j \in ProcIds : proc'[j] = IF j = i THEN R ELSE proc[j]
    BY <1>1, <2>1, <2>2, InFlight
  <2>4. control' \in [Jobs -> ControlStates]
    BY <1>1, <1>4, AdmitForType
  <2>5. AgentTypeOK'
    BY <1>1, <2>3, <2>4 DEF AInv, AgentTypeOK, LaunchRecord, ProcRecord
  <2>6. BootsLeft' /\ SpecStartsCounted'
    BY <1>1 DEF AInv, BootsLeft, SpecStartsCounted
  <2>7. OnUpPods'
    BY <1>1, <2>1, <2>2, <2>3 DEF AInv, OnUpPods, Up
  <2>8. Starters'
    <3> SUFFICES ASSUME NEW u \in Jobs, launch'[u].pc # "none" /\ launch'[u].by # 0
                 PROVE  /\ proc'[launch'[u].by].pc = "starting"
                        /\ proc'[launch'[u].by].task = u
                        /\ proc'[launch'[u].by].pod = launch'[u].pod
      BY DEF Starters
    <3>1. launch'[u].by \in ProcIds
      BY <2>3, LaunchFields, Bounds DEF ProcIds
    <3>2. CASE u = t
      BY <2>1, <2>2, <2>3, <3>2
    <3>3. CASE u # t
      <4>1. launch'[u] = launch[u]
        BY <2>3, <3>3
      <4>2. /\ proc[launch[u].by].pc = "starting" /\ proc[launch[u].by].task = u
            /\ proc[launch[u].by].pod = launch[u].pod
        BY <4>1 DEF AInv, Starters
      <4>3. proc'[launch[u].by] = proc[launch[u].by]
        BY <1>1, <2>3, <3>1, <4>1, <4>2
      <4> QED
        BY <4>1, <4>2, <4>3
    <3> QED
      BY <3>2, <3>3
  <2> QED
    BY <2>5, <2>6, <2>7, <2>8 DEF AInv
<1> QED
  BY <1>2, <1>3, <1>4 DEF RestartTask

-----------------------------------------------------------------------------
(* Launches keep the invariant *)

\* A launch ends, and with it the wait of the monitor it was made for.
LEMMA LaunchOver ==
    ASSUME AInv, NEW t \in Jobs, launch[t].pc # "none",
           launch' = [launch EXCEPT ![t] = NoLaunch],
           proc' \in [ProcIds -> ProcRecord],
           \A i \in ProcIds : proc'[i].pc # "none" => Up(proc'[i].pod),
           \A i \in ProcIds : proc[i].pc = "starting" /\ i # launch[t].by
                                => proc'[i] = proc[i],
           StoreTypeOK', MemoryTypeOK',
           UNCHANGED <<pod, boot, specStarts, stop, drainDue, starts>>
    PROVE  AInv'
<1>1. NoLaunch \in LaunchRecord /\ NoLaunch.pc = "none"
  BY DEF LaunchRecord, NoLaunch
<1>2. /\ launch' \in [Jobs -> LaunchRecord]
      /\ \A u \in Jobs : launch'[u] = IF u = t THEN NoLaunch ELSE launch[u]
  BY <1>1, InFlight
<1>3. AgentTypeOK'
  BY <1>2 DEF AInv, AgentTypeOK, MemoryTypeOK, LaunchRecord, ProcRecord
<1>4. BootsLeft' /\ SpecStartsCounted'
  BY DEF AInv, BootsLeft, SpecStartsCounted
<1>5. OnUpPods'
  BY <1>1, <1>2 DEF AInv, OnUpPods, Up
<1>6. Starters'
  <2> SUFFICES ASSUME NEW u \in Jobs, launch'[u].pc # "none" /\ launch'[u].by # 0
               PROVE  /\ proc'[launch'[u].by].pc = "starting"
                      /\ proc'[launch'[u].by].task = u
                      /\ proc'[launch'[u].by].pod = launch'[u].pod
    BY DEF Starters
  <2>1. u # t /\ launch'[u] = launch[u]
    BY <1>1, <1>2
  <2>2. launch[u].by \in ProcIds
    BY <2>1, InFlight, LaunchFields, Bounds DEF ProcIds
  <2>3. /\ proc[launch[u].by].pc = "starting" /\ proc[launch[u].by].task = u
        /\ proc[launch[u].by].pod = launch[u].pod
    BY <2>1 DEF AInv, Starters
  <2>4. launch[u].by # launch[t].by
    BY <2>1, <2>3 DEF AInv, Starters
  <2>5. proc'[launch[u].by] = proc[launch[u].by]
    BY <2>2, <2>3, <2>4
  <2> QED
    BY <2>1, <2>3, <2>5
<1> QED
  BY <1>3, <1>4, <1>5, <1>6 DEF AInv

\* A launch goes to its next place.
LEMMA LaunchGoes ==
    ASSUME AInv, NEW t \in Jobs, launch[t].pc # "none",
           NEW x \in {"granted", "promoted", "claimed", "spawning", "failed"},
           launch' = [launch EXCEPT ![t].pc = x],
           StoreTypeOK', MemoryTypeOK',
           UNCHANGED <<pod, boot, proc, specStarts, stop, drainDue, starts>>
    PROVE  AInv'
<1>1. launch[t] \in Launch
  BY InFlight, LaunchFields
<1> DEFINE L == [launch[t] EXCEPT !.pc = x]
<1>2. L \in LaunchRecord /\ L.pod = launch[t].pod /\ L.by = launch[t].by
  BY <1>1, LaunchMoves
<1>3. launch' = [launch EXCEPT ![t] = L]
  OBVIOUS
<1> HIDE DEF L
<1> QED
  BY <1>2, <1>3, LaunchMovesInv

\* The steps of a launch on its way to a process.
LEMMA QuietLaunchAInv ==
    ASSUME AInv, NEW t \in Jobs, StoreTypeOK',
           \/ SkipPromoted(t) \/ Claim(t) \/ SpawnBegin(t) \/ SpawnRefused(t)
           \/ LaunchRaises(t)
    PROVE  AInv'
<1>1. NoLaunch \in LaunchRecord /\ NoLaunch.pc = "none"
  BY DEF LaunchRecord, NoLaunch
<1>2. CASE SkipPromoted(t)
  BY <1>1, <1>2, MemoryKept, LaunchMovesInv DEF SkipPromoted
<1>3. CASE Claim(t)
  BY <1>3, MemoryKept, LaunchGoes DEF Claim
<1>4. CASE SpawnBegin(t)
  <2>1. launch[t].pc = "claimed" /\ launch[t].pod \in Pods
    BY <1>4, InFlight, LaunchFields DEF SpawnBegin
  <2>2. MemoryTypeOK'
    BY <1>4, <2>1, MemoryKept DEF SpawnBegin, MemoryTypeOK
  <2> QED
    BY <1>4, <2>1, <2>2, LaunchGoes DEF SpawnBegin
<1>5. CASE SpawnRefused(t)
  BY <1>5, MemoryKept, LaunchGoes DEF SpawnRefused
<1>6. CASE LaunchRaises(t)
  BY <1>6, MemoryKept, LaunchGoes DEF LaunchRaises
<1> QED
  BY <1>2, <1>3, <1>4, <1>5, <1>6

\* The process, its tracking and its monitor; a waiting monitor goes on.
LEMMA SpawnAInv ==
    ASSUME AInv, NEW t \in Jobs, Spawn(t), StoreTypeOK'
    PROVE  AInv'
<1> DEFINE p == launch[t].pod
           by == launch[t].by
           N == NewProcess(p, t, "build", TRUE)
<1>1. /\ launch[t].pc = "spawning" /\ p \in Pods /\ Up(p)
      /\ by = 0 \/ (by \in ProcIds /\ proc[by].pc = "starting" /\ proc[by].pod = p)
  <2>1. launch[t].pc = "spawning"
    BY DEF Spawn
  <2>2. p \in Pods /\ by \in 0..MaxProcs
    BY <2>1, InFlight, LaunchFields
  <2> QED
    BY <2>1, <2>2, Bounds DEF AInv, OnUpPods, Starters, ProcIds
<1>2. PICK i \in ProcIds :
         /\ proc[i].pc = "none"
         /\ proc' = [k \in ProcIds |-> IF k = i THEN N
                                       ELSE IF k = by THEN Leave(k, "exit")[k]
                                       ELSE proc[k]]
         /\ runningTasks' = [runningTasks EXCEPT ![p][t] = i]
  BY DEF Spawn, FreeProc
<1>3. N \in ProcRecord /\ N.pod = p
  BY <1>1, NewProcessRecord DEF NewProcess
<1> HIDE DEF N
<1>4. by \in ProcIds => Leave(by, "exit")[by] \in ProcRecord /\ Leave(by, "exit")[by].pod = p
  <2> SUFFICES ASSUME by \in ProcIds
               PROVE  Leave(by, "exit")[by] \in ProcRecord /\ Leave(by, "exit")[by].pod = p
    OBVIOUS
  <2>0. proc[by].pc = "starting" /\ proc[by].pod = p
    BY <1>1, Bounds DEF ProcIds
  <2> HIDE DEF by
  <2>1. PICK R \in ProcRecord : /\ R.pc = "exit" /\ R.pod = proc[by].pod
                                /\ R.task = proc[by].task
                                /\ Leave(by, "exit") = [proc EXCEPT ![by] = R]
    <3>1. proc[by].pc # "none" /\ "exit" \in LeavingPcs
      BY <2>0 DEF LeavingPcs
    <3> QED
      BY <3>1, LeaveShape
  <2> QED
    BY <2>0, <2>1, InFlight
<1>5. proc' \in [ProcIds -> ProcRecord]
  BY <1>2, <1>3, <1>4, InFlight
<1>6. \A k \in ProcIds : proc'[k] = IF k = i THEN N ELSE IF k = by THEN Leave(k, "exit")[k]
                                    ELSE proc[k]
  BY <1>2
<1>7. \A k \in ProcIds : proc'[k].pc # "none" => Up(proc'[k].pod)
  BY <1>1, <1>3, <1>4, <1>6 DEF AInv, OnUpPods
<1>8. \A k \in ProcIds : proc[k].pc = "starting" /\ k # by => proc'[k] = proc[k]
  BY <1>2, <1>6
<1>9. MemoryTypeOK'
  <2>1. i \in 0..Unmonitored
    BY Bounds DEF ProcIds, Unmonitored
  <2> QED
    BY <1>1, <1>2, <2>1, MemoryKept DEF Spawn, MemoryTypeOK
<1>10. /\ launch' = [launch EXCEPT ![t] = NoLaunch]
       /\ UNCHANGED <<pod, boot, specStarts, stop, drainDue, starts>>
  BY DEF Spawn
<1> QED
  BY <1>1, <1>5, <1>7, <1>8, <1>9, <1>10, LaunchOver

\* The launch failed; a waiting monitor goes on with its except branch.
LEMMA LaunchFailedAInv ==
    ASSUME AInv, NEW t \in Jobs, LaunchFailed(t), StoreTypeOK'
    PROVE  AInv'
<1> DEFINE by == launch[t].by
           F(k) == IF k = by THEN [proc[k] EXCEPT !.pc = "startFailed"] ELSE proc[k]
<1>1. /\ launch[t].pc = "failed"
      /\ proc' = [k \in ProcIds |-> F(k)]
      /\ launch' = [launch EXCEPT ![t] = NoLaunch]
      /\ UNCHANGED <<runningTasks, taskStopped, profiles, control, pod, boot, specStarts,
                     stop, drainDue, starts>>
  BY DEF LaunchFailed
<1>2. \A k \in ProcIds : /\ F(k) \in ProcRecord
                         /\ F(k).pc # "none" => Up(F(k).pod)
                         /\ proc[k].pc = "starting" /\ k # by => F(k) = proc[k]
  <2> TAKE k \in ProcIds
  <2>1. CASE k = by
    <3>1. proc[k].pc = "starting"
      BY <1>1, <2>1, Bounds DEF AInv, Starters, ProcIds
    <3>2. proc[k] \in Process /\ Up(proc[k].pod)
      BY <3>1, InFlight, ProcFields DEF ProcessPcs, AInv, OnUpPods
    <3>3. /\ [proc[k] EXCEPT !.pc = "startFailed"] \in ProcRecord
          /\ [proc[k] EXCEPT !.pc = "startFailed"].pod = proc[k].pod
      BY <3>2, GotoRecord DEF ProcessPcs
    <3> QED
      BY <2>1, <3>2, <3>3
  <2>2. CASE k # by
    BY <2>2, InFlight DEF AInv, OnUpPods
  <2> QED
    BY <2>1, <2>2
<1> HIDE DEF F
<1>3. /\ proc' \in [ProcIds -> ProcRecord]
      /\ \A k \in ProcIds : proc'[k] = F(k)
  BY <1>1, <1>2
<1>4. MemoryTypeOK'
  BY <1>1, MemoryKept
<1> QED
  BY <1>1, <1>2, <1>3, <1>4, LaunchOver

-----------------------------------------------------------------------------
(* Spec creation, stops and replicas keep the invariant *)

\* Processes and launches that a step leaves alone.
LEMMA CoroutinesKept ==
    ASSUME AInv, UNCHANGED <<proc, launch>>
    PROVE  /\ proc' \in [ProcIds -> ProcRecord] /\ launch' \in [Jobs -> LaunchRecord]
           /\ \A i \in ProcIds : proc'[i].pc # "none" => Up(proc'[i].pod)
           /\ \A t \in Jobs : launch'[t].pc # "none" => Up(launch'[t].pod)
BY InFlight DEF AInv, OnUpPods

\* A spec creation past its guard.
LEMMA StartSpecAInv ==
    ASSUME AInv, NEW p \in Pods, NEW t \in Jobs, StartSpec(p, t), StoreTypeOK'
    PROVE  AInv'
<1> DEFINE n == specStarts[p][t] + 1
<1>1. /\ Up(p) /\ starts \in 0..MaxStarts /\ starts < MaxStarts /\ starts' = starts + 1
      /\ specStarts \in [Pods -> [Jobs -> 0..MaxStarts]]
      /\ specStarts[p][t] \in 0..MaxStarts /\ specStarts[p][t] <= starts
      /\ specStarts' = [specStarts EXCEPT ![p][t] = n]
  BY DEF StartSpec, AInv, AgentTypeOK, SpecStartsCounted
<1>2. n \in 0..MaxStarts /\ n <= starts'
  BY <1>1, Bounds
<1> HIDE DEF n
<1>3. /\ specStarts' \in [Pods -> [Jobs -> 0..MaxStarts]]
      /\ \A q \in Pods, u \in Jobs :
            specStarts'[q][u] = IF q = p /\ u = t THEN n ELSE specStarts[q][u]
  BY <1>1, <1>2
<1>4. UNCHANGED <<pod, boot, stop, proc, launch, drainDue, runningTasks, taskStopped, control>>
  BY DEF StartSpec
<1>5. SpecsOK'
  <2>1. starts' \in 0..MaxStarts
    BY <1>1, Bounds
  <2>2. SpecStartsCounted'
    <3> SUFFICES ASSUME NEW q \in Pods, NEW u \in Jobs
                 PROVE  specStarts'[q][u] <= starts'
      BY DEF SpecStartsCounted
    <3>1. specStarts[q][u] <= starts /\ specStarts[q][u] \in 0..MaxStarts
      BY <1>1 DEF AInv, SpecStartsCounted
    <3> QED
      BY <1>1, <1>2, <1>3, <3>1
  <2>3. \A q \in Pods, u \in Jobs : specStarts'[q][u] > 0 => Up(q)'
    BY <1>1, <1>3, <1>4 DEF AInv, OnUpPods, Up
  <2> QED
    BY <1>3, <2>1, <2>2, <2>3 DEF SpecsOK
<1>6. MemoryTypeOK' /\ drainDue' \subseteq Pods
  BY <1>4, MemoryKept DEF StartSpec, MemoryTypeOK, AInv, AgentTypeOK
<1> QED
  BY <1>4, <1>5, <1>6, CoroutinesKept, CoroutinesMove

\* A spec creation leaves its awaits, with or without a process.
LEMMA SpecStartEnds ==
    ASSUME AInv, NEW p \in Pods, NEW t \in Jobs, specStarts[p][t] > 0,
           specStarts' = [specStarts EXCEPT ![p][t] = @ - 1], UNCHANGED <<pod, starts>>
    PROVE  SpecsOK'
<1> DEFINE n == specStarts[p][t] - 1
<1>1. /\ starts \in 0..MaxStarts /\ specStarts \in [Pods -> [Jobs -> 0..MaxStarts]]
      /\ specStarts[p][t] \in 0..MaxStarts /\ specStarts[p][t] <= starts
      /\ specStarts' = [specStarts EXCEPT ![p][t] = n]
  BY DEF AInv, AgentTypeOK, SpecStartsCounted
<1>2. n \in 0..MaxStarts /\ n <= starts
  BY <1>1, Bounds
<1> HIDE DEF n
<1>3. /\ specStarts' \in [Pods -> [Jobs -> 0..MaxStarts]]
      /\ \A q \in Pods, u \in Jobs :
            specStarts'[q][u] = IF q = p /\ u = t THEN n ELSE specStarts[q][u]
  BY <1>1, <1>2
<1>4. SpecStartsCounted'
  BY <1>2, <1>3 DEF AInv, SpecStartsCounted
<1>5. \A q \in Pods, u \in Jobs : specStarts'[q][u] > 0 => Up(q)'
  BY <1>3 DEF AInv, OnUpPods, Up
<1> QED
  BY <1>1, <1>3, <1>4, <1>5 DEF SpecsOK

\* The process of a spec creation, or its spawn raises.
LEMMA SpawnSpecAInv ==
    ASSUME AInv, NEW p \in Pods, NEW t \in Jobs, SpawnSpec(p, t) \/ SpecRaises(p, t),
           StoreTypeOK'
    PROVE  AInv'
<1>1. /\ specStarts[p][t] > 0 /\ specStarts' = [specStarts EXCEPT ![p][t] = @ - 1]
      /\ UNCHANGED <<pod, boot, taskStopped, profiles, control, launch, stop, drainDue, starts>>
  BY DEF SpawnSpec, SpecRaises
<1>2. SpecsOK' /\ Up(p) /\ drainDue' \subseteq Pods
  BY <1>1, SpecStartEnds DEF AInv, OnUpPods, AgentTypeOK
<1>3. CASE SpecRaises(p, t)
  <2>1. UNCHANGED <<proc, runningTasks>>
    BY <1>3 DEF SpecRaises
  <2> QED
    BY <1>1, <1>2, <2>1, MemoryKept, CoroutinesKept, CoroutinesMove
<1>4. CASE SpawnSpec(p, t)
  <2> DEFINE N == NewProcess(p, t, "spec", TRUE)
  <2>1. PICK i \in ProcIds : /\ proc[i].pc = "none"
                             /\ proc' = [proc EXCEPT ![i] = N]
                             /\ runningTasks' = [runningTasks EXCEPT ![p][t] = i]
    BY <1>4 DEF SpawnSpec, FreeProc
  <2>2. N \in ProcRecord /\ N.pod = p
    BY NewProcessRecord DEF NewProcess
  <2> HIDE DEF N
  <2>3. /\ proc' \in [ProcIds -> ProcRecord]
        /\ \A k \in ProcIds : proc'[k] = IF k = i THEN N ELSE proc[k]
    BY <2>1, <2>2, InFlight
  <2>4. /\ \A k \in ProcIds : proc'[k].pc # "none" => Up(proc'[k].pod)
        /\ \A k \in ProcIds : proc[k].pc = "starting" => proc'[k] = proc[k]
    BY <1>2, <2>1, <2>2, <2>3 DEF AInv, OnUpPods
  <2>5. MemoryTypeOK'
    <3>1. i \in 0..Unmonitored
      BY Bounds DEF ProcIds, Unmonitored
    <3> QED
      BY <1>1, <2>1, <3>1, MemoryKept DEF MemoryTypeOK
  <2>6. /\ launch' \in [Jobs -> LaunchRecord]
        /\ \A u \in Jobs : launch'[u].pc # "none" => Up(launch'[u].pod)
    BY <1>1, InFlight DEF AInv, OnUpPods
  <2> QED
    BY <1>1, <1>2, <2>3, <2>4, <2>5, <2>6, CoroutinesMove
<1> QED
  BY <1>3, <1>4

\* A stop entry is written.
LEMMA StopWritten ==
    ASSUME AInv, NEW t \in Jobs, NEW s \in StopRecord, s.pc # "none" => Up(s.pod),
           stop' = [stop EXCEPT ![t] = s]
    PROVE  /\ stop' \in [Jobs -> StopRecord]
           /\ \A u \in Jobs : stop'[u].pc # "none" => Up(stop'[u].pod)
<1>1. \A u \in Jobs : stop'[u] = IF u = t THEN s ELSE stop[u]
  BY InFlight
<1> QED
  BY <1>1, InFlight DEF AInv, OnUpPods

\* The later steps of a stop, and the removal of a queued row.
LEMMA StopStepAInv ==
    ASSUME AInv, NEW t \in Jobs, StoreTypeOK',
           StopStep(t) \/ \E p \in Pods : StopQueued(p, t)
    PROVE  AInv'
<1>1. NoStop \in StopRecord /\ NoStop.pc = "none"
  BY DEF StopRecord, NoStop
<1>2. CASE StopCleanup(t)
  <2>1. /\ stop[t].pc = "cleanup" /\ stop[t] \in Stop /\ stop[t].pod \in Pods
        /\ Up(stop[t].pod)
    BY <1>2, InFlight, StopFields DEF StopCleanup, AInv, OnUpPods
  <2> DEFINE s == [stop[t] EXCEPT !.pc = "mark"]
  <2>2. s \in StopRecord /\ s.pod = stop[t].pod
    BY <2>1 DEF StopRecord, Stop
  <2>3. stop' = [stop EXCEPT ![t] = s]
    BY <1>2 DEF StopCleanup
  <2> HIDE DEF s
  <2>4. control' \in [Jobs -> ControlStates]
    BY <1>2, MemoryKept DEF StopCleanup, ControlStates
  <2>5. MemoryTypeOK'
    BY <1>2, <2>1, <2>4, ForgetType, MemoryKept DEF StopCleanup, MemoryTypeOK
  <2>6. drainDue' \subseteq Pods /\ UNCHANGED <<pod, boot, proc, specStarts, launch, starts>>
    BY <1>2 DEF StopCleanup, AInv, AgentTypeOK
  <2> QED
    BY <2>1, <2>2, <2>3, <2>5, <2>6, StopWritten, QuietStep
<1>3. CASE StopMark(t) \/ StopDelete(t)
  <2>1. /\ stop' = [stop EXCEPT ![t] = NoStop]
        /\ MemoryTypeOK' /\ drainDue' \subseteq Pods
        /\ UNCHANGED <<pod, boot, proc, specStarts, launch, starts>>
    BY <1>3, MemoryKept DEF StopMark, StopDelete, AInv, AgentTypeOK
  <2> QED
    BY <1>1, <2>1, StopWritten, QuietStep
<1>4. CASE \E p \in Pods : StopQueued(p, t)
  <2>1. PICK p \in Pods : StopQueued(p, t)
    BY <1>4
  <2> DEFINE s == [pc |-> "delete", pod |-> p]
  <2>2. s \in StopRecord /\ s.pod = p
    BY DEF StopRecord, Stop
  <2>3. /\ stop' = [stop EXCEPT ![t] = s] /\ Up(p)
        /\ MemoryTypeOK' /\ drainDue' \subseteq Pods
        /\ UNCHANGED <<pod, boot, proc, specStarts, launch, starts>>
    BY <2>1, MemoryKept DEF StopQueued, AInv, AgentTypeOK
  <2> HIDE DEF s
  <2> QED
    BY <2>2, <2>3, StopWritten, QuietStep
<1> QED
  BY <1>2, <1>3, <1>4 DEF StopStep

\* A stop marks its task and signals the process.
LEMMA StopBeginAInv ==
    ASSUME AInv, NEW p \in Pods, NEW t \in Jobs, StopBegin(p, t), StoreTypeOK'
    PROVE  AInv'
<1> DEFINE i == runningTasks[p][t]
           s == [pc |-> "cleanup", pod |-> p]
<1>1. s \in StopRecord /\ s.pod = p
  BY DEF StopRecord, Stop
<1>2. /\ stop' = [stop EXCEPT ![t] = s] /\ Up(p)
      /\ MemoryTypeOK' /\ drainDue' \subseteq Pods
      /\ UNCHANGED <<pod, boot, specStarts, launch, starts>>
  BY MemoryKept DEF StopBegin, MemoryTypeOK, AInv, AgentTypeOK
<1> HIDE DEF s
<1>3. /\ stop' \in [Jobs -> StopRecord]
      /\ \A u \in Jobs : stop'[u].pc # "none" => Up(stop'[u].pod)
  BY <1>1, <1>2, StopWritten
<1>4. CASE UNCHANGED proc
  BY <1>2, <1>3, <1>4, QuietStep
<1>5. CASE Alive(i) /\ \E l \in LeftBy(proc[i].kind, 1) : proc' = Dead(i, 1, l)
  <2> HIDE DEF i
  <2>1. i \in ProcIds /\ proc[i].pc \in {"watch", "unwatched"} /\ proc[i] \in Process
    BY <1>5, InFlight, ProcFields DEF Alive, ProcessPcs
  <2>2. PICK l \in Leftovers : proc' = Dead(i, 1, l)
    BY <1>5, LeftByType
  <2>3. PICK R \in ProcRecord :
           /\ R.pc = proc[i].pc /\ R.pod = proc[i].pod /\ R.task = proc[i].task
           /\ R.kind = proc[i].kind /\ R.live = FALSE
           /\ Dead(i, 1, l) = [proc EXCEPT ![i] = R]
    <3>1. 1 \in {0, 1}
      OBVIOUS
    <3> QED
      BY <2>1, <3>1, DeathShape, Zenon
  <2>4. /\ proc' \in [ProcIds -> ProcRecord]
        /\ \A k \in ProcIds : proc'[k] = IF k = i THEN R ELSE proc[k]
    BY <2>1, <2>2, <2>3, InFlight
  <2>5. /\ \A k \in ProcIds : proc'[k].pc # "none" => Up(proc'[k].pod)
        /\ \A k \in ProcIds : proc[k].pc = "starting" => proc'[k] = proc[k]
    BY <2>1, <2>3, <2>4 DEF AInv, OnUpPods
  <2>6. /\ launch' \in [Jobs -> LaunchRecord]
        /\ \A u \in Jobs : launch'[u].pc # "none" => Up(launch'[u].pod)
    BY <1>2, InFlight DEF AInv, OnUpPods
  <2> QED
    BY <1>2, <1>3, <2>4, <2>5, <2>6, SpecsKept, EverythingMoves
<1> QED
  BY <1>4, <1>5, Zenon DEF StopBegin, Dead

\* A replica dies, with everything that was in flight on it.
LEMMA LoseReplicaAInv ==
    ASSUME AInv, NEW p \in Pods, LoseReplica(p), NEW x \in {"down", "gone"},
           x = "down" => boot[p] < MaxBoot,
           pod' = [pod EXCEPT ![p] = x], UNCHANGED boot, StoreTypeOK'
    PROVE  AInv'
<1>1. /\ NoProcess \in ProcRecord /\ NoProcess.pc = "none"
      /\ NoLaunch \in LaunchRecord /\ NoLaunch.pc = "none"
      /\ NoStop \in StopRecord /\ NoStop.pc = "none"
  BY DEF ProcRecord, NoProcess, LaunchRecord, NoLaunch, StopRecord, NoStop
<1>2. /\ pod \in [Pods -> {"up", "down", "gone"}]
      /\ pod' \in [Pods -> {"up", "down", "gone"}]
      /\ \A q \in Pods \ {p} : pod'[q] = pod[q]
      /\ pod'[p] = x
  BY DEF AInv, AgentTypeOK
<1>3. /\ proc' \in [ProcIds -> ProcRecord]
      /\ \A i \in ProcIds : \/ proc'[i] = NoProcess
                            \/ proc'[i] = proc[i] /\ (proc[i].pc = "none" \/ proc[i].pod # p)
  BY <1>1, InFlight DEF LoseReplica
<1>4. /\ launch' \in [Jobs -> LaunchRecord]
      /\ \A t \in Jobs : \/ launch'[t] = NoLaunch
                         \/ launch'[t] = launch[t]
                            /\ (launch[t].pc = "none" \/ launch[t].pod # p)
  BY <1>1, InFlight DEF LoseReplica
<1>5. /\ stop' \in [Jobs -> StopRecord]
      /\ \A t \in Jobs : \/ stop'[t] = NoStop
                         \/ stop'[t] = stop[t] /\ (stop[t].pc = "none" \/ stop[t].pod # p)
  BY <1>1, InFlight DEF LoseReplica
<1>6. 0 \in 0..Unmonitored /\ 0 \in 0..MaxStarts
  BY Bounds DEF Unmonitored
<1>7. MemoryTypeOK'
  BY <1>6, MemoryKept DEF LoseReplica, MemoryTypeOK
<1>8. /\ specStarts \in [Pods -> [Jobs -> 0..MaxStarts]]
      /\ specStarts' \in [Pods -> [Jobs -> 0..MaxStarts]] /\ starts' = starts
      /\ \A q \in Pods \ {p} : specStarts'[q] = specStarts[q]
      /\ \A t \in Jobs : specStarts'[p][t] = 0
  BY <1>6 DEF LoseReplica, AInv, AgentTypeOK
<1>9. AgentTypeOK'
  BY <1>2, <1>3, <1>4, <1>5, <1>7, <1>8
     DEF LoseReplica, AInv, AgentTypeOK, MemoryTypeOK, ProcRecord, LaunchRecord, StopRecord
<1>10. BootsLeft'
  BY <1>2 DEF AInv, BootsLeft
<1>11. SpecStartsCounted'
  <2> SUFFICES ASSUME NEW q \in Pods, NEW t \in Jobs PROVE specStarts'[q][t] <= starts'
    BY DEF SpecStartsCounted
  <2>1. starts \in Nat /\ specStarts[q][t] <= starts
    BY Bounds DEF AInv, AgentTypeOK, SpecStartsCounted
  <2>2. CASE q = p
    BY <1>8, <2>1, <2>2
  <2>3. CASE q # p
    BY <1>8, <2>1, <2>3
  <2> QED
    BY <2>2, <2>3
<1>12. OnUpPods'
  <2>1. \A i \in ProcIds : proc'[i].pc # "none" => pod'[proc'[i].pod] = "up"
    BY <1>1, <1>2, <1>3, ProcFields DEF AInv, OnUpPods, Up
  <2>2. \A t \in Jobs : launch'[t].pc # "none" => pod'[launch'[t].pod] = "up"
    BY <1>1, <1>2, <1>4, LaunchFields DEF AInv, OnUpPods, Up
  <2>3. \A t \in Jobs : stop'[t].pc # "none" => pod'[stop'[t].pod] = "up"
    BY <1>1, <1>2, <1>5, StopFields DEF AInv, OnUpPods, Up
  <2>4. \A q \in Pods, t \in Jobs : specStarts'[q][t] > 0 => pod'[q] = "up"
    BY <1>2, <1>8 DEF AInv, OnUpPods, Up
  <2> QED
    BY <2>1, <2>2, <2>3, <2>4 DEF OnUpPods, Up
<1>13. Starters'
  <2> SUFFICES ASSUME NEW t \in Jobs, launch'[t].pc # "none" /\ launch'[t].by # 0
               PROVE  /\ proc'[launch'[t].by].pc = "starting"
                      /\ proc'[launch'[t].by].task = t
                      /\ proc'[launch'[t].by].pod = launch'[t].pod
    BY DEF Starters
  <2>1. launch'[t] = launch[t] /\ launch[t].pod # p
    BY <1>1, <1>4
  <2>2. launch[t].by \in ProcIds
    BY <2>1, InFlight, LaunchFields, Bounds DEF ProcIds
  <2>3. /\ proc[launch[t].by].pc = "starting" /\ proc[launch[t].by].task = t
        /\ proc[launch[t].by].pod = launch[t].pod
    BY <2>1 DEF AInv, Starters
  <2>4. proc'[launch[t].by] = proc[launch[t].by]
    BY <2>1, <2>2, <2>3 DEF LoseReplica
  <2> QED
    BY <2>1, <2>3, <2>4
<1> QED
  BY <1>9, <1>10, <1>11, <1>12, <1>13 DEF AInv

\* The replica is back with a new boot id.
LEMMA RestartAInv ==
    ASSUME AInv, NEW p \in Pods, Restart(p), StoreTypeOK'
    PROVE  AInv'
<1> DEFINE b == boot[p] + 1
<1>1. /\ pod[p] = "down" /\ boot[p] < MaxBoot /\ boot[p] \in Boots
      /\ pod \in [Pods -> {"up", "down", "gone"}] /\ boot \in [Pods -> Boots]
      /\ pod' = [pod EXCEPT ![p] = "up"] /\ boot' = [boot EXCEPT ![p] = b]
      /\ UNCHANGED <<proc, runningTasks, taskStopped, profiles, control, specStarts, launch,
                     stop, starts>>
  BY DEF Restart, AInv, AgentTypeOK, BootsLeft
<1>2. b \in Boots
  BY <1>1, Bounds DEF Boots
<1> HIDE DEF b
<1>3. /\ boot' \in [Pods -> Boots] /\ pod' \in [Pods -> {"up", "down", "gone"}]
      /\ \A q \in Pods \ {p} : pod'[q] = pod[q] /\ boot'[q] = boot[q]
      /\ pod'[p] = "up"
  BY <1>1, <1>2
<1>4. AgentTypeOK'
  BY <1>1, <1>3 DEF Restart, AInv, AgentTypeOK
<1>5. BootsLeft' /\ SpecStartsCounted' /\ Starters'
  BY <1>1, <1>3 DEF AInv, BootsLeft, SpecStartsCounted, Starters
<1>6. \A q : Up(q) => Up(q)'
  <2> TAKE q
  <2>1. CASE q = p
    BY <1>3, <2>1 DEF Up
  <2>2. CASE q # p
    BY <1>1, <2>2 DEF Up
  <2> QED
    BY <2>1, <2>2
<1>7. OnUpPods'
  BY <1>1, <1>6 DEF AInv, OnUpPods
<1> QED
  BY <1>4, <1>5, <1>7 DEF AInv

\* The reaper, and the drain that follows a reconcile.
LEMMA ReconcileAInv ==
    ASSUME AInv, NEW p \in Pods, StoreTypeOK',
           ReconcileDrain(p) \/ \E t \in Jobs : Reap(p, t)
    PROVE  AInv'
<1>1. CASE ReconcileDrain(p)
  <2>1. /\ Up(p) /\ DrainFrom(p) /\ drainDue' \subseteq Pods
        /\ UNCHANGED <<pod, boot, proc, runningTasks, taskStopped, profiles, control,
                       specStarts, stop, starts>>
    BY <1>1 DEF ReconcileDrain, AInv, AgentTypeOK
  <2>2. /\ launch' \in [Jobs -> LaunchRecord]
        /\ \A t \in Jobs : launch'[t].pc # "none" => Up(launch'[t].pod)
        /\ \A t \in Jobs : launch'[t].pc # "none" /\ launch'[t].by # 0
                             => launch'[t] = launch[t]
    BY <2>1, DrainLaunches
  <2>3. /\ proc' \in [ProcIds -> ProcRecord]
        /\ \A i \in ProcIds : proc'[i].pc # "none" => Up(proc'[i].pod)
    BY <2>1, InFlight DEF AInv, OnUpPods
  <2> QED
    BY <2>1, <2>2, <2>3, SpecsKept, MemoryKept, CoroutinesMove
<1>2. CASE \E t \in Jobs : Reap(p, t)
  <2>1. /\ drainDue' \subseteq Pods
        /\ UNCHANGED <<pod, boot, proc, runningTasks, taskStopped, profiles, control,
                       specStarts, launch, stop, starts>>
    BY <1>2 DEF Reap, AInv, AgentTypeOK
  <2>2. /\ stop' \in [Jobs -> StopRecord]
        /\ \A t \in Jobs : stop'[t].pc # "none" => Up(stop'[t].pod)
    BY <2>1, InFlight DEF AInv, OnUpPods
  <2> QED
    BY <2>1, <2>2, MemoryKept, QuietStep
<1> QED
  BY <1>1, <1>2

-----------------------------------------------------------------------------
(* Theorems for every environment *)

\* Every step keeps the inductive invariant.
LEMMA NextAInv == AInv /\ [Next]_vars => AInv'
<1> SUFFICES ASSUME AInv, [Next]_vars PROVE AInv'
  OBVIOUS
<1>1. StoreTypeOK'
  <2>1. StoreTypeOK /\ [SubprocessStep]_storeVars
    BY NextStoreStep, InFlight
  <2> QED
    BY <2>1, SubprocessStepType DEF storeVars, StoreTypeOK
<1>2. CASE UNCHANGED vars
  BY <1>2 DEF vars, serviceVars, storeVars, AInv, AgentTypeOK, StoreTypeOK, BootsLeft,
              SpecStartsCounted, OnUpPods, Starters, Up
<1>3. ASSUME NEW p \in Pods, NEW t \in Jobs,
             \/ StartTask(p, t) \/ StartSpec(p, t) \/ StopBegin(p, t)
             \/ StopSignalsServer(p, t) \/ StopQueued(p, t)
             \/ SpawnSpec(p, t) \/ SpecRaises(p, t)
      PROVE  AInv'
  <2>1. CASE StopSignalsServer(p, t)
    BY <1>1, <2>1, LoseReplicaAInv DEF StopSignalsServer
  <2> QED
    BY <1>1, <1>3, <2>1, StartTaskAInv, StartSpecAInv, StopBeginAInv, StopStepAInv,
       SpawnSpecAInv
<1>4. ASSUME NEW t \in Jobs, LaunchStep(t) \/ LaunchRaises(t) \/ StopStep(t)
      PROVE  AInv'
  BY <1>1, <1>4, QuietLaunchAInv, SpawnAInv, LaunchFailedAInv, StopStepAInv DEF LaunchStep
<1>5. ASSUME NEW i \in ProcIds,
             ProcExit(i) \/ UnwatchedExit(i) \/ MonitorRaises(i) \/ MonitorStep(i)
      PROVE  AInv'
  BY <1>1, <1>5, ProcExitAInv, UnwatchedExitAInv, MonitorRaisesAInv, QuietMonitorAInv,
     ForgettingMonitorAInv, RecordingMonitorAInv, RetrySpawnAInv, RestartTaskAInv,
     MonitorDrainAInv DEF MonitorStep
<1>6. ASSUME NEW p \in Pods, Crash(p) \/ ScaleIn(p) \/ ReconcileStep(p)
      PROVE  AInv'
  <2>1. CASE Crash(p)
    BY <1>1, <2>1, LoseReplicaAInv DEF Crash
  <2>2. CASE ScaleIn(p)
    BY <1>1, <2>2, LoseReplicaAInv DEF ScaleIn
  <2>3. CASE ReconcileStep(p)
    BY <1>1, <2>3, RestartAInv, ReconcileAInv DEF ReconcileStep
  <2> QED
    BY <1>6, <2>1, <2>2, <2>3
<1> QED
  BY <1>2, <1>3, <1>4, <1>5, <1>6 DEF Next

\* The inductive invariant holds.
LEMMA AInvHolds == Spec => []AInv
BY InitAInv, NextAInv, PTL DEF Spec

\* The supervisor's variables keep their types in every interleaving of
\* requests, monitors, launches, stops, crashes and reconciles, on any number
\* of replicas.
THEOREM AgentTypeCorrect == Spec => []AgentTypeOK
<1>1. AInv => AgentTypeOK
  BY DEF AInv
<1> QED
  BY <1>1, AInvHolds, PTL

\* The supervisor, whatever its replicas do and whatever happens to them,
\* changes the job-state store only by the store's own transactions.
THEOREM SupervisorImplementsStore == Spec => ImplementsStore
<1>1. Init => StoreInit
  BY DEF Init
<1>2. AInv /\ [Next]_vars => [SubprocessStep]_storeVars
  BY NextStoreStep
<1> QED
  BY <1>1, <1>2, AInvHolds, PTL DEF Spec, ImplementsStore, SubprocessSpec

\* Hence the admission cap holds of the system: no more rows running than
\* MAX_CONCURRENT_TASKS allows, over all replicas, crashes and stops.
THEOREM SupervisorCap == Spec => []AdmissionCap
BY SupervisorImplementsStore, SubprocessCap, PTL DEF ImplementsStore

\* And no step of the supervisor reopens a claimed row.
THEOREM SupervisorClaimsStable == Spec => ClaimNeverReopened
BY SupervisorImplementsStore, ClaimsStable, PTL DEF ImplementsStore

\* A reap, on any replica, never fails a row whose stamped owner still runs a
\* process of that build: a live process is on a replica that is up, and the
\* boot such a replica stamps is its current one.
THEOREM ReapSparesLiveBuilds == Spec => ReaperSparesOwner
<1> DEFINE Spares == \A t \in Jobs, p \in Pods :
                       (\E r \in Pods : Reap(r, t)) /\ HeldBy(t, p)
                          => \A i \in LiveBuilds : ~(proc[i].task = t /\ proc[i].pod = p)
<1>1. AInv => Spares
  <2> SUFFICES ASSUME AInv, NEW t \in Jobs, NEW p \in Pods, NEW r \in Pods, Reap(r, t),
                      HeldBy(t, p), NEW i \in LiveBuilds, proc[i].pod = p
               PROVE  FALSE
    OBVIOUS
  <2>1. Up(p)
    BY DEF LiveBuilds, Alive, AInv, OnUpPods
  <2>2. PICK o \in Owners : Orphaned(r, o) /\ row[t].owner = o
    BY DEF Reap, FailSubprocessRow
  <2>3. o = <<p, boot[p]>>
    BY <2>2 DEF HeldBy, Owner
  <2> QED
    BY <2>1, <2>2, <2>3 DEF Orphaned, Up
<1>2. AInv /\ [Next]_vars => [Spares]_vars
  BY <1>1
<1> QED
  BY <1>2, AInvHolds, PTL DEF Spec, ReaperSparesOwner
=============================================================================
