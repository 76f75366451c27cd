----------------------- MODULE BuildOwnership_proofs -----------------------
(***************************************************************************)
(* Who owns a build: theorems about the build supervisor when replicas     *)
(* crash, restart and are scaled in at any moment, launches fail and       *)
(* failed builds are retried, for any tasks, replicas, cap and bounds.     *)
(*                                                                         *)
(* User stops, spec creation and monitors that raise are excluded, as in   *)
(* the run agent_crash: with any one of them TLC finds a build process     *)
(* whose row another coroutine has ended (LiveBuildOwned), and live builds *)
(* beyond the cap or twice of one task (LiveBuildsWithinCap).              *)
(*                                                                         *)
(* What the properties rest on, beside what SlotService_proofs shows: a    *)
(* task has at most one token, a launch or a monitor that has not freed    *)
(* its slot yet (OneWorker, LaunchesHold), and whoever has it runs on the  *)
(* replica the row is stamped with (WorkersOwn).                           *)
(***************************************************************************)
EXTENDS SlotService_proofs

\* What the environment may do: replicas die and come back, spawns fail,
\* failed builds are retried.
CrashesOnly == Features \subseteq {"failover", "spawn-failure", "crash", "scale-in"}

\* No spec creation is in flight.
Calm == \A p \in Pods, t \in Jobs : specStarts[p][t] = 0

\* A monitor that has not freed the slot of its build yet.
WorkingPcs == {"watch", "handle", "retrying", "restart", "startFailed", "cleanup", "exit",
               "free"}
Working(i) == proc[i].pc \in WorkingPcs

\* Every monitor is a working one or on its way out; a working one is that of a
\* build, and its replica holds the row.
WorkersOwn ==
    \A i \in ProcIds :
        /\ proc[i].pc \in WorkingPcs \cup {"drain", "none"}
        /\ Working(i) => HeldBy(proc[i].task, proc[i].pod)
        /\ proc[i].pc \in ProcessPcs => proc[i].kind = "build"

OneWorker ==
    \A i, k \in ProcIds :
        Working(i) /\ Working(k) /\ proc[i].task = proc[k].task => i = k

\* A launch has the running row of its task, unclaimed or claimed by its own
\* replica, for itself.
LaunchRow(t) ==
    launch[t].pc # "none" =>
        /\ launch[t].by = 0
        /\ row[t].state = "running"
        /\ row[t].kind = "pending" \/ HeldBy(t, launch[t].pod)
        /\ launch[t].pc \in {"granted", "promoted"} => row[t].kind = "pending"
        /\ launch[t].pc \in {"claimed", "spawning"} => HeldBy(t, launch[t].pod)

\* And no monitor works on a task that is being launched.
LaunchesHold ==
    \A t \in Jobs :
        /\ LaunchRow(t)
        /\ launch[t].pc # "none" => \A i \in ProcIds : Working(i) => proc[i].task # t

OInv == CrashesOnly /\ SInv /\ Calm /\ WorkersOwn /\ OneWorker /\ LaunchesHold

-----------------------------------------------------------------------------
(* What the invariant says of one monitor and one row *)

\* A monitor at work is on a replica that is up and holds the row of its task.
LEMMA WorkerFacts ==
    ASSUME OInv, NEW i \in ProcIds, Working(i)
    PROVE  /\ proc[i].pod \in Pods /\ proc[i].task \in Jobs /\ Up(proc[i].pod)
           /\ HeldBy(proc[i].task, proc[i].pod)
           /\ row[proc[i].task].state = "running" /\ row[proc[i].task].kind = "subprocess"
           /\ launch[proc[i].task].pc = "none"
<1>1. AInv /\ proc[i].pc # "none" /\ proc[i] \in ProcRecord
  BY InFlight DEF OInv, SInv, Working, WorkingPcs
<1>2. proc[i].pod \in Pods /\ proc[i].task \in Jobs
  BY <1>1, ProcFields
<1>3. Up(proc[i].pod)
  BY <1>1 DEF AInv, OnUpPods
<1>4. HeldBy(proc[i].task, proc[i].pod)
  BY DEF OInv, WorkersOwn
<1>5. launch[proc[i].task].pc = "none"
  BY <1>2 DEF OInv, LaunchesHold, LaunchRow
<1> QED
  BY <1>2, <1>3, <1>4, <1>5 DEF HeldBy

\* What running_tasks names is a worker of that task.
LEMMA TrackedFacts ==
    ASSUME OInv, NEW p \in Pods, NEW t \in Jobs, runningTasks[p][t] # 0
    PROVE  /\ runningTasks[p][t] \in ProcIds /\ Working(runningTasks[p][t])
           /\ proc[runningTasks[p][t]].pc \in TrackedPcs
           /\ proc[runningTasks[p][t]].task = t /\ proc[runningTasks[p][t]].pod = p
BY DEF OInv, SInv, Tracked, Working, TrackedPcs, WorkingPcs

\* A task whose monitor has forgotten it is tracked nowhere.
LEMMA ForgottenUntracked ==
    ASSUME OInv, NEW i \in ProcIds, Working(i), proc[i].pc \notin TrackedPcs
    PROVE  runningTasks[proc[i].pod][proc[i].task] = 0
<1> DEFINE k == runningTasks[proc[i].pod][proc[i].task]
<1> SUFFICES ASSUME k # 0 PROVE FALSE
  OBVIOUS
<1>1. proc[i].pod \in Pods /\ proc[i].task \in Jobs
  BY WorkerFacts
<1>2. k \in ProcIds /\ Working(k) /\ proc[k].pc \in TrackedPcs /\ proc[k].task = proc[i].task
  BY <1>1, TrackedFacts
<1>3. k = i
  BY <1>2 DEF OInv, OneWorker
<1> QED
  BY <1>2, <1>3

-----------------------------------------------------------------------------
(* Monitors *)

\* A monitor at work moves to another place of its work.
LEMMA WorkerMoves ==
    ASSUME OInv, SInv', NEW i \in ProcIds, Working(i),
           NEW R \in ProcRecord, R.pc \in WorkingPcs,
           R.task = proc[i].task, R.pod = proc[i].pod,
           R.pc \in ProcessPcs => R.kind = "build",
           proc' = [proc EXCEPT ![i] = R],
           UNCHANGED <<row, boot, launch, specStarts>>
    PROVE  OInv'
<1>0. AInv
  BY DEF OInv, SInv
<1>1. \A k \in ProcIds : proc'[k] = IF k = i THEN R ELSE proc[k]
  BY <1>0, InFlight
<1>2. \A k \in ProcIds : /\ Working(k)' = Working(k)
                         /\ Working(k) => proc'[k].task = proc[k].task
                                          /\ proc'[k].pod = proc[k].pod
  BY <1>1 DEF Working
<1>3. \A t, p : HeldBy(t, p)' = HeldBy(t, p)
  BY HeldKept
<1>4. Calm'
  BY DEF OInv, Calm
<1>5. WorkersOwn'
  <2> SUFFICES ASSUME NEW k \in ProcIds
               PROVE  /\ proc'[k].pc \in WorkingPcs \cup {"drain", "none"}
                      /\ Working(k)' => HeldBy(proc[k].task, proc[k].pod)'
                      /\ proc'[k].pc \in ProcessPcs => proc'[k].kind = "build"
    BY DEF WorkersOwn
  <2>1. Working(k)' => HeldBy(proc'[k].task, proc'[k].pod)
    BY <1>2 DEF OInv, WorkersOwn
  <2> QED
    BY <1>1, <1>3, <2>1 DEF OInv, WorkersOwn, HeldBy, Owner
<1>6. OneWorker'
  BY <1>2 DEF OInv, OneWorker
<1>7. LaunchesHold'
  BY <1>2, <1>3 DEF OInv, LaunchesHold, LaunchRow, HeldBy, Owner
<1> QED
  BY <1>4, <1>5, <1>6, <1>7 DEF OInv, CrashesOnly

\* The exit of a process, and the retry decision.
LEMMA WatchOInv ==
    ASSUME OInv, SInv', NEW i \in ProcIds,
           ProcExit(i) \/ RetryDecide(i) \/ RetryUnavailable(i)
    PROVE  OInv'
<1>1. /\ proc[i].pc \in {"watch", "retrying"} /\ Working(i) /\ proc[i].pc \in ProcessPcs
      /\ UNCHANGED <<row, boot, launch, specStarts>>
  BY DEF ProcExit, RetryDecide, RetryUnavailable, At, Working, WorkingPcs, ProcessPcs, storeVars
<1>2. AInv /\ proc[i] \in Process /\ proc[i].kind = "build"
  BY <1>1, InFlight, ProcFields DEF OInv, SInv, WorkersOwn
<1>3. \E R \in ProcRecord : /\ R.pc \in TrackedPcs /\ R.pod = proc[i].pod
                            /\ R.task = proc[i].task /\ R.kind = "build"
                            /\ proc' = [proc EXCEPT ![i] = R]
  <2>1. CASE ProcExit(i)
    <3>1. PICK c \in {0, 1} : \E l \in LeftBy(proc[i].kind, c) : proc' = Dead(i, c, l)
      BY <2>1, Zenon DEF ProcExit, Dead
    <3>2. PICK l \in LeftBy(proc[i].kind, c) : proc' = Dead(i, c, l)
      BY <3>1
    <3>3. l \in Leftovers
      BY <3>2, LeftByType
    <3>4. PICK R \in ProcRecord :
             /\ R.pc = proc[i].pc /\ R.pod = proc[i].pod /\ R.task = proc[i].task
             /\ R.kind = proc[i].kind /\ R.live = FALSE
             /\ Dead(i, c, l) = [proc EXCEPT ![i] = R]
      BY <1>2, <3>3, DeathShape, Zenon
    <3> QED
      BY <1>1, <1>2, <3>2, <3>4 DEF TrackedPcs
  <2>2. CASE RetryDecide(i) \/ RetryUnavailable(i)
    BY <1>1, <1>2, <2>2, GotoShape DEF RetryDecide, RetryUnavailable, TrackedPcs, ProcessPcs
  <2> QED
    BY <2>1, <2>2
<1> QED
  BY <1>1, <1>3, WorkerMoves DEF TrackedPcs, WorkingPcs

\* The end of a process that leaves its task: review, continuation, completion.
LEMMA EndOInv ==
    ASSUME OInv, SInv', NEW i \in ProcIds,
           ParkForReview(i) \/ AutoContinue(i) \/ Complete(i) \/ Cleanup(i)
    PROVE  OInv'
<1>1. /\ proc[i].pc \in {"watch", "handle", "startFailed", "cleanup"} /\ Working(i)
      /\ UNCHANGED <<row, boot, launch, specStarts>>
  <2>1. proc[i].pc \in {"watch", "handle", "startFailed", "cleanup"}
    BY DEF ParkForReview, AutoContinue, Complete, Cleanup, Ending, Exited, At
  <2> QED
    BY <2>1 DEF ParkForReview, AutoContinue, Complete, Cleanup, Working, WorkingPcs, storeVars
<1>2. AInv /\ proc[i].pc # "none"
  BY <1>1 DEF OInv, SInv
<1>3. CASE ParkForReview(i)
  <2>1. PICK R \in ProcRecord : /\ R.pc = "exit" /\ R.pod = proc[i].pod
                                /\ R.task = proc[i].task /\ proc' = [proc EXCEPT ![i] = R]
    BY <1>2, <1>3, LeaveShape DEF ParkForReview, LeavingPcs
  <2> QED
    BY <1>1, <2>1, WorkerMoves DEF WorkingPcs, ProcessPcs
<1>4. CASE AutoContinue(i)
  <2>1. proc[i].pc \in ProcessPcs /\ proc[i].kind = "build"
    <3>1. proc[i].pc \in ProcessPcs
      BY <1>4 DEF AutoContinue, Ending, Exited, ProcessPcs
    <3> QED
      BY <3>1 DEF OInv, WorkersOwn
  <2>2. PICK R \in ProcRecord : /\ R.pc = "restart" /\ R.pod = proc[i].pod
                                /\ R.task = proc[i].task /\ R.kind = "build"
                                /\ proc' = [proc EXCEPT ![i] = R]
    BY <1>2, <1>4, <2>1, GotoShape DEF AutoContinue, ProcessPcs
  <2> QED
    BY <1>1, <2>2, WorkerMoves DEF WorkingPcs
<1>5. CASE Complete(i)
  <2>1. PICK R \in ProcRecord : /\ R.pc = "cleanup" /\ R.pod = proc[i].pod
                                /\ R.task = proc[i].task /\ proc' = [proc EXCEPT ![i] = R]
    BY <1>2, <1>5, LeaveShape DEF Complete, LeavingPcs
  <2> QED
    BY <1>1, <2>1, WorkerMoves DEF WorkingPcs, ProcessPcs
<1>6. CASE Cleanup(i)
  <2> DEFINE tracked == runningTasks'[proc[i].pod]
  <2>1. tracked[proc[i].task] = 0 /\ proc' = Return(i, tracked)
    <3>1. proc[i].pod \in Pods /\ proc[i].task \in Jobs
      BY <1>1, WorkerFacts
    <3> QED
      BY <1>2, <1>6, <3>1, ForgetType DEF Cleanup
  <2> HIDE DEF tracked
  <2>2. PICK R \in ProcRecord :
           /\ R.pod = proc[i].pod /\ R.task = proc[i].task
           /\ R.pc = IF tracked[proc[i].task] # 0 THEN "drain" ELSE "free"
           /\ Return(i, tracked) = [proc EXCEPT ![i] = R]
    BY <1>2, ReturnShape
  <2>3. R.pc = "free" /\ proc' = [proc EXCEPT ![i] = R]
    BY <2>1, <2>2
  <2> QED
    BY <1>1, <2>2, <2>3, WorkerMoves DEF WorkingPcs, ProcessPcs
<1> QED
  BY <1>3, <1>4, <1>5, <1>6

\* A continuation finds the row still running, and the exit check finds nothing
\* tracked: the slot is going to be freed.
LEMMA ReturnOInv ==
    ASSUME OInv, SInv', NEW i \in ProcIds, RestartTask(i) \/ ExitCheck(i)
    PROVE  OInv'
<1>1. /\ proc[i].pc \in {"restart", "exit"} /\ Working(i) /\ AInv
      /\ UNCHANGED <<boot, specStarts>>
  BY DEF RestartTask, ExitCheck, At, Working, WorkingPcs, OInv, SInv
<1>2. runningTasks[proc[i].pod][proc[i].task] = 0
  BY <1>1, ForgottenUntracked DEF TrackedPcs
<1>3. CASE RestartTask(i)
  <2>1. row[proc[i].task].state \in ActiveStates
    BY <1>1, WorkerFacts DEF ActiveStates
  <2>2. proc' = Goto(i, "startFailed") /\ UNCHANGED <<storeVars, launch, control>>
    BY <1>3, <2>1 DEF RestartTask
  <2>3. proc[i].pc \in ProcessPcs /\ proc[i].kind = "build"
    <3>1. proc[i].pc \in ProcessPcs
      BY <1>3 DEF RestartTask, At, ProcessPcs
    <3> QED
      BY <3>1 DEF OInv, WorkersOwn
  <2>4. PICK R \in ProcRecord : /\ R.pc = "startFailed" /\ R.pod = proc[i].pod
                                /\ R.task = proc[i].task /\ R.kind = "build"
                                /\ proc' = [proc EXCEPT ![i] = R]
    BY <1>1, <2>2, <2>3, GotoShape DEF ProcessPcs
  <2>5. UNCHANGED <<row, launch>>
    BY <2>2 DEF storeVars
  <2> QED
    BY <1>1, <2>4, <2>5, WorkerMoves DEF WorkingPcs
<1>4. CASE ExitCheck(i)
  <2>0. proc[i].pc # "none" /\ proc' = Return(i, runningTasks[proc[i].pod])
    BY <1>1, <1>4 DEF ExitCheck
  <2> DEFINE tracked == runningTasks[proc[i].pod]
  <2>3. tracked[proc[i].task] = 0
    BY <1>2
  <2> HIDE DEF tracked
  <2>4. PICK R \in ProcRecord :
           /\ R.pod = proc[i].pod /\ R.task = proc[i].task
           /\ R.pc = IF tracked[proc[i].task] # 0 THEN "drain" ELSE "free"
           /\ Return(i, tracked) = [proc EXCEPT ![i] = R]
    BY <1>1, <2>0, ReturnShape
  <2>1. /\ R.pc = "free" /\ R.pod = proc[i].pod
        /\ R.task = proc[i].task /\ proc' = [proc EXCEPT ![i] = R]
    BY <2>0, <2>3, <2>4 DEF tracked
  <2>2. UNCHANGED <<row, launch>>
    BY <1>4 DEF ExitCheck, storeVars
  <2> QED
    BY <1>1, <2>1, <2>2, WorkerMoves DEF WorkingPcs, ProcessPcs
<1> QED
  BY <1>3, <1>4

\* A monitor frees the slot it holds: its own run's, since no other holds it.
LEMMA FreeSlotOInv ==
    ASSUME OInv, SInv', NEW i \in ProcIds, FreeSlot(i)
    PROVE  OInv'
<1> DEFINE t == proc[i].task
<1>1. /\ proc[i].pc = "free" /\ Working(i) /\ AInv /\ StoreTypeOK /\ t \in Jobs
      /\ proc[i].outcome \in {"done", "review"}
  <2>1. proc[i].pc = "free" /\ Working(i) /\ AInv
    BY DEF FreeSlot, At, Working, WorkingPcs, OInv, SInv
  <2> QED
    BY <2>1, InFlight, ProcFields
<1>2. /\ row'[t].state # "running" /\ row'[t].owner = row[t].owner
      /\ \A u \in Jobs \ {t} : row'[u] = row[u]
  BY <1>1, TerminalRow DEF FreeSlot
<1>3. UNCHANGED <<boot, launch, specStarts>>
  BY DEF FreeSlot
<1>4. PICK R \in ProcRecord : /\ R.pc = "drain" /\ R.pod = proc[i].pod /\ R.task = t
                              /\ proc' = [proc EXCEPT ![i] = R]
  BY <1>1, LeaveShape DEF FreeSlot, LeavingPcs
<1>5. /\ launch[t].pc = "none" /\ runningTasks[proc[i].pod][t] = 0
      /\ \A k \in ProcIds \ {i} : Working(k) => proc[k].task # t
  BY <1>1, WorkerFacts, ForgottenUntracked DEF TrackedPcs, OInv, OneWorker
<1>6. \A k \in ProcIds : proc'[k] = IF k = i THEN R ELSE proc[k]
  BY <1>1, <1>4, InFlight
<1>7. /\ ~Working(i)' /\ \A k \in ProcIds \ {i} : proc'[k] = proc[k] /\ Working(k)' = Working(k)
  BY <1>4, <1>6 DEF Working, WorkingPcs
<1>8. \A u \in Jobs \ {t}, p \in Pods : HeldBy(u, p)' = HeldBy(u, p)
  BY <1>2, <1>3, HeldKept
<1>9. Calm'
  BY <1>2, <1>3 DEF OInv, Calm
<1>10. WorkersOwn'
  <2> SUFFICES ASSUME NEW k \in ProcIds
               PROVE  /\ proc'[k].pc \in WorkingPcs \cup {"drain", "none"}
                      /\ Working(k)' => HeldBy(proc[k].task, proc[k].pod)'
                      /\ proc'[k].pc \in ProcessPcs => proc'[k].kind = "build"
    BY DEF WorkersOwn
  <2>1. CASE k = i
    BY <1>4, <1>6, <1>7, <2>1 DEF ProcessPcs
  <2>2. CASE k # i
    <3>1. Working(k)' => HeldBy(proc[k].task, proc[k].pod)'
      <4> SUFFICES ASSUME Working(k)' PROVE HeldBy(proc[k].task, proc[k].pod)'
        OBVIOUS
      <4>1. Working(k) /\ proc[k].task \in Jobs \ {t} /\ proc[k].pod \in Pods
        BY <1>5, <1>7, <2>2, WorkerFacts
      <4>2. HeldBy(proc[k].task, proc[k].pod) /\ proc'[k] = proc[k]
        BY <1>7, <2>2, <4>1, WorkerFacts
      <4> QED
        BY <1>2, <1>3, <4>1, <4>2 DEF HeldBy, Owner
    <3> QED
      BY <1>7, <2>2, <3>1 DEF OInv, WorkersOwn
  <2> QED
    BY <2>1, <2>2
<1>11. OneWorker'
  BY <1>7 DEF OInv, OneWorker
<1>12. LaunchesHold'
  BY <1>2, <1>3, <1>5, <1>7 DEF OInv, LaunchesHold, LaunchRow, HeldBy, Owner
<1> QED
  BY <1>9, <1>10, <1>11, <1>12 DEF OInv, CrashesOnly

\* A new process has the task's token, from a launch or from the monitor of the
\* process it replaces.
LEMMA TokenTaken ==
    ASSUME OInv, SInv', NEW p \in Pods, NEW t \in Jobs, HeldBy(t, p),
           NEW k \in ProcIds, proc[k].pc = "none",
           proc'[k].pc = "watch", proc'[k].kind = "build", proc'[k].task = t, proc'[k].pod = p,
           \A j \in ProcIds \ {k} :
                IF Working(j) /\ proc[j].task = t THEN proc'[j].pc = "drain"
                                                  ELSE proc'[j] = proc[j],
           launch'[t].pc = "none",
           \A u \in Jobs \ {t} : launch'[u] = launch[u],
           UNCHANGED <<row, boot, specStarts>>
    PROVE  OInv'
<1>1. /\ Working(k)' /\ ~Working(k)
      /\ \A j \in ProcIds \ {k} :
            /\ Working(j)' => Working(j) /\ proc[j].task # t
            /\ Working(j) /\ proc[j].task # t => Working(j)'
            /\ Working(j)' => proc'[j] = proc[j]
  BY DEF Working, WorkingPcs
<1>2. \A u, q : HeldBy(u, q)' = HeldBy(u, q)
  BY HeldKept
<1>3. Calm'
  BY DEF OInv, Calm
<1>4. WorkersOwn'
  <2> SUFFICES ASSUME NEW j \in ProcIds
               PROVE  /\ proc'[j].pc \in WorkingPcs \cup {"drain", "none"}
                      /\ Working(j)' => HeldBy(proc[j].task, proc[j].pod)'
                      /\ proc'[j].pc \in ProcessPcs => proc'[j].kind = "build"
    BY DEF WorkersOwn
  <2>1. CASE j = k
    BY <2>1 DEF WorkingPcs, HeldBy, Owner
  <2>2. CASE j # k
    <3>1. Working(j)' => HeldBy(proc'[j].task, proc'[j].pod)
      BY <1>1, <2>2 DEF OInv, WorkersOwn
    <3>2. Working(j)' => HeldBy(proc[j].task, proc[j].pod)'
      BY <3>1 DEF HeldBy, Owner
    <3>3. /\ proc'[j].pc \in WorkingPcs \cup {"drain", "none"}
          /\ proc'[j].pc \in ProcessPcs => proc'[j].kind = "build"
      <4>1. CASE proc'[j].pc = "drain"
        BY <4>1 DEF ProcessPcs
      <4>2. CASE proc'[j] = proc[j]
        BY <4>2 DEF OInv, WorkersOwn
      <4> QED
        BY <2>2, <4>1, <4>2
    <3> QED
      BY <3>2, <3>3
  <2> QED
    BY <2>1, <2>2
<1>5. OneWorker'
  BY <1>1 DEF OInv, OneWorker
<1>6. LaunchesHold'
  <2> SUFFICES ASSUME NEW u \in Jobs, launch'[u].pc # "none"
               PROVE  /\ launch'[u].by = 0
                      /\ row'[u].state = "running"
                      /\ row'[u].kind = "pending" \/ HeldBy(u, launch[u].pod)'
                      /\ launch'[u].pc \in {"granted", "promoted"} => row'[u].kind = "pending"
                      /\ launch'[u].pc \in {"claimed", "spawning"}
                            => HeldBy(u, launch[u].pod)'
                      /\ \A j \in ProcIds : Working(j)' => proc'[j].task # u
    BY DEF LaunchesHold, LaunchRow
  <2>1. u # t /\ launch'[u] = launch[u]
    OBVIOUS
  <2>2. \A j \in ProcIds : Working(j)' => proc'[j].task # u
    BY <1>1, <2>1 DEF OInv, LaunchesHold, LaunchRow
  <2> QED
    BY <2>1, <2>2 DEF OInv, LaunchesHold, LaunchRow, HeldBy, Owner
<1> QED
  BY <1>3, <1>4, <1>5, <1>6 DEF OInv, CrashesOnly

\* The retry's process takes over from the monitor that spawned it.
LEMMA RetrySpawnOInv ==
    ASSUME OInv, SInv', NEW i \in ProcIds, RetrySpawn(i)
    PROVE  OInv'
<1> DEFINE p == proc[i].pod
           t == proc[i].task
           N == NewProcess(p, t, proc[i].kind, FALSE)
<1>1. proc[i].pc = "retrying" /\ Working(i) /\ AInv
  BY DEF RetrySpawn, At, Working, WorkingPcs, OInv, SInv
<1>2. /\ p \in Pods /\ t \in Jobs /\ HeldBy(t, p) /\ launch[t].pc = "none"
      /\ proc[i].kind = "build"
  BY <1>1, WorkerFacts DEF OInv, WorkersOwn, ProcessPcs
<1>3. PICK k \in ProcIds : /\ proc[k].pc = "none"
                           /\ proc' = [Leave(i, "drain") EXCEPT ![k] = N]
  BY DEF RetrySpawn, FreeProc
<1>4. N.pc = "watch" /\ N.kind = "build" /\ N.task = t /\ N.pod = p
  BY <1>2 DEF NewProcess
<1>5. PICK R \in ProcRecord : R.pc = "drain" /\ Leave(i, "drain") = [proc EXCEPT ![i] = R]
  BY <1>1, LeaveShape DEF LeavingPcs
<1> HIDE DEF N
<1>6. /\ proc'[k] = N /\ i # k
      /\ \A j \in ProcIds \ {k} : proc'[j] = IF j = i THEN R ELSE proc[j]
  BY <1>1, <1>3, <1>5, InFlight
<1>7. \A j \in ProcIds : Working(j) /\ proc[j].task = t => j = i
  BY <1>1 DEF OInv, OneWorker
<1>8. \A j \in ProcIds \ {k} : IF Working(j) /\ proc[j].task = t THEN proc'[j].pc = "drain"
                                                               ELSE proc'[j] = proc[j]
  BY <1>1, <1>5, <1>6, <1>7
<1>9. UNCHANGED <<row, boot, launch, specStarts>>
  BY DEF RetrySpawn, storeVars
<1>10. /\ proc'[k].pc = "watch" /\ proc'[k].kind = "build" /\ proc'[k].task = t
       /\ proc'[k].pod = p /\ proc[k].pc = "none"
  BY <1>3, <1>4, <1>6
<1> HIDE DEF p, t
<1> QED
  BY <1>2, <1>8, <1>9, <1>10, TokenTaken

-----------------------------------------------------------------------------
(* Launches, drains and reaps *)

\* The tokens of the tasks in S move between their rows and their launches; no
\* monitor works on any of them.
LEMMA TokensMove ==
    ASSUME OInv, SInv', NEW S \in SUBSET Jobs,
           UNCHANGED <<boot, specStarts>>,
           \A i \in ProcIds : \/ proc'[i] = proc[i]
                              \/ proc[i].pc = "drain" /\ proc'[i].pc = "none",
           \A t \in Jobs \ S : row'[t] = row[t] /\ launch'[t] = launch[t],
           \A t \in S, i \in ProcIds : Working(i) => proc[i].task # t,
           \A t \in S : LaunchRow(t)'
    PROVE  OInv'
<1>1. \A i \in ProcIds : /\ Working(i)' = Working(i)
                         /\ Working(i) => proc'[i] = proc[i]
  BY DEF Working, WorkingPcs
<1>2. \A t \in Jobs \ S, p \in Pods : HeldBy(t, p)' = HeldBy(t, p)
  BY HeldKept
<1>3. Calm'
  BY DEF OInv, Calm
<1>4. WorkersOwn'
  <2> SUFFICES ASSUME NEW i \in ProcIds
               PROVE  /\ proc'[i].pc \in WorkingPcs \cup {"drain", "none"}
                      /\ Working(i)' => HeldBy(proc[i].task, proc[i].pod)'
                      /\ proc'[i].pc \in ProcessPcs => proc'[i].kind = "build"
    BY DEF WorkersOwn
  <2>1. /\ proc'[i].pc \in WorkingPcs \cup {"drain", "none"}
        /\ proc'[i].pc \in ProcessPcs => proc'[i].kind = "build"
    BY DEF OInv, WorkersOwn, ProcessPcs
  <2>2. ASSUME Working(i)' PROVE HeldBy(proc[i].task, proc[i].pod)'
    <3>1. Working(i) /\ proc'[i] = proc[i]
      BY <1>1, <2>2
    <3>2. /\ proc[i].task \in Jobs \ S /\ proc[i].pod \in Pods
          /\ HeldBy(proc[i].task, proc[i].pod)
      BY <3>1, WorkerFacts
    <3>3. row'[proc[i].task] = row[proc[i].task]
      BY <3>2
    <3> QED
      BY <3>1, <3>2, <3>3 DEF HeldBy, Owner
  <2> QED
    BY <2>1, <2>2
<1>5. OneWorker'
  BY <1>1 DEF OInv, OneWorker
<1>6. LaunchesHold'
  <2> SUFFICES ASSUME NEW t \in Jobs
               PROVE  /\ LaunchRow(t)'
                      /\ launch'[t].pc # "none" =>
                            \A i \in ProcIds : Working(i)' => proc'[i].task # t
    BY DEF LaunchesHold
  <2>1. CASE t \in S
    BY <1>1, <2>1
  <2>2. CASE t \notin S
    <3>1. row'[t] = row[t] /\ launch'[t] = launch[t]
      BY <2>2
    <3>2. LaunchRow(t)'
      BY <3>1 DEF OInv, LaunchesHold, LaunchRow, HeldBy, Owner
    <3> QED
      BY <1>1, <3>1, <3>2 DEF OInv, LaunchesHold
  <2> QED
    BY <2>1, <2>2
<1> QED
  BY <1>3, <1>4, <1>5, <1>6 DEF OInv, CrashesOnly

\* The same for one task.
LEMMA TokenMoves ==
    ASSUME OInv, SInv', NEW t \in Jobs,
           UNCHANGED <<boot, specStarts>>,
           \A i \in ProcIds : proc'[i] = proc[i],
           \A u \in Jobs \ {t} : row'[u] = row[u] /\ launch'[u] = launch[u],
           \A i \in ProcIds : Working(i) => proc[i].task # t,
           LaunchRow(t)'
    PROVE  OInv'
<1> DEFINE S == {t}
<1>1. S \in SUBSET Jobs /\ \A u \in Jobs \ S : row'[u] = row[u] /\ launch'[u] = launch[u]
  OBVIOUS
<1>2. \A u \in S, i \in ProcIds : Working(i) => proc[i].task # u
  OBVIOUS
<1>3. \A u \in S : LaunchRow(u)'
  <2> SUFFICES LaunchRow(t)'
    BY DEF LaunchRow, HeldBy, Owner
  <2> QED
    OBVIOUS
<1> HIDE DEF S
<1> QED
  BY <1>1, <1>2, <1>3, TokensMove

\* A user starts a build: its row was not active, so nobody has its token.
LEMMA StartTaskOInv ==
    ASSUME OInv, SInv', NEW p \in Pods, NEW t \in Jobs, StartTask(p, t)
    PROVE  OInv'
<1>1. AInv /\ AdmitFor(p, t, 0) /\ 0 \in 0..MaxProcs /\ StoreTypeOK
  BY InFlight, Bounds DEF OInv, SInv, StartTask
<1>2. UNCHANGED <<boot, specStarts, proc>>
  BY DEF StartTask
<1>3. /\ row[t].state \notin ActiveStates
      /\ row' = [row EXCEPT ![t] = AdmittedRow(HasFreeSlot)]
  BY <1>1 DEF AdmitFor, Admit
<1>4. /\ \A u \in Jobs \ {t} : row'[u] = row[u]
      /\ row'[t] = AdmittedRow(HasFreeSlot)
  BY <1>1, <1>3 DEF StoreTypeOK
<1>5. \A i \in ProcIds : Working(i) => proc[i].task # t
  BY <1>3, WorkerFacts DEF ActiveStates
<1>6. /\ row'[t].kind # "subprocess" /\ row'[t].owner = NoOwner
      /\ HasFreeSlot => row'[t].state = "running" /\ row'[t].kind = "pending"
  BY <1>4 DEF AdmittedRow
<1>7. \/ /\ HasFreeSlot /\ launch'[t].pc = "granted" /\ launch'[t].by = 0
         /\ \A u \in Jobs \ {t} : launch'[u] = launch[u]
      \/ launch' = launch /\ launch[t].pc = "none"
  <2>1. /\ launch[t] = NoLaunch
        /\ \/ HasFreeSlot /\ \E L \in LaunchRecord :
                 /\ L.pc = "granted" /\ L.pod = p /\ L.by = 0
                 /\ launch' = [launch EXCEPT ![t] = L]
           \/ ~HasFreeSlot /\ launch' = launch
    BY <1>1, AdmitForType
  <2> QED
    BY <1>1, <2>1, InFlight DEF NoLaunch
<1>8. LaunchRow(t)'
  BY <1>6, <1>7 DEF LaunchRow
<1>9. \A u \in Jobs \ {t} : launch'[u] = launch[u]
  BY <1>7
<1> QED
  BY <1>2, <1>4, <1>5, <1>8, <1>9, TokenMoves

\* A task that is being launched is tracked nowhere.
LEMMA LaunchedUntracked ==
    ASSUME OInv, NEW t \in Jobs, launch[t].pc # "none"
    PROVE  /\ launch[t].pod \in Pods /\ runningTasks[launch[t].pod][t] = 0
           /\ \A i \in ProcIds : Working(i) => proc[i].task # t
           /\ LaunchRow(t) /\ Up(launch[t].pod)
<1>1. launch[t] \in LaunchRecord
  BY InFlight DEF OInv, SInv
<1>2. launch[t].pod \in Pods
  BY <1>1, LaunchFields
<1>3. LaunchRow(t) /\ \A i \in ProcIds : Working(i) => proc[i].task # t
  BY DEF OInv, LaunchesHold
<1>4. Up(launch[t].pod)
  BY DEF OInv, SInv, AInv, OnUpPods
<1>5. runningTasks[launch[t].pod][t] = 0
  BY <1>2, <1>3, TrackedFacts
<1> QED
  BY <1>2, <1>3, <1>4, <1>5

\* The claim: the row is stamped with the replica that launches.
LEMMA ClaimOInv ==
    ASSUME OInv, SInv', NEW t \in Jobs, Claim(t)
    PROVE  OInv'
<1> DEFINE p == launch[t].pod
           o == Owner(p)
<1>1. launch[t].pc \in {"granted", "promoted"} /\ launch[t].pc # "none" /\ AInv
  BY DEF Claim, OInv, SInv
<1>2. /\ p \in Pods /\ LaunchRow(t)
      /\ \A i \in ProcIds : Working(i) => proc[i].task # t
  BY <1>1, LaunchedUntracked
<1>3. row[t].state = "running" /\ launch[t].by = 0
  BY <1>1, <1>2 DEF LaunchRow
<1>4. row' = [row EXCEPT ![t] = [@ EXCEPT !.kind = "subprocess", !.owner = o]]
  BY <1>3 DEF Claim, MarkRunning
<1>5. row \in [Jobs -> Row] /\ row[t] \in Row /\ launch[t] \in LaunchRecord
      /\ launch[t] \in Launch
  <2>1. StoreTypeOK /\ launch[t] \in LaunchRecord
    BY <1>1, InFlight
  <2> QED
    BY <1>1, <2>1, LaunchFields DEF StoreTypeOK
<1> HIDE DEF o
<1>6. /\ row'[t].kind = "subprocess" /\ row'[t].owner = o /\ row'[t].state = "running"
      /\ \A u \in Jobs \ {t} : row'[u] = row[u]
  <2> DEFINE r == [row[t] EXCEPT !.kind = "subprocess", !.owner = o]
  <2>1. r.kind = "subprocess" /\ r.owner = o /\ r.state = "running"
    BY <1>3, <1>5 DEF Row
  <2>2. row' = [row EXCEPT ![t] = r]
    BY <1>4
  <2> HIDE DEF r
  <2> QED
    BY <1>5, <2>1, <2>2
<1>7. UNCHANGED <<boot, specStarts, proc>>
  BY DEF Claim
<1>8. /\ launch'[t].pc = "claimed" /\ launch'[t].pod = p /\ launch'[t].by = 0
      /\ \A u \in Jobs \ {t} : launch'[u] = launch[u]
  <2> DEFINE L == [launch[t] EXCEPT !.pc = "claimed"]
  <2>1. L.pc = "claimed" /\ L.pod = launch[t].pod /\ L.by = 0
    BY <1>3, <1>5 DEF Launch
  <2>2. launch' = [launch EXCEPT ![t] = L]
    BY DEF Claim
  <2> HIDE DEF L
  <2> QED
    BY <1>1, <2>1, <2>2, InFlight
<1>9. LaunchRow(t)'
  BY <1>6, <1>7, <1>8 DEF LaunchRow, HeldBy, Owner, o
<1> HIDE DEF p
<1> QED
  BY <1>2, <1>6, <1>7, <1>8, <1>9, TokenMoves

\* A launch moves on without touching the row.
LEMMA LaunchMovesOInv ==
    ASSUME OInv, SInv', NEW t \in Jobs, SpawnBegin(t) \/ LaunchRaises(t)
    PROVE  OInv'
<1>1. /\ launch[t].pc \in {"granted", "promoted", "claimed", "spawning"}
      /\ launch[t].pc # "none" /\ AInv
      /\ UNCHANGED <<row, boot, specStarts, proc>>
  BY DEF SpawnBegin, LaunchRaises, OInv, SInv, storeVars
<1>2. PICK y \in {"spawning", "failed"} : /\ launch' = [launch EXCEPT ![t].pc = y]
                                          /\ y = "spawning" => launch[t].pc = "claimed"
  BY DEF SpawnBegin, LaunchRaises
<1>3. /\ launch[t] \in Launch /\ LaunchRow(t)
      /\ \A i \in ProcIds : Working(i) => proc[i].task # t
  BY <1>1, LaunchedUntracked, LaunchFields, InFlight
<1>4. /\ launch'[t].pc = y /\ launch'[t].pod = launch[t].pod /\ launch'[t].by = launch[t].by
      /\ \A u \in Jobs \ {t} : launch'[u] = launch[u]
  <2> DEFINE L == [launch[t] EXCEPT !.pc = y]
  <2>1. L.pc = y /\ L.pod = launch[t].pod /\ L.by = launch[t].by
    BY <1>3 DEF Launch
  <2>2. launch' = [launch EXCEPT ![t] = L]
    BY <1>2
  <2> HIDE DEF L
  <2> QED
    BY <1>1, <2>1, <2>2, InFlight
<1>5. LaunchRow(t)'
  BY <1>1, <1>2, <1>3, <1>4 DEF LaunchRow, HeldBy, Owner
<1> QED
  BY <1>1, <1>3, <1>4, <1>5, TokenMoves

\* The launch ends in a process.
LEMMA SpawnOInv ==
    ASSUME OInv, SInv', NEW t \in Jobs, Spawn(t)
    PROVE  OInv'
<1> DEFINE p == launch[t].pod
           N == NewProcess(p, t, "build", TRUE)
<1>1. launch[t].pc = "spawning" /\ launch[t].pc # "none" /\ AInv
  BY DEF Spawn, OInv, SInv
<1>2. /\ p \in Pods /\ LaunchRow(t)
      /\ \A i \in ProcIds : Working(i) => proc[i].task # t
  BY <1>1, LaunchedUntracked
<1>3. HeldBy(t, p) /\ launch[t].by = 0
  BY <1>1, <1>2 DEF LaunchRow
<1>4. PICK k \in ProcIds :
         /\ proc[k].pc = "none"
         /\ proc' = [j \in ProcIds |-> IF j = k THEN N
                                       ELSE IF j = launch[t].by THEN Leave(j, "exit")[j]
                                       ELSE proc[j]]
  BY DEF Spawn, FreeProc
<1>5. N.pc = "watch" /\ N.kind = "build" /\ N.task = t /\ N.pod = p
  BY DEF NewProcess
<1> HIDE DEF N
<1>6. proc'[k] = N /\ \A j \in ProcIds \ {k} : proc'[j] = proc[j]
  <2>1. \A j \in ProcIds : j # launch[t].by
    BY <1>3 DEF ProcIds
  <2> QED
    BY <1>4, <2>1
<1>7. \A j \in ProcIds \ {k} : IF Working(j) /\ proc[j].task = t THEN proc'[j].pc = "drain"
                                                               ELSE proc'[j] = proc[j]
  BY <1>2, <1>6
<1>8. /\ UNCHANGED <<row, boot, specStarts>>
      /\ launch' = [launch EXCEPT ![t] = NoLaunch]
  BY DEF Spawn, storeVars
<1>9. launch'[t].pc = "none" /\ \A u \in Jobs \ {t} : launch'[u] = launch[u]
  BY <1>1, <1>8, InFlight DEF NoLaunch
<1>10. /\ proc'[k].pc = "watch" /\ proc'[k].kind = "build" /\ proc'[k].task = t
       /\ proc'[k].pod = p /\ proc[k].pc = "none"
  BY <1>4, <1>5, <1>6
<1> HIDE DEF p
<1> QED
  BY <1>2, <1>3, <1>7, <1>8, <1>9, <1>10, TokenTaken

\* The launch failed and frees the slot.
LEMMA LaunchFailedOInv ==
    ASSUME OInv, SInv', NEW t \in Jobs, LaunchFailed(t)
    PROVE  OInv'
<1>1. launch[t].pc # "none" /\ AInv /\ StoreTypeOK
  BY InFlight DEF LaunchFailed, OInv, SInv
<1>2. LaunchRow(t) /\ \A i \in ProcIds : Working(i) => proc[i].task # t
  BY <1>1, LaunchedUntracked
<1>3. /\ row'[t].state # "running" /\ row'[t].owner = row[t].owner
      /\ \A u \in Jobs \ {t} : row'[u] = row[u]
  BY <1>1, TerminalRow DEF LaunchFailed
<1>4. UNCHANGED <<boot, specStarts>>
  BY DEF LaunchFailed
<1>5. \A i \in ProcIds : proc'[i] = proc[i]
  <2>1. \A i \in ProcIds : i # launch[t].by
    BY <1>1, <1>2 DEF LaunchRow, ProcIds
  <2> QED
    BY <2>1 DEF LaunchFailed
<1>6. launch'[t].pc = "none" /\ \A u \in Jobs \ {t} : launch'[u] = launch[u]
  BY <1>1, InFlight DEF LaunchFailed, NoLaunch
<1>7. LaunchRow(t)'
  BY <1>6 DEF LaunchRow
<1> QED
  BY <1>2, <1>3, <1>4, <1>5, <1>6, <1>7, TokenMoves

\* Hence every step of a launch; it never finds its task tracked already.
LEMMA LaunchOInv ==
    ASSUME OInv, SInv', NEW t \in Jobs, LaunchStep(t) \/ LaunchRaises(t)
    PROVE  OInv'
<1>1. ~SkipPromoted(t)
  <2> SUFFICES ASSUME SkipPromoted(t) PROVE FALSE
    OBVIOUS
  <2>1. launch[t].pc # "none" /\ runningTasks[launch[t].pod][t] # 0
    BY DEF SkipPromoted
  <2> QED
    BY <2>1, LaunchedUntracked
<1>2. ~SpawnRefused(t)
  <2> SUFFICES ASSUME SpawnRefused(t) PROVE FALSE
    OBVIOUS
  <2>1. launch[t].pc # "none" /\ runningTasks[launch[t].pod][t] # 0
    BY DEF SpawnRefused
  <2> QED
    BY <2>1, LaunchedUntracked
<1> QED
  BY <1>1, <1>2, ClaimOInv, LaunchMovesOInv, SpawnOInv, LaunchFailedOInv DEF LaunchStep

\* A drain promotes queued rows, whose tasks nobody works on.
LEMMA DrainOInv ==
    ASSUME OInv, SInv', NEW p \in Pods, Up(p), DrainFrom(p),
           UNCHANGED <<boot, specStarts>>,
           \A i \in ProcIds : \/ proc'[i] = proc[i]
                              \/ proc[i].pc = "drain" /\ proc'[i].pc = "none"
    PROVE  OInv'
<1>1. AInv /\ row \in [Jobs -> Row]
  BY InFlight DEF OInv, SInv, StoreTypeOK
<1>2. PICK S \in SUBSET Queued :
         /\ Drain(S)
         /\ launch' = [t \in Jobs |-> IF t \in S THEN [pc |-> "promoted", pod |-> p, by |-> 0]
                                                 ELSE launch[t]]
  BY DEF DrainFrom
<1>3. S \in SUBSET Jobs /\ \A t \in S : row[t].state = "queued"
  BY <1>2 DEF Queued
<1>4. \A t \in Jobs \ S : row'[t] = row[t] /\ launch'[t] = launch[t]
  BY <1>2 DEF Drain
<1>5. \A t \in S : /\ row'[t].state = "running" /\ row'[t].kind = "pending"
                   /\ launch'[t].pc = "promoted" /\ launch'[t].by = 0
  <2> SUFFICES ASSUME NEW t \in S
               PROVE  /\ row'[t].state = "running" /\ row'[t].kind = "pending"
                      /\ launch'[t].pc = "promoted" /\ launch'[t].by = 0
    OBVIOUS
  <2>1. t \in Jobs /\ row[t] \in Row
    BY <1>1, <1>3
  <2>2. row'[t] = [row[t] EXCEPT !.state = "running", !.kind = "pending", !.owner = NoOwner]
    BY <1>2, <2>1 DEF Drain
  <2>3. launch'[t] = [pc |-> "promoted", pod |-> p, by |-> 0]
    BY <1>2, <2>1
  <2> QED
    BY <2>1, <2>2, <2>3 DEF Row
<1>6. \A t \in S, i \in ProcIds : Working(i) => proc[i].task # t
  BY <1>3, WorkerFacts
<1>7. \A t \in S : LaunchRow(t)'
  BY <1>5 DEF LaunchRow
<1> QED
  BY <1>3, <1>4, <1>6, <1>7, TokensMove

\* A monitor's last step: its process is in no replica's tracking any more.
LEMMA MonitorDrainOInv ==
    ASSUME OInv, SInv', NEW i \in ProcIds, MonitorDrain(i)
    PROVE  OInv'
<1>1. /\ proc[i].pc = "drain" /\ AInv /\ DrainFrom(proc[i].pod)
      /\ UNCHANGED <<boot, specStarts>>
      /\ proc' = [proc EXCEPT ![i] = NoProcess]
  BY DEF MonitorDrain, At, OInv, SInv
<1>2. proc[i].pod \in Pods /\ Up(proc[i].pod)
  BY <1>1, InFlight, ProcFields DEF AInv, OnUpPods
<1>3. \A k \in ProcIds : \/ proc'[k] = proc[k]
                         \/ proc[k].pc = "drain" /\ proc'[k].pc = "none"
  BY <1>1, InFlight DEF NoProcess
<1> QED
  BY <1>1, <1>2, <1>3, DrainOInv

\* The drain of a reconcile.
LEMMA ReconcileDrainOInv ==
    ASSUME OInv, SInv', NEW p \in Pods, ReconcileDrain(p)
    PROVE  OInv'
BY DrainOInv DEF ReconcileDrain

\* The reaper: an orphaned claim is the claim of nobody who is still there.
LEMMA ReapOInv ==
    ASSUME OInv, SInv', NEW p \in Pods, NEW t \in Jobs, Reap(p, t)
    PROVE  OInv'
<1>1. AInv /\ row \in [Jobs -> Row] /\ Up(p)
  BY InFlight DEF OInv, SInv, StoreTypeOK, Reap
<1>2. PICK o \in Owners : Orphaned(p, o) /\ FailSubprocessRow(t, o)
  BY DEF Reap
<1>3. \A q \in Pods : Up(q) => ~HeldBy(t, q)
  <2> SUFFICES ASSUME NEW q \in Pods, Up(q), HeldBy(t, q) PROVE FALSE
    OBVIOUS
  <2>1. o = <<q, boot[q]>>
    BY <1>2 DEF FailSubprocessRow, HeldBy, Owner
  <2> QED
    BY <1>2, <2>1 DEF Orphaned, Up
<1>4. \A i \in ProcIds : Working(i) => proc[i].task # t
  BY <1>3, WorkerFacts
<1>5. launch[t].pc = "none"
  <2> SUFFICES ASSUME launch[t].pc # "none" PROVE FALSE
    OBVIOUS
  <2>1. launch[t].pod \in Pods /\ Up(launch[t].pod) /\ LaunchRow(t)
    BY LaunchedUntracked
  <2>2. row[t].kind = "subprocess"
    BY <1>2 DEF FailSubprocessRow
  <2> QED
    BY <1>3, <2>1, <2>2 DEF LaunchRow
<1>6. \A u \in Jobs \ {t} : row'[u] = row[u]
  BY <1>1, <1>2 DEF FailSubprocessRow
<1>7. UNCHANGED <<boot, specStarts, proc, launch>>
  BY DEF Reap
<1>8. LaunchRow(t)'
  BY <1>5, <1>7 DEF LaunchRow
<1> QED
  BY <1>4, <1>6, <1>7, <1>8, TokenMoves

-----------------------------------------------------------------------------
(* Replicas *)

\* A replica dies: its tokens are gone with it, and nobody else's.
LEMMA LoseReplicaOInv ==
    ASSUME OInv, SInv', NEW p \in Pods, LoseReplica(p), NEW x \in {"down", "gone"},
           pod' = [pod EXCEPT ![p] = x], UNCHANGED boot
    PROVE  OInv'
<1>1. AInv /\ UNCHANGED row
  BY DEF OInv, SInv, LoseReplica, RemoveQueuedAbort
<1>2. \A i \in ProcIds : /\ proc[i].pc # "none" /\ proc[i].pod = p => proc'[i] = NoProcess
                         /\ proc[i].pc = "none" \/ proc[i].pod # p => proc'[i] = proc[i]
  BY DEF LoseReplica
<1>3. \A i \in ProcIds : /\ Working(i)' => Working(i) /\ proc[i].pod # p /\ proc'[i] = proc[i]
                         /\ Working(i) /\ proc[i].pod # p => Working(i)' /\ proc'[i] = proc[i]
  BY <1>2 DEF Working, WorkingPcs, NoProcess
<1>4. \A t \in Jobs : /\ launch'[t].pc # "none" => launch'[t] = launch[t]
                      /\ launch[t].pc # "none" /\ launch[t].pod # p => launch'[t] = launch[t]
  BY DEF LoseReplica, NoLaunch
<1>5. Calm'
  BY <1>1 DEF LoseReplica, OInv, Calm, AInv, AgentTypeOK
<1>6. WorkersOwn'
  <2> SUFFICES ASSUME NEW i \in ProcIds
               PROVE  /\ proc'[i].pc \in WorkingPcs \cup {"drain", "none"}
                      /\ Working(i)' => HeldBy(proc[i].task, proc[i].pod)'
                      /\ proc'[i].pc \in ProcessPcs => proc'[i].kind = "build"
    BY DEF WorkersOwn
  <2>1. proc'[i] = NoProcess \/ proc'[i] = proc[i]
    BY <1>2
  <2>2. /\ proc'[i].pc \in WorkingPcs \cup {"drain", "none"}
        /\ proc'[i].pc \in ProcessPcs => proc'[i].kind = "build"
    BY <2>1 DEF OInv, WorkersOwn, ProcessPcs, NoProcess
  <2>3. ASSUME Working(i)' PROVE HeldBy(proc[i].task, proc[i].pod)'
    <3>1. proc'[i] = proc[i] /\ HeldBy(proc[i].task, proc[i].pod)
      BY <1>3, <2>3 DEF OInv, WorkersOwn
    <3> QED
      BY <1>1, <3>1 DEF HeldBy, Owner
  <2> QED
    BY <2>2, <2>3
<1>7. OneWorker'
  BY <1>3 DEF OInv, OneWorker
<1>8. LaunchesHold'
  BY <1>1, <1>3, <1>4 DEF OInv, LaunchesHold, LaunchRow, HeldBy, Owner
<1> QED
  BY <1>5, <1>6, <1>7, <1>8 DEF OInv, CrashesOnly

\* A replica comes back, with nothing in flight on it.
LEMMA RestartOInv ==
    ASSUME OInv, SInv', NEW p \in Pods, Restart(p)
    PROVE  OInv'
<1>1. AInv /\ ~Up(p) /\ UNCHANGED <<row, proc, specStarts, launch>>
  BY DEF OInv, SInv, Restart, Up, storeVars
<1>2. \A q \in Pods \ {p} : boot'[q] = boot[q]
  BY <1>1 DEF Restart, AInv, AgentTypeOK
<1>3. /\ \A i \in ProcIds : Working(i) => proc[i].pod # p
      /\ \A t \in Jobs : launch[t].pc # "none" => launch[t].pod # p
  BY <1>1, WorkerFacts, LaunchedUntracked
<1>4. Calm' /\ OneWorker'
  BY <1>1 DEF OInv, Calm, OneWorker, Working
<1>5. WorkersOwn'
  <2> SUFFICES ASSUME NEW i \in ProcIds, Working(i)
               PROVE  HeldBy(proc[i].task, proc[i].pod)'
    BY <1>1 DEF OInv, WorkersOwn, Working
  <2>1. /\ proc[i].pod \in Pods \ {p} /\ proc[i].task \in Jobs
        /\ HeldBy(proc[i].task, proc[i].pod)
    BY <1>3, WorkerFacts
  <2> QED
    BY <1>1, <1>2, <2>1 DEF HeldBy, Owner
<1>6. LaunchesHold'
  <2> SUFFICES ASSUME NEW t \in Jobs, launch[t].pc # "none"
               PROVE  /\ LaunchRow(t)'
                      /\ \A i \in ProcIds : Working(i)' => proc'[i].task # t
    BY <1>1 DEF LaunchesHold, LaunchRow
  <2>1. launch[t].pod \in Pods \ {p} /\ LaunchRow(t)
    BY <1>3, LaunchedUntracked
  <2>2. LaunchRow(t)'
    BY <1>1, <1>2, <2>1 DEF LaunchRow, HeldBy, Owner
  <2> QED
    BY <1>1, <2>2, LaunchedUntracked DEF Working
<1> QED
  BY <1>4, <1>5, <1>6 DEF OInv, CrashesOnly

-----------------------------------------------------------------------------
(* Every step, and what follows *)

\* The initial state: no row, nothing in flight.
LEMMA InitOInv == CrashesOnly /\ Init => OInv
<1> SUFFICES ASSUME CrashesOnly, Init PROVE OInv
  OBVIOUS
<1>1. SInv
  BY InitSInv DEF CrashesOnly, NoStops
<1>2. /\ \A t \in Jobs : launch[t].pc = "none"
      /\ \A i \in ProcIds : proc[i].pc = "none"
      /\ \A p \in Pods, t \in Jobs : specStarts[p][t] = 0
  BY DEF Init, NoLaunch, NoProcess
<1>3. Calm
  BY <1>2 DEF Calm
<1>4. WorkersOwn /\ OneWorker
  BY <1>2 DEF WorkersOwn, OneWorker, Working, WorkingPcs, ProcessPcs
<1>5. LaunchesHold
  BY <1>2 DEF LaunchesHold, LaunchRow
<1> QED
  BY <1>1, <1>3, <1>4, <1>5 DEF OInv

\* What the environment does not do, and nothing left over from it.
LEMMA CalmSteps ==
    ASSUME OInv
    PROVE  /\ \A p \in Pods, t \in Jobs :
                 /\ ~StartSpec(p, t) /\ ~SpawnSpec(p, t) /\ ~SpecRaises(p, t)
                 /\ ~StopBegin(p, t) /\ ~StopSignalsServer(p, t) /\ ~StopQueued(p, t)
           /\ \A t \in Jobs : ~StopStep(t)
           /\ \A i \in ProcIds : /\ ~UnwatchedExit(i) /\ ~MonitorRaises(i) /\ ~AutoStart(i)
                                 /\ ~DeferToStop(i) /\ ~AutoStartFailed(i)
<1>1. SInv /\ "spec" \notin Features /\ "monitor-error" \notin Features
  BY DEF OInv, CrashesOnly
<1>2. \A p \in Pods, t \in Jobs :
         ~StartSpec(p, t) /\ ~SpawnSpec(p, t) /\ ~SpecRaises(p, t)
  <2> SUFFICES ASSUME NEW p \in Pods, NEW t \in Jobs
               PROVE  ~StartSpec(p, t) /\ ~SpawnSpec(p, t) /\ ~SpecRaises(p, t)
    OBVIOUS
  <2>1. ~(specStarts[p][t] > 0)
    BY DEF OInv, Calm
  <2> QED
    BY <1>1, <2>1 DEF StartSpec, SpawnSpec, SpecRaises
<1>3. \A i \in ProcIds : /\ ~UnwatchedExit(i) /\ ~MonitorRaises(i)
                         /\ ~AutoStart(i) /\ ~AutoStartFailed(i)
  <2> SUFFICES ASSUME NEW i \in ProcIds
               PROVE  /\ ~UnwatchedExit(i) /\ ~MonitorRaises(i)
                      /\ ~AutoStart(i) /\ ~AutoStartFailed(i)
    OBVIOUS
  <2>1. proc[i].pc # "unwatched"
    BY DEF OInv, WorkersOwn, WorkingPcs
  <2>2. proc[i].pc \in {"watch", "handle", "startFailed"} => proc[i].kind = "build"
    BY DEF OInv, WorkersOwn, ProcessPcs
  <2>3. ~UnwatchedExit(i) /\ ~MonitorRaises(i)
    BY <1>1, <2>1 DEF UnwatchedExit, MonitorRaises, At
  <2>4. ~AutoStart(i) /\ ~AutoStartFailed(i)
    BY <2>2 DEF AutoStart, AutoStartFailed, Exited, At
  <2> QED
    BY <2>3, <2>4
<1> QED
  BY <1>1, <1>2, <1>3, NothingStops

\* Every step keeps the invariant.
LEMMA NextOInv == OInv /\ [Next]_vars => OInv'
<1> SUFFICES ASSUME OInv, [Next]_vars PROVE OInv'
  OBVIOUS
<1>1. SInv'
  BY NextSInv DEF OInv
<1>2. CASE UNCHANGED vars
  <2>1. UNCHANGED <<row, boot, launch, specStarts, proc>>
    BY <1>2 DEF vars, storeVars, serviceVars
  <2> QED
    BY <1>1, <2>1 DEF OInv, CrashesOnly, Calm, WorkersOwn, OneWorker, LaunchesHold, LaunchRow,
       Working, HeldBy, Owner
<1>3. CASE \E p \in Pods, t \in Jobs : \/ StartTask(p, t) \/ StartSpec(p, t)
                                       \/ StopBegin(p, t) \/ StopSignalsServer(p, t)
                                       \/ StopQueued(p, t)
                                       \/ SpawnSpec(p, t) \/ SpecRaises(p, t)
  <2>1. PICK p \in Pods, t \in Jobs : StartTask(p, t)
    BY <1>3, CalmSteps
  <2> QED
    BY <1>1, <2>1, StartTaskOInv
<1>4. CASE \E t \in Jobs : LaunchStep(t) \/ LaunchRaises(t) \/ StopStep(t)
  <2>1. PICK t \in Jobs : LaunchStep(t) \/ LaunchRaises(t)
    BY <1>4, CalmSteps
  <2> QED
    BY <1>1, <2>1, LaunchOInv
<1>5. CASE \E i \in ProcIds : \/ ProcExit(i) \/ UnwatchedExit(i)
                              \/ MonitorRaises(i) \/ MonitorStep(i)
  <2>1. PICK i \in ProcIds : ProcExit(i) \/ MonitorStep(i)
    BY <1>5, CalmSteps
  <2>2. CASE ProcExit(i) \/ RetryDecide(i) \/ RetryUnavailable(i)
    BY <1>1, <2>2, WatchOInv
  <2>3. CASE RetrySpawn(i)
    BY <1>1, <2>3, RetrySpawnOInv
  <2>4. CASE ParkForReview(i) \/ AutoContinue(i) \/ Complete(i) \/ Cleanup(i)
    BY <1>1, <2>4, EndOInv
  <2>5. CASE RestartTask(i) \/ ExitCheck(i)
    BY <1>1, <2>5, ReturnOInv
  <2>6. CASE FreeSlot(i)
    BY <1>1, <2>6, FreeSlotOInv
  <2>7. CASE MonitorDrain(i)
    BY <1>1, <2>7, MonitorDrainOInv
  <2> QED
    BY <2>1, <2>2, <2>3, <2>4, <2>5, <2>6, <2>7, CalmSteps DEF MonitorStep
<1>6. CASE \E p \in Pods : Crash(p) \/ ScaleIn(p) \/ ReconcileStep(p)
  <2>1. PICK p \in Pods : Crash(p) \/ ScaleIn(p) \/ ReconcileStep(p)
    BY <1>6
  <2>2. CASE Crash(p) \/ ScaleIn(p)
    <3>1. PICK x \in {"down", "gone"} : /\ LoseReplica(p) /\ pod' = [pod EXCEPT ![p] = x]
                                        /\ UNCHANGED boot
      BY <2>2 DEF Crash, ScaleIn
    <3> QED
      BY <1>1, <3>1, LoseReplicaOInv
  <2>3. CASE ReconcileStep(p)
    BY <1>1, <2>3, RestartOInv, ReconcileDrainOInv, ReapOInv DEF ReconcileStep
  <2> QED
    BY <2>1, <2>2, <2>3
<1> QED
  BY <1>2, <1>3, <1>4, <1>5, <1>6 DEF Next

\* The invariant holds.
LEMMA OInvHolds == CrashesOnly /\ Spec => []OInv
<1>1. CrashesOnly /\ Init => OInv
  BY InitOInv
<1> QED
  BY <1>1, NextOInv, PTL DEF Spec

\* The monitor of a live build process has not freed its slot.
LEMMA LiveAreWorkers ==
    ASSUME OInv, NEW i \in LiveBuilds
    PROVE  i \in ProcIds /\ Working(i)
BY DEF LiveBuilds, Alive, OInv, WorkersOwn, Working, WorkingPcs

\* A claim precedes its process and outlives it: while a build process is
\* alive, its row is running and stamped with the pod and boot that run it, so
\* no admission, drain or reaper of another replica takes its slot.
THEOREM LiveBuildsOwned == CrashesOnly /\ Spec => []LiveBuildOwned
<1>1. OInv => LiveBuildOwned
  BY LiveAreWorkers, WorkerFacts DEF LiveBuildOwned
<1> QED
  BY <1>1, OInvHolds, PTL

\* The live build processes of all replicas together stay within
\* MAX_CONCURRENT_TASKS, and no task is built twice at the same time: live
\* processes inject into running rows, whose number the store bounds.
THEOREM LiveBuildsCapped == CrashesOnly /\ Spec => []LiveBuildsWithinCap
<1>1. OInv /\ AdmissionCap => LiveBuildsWithinCap
  <2> SUFFICES ASSUME OInv, AdmissionCap PROVE LiveBuildsWithinCap
    OBVIOUS
  <2>1. \A i, k \in LiveBuilds : proc[i].task = proc[k].task => i = k
    BY LiveAreWorkers DEF OInv, OneWorker
  <2>2. \A i \in LiveBuilds : proc[i].task \in Running
    BY LiveAreWorkers, WorkerFacts DEF Running
  <2> DEFINE f == [i \in LiveBuilds |-> proc[i].task]
  <2>3. f \in Injection(LiveBuilds, Running)
    BY <2>1, <2>2 DEF Injection, IsInjective
  <2>4. Cardinality(LiveBuilds) <= Cardinality(Running)
    BY <2>3, RunningFinite, FS_Injection
  <2>5. IsFiniteSet(LiveBuilds)
    BY <2>3, RunningFinite, FS_Injection
  <2>6. Cardinality(LiveBuilds) \in Nat /\ Cardinality(Running) \in Nat
    BY <2>5, RunningFinite, FS_CardinalityType
  <2>7. Cap > 0 => Cardinality(LiveBuilds) <= Cap
    BY <2>4, <2>6, CapInt DEF AdmissionCap
  <2> QED
    BY <2>1, <2>7 DEF LiveBuildsWithinCap
<1> QED
  BY <1>1, OInvHolds, SupervisorCap, PTL
=============================================================================
