------------------------- MODULE SlotService_proofs -------------------------
(***************************************************************************)
(* Nobody abandons a claimed slot: theorems about the build supervisor in  *)
(* every environment without user stops.  Spec creations (also two of one  *)
(* task at a time), monitors that raise beside a living process, failing   *)
(* launches, retries, crashes and scale-ins are all allowed, for any       *)
(* tasks, replicas, cap and bounds.                                        *)
(*                                                                         *)
(* In these environments a row may be ended under a live build, and a task *)
(* may have several monitors, so the argument cannot count them.  It says  *)
(* where a monitor is while running_tasks names its process (Tracked), so  *)
(* that one that finds its task tracked may leave the slot to another; who *)
(* frees a claimed slot (ServedSlots); and that no row is stamped with a   *)
(* boot that has not happened yet (StampedInPast), so that a restarted     *)
(* replica never inherits a claim of its past.                             *)
(***************************************************************************)
EXTENDS AgentService_proofs

\* What the environment does not do: nobody stops a task.
NoStops == "stop" \notin Features

\* No stop is in flight or has left a flag.
Undisturbed ==
    /\ \A t \in Jobs : stop[t] = NoStop
    /\ \A p \in Pods : taskStopped[p] = {}

\* Where a monitor is while its process is in running_tasks.
TrackedPcs == {"watch", "handle", "retrying", "cleanup"}

Tracked ==
    \A p \in Pods, t \in Jobs :
        runningTasks[p][t] # 0 =>
            /\ runningTasks[p][t] \in ProcIds
            /\ proc[runningTasks[p][t]].pc \in TrackedPcs
            /\ proc[runningTasks[p][t]].task = t
            /\ proc[runningTasks[p][t]].pod = p

StampedInPast ==
    \A t \in Jobs, p \in Pods, b \in Boots : row[t].owner = <<p, b>> => b <= boot[p]

\* A monitor that has not written the terminal state of its task yet.
AtWork(i) == proc[i].pc \notin {"none", "drain", "unwatched"}
MonitorOf(i, t, p) == AtWork(i) /\ proc[i].task = t /\ proc[i].pod = p
Launching(t, p) == launch[t].pc \in {"claimed", "spawning", "failed"} /\ launch[t].pod = p

ServedSlots ==
    \A t \in Jobs, p \in Pods :
        Up(p) /\ HeldBy(t, p) => Launching(t, p) \/ \E i \in ProcIds : MonitorOf(i, t, p)

SInv == NoStops /\ AInv /\ Undisturbed /\ Tracked /\ StampedInPast /\ ServedSlots

-----------------------------------------------------------------------------
(* What the invariant says of one monitor and one row *)

\* The rows and boots that a step leaves alone are held as before.
LEMMA HeldKept ==
    ASSUME UNCHANGED boot
    PROVE  \A t, p : row'[t] = row[t] => HeldBy(t, p)' = HeldBy(t, p)
BY DEF HeldBy, Owner

\* Only a replica's identity is a stamp.
LEMMA NoOwnerUnstamped == \A p \in Pods, b \in Boots : NoOwner # <<p, b>>
BY NoOwnerFresh, OwnersAreBoots

\* Whoever is in flight is of a task, on a replica.
LEMMA MonitorFacts ==
    ASSUME SInv, NEW i \in ProcIds, proc[i].pc # "none"
    PROVE  AInv /\ proc[i] \in ProcRecord /\ proc[i].pod \in Pods /\ proc[i].task \in Jobs
           /\ Up(proc[i].pod)
<1>1. AInv /\ proc[i] \in ProcRecord
  BY InFlight DEF SInv
<1>2. proc[i].pod \in Pods /\ proc[i].task \in Jobs
  BY <1>1, ProcFields
<1> QED
  BY <1>1, <1>2 DEF AInv, OnUpPods

\* What running_tasks names is a monitor at work on that task.
LEMMA TrackedAtWork ==
    ASSUME SInv, NEW p \in Pods, NEW t \in Jobs, runningTasks[p][t] # 0
    PROVE  /\ runningTasks[p][t] \in ProcIds /\ MonitorOf(runningTasks[p][t], t, p)
           /\ proc[runningTasks[p][t]].pc \in TrackedPcs
BY DEF SInv, Tracked, MonitorOf, AtWork, TrackedPcs

\* A terminal write ends the row of its task and touches no other; the stamp stays.
LEMMA TerminalRow ==
    ASSUME StoreTypeOK, NEW t \in Jobs, NEW s \in {"done", "review", "failed"},
           NEW err \in BOOLEAN, MarkTerminal(t, s, err)
    PROVE  /\ row'[t].state # "running" /\ row'[t].owner = row[t].owner
           /\ \A u \in Jobs \ {t} : row'[u] = row[u]
<1>1. row \in [Jobs -> Row] /\ row[t] \in Row
  BY DEF StoreTypeOK
<1>2. CASE row[t].state = "absent"
  BY <1>2 DEF MarkTerminal
<1>3. CASE row[t].state # "absent"
  <2>1. EndedRow(row[t], s, err).state = s /\ EndedRow(row[t], s, err).owner = row[t].owner
    BY <1>1 DEF EndedRow, Row
  <2>2. row' = [row EXCEPT ![t] = EndedRow(row[t], s, err)]
    BY <1>3 DEF MarkTerminal
  <2> QED
    BY <1>1, <2>1, <2>2
<1> QED
  BY <1>2, <1>3

-----------------------------------------------------------------------------
(* Shapes of steps *)

\* A monitor at work moves to another place of its work.
LEMMA MonitorGoes ==
    ASSUME SInv, AInv', NEW i \in ProcIds, AtWork(i),
           NEW R \in ProcRecord, R.pc \notin {"none", "drain", "unwatched"},
           R.task = proc[i].task, R.pod = proc[i].pod,
           proc' = [proc EXCEPT ![i] = R],
           UNCHANGED <<row, boot, pod, launch, stop, taskStopped>>,
           \A p \in Pods, t \in Jobs : runningTasks'[p][t] \in {0, runningTasks[p][t]},
           \/ R.pc \in TrackedPcs \/ proc[i].pc \notin TrackedPcs
           \/ runningTasks'[proc[i].pod][proc[i].task] = 0
    PROVE  SInv'
<1>0. AInv
  BY DEF SInv
<1>1. \A k \in ProcIds : proc'[k] = IF k = i THEN R ELSE proc[k]
  BY <1>0, InFlight
<1>2. \A k \in ProcIds : \A t, p : MonitorOf(k, t, p)' = MonitorOf(k, t, p)
  BY <1>1 DEF MonitorOf, AtWork
<1>3. \A t, p : HeldBy(t, p)' = HeldBy(t, p) /\ Launching(t, p)' = Launching(t, p)
  BY HeldKept DEF Launching
<1>4. Undisturbed' /\ StampedInPast'
  BY DEF SInv, Undisturbed, StampedInPast
<1>5. Tracked'
  <2> SUFFICES ASSUME NEW p \in Pods, NEW t \in Jobs, runningTasks'[p][t] # 0
               PROVE  /\ runningTasks'[p][t] \in ProcIds
                      /\ proc'[runningTasks'[p][t]].pc \in TrackedPcs
                      /\ proc'[runningTasks'[p][t]].task = t
                      /\ proc'[runningTasks'[p][t]].pod = p
    BY DEF Tracked
  <2>1. runningTasks'[p][t] = runningTasks[p][t]
    OBVIOUS
  <2> QED
    BY <1>1, <2>1 DEF SInv, Tracked
<1>6. ServedSlots'
  <2> SUFFICES ASSUME NEW t \in Jobs, NEW p \in Pods, Up(p)', HeldBy(t, p)'
               PROVE  Launching(t, p)' \/ \E k \in ProcIds : MonitorOf(k, t, p)'
    BY DEF ServedSlots
  <2>1. Up(p) /\ HeldBy(t, p)
    BY <1>3 DEF Up
  <2> QED
    BY <1>2, <1>3, <2>1 DEF SInv, ServedSlots
<1> QED
  BY <1>4, <1>5, <1>6 DEF SInv, NoStops

\* A monitor of task t appears on replica p; the task's others there may leave
\* the slot to it.
LEMMA Newcomer ==
    ASSUME SInv, AInv', NEW t \in Jobs, NEW p \in Pods,
           NEW k \in ProcIds, proc[k].pc = "none", MonitorOf(k, t, p)',
           \A j \in ProcIds \ {k} :
              proc'[j] = proc[j] \/ (proc[j].task = t /\ proc[j].pod = p),
           runningTasks'[p][t] = 0 \/ (runningTasks'[p][t] = k /\ proc'[k].pc \in TrackedPcs),
           \A q \in Pods, u \in Jobs : q # p \/ u # t => runningTasks'[q][u] = runningTasks[q][u],
           \A u \in Jobs : launch'[u] = launch[u] \/ (u = t /\ launch[u].pod = p),
           UNCHANGED <<row, boot, pod, stop, taskStopped>>
    PROVE  SInv'
<1>1. \A u, q : HeldBy(u, q)' = HeldBy(u, q)
  BY HeldKept
<1>2. Undisturbed' /\ StampedInPast'
  BY DEF SInv, Undisturbed, StampedInPast
<1>3. Tracked'
  <2> SUFFICES ASSUME NEW q \in Pods, NEW u \in Jobs, runningTasks'[q][u] # 0
               PROVE  /\ runningTasks'[q][u] \in ProcIds
                      /\ proc'[runningTasks'[q][u]].pc \in TrackedPcs
                      /\ proc'[runningTasks'[q][u]].task = u
                      /\ proc'[runningTasks'[q][u]].pod = q
    BY DEF Tracked
  <2>1. CASE q = p /\ u = t
    BY <2>1 DEF MonitorOf
  <2>2. CASE q # p \/ u # t
    <3>1. runningTasks'[q][u] = runningTasks[q][u]
      BY <2>2
    <3>2. /\ runningTasks[q][u] \in ProcIds /\ proc[runningTasks[q][u]].pc \in TrackedPcs
          /\ proc[runningTasks[q][u]].task = u /\ proc[runningTasks[q][u]].pod = q
      BY <3>1 DEF SInv, Tracked
    <3>3. runningTasks[q][u] # k
      BY <3>2 DEF TrackedPcs
    <3>4. proc'[runningTasks[q][u]] = proc[runningTasks[q][u]]
      BY <2>2, <3>2, <3>3
    <3> QED
      BY <3>1, <3>2, <3>4
  <2> QED
    BY <2>1, <2>2
<1>4. ServedSlots'
  <2> SUFFICES ASSUME NEW u \in Jobs, NEW q \in Pods, Up(q)', HeldBy(u, q)'
               PROVE  Launching(u, q)' \/ \E i \in ProcIds : MonitorOf(i, u, q)'
    BY DEF ServedSlots
  <2>1. Up(q) /\ HeldBy(u, q)
    BY <1>1 DEF Up
  <2>2. CASE u = t /\ q = p
    BY <2>2
  <2>3. CASE u # t \/ q # p
    <3>1. CASE Launching(u, q)
      BY <2>3, <3>1 DEF Launching
    <3>2. CASE \E i \in ProcIds : MonitorOf(i, u, q)
      <4>1. PICK i \in ProcIds : MonitorOf(i, u, q)
        BY <3>2
      <4>2. i # k
        BY <4>1 DEF MonitorOf, AtWork
      <4>3. proc'[i] = proc[i]
        BY <2>3, <4>1, <4>2 DEF MonitorOf
      <4> QED
        BY <4>1, <4>3 DEF MonitorOf, AtWork
    <3> QED
      BY <2>1, <3>1, <3>2 DEF SInv, ServedSlots
  <2> QED
    BY <2>2, <2>3
<1> QED
  BY <1>2, <1>3, <1>4 DEF SInv, NoStops

\* Rows and launches change, and monitors that nothing tracks: a slot that is
\* held afterwards is being launched, or was held and keeps whoever serves it.
LEMMA RowsMove ==
    ASSUME SInv, AInv',
           \A i \in ProcIds : proc'[i] = proc[i] \/ proc[i].pc \notin TrackedPcs,
           \A t \in Jobs, p \in Pods :
              HeldBy(t, p)' => \/ Launching(t, p)'
                               \/ /\ HeldBy(t, p)
                                  /\ Launching(t, p) => Launching(t, p)'
                                  /\ \A i \in ProcIds : MonitorOf(i, t, p) => MonitorOf(i, t, p)',
           \A t \in Jobs : row'[t].owner = row[t].owner \/ row'[t].owner = NoOwner
                           \/ \E p \in Pods : row'[t].owner = Owner(p),
           UNCHANGED <<runningTasks, boot, pod, stop, taskStopped>>
    PROVE  SInv'
<1>1. Undisturbed'
  BY DEF SInv, Undisturbed
<1>2. Tracked'
  <2> SUFFICES ASSUME NEW p \in Pods, NEW t \in Jobs, runningTasks[p][t] # 0
               PROVE  /\ runningTasks[p][t] \in ProcIds
                      /\ proc'[runningTasks[p][t]].pc \in TrackedPcs
                      /\ proc'[runningTasks[p][t]].task = t
                      /\ proc'[runningTasks[p][t]].pod = p
    BY DEF Tracked
  <2> QED
    BY DEF SInv, Tracked
<1>3. StampedInPast'
  <2> SUFFICES ASSUME NEW t \in Jobs, NEW p \in Pods, NEW b \in Boots, row'[t].owner = <<p, b>>
               PROVE  b <= boot[p]
    BY DEF StampedInPast
  <2>1. CASE row'[t].owner = row[t].owner
    BY <2>1 DEF SInv, StampedInPast
  <2>2. CASE row'[t].owner = NoOwner
    BY <2>2, NoOwnerUnstamped
  <2>3. CASE \E q \in Pods : row'[t].owner = Owner(q)
    <3>1. b = boot[p] /\ b \in Nat
      BY <2>3, Bounds DEF Owner, Boots
    <3> QED
      BY <3>1
  <2> QED
    BY <2>1, <2>2, <2>3
<1>4. ServedSlots'
  <2> SUFFICES ASSUME NEW t \in Jobs, NEW p \in Pods, Up(p)', HeldBy(t, p)', ~Launching(t, p)'
               PROVE  \E i \in ProcIds : MonitorOf(i, t, p)'
    BY DEF ServedSlots
  <2>1. /\ Up(p) /\ HeldBy(t, p) /\ ~Launching(t, p)
        /\ \A i \in ProcIds : MonitorOf(i, t, p) => MonitorOf(i, t, p)'
    BY DEF Up
  <2> QED
    BY <2>1 DEF SInv, ServedSlots
<1> QED
  BY <1>1, <1>2, <1>3, <1>4 DEF SInv, NoStops

\* What happens to one task: its row, its launch, and monitors of its own that
\* nothing tracks.
LEMMA TaskMoves ==
    ASSUME SInv, AInv', NEW t \in Jobs,
           \A u \in Jobs \ {t} : row'[u] = row[u] /\ launch'[u] = launch[u],
           \A i \in ProcIds :
              proc'[i] = proc[i] \/ (proc[i].pc \notin TrackedPcs /\ proc[i].task = t),
           \A p \in Pods : HeldBy(t, p)' => Launching(t, p)',
           row'[t].owner = row[t].owner \/ row'[t].owner = NoOwner
                           \/ \E p \in Pods : row'[t].owner = Owner(p),
           UNCHANGED <<runningTasks, boot, pod, stop, taskStopped>>
    PROVE  SInv'
<1>1. \A u \in Jobs \ {t}, p \in Pods :
         /\ HeldBy(u, p)' = HeldBy(u, p) /\ Launching(u, p)' = Launching(u, p)
         /\ \A i \in ProcIds : MonitorOf(i, u, p) => MonitorOf(i, u, p)'
  <2> SUFFICES ASSUME NEW u \in Jobs \ {t}, NEW p \in Pods
               PROVE  /\ HeldBy(u, p)' = HeldBy(u, p) /\ Launching(u, p)' = Launching(u, p)
                      /\ \A i \in ProcIds : MonitorOf(i, u, p) => MonitorOf(i, u, p)'
    OBVIOUS
  <2>1. HeldBy(u, p)' = HeldBy(u, p) /\ Launching(u, p)' = Launching(u, p)
    BY HeldKept DEF Launching
  <2>2. \A i \in ProcIds : MonitorOf(i, u, p) => MonitorOf(i, u, p)'
    BY DEF MonitorOf, AtWork
  <2> QED
    BY <2>1, <2>2
<1>2. \A u \in Jobs, p \in Pods :
         HeldBy(u, p)' => \/ Launching(u, p)'
                          \/ /\ HeldBy(u, p)
                             /\ Launching(u, p) => Launching(u, p)'
                             /\ \A i \in ProcIds : MonitorOf(i, u, p) => MonitorOf(i, u, p)'
  BY <1>1
<1>3. \A u \in Jobs : row'[u].owner = row[u].owner \/ row'[u].owner = NoOwner
                      \/ \E p \in Pods : row'[u].owner = Owner(p)
  OBVIOUS
<1>4. \A i \in ProcIds : proc'[i] = proc[i] \/ proc[i].pc \notin TrackedPcs
  OBVIOUS
<1> QED
  BY <1>2, <1>3, <1>4, RowsMove

-----------------------------------------------------------------------------
(* Monitors *)

\* A monitor keeps its process: the exit of the process, the retry decision.
LEMMA WatchSInv ==
    ASSUME SInv, AInv', NEW i \in ProcIds,
           ProcExit(i) \/ RetryDecide(i) \/ RetryUnavailable(i)
    PROVE  SInv'
<1>1. /\ proc[i].pc \in {"watch", "retrying"} /\ AtWork(i) /\ proc[i].pc \in ProcessPcs
      /\ UNCHANGED <<row, boot, pod, launch, stop, taskStopped, runningTasks>>
  BY DEF ProcExit, RetryDecide, RetryUnavailable, At, AtWork, ProcessPcs, storeVars
<1>2. AInv /\ proc[i] \in Process
  BY <1>1, InFlight, ProcFields DEF SInv
<1>3. \E R \in ProcRecord : /\ R.pc \in TrackedPcs /\ R.pod = proc[i].pod
                            /\ R.task = proc[i].task /\ proc' = [proc EXCEPT ![i] = R]
  <2>1. CASE ProcExit(i)
    <3>1. PICK c \in {0, 1} : \E l \in LeftBy(proc[i].kind, c) : proc' = Dead(i, c, l)
      BY <2>1, Zenon DEF ProcExit, Dead
    <3>2. PICK l \in LeftBy(proc[i].kind, c) : proc' = Dead(i, c, l)
      BY <3>1
    <3>3. l \in Leftovers
      BY <3>2, LeftByType
    <3>4. PICK R \in ProcRecord :
             /\ R.pc = proc[i].pc /\ R.pod = proc[i].pod /\ R.task = proc[i].task
             /\ R.kind = proc[i].kind /\ R.live = FALSE
             /\ Dead(i, c, l) = [proc EXCEPT ![i] = R]
      BY <1>2, <3>3, DeathShape, Zenon
    <3> QED
      BY <1>1, <3>2, <3>4 DEF TrackedPcs
  <2>2. CASE RetryDecide(i) \/ RetryUnavailable(i)
    BY <1>1, <1>2, <2>2, GotoShape DEF RetryDecide, RetryUnavailable, TrackedPcs, ProcessPcs
  <2> QED
    BY <2>1, <2>2
<1> QED
  BY <1>1, <1>3, MonitorGoes DEF TrackedPcs

\* What Forget does to the tracking.
LEMMA Forgets ==
    ASSUME SInv, NEW i \in ProcIds, AtWork(i), Forget(proc[i].pod, proc[i].task)
    PROVE  /\ \A p \in Pods, t \in Jobs : runningTasks'[p][t] \in {0, runningTasks[p][t]}
           /\ runningTasks'[proc[i].pod][proc[i].task] = 0
           /\ \A p \in Pods, t \in Jobs : p # proc[i].pod \/ t # proc[i].task
                                            => runningTasks'[p][t] = runningTasks[p][t]
<1>1. proc[i].pod \in Pods /\ proc[i].task \in Jobs /\ AInv
  BY MonitorFacts DEF AtWork
<1> QED
  BY <1>1, ForgetType

\* A monitor whose process is over goes on without it: review, start of the
\* build, continuation, clean-up.
LEMMA ForgettingSInv ==
    ASSUME SInv, AInv', NEW i \in ProcIds,
           ParkForReview(i) \/ AutoStart(i) \/ AutoContinue(i) \/ Cleanup(i)
    PROVE  SInv'
<1>1. /\ proc[i].pc \in {"watch", "handle", "cleanup"} /\ AtWork(i) /\ AInv
      /\ Forget(proc[i].pod, proc[i].task)
      /\ UNCHANGED <<row, boot, pod, launch, stop, taskStopped>>
  BY DEF ParkForReview, AutoStart, AutoContinue, Cleanup, Ending, Exited, At, AtWork,
         storeVars, SInv
<1>2. /\ \A p \in Pods, t \in Jobs : runningTasks'[p][t] \in {0, runningTasks[p][t]}
      /\ runningTasks'[proc[i].pod][proc[i].task] = 0
  BY <1>1, Forgets
<1>3. \E R \in ProcRecord : /\ R.pc \in {"exit", "restart", "free"} /\ R.pod = proc[i].pod
                            /\ R.task = proc[i].task /\ proc' = [proc EXCEPT ![i] = R]
  <2>1. CASE ParkForReview(i)
    BY <1>1, <2>1, LeaveShape DEF ParkForReview, LeavingPcs
  <2>2. CASE AutoStart(i)
    BY <1>1, <2>2, GotoShape DEF AutoStart, ProcessPcs, Exited
  <2>3. CASE AutoContinue(i)
    BY <1>1, <2>3, GotoShape DEF AutoContinue, ProcessPcs, Exited, Ending
  <2>4. CASE Cleanup(i)
    <3> DEFINE tracked == runningTasks'[proc[i].pod]
    <3>1. proc' = Return(i, tracked) /\ tracked[proc[i].task] = 0
      BY <1>2, <2>4 DEF Cleanup
    <3> HIDE DEF tracked
    <3> QED
      BY <1>1, <3>1, ReturnShape
  <2> QED
    BY <2>1, <2>2, <2>3, <2>4
<1> QED
  BY <1>1, <1>2, <1>3, MonitorGoes

\* The final status is written; a failed start of a build goes on to it.
LEMMA RecordingSInv ==
    ASSUME SInv, AInv', NEW i \in ProcIds, AutoStartFailed(i) \/ Complete(i)
    PROVE  SInv'
<1>1. /\ proc[i].pc \in {"watch", "handle", "startFailed"} /\ AtWork(i) /\ AInv
      /\ UNCHANGED <<row, boot, pod, launch, stop, taskStopped, runningTasks>>
  BY DEF AutoStartFailed, Complete, Ending, Exited, At, AtWork, storeVars, SInv
<1>2. CASE Complete(i)
  <2>1. \E R \in ProcRecord : /\ R.pc = "cleanup" /\ R.pod = proc[i].pod
                              /\ R.task = proc[i].task /\ proc' = [proc EXCEPT ![i] = R]
    BY <1>1, <1>2, LeaveShape DEF Complete, LeavingPcs
  <2> QED
    BY <1>1, <2>1, MonitorGoes DEF TrackedPcs
<1>3. CASE AutoStartFailed(i)
  <2>1. proc[i].pc = "startFailed"
    BY <1>3 DEF AutoStartFailed, At
  <2>2. \E R \in ProcRecord : /\ R.pc = "exit" /\ R.pod = proc[i].pod
                              /\ R.task = proc[i].task /\ proc' = [proc EXCEPT ![i] = R]
    BY <1>1, <1>3, LeaveShape DEF AutoStartFailed, LeavingPcs
  <2> QED
    BY <1>1, <2>1, <2>2, MonitorGoes DEF TrackedPcs
<1> QED
  BY <1>2, <1>3

\* A monitor that has returned decides the outcome, or finds its task tracked:
\* then somebody else is at work on it.
LEMMA ExitCheckSInv ==
    ASSUME SInv, AInv', NEW i \in ProcIds, ExitCheck(i)
    PROVE  SInv'
<1>1. /\ proc[i].pc = "exit" /\ AtWork(i) /\ AInv
      /\ proc' = Return(i, runningTasks[proc[i].pod])
      /\ UNCHANGED <<row, boot, pod, launch, stop, taskStopped, runningTasks>>
  BY DEF ExitCheck, At, AtWork, storeVars, SInv
<1>2. PICK p \in Pods, t \in Jobs : p = proc[i].pod /\ t = proc[i].task
  BY <1>1, MonitorFacts
<1> DEFINE tracked == runningTasks[p]
<1>3. PICK R \in ProcRecord :
         /\ R.pod = p /\ R.task = t /\ R.pc = IF tracked[t] # 0 THEN "drain" ELSE "free"
         /\ proc' = [proc EXCEPT ![i] = R]
  <2>1. proc' = Return(i, tracked)
    BY <1>1, <1>2
  <2> HIDE DEF tracked
  <2> QED
    BY <1>1, <1>2, <2>1, ReturnShape
<1>4. CASE tracked[t] = 0
  BY <1>1, <1>2, <1>3, <1>4, MonitorGoes DEF TrackedPcs
<1>5. CASE tracked[t] # 0
  <2>1. PICK k \in ProcIds : MonitorOf(k, t, p) /\ k # i
    BY <1>1, <1>2, <1>5, TrackedAtWork DEF TrackedPcs
  <2>2. \A j \in ProcIds : proc'[j] = IF j = i THEN R ELSE proc[j]
    BY <1>1, <1>3, InFlight
  <2>3. MonitorOf(k, t, p)'
    BY <2>1, <2>2 DEF MonitorOf, AtWork
  <2>4. Undisturbed' /\ StampedInPast'
    BY <1>1 DEF SInv, Undisturbed, StampedInPast
  <2>5. Tracked'
    <3> SUFFICES ASSUME NEW q \in Pods, NEW u \in Jobs, runningTasks[q][u] # 0
                 PROVE  /\ runningTasks[q][u] \in ProcIds
                        /\ proc'[runningTasks[q][u]].pc \in TrackedPcs
                        /\ proc'[runningTasks[q][u]].task = u
                        /\ proc'[runningTasks[q][u]].pod = q
      BY <1>1 DEF Tracked
    <3>1. runningTasks[q][u] # i
      BY <1>1, TrackedAtWork DEF TrackedPcs
    <3> QED
      BY <2>2, <3>1 DEF SInv, Tracked
  <2>6. ServedSlots'
    <3> SUFFICES ASSUME NEW u \in Jobs, NEW q \in Pods, Up(q)', HeldBy(u, q)',
                        ~Launching(u, q)'
                 PROVE  \E j \in ProcIds : MonitorOf(j, u, q)'
      BY DEF ServedSlots
    <3>1. Up(q) /\ HeldBy(u, q) /\ ~Launching(u, q)
      BY <1>1, HeldKept DEF Up, Launching
    <3>2. PICK j \in ProcIds : MonitorOf(j, u, q)
      BY <3>1 DEF SInv, ServedSlots
    <3>3. CASE j = i
      BY <1>2, <2>3, <3>2, <3>3 DEF MonitorOf
    <3>4. CASE j # i
      BY <2>2, <3>2, <3>4 DEF MonitorOf, AtWork
    <3> QED
      BY <3>3, <3>4
  <2> QED
    BY <2>4, <2>5, <2>6 DEF SInv, NoStops
<1> QED
  BY <1>4, <1>5

\* The retry's process takes the tracking over; its predecessor leaves.
LEMMA RetrySpawnSInv ==
    ASSUME SInv, AInv', NEW i \in ProcIds, RetrySpawn(i)
    PROVE  SInv'
<1>1. /\ proc[i].pc = "retrying" /\ AInv
      /\ UNCHANGED <<row, boot, pod, launch, stop, taskStopped>>
  BY DEF RetrySpawn, At, storeVars, SInv
<1>2. PICK p \in Pods, t \in Jobs : p = proc[i].pod /\ t = proc[i].task
  BY <1>1, MonitorFacts
<1> DEFINE N == NewProcess(p, t, proc[i].kind, FALSE)
<1>3. PICK k \in ProcIds : /\ proc[k].pc = "none"
                           /\ proc' = [Leave(i, "drain") EXCEPT ![k] = N]
                           /\ runningTasks' = [runningTasks EXCEPT ![p][t] = k]
  BY <1>2 DEF RetrySpawn, FreeProc
<1>4. N.pc = "watch" /\ N.pod = p /\ N.task = t
  BY DEF NewProcess
<1> HIDE DEF N
<1>5. PICK R \in ProcRecord : Leave(i, "drain") = [proc EXCEPT ![i] = R]
  BY <1>1, LeaveShape DEF LeavingPcs
<1>6. \A j \in ProcIds : proc'[j] = IF j = k THEN N ELSE IF j = i THEN R ELSE proc[j]
  BY <1>1, <1>3, <1>5, InFlight
<1>7. MonitorOf(k, t, p)' /\ proc'[k].pc \in TrackedPcs
  BY <1>4, <1>6 DEF MonitorOf, AtWork, TrackedPcs
<1>8. \A j \in ProcIds \ {k} : proc'[j] = proc[j] \/ (proc[j].task = t /\ proc[j].pod = p)
  BY <1>2, <1>6
<1>9. /\ runningTasks'[p][t] = k
      /\ \A q \in Pods, u \in Jobs : q # p \/ u # t => runningTasks'[q][u] = runningTasks[q][u]
  BY <1>1, <1>2, <1>3, MemoryKept
<1> QED
  BY <1>1, <1>3, <1>7, <1>8, <1>9, Newcomer

\* The monitor raises; beside a process that is alive its exit path goes on
\* from a slot of its own.
LEMMA MonitorRaisesSInv ==
    ASSUME SInv, AInv', NEW i \in ProcIds, MonitorRaises(i)
    PROVE  SInv'
<1>1. /\ proc[i].pc \in {"watch", "handle"} /\ proc[i].pc \in ProcessPcs /\ AtWork(i)
      /\ Forget(proc[i].pod, proc[i].task) /\ AInv
      /\ UNCHANGED <<row, boot, pod, launch, stop, taskStopped>>
  BY DEF MonitorRaises, At, Exited, AtWork, ProcessPcs, storeVars, SInv
<1>2. PICK p \in Pods, t \in Jobs : p = proc[i].pod /\ t = proc[i].task
  BY <1>1, MonitorFacts
<1>3. /\ \A q \in Pods, u \in Jobs : runningTasks'[q][u] \in {0, runningTasks[q][u]}
      /\ runningTasks'[p][t] = 0
      /\ \A q \in Pods, u \in Jobs : q # p \/ u # t => runningTasks'[q][u] = runningTasks[q][u]
  BY <1>1, <1>2, Forgets
<1>4. PICK R \in ProcRecord : /\ R.pc = "exit" /\ R.pod = p /\ R.task = t
                              /\ Leave(i, "exit") = [proc EXCEPT ![i] = R]
  BY <1>1, <1>2, LeaveShape DEF LeavingPcs
<1>5. CASE proc' = Leave(i, "exit")
  BY <1>1, <1>2, <1>3, <1>4, <1>5, MonitorGoes
<1>6. CASE \E k \in ProcIds :
             FreeProc(k) /\ proc' = [Goto(i, "unwatched") EXCEPT ![k] = Leave(i, "exit")[i]]
  <2>1. PICK k \in ProcIds :
          /\ proc[k].pc = "none"
          /\ proc' = [Goto(i, "unwatched") EXCEPT ![k] = Leave(i, "exit")[i]]
    BY <1>6 DEF FreeProc
  <2>2. PICK Q \in ProcRecord : Goto(i, "unwatched") = [proc EXCEPT ![i] = Q]
    BY <1>1, GotoShape DEF ProcessPcs
  <2>3. Leave(i, "exit")[i] = R
    BY <1>1, <1>4, InFlight
  <2>4. \A j \in ProcIds : proc'[j] = IF j = k THEN R ELSE IF j = i THEN Q ELSE proc[j]
    BY <1>1, <2>1, <2>2, <2>3, InFlight
  <2>5. MonitorOf(k, t, p)'
    BY <1>4, <2>4 DEF MonitorOf, AtWork
  <2>6. \A j \in ProcIds \ {k} : proc'[j] = proc[j] \/ (proc[j].task = t /\ proc[j].pod = p)
    BY <1>2, <2>4
  <2> QED
    BY <1>1, <1>3, <2>1, <2>5, <2>6, Newcomer
<1> QED
  BY <1>5, <1>6 DEF MonitorRaises

\* A process nobody watches serves no slot.
LEMMA UnwatchedExitSInv ==
    ASSUME SInv, AInv', NEW i \in ProcIds, UnwatchedExit(i)
    PROVE  SInv'
<1>1. /\ proc[i].pc = "unwatched" /\ AInv /\ proc' = [proc EXCEPT ![i] = NoProcess]
      /\ UNCHANGED <<row, boot, pod, launch, stop, taskStopped, runningTasks>>
  BY DEF UnwatchedExit, At, storeVars, SInv
<1>2. \A j \in ProcIds : j # i => proc'[j] = proc[j]
  BY <1>1, InFlight
<1>3. \A j \in ProcIds, t \in Jobs, p \in Pods : MonitorOf(j, t, p) => MonitorOf(j, t, p)'
  BY <1>1, <1>2 DEF MonitorOf, AtWork
<1>4. \A t \in Jobs, p \in Pods :
         HeldBy(t, p)' = HeldBy(t, p) /\ Launching(t, p)' = Launching(t, p)
  BY <1>1, HeldKept DEF Launching
<1>5. \A j \in ProcIds : proc'[j] = proc[j] \/ proc[j].pc \notin TrackedPcs
  BY <1>1, <1>2 DEF TrackedPcs
<1> QED
  BY <1>1, <1>3, <1>4, <1>5, RowsMove

\* A monitor writes the terminal state of its task: nobody holds the slot then.
LEMMA FreeSlotSInv ==
    ASSUME SInv, AInv', NEW i \in ProcIds, FreeSlot(i)
    PROVE  SInv'
<1>0. proc[i].pc = "free" /\ AInv
  BY DEF FreeSlot, At, SInv
<1>1. PICK t \in Jobs : t = proc[i].task
  BY <1>0, MonitorFacts
<1>2. /\ row'[t].state # "running" /\ row'[t].owner = row[t].owner
      /\ \A u \in Jobs \ {t} : row'[u] = row[u]
  BY <1>0, <1>1, InFlight, ProcFields, TerminalRow DEF FreeSlot
<1>3. UNCHANGED <<boot, pod, launch, stop, taskStopped, runningTasks>>
  BY DEF FreeSlot
<1>4. \A j \in ProcIds : j # i => proc'[j] = proc[j]
  BY <1>0, InFlight DEF FreeSlot, Leave
<1>5. \A j \in ProcIds : proc'[j] = proc[j] \/ (proc[j].pc \notin TrackedPcs /\ proc[j].task = t)
  BY <1>0, <1>1, <1>4 DEF TrackedPcs
<1>6. \A p \in Pods : ~HeldBy(t, p)'
  BY <1>2 DEF HeldBy
<1> QED
  BY <1>2, <1>3, <1>5, <1>6, TaskMoves

\* What an admission makes of a task: a row nobody holds, and a launch that has
\* claimed nothing yet.
LEMMA Admitted ==
    ASSUME AInv, NEW p \in Pods, NEW t \in Jobs, NEW b \in 0..MaxProcs, AdmitFor(p, t, b)
    PROVE  /\ \A u \in Jobs \ {t} : row'[u] = row[u] /\ launch'[u] = launch[u]
           /\ row'[t].owner = NoOwner /\ row'[t].kind # "subprocess"
<1>1. row \in [Jobs -> Row]
  BY InFlight DEF StoreTypeOK
<1>2. row' = [row EXCEPT ![t] = AdmittedRow(HasFreeSlot)]
  BY DEF AdmitFor, Admit
<1>3. row'[t] = AdmittedRow(HasFreeSlot) /\ \A u \in Jobs \ {t} : row'[u] = row[u]
  BY <1>1, <1>2
<1>4. \A u \in Jobs \ {t} : launch'[u] = launch[u]
  BY AdmitForType, InFlight
<1> QED
  BY <1>3, <1>4 DEF AdmittedRow

\* A user starts a build.
LEMMA StartTaskSInv ==
    ASSUME SInv, AInv', NEW p \in Pods, NEW t \in Jobs, StartTask(p, t)
    PROVE  SInv'
<1>1. /\ AInv /\ AdmitFor(p, t, 0) /\ 0 \in 0..MaxProcs
      /\ UNCHANGED <<boot, pod, stop, taskStopped, runningTasks, proc>>
  BY Bounds DEF StartTask, SInv
<1>2. /\ \A u \in Jobs \ {t} : row'[u] = row[u] /\ launch'[u] = launch[u]
      /\ row'[t].owner = NoOwner /\ row'[t].kind # "subprocess"
  BY <1>1, Admitted
<1>3. \A q \in Pods : ~HeldBy(t, q)'
  BY <1>2 DEF HeldBy
<1> QED
  BY <1>1, <1>2, <1>3, TaskMoves

\* A monitor restarts its own task: refused while the row is active, else the
\* new row is nobody's and the monitor waits or leaves.
LEMMA RestartTaskSInv ==
    ASSUME SInv, AInv', NEW i \in ProcIds, RestartTask(i)
    PROVE  SInv'
<1>1. /\ proc[i].pc = "restart" /\ AtWork(i) /\ AInv
      /\ UNCHANGED <<boot, pod, stop, taskStopped, runningTasks>>
  BY DEF RestartTask, At, AtWork, SInv
<1>2. PICK p \in Pods, t \in Jobs : p = proc[i].pod /\ t = proc[i].task
  BY <1>1, MonitorFacts
<1>3. CASE proc' = Goto(i, "startFailed") /\ UNCHANGED <<storeVars, launch>>
  <2>1. PICK R \in ProcRecord : /\ R.pc = "startFailed" /\ R.pod = proc[i].pod
                                /\ R.task = proc[i].task /\ proc' = [proc EXCEPT ![i] = R]
    BY <1>1, <1>3, GotoShape DEF ProcessPcs
  <2>2. UNCHANGED <<row, launch>> /\ proc[i].pc \notin TrackedPcs
    BY <1>1, <1>3 DEF storeVars, TrackedPcs
  <2> QED
    BY <1>1, <2>1, <2>2, MonitorGoes
<1>4. CASE AdmitFor(p, t, i) /\ proc' = IF HasFreeSlot THEN Goto(i, "starting") ELSE Leave(i, "exit")
  <2>1. i \in 0..MaxProcs
    BY Bounds DEF ProcIds
  <2>2. /\ \A u \in Jobs \ {t} : row'[u] = row[u] /\ launch'[u] = launch[u]
        /\ row'[t].owner = NoOwner /\ row'[t].kind # "subprocess"
    BY <1>1, <1>4, <2>1, Admitted
  <2>3. \A q \in Pods : ~HeldBy(t, q)'
    BY <2>2 DEF HeldBy
  <2>4. \A j \in ProcIds : j # i => proc'[j] = proc[j]
    BY <1>1, <1>4, InFlight DEF Goto, Leave
  <2>5. \A j \in ProcIds : proc'[j] = proc[j]
                           \/ (proc[j].pc \notin TrackedPcs /\ proc[j].task = t)
    BY <1>1, <1>2, <2>4 DEF TrackedPcs
  <2> QED
    BY <1>1, <2>2, <2>3, <2>5, TaskMoves
<1> QED
  BY <1>2, <1>3, <1>4 DEF RestartTask

-----------------------------------------------------------------------------
(* Launches *)

\* A claim: whoever holds the row now is the replica that launches it.
LEMMA ClaimSInv ==
    ASSUME SInv, AInv', NEW t \in Jobs, Claim(t)
    PROVE  SInv'
<1>1. /\ launch[t].pc \in {"granted", "promoted"} /\ AInv
      /\ MarkRunning(t, Owner(launch[t].pod))
      /\ launch' = [launch EXCEPT ![t].pc = "claimed"]
      /\ UNCHANGED <<boot, pod, stop, taskStopped, runningTasks, proc>>
  BY DEF Claim, SInv
<1>2. PICK p \in Pods : p = launch[t].pod
  BY <1>1, InFlight, LaunchFields
<1>3. /\ launch'[t].pc = "claimed" /\ launch'[t].pod = p
      /\ \A u \in Jobs \ {t} : launch'[u] = launch[u]
  <2>1. launch[t] \in Launch
    BY <1>1, InFlight, LaunchFields
  <2> DEFINE L == [launch[t] EXCEPT !.pc = "claimed"]
  <2>2. L.pc = "claimed" /\ L.pod = launch[t].pod
    BY <2>1, LaunchMoves
  <2>3. launch' = [launch EXCEPT ![t] = L]
    BY <1>1
  <2> HIDE DEF L
  <2> QED
    BY <1>1, <1>2, <2>2, <2>3, InFlight
<1>4. row \in [Jobs -> Row]
  BY <1>1, InFlight DEF StoreTypeOK
<1>5. CASE row[t].state # "running"
  <2>1. row' = row
    BY <1>1, <1>5 DEF MarkRunning
  <2>2. \A q \in Pods : ~HeldBy(t, q)'
    BY <1>5, <2>1 DEF HeldBy
  <2> QED
    BY <1>1, <1>3, <2>1, <2>2, TaskMoves
<1>6. CASE row[t].state = "running"
  <2> DEFINE r == [row[t] EXCEPT !.kind = "subprocess", !.owner = Owner(p)]
  <2>1. row' = [row EXCEPT ![t] = r]
    BY <1>1, <1>2, <1>6 DEF MarkRunning
  <2>2. r.owner = Owner(p)
    BY <1>4 DEF Row
  <2> HIDE DEF r
  <2>3. row'[t].owner = Owner(p) /\ \A u \in Jobs \ {t} : row'[u] = row[u]
    BY <1>4, <2>1, <2>2
  <2>4. \A q \in Pods : HeldBy(t, q)' => q = p
    BY <1>1, <2>3 DEF HeldBy, Owner
  <2>5. Launching(t, p)'
    BY <1>3 DEF Launching
  <2> QED
    BY <1>1, <1>3, <2>3, <2>4, <2>5, TaskMoves
<1> QED
  BY <1>5, <1>6

\* A launch that moves on still serves the slot it has claimed; one that a drain
\* drops has claimed nothing.
LEMMA LaunchMovesSInv ==
    ASSUME SInv, AInv', NEW t \in Jobs,
           SkipPromoted(t) \/ SpawnBegin(t) \/ SpawnRefused(t) \/ LaunchRaises(t)
    PROVE  SInv'
<1>1. UNCHANGED <<row, boot, pod, stop, taskStopped, runningTasks, proc>> /\ AInv
  BY DEF SkipPromoted, SpawnBegin, SpawnRefused, LaunchRaises, storeVars, SInv
<1>2. launch[t] \in Launch /\ launch = [u \in Jobs |-> launch[u]]
  BY <1>1, InFlight, LaunchFields DEF SkipPromoted, SpawnBegin, SpawnRefused, LaunchRaises
<1>3. \A p \in Pods : Launching(t, p) => Launching(t, p)'
  <2>1. CASE SkipPromoted(t)
    BY <2>1 DEF SkipPromoted, Launching
  <2>2. ASSUME NEW x \in {"spawning", "failed"}, launch' = [launch EXCEPT ![t].pc = x]
        PROVE  \A p \in Pods : Launching(t, p) => Launching(t, p)'
    <3> DEFINE L == [launch[t] EXCEPT !.pc = x]
    <3>1. L.pc = x /\ L.pod = launch[t].pod
      BY <1>2, LaunchMoves
    <3>2. launch' = [launch EXCEPT ![t] = L]
      BY <2>2
    <3> HIDE DEF L
    <3>3. launch'[t] = L
      BY <1>2, <3>2
    <3> QED
      BY <3>1, <3>3 DEF Launching
  <2> QED
    BY <2>1, <2>2 DEF SpawnBegin, SpawnRefused, LaunchRaises
<1>4. \A u \in Jobs \ {t} : launch'[u] = launch[u]
  BY <1>2 DEF SkipPromoted, SpawnBegin, SpawnRefused, LaunchRaises
<1>5. \A u \in Jobs, p \in Pods : Launching(u, p) => Launching(u, p)'
  BY <1>3, <1>4 DEF Launching
<1>6. \A u \in Jobs, p \in Pods :
         /\ HeldBy(u, p)' = HeldBy(u, p)
         /\ \A i \in ProcIds : MonitorOf(i, u, p)' = MonitorOf(i, u, p)
  BY <1>1, HeldKept DEF MonitorOf, AtWork
<1>7. \A u \in Jobs : row'[u].owner = row[u].owner
  BY <1>1
<1>8. \A i \in ProcIds : proc'[i] = proc[i]
  BY <1>1
<1> QED
  BY <1>1, <1>5, <1>6, <1>7, <1>8, RowsMove

\* The process of a launch and its monitor take the slot over; a monitor that
\* waited for them goes on.
LEMMA SpawnSInv ==
    ASSUME SInv, AInv', NEW t \in Jobs, Spawn(t)
    PROVE  SInv'
<1>1. /\ launch[t].pc = "spawning" /\ AInv
      /\ launch' = [launch EXCEPT ![t] = NoLaunch]
      /\ UNCHANGED <<row, boot, pod, stop, taskStopped>>
  BY DEF Spawn, storeVars, SInv
<1>2. PICK p \in Pods, by \in 0..MaxProcs : p = launch[t].pod /\ by = launch[t].by
  BY <1>1, InFlight, LaunchFields
<1> DEFINE N == NewProcess(p, t, "build", TRUE)
<1>3. PICK i \in ProcIds :
         /\ proc[i].pc = "none"
         /\ proc' = [k \in ProcIds |-> IF k = i THEN N
                                       ELSE IF k = by THEN Leave(k, "exit")[k]
                                       ELSE proc[k]]
         /\ runningTasks' = [runningTasks EXCEPT ![p][t] = i]
  BY <1>2 DEF Spawn, FreeProc
<1>4. N.pc = "watch" /\ N.pod = p /\ N.task = t
  BY DEF NewProcess
<1> HIDE DEF N
<1>5. by \in ProcIds => proc[by].task = t /\ proc[by].pod = p
  <2> SUFFICES ASSUME by \in ProcIds PROVE proc[by].task = t /\ proc[by].pod = p
    OBVIOUS
  <2>1. by # 0
    BY Bounds DEF ProcIds
  <2> QED
    BY <1>1, <1>2, <2>1 DEF AInv, Starters
<1>6. \A j \in ProcIds \ {i} : proc'[j] = proc[j] \/ (proc[j].task = t /\ proc[j].pod = p)
  BY <1>3, <1>5
<1>7. MonitorOf(i, t, p)' /\ proc'[i].pc \in TrackedPcs
  BY <1>3, <1>4 DEF MonitorOf, AtWork, TrackedPcs
<1>8. /\ runningTasks'[p][t] = i
      /\ \A q \in Pods, u \in Jobs : q # p \/ u # t => runningTasks'[q][u] = runningTasks[q][u]
  BY <1>1, <1>3, MemoryKept
<1>9. \A u \in Jobs : launch'[u] = launch[u] \/ (u = t /\ launch[u].pod = p)
  BY <1>1, <1>2, InFlight
<1> QED
  BY <1>1, <1>3, <1>6, <1>7, <1>8, <1>9, Newcomer

\* A failed launch ends the row it had; the waiting monitor is one of its task.
LEMMA LaunchFailedSInv ==
    ASSUME SInv, AInv', NEW t \in Jobs, LaunchFailed(t)
    PROVE  SInv'
<1>1. /\ launch[t].pc = "failed" /\ AInv /\ StoreTypeOK /\ MarkTerminal(t, "failed", TRUE)
      /\ launch' = [launch EXCEPT ![t] = NoLaunch]
      /\ UNCHANGED <<boot, pod, stop, taskStopped, runningTasks>>
  BY InFlight DEF LaunchFailed, SInv
<1>2. /\ row'[t].state # "running" /\ row'[t].owner = row[t].owner
      /\ \A u \in Jobs \ {t} : row'[u] = row[u]
  BY <1>1, TerminalRow
<1>3. \A u \in Jobs \ {t} : launch'[u] = launch[u]
  BY <1>1, InFlight
<1>4. \A q \in Pods : ~HeldBy(t, q)'
  BY <1>2 DEF HeldBy
<1>5. \A k \in ProcIds : \/ proc'[k] = proc[k]
                         \/ proc[k].pc \notin TrackedPcs /\ proc[k].task = t
  <2> SUFFICES ASSUME NEW k \in ProcIds, proc'[k] # proc[k]
               PROVE  proc[k].pc \notin TrackedPcs /\ proc[k].task = t
    OBVIOUS
  <2>1. k = launch[t].by /\ k # 0
    BY Bounds DEF LaunchFailed, ProcIds
  <2> QED
    BY <1>1, <2>1 DEF AInv, Starters, TrackedPcs
<1> QED
  BY <1>1, <1>2, <1>3, <1>4, <1>5, TaskMoves

-----------------------------------------------------------------------------
(* Drains, the reaper and spec creation *)

\* A drain promotes queued rows, which nobody holds.
LEMMA DrainSInv ==
    ASSUME SInv, AInv', NEW p \in Pods, DrainFrom(p),
           UNCHANGED <<boot, pod, stop, taskStopped, runningTasks>>,
           \A i \in ProcIds : proc'[i] = proc[i] \/ proc[i].pc = "drain"
    PROVE  SInv'
<1>1. AInv /\ row \in [Jobs -> Row]
  BY InFlight DEF SInv, StoreTypeOK
<1>2. PICK S \in SUBSET Queued :
         /\ Drain(S)
         /\ launch' = [t \in Jobs |-> IF t \in S THEN [pc |-> "promoted", pod |-> p, by |-> 0]
                                                 ELSE launch[t]]
  BY DEF DrainFrom
<1>3. \A t \in Jobs \ S : row'[t] = row[t] /\ launch'[t] = launch[t]
  BY <1>2 DEF Drain
<1>4. \A t \in Jobs \cap S : row'[t].kind = "pending" /\ row'[t].owner = NoOwner
  <2> SUFFICES ASSUME NEW t \in Jobs, t \in S
               PROVE  row'[t].kind = "pending" /\ row'[t].owner = NoOwner
    OBVIOUS
  <2>1. row'[t] = [row[t] EXCEPT !.state = "running", !.kind = "pending", !.owner = NoOwner]
    BY <1>2 DEF Drain
  <2> QED
    BY <1>1, <2>1 DEF Row
<1>5. \A i \in ProcIds : \A t, q : MonitorOf(i, t, q) => MonitorOf(i, t, q)'
  BY DEF MonitorOf, AtWork
<1>6. \A t \in Jobs, q \in Pods :
         HeldBy(t, q)' => \/ Launching(t, q)'
                          \/ /\ HeldBy(t, q)
                             /\ Launching(t, q) => Launching(t, q)'
                             /\ \A i \in ProcIds : MonitorOf(i, t, q) => MonitorOf(i, t, q)'
  <2> SUFFICES ASSUME NEW t \in Jobs, NEW q \in Pods, HeldBy(t, q)'
               PROVE  HeldBy(t, q) /\ (Launching(t, q) => Launching(t, q)')
    BY <1>5
  <2>1. t \notin S
    BY <1>4 DEF HeldBy
  <2> QED
    BY <1>3, <2>1, HeldKept DEF Launching
<1>7. \A t \in Jobs : row'[t].owner = row[t].owner \/ row'[t].owner = NoOwner
  BY <1>3, <1>4
<1>8. \A i \in ProcIds : proc'[i] = proc[i] \/ proc[i].pc \notin TrackedPcs
  BY DEF TrackedPcs
<1> QED
  BY <1>6, <1>7, <1>8, RowsMove

\* A monitor's last step: its process is in no replica's tracking any more.
LEMMA MonitorDrainSInv ==
    ASSUME SInv, AInv', NEW i \in ProcIds, MonitorDrain(i)
    PROVE  SInv'
<1>1. /\ proc[i].pc = "drain" /\ AInv /\ DrainFrom(proc[i].pod)
      /\ UNCHANGED <<boot, pod, stop, taskStopped>>
      /\ proc' = [proc EXCEPT ![i] = NoProcess] /\ runningTasks' = Retire(i)
  BY DEF MonitorDrain, At, SInv
<1>2. proc[i].pod \in Pods
  BY <1>1, MonitorFacts
<1>3. \A p \in Pods, t \in Jobs : runningTasks[p][t] # i
  <2> SUFFICES ASSUME NEW p \in Pods, NEW t \in Jobs, runningTasks[p][t] = i PROVE FALSE
    OBVIOUS
  <2>1. i # 0
    BY DEF ProcIds
  <2> QED
    BY <1>1, <2>1, TrackedAtWork DEF TrackedPcs
<1>4. runningTasks' = runningTasks
  <2>1. runningTasks \in [Pods -> [Jobs -> 0..Unmonitored]]
    BY <1>1, MemoryKept
  <2>2. \A p \in Pods : [t \in Jobs |-> IF runningTasks[p][t] = i THEN Unmonitored
                                                               ELSE runningTasks[p][t]]
                        = runningTasks[p]
    BY <1>3, <2>1
  <2> QED
    BY <1>1, <2>1, <2>2 DEF Retire
<1>5. \A k \in ProcIds : proc'[k] = proc[k] \/ proc[k].pc = "drain"
  BY <1>1, InFlight
<1> QED
  BY <1>1, <1>2, <1>4, <1>5, DrainSInv

\* The drain of a reconcile.
LEMMA ReconcileDrainSInv ==
    ASSUME SInv, AInv', NEW p \in Pods, ReconcileDrain(p)
    PROVE  SInv'
BY DrainSInv DEF ReconcileDrain

\* The reaper ends rows, and gives none to anybody.
LEMMA ReapSInv ==
    ASSUME SInv, AInv', NEW p \in Pods, NEW t \in Jobs, Reap(p, t)
    PROVE  SInv'
<1>1. /\ AInv /\ row \in [Jobs -> Row]
      /\ UNCHANGED <<boot, pod, stop, taskStopped, runningTasks, proc, launch>>
  BY InFlight DEF SInv, StoreTypeOK, Reap
<1> DEFINE r == [row[t] EXCEPT !.state = "failed", !.error = TRUE, !.ended = TRUE]
<1>2. row' = [row EXCEPT ![t] = r]
  BY DEF Reap, FailSubprocessRow
<1>3. r.state = "failed" /\ r.owner = row[t].owner
  BY <1>1 DEF Row
<1> HIDE DEF r
<1>4. /\ row'[t].state = "failed" /\ row'[t].owner = row[t].owner
      /\ \A u \in Jobs \ {t} : row'[u] = row[u]
  BY <1>1, <1>2, <1>3
<1>5. \A q \in Pods : ~HeldBy(t, q)'
  BY <1>4 DEF HeldBy
<1> QED
  BY <1>1, <1>4, <1>5, TaskMoves

\* A spec creation starts or its spawn raises: no monitor, no row, no launch.
LEMMA SpecStartSInv ==
    ASSUME SInv, AInv', NEW p \in Pods, NEW t \in Jobs, StartSpec(p, t) \/ SpecRaises(p, t)
    PROVE  SInv'
<1>1. UNCHANGED <<row, boot, pod, stop, taskStopped, runningTasks, proc, launch>>
  BY DEF StartSpec, SpecRaises, storeVars
<1> QED
  BY <1>1 DEF SInv, NoStops, Undisturbed, Tracked, StampedInPast, ServedSlots, MonitorOf,
     AtWork, Launching, HeldBy, Owner, Up

\* The process of a spec creation takes the task's tracking, whoever had it.
LEMMA SpawnSpecSInv ==
    ASSUME SInv, AInv', NEW p \in Pods, NEW t \in Jobs, SpawnSpec(p, t)
    PROVE  SInv'
<1> DEFINE N == NewProcess(p, t, "spec", TRUE)
<1>1. AInv /\ UNCHANGED <<row, boot, pod, stop, taskStopped, launch>>
  BY DEF SpawnSpec, storeVars, SInv
<1>2. PICK i \in ProcIds : /\ proc[i].pc = "none"
                           /\ proc' = [proc EXCEPT ![i] = N]
                           /\ runningTasks' = [runningTasks EXCEPT ![p][t] = i]
  BY DEF SpawnSpec, FreeProc
<1>3. N.pc = "watch" /\ N.pod = p /\ N.task = t
  BY DEF NewProcess
<1> HIDE DEF N
<1>4. \A k \in ProcIds : proc'[k] = IF k = i THEN N ELSE proc[k]
  BY <1>1, <1>2, InFlight
<1>5. MonitorOf(i, t, p)' /\ proc'[i].pc \in TrackedPcs
  BY <1>3, <1>4 DEF MonitorOf, AtWork, TrackedPcs
<1>6. /\ runningTasks'[p][t] = i
      /\ \A q \in Pods, u \in Jobs : q # p \/ u # t => runningTasks'[q][u] = runningTasks[q][u]
  BY <1>1, <1>2, MemoryKept
<1> QED
  BY <1>1, <1>2, <1>4, <1>5, <1>6, Newcomer

-----------------------------------------------------------------------------
(* Replicas *)

\* A replica dies: its monitors and launches are gone with it, and nobody else's.
LEMMA LoseReplicaSInv ==
    ASSUME SInv, AInv', NEW p \in Pods, LoseReplica(p), NEW x \in {"down", "gone"},
           pod' = [pod EXCEPT ![p] = x], UNCHANGED boot
    PROVE  SInv'
<1>1. AInv /\ UNCHANGED row
  BY DEF SInv, LoseReplica, RemoveQueuedAbort
<1>2. \A q \in Pods : Up(q)' => q # p /\ Up(q)
  BY <1>1 DEF Up, AInv, AgentTypeOK
<1>3. \A i \in ProcIds : proc[i].pod # p => proc'[i] = proc[i]
  BY DEF LoseReplica
<1>4. \A t \in Jobs : launch[t].pod # p => launch'[t] = launch[t]
  BY DEF LoseReplica
<1>5. \A q \in Pods, t \in Jobs : /\ runningTasks'[p][t] = 0
                                  /\ q # p => runningTasks'[q][t] = runningTasks[q][t]
  <2>1. runningTasks \in [Pods -> [Jobs -> 0..Unmonitored]]
    BY <1>1, MemoryKept
  <2> QED
    BY <2>1 DEF LoseReplica
<1>6. Undisturbed'
  <2>1. \A t \in Jobs : stop'[t] = NoStop
    BY DEF LoseReplica, SInv, Undisturbed
  <2>2. \A q \in Pods : taskStopped'[q] = {}
    BY <1>1 DEF LoseReplica, SInv, Undisturbed, AInv, AgentTypeOK
  <2> QED
    BY <2>1, <2>2 DEF Undisturbed
<1>7. StampedInPast'
  BY <1>1 DEF SInv, StampedInPast
<1>8. Tracked'
  <2> SUFFICES ASSUME NEW q \in Pods, NEW t \in Jobs, runningTasks'[q][t] # 0
               PROVE  /\ runningTasks'[q][t] \in ProcIds
                      /\ proc'[runningTasks'[q][t]].pc \in TrackedPcs
                      /\ proc'[runningTasks'[q][t]].task = t
                      /\ proc'[runningTasks'[q][t]].pod = q
    BY DEF Tracked
  <2>1. q # p /\ runningTasks'[q][t] = runningTasks[q][t]
    BY <1>5
  <2>2. /\ runningTasks[q][t] \in ProcIds /\ proc[runningTasks[q][t]].pc \in TrackedPcs
        /\ proc[runningTasks[q][t]].task = t /\ proc[runningTasks[q][t]].pod = q
    BY <2>1 DEF SInv, Tracked
  <2> QED
    BY <1>3, <2>1, <2>2
<1>9. ServedSlots'
  <2> SUFFICES ASSUME NEW t \in Jobs, NEW q \in Pods, Up(q)', HeldBy(t, q)'
               PROVE  Launching(t, q)' \/ \E i \in ProcIds : MonitorOf(i, t, q)'
    BY DEF ServedSlots
  <2>1. q # p /\ Up(q) /\ HeldBy(t, q)
    BY <1>1, <1>2, HeldKept
  <2>2. CASE Launching(t, q)
    BY <1>4, <2>1, <2>2 DEF Launching
  <2>3. CASE \E i \in ProcIds : MonitorOf(i, t, q)
    BY <1>3, <2>1, <2>3 DEF MonitorOf, AtWork
  <2> QED
    BY <2>1, <2>2, <2>3 DEF SInv, ServedSlots
<1> QED
  BY <1>6, <1>7, <1>8, <1>9 DEF SInv, NoStops

\* A replica comes back with a boot that no row is stamped with.
LEMMA RestartSInv ==
    ASSUME SInv, AInv', NEW p \in Pods, Restart(p)
    PROVE  SInv'
<1>1. /\ AInv /\ pod[p] = "down"
      /\ UNCHANGED <<row, proc, runningTasks, taskStopped, launch, stop>>
  BY DEF SInv, Restart, storeVars
<1>2. boot \in [Pods -> Boots] /\ boot[p] < MaxBoot
  BY <1>1 DEF AInv, AgentTypeOK, BootsLeft
<1>3. boot'[p] = boot[p] + 1 /\ \A q \in Pods \ {p} : boot'[q] = boot[q]
  <2> DEFINE n == boot[p] + 1
  <2>1. boot' = [boot EXCEPT ![p] = n]
    BY DEF Restart
  <2> HIDE DEF n
  <2>2. boot'[p] = n /\ \A q \in Pods \ {p} : boot'[q] = boot[q]
    BY <1>2, <2>1
  <2> QED
    BY <2>2 DEF n
<1>4. \A q \in Pods \ {p} : Up(q)' = Up(q)
  BY <1>1 DEF Restart, Up, AInv, AgentTypeOK
<1>5. \A t \in Jobs, q \in Pods \ {p} : HeldBy(t, q)' = HeldBy(t, q)
  BY <1>1, <1>3 DEF HeldBy, Owner
<1>6. boot[p] \in Nat /\ boot'[p] \in Boots
  BY <1>2, <1>3, Bounds DEF Boots
<1>7. \A t \in Jobs : ~HeldBy(t, p)'
  <2> SUFFICES ASSUME NEW t \in Jobs, row[t].owner = <<p, boot'[p]>> PROVE FALSE
    BY <1>1 DEF HeldBy, Owner
  <2>1. boot'[p] <= boot[p]
    BY <1>6 DEF SInv, StampedInPast
  <2> QED
    BY <1>3, <1>6, <2>1
<1>8. Undisturbed' /\ Tracked'
  BY <1>1 DEF SInv, Undisturbed, Tracked
<1>9. StampedInPast'
  <2> SUFFICES ASSUME NEW t \in Jobs, NEW q \in Pods, NEW b \in Boots, row[t].owner = <<q, b>>
               PROVE  b <= boot'[q]
    BY <1>1 DEF StampedInPast
  <2>1. b <= boot[q] /\ b \in Nat /\ boot[q] \in Nat
    BY <1>2, Bounds DEF SInv, StampedInPast, Boots
  <2> QED
    BY <1>3, <2>1
<1>10. ServedSlots'
  <2> SUFFICES ASSUME NEW t \in Jobs, NEW q \in Pods, Up(q)', HeldBy(t, q)'
               PROVE  Launching(t, q)' \/ \E i \in ProcIds : MonitorOf(i, t, q)'
    BY DEF ServedSlots
  <2>1. q # p
    BY <1>7
  <2>2. Up(q) /\ HeldBy(t, q)
    BY <1>4, <1>5, <2>1
  <2> QED
    BY <1>1, <2>2 DEF SInv, ServedSlots, Launching, MonitorOf, AtWork
<1> QED
  BY <1>8, <1>9, <1>10 DEF SInv, NoStops

-----------------------------------------------------------------------------
(* Every step, and what follows *)

\* The initial state: no row, nothing in flight.
LEMMA InitSInv == NoStops /\ Init => SInv
<1> SUFFICES ASSUME NoStops, Init PROVE SInv
  OBVIOUS
<1>1. AInv
  BY InitAInv
<1>2. Undisturbed /\ Tracked
  BY DEF Init, Undisturbed, Tracked
<1>3. \A t \in Jobs : row[t].state = "absent" /\ row[t].owner = NoOwner
  BY DEF Init, StoreInit, NoRow
<1>4. StampedInPast
  BY <1>3, NoOwnerUnstamped DEF StampedInPast
<1>5. ServedSlots
  BY <1>3 DEF ServedSlots, HeldBy
<1> QED
  BY <1>1, <1>2, <1>4, <1>5 DEF SInv

\* Nobody stops a task, and no flag of a stop is left over.
LEMMA NothingStops ==
    ASSUME SInv
    PROVE  /\ \A p \in Pods, t \in Jobs :
                 ~StopBegin(p, t) /\ ~StopSignalsServer(p, t) /\ ~StopQueued(p, t)
           /\ \A t \in Jobs : ~StopStep(t)
           /\ \A i \in ProcIds : ~DeferToStop(i)
<1>1. \A p \in Pods, t \in Jobs :
         ~StopBegin(p, t) /\ ~StopSignalsServer(p, t) /\ ~StopQueued(p, t)
  BY DEF SInv, NoStops, StopBegin, StopSignalsServer, StopQueued
<1>2. \A t \in Jobs : ~StopStep(t)
  <2> SUFFICES ASSUME NEW t \in Jobs PROVE ~StopStep(t)
    OBVIOUS
  <2>1. stop[t].pc = "none"
    BY DEF SInv, Undisturbed, NoStop
  <2> QED
    BY <2>1 DEF StopStep, StopCleanup, StopMark, StopDelete
<1>3. \A i \in ProcIds : ~DeferToStop(i)
  <2> SUFFICES ASSUME NEW i \in ProcIds, DeferToStop(i) PROVE FALSE
    OBVIOUS
  <2>1. proc[i].pc # "none" /\ proc[i].task \in taskStopped[proc[i].pod]
    BY DEF DeferToStop, Ending, Exited
  <2>2. proc[i].pod \in Pods
    BY <2>1, MonitorFacts
  <2> QED
    BY <2>1, <2>2 DEF SInv, Undisturbed
<1> QED
  BY <1>1, <1>2, <1>3

\* Every step keeps the invariant.
LEMMA NextSInv == SInv /\ [Next]_vars => SInv'
<1> SUFFICES ASSUME SInv, [Next]_vars PROVE SInv'
  OBVIOUS
<1>1. AInv'
  BY NextAInv DEF SInv
<1>2. CASE UNCHANGED vars
  <2>1. UNCHANGED <<row, boot, pod, launch, stop, taskStopped, runningTasks, proc>>
    BY <1>2 DEF vars, storeVars, serviceVars
  <2> QED
    BY <1>1, <2>1 DEF SInv, NoStops, Undisturbed, Tracked, StampedInPast, ServedSlots,
       MonitorOf, AtWork, Launching, HeldBy, Owner, Up
<1>3. CASE \E p \in Pods, t \in Jobs : \/ StartTask(p, t) \/ StartSpec(p, t)
                                       \/ StopBegin(p, t) \/ StopSignalsServer(p, t)
                                       \/ StopQueued(p, t)
                                       \/ SpawnSpec(p, t) \/ SpecRaises(p, t)
  <2>1. PICK p \in Pods, t \in Jobs :
           StartTask(p, t) \/ StartSpec(p, t) \/ SpawnSpec(p, t) \/ SpecRaises(p, t)
    BY <1>3, NothingStops
  <2> QED
    BY <1>1, <2>1, StartTaskSInv, SpecStartSInv, SpawnSpecSInv
<1>4. CASE \E t \in Jobs : LaunchStep(t) \/ LaunchRaises(t) \/ StopStep(t)
  BY <1>1, <1>4, NothingStops, ClaimSInv, LaunchMovesSInv, SpawnSInv, LaunchFailedSInv
     DEF LaunchStep
<1>5. CASE \E i \in ProcIds : \/ ProcExit(i) \/ UnwatchedExit(i)
                              \/ MonitorRaises(i) \/ MonitorStep(i)
  <2>1. PICK i \in ProcIds : ProcExit(i) \/ UnwatchedExit(i) \/ MonitorRaises(i) \/ MonitorStep(i)
    BY <1>5
  <2> QED
    BY <1>1, <2>1, NothingStops, WatchSInv, UnwatchedExitSInv, MonitorRaisesSInv,
       ForgettingSInv, RecordingSInv, ExitCheckSInv, RetrySpawnSInv, FreeSlotSInv,
       RestartTaskSInv, MonitorDrainSInv DEF MonitorStep
<1>6. CASE \E p \in Pods : Crash(p) \/ ScaleIn(p) \/ ReconcileStep(p)
  <2>1. PICK p \in Pods : Crash(p) \/ ScaleIn(p) \/ ReconcileStep(p)
    BY <1>6
  <2>2. CASE Crash(p) \/ ScaleIn(p)
    <3>1. PICK x \in {"down", "gone"} : /\ LoseReplica(p) /\ pod' = [pod EXCEPT ![p] = x]
                                        /\ UNCHANGED boot
      BY <2>2 DEF Crash, ScaleIn
    <3> QED
      BY <1>1, <3>1, LoseReplicaSInv
  <2>3. CASE ReconcileStep(p)
    BY <1>1, <2>3, RestartSInv, ReconcileDrainSInv, ReapSInv DEF ReconcileStep
  <2> QED
    BY <2>1, <2>2, <2>3
<1> QED
  BY <1>2, <1>3, <1>4, <1>5, <1>6 DEF Next

\* The invariant holds.
LEMMA SInvHolds == NoStops /\ Spec => []SInv
<1>1. NoStops /\ Init => SInv
  BY InitSInv
<1> QED
  BY <1>1, NextSInv, PTL DEF Spec

\* Every running_tasks entry names a process of that task, on that replica,
\* whose monitor has not finished, also when a second spec creation or a retry
\* has taken the entry over or a monitor has raised beside its living process.
THEOREM TrackedAreMonitored == NoStops /\ Spec => []TrackedProcessMonitored
<1>1. SInv => TrackedProcessMonitored
  <2> SUFFICES ASSUME SInv, NEW p \in Pods, NEW t \in Jobs, runningTasks[p][t] # 0
               PROVE  /\ runningTasks[p][t] # Unmonitored
                      /\ proc[runningTasks[p][t]].task = t /\ proc[runningTasks[p][t]].pod = p
    BY DEF TrackedProcessMonitored
  <2>1. runningTasks[p][t] \in 1..MaxProcs
    BY TrackedAtWork DEF ProcIds
  <2> QED
    BY <2>1, Bounds, TrackedAtWork DEF Unmonitored, MonitorOf
<1> QED
  BY <1>1, SInvHolds, PTL

\* A claimed slot of a replica that is up is never abandoned: a launch or a
\* monitor on that replica will still free it, whatever monitors raise, launches
\* fail and spec creations run beside the build.
THEOREM ClaimedSlotsServed == NoStops /\ Spec => []ClaimedSlotServed
<1>1. SInv => ClaimedSlotServed
  BY DEF SInv, ServedSlots, ClaimedSlotServed, Server, Launching, MonitorOf, AtWork
<1> QED
  BY <1>1, SInvHolds, PTL
=============================================================================
