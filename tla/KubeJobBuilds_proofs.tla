------------------------ MODULE KubeJobBuilds_proofs ------------------------
(***************************************************************************)
(* Theorems about builds that run as Kubernetes Jobs, for any tasks,       *)
(* replicas, Job names, credentials, cap and bounds.                       *)
(***************************************************************************)
EXTENDS KubeJobBuilds, JobStateStore_proofs, FunctionTheorems, WellFoundedInduction

-----------------------------------------------------------------------------
(* The credential pool *)

\* A number of naturals has a smallest one.
LEMMA LeastRank ==
    ASSUME NEW T, T \subseteq Nat, T # {}
    PROVE  \E x \in T : \A y \in T : x <= y
<1> DEFINE R == OpToRel(<, Nat)
<1>1. IsWellFoundedOn(R, Nat)
  BY NatLessThanWellFounded
<1>2. \A x, y \in Nat : x < y => <<x, y>> \in R
  BY DEF OpToRel
<1> HIDE DEF R
<1>3. PICK x \in T : \A y \in T : ~(<<y, x>> \in R)
  BY <1>1, WFMin
<1>4. \A y \in T : ~(y < x)
  BY <1>2, <1>3
<1> QED
  BY <1>4

\* There is a rank for every credential.
LEMMA RanksEnough == Injection(Creds, Ranks) # {} /\ Ranks \subseteq Nat
<1>1. Cardinality(Creds) \in Nat /\ ExistsBijection(Ranks, Creds)
  BY CredsFinite, FS_CardinalityType DEF Ranks
<1>2. PICK f : f \in Bijection(Ranks, Creds)
  BY <1>1 DEF ExistsBijection
<1>3. Inverse(f, Ranks, Creds) \in Bijection(Creds, Ranks)
  BY <1>2, Fun_BijInverse
<1> QED
  BY <1>1, <1>3 DEF Bijection, Ranks

\* What a pool is made of.
LEMMA PoolFields ==
    ASSUME NEW pl \in PoolState(Jobs)
    PROVE  /\ pl.checkedOut \in [Jobs -> Creds \cup {NoCred}]
           /\ pl.inUse \in [Creds -> Nat] /\ pl.recency \in [Creds -> Ranks]
           /\ \A c : Holders(pl, c) = {t \in Jobs : pl.checkedOut[t] = c}
           /\ \A c : IsFiniteSet(Holders(pl, c)) /\ Cardinality(Holders(pl, c)) \in Nat
<1>1. /\ pl.checkedOut \in [Jobs -> Creds \cup {NoCred}]
      /\ pl.inUse \in [Creds -> Nat] /\ pl.recency \in [Creds -> Ranks]
  BY DEF PoolState
<1>2. \A c : Holders(pl, c) = {t \in Jobs : pl.checkedOut[t] = c}
  BY <1>1 DEF Holders
<1>3. \A c : Holders(pl, c) \in SUBSET Jobs
  BY <1>2
<1>4. \A c : IsFiniteSet(Holders(pl, c))
  BY <1>3, JobsFinite, FS_Subset
<1> QED
  BY <1>1, <1>2, <1>4, FS_CardinalityType

\* A fresh pool counts nobody.
LEMMA NewPoolCounts == NewPool(Jobs) \in PoolState(Jobs) /\ CountsHolders(NewPool(Jobs))
<1> DEFINE rank == CHOOSE f \in Injection(Creds, Ranks) : TRUE
           pl == NewPool(Jobs)
<1>1. rank \in [Creds -> Ranks]
  BY RanksEnough DEF Injection
<1>2. pl = [checkedOut |-> [t \in Jobs |-> NoCred], inUse |-> [c \in Creds |-> 0],
            recency |-> rank]
  BY DEF NewPool
<1> HIDE DEF rank
<1>3. pl \in PoolState(Jobs)
  BY <1>1, <1>2 DEF PoolState
<1>4. \A c \in Creds : pl.inUse[c] = 0 /\ Holders(pl, c) = {}
  BY <1>2, CredsFinite DEF Holders
<1> HIDE DEF pl
<1>5. CountsHolders(pl)
  BY <1>4, FS_EmptySet DEF CountsHolders
<1> QED
  BY <1>3, <1>5 DEF pl

\* There is a credential to hand out, and the one that is handed out is one.
LEMMA ChoiceType ==
    ASSUME NEW pl \in PoolState(Jobs)
    PROVE  Choice(pl) \in Creds
<1> DEFINE S == Pickable(pl)
           T == {pl.recency[c] : c \in S}
<1>1. S \subseteq Creds /\ S # {}
  BY CredsFinite DEF Pickable, Free
<1>2. pl.recency \in [Creds -> Ranks] /\ Ranks \subseteq Nat
  BY PoolFields, RanksEnough
<1> HIDE DEF S
<1>3. T \subseteq Nat /\ T # {}
  BY <1>1, <1>2
<1>4. PICK x \in T : \A y \in T : x <= y
  BY <1>3, LeastRank
<1>5. \E c \in S : \A d \in S : pl.recency[c] <= pl.recency[d]
  BY <1>4
<1> QED
  BY <1>1, <1>5 DEF Choice, S

\* Ranks stay ranks.
LEMMA HandedType ==
    ASSUME NEW rank \in [Creds -> Ranks], NEW c \in Creds
    PROVE  Handed(rank, c) \in [Creds -> Ranks]
<1>1. Cardinality(Creds) \in Nat /\ Cardinality(Creds) # 0
  BY CredsFinite, FS_CardinalityType, FS_EmptySet
<1> DEFINE n == Cardinality(Creds)
<1> HIDE DEF n
<1>2. Ranks = 1..n /\ n \in Nat /\ n # 0
  BY <1>1 DEF Ranks, n
<1>3. \A d \in Creds : (IF d = c THEN n
                        ELSE IF rank[d] > rank[c] THEN rank[d] - 1 ELSE rank[d]) \in Ranks
  BY <1>2
<1> QED
  BY <1>3 DEF Handed, n

\* A checkout counts the task once more, unless it holds a credential already.
LEMMA CheckoutCounts ==
    ASSUME NEW pl \in PoolState(Jobs), CountsHolders(pl), NEW t \in Jobs
    PROVE  /\ Checkout(pl, t) \in PoolState(Jobs) /\ CountsHolders(Checkout(pl, t))
           /\ Checkout(pl, t).checkedOut[t] \in Creds
<1>1. /\ pl.checkedOut \in [Jobs -> Creds \cup {NoCred}]
      /\ pl.inUse \in [Creds -> Nat] /\ pl.recency \in [Creds -> Ranks]
  BY PoolFields
<1>2. CASE pl.checkedOut[t] # NoCred
  BY <1>1, <1>2 DEF Checkout
<1>3. CASE pl.checkedOut[t] = NoCred
  <2> DEFINE c == Choice(pl)
             r == Handed(pl.recency, c)
             new == Checkout(pl, t)
  <2>1. c \in Creds
    BY ChoiceType
  <2>2. r \in [Creds -> Ranks]
    BY <1>1, <2>1, HandedType
  <2>3. new = [checkedOut |-> [pl.checkedOut EXCEPT ![t] = c],
               inUse |-> [pl.inUse EXCEPT ![c] = @ + 1], recency |-> r]
    BY <1>3 DEF Checkout
  <2> HIDE DEF c, r, new
  <2>4. new \in PoolState(Jobs)
    BY <1>1, <2>1, <2>2, <2>3 DEF PoolState
  <2>5. new.checkedOut = [pl.checkedOut EXCEPT ![t] = c] /\ new.checkedOut[t] = c
    BY <1>1, <2>3
  <2>6. Holders(new, c) = Holders(pl, c) \cup {t} /\ t \notin Holders(pl, c)
    BY <1>1, <1>3, <2>1, <2>5, CredsFinite DEF Holders
  <2>7. \A d \in Creds \ {c} : Holders(new, d) = Holders(pl, d)
    BY <1>1, <1>3, <2>1, <2>5, CredsFinite DEF Holders
  <2>8. /\ new.inUse[c] = pl.inUse[c] + 1
        /\ \A d \in Creds \ {c} : new.inUse[d] = pl.inUse[d]
    BY <1>1, <2>1, <2>3
  <2>9. Cardinality(Holders(new, c)) = Cardinality(Holders(pl, c)) + 1
    BY <2>6, PoolFields, FS_AddElement
  <2>10. CountsHolders(new)
    BY <2>1, <2>7, <2>8, <2>9 DEF CountsHolders
  <2> QED
    BY <2>1, <2>4, <2>5, <2>10 DEF new
<1> QED
  BY <1>2, <1>3

\* A release gives back what the task holds, and nothing when it holds nothing.
LEMMA ReleaseCounts ==
    ASSUME NEW pl \in PoolState(Jobs), CountsHolders(pl), NEW t \in Jobs
    PROVE  Release(pl, t) \in PoolState(Jobs) /\ CountsHolders(Release(pl, t))
<1>1. /\ pl.checkedOut \in [Jobs -> Creds \cup {NoCred}]
      /\ pl.inUse \in [Creds -> Nat] /\ pl.recency \in [Creds -> Ranks]
  BY PoolFields
<1>2. CASE pl.checkedOut[t] = NoCred
  BY <1>2 DEF Release
<1>3. CASE pl.checkedOut[t] # NoCred
  <2> DEFINE c == pl.checkedOut[t]
             n == IF pl.inUse[c] > 0 THEN pl.inUse[c] - 1 ELSE 0
             new == Release(pl, t)
  <2>1. c \in Creds /\ c # NoCred
    BY <1>1, <1>3
  <2>2. n \in Nat /\ (pl.inUse[c] # 0 => n = pl.inUse[c] - 1)
    BY <1>1, <2>1
  <2>3. new = [pl EXCEPT !.checkedOut[t] = NoCred, !.inUse[c] = n]
    BY <1>3 DEF Release
  <2> HIDE DEF c, n, new
  <2>4. new \in PoolState(Jobs)
    BY <1>1, <2>1, <2>2, <2>3 DEF PoolState
  <2>5. /\ new.checkedOut = [pl.checkedOut EXCEPT ![t] = NoCred]
        /\ new.inUse = [pl.inUse EXCEPT ![c] = n]
    BY <1>1, <2>3 DEF PoolState
  <2>6. Holders(new, c) = Holders(pl, c) \ {t} /\ t \in Holders(pl, c)
    BY <1>1, <2>1, <2>5 DEF Holders, c
  <2>7. \A d \in Creds \ {c} : Holders(new, d) = Holders(pl, d)
    BY <1>1, <2>1, <2>5, CredsFinite DEF Holders, c
  <2>8. /\ new.inUse[c] = n
        /\ \A d \in Creds \ {c} : new.inUse[d] = pl.inUse[d]
    BY <1>1, <2>1, <2>5
  <2>9. /\ Cardinality(Holders(new, c)) = Cardinality(Holders(pl, c)) - 1
        /\ Cardinality(Holders(pl, c)) \in Nat /\ Cardinality(Holders(new, c)) \in Nat
    BY <2>4, <2>6, PoolFields, FS_RemoveElement
  <2>10. pl.inUse[c] = Cardinality(Holders(pl, c))
    BY <2>1 DEF CountsHolders
  <2>11. new.inUse[c] = Cardinality(Holders(new, c))
    BY <2>2, <2>8, <2>9, <2>10
  <2>12. CountsHolders(new)
    BY <2>7, <2>8, <2>11 DEF CountsHolders
  <2> QED
    BY <2>4, <2>12 DEF new
<1> QED
  BY <1>2, <1>3

\* The same for the releases of a whole reap.
LEMMA ReleaseAllCounts ==
    ASSUME NEW pl \in PoolState(Jobs), CountsHolders(pl), NEW S \in SUBSET Jobs
    PROVE  ReleaseAll(pl, S) \in PoolState(Jobs) /\ CountsHolders(ReleaseAll(pl, S))
<1> DEFINE given(c) == Cardinality({t \in S : pl.checkedOut[t] = c})
           out == [t \in Jobs |-> IF t \in S THEN NoCred ELSE pl.checkedOut[t]]
           use == [c \in Creds |-> IF pl.inUse[c] > given(c) THEN pl.inUse[c] - given(c) ELSE 0]
           new == ReleaseAll(pl, S)
<1>1. /\ pl.checkedOut \in [Jobs -> Creds \cup {NoCred}]
      /\ pl.inUse \in [Creds -> Nat] /\ pl.recency \in [Creds -> Ranks]
  BY PoolFields
<1>2. new = [pl EXCEPT !.checkedOut = out, !.inUse = use]
  BY DEF ReleaseAll
<1>3. \A c \in Creds : /\ {t \in S : pl.checkedOut[t] = c} = Holders(pl, c) \cap S
                       /\ given(c) = Cardinality(Holders(pl, c) \cap S)
  <2>1. \A c : {t \in S : pl.checkedOut[t] = c} = Holders(pl, c) \cap S
    BY PoolFields
  <2> QED
    BY <2>1
<1>4. \A c \in Creds : /\ given(c) \in Nat
                       /\ Cardinality(Holders(pl, c) \ S) = Cardinality(Holders(pl, c)) - given(c)
                       /\ Cardinality(Holders(pl, c) \ S) \in Nat
  <2> SUFFICES ASSUME NEW c \in Creds
               PROVE  /\ given(c) \in Nat
                      /\ Cardinality(Holders(pl, c) \ S)
                            = Cardinality(Holders(pl, c)) - given(c)
                      /\ Cardinality(Holders(pl, c) \ S) \in Nat
    OBVIOUS
  <2>1. IsFiniteSet(Holders(pl, c)) /\ given(c) = Cardinality(Holders(pl, c) \cap S)
    BY <1>3, PoolFields
  <2>2. IsFiniteSet(Holders(pl, c) \cap S) /\ IsFiniteSet(Holders(pl, c) \ S)
    BY <2>1, FS_Intersection, FS_Difference
  <2>3. given(c) \in Nat /\ Cardinality(Holders(pl, c) \ S) \in Nat
    BY <2>1, <2>2, FS_CardinalityType
  <2>4. Cardinality(Holders(pl, c) \ S)
           = Cardinality(Holders(pl, c)) - Cardinality(Holders(pl, c) \cap S)
    BY <2>1, FS_Difference
  <2> QED
    BY <2>1, <2>3, <2>4
<1>5. \A c \in Creds : use[c] = Cardinality(Holders(pl, c) \ S)
  <2> SUFFICES ASSUME NEW c \in Creds PROVE use[c] = Cardinality(Holders(pl, c) \ S)
    OBVIOUS
  <2> DEFINE g == given(c)
             h == Cardinality(Holders(pl, c))
             d == Cardinality(Holders(pl, c) \ S)
  <2>1. g \in Nat /\ d = h - g /\ d \in Nat /\ pl.inUse[c] = h
    BY <1>4 DEF CountsHolders
  <2>2. use[c] = IF pl.inUse[c] > g THEN pl.inUse[c] - g ELSE 0
    OBVIOUS
  <2>3. h \in Nat
    BY PoolFields
  <2> HIDE DEF g, h, d, use
  <2> QED
    BY <2>1, <2>2, <2>3 DEF d
<1>6. use \in [Creds -> Nat]
  BY <1>4, <1>5
<1>7. out \in [Jobs -> Creds \cup {NoCred}]
  BY <1>1
<1> HIDE DEF given, use, new
<1>8. new \in PoolState(Jobs) /\ new.checkedOut = out /\ new.inUse = use
  BY <1>2, <1>6, <1>7 DEF PoolState
<1>9. \A c \in Creds : Holders(new, c) = Holders(pl, c) \ S
  BY <1>8, PoolFields, CredsFinite
<1> QED
  BY <1>5, <1>8, <1>9 DEF CountsHolders, new

-----------------------------------------------------------------------------
(* Types *)

JobRecord == JobObject \cup {NoJob}
GrantedLaunch == [pc : {"granted"}, pod : Pods, by : {"request", "loop"}]
DispatchPcs == {"prepared", "created", "recorded", "failed"}
Dispatch == [pc : DispatchPcs, pod : Pods, by : {"request", "loop"}, cred : Creds]
LaunchRecord == {NoLaunch} \cup GrantedLaunch \cup Dispatch
StopRecord == {NoStop} \cup [pc : {"delete", "mark", "release"}, pod : Pods]
GoodPool == {pl \in PoolState(Jobs) : CountsHolders(pl)}

JobsOK == kjob \in [Names -> JobRecord]
LaunchesOK == launch \in [Jobs -> LaunchRecord]
StopsOK == stop \in [Jobs -> StopRecord]
LoopsOK == loop \in [Pods -> LoopState]
MemoryOK == /\ active \in [Pods -> SUBSET Jobs] /\ dispatched \in [Pods -> SUBSET Jobs]
            /\ held \in [Pods -> SUBSET Jobs]
PoolsOK == pool \in [Pods -> GoodPool]
CountersOK == starts \in 0..MaxStarts /\ faults \in 0..MaxFaults

KInv == /\ StoreTypeOK /\ JobsOK /\ LaunchesOK /\ StopsOK /\ LoopsOK /\ MemoryOK /\ PoolsOK
        /\ CountersOK

\* At most one fault is used up.
FaultUsed == faults' = faults \/ (faults < MaxFaults /\ faults' = faults + 1)

\* What a step does not touch keeps its type.
LEMMA Kept ==
    ASSUME KInv
    PROVE  /\ UNCHANGED storeVars => StoreTypeOK'
           /\ UNCHANGED kjob => JobsOK'
           /\ UNCHANGED launch => LaunchesOK'
           /\ UNCHANGED stop => StopsOK'
           /\ UNCHANGED loop => LoopsOK'
           /\ UNCHANGED <<active, dispatched, held>> => MemoryOK'
           /\ UNCHANGED pool => PoolsOK'
           /\ UNCHANGED starts /\ FaultUsed => CountersOK'
<1>1. UNCHANGED storeVars => StoreTypeOK'
  BY DEF KInv, StoreTypeOK, storeVars
<1>2. UNCHANGED starts /\ FaultUsed => CountersOK'
  BY KubeBounds DEF KInv, CountersOK, FaultUsed
<1> QED
  BY <1>1, <1>2 DEF KInv, JobsOK, LaunchesOK, StopsOK, LoopsOK, MemoryOK, PoolsOK

\* A step of the environment uses up at most one fault.
LEMMA FaultsUsed ==
    /\ \A f : Fault(f) => FaultUsed
    /\ NoFault => FaultUsed
BY DEF Fault, NoFault, FaultUsed

\* A launch, by its place.
LEMMA LaunchFields ==
    ASSUME NEW r \in LaunchRecord
    PROVE  /\ r.pc = "none" <=> r = NoLaunch
           /\ r.pc # "none" => r.pod \in Pods /\ r.by \in {"request", "loop"}
           /\ r.pc \in DispatchPcs => r \in Dispatch /\ r.cred \in Creds
           /\ r.pc = "granted" => r \in GrantedLaunch
BY DEF LaunchRecord, GrantedLaunch, Dispatch, DispatchPcs, NoLaunch

\* A dispatch moves on.
LEMMA DispatchMoves ==
    ASSUME NEW r \in Dispatch, NEW x \in DispatchPcs
    PROVE  LET R == [r EXCEPT !.pc = x]
           IN  R \in LaunchRecord /\ R.pc = x /\ R.pod = r.pod /\ R.by = r.by /\ R.cred = r.cred
BY DEF Dispatch, LaunchRecord, DispatchPcs

\* A grant on its way.
LEMMA GrantedType ==
    ASSUME NEW p \in Pods, NEW by \in {"request", "loop"}
    PROVE  Granted(p, by) \in LaunchRecord /\ Granted(p, by).pc = "granted"
BY DEF Granted, LaunchRecord, GrantedLaunch

\* The launches of a drain.
LEMMA DrainTyped ==
    ASSUME KInv, NEW p \in Pods, NEW by \in {"request", "loop"}, DrainFrom(p, by)
    PROVE  LaunchesOK'
<1>1. PICK S \in SUBSET Queued :
         launch' = [j \in Jobs |-> IF j \in S THEN Granted(p, by) ELSE launch[j]]
  BY DEF DrainFrom
<1> QED
  BY <1>1, GrantedType DEF KInv, LaunchesOK

\* The pool of one replica changes.
LEMMA PoolWritten ==
    ASSUME KInv, NEW p \in Pods, NEW pl \in GoodPool, pool' = [pool EXCEPT ![p] = pl]
    PROVE  PoolsOK'
BY DEF KInv, PoolsOK

\* A credential goes back.
LEMMA ReleaseTyped ==
    ASSUME KInv, NEW p \in Pods, NEW j \in Jobs, ReleaseCredential(p, j)
    PROVE  PoolsOK'
<1>1. pool[p] \in GoodPool
  BY DEF KInv, PoolsOK
<1>2. Release(pool[p], j) \in GoodPool
  BY <1>1, ReleaseCounts DEF GoodPool
<1> DEFINE pl == Release(pool[p], j)
<1>3. pool' = [pool EXCEPT ![p] = pl]
  BY DEF ReleaseCredential
<1> HIDE DEF pl
<1> QED
  BY <1>2, <1>3, PoolWritten DEF pl

\* The Job of one name changes.
LEMMA JobWritten ==
    ASSUME KInv, NEW n \in Names, NEW x \in JobRecord, kjob' = [kjob EXCEPT ![n] = x]
    PROVE  JobsOK'
BY DEF KInv, JobsOK

\* The launch of one task changes.
LEMMA LaunchWritten ==
    ASSUME KInv, NEW j \in Jobs, NEW r \in LaunchRecord, launch' = [launch EXCEPT ![j] = r]
    PROVE  LaunchesOK'
BY DEF KInv, LaunchesOK

\* The loop of one replica moves.
LEMMA LoopWritten ==
    ASSUME KInv, NEW p \in Pods, NEW l \in LoopState, Goto(p, l)
    PROVE  LoopsOK'
BY DEF KInv, LoopsOK, Goto

-----------------------------------------------------------------------------
(* The store's part of a step *)

StoreStep == StoreNext \/ UNCHANGED storeVars

\* The transactions the k8s-Job side calls are transactions of the store.
LEMMA StoreCalls ==
    /\ \A j \in Jobs : Admit(j) => StoreStep
    /\ \A j \in Jobs : SetWorkerRef(j) => StoreStep
    /\ \A j \in Jobs : MarkTerminal(j, "failed", TRUE) => StoreStep
    /\ \A j \in Jobs : MarkTerminal(j, "done", FALSE) => StoreStep
    /\ \A S \in SUBSET Queued : Drain(S) => StoreStep
    /\ UNCHANGED storeVars => StoreStep
<1>1. ASSUME NEW j \in Jobs, Admit(j) PROVE StoreStep
  BY <1>1 DEF StoreStep, StoreNext, SubprocessStep
<1>2. ASSUME NEW j \in Jobs, SetWorkerRef(j) PROVE StoreStep
  BY <1>2 DEF StoreStep, StoreNext
<1>3. ASSUME NEW j \in Jobs, NEW s \in TerminalStates, NEW err \in BOOLEAN, MarkTerminal(j, s, err)
      PROVE  StoreStep
  BY <1>3 DEF StoreStep, StoreNext, SubprocessStep
<1>4. ASSUME NEW S \in SUBSET Queued, Drain(S) PROVE StoreStep
  <2>1. S \in SUBSET Jobs
    BY DEF Queued
  <2> QED
    BY <1>4, <2>1 DEF StoreStep, StoreNext, SubprocessStep
<1>5. "failed" \in TerminalStates /\ "done" \in TerminalStates
  BY DEF TerminalStates, EndedStates
<1> QED
  BY <1>1, <1>2, <1>3, <1>4, <1>5 DEF StoreStep

\* They keep the rows' types.
LEMMA StoreStepTyped ==
    ASSUME StoreTypeOK, StoreStep
    PROVE  StoreTypeOK'
<1>1. CASE SubprocessStep
  BY <1>1, SubprocessStepType
<1>2. CASE \E j \in Jobs : SetWorkerRef(j)
  BY <1>2, SetWorkerRefType
<1>3. CASE UNCHANGED storeVars
  BY <1>3 DEF storeVars, StoreTypeOK
<1> QED
  BY <1>1, <1>2, <1>3 DEF StoreStep, StoreNext

\* A step that keeps the parts keeps the whole.
LEMMA Whole ==
    ASSUME KInv, StoreStep, JobsOK', LaunchesOK', StopsOK', LoopsOK', MemoryOK', PoolsOK',
           CountersOK'
    PROVE  KInv' /\ StoreStep
BY StoreStepTyped DEF KInv

-----------------------------------------------------------------------------
(* Launches keep the types *)

\* start_task_execution.
LEMMA StartTaskTyped ==
    ASSUME KInv, NEW p \in Pods, NEW j \in Jobs, StartTask(p, j)
    PROVE  KInv' /\ StoreStep
<1>1. UNCHANGED <<kjob, stop, loop, active, dispatched, held, pool, faults>> /\ Admit(j)
  BY DEF StartTask
<1>2. CountersOK'
  <2>1. starts < MaxStarts /\ starts' = starts + 1
    BY DEF StartTask
  <2> QED
    BY <1>1, <2>1, KubeBounds DEF KInv, CountersOK
<1>3. LaunchesOK'
  <2>1. launch' = launch \/ launch' = [launch EXCEPT ![j] = Granted(p, "request")]
    BY DEF StartTask
  <2> QED
    BY <2>1, GrantedType, Kept, LaunchWritten
<1> QED
  BY <1>1, <1>2, <1>3, Kept, StoreCalls, Whole

\* The credential is checked out.
LEMMA CheckoutTyped ==
    ASSUME KInv, NEW j \in Jobs, CheckoutToken(j)
    PROVE  KInv' /\ StoreStep
<1> DEFINE p == launch[j].pod
           pl == Checkout(pool[p], j)
           r == [pc |-> "prepared", pod |-> p, by |-> launch[j].by, cred |-> pool'[p].checkedOut[j]]
<1>1. UNCHANGED <<storeVars, kjob, stop, loop, active, dispatched, held, starts, faults>>
  BY DEF CheckoutToken
<1>2. launch[j].pc = "granted" /\ pool' = [pool EXCEPT ![p] = pl]
  BY DEF CheckoutToken
<1>3. launch' = [launch EXCEPT ![j] = r]
  BY DEF CheckoutToken
<1>4. launch[j] \in LaunchRecord
  BY DEF KInv, LaunchesOK
<1>5. p \in Pods /\ launch[j].by \in {"request", "loop"}
  BY <1>2, <1>4, LaunchFields
<1>6. pool \in [Pods -> GoodPool]
  BY DEF KInv, PoolsOK
<1>7. pl \in GoodPool /\ pl.checkedOut[j] \in Creds
  <2>1. pool[p] \in PoolState(Jobs) /\ CountsHolders(pool[p])
    BY <1>5, <1>6 DEF GoodPool
  <2> HIDE DEF p
  <2> QED
    BY <2>1, CheckoutCounts DEF GoodPool
<1> HIDE DEF pl, p
<1>8. pool'[p] = pl
  BY <1>2, <1>5, <1>6
<1>9. r \in LaunchRecord
  BY <1>5, <1>7, <1>8 DEF LaunchRecord, Dispatch, DispatchPcs
<1> HIDE DEF r
<1>10. LaunchesOK' /\ PoolsOK'
  BY <1>2, <1>3, <1>5, <1>7, <1>9, LaunchWritten, PoolWritten
<1>11. CountersOK'
  BY <1>1, Kept DEF FaultUsed
<1> QED
  BY <1>1, <1>10, <1>11, Kept, StoreCalls, Whole

\* A launch at a place of a dispatch goes to the next.
LEMMA LaunchMoves ==
    ASSUME KInv, NEW j \in Jobs, launch[j].pc \in DispatchPcs, NEW x \in DispatchPcs,
           launch' = [launch EXCEPT ![j].pc = x]
    PROVE  LaunchesOK'
<1>1. launch[j] \in LaunchRecord
  BY DEF KInv, LaunchesOK
<1> DEFINE r == [launch[j] EXCEPT !.pc = x]
<1>2. r \in LaunchRecord
  BY <1>1, LaunchFields, DispatchMoves
<1>3. launch' = [launch EXCEPT ![j] = r]
  OBVIOUS
<1> HIDE DEF r
<1> QED
  BY <1>2, <1>3, LaunchWritten

\* The Job a launch creates.
LEMMA NewJobTyped ==
    ASSUME KInv, NEW j \in Jobs, launch[j].pc \in DispatchPcs
    PROVE  NewJob(j) \in JobRecord
<1>1. launch[j] \in LaunchRecord
  BY DEF KInv, LaunchesOK
<1>2. launch[j].cred \in Creds
  BY <1>1, LaunchFields
<1> QED
  BY <1>2 DEF NewJob, JobRecord, JobObject

\* Every task has a name.
LEMMA Named == \A j \in Jobs : JobName[j] \in Names
BY DEF Names

\* The Job is created.
LEMMA CreateJobTyped ==
    ASSUME KInv, NEW j \in Jobs, CreateJob(j)
    PROVE  KInv' /\ StoreStep
<1>1. UNCHANGED <<storeVars, stop, loop, active, dispatched, held, pool, starts, faults>>
  BY DEF CreateJob
<1>2. /\ launch[j].pc \in DispatchPcs /\ "created" \in DispatchPcs
      /\ launch' = [launch EXCEPT ![j].pc = "created"]
      /\ kjob' = [kjob EXCEPT ![JobName[j]] = NewJob(j)]
  BY DEF CreateJob, DispatchPcs
<1>3. LaunchesOK'
  BY <1>2, LaunchMoves
<1>4. JobsOK'
  BY <1>2, Named, NewJobTyped, JobWritten
<1>5. CountersOK'
  BY <1>1, Kept DEF FaultUsed
<1> QED
  BY <1>1, <1>3, <1>4, <1>5, Kept, StoreCalls, Whole

\* A dispatch raises.
LEMMA RaisesTyped ==
    ASSUME KInv, NEW j \in Jobs, launch[j].pc \in DispatchPcs, DispatchRaises(j), FaultUsed
    PROVE  LaunchesOK' /\ StopsOK' /\ LoopsOK' /\ MemoryOK' /\ PoolsOK' /\ CountersOK'
<1>1. UNCHANGED <<stop, loop, active, dispatched, pool, starts>>
  BY DEF DispatchRaises
<1>2. "failed" \in DispatchPcs /\ launch' = [launch EXCEPT ![j].pc = "failed"]
  BY DEF DispatchRaises, DispatchPcs
<1>3. LaunchesOK'
  BY <1>2, LaunchMoves
<1>4. launch[j] \in LaunchRecord /\ launch[j].pc # "none"
  BY DEF KInv, LaunchesOK, DispatchPcs
<1>5. launch[j].pod \in Pods
  BY <1>4, LaunchFields
<1>6. MemoryOK'
  BY <1>1, <1>5 DEF DispatchRaises, KInv, MemoryOK
<1> QED
  BY <1>1, <1>3, <1>6, Kept

\* It raises where the Job is created.
LEMMA CreateRaisesTyped ==
    ASSUME KInv, NEW j \in Jobs, CreateRaises(j)
    PROVE  KInv' /\ StoreStep
<1>1. UNCHANGED storeVars /\ DispatchRaises(j) /\ launch[j].pc \in DispatchPcs
  BY DEF CreateRaises, DispatchPcs
<1>2. kjob' = kjob \/ kjob' = [kjob EXCEPT ![JobName[j]] = NewJob(j)]
  BY DEF CreateRaises
<1>3. JobsOK'
  BY <1>1, <1>2, Named, NewJobTyped, JobWritten, Kept
<1>4. FaultUsed
  BY FaultsUsed DEF CreateRaises
<1> QED
  BY <1>1, <1>3, <1>4, RaisesTyped, StoreCalls, Whole

\* The reference is written.
LEMMA WriteRefTyped ==
    ASSUME KInv, NEW j \in Jobs, WriteRef(j)
    PROVE  KInv' /\ StoreStep
<1>1. UNCHANGED <<kjob, stop, loop, active, dispatched, held, pool, starts, faults>>
      /\ SetWorkerRef(j)
  BY DEF WriteRef
<1>2. /\ launch[j].pc \in DispatchPcs /\ "recorded" \in DispatchPcs
      /\ launch' = [launch EXCEPT ![j].pc = "recorded"]
  BY DEF WriteRef, DispatchPcs
<1>3. LaunchesOK'
  BY <1>2, LaunchMoves
<1>4. CountersOK'
  BY <1>1, Kept DEF FaultUsed
<1> QED
  BY <1>1, <1>3, <1>4, Kept, StoreCalls, Whole

\* It is not, and the Job is rolled back.
LEMMA WriteRefRaisesTyped ==
    ASSUME KInv, NEW j \in Jobs, WriteRefRaises(j)
    PROVE  KInv' /\ StoreStep
<1>1. UNCHANGED storeVars /\ DispatchRaises(j) /\ launch[j].pc \in DispatchPcs
  BY DEF WriteRefRaises, DispatchPcs
<1>2. kjob' = kjob \/ kjob' = [kjob EXCEPT ![JobName[j]] = NoJob]
  BY DEF WriteRefRaises
<1>3. JobsOK'
  BY <1>2, Named, JobWritten, Kept DEF JobRecord
<1>4. FaultUsed
  BY FaultsUsed DEF WriteRefRaises
<1> QED
  BY <1>1, <1>3, <1>4, RaisesTyped, StoreCalls, Whole

\* The build is live.
LEMMA MarkLiveTyped ==
    ASSUME KInv, NEW j \in Jobs, MarkLive(j)
    PROVE  KInv' /\ StoreStep
<1> DEFINE p == launch[j].pod
<1>1. UNCHANGED <<storeVars, kjob, stop, loop, pool, starts, faults>>
  BY DEF MarkLive
<1>2. launch[j].pc # "none" /\ launch' = [launch EXCEPT ![j] = NoLaunch]
  BY DEF MarkLive
<1>3. LaunchesOK'
  BY <1>2, LaunchWritten DEF LaunchRecord
<1>4. launch[j] \in LaunchRecord
  BY DEF KInv, LaunchesOK
<1>5. p \in Pods
  BY <1>2, <1>4, LaunchFields
<1>6. /\ active' = [active EXCEPT ![p] = @ \cup {j}]
      /\ held' = [held EXCEPT ![p] = @ \ {j}]
      /\ dispatched' = [dispatched EXCEPT ![p] = @ \cup {j}]
  BY DEF MarkLive
<1> HIDE DEF p
<1>7. MemoryOK'
  BY <1>5, <1>6 DEF KInv, MemoryOK
<1>8. CountersOK'
  BY <1>1, Kept DEF FaultUsed
<1> QED
  BY <1>1, <1>3, <1>7, <1>8, Kept, StoreCalls, Whole

\* The launch failed.
LEMMA LaunchFailedTyped ==
    ASSUME KInv, NEW j \in Jobs, LaunchFailed(j)
    PROVE  KInv' /\ StoreStep
<1>1. UNCHANGED <<kjob, stop, loop, active, dispatched, held, pool, starts>>
  BY DEF LaunchFailed
<1>2. launch' = [launch EXCEPT ![j] = NoLaunch]
  BY DEF LaunchFailed
<1>3. LaunchesOK'
  BY <1>2, LaunchWritten DEF LaunchRecord
<1>4. StoreStep
  BY StoreCalls DEF LaunchFailed
<1>5. FaultUsed
  BY FaultsUsed DEF LaunchFailed
<1> QED
  BY <1>1, <1>3, <1>4, <1>5, Kept, Whole

-----------------------------------------------------------------------------
(* Stops keep the types *)

\* The stop of one task changes.
LEMMA StopWritten ==
    ASSUME KInv, NEW j \in Jobs, NEW r \in StopRecord, stop' = [stop EXCEPT ![j] = r]
    PROVE  StopsOK'
BY DEF KInv, StopsOK

\* A stop under way goes on.
LEMMA StopMoves ==
    ASSUME KInv, NEW j \in Jobs, stop[j].pc \in {"delete", "mark", "release"},
           NEW x \in {"delete", "mark", "release"}, stop' = [stop EXCEPT ![j].pc = x]
    PROVE  StopsOK'
<1>1. stop[j] \in [pc : {"delete", "mark", "release"}, pod : Pods]
  BY DEF KInv, StopsOK, StopRecord, NoStop
<1> DEFINE r == [stop[j] EXCEPT !.pc = x]
<1>2. r \in StopRecord
  BY <1>1 DEF StopRecord
<1>3. stop' = [stop EXCEPT ![j] = r]
  OBVIOUS
<1> HIDE DEF r
<1> QED
  BY <1>2, <1>3, StopWritten

\* A stop begins.
LEMMA StopBeginTyped ==
    ASSUME KInv, NEW p \in Pods, NEW j \in Jobs, StopBegin(p, j)
    PROVE  KInv' /\ StoreStep
<1>1. UNCHANGED <<storeVars, kjob, launch, loop, active, dispatched, held, pool, starts, faults>>
  BY DEF StopBegin
<1>2. StopsOK'
  BY StopWritten DEF StopBegin, StopRecord
<1>3. CountersOK'
  BY <1>1, Kept DEF FaultUsed
<1> QED
  BY <1>1, <1>2, <1>3, Kept, StoreCalls, Whole

\* The Job is deleted.
LEMMA StopDeleteTyped ==
    ASSUME KInv, NEW j \in Jobs, StopDelete(j)
    PROVE  KInv' /\ StoreStep
<1>1. UNCHANGED <<storeVars, launch, loop, active, dispatched, held, pool, starts>>
  BY DEF StopDelete
<1>2. StopsOK'
  BY StopMoves DEF StopDelete
<1>3. kjob' = kjob \/ kjob' = [kjob EXCEPT ![JobName[j]] = NoJob]
  BY DEF StopDelete
<1>4. JobsOK'
  BY <1>3, Named, JobWritten, Kept DEF JobRecord
<1>5. FaultUsed
  BY FaultsUsed DEF StopDelete
<1> QED
  BY <1>1, <1>2, <1>4, <1>5, Kept, StoreCalls, Whole

\* The row is ended.
LEMMA StopMarkTyped ==
    ASSUME KInv, NEW j \in Jobs, StopMark(j)
    PROVE  KInv' /\ StoreStep
<1>1. UNCHANGED <<kjob, launch, loop, active, dispatched, held, pool, starts>>
  BY DEF StopMark
<1>2. StopsOK'
  BY StopMoves DEF StopMark
<1>3. StoreStep
  BY StoreCalls DEF StopMark
<1>4. FaultUsed
  BY FaultsUsed DEF StopMark
<1> QED
  BY <1>1, <1>2, <1>3, <1>4, Kept, Whole

\* A drain is a step of the store and starts launches.
LEMMA DrainSteps ==
    ASSUME KInv, NEW p \in Pods, NEW by \in {"request", "loop"}, DrainFrom(p, by)
    PROVE  LaunchesOK' /\ StoreStep
<1>1. StoreStep
  BY StoreCalls DEF DrainFrom
<1> QED
  BY <1>1, DrainTyped

\* The credential goes back and the queue is drained.
LEMMA StopReleaseTyped ==
    ASSUME KInv, NEW j \in Jobs, StopRelease(j)
    PROVE  KInv' /\ StoreStep
<1> DEFINE p == stop[j].pod
<1>1. UNCHANGED <<kjob, loop, active, dispatched, held, starts, faults>>
  BY DEF StopRelease
<1>2. p \in Pods
  BY DEF StopRelease, KInv, StopsOK, StopRecord, NoStop
<1>3. StopsOK'
  BY StopWritten DEF StopRelease, StopRecord
<1>4. ReleaseCredential(p, j) /\ DrainFrom(p, "request")
  BY DEF StopRelease
<1> HIDE DEF p
<1>5. PoolsOK' /\ LaunchesOK' /\ StoreStep
  BY <1>2, <1>4, ReleaseTyped, DrainSteps
<1>6. CountersOK'
  BY <1>1, Kept DEF FaultUsed
<1> QED
  BY <1>1, <1>3, <1>5, <1>6, Kept, Whole

-----------------------------------------------------------------------------
(* The loop keeps the types *)

ReapPcs == {"verify", "repair", "verdict", "hook"}

\* A loop, by its place.
LEMMA LoopFields ==
    ASSUME NEW l \in LoopState
    PROVE  /\ l.pc \in {"poll", "polled"}
                => l.todo \in SUBSET Jobs /\ l.live \in SUBSET Jobs /\ l.out \in BOOLEAN
           /\ l.pc \in {"polled", "gone"} \cup ReapPcs => l.cur \in Jobs
           /\ l.pc \in {"reaping"} \cup ReapPcs
                => /\ l.todo \in SUBSET Jobs /\ l.lost \in SUBSET Jobs
                   /\ l.reaped \in SUBSET Jobs
           /\ l.pc \in {"held", "gone"} => l.todo \in SUBSET Jobs
           /\ l.pc \in ReapPcs
                => l \in [pc : ReapPcs, todo : SUBSET Jobs, lost : SUBSET Jobs,
                          reaped : SUBSET Jobs, cur : Jobs, outcome : Outcomes]
           /\ l.pc = "list" => l.owned \in SUBSET Names
           /\ l.pc = "sweep" => l \in [pc : {"sweep"}, todo : SUBSET Names]
BY DEF LoopState, ReapPcs

\* What the loop goes to is a place of the loop.
LEMMA LoopPlaces ==
    /\ IdleLoop \in LoopState /\ [pc |-> "read"] \in LoopState /\ [pc |-> "reap"] \in LoopState
    /\ \A T, L \in SUBSET Jobs, o \in BOOLEAN : Polling(T, L, o) \in LoopState
    /\ \A T, L \in SUBSET Jobs, j \in Jobs :
          [pc |-> "polled", todo |-> T, live |-> L, out |-> TRUE, cur |-> j] \in LoopState
    /\ \A T, L, R \in SUBSET Jobs : Reaping(T, L, R) \in LoopState
    /\ \A T \in SUBSET Jobs : HeldRow(T) \in LoopState
    /\ \A T \in SUBSET Jobs, j \in Jobs : [pc |-> "gone", todo |-> T, cur |-> j] \in LoopState
    /\ \A N \in SUBSET Names : /\ [pc |-> "list", owned |-> N] \in LoopState
                               /\ [pc |-> "sweep", todo |-> N] \in LoopState
BY DEF LoopState, IdleLoop, Polling, Reaping, HeldRow

\* The places where a row is looked at.
LEMMA ReapPlaces ==
    ASSUME NEW l \in LoopState
    PROVE  /\ l.pc = "reaping" =>
                \A j \in Jobs, pc \in ReapPcs, o \in Outcomes :
                    WithOutcome(l, j, pc, o) \in LoopState
           /\ l.pc \in ReapPcs => \A pc \in ReapPcs : [l EXCEPT !.pc = pc] \in LoopState
           /\ l.pc \in ReapPcs => \A R \in SUBSET Jobs : NextRow(l, R) \in LoopState
<1>1. ASSUME l.pc = "reaping", NEW j \in Jobs, NEW pc \in ReapPcs, NEW o \in Outcomes
      PROVE  WithOutcome(l, j, pc, o) \in LoopState
  <2>1. l.todo \in SUBSET Jobs /\ l.lost \in SUBSET Jobs /\ l.reaped \in SUBSET Jobs
    BY <1>1, LoopFields
  <2> QED
    BY <2>1 DEF WithOutcome, LoopState, ReapPcs
<1>2. ASSUME l.pc \in ReapPcs, NEW pc \in ReapPcs
      PROVE  [l EXCEPT !.pc = pc] \in LoopState
  <2>1. l \in [pc : ReapPcs, todo : SUBSET Jobs, lost : SUBSET Jobs,
               reaped : SUBSET Jobs, cur : Jobs, outcome : Outcomes]
    BY <1>2, LoopFields
  <2>2. [l EXCEPT !.pc = pc] \in [pc : ReapPcs, todo : SUBSET Jobs, lost : SUBSET Jobs,
               reaped : SUBSET Jobs, cur : Jobs, outcome : Outcomes]
    BY <2>1
  <2> QED
    BY <2>2 DEF LoopState, ReapPcs
<1>3. ASSUME l.pc \in ReapPcs, NEW R \in SUBSET Jobs
      PROVE  NextRow(l, R) \in LoopState
  <2>1. l.todo \in SUBSET Jobs /\ l.lost \in SUBSET Jobs /\ l.reaped \in SUBSET Jobs
    BY <1>3, LoopFields
  <2>2. l.reaped \cup R \in SUBSET Jobs
    BY <2>1
  <2> QED
    BY <2>1, <2>2, LoopPlaces DEF NextRow
<1> QED
  BY <1>1, <1>2, <1>3

\* Only rows of tasks are active.
LEMMA ActiveRowsJobs ==
    /\ ActiveRows \in SUBSET Jobs
    /\ {j \in ActiveRows : row[j].kind = "pending"} \in SUBSET Jobs
    /\ {JobName[j] : j \in ActiveRows} \in SUBSET Names
BY DEF ActiveRows, Running, Names

\* A tick begins.
LEMMA ReconcileBeginTyped ==
    ASSUME KInv, NEW p \in Pods, ReconcileBegin(p)
    PROVE  KInv' /\ StoreStep
<1>1. UNCHANGED <<storeVars, kjob, launch, stop, active, held, pool, starts, faults>>
  BY DEF ReconcileBegin
<1>2. dispatched' = [dispatched EXCEPT ![p] = {}] /\ Goto(p, [pc |-> "read"])
  BY DEF ReconcileBegin
<1>3. MemoryOK'
  BY <1>1, <1>2 DEF KInv, MemoryOK
<1>4. LoopsOK'
  BY <1>2, LoopPlaces, LoopWritten
<1>5. CountersOK'
  BY <1>1, Kept DEF FaultUsed
<1> QED
  BY <1>1, <1>3, <1>4, <1>5, Kept, StoreCalls, Whole

\* A step that only moves a loop.
LEMMA OnlyLoop ==
    ASSUME KInv, LoopsOK', FaultUsed,
           UNCHANGED <<storeVars, kjob, launch, stop, active, dispatched, held, pool, starts>>
    PROVE  KInv' /\ StoreStep
BY Kept, StoreCalls, Whole

\* The rows are read.
LEMMA ReconcileReadTyped ==
    ASSUME KInv, NEW p \in Pods, ReconcileRead(p)
    PROVE  KInv' /\ StoreStep
<1>1. UNCHANGED <<storeVars, kjob, launch, stop, active, dispatched, held, pool, starts>>
  BY DEF ReconcileRead
<1>2. Goto(p, Polling(ActiveRows, {}, FALSE)) \/ Goto(p, [pc |-> "reap"])
  BY DEF ReconcileRead
<1>3. Polling(ActiveRows, {}, FALSE) \in LoopState
  BY ActiveRowsJobs, LoopPlaces
<1>4. LoopsOK'
  BY <1>2, <1>3, LoopPlaces, LoopWritten
<1>5. FaultUsed
  BY FaultsUsed DEF ReconcileRead
<1> QED
  BY <1>1, <1>4, <1>5, OnlyLoop

\* A row is polled.
LEMMA PollTyped ==
    ASSUME KInv, NEW p \in Pods, NEW j \in Jobs, Poll(p, j)
    PROVE  KInv' /\ StoreStep
<1> DEFINE l == loop[p]
           T == l.todo \ {j}
           A == active[p] \cap {j}
<1>1. UNCHANGED <<storeVars, kjob, launch, stop, active, dispatched, held, pool, starts>>
  BY DEF Poll
<1>2. \/ Goto(p, [pc |-> "polled", todo |-> T, live |-> l.live, out |-> TRUE, cur |-> j])
      \/ Goto(p, Polling(T, l.live \cup {j}, l.out))
      \/ Goto(p, Polling(T, l.live \cup A, l.out))
  BY DEF Poll
<1>3. l \in LoopState /\ l.pc = "poll"
  BY DEF Poll, At, KInv, LoopsOK
<1>4. l.todo \in SUBSET Jobs /\ l.live \in SUBSET Jobs /\ l.out \in BOOLEAN
  BY <1>3, LoopFields
<1>5. T \in SUBSET Jobs /\ A \in SUBSET Jobs /\ l.live \cup {j} \in SUBSET Jobs
      /\ l.live \cup A \in SUBSET Jobs
  BY <1>4
<1> HIDE DEF l, T, A
<1>6. /\ [pc |-> "polled", todo |-> T, live |-> l.live, out |-> TRUE, cur |-> j] \in LoopState
      /\ Polling(T, l.live \cup {j}, l.out) \in LoopState
      /\ Polling(T, l.live \cup A, l.out) \in LoopState
  BY <1>4, <1>5, LoopPlaces
<1>7. LoopsOK'
  BY <1>2, <1>6, LoopWritten
<1>8. FaultUsed
  BY FaultsUsed DEF Poll
<1> QED
  BY <1>1, <1>7, <1>8, OnlyLoop

\* A finished build gives its credential back.
LEMMA PollReleaseTyped ==
    ASSUME KInv, NEW p \in Pods, PollRelease(p)
    PROVE  KInv' /\ StoreStep
<1> DEFINE l == loop[p]
<1>1. UNCHANGED <<storeVars, kjob, launch, stop, active, dispatched, held, starts, faults>>
  BY DEF PollRelease
<1>2. ReleaseCredential(p, l.cur) /\ Goto(p, Polling(l.todo, l.live, l.out))
  BY DEF PollRelease
<1>3. l \in LoopState /\ l.pc = "polled"
  BY DEF PollRelease, At, KInv, LoopsOK
<1> HIDE DEF l
<1>4. l.todo \in SUBSET Jobs /\ l.live \in SUBSET Jobs /\ l.out \in BOOLEAN /\ l.cur \in Jobs
  BY <1>3, LoopFields
<1>5. PoolsOK'
  BY <1>2, <1>4, ReleaseTyped
<1>6. LoopsOK'
  BY <1>2, <1>4, LoopPlaces, LoopWritten
<1>7. CountersOK'
  BY <1>1, Kept DEF FaultUsed
<1> QED
  BY <1>1, <1>5, <1>6, <1>7, Kept, StoreCalls, Whole

\* The live set is published.
LEMMA PublishTyped ==
    ASSUME KInv, NEW p \in Pods, Publish(p)
    PROVE  KInv' /\ StoreStep
<1>1. UNCHANGED <<kjob, stop, dispatched, held, pool, starts, faults>>
  BY DEF Publish
<1>2. /\ active' = [active EXCEPT ![p] = PublishedLive(p)]
      /\ Goto(p, [pc |-> "reap"])
      /\ DrainFrom(p, "loop") \/ UNCHANGED <<storeVars, launch>>
  BY DEF Publish
<1>3. loop[p] \in LoopState /\ loop[p].pc = "poll"
  BY DEF Publish, At, KInv, LoopsOK
<1>4. loop[p].live \in SUBSET Jobs
  BY <1>3, LoopFields
<1>5. PublishedLive(p) \in SUBSET Jobs
  BY <1>4 DEF PublishedLive, KInv, MemoryOK
<1>6. MemoryOK'
  BY <1>1, <1>2, <1>5 DEF KInv, MemoryOK
<1>7. LoopsOK'
  BY <1>2, LoopPlaces, LoopWritten
<1>8. LaunchesOK' /\ StoreStep
  BY <1>2, DrainSteps, Kept, StoreCalls
<1>9. CountersOK'
  BY <1>1, Kept DEF FaultUsed
<1> QED
  BY <1>1, <1>6, <1>7, <1>8, <1>9, Kept, Whole

\* The rows are read again.
LEMMA ReapReadTyped ==
    ASSUME KInv, NEW p \in Pods, ReapRead(p)
    PROVE  KInv' /\ StoreStep
<1> DEFINE L == {j \in ActiveRows : row[j].kind = "pending"}
<1>1. UNCHANGED <<storeVars, kjob, launch, stop, active, dispatched, held, pool, starts>>
  BY DEF ReapRead
<1>2. Goto(p, Reaping(ActiveRows, L, {})) \/ Goto(p, HeldRow(held[p]))
  BY DEF ReapRead, HeldRow
<1>3. Reaping(ActiveRows, L, {}) \in LoopState
  BY ActiveRowsJobs, LoopPlaces
<1>4. HeldRow(held[p]) \in LoopState
  BY LoopPlaces DEF KInv, MemoryOK
<1> HIDE DEF L
<1>5. LoopsOK'
  BY <1>2, <1>3, <1>4, LoopWritten
<1>6. FaultUsed
  BY FaultsUsed DEF ReapRead
<1> QED
  BY <1>1, <1>5, <1>6, OnlyLoop

\* The Job of a row is looked up.
LEMMA ObserveTyped ==
    ASSUME KInv, NEW p \in Pods, NEW j \in Jobs, Observe(p, j)
    PROVE  KInv' /\ StoreStep
<1> DEFINE l == loop[p]
           resolve(o) == IF j \in l.lost /\ o # "gone" THEN WithOutcome(l, j, "verify", o)
                         ELSE IF o = "running" THEN Reaping(l.todo \ {j}, l.lost, l.reaped)
                         ELSE WithOutcome(l, j, "verdict", o)
<1>1. UNCHANGED <<storeVars, kjob, launch, stop, active, dispatched, held, pool, starts>>
  BY DEF Observe
<1>2. Goto(p, resolve(JobOutcome(JobName[j]))) \/ Goto(p, resolve("running"))
  BY DEF Observe
<1>3. l \in LoopState /\ l.pc = "reaping"
  BY DEF Observe, At, KInv, LoopsOK
<1>4. JobOutcome(JobName[j]) \in Outcomes /\ "running" \in Outcomes
  <2>1. kjob[JobName[j]] \in JobRecord
    BY Named DEF KInv, JobsOK
  <2> QED
    BY <2>1 DEF JobOutcome, Outcomes, JobRecord, JobObject, NoJob
<1> HIDE DEF l
<1>5. \A o \in Outcomes : resolve(o) \in LoopState
  <2> SUFFICES ASSUME NEW o \in Outcomes PROVE resolve(o) \in LoopState
    OBVIOUS
  <2>1. WithOutcome(l, j, "verify", o) \in LoopState /\ WithOutcome(l, j, "verdict", o) \in LoopState
    BY <1>3, ReapPlaces DEF ReapPcs
  <2>2. l.todo \ {j} \in SUBSET Jobs /\ l.lost \in SUBSET Jobs /\ l.reaped \in SUBSET Jobs
    BY <1>3, LoopFields
  <2>3. Reaping(l.todo \ {j}, l.lost, l.reaped) \in LoopState
    BY <2>2, LoopPlaces
  <2> QED
    BY <2>1, <2>3
<1> HIDE DEF resolve
<1>6. LoopsOK'
  BY <1>2, <1>4, <1>5, LoopWritten
<1>7. FaultUsed
  BY FaultsUsed DEF Observe
<1> QED
  BY <1>1, <1>6, <1>7, OnlyLoop

\* A loop at a row it looks at.
LEMMA AtRow ==
    ASSUME KInv, NEW p \in Pods, NEW pc \in ReapPcs, At(p, pc)
    PROVE  /\ loop[p] \in LoopState /\ loop[p].pc \in ReapPcs /\ loop[p].cur \in Jobs
           /\ \A x \in ReapPcs : [loop[p] EXCEPT !.pc = x] \in LoopState
           /\ NextRow(loop[p], {}) \in LoopState
           /\ NextRow(loop[p], Failing(loop[p])) \in LoopState
<1>1. loop[p] \in LoopState /\ loop[p].pc \in ReapPcs
  BY DEF At, KInv, LoopsOK
<1>2. loop[p].cur \in Jobs
  BY <1>1, LoopFields
<1>3. Failing(loop[p]) \in SUBSET Jobs
  BY <1>2 DEF Failing
<1> QED
  BY <1>1, <1>2, <1>3, ReapPlaces

\* A reconstructed name is verified.
LEMMA VerifyTyped ==
    ASSUME KInv, NEW p \in Pods, Verify(p)
    PROVE  KInv' /\ StoreStep
<1>1. UNCHANGED <<storeVars, kjob, launch, stop, active, dispatched, held, pool, starts>>
  BY DEF Verify
<1>2. Goto(p, [loop[p] EXCEPT !.pc = "repair"]) \/ Goto(p, NextRow(loop[p], {}))
  BY DEF Verify
<1>3. At(p, "verify") /\ "verify" \in ReapPcs /\ "repair" \in ReapPcs
  BY DEF Verify, ReapPcs
<1>4. [loop[p] EXCEPT !.pc = "repair"] \in LoopState /\ NextRow(loop[p], {}) \in LoopState
  BY <1>3, AtRow
<1>5. LoopsOK'
  BY <1>2, <1>4, LoopWritten
<1>6. FaultUsed
  BY FaultsUsed DEF Verify
<1> QED
  BY <1>1, <1>5, <1>6, OnlyLoop

\* The lost reference is written again.
LEMMA RepairTyped ==
    ASSUME KInv, NEW p \in Pods, Repair(p)
    PROVE  KInv' /\ StoreStep
<1>1. UNCHANGED <<kjob, launch, stop, active, dispatched, held, pool, starts>>
  BY DEF Repair
<1>2. Goto(p, [loop[p] EXCEPT !.pc = "verdict"]) \/ Goto(p, NextRow(loop[p], {}))
  BY DEF Repair
<1>3. At(p, "repair") /\ "repair" \in ReapPcs /\ "verdict" \in ReapPcs
  BY DEF Repair, ReapPcs
<1>4. /\ [loop[p] EXCEPT !.pc = "verdict"] \in LoopState /\ NextRow(loop[p], {}) \in LoopState
      /\ loop[p].cur \in Jobs
  BY <1>3, AtRow
<1>5. LoopsOK'
  BY <1>2, <1>4, LoopWritten
<1>6. FaultUsed
  BY FaultsUsed DEF Repair
<1>7. StoreStep
  BY <1>4, StoreCalls DEF Repair
<1> QED
  BY <1>1, <1>5, <1>6, <1>7, Kept, Whole

\* The verdict is written.
LEMMA VerdictTyped ==
    ASSUME KInv, NEW p \in Pods, Verdict(p)
    PROVE  KInv' /\ StoreStep
<1>1. UNCHANGED <<kjob, launch, stop, active, dispatched, held, pool, starts>>
  BY DEF Verdict
<1>2. Goto(p, [loop[p] EXCEPT !.pc = "hook"]) \/ Goto(p, NextRow(loop[p], Failing(loop[p])))
  BY DEF Verdict
<1>3. At(p, "verdict") /\ "verdict" \in ReapPcs /\ "hook" \in ReapPcs
  BY DEF Verdict, ReapPcs
<1>4. /\ [loop[p] EXCEPT !.pc = "hook"] \in LoopState /\ loop[p].cur \in Jobs
      /\ NextRow(loop[p], Failing(loop[p])) \in LoopState
  BY <1>3, AtRow
<1>5. LoopsOK'
  BY <1>2, <1>4, LoopWritten
<1>6. FaultUsed
  BY FaultsUsed DEF Verdict
<1>7. StoreStep
  BY <1>4, StoreCalls DEF Verdict
<1> QED
  BY <1>1, <1>5, <1>6, <1>7, Kept, Whole

\* The hook of an ended build.
LEMMA HookTyped ==
    ASSUME KInv, NEW p \in Pods, Hook(p)
    PROVE  KInv' /\ StoreStep
<1>1. UNCHANGED <<kjob, stop, active, dispatched, held, starts, faults>>
  BY DEF Hook
<1>2. /\ At(p, "hook") /\ ReleaseCredential(p, loop[p].cur) /\ DrainFrom(p, "loop")
      /\ Goto(p, NextRow(loop[p], Failing(loop[p])))
  BY DEF Hook
<1>3. "hook" \in ReapPcs
  BY DEF ReapPcs
<1>4. loop[p].cur \in Jobs /\ NextRow(loop[p], Failing(loop[p])) \in LoopState
  BY <1>2, <1>3, AtRow
<1>5. LoopsOK'
  BY <1>2, <1>4, LoopWritten
<1>6. PoolsOK'
  BY <1>2, <1>4, ReleaseTyped
<1>7. LaunchesOK' /\ StoreStep
  BY <1>2, DrainSteps
<1>8. CountersOK'
  BY <1>1, Kept DEF FaultUsed
<1> QED
  BY <1>1, <1>5, <1>6, <1>7, <1>8, Kept, Whole

\* The reap ends.
LEMMA ReapEndTyped ==
    ASSUME KInv, NEW p \in Pods, ReapEnd(p)
    PROVE  KInv' /\ StoreStep
<1> DEFINE R == loop[p].reaped
           pl == ReleaseAll(pool[p], R)
<1>1. UNCHANGED <<kjob, stop, active, dispatched, held, starts, faults>>
  BY DEF ReapEnd
<1>2. Goto(p, HeldRow(held[p]))
  BY DEF ReapEnd, HeldRow
<1>3. \/ UNCHANGED <<storeVars, launch, pool>>
      \/ pool' = [pool EXCEPT ![p] = pl] /\ DrainFrom(p, "loop")
  BY DEF ReapEnd
<1>4. loop[p] \in LoopState /\ loop[p].pc = "reaping"
  BY DEF ReapEnd, At, KInv, LoopsOK
<1>5. R \in SUBSET Jobs
  BY <1>4, LoopFields
<1>6. pool[p] \in PoolState(Jobs) /\ CountsHolders(pool[p])
  BY DEF KInv, PoolsOK, GoodPool
<1> HIDE DEF R
<1>7. pl \in GoodPool
  BY <1>5, <1>6, ReleaseAllCounts DEF GoodPool
<1> HIDE DEF pl
<1>8. PoolsOK'
  BY <1>3, <1>7, PoolWritten, Kept
<1>9. LaunchesOK' /\ StoreStep
  BY <1>3, DrainSteps, Kept, StoreCalls
<1>10. LoopsOK'
  <2>1. HeldRow(held[p]) \in LoopState
    BY LoopPlaces DEF KInv, MemoryOK
  <2> QED
    BY <1>2, <2>1, LoopWritten
<1>11. CountersOK'
  BY <1>1, Kept DEF FaultUsed
<1> QED
  BY <1>1, <1>8, <1>9, <1>10, <1>11, Kept, Whole

\* A held credential is probed.
LEMMA HeldProbeTyped ==
    ASSUME KInv, NEW p \in Pods, NEW j \in Jobs, HeldProbe(p, j)
    PROVE  KInv' /\ StoreStep
<1> DEFINE T == loop[p].todo \ {j}
<1>1. UNCHANGED <<storeVars, kjob, launch, stop, active, dispatched, held, pool, starts>>
  BY DEF HeldProbe
<1>2. Goto(p, [pc |-> "gone", todo |-> T, cur |-> j]) \/ Goto(p, HeldRow(T))
  BY DEF HeldProbe
<1>3. loop[p] \in LoopState /\ loop[p].pc = "held"
  BY DEF HeldProbe, At, KInv, LoopsOK
<1>4. T \in SUBSET Jobs
  BY <1>3, LoopFields
<1> HIDE DEF T
<1>5. LoopsOK'
  BY <1>2, <1>4, LoopPlaces, LoopWritten
<1>6. FaultUsed
  BY FaultsUsed DEF HeldProbe
<1> QED
  BY <1>1, <1>5, <1>6, OnlyLoop

\* Its Job is gone.
LEMMA HeldReleaseTyped ==
    ASSUME KInv, NEW p \in Pods, HeldRelease(p)
    PROVE  KInv' /\ StoreStep
<1>1. UNCHANGED <<storeVars, kjob, launch, stop, active, dispatched, starts, faults>>
  BY DEF HeldRelease
<1>2. /\ ReleaseCredential(p, loop[p].cur) /\ Goto(p, HeldRow(loop[p].todo))
      /\ held' = [held EXCEPT ![p] = @ \ {loop[p].cur}]
  BY DEF HeldRelease
<1>3. loop[p] \in LoopState /\ loop[p].pc = "gone"
  BY DEF HeldRelease, At, KInv, LoopsOK
<1>4. loop[p].todo \in SUBSET Jobs /\ loop[p].cur \in Jobs
  BY <1>3, LoopFields
<1>5. LoopsOK'
  BY <1>2, <1>4, LoopPlaces, LoopWritten
<1>6. PoolsOK'
  BY <1>2, <1>4, ReleaseTyped
<1>7. MemoryOK'
  BY <1>1, <1>2 DEF KInv, MemoryOK
<1>8. CountersOK'
  BY <1>1, Kept DEF FaultUsed
<1> QED
  BY <1>1, <1>5, <1>6, <1>7, <1>8, Kept, StoreCalls, Whole

\* The owners are read.
LEMMA SweepReadTyped ==
    ASSUME KInv, NEW p \in Pods, SweepRead(p)
    PROVE  KInv' /\ StoreStep
<1> DEFINE N == {JobName[j] : j \in ActiveRows}
<1>1. UNCHANGED <<storeVars, kjob, launch, stop, active, dispatched, held, pool, starts>>
  BY DEF SweepRead
<1>2. Goto(p, [pc |-> "list", owned |-> N]) \/ Goto(p, IdleLoop)
  BY DEF SweepRead
<1>3. N \in SUBSET Names
  BY ActiveRowsJobs
<1> HIDE DEF N
<1>4. LoopsOK'
  BY <1>2, <1>3, LoopPlaces, LoopWritten
<1>5. FaultUsed
  BY FaultsUsed DEF SweepRead
<1> QED
  BY <1>1, <1>4, <1>5, OnlyLoop

\* The Jobs are listed.
LEMMA SweepListTyped ==
    ASSUME KInv, NEW p \in Pods, SweepList(p)
    PROVE  KInv' /\ StoreStep
<1>1. UNCHANGED <<storeVars, kjob, launch, stop, active, dispatched, held, pool, starts>>
  BY DEF SweepList
<1>2. Goto(p, [pc |-> "sweep", todo |-> Sweepable(p)]) \/ Goto(p, IdleLoop)
  BY DEF SweepList
<1>3. Sweepable(p) \in SUBSET Names
  BY DEF Sweepable
<1>4. LoopsOK'
  BY <1>2, <1>3, LoopPlaces, LoopWritten
<1>5. FaultUsed
  BY FaultsUsed DEF SweepList
<1> QED
  BY <1>1, <1>4, <1>5, OnlyLoop

\* An orphan is deleted.
LEMMA SweepDeleteTyped ==
    ASSUME KInv, NEW p \in Pods, NEW n \in Names, SweepDelete(p, n)
    PROVE  KInv' /\ StoreStep
<1> DEFINE l == [loop[p] EXCEPT !.todo = @ \ {n}]
<1>1. UNCHANGED <<storeVars, launch, stop, active, dispatched, held, pool, starts>>
  BY DEF SweepDelete
<1>2. Goto(p, l)
  BY DEF SweepDelete
<1>3. loop[p] \in LoopState /\ loop[p].pc = "sweep"
  BY DEF SweepDelete, At, KInv, LoopsOK
<1>4. loop[p] \in [pc : {"sweep"}, todo : SUBSET Names]
  BY <1>3, LoopFields
<1>5. l \in [pc : {"sweep"}, todo : SUBSET Names]
  BY <1>4
<1>6. l \in LoopState
  BY <1>5 DEF LoopState
<1> HIDE DEF l
<1>7. LoopsOK'
  BY <1>2, <1>6, LoopWritten
<1>8. kjob' = kjob \/ kjob' = [kjob EXCEPT ![n] = NoJob]
  BY DEF SweepDelete
<1>9. JobsOK'
  BY <1>8, JobWritten, Kept DEF JobRecord
<1>10. FaultUsed
  BY FaultsUsed DEF SweepDelete
<1> QED
  BY <1>1, <1>7, <1>9, <1>10, Kept, StoreCalls, Whole

\* The tick ends.
LEMMA TickEndTyped ==
    ASSUME KInv, NEW p \in Pods, TickEnd(p)
    PROVE  KInv' /\ StoreStep
<1>1. /\ UNCHANGED <<storeVars, kjob, launch, stop, active, dispatched, held, pool, starts, faults>>
      /\ Goto(p, IdleLoop)
  BY DEF TickEnd
<1>2. LoopsOK'
  BY <1>1, LoopPlaces, LoopWritten
<1>3. FaultUsed
  BY <1>1 DEF FaultUsed
<1> QED
  BY <1>1, <1>2, <1>3, OnlyLoop

-----------------------------------------------------------------------------
(* The environment keeps the types *)

\* Jobs end, are collected and age.
LEMMA ClusterTyped ==
    ASSUME KInv, ClusterStep
    PROVE  KInv' /\ StoreStep
<1>1. UNCHANGED <<storeVars, launch, stop, loop, active, dispatched, held, pool, starts, faults>>
  BY DEF ClusterStep, JobFinishes, JobCollected, JobAges
<1>2. JobsOK'
  <2>1. PICK n \in Names : JobFinishes(n) \/ JobCollected(n) \/ JobAges(n)
    BY DEF ClusterStep
  <2>2. kjob[n] \in JobRecord
    BY DEF KInv, JobsOK
  <2>3. CASE JobFinishes(n)
    <3>1. PICK s \in {"succeeded", "failed"} : kjob' = [kjob EXCEPT ![n].st = s]
      BY <2>3 DEF JobFinishes
    <3>2. kjob[n] \in JobObject
      BY <2>2, <2>3 DEF JobFinishes, JobRecord, NoJob
    <3> DEFINE x == [kjob[n] EXCEPT !.st = s]
    <3>3. x \in JobRecord
      BY <3>2 DEF JobObject, JobRecord
    <3>4. kjob' = [kjob EXCEPT ![n] = x]
      BY <3>1
    <3> HIDE DEF x
    <3> QED
      BY <3>3, <3>4, JobWritten
  <2>4. CASE JobCollected(n)
    BY <2>4, JobWritten DEF JobCollected, JobRecord
  <2>5. CASE JobAges(n)
    <3>1. kjob[n] \in JobObject /\ kjob' = [kjob EXCEPT ![n].old = TRUE]
      BY <2>2, <2>5 DEF JobAges, JobRecord
    <3> DEFINE x == [kjob[n] EXCEPT !.old = TRUE]
    <3>3. x \in JobRecord
      BY <3>1 DEF JobObject, JobRecord
    <3>4. kjob' = [kjob EXCEPT ![n] = x]
      BY <3>1
    <3> HIDE DEF x
    <3> QED
      BY <3>3, <3>4, JobWritten
  <2> QED
    BY <2>1, <2>3, <2>4, <2>5
<1>3. CountersOK'
  BY <1>1, Kept DEF FaultUsed
<1> QED
  BY <1>1, <1>2, <1>3, Kept, StoreCalls, Whole

\* A replica crashes and boots again.
LEMMA CrashTyped ==
    ASSUME KInv, NEW p \in Pods, CrashRestart(p)
    PROVE  KInv' /\ StoreStep
<1>1. UNCHANGED <<kjob, starts>> /\ Fault("crash")
  BY DEF CrashRestart
<1>2. PICK S \in SUBSET Queued :
         /\ Drain(S)
         /\ launch' = [j \in Jobs |-> IF j \in S THEN Granted(p, "request")
                                      ELSE IF launch[j] # NoLaunch /\ launch[j].pod = p
                                           THEN NoLaunch ELSE launch[j]]
  BY DEF CrashRestart
<1>3. LaunchesOK'
  BY <1>2, GrantedType DEF KInv, LaunchesOK, LaunchRecord
<1>4. StopsOK'
  BY DEF CrashRestart, KInv, StopsOK, StopRecord
<1>5. LoopsOK'
  BY LoopPlaces DEF CrashRestart, KInv, LoopsOK
<1>6. MemoryOK'
  BY DEF CrashRestart, KInv, MemoryOK
<1>7. PoolsOK'
  BY NewPoolCounts, PoolWritten DEF CrashRestart, GoodPool
<1>8. StoreStep
  BY <1>2, StoreCalls
<1> QED
  BY <1>1, <1>3, <1>4, <1>5, <1>6, <1>7, <1>8, FaultsUsed, Kept, Whole

\* A profile change drops a pool.
LEMMA ResetPoolTyped ==
    ASSUME KInv, NEW p \in Pods, ResetPool(p)
    PROVE  KInv' /\ StoreStep
<1>1. UNCHANGED <<storeVars, kjob, launch, stop, loop, active, dispatched, held, starts>>
      /\ Fault("pool-reset")
  BY DEF ResetPool
<1>2. PoolsOK'
  BY NewPoolCounts, PoolWritten DEF ResetPool, GoodPool
<1> QED
  BY <1>1, <1>2, FaultsUsed, Kept, StoreCalls, Whole

-----------------------------------------------------------------------------
(* Theorems for any number of replicas *)

\* The first states.
LEMMA InitTyped == Init => KInv /\ StoreInit
<1> SUFFICES ASSUME Init PROVE KInv /\ StoreInit
  OBVIOUS
<1>1. StoreTypeOK /\ StoreInit
  BY StoreInitType DEF Init
<1>2. JobsOK /\ LaunchesOK /\ StopsOK /\ MemoryOK
  BY DEF Init, JobsOK, LaunchesOK, StopsOK, MemoryOK, JobRecord, LaunchRecord, StopRecord
<1>3. LoopsOK
  BY LoopPlaces DEF Init, LoopsOK
<1>4. PoolsOK
  BY NewPoolCounts DEF Init, PoolsOK, GoodPool
<1>5. CountersOK
  BY KubeBounds DEF Init, CountersOK
<1> QED
  BY <1>1, <1>2, <1>3, <1>4, <1>5 DEF KInv

\* Every step keeps the types, and is a step of the store or leaves it alone.
LEMMA NextTyped ==
    ASSUME KInv, [Next]_vars
    PROVE  KInv' /\ StoreStep
<1>1. ASSUME NEW p \in Pods, NEW j \in Jobs, StartTask(p, j) \/ StopBegin(p, j)
      PROVE  KInv' /\ StoreStep
  BY <1>1, StartTaskTyped, StopBeginTyped
<1>2. ASSUME NEW j \in Jobs, LaunchStep(j) PROVE KInv' /\ StoreStep
  BY <1>2, CheckoutTyped, CreateJobTyped, CreateRaisesTyped, WriteRefTyped, WriteRefRaisesTyped,
     MarkLiveTyped, LaunchFailedTyped DEF LaunchStep
<1>3. ASSUME NEW j \in Jobs, StopStep(j) PROVE KInv' /\ StoreStep
  BY <1>3, StopDeleteTyped, StopMarkTyped, StopReleaseTyped DEF StopStep
<1>4. ASSUME NEW p \in Pods, LoopStep(p) PROVE KInv' /\ StoreStep
  <2>1. CASE ReconcileStep(p)
    BY <2>1, ReconcileBeginTyped, ReconcileReadTyped, PollReleaseTyped, PublishTyped, PollTyped
       DEF ReconcileStep
  <2>2. CASE ReapStep(p)
    BY <2>2, ReapReadTyped, VerifyTyped, RepairTyped, VerdictTyped, HookTyped, ReapEndTyped,
       ObserveTyped DEF ReapStep
  <2>3. CASE SweepStep(p)
    BY <2>3, HeldReleaseTyped, SweepReadTyped, SweepListTyped, TickEndTyped, HeldProbeTyped,
       SweepDeleteTyped DEF SweepStep
  <2> QED
    BY <1>4, <2>1, <2>2, <2>3 DEF LoopStep
<1>5. ASSUME NEW p \in Pods, CrashRestart(p) \/ ResetPool(p) PROVE KInv' /\ StoreStep
  BY <1>5, CrashTyped, ResetPoolTyped
<1>6. CASE ClusterStep
  BY <1>6, ClusterTyped
<1>7. CASE UNCHANGED vars
  <2>1. UNCHANGED <<storeVars, kjob, launch, stop, active, dispatched, held, pool, starts>>
        /\ UNCHANGED <<loop, faults>>
    BY <1>7 DEF vars, kubeVars
  <2> QED
    BY <2>1, Kept, OnlyLoop DEF FaultUsed
<1> QED
  BY <1>1, <1>2, <1>3, <1>4, <1>5, <1>6, <1>7 DEF Next

\* What the inductive invariant says.
LEMMA KInvSays == KInv => KubeTypeOK /\ PoolCountsHolders
<1> SUFFICES ASSUME KInv PROVE KubeTypeOK /\ PoolCountsHolders
  OBVIOUS
<1>1. pool \in [Pods -> PoolState(Jobs)] /\ PoolCountsHolders
  BY DEF KInv, PoolsOK, GoodPool, PoolCountsHolders
<1> QED
  BY <1>1 DEF KInv, KubeTypeOK, JobsOK, LaunchesOK, StopsOK, LoopsOK, MemoryOK, CountersOK,
              JobRecord, LaunchRecord, GrantedLaunch, Dispatch, DispatchPcs, StopRecord

\* The types are an invariant of builds as Jobs.
THEOREM KubeTypeCorrect == Spec => []KubeTypeOK
<1>1. KInv /\ [Next]_vars => KInv'
  BY NextTyped
<1> QED
  BY <1>1, InitTyped, KInvSays, PTL DEF Spec

\* claude_token_pool.py:69 -- the count of a credential is the number of tasks
\* that hold it, whatever launches, stops, verdicts, holds, crashes and profile
\* changes of any number of replicas check out and release, in any order.
THEOREM PoolNeverDrifts == Spec => []PoolCountsHolders
<1>1. KInv /\ [Next]_vars => KInv'
  BY NextTyped
<1> QED
  BY <1>1, InitTyped, KInvSays, PTL DEF Spec

\* Every step of a k8s-Job build is one transaction of the store or none: builds
\* as Jobs implement the store of JobStateStore.
THEOREM KubeImplementsStore == Spec => StoreSpec
<1>1. KInv /\ [Next]_vars => KInv' /\ [StoreNext]_storeVars
  BY NextTyped DEF StoreStep
<1> QED
  BY <1>1, InitTyped, PTL DEF Spec, StoreSpec

\* Hence every row a k8s-Job build writes is coherent.
THEOREM KubeRowsCoherent == Spec => []RowCoherent
BY KubeImplementsStore, StoreRowsCoherent, PTL

-----------------------------------------------------------------------------
(* One replica: what a step can change.  The Helm chart runs one replica.  With  *)
(* two, the launch of one replica, or its repair of a lost reference, makes a   *)
(* row a running Job's while the pass or the sweep of the other has read the    *)
(* row already and will not hear of it.                                         *)

OneReplica == \A p, q \in Pods : p = q

\* A Job whose reference is not yet written is young.
CreatedYoung ==
    \A j \in Jobs : launch[j].pc = "created" => kjob[JobName[j]] = NoJob \/ ~kjob[JobName[j]].old

\* So is, while a sweep is between its two reads, the Job of a row that became a
\* running Job's after the owners were read.
ListedYoung ==
    \A p \in Pods, j \in Jobs :
        loop[p].pc = "list" /\ OwnedByJob(j) /\ JobName[j] \notin loop[p].owned
        => kjob[JobName[j]] = NoJob \/ ~kjob[JobName[j]].old

\* A pass does not lose sight of a live build whose row is a running Job's.
PassKnows ==
    \A p \in Pods, j \in Jobs :
        /\ loop[p].pc \in {"poll", "polled"}
        /\ j \in active[p] /\ OwnedByJob(j) /\ launch[j].pc # "recorded"
        => j \in loop[p].todo \cup loop[p].live \cup dispatched[p]

RInv == OneReplica /\ KInv /\ CreatedYoung /\ ListedYoung /\ PassKnows

\* Who creates a Job, who marks it live, who ages it, who makes a row a running
\* Job's, who changes the sets of a replica, and where its loop comes from.
LaunchFact ==
    \A j \in Jobs :
        /\ launch'[j].pc = "created" => launch[j].pc = "created" \/ CreateJob(j)
        /\ launch[j].pc = "recorded" /\ launch'[j].pc # "recorded"
             => MarkLive(j) \/ \E p \in Pods : CrashRestart(p)
JobFact ==
    \A n \in Names :
        kjob'[n] # NoJob /\ kjob'[n].old => (kjob[n] # NoJob /\ kjob[n].old) \/ JobAges(n)
OwnedFact ==
    \A j \in Jobs :
        OwnedByJob(j)' => OwnedByJob(j) \/ WriteRef(j) \/ \E p \in Pods : Repair(p)
MemoryFact ==
    \A p \in Pods, j \in Jobs :
        /\ j \in active'[p] => j \in active[p] \/ MarkLive(j) \/ Publish(p)
        /\ j \in dispatched[p]
             => j \in dispatched'[p] \/ ReconcileBegin(p) \/ CrashRestart(p)
LoopFact ==
    \A p \in Pods :
        \/ loop'[p] = loop[p]
        \/ /\ loop'[p].pc = "list" => SweepRead(p)
           /\ loop'[p].pc \in {"poll", "polled"}
                => ReconcileRead(p) \/ PollRelease(p) \/ \E j \in Jobs : Poll(p, j)
           /\ loop[p].pc = "poll" /\ loop'[p].pc = "reap" => Publish(p)
           /\ loop[p].pc = "list" /\ loop'[p].pc = "sweep" => SweepList(p)

\* What a step leaves alone.
LEMMA KeptFacts ==
    /\ UNCHANGED launch => LaunchFact
    /\ UNCHANGED kjob => JobFact
    /\ UNCHANGED storeVars => OwnedFact
    /\ UNCHANGED <<active, dispatched>> => MemoryFact
    /\ UNCHANGED loop => LoopFact
BY DEF LaunchFact, JobFact, OwnedFact, MemoryFact, LoopFact, OwnedByJob, storeVars

\* Neither admission, a drain nor a terminal write makes a row a running Job's.
LEMMA OwnedShrinks ==
    ASSUME KInv
    PROVE  /\ \A j \in Jobs : Admit(j) => OwnedFact
           /\ \A j \in Jobs : MarkTerminal(j, "failed", TRUE) => OwnedFact
           /\ \A j \in Jobs : MarkTerminal(j, "done", FALSE) => OwnedFact
           /\ \A S \in SUBSET Queued : Drain(S) => OwnedFact
<1>0. row \in [Jobs -> Row]
  BY DEF KInv, StoreTypeOK
<1>1. ASSUME NEW j \in Jobs, Admit(j) PROVE OwnedFact
  BY <1>0, <1>1 DEF Admit, AdmittedRow, OwnedFact, OwnedByJob
<1>2. ASSUME NEW j \in Jobs, NEW s \in {"done", "failed"}, NEW e \in BOOLEAN, MarkTerminal(j, s, e)
      PROVE  OwnedFact
  <2>1. CASE row[j].state = "absent"
    BY <1>2, <2>1 DEF MarkTerminal, OwnedFact, OwnedByJob
  <2>2. CASE row[j].state # "absent"
    <3> DEFINE r == EndedRow(row[j], s, e)
    <3>1. row' = [row EXCEPT ![j] = r]
      BY <1>2, <2>2 DEF MarkTerminal
    <3>2. r.state # "running"
      BY <1>0 DEF EndedRow, Row
    <3> HIDE DEF r
    <3> QED
      BY <1>0, <3>1, <3>2 DEF OwnedFact, OwnedByJob
  <2> QED
    BY <2>1, <2>2
<1>3. ASSUME NEW S \in SUBSET Queued, Drain(S) PROVE OwnedFact
  <2>1. \A j \in Jobs : row'[j] = row[j] \/ row'[j].kind = "pending"
    BY <1>0, <1>3 DEF Drain, Row
  <2> QED
    BY <2>1 DEF OwnedFact, OwnedByJob
<1> QED
  BY <1>1, <1>2, <1>3

\* A drain touches neither a dispatch under way nor a running Job's row.
LEMMA DrainFacts ==
    ASSUME KInv, NEW p \in Pods, NEW by \in {"request", "loop"}, DrainFrom(p, by)
    PROVE  LaunchFact /\ OwnedFact
<1>1. PICK S \in SUBSET Queued :
         /\ \A j \in S : launch[j] = NoLaunch
         /\ Drain(S)
         /\ launch' = [j \in Jobs |-> IF j \in S THEN Granted(p, by) ELSE launch[j]]
  BY DEF DrainFrom
<1>2. OwnedFact
  BY <1>1, OwnedShrinks
<1>3. LaunchFact
  BY <1>1, GrantedType DEF LaunchFact, NoLaunch
<1> QED
  BY <1>2, <1>3

\* A launch that is not recorded goes to a place that is not "created".
LEMMA LaunchOnly ==
    ASSUME KInv, NEW j \in Jobs, NEW r, r.pc # "created", launch[j].pc # "recorded",
           launch' = [launch EXCEPT ![j] = r]
    PROVE  LaunchFact
BY DEF KInv, LaunchesOK, LaunchFact

\* A Job that is created is young, and one that is deleted has no age.
LEMMA JobOnly ==
    ASSUME KInv, NEW n \in Names
    PROVE  /\ kjob' = [kjob EXCEPT ![n] = NoJob] => JobFact
           /\ \A j \in Jobs : kjob' = [kjob EXCEPT ![n] = NewJob(j)] => JobFact
<1>1. \A j \in Jobs : ~NewJob(j).old
  BY DEF NewJob
<1> QED
  BY <1>1 DEF KInv, JobsOK, JobFact

StepFacts == LaunchFact /\ JobFact /\ OwnedFact /\ MemoryFact /\ LoopFact

\* The steps of a launch.
LEMMA LaunchStepFacts ==
    ASSUME KInv, NEW j \in Jobs, LaunchStep(j)
    PROVE  StepFacts
<1>0. launch \in [Jobs -> LaunchRecord] /\ launch[j] \in LaunchRecord
  BY DEF KInv, LaunchesOK
<1>1. CASE CheckoutToken(j)
  <2>1. UNCHANGED <<storeVars, kjob, active, dispatched, loop>>
    BY <1>1 DEF CheckoutToken
  <2>2. LaunchFact
    BY <1>1, LaunchOnly DEF CheckoutToken
  <2> QED
    BY <2>1, <2>2, KeptFacts DEF StepFacts
<1>2. CASE CreateJob(j)
  <2>1. UNCHANGED <<storeVars, active, dispatched, loop>>
    BY <1>2 DEF CreateJob
  <2>2. LaunchFact
    <3>1. launch[j].pc = "prepared" /\ launch' = [launch EXCEPT ![j].pc = "created"]
      BY <1>2 DEF CreateJob
    <3>2. \A k \in Jobs \ {j} : launch'[k] = launch[k]
      BY <1>0, <3>1
    <3> QED
      BY <1>2, <3>1, <3>2 DEF LaunchFact
  <2>3. JobFact
    BY <1>2, Named, JobOnly DEF CreateJob
  <2> QED
    BY <2>1, <2>2, <2>3, KeptFacts DEF StepFacts
<1>3. ASSUME DispatchRaises(j), launch[j].pc \in {"prepared", "created"}
      PROVE  LaunchFact /\ MemoryFact /\ LoopFact
  <2>1. UNCHANGED <<active, dispatched, loop>>
    BY <1>3 DEF DispatchRaises
  <2> DEFINE r == [launch[j] EXCEPT !.pc = "failed"]
  <2>2. launch[j] \in Dispatch /\ launch' = [launch EXCEPT ![j] = r]
    BY <1>0, <1>3, LaunchFields DEF DispatchRaises, DispatchPcs
  <2>3. r.pc = "failed"
    BY <2>2 DEF Dispatch
  <2> HIDE DEF r
  <2> QED
    BY <1>3, <2>1, <2>2, <2>3, LaunchOnly, KeptFacts
<1>4. CASE CreateRaises(j)
  <2>1. UNCHANGED storeVars /\ DispatchRaises(j) /\ launch[j].pc = "prepared"
    BY <1>4 DEF CreateRaises
  <2>2. kjob' = kjob \/ kjob' = [kjob EXCEPT ![JobName[j]] = NewJob(j)]
    BY <1>4 DEF CreateRaises
  <2> QED
    BY <1>3, <2>1, <2>2, Named, JobOnly, KeptFacts DEF StepFacts
<1>5. CASE WriteRef(j)
  <2>1. UNCHANGED <<kjob, active, dispatched, loop>>
    BY <1>5 DEF WriteRef
  <2>2. launch[j].pc = "created" /\ launch' = [launch EXCEPT ![j].pc = "recorded"]
    BY <1>5 DEF WriteRef
  <2>3. launch[j] \in Dispatch
    BY <1>0, <2>2, LaunchFields DEF DispatchPcs
  <2>4. launch'[j].pc = "recorded" /\ \A k \in Jobs \ {j} : launch'[k] = launch[k]
    BY <1>0, <2>2, <2>3 DEF Dispatch
  <2>5. LaunchFact
    BY <2>2, <2>4 DEF LaunchFact
  <2>6. \A k \in Jobs \ {j} : row'[k] = row[k]
    BY <1>5 DEF WriteRef, SetWorkerRef, KInv, StoreTypeOK
  <2>7. OwnedFact
    BY <1>5, <2>6 DEF OwnedFact, OwnedByJob
  <2> QED
    BY <2>1, <2>5, <2>7, KeptFacts DEF StepFacts
<1>6. CASE WriteRefRaises(j)
  <2>1. UNCHANGED storeVars /\ DispatchRaises(j) /\ launch[j].pc = "created"
    BY <1>6 DEF WriteRefRaises
  <2>2. kjob' = kjob \/ kjob' = [kjob EXCEPT ![JobName[j]] = NoJob]
    BY <1>6 DEF WriteRefRaises
  <2> QED
    BY <1>3, <2>1, <2>2, Named, JobOnly, KeptFacts DEF StepFacts
<1>7. CASE MarkLive(j)
  <2>1. UNCHANGED <<storeVars, kjob, loop>>
    BY <1>7 DEF MarkLive
  <2>2. launch' = [launch EXCEPT ![j] = NoLaunch]
    BY <1>7 DEF MarkLive
  <2>3. LaunchFact
    BY <1>0, <1>7, <2>2 DEF LaunchFact, NoLaunch
  <2>4. /\ active' = [active EXCEPT ![launch[j].pod] = @ \cup {j}]
        /\ dispatched' = [dispatched EXCEPT ![launch[j].pod] = @ \cup {j}]
    BY <1>7 DEF MarkLive
  <2>5. active \in [Pods -> SUBSET Jobs] /\ dispatched \in [Pods -> SUBSET Jobs]
    BY DEF KInv, MemoryOK
  <2>6. MemoryFact
    BY <1>7, <2>4, <2>5 DEF MemoryFact
  <2> QED
    BY <2>1, <2>3, <2>6, KeptFacts DEF StepFacts
<1>8. CASE LaunchFailed(j)
  <2>1. UNCHANGED <<kjob, active, dispatched, loop>>
    BY <1>8 DEF LaunchFailed
  <2>2. LaunchFact
    BY <1>8, LaunchOnly DEF LaunchFailed, NoLaunch
  <2>3. OwnedFact
    BY <1>8, OwnedShrinks, KeptFacts DEF LaunchFailed
  <2> QED
    BY <2>1, <2>2, <2>3, KeptFacts DEF StepFacts
<1> QED
  BY <1>1, <1>2, <1>4, <1>5, <1>6, <1>7, <1>8 DEF LaunchStep

\* Starts, and the steps of a stop.
LEMMA RequestFacts ==
    ASSUME KInv, NEW p \in Pods, NEW j \in Jobs, StartTask(p, j) \/ StopBegin(p, j) \/ StopStep(j)
    PROVE  StepFacts
<1>1. CASE StartTask(p, j)
  <2>1. UNCHANGED <<kjob, active, dispatched, loop>> /\ Admit(j)
    BY <1>1 DEF StartTask
  <2>2. launch' = launch \/ launch' = [launch EXCEPT ![j] = Granted(p, "request")]
    BY <1>1 DEF StartTask
  <2>3. launch[j].pc = "none" /\ Granted(p, "request").pc = "granted"
    BY <1>1 DEF StartTask, NoLaunch, Granted
  <2>4. LaunchFact
    BY <2>2, <2>3, LaunchOnly, KeptFacts
  <2> QED
    BY <2>1, <2>4, OwnedShrinks, KeptFacts DEF StepFacts
<1>2. CASE StopBegin(p, j)
  <2>1. UNCHANGED <<storeVars, launch, kjob, active, dispatched, loop>>
    BY <1>2 DEF StopBegin
  <2> QED
    BY <2>1, KeptFacts DEF StepFacts
<1>3. CASE StopDelete(j)
  <2>1. UNCHANGED <<storeVars, launch, active, dispatched, loop>>
    BY <1>3 DEF StopDelete
  <2>2. kjob' = kjob \/ kjob' = [kjob EXCEPT ![JobName[j]] = NoJob]
    BY <1>3 DEF StopDelete
  <2> QED
    BY <2>1, <2>2, Named, JobOnly, KeptFacts DEF StepFacts
<1>4. CASE StopMark(j)
  <2>1. UNCHANGED <<kjob, launch, active, dispatched, loop>>
    BY <1>4 DEF StopMark
  <2>2. OwnedFact
    BY <1>4, OwnedShrinks, KeptFacts DEF StopMark
  <2> QED
    BY <2>1, <2>2, KeptFacts DEF StepFacts
<1>5. CASE StopRelease(j)
  <2>1. UNCHANGED <<kjob, active, dispatched, loop>>
    BY <1>5 DEF StopRelease
  <2>2. stop[j].pod \in Pods
    BY <1>5 DEF StopRelease, KInv, StopsOK, StopRecord, NoStop
  <2>3. DrainFrom(stop[j].pod, "request")
    BY <1>5 DEF StopRelease
  <2>4. LaunchFact /\ OwnedFact
    BY <2>2, <2>3, DrainFacts
  <2> QED
    BY <2>1, <2>4, KeptFacts DEF StepFacts
<1> QED
  BY <1>1, <1>2, <1>3, <1>4, <1>5 DEF StopStep

\* The loop of one replica moves.
LEMMA LoopOnly ==
    ASSUME KInv, NEW p \in Pods, NEW l, Goto(p, l),
           l.pc = "list" => SweepRead(p),
           l.pc \in {"poll", "polled"}
              => ReconcileRead(p) \/ PollRelease(p) \/ \E j \in Jobs : Poll(p, j),
           loop[p].pc = "poll" /\ l.pc = "reap" => Publish(p),
           loop[p].pc = "list" /\ l.pc = "sweep" => SweepList(p)
    PROVE  LoopFact
<1>1. loop'[p] = l /\ \A q \in Pods \ {p} : loop'[q] = loop[q]
  BY DEF Goto, KInv, LoopsOK
<1> QED
  BY <1>1 DEF LoopFact

\* It moves where none of these places is.
LEMMA LoopElsewhere ==
    ASSUME KInv, NEW p \in Pods, NEW l, Goto(p, l),
           l.pc \notin {"list", "poll", "polled", "reap", "sweep"}
    PROVE  LoopFact
BY LoopOnly

\* The steps of a reconcile.
LEMMA ReconcileFacts ==
    ASSUME KInv, NEW p \in Pods, ReconcileStep(p)
    PROVE  StepFacts
<1>0. active \in [Pods -> SUBSET Jobs] /\ dispatched \in [Pods -> SUBSET Jobs]
  BY DEF KInv, MemoryOK
<1>1. CASE ReconcileBegin(p)
  <2>1. UNCHANGED <<storeVars, kjob, launch, active>> /\ Goto(p, [pc |-> "read"])
    BY <1>1 DEF ReconcileBegin
  <2>2. LoopFact
    BY <2>1, LoopElsewhere
  <2>3. dispatched' = [dispatched EXCEPT ![p] = {}]
    BY <1>1 DEF ReconcileBegin
  <2>4. MemoryFact
    BY <1>0, <1>1, <2>1, <2>3 DEF MemoryFact
  <2> QED
    BY <2>1, <2>2, <2>4, KeptFacts DEF StepFacts
<1>2. CASE ReconcileRead(p)
  <2>1. UNCHANGED <<storeVars, kjob, launch, active, dispatched>> /\ loop[p].pc = "read"
    BY <1>2 DEF ReconcileRead, At
  <2>2. Goto(p, Polling(ActiveRows, {}, FALSE)) \/ Goto(p, [pc |-> "reap"])
    BY <1>2 DEF ReconcileRead
  <2>3. LoopFact
    BY <1>2, <2>1, <2>2, LoopOnly DEF Polling
  <2> QED
    BY <2>1, <2>3, KeptFacts DEF StepFacts
<1>3. CASE PollRelease(p)
  <2>1. UNCHANGED <<storeVars, kjob, launch, active, dispatched>>
    BY <1>3 DEF PollRelease
  <2> DEFINE l == Polling(loop[p].todo, loop[p].live, loop[p].out)
  <2>2. Goto(p, l) /\ l.pc = "poll"
    BY <1>3 DEF PollRelease, Polling
  <2> HIDE DEF l
  <2>3. LoopFact
    BY <1>3, <2>2, LoopOnly
  <2> QED
    BY <2>1, <2>3, KeptFacts DEF StepFacts
<1>4. CASE Publish(p)
  <2>1. UNCHANGED <<kjob, dispatched>> /\ Goto(p, [pc |-> "reap"])
    BY <1>4 DEF Publish
  <2>2. LoopFact
    BY <1>4, <2>1, LoopOnly
  <2>3. active' = [active EXCEPT ![p] = PublishedLive(p)]
    BY <1>4 DEF Publish
  <2>4. \A q \in Pods \ {p} : active'[q] = active[q]
    BY <1>0, <2>3
  <2>5. MemoryFact
    BY <1>4, <2>1, <2>4 DEF MemoryFact
  <2>6. DrainFrom(p, "loop") \/ UNCHANGED <<storeVars, launch>>
    BY <1>4 DEF Publish
  <2>7. LaunchFact /\ OwnedFact
    BY <2>6, DrainFacts, KeptFacts
  <2> QED
    BY <2>1, <2>2, <2>5, <2>7, KeptFacts DEF StepFacts
<1>5. ASSUME NEW j \in Jobs, Poll(p, j) PROVE StepFacts
  <2>1. UNCHANGED <<storeVars, kjob, launch, active, dispatched>> /\ loop[p].pc = "poll"
    BY <1>5 DEF Poll, At
  <2>2. \E T, L, o : \/ Goto(p, Polling(T, L, o))
                     \/ Goto(p, [pc |-> "polled", todo |-> T, live |-> L, out |-> o, cur |-> j])
    BY <1>5 DEF Poll
  <2>3. PICK l : Goto(p, l) /\ l.pc \in {"poll", "polled"}
    BY <2>2 DEF Polling
  <2>4. LoopFact
    BY <1>5, <2>3, LoopOnly
  <2> QED
    BY <2>1, <2>4, KeptFacts DEF StepFacts
<1> QED
  BY <1>1, <1>2, <1>3, <1>4, <1>5 DEF ReconcileStep

\* The next row is looked at.
LEMMA NextRowPlace == \A l, R : NextRow(l, R).pc = "reaping"
BY DEF NextRow, Reaping

\* A row goes on to its next place.
LEMMA RowPlace ==
    ASSUME KInv, NEW p \in Pods, NEW pc \in ReapPcs, At(p, pc)
    PROVE  \A x : [loop[p] EXCEPT !.pc = x].pc = x
<1>1. loop[p] \in LoopState /\ loop[p].pc \in ReapPcs
  BY AtRow
<1>2. loop[p] \in [pc : ReapPcs, todo : SUBSET Jobs, lost : SUBSET Jobs,
                   reaped : SUBSET Jobs, cur : Jobs, outcome : Outcomes]
  BY <1>1, LoopFields
<1> QED
  BY <1>2

\* The steps of a reap.
LEMMA ReapFacts ==
    ASSUME KInv, NEW p \in Pods, ReapStep(p)
    PROVE  StepFacts
<1>1. CASE ReapRead(p)
  <2>1. UNCHANGED <<storeVars, kjob, launch, active, dispatched>>
    BY <1>1 DEF ReapRead
  <2>2. \E T, L : Goto(p, Reaping(T, L, {})) \/ Goto(p, HeldRow(T))
    BY <1>1 DEF ReapRead, HeldRow
  <2>3. PICK l : Goto(p, l) /\ l.pc \in {"reaping", "held"}
    BY <2>2 DEF Reaping, HeldRow
  <2>4. LoopFact
    BY <2>3, LoopElsewhere
  <2> QED
    BY <2>1, <2>4, KeptFacts DEF StepFacts
<1>2. ASSUME NEW j \in Jobs, Observe(p, j) PROVE StepFacts
  <2>1. UNCHANGED <<storeVars, kjob, launch, active, dispatched>>
    BY <1>2 DEF Observe
  <2>2. \E pc \in {"verify", "verdict"} : \E o, T, L, R :
           Goto(p, WithOutcome(loop[p], j, pc, o)) \/ Goto(p, Reaping(T, L, R))
    BY <1>2 DEF Observe
  <2>3. PICK l : Goto(p, l) /\ l.pc \in {"reaping", "verify", "verdict"}
    BY <2>2 DEF Reaping, WithOutcome
  <2>4. LoopFact
    BY <2>3, LoopElsewhere
  <2> QED
    BY <2>1, <2>4, KeptFacts DEF StepFacts
<1>3. CASE Verify(p)
  <2>1. UNCHANGED <<storeVars, kjob, launch, active, dispatched>>
    BY <1>3 DEF Verify
  <2>2. Goto(p, [loop[p] EXCEPT !.pc = "repair"]) \/ Goto(p, NextRow(loop[p], {}))
    BY <1>3 DEF Verify
  <2>3. [loop[p] EXCEPT !.pc = "repair"].pc = "repair"
    BY <1>3, RowPlace DEF Verify, ReapPcs
  <2>4. LoopFact
    BY <2>2, <2>3, NextRowPlace, LoopElsewhere
  <2> QED
    BY <2>1, <2>4, KeptFacts DEF StepFacts
<1>4. CASE Repair(p)
  <2>1. UNCHANGED <<kjob, launch, active, dispatched>>
    BY <1>4 DEF Repair
  <2>2. Goto(p, [loop[p] EXCEPT !.pc = "verdict"]) \/ Goto(p, NextRow(loop[p], {}))
    BY <1>4 DEF Repair
  <2>3. [loop[p] EXCEPT !.pc = "verdict"].pc = "verdict"
    BY <1>4, RowPlace DEF Repair, ReapPcs
  <2>4. LoopFact
    BY <2>2, <2>3, NextRowPlace, LoopElsewhere
  <2>5. OwnedFact
    BY <1>4 DEF OwnedFact
  <2> QED
    BY <2>1, <2>4, <2>5, KeptFacts DEF StepFacts
<1>5. CASE Verdict(p)
  <2>1. UNCHANGED <<kjob, launch, active, dispatched>>
    BY <1>5 DEF Verdict
  <2>2. Goto(p, [loop[p] EXCEPT !.pc = "hook"]) \/ Goto(p, NextRow(loop[p], Failing(loop[p])))
    BY <1>5 DEF Verdict
  <2>3. At(p, "verdict") /\ "verdict" \in ReapPcs
    BY <1>5 DEF Verdict, ReapPcs
  <2>4. [loop[p] EXCEPT !.pc = "hook"].pc = "hook" /\ loop[p].cur \in Jobs
    BY <2>3, RowPlace, AtRow
  <2>5. LoopFact
    BY <2>2, <2>4, NextRowPlace, LoopElsewhere
  <2>6. OwnedFact
    BY <1>5, <2>4, OwnedShrinks, KeptFacts DEF Verdict
  <2> QED
    BY <2>1, <2>5, <2>6, KeptFacts DEF StepFacts
<1>6. CASE Hook(p)
  <2>1. UNCHANGED <<kjob, active, dispatched>> /\ DrainFrom(p, "loop")
        /\ Goto(p, NextRow(loop[p], Failing(loop[p])))
    BY <1>6 DEF Hook
  <2>2. LoopFact
    BY <2>1, NextRowPlace, LoopElsewhere
  <2> QED
    BY <2>1, <2>2, DrainFacts, KeptFacts DEF StepFacts
<1>7. CASE ReapEnd(p)
  <2>1. UNCHANGED <<kjob, active, dispatched>> /\ Goto(p, HeldRow(held[p]))
    BY <1>7 DEF ReapEnd, HeldRow
  <2>2. DrainFrom(p, "loop") \/ UNCHANGED <<storeVars, launch>>
    BY <1>7 DEF ReapEnd
  <2>3. LoopFact
    BY <2>1, LoopElsewhere DEF HeldRow
  <2>4. LaunchFact /\ OwnedFact
    BY <2>2, DrainFacts, KeptFacts
  <2> QED
    BY <2>1, <2>3, <2>4, KeptFacts DEF StepFacts
<1> QED
  BY <1>1, <1>2, <1>3, <1>4, <1>5, <1>6, <1>7 DEF ReapStep

\* The held credentials and the sweep.
LEMMA SweepFacts ==
    ASSUME KInv, NEW p \in Pods, SweepStep(p)
    PROVE  StepFacts
<1>1. CASE HeldRelease(p)
  <2>1. UNCHANGED <<storeVars, kjob, launch, active, dispatched>> /\ Goto(p, HeldRow(loop[p].todo))
    BY <1>1 DEF HeldRelease
  <2>2. LoopFact
    BY <2>1, LoopElsewhere DEF HeldRow
  <2> QED
    BY <2>1, <2>2, KeptFacts DEF StepFacts
<1>2. ASSUME NEW j \in Jobs, HeldProbe(p, j) PROVE StepFacts
  <2>1. UNCHANGED <<storeVars, kjob, launch, active, dispatched>>
    BY <1>2 DEF HeldProbe
  <2>2. \E T : Goto(p, [pc |-> "gone", todo |-> T, cur |-> j]) \/ Goto(p, HeldRow(T))
    BY <1>2 DEF HeldProbe
  <2>3. PICK l : Goto(p, l) /\ l.pc \in {"gone", "held"}
    BY <2>2 DEF HeldRow
  <2>4. LoopFact
    BY <2>3, LoopElsewhere
  <2> QED
    BY <2>1, <2>4, KeptFacts DEF StepFacts
<1>3. CASE SweepRead(p)
  <2>1. UNCHANGED <<storeVars, kjob, launch, active, dispatched>> /\ loop[p].pc = "held"
    BY <1>3 DEF SweepRead, At
  <2>2. PICK l : Goto(p, l) /\ l.pc \in {"list", "idle"}
    BY <1>3 DEF SweepRead, IdleLoop
  <2>3. LoopFact
    BY <1>3, <2>2, LoopOnly
  <2> QED
    BY <2>1, <2>3, KeptFacts DEF StepFacts
<1>4. CASE SweepList(p)
  <2>1. UNCHANGED <<storeVars, kjob, launch, active, dispatched>>
    BY <1>4 DEF SweepList
  <2>2. PICK l : Goto(p, l) /\ l.pc \in {"sweep", "idle"}
    BY <1>4 DEF SweepList, IdleLoop
  <2>3. LoopFact
    BY <1>4, <2>2, LoopOnly
  <2> QED
    BY <2>1, <2>3, KeptFacts DEF StepFacts
<1>5. ASSUME NEW n \in Names, SweepDelete(p, n) PROVE StepFacts
  <2>1. UNCHANGED <<storeVars, launch, active, dispatched>>
    BY <1>5 DEF SweepDelete
  <2>2. loop[p] \in LoopState /\ loop[p].pc = "sweep"
    BY <1>5 DEF SweepDelete, At, KInv, LoopsOK
  <2>3. loop[p] \in [pc : {"sweep"}, todo : SUBSET Names]
    BY <2>2, LoopFields
  <2> DEFINE l == [loop[p] EXCEPT !.todo = @ \ {n}]
  <2>4. Goto(p, l)
    BY <1>5 DEF SweepDelete
  <2>5. l.pc = "sweep"
    BY <2>3
  <2> HIDE DEF l
  <2>6. LoopFact
    BY <2>2, <2>4, <2>5, LoopOnly
  <2>7. kjob' = kjob \/ kjob' = [kjob EXCEPT ![n] = NoJob]
    BY <1>5 DEF SweepDelete
  <2> QED
    BY <2>1, <2>6, <2>7, JobOnly, KeptFacts DEF StepFacts
<1>6. CASE TickEnd(p)
  <2>1. UNCHANGED <<storeVars, kjob, launch, active, dispatched>> /\ Goto(p, IdleLoop)
    BY <1>6 DEF TickEnd
  <2>2. LoopFact
    BY <2>1, LoopElsewhere DEF IdleLoop
  <2> QED
    BY <2>1, <2>2, KeptFacts DEF StepFacts
<1> QED
  BY <1>1, <1>2, <1>3, <1>4, <1>5, <1>6 DEF SweepStep

\* The environment.
LEMMA EnvironmentFacts ==
    ASSUME KInv, ClusterStep \/ \E p \in Pods : CrashRestart(p) \/ ResetPool(p)
    PROVE  StepFacts
<1>1. CASE ClusterStep
  <2>1. UNCHANGED <<storeVars, launch, active, dispatched, loop>>
    BY <1>1 DEF ClusterStep, JobFinishes, JobCollected, JobAges
  <2>2. PICK n \in Names : JobFinishes(n) \/ JobCollected(n) \/ JobAges(n)
    BY <1>1 DEF ClusterStep
  <2>0. kjob \in [Names -> JobRecord] /\ kjob[n] \in JobRecord
    BY DEF KInv, JobsOK
  <2>3. CASE JobFinishes(n)
    <3>1. PICK s \in {"succeeded", "failed"} : kjob' = [kjob EXCEPT ![n].st = s]
      BY <2>3 DEF JobFinishes
    <3>2. kjob[n] \in JobObject
      BY <2>0, <2>3 DEF JobFinishes, JobRecord, NoJob
    <3>3. kjob[n] # NoJob /\ kjob'[n].old = kjob[n].old
      BY <2>0, <3>1, <3>2 DEF JobObject, NoJob
    <3>4. \A m \in Names \ {n} : kjob'[m] = kjob[m]
      BY <2>0, <3>1
    <3> QED
      BY <2>1, <3>3, <3>4, KeptFacts DEF StepFacts, JobFact
  <2>4. CASE JobCollected(n)
    BY <2>1, <2>4, JobOnly, KeptFacts DEF StepFacts, JobCollected
  <2>5. CASE JobAges(n)
    <3>1. \A m \in Names \ {n} : kjob'[m] = kjob[m]
      BY <2>0, <2>5 DEF JobAges
    <3> QED
      BY <2>1, <2>5, <3>1, KeptFacts DEF StepFacts, JobFact
  <2> QED
    BY <2>2, <2>3, <2>4, <2>5
<1>2. ASSUME NEW p \in Pods, CrashRestart(p) PROVE StepFacts
  <2>1. UNCHANGED kjob
    BY <1>2 DEF CrashRestart
  <2>2. PICK S \in SUBSET Queued :
           /\ Drain(S)
           /\ launch' = [j \in Jobs |-> IF j \in S THEN Granted(p, "request")
                                        ELSE IF launch[j] # NoLaunch /\ launch[j].pod = p
                                             THEN NoLaunch ELSE launch[j]]
    BY <1>2 DEF CrashRestart
  <2>3. OwnedFact
    BY <2>2, OwnedShrinks
  <2>4. \A j \in Jobs : launch'[j].pc = "created" => launch[j].pc = "created"
    BY <2>2, GrantedType DEF NoLaunch
  <2>5. LaunchFact
    BY <1>2, <2>4 DEF LaunchFact
  <2>6. /\ active' = [active EXCEPT ![p] = {}] /\ dispatched' = [dispatched EXCEPT ![p] = {}]
        /\ Goto(p, IdleLoop)
    BY <1>2 DEF CrashRestart, Goto
  <2>7. MemoryFact
    BY <1>2, <2>6 DEF MemoryFact, KInv, MemoryOK
  <2>8. LoopFact
    BY <2>6, LoopElsewhere DEF IdleLoop
  <2> QED
    BY <2>1, <2>3, <2>5, <2>7, <2>8, KeptFacts DEF StepFacts
<1>3. ASSUME NEW p \in Pods, ResetPool(p) PROVE StepFacts
  <2>1. UNCHANGED <<storeVars, kjob, launch, active, dispatched, loop>>
    BY <1>3 DEF ResetPool
  <2> QED
    BY <2>1, KeptFacts DEF StepFacts
<1> QED
  BY <1>1, <1>2, <1>3

\* Every step.
LEMMA NextFacts ==
    ASSUME KInv, [Next]_vars
    PROVE  StepFacts
<1>1. CASE UNCHANGED vars
  <2>1. UNCHANGED <<storeVars, kjob, launch, active, dispatched, loop>>
    BY <1>1 DEF vars, kubeVars
  <2> QED
    BY <2>1, KeptFacts DEF StepFacts
<1>2. CASE \E j \in Jobs : StopStep(j)
  <2>1. PICK j \in Jobs : StopStep(j)
    BY <1>2
  <2>2. stop[j].pc # "none"
    <3>1. CASE StopDelete(j)
      BY <3>1 DEF StopDelete
    <3>2. CASE StopMark(j)
      BY <3>2 DEF StopMark
    <3>3. CASE StopRelease(j)
      BY <3>3 DEF StopRelease
    <3> QED
      BY <2>1, <3>1, <3>2, <3>3 DEF StopStep
  <2>3. stop[j].pod \in Pods
    BY <2>2 DEF KInv, StopsOK, StopRecord, NoStop
  <2> QED
    BY <2>1, <2>3, RequestFacts
<1> QED
  BY <1>1, <1>2, LaunchStepFacts, RequestFacts, ReconcileFacts, ReapFacts, SweepFacts,
     EnvironmentFacts DEF Next, LoopStep

-----------------------------------------------------------------------------
(* One replica: the invariant and the two theorems *)

\* The Job of a launch that is not yet recorded stays young.
LEMMA CreatedStaysYoung ==
    ASSUME RInv, [Next]_vars
    PROVE  CreatedYoung'
<1> SUFFICES ASSUME NEW j \in Jobs, launch'[j].pc = "created",
                    kjob'[JobName[j]] # NoJob, kjob'[JobName[j]].old
             PROVE  FALSE
  BY DEF CreatedYoung
<1>1. JobName[j] \in Names /\ kjob \in [Names -> JobRecord]
  BY Named DEF RInv, KInv, JobsOK
<1>2. LaunchFact /\ JobFact
  BY NextFacts DEF RInv, StepFacts
<1>3. CASE CreateJob(j)
  <2>1. kjob'[JobName[j]] = NewJob(j)
    BY <1>1, <1>3 DEF CreateJob
  <2> QED
    BY <2>1 DEF NewJob
<1>4. CASE launch[j].pc = "created"
  <2>1. ~(kjob[JobName[j]] # NoJob /\ kjob[JobName[j]].old)
    BY <1>4 DEF RInv, CreatedYoung
  <2>2. JobAges(JobName[j])
    BY <1>1, <1>2, <2>1 DEF JobFact
  <2> QED
    BY <1>4, <2>2 DEF JobAges
<1> QED
  BY <1>2, <1>3, <1>4 DEF LaunchFact

\* A repair is made by the only loop there is.
LEMMA RepairsAlone ==
    ASSUME RInv, NEW p \in Pods, NEW q \in Pods, Repair(q)
    PROVE  loop'[p].pc \in {"verdict", "reaping"}
<1>1. KInv /\ p = q
  BY DEF RInv, OneReplica
<1>2. Goto(p, [loop[p] EXCEPT !.pc = "verdict"]) \/ Goto(p, NextRow(loop[p], {}))
  BY <1>1 DEF Repair
<1>3. [loop[p] EXCEPT !.pc = "verdict"].pc = "verdict"
  BY <1>1, RowPlace DEF Repair, ReapPcs
<1>4. PICK l : Goto(p, l) /\ l.pc \in {"verdict", "reaping"}
  BY <1>2, <1>3, NextRowPlace
<1> QED
  BY <1>1, <1>4 DEF Goto, KInv, LoopsOK

\* Between the sweep's two reads a row's Job that was not seen stays young.
LEMMA ListedStaysYoung ==
    ASSUME RInv, [Next]_vars
    PROVE  ListedYoung'
<1> SUFFICES ASSUME NEW p \in Pods, NEW j \in Jobs, loop'[p].pc = "list", OwnedByJob(j)',
                    JobName[j] \notin loop'[p].owned,
                    kjob'[JobName[j]] # NoJob, kjob'[JobName[j]].old
             PROVE  FALSE
  BY DEF ListedYoung
<1>0. KInv /\ StepFacts /\ JobName[j] \in Names
  BY NextFacts, Named DEF RInv
<1>1. ~\E q \in Pods : Repair(q)
  BY RepairsAlone
<1>2. CASE SweepRead(p)
  <2>1. UNCHANGED row
    BY <1>2 DEF SweepRead, storeVars
  <2>2. j \in ActiveRows
    BY <2>1 DEF OwnedByJob, ActiveRows, Running
  <2>3. Goto(p, [pc |-> "list", owned |-> {JobName[k] : k \in ActiveRows}]) \/ Goto(p, IdleLoop)
    BY <1>2 DEF SweepRead
  <2>4. \/ loop'[p] = [pc |-> "list", owned |-> {JobName[k] : k \in ActiveRows}]
        \/ loop'[p] = IdleLoop
    BY <1>0, <2>3 DEF Goto, KInv, LoopsOK
  <2>5. loop'[p].owned = {JobName[k] : k \in ActiveRows}
    BY <2>4 DEF IdleLoop
  <2> QED
    BY <2>2, <2>5
<1>3. CASE loop'[p] = loop[p]
  <2>1. ~JobAges(JobName[j])
    BY <1>3 DEF JobAges
  <2>2. kjob[JobName[j]] # NoJob /\ kjob[JobName[j]].old
    BY <1>0, <2>1 DEF StepFacts, JobFact
  <2>3. ~OwnedByJob(j)
    BY <1>3, <2>2 DEF RInv, ListedYoung
  <2>4. WriteRef(j)
    BY <1>0, <1>1, <2>3 DEF StepFacts, OwnedFact
  <2>5. launch[j].pc = "created"
    BY <2>4 DEF WriteRef
  <2> QED
    BY <2>2, <2>5 DEF RInv, CreatedYoung
<1> QED
  BY <1>0, <1>2, <1>3 DEF StepFacts, LoopFact

\* A pass keeps what it knows.
LEMMA PassStillKnows ==
    ASSUME RInv, [Next]_vars
    PROVE  PassKnows'
<1> SUFFICES ASSUME NEW p \in Pods, NEW j \in Jobs, loop'[p].pc \in {"poll", "polled"},
                    j \in active'[p], OwnedByJob(j)', launch'[j].pc # "recorded"
             PROVE  j \in loop'[p].todo \cup loop'[p].live \cup dispatched'[p]
  BY DEF PassKnows
<1>0. KInv /\ StepFacts
  BY NextFacts DEF RInv
<1>1. ~\E q \in Pods : Repair(q)
  BY RepairsAlone
<1>2. ~\E q \in Pods : CrashRestart(q)
  <2>1. ASSUME NEW q \in Pods, CrashRestart(q) PROVE loop'[p].pc = "idle"
    BY <1>0, <2>1 DEF CrashRestart, RInv, OneReplica, KInv, LoopsOK, IdleLoop
  <2> QED
    BY <2>1
<1>3. ~Publish(p) /\ ~ReconcileBegin(p)
  BY <1>0 DEF Publish, ReconcileBegin, Goto, KInv, LoopsOK
<1>4. ~WriteRef(j)
  <2>1. ASSUME WriteRef(j) PROVE launch'[j].pc = "recorded"
    <3>1. launch[j].pc = "created" /\ launch' = [launch EXCEPT ![j].pc = "recorded"]
      BY <2>1 DEF WriteRef
    <3>2. launch \in [Jobs -> LaunchRecord] /\ launch[j] \in LaunchRecord
      BY <1>0 DEF KInv, LaunchesOK
    <3>3. launch[j] \in Dispatch
      BY <3>1, <3>2, LaunchFields DEF DispatchPcs
    <3> QED
      BY <3>1, <3>2, <3>3 DEF Dispatch
  <2> QED
    BY <2>1
<1>5. OwnedByJob(j)
  BY <1>0, <1>1, <1>4 DEF StepFacts, OwnedFact
<1>6. CASE MarkLive(j)
  <2>1. launch[j].pc = "recorded" /\ launch[j] \in LaunchRecord
    BY <1>0, <1>6 DEF MarkLive, KInv, LaunchesOK
  <2>2. launch[j].pod \in Pods
    BY <2>1, LaunchFields
  <2>3. launch[j].pod = p
    BY <2>2 DEF RInv, OneReplica
  <2>4. dispatched' = [dispatched EXCEPT ![p] = @ \cup {j}]
    BY <1>6, <2>3 DEF MarkLive
  <2> QED
    BY <1>0, <2>4 DEF KInv, MemoryOK
<1>7. CASE ~MarkLive(j)
  <2>1. j \in active[p] /\ launch[j].pc # "recorded"
    BY <1>0, <1>2, <1>3, <1>7 DEF StepFacts, MemoryFact, LaunchFact
  <2>2. j \in dispatched[p] => j \in dispatched'[p]
    BY <1>0, <1>2, <1>3 DEF StepFacts, MemoryFact
  <2>3. loop[p].pc \in {"poll", "polled"} => j \in loop[p].todo \cup loop[p].live \cup dispatched[p]
    BY <1>5, <2>1 DEF RInv, PassKnows
  <2>4. CASE loop'[p] = loop[p]
    BY <2>2, <2>3, <2>4
  <2>5. CASE ReconcileRead(p)
    <3>1. j \in ActiveRows
      BY <1>5 DEF OwnedByJob, ActiveRows, Running
    <3>2. Goto(p, Polling(ActiveRows, {}, FALSE)) \/ Goto(p, [pc |-> "reap"])
      BY <2>5 DEF ReconcileRead
    <3>3. loop'[p] = Polling(ActiveRows, {}, FALSE) \/ loop'[p] = [pc |-> "reap"]
      BY <1>0, <3>2 DEF Goto, KInv, LoopsOK
    <3>4. loop'[p].todo = ActiveRows
      BY <3>3 DEF Polling
    <3> QED
      BY <3>1, <3>4
  <2>6. CASE PollRelease(p)
    <3>1. loop[p].pc = "polled" /\ Goto(p, Polling(loop[p].todo, loop[p].live, loop[p].out))
      BY <2>6 DEF PollRelease, At
    <3>2. loop'[p] = Polling(loop[p].todo, loop[p].live, loop[p].out)
      BY <1>0, <3>1 DEF Goto, KInv, LoopsOK
    <3>3. loop'[p].todo = loop[p].todo /\ loop'[p].live = loop[p].live
      BY <3>2 DEF Polling
    <3> QED
      BY <2>2, <2>3, <3>1, <3>3
  <2>7. ASSUME NEW k \in Jobs, Poll(p, k)
        PROVE  j \in loop'[p].todo \cup loop'[p].live \cup dispatched'[p]
    <3> DEFINE l == loop[p]
               T == l.todo \ {k}
               A == active[p] \cap {k}
    <3>1. loop[p].pc = "poll"
      BY <2>7 DEF Poll, At
    <3>2. \/ /\ row[k].state \in TerminalStates
             /\ Goto(p, [pc |-> "polled", todo |-> T, live |-> l.live, out |-> TRUE, cur |-> k])
          \/ Goto(p, Polling(T, l.live \cup {k}, l.out))
          \/ Goto(p, Polling(T, l.live \cup A, l.out))
      BY <2>7 DEF Poll
    <3> HIDE DEF l, T, A
    <3>3. \/ /\ row[k].state \in TerminalStates
             /\ loop'[p] = [pc |-> "polled", todo |-> T, live |-> l.live, out |-> TRUE, cur |-> k]
          \/ loop'[p] = Polling(T, l.live \cup {k}, l.out)
          \/ loop'[p] = Polling(T, l.live \cup A, l.out)
      BY <1>0, <3>2 DEF Goto, KInv, LoopsOK
    <3>4. \/ row[k].state \in TerminalStates /\ loop'[p].todo = T /\ loop'[p].live = l.live
          \/ loop'[p].todo = T /\ loop'[p].live = l.live \cup {k}
          \/ loop'[p].todo = T /\ loop'[p].live = l.live \cup A
      BY <3>3 DEF Polling
    <3>5. row[k].state \in TerminalStates => k # j
      BY <1>5 DEF OwnedByJob, TerminalStates, EndedStates
    <3>6. j \in l.todo \cup l.live \cup dispatched[p]
      BY <2>3, <3>1 DEF l
    <3> QED
      BY <2>1, <2>2, <3>4, <3>5, <3>6 DEF T, A
  <2> QED
    BY <1>0, <2>4, <2>5, <2>6, <2>7 DEF StepFacts, LoopFact
<1> QED
  BY <1>6, <1>7

\* The invariant of a single replica.
LEMMA NextRInv ==
    ASSUME RInv, [Next]_vars
    PROVE  RInv'
<1>1. KInv'
  BY NextTyped DEF RInv
<1>2. OneReplica'
  BY DEF RInv, OneReplica
<1> QED
  BY <1>1, <1>2, CreatedStaysYoung, ListedStaysYoung, PassStillKnows DEF RInv

\* It holds at first.
LEMMA InitRInv == OneReplica /\ Init => RInv
BY InitTyped DEF RInv, Init, CreatedYoung, ListedYoung, PassKnows, NoLaunch, IdleLoop

\* agent_kubejob.py:517-520 and :893-902 -- in a deployment of one replica, no
\* reconcile pass drops a live build whose row is a running Job's from the live
\* set, whatever was dispatched, stopped, lost or crashed while it was reading.
THEOREM LiveBuildsStayKnown == OneReplica /\ Spec => LiveBuildStaysKnown
<1> DEFINE Known == \A p \in Pods, j \in Jobs :
                       /\ loop[p].pc = "poll" /\ loop'[p].pc = "reap"
                       /\ j \in active[p] \ active'[p]
                       => ~OwnedByJob(j) \/ launch[j] # NoLaunch
<1>1. RInv /\ [Next]_vars => [Known]_vars
  <2> SUFFICES ASSUME RInv, [Next]_vars, NEW p \in Pods, NEW j \in Jobs,
                      loop[p].pc = "poll", loop'[p].pc = "reap", j \in active[p] \ active'[p],
                      OwnedByJob(j), launch[j] = NoLaunch
               PROVE  FALSE
    OBVIOUS
  <2>1. KInv /\ StepFacts
    BY NextFacts DEF RInv
  <2>2. Publish(p)
    BY <2>1 DEF StepFacts, LoopFact
  <2>3. active'[p] = loop[p].live \cup dispatched[p] /\ loop[p].todo = {}
    BY <2>1, <2>2 DEF Publish, PublishedLive, KInv, MemoryOK
  <2>4. launch[j].pc # "recorded"
    BY DEF NoLaunch
  <2>5. j \in loop[p].todo \cup loop[p].live \cup dispatched[p]
    BY <2>4 DEF RInv, PassKnows
  <2> QED
    BY <2>3, <2>5
<1>2. RInv /\ [Next]_vars => RInv'
  BY NextRInv
<1> QED
  BY <1>1, <1>2, InitRInv, PTL DEF Spec, LiveBuildStaysKnown

\* build_backend.py:1673 -- in a deployment of one replica, a sweep never picks
\* the Job of a build that runs, although it reads rows and Jobs at different
\* times and launches, stops and Jobs go on in between.
THEOREM SweepSparesBuilds == OneReplica /\ Spec => SweepListsOnlyOrphans
<1> DEFINE Orphans == \A p \in Pods, j \in Jobs :
                         loop[p].pc = "list" /\ loop'[p].pc = "sweep"
                         /\ JobName[j] \in loop'[p].todo
                         => ~OwnedByJob(j)
<1>1. RInv /\ [Next]_vars => [Orphans]_vars
  <2> SUFFICES ASSUME RInv, [Next]_vars, NEW p \in Pods, NEW j \in Jobs,
                      loop[p].pc = "list", loop'[p].pc = "sweep", JobName[j] \in loop'[p].todo,
                      OwnedByJob(j)
               PROVE  FALSE
    OBVIOUS
  <2>1. KInv /\ StepFacts
    BY NextFacts DEF RInv
  <2>2. SweepList(p)
    BY <2>1 DEF StepFacts, LoopFact
  <2>3. Goto(p, [pc |-> "sweep", todo |-> Sweepable(p)]) \/ Goto(p, IdleLoop)
    BY <2>2 DEF SweepList
  <2>4. loop'[p] = [pc |-> "sweep", todo |-> Sweepable(p)] \/ loop'[p] = IdleLoop
    BY <2>1, <2>3 DEF Goto, KInv, LoopsOK
  <2>5. loop'[p].todo = Sweepable(p)
    BY <2>4 DEF IdleLoop
  <2>6. /\ kjob[JobName[j]] # NoJob /\ kjob[JobName[j]].old
        /\ JobName[j] \notin loop[p].owned
    BY <2>5 DEF Sweepable
  <2> QED
    BY <2>6 DEF RInv, ListedYoung
<1>2. RInv /\ [Next]_vars => RInv'
  BY NextRInv
<1> QED
  BY <1>1, <1>2, InitRInv, PTL DEF Spec, SweepListsOnlyOrphans
=============================================================================
