------------------------ MODULE JobStateStore_proofs ------------------------
(***************************************************************************)
(* Theorems about the job-state store, for any set of jobs, any owners and *)
(* any cap: the type invariant, the coherence of every row (with k8s Jobs  *)
(* too), and, for the subprocess backend, the admission cap and the        *)
(* stability of a claim.                                                   *)
(***************************************************************************)
EXTENDS JobStateStore, FiniteSetTheorems, TLAPS

USE DEF ActiveStates, EndedStates, TerminalStates, LifecycleStates, RefKinds

-----------------------------------------------------------------------------
(* Types *)

\* A reset row is a row.
LEMMA AdmittedRowType ==
    ASSUME NEW grant \in BOOLEAN
    PROVE  AdmittedRow(grant) \in Row
BY DEF AdmittedRow, Row

\* What mark_terminal writes is a row.
LEMMA EndedRowType ==
    ASSUME NEW r \in Row, NEW s \in TerminalStates, NEW err \in BOOLEAN
    PROVE  EndedRow(r, s, err) \in Row
<1> DEFINE e == r.error \/ err \/ s \in {"failed", "stuck"}
           d == r.ended \/ s \in EndedStates
<1>1. e \in BOOLEAN /\ d \in BOOLEAN
  OBVIOUS
<1>2. EndedRow(r, s, err) = [r EXCEPT !.state = s, !.error = e, !.ended = d]
  BY Zenon DEF EndedRow
<1> HIDE DEF e, d
<1>3. [r EXCEPT !.state = s, !.error = e, !.ended = d] \in Row
  BY <1>1 DEF Row
<1> QED BY <1>2, <1>3

\* Every transaction of the subprocess backend keeps the types.
LEMMA SubprocessStepType ==
    ASSUME StoreTypeOK, SubprocessStep
    PROVE  StoreTypeOK'
<1> USE DEF StoreTypeOK
<1>1. ASSUME NEW j \in Jobs, Admit(j) PROVE StoreTypeOK'
  <2>1. HasFreeSlot \in BOOLEAN
    BY DEF HasFreeSlot
  <2>2. row' \in [Jobs -> Row]
    BY <1>1, <2>1, AdmittedRowType DEF Admit
  <2>3. olderThan' \subseteq Jobs \X Jobs /\ enqueued' \subseteq Jobs \X Jobs
    BY <1>1 DEF Admit, StampCreated, Existing, Queued
  <2> QED BY <1>1, <2>2, <2>3 DEF Admit
<1>2. ASSUME NEW j \in Jobs, NEW o \in Owners, MarkRunning(j, o) PROVE StoreTypeOK'
  BY <1>2 DEF MarkRunning, Row
<1>3. ASSUME NEW j \in Jobs, NEW o \in Owners, FailSubprocessRow(j, o) PROVE StoreTypeOK'
  BY <1>3 DEF FailSubprocessRow, Row
<1>4. ASSUME NEW S \in SUBSET Jobs, Drain(S) PROVE StoreTypeOK'
  BY <1>4 DEF Drain, Row
<1>5. ASSUME NEW j \in Jobs, NEW s \in TerminalStates, NEW err \in BOOLEAN,
             MarkTerminal(j, s, err)
      PROVE  StoreTypeOK'
  <2>1. row' \in [Jobs -> Row]
    BY <1>5, EndedRowType DEF MarkTerminal
  <2> QED BY <1>5, <2>1 DEF MarkTerminal, Unqueue
<1>6. ASSUME NEW j \in Jobs, RemoveQueuedRead(j) PROVE StoreTypeOK'
  BY <1>6 DEF RemoveQueuedRead
<1>7. ASSUME NEW j \in Jobs, RemoveQueuedDelete(j) PROVE StoreTypeOK'
  BY <1>7 DEF RemoveQueuedDelete, NoRow, Row, Unqueue
<1>8. ASSUME NEW S \in SUBSET removing, RemoveQueuedAbort(S) PROVE StoreTypeOK'
  BY <1>8 DEF RemoveQueuedAbort
<1> QED BY <1>1, <1>2, <1>3, <1>4, <1>5, <1>6, <1>7, <1>8 DEF SubprocessStep

\* A k8s-Job reference is written to a row.
LEMMA SetWorkerRefType ==
    ASSUME StoreTypeOK, NEW j \in Jobs, SetWorkerRef(j)
    PROVE  StoreTypeOK'
BY DEF StoreTypeOK, SetWorkerRef, Row, Unqueue

\* The initial rows are absent rows.
LEMMA StoreInitType == StoreInit => StoreTypeOK
BY DEF StoreInit, StoreTypeOK, NoRow, Row

\* The store's variables keep their types under every interleaving of every
\* store operation, k8s Job references included.
THEOREM StoreTypeCorrect == StoreSpec => []StoreTypeOK
<1>1. StoreTypeOK /\ [StoreNext]_storeVars => StoreTypeOK'
  <2> SUFFICES ASSUME StoreTypeOK, [StoreNext]_storeVars PROVE StoreTypeOK'
    OBVIOUS
  <2>1. CASE SubprocessStep
    BY <2>1, SubprocessStepType
  <2>2. CASE \E j \in Jobs : SetWorkerRef(j)
    BY <2>2, SetWorkerRefType
  <2>3. CASE UNCHANGED storeVars
    BY <2>3 DEF storeVars, StoreTypeOK
  <2> QED BY <2>1, <2>2, <2>3 DEF StoreNext
<1> QED BY <1>1, StoreInitType, PTL DEF StoreSpec

-----------------------------------------------------------------------------
(* Row coherence *)

\* What admit writes is coherent, whatever was there before.
LEMMA AdmittedRowCoherent ==
    ASSUME NEW grant \in BOOLEAN
    PROVE  CoherentRow(AdmittedRow(grant))
BY DEF AdmittedRow, CoherentRow

\* mark_terminal keeps a row coherent from every state it may be in.
LEMMA EndedRowCoherent ==
    ASSUME NEW r \in Row, NEW s \in TerminalStates, NEW err \in BOOLEAN, CoherentRow(r)
    PROVE  CoherentRow(EndedRow(r, s, err))
<1> DEFINE e == r.error \/ err \/ s \in {"failed", "stuck"}
           d == r.ended \/ s \in EndedStates
           q == [r EXCEPT !.state = s, !.error = e, !.ended = d]
<1>1. EndedRow(r, s, err) = q
  BY Zenon DEF EndedRow
<1>2. s \in {"failed", "stuck"} => e /\ d
  OBVIOUS
<1>3. e \in BOOLEAN /\ d \in BOOLEAN
  OBVIOUS
<1> HIDE DEF e, d
<1>4. /\ q.state = s /\ q.kind = r.kind /\ q.owner = r.owner
      /\ q.error = e /\ q.ended = d
  BY <1>3 DEF Row
<1> HIDE DEF q
<1>5. CoherentRow(q)
  BY <1>2, <1>4 DEF CoherentRow
<1> QED BY <1>1, <1>5

\* One changed row at a time: the rest of the table is untouched.
LEMMA OneRowCoherent ==
    ASSUME StoreTypeOK, RowCoherent, NEW j \in Jobs, NEW r, CoherentRow(r),
           row' = [row EXCEPT ![j] = r]
    PROVE  RowCoherent'
BY DEF StoreTypeOK, RowCoherent

\* Every store operation keeps every row coherent.
LEMMA StoreNextCoherent ==
    ASSUME StoreTypeOK, RowCoherent, StoreNext
    PROVE  RowCoherent'
<1> USE DEF StoreTypeOK
<1>0. \A j \in Jobs : row[j] \in Row /\ CoherentRow(row[j])
  BY DEF RowCoherent
<1>1. ASSUME NEW j \in Jobs, Admit(j) PROVE RowCoherent'
  <2>1. HasFreeSlot \in BOOLEAN
    BY DEF HasFreeSlot
  <2> QED BY <1>1, <2>1, AdmittedRowCoherent, OneRowCoherent DEF Admit
<1>2. ASSUME NEW j \in Jobs, NEW o \in Owners, MarkRunning(j, o) PROVE RowCoherent'
  <2>1. CASE row[j].state = "running"
    <3> DEFINE r == [row[j] EXCEPT !.kind = "subprocess", !.owner = o]
    <3>1. CoherentRow(r)
      BY <1>0, <2>1, NoOwnerFresh DEF CoherentRow, Row
    <3>2. row' = [row EXCEPT ![j] = r]
      BY <1>2, <2>1 DEF MarkRunning
    <3> QED BY <3>1, <3>2, OneRowCoherent
  <2>2. CASE row[j].state # "running"
    BY <1>2, <2>2 DEF MarkRunning, RowCoherent
  <2> QED BY <2>1, <2>2
<1>3. ASSUME NEW j \in Jobs, NEW o \in Owners, FailSubprocessRow(j, o) PROVE RowCoherent'
  <2> DEFINE r == [row[j] EXCEPT !.state = "failed", !.error = TRUE, !.ended = TRUE]
  <2>1. CoherentRow(r)
    BY <1>0 DEF CoherentRow, Row
  <2>2. row' = [row EXCEPT ![j] = r]
    BY <1>3 DEF FailSubprocessRow
  <2> QED BY <2>1, <2>2, OneRowCoherent
<1>4. ASSUME NEW S \in SUBSET Jobs, Drain(S) PROVE RowCoherent'
  <2>1. \A j \in S : CoherentRow([row[j] EXCEPT !.state = "running", !.kind = "pending",
                                                 !.owner = NoOwner])
    <3> SUFFICES ASSUME NEW j \in S
                 PROVE  CoherentRow([row[j] EXCEPT !.state = "running", !.kind = "pending",
                                                   !.owner = NoOwner])
      OBVIOUS
    <3>1. row[j].state = "queued"
      BY <1>4 DEF Drain, Promotable, Queued
    <3> QED BY <1>0, <3>1 DEF CoherentRow, Row
  <2> QED BY <1>0, <1>4, <2>1 DEF Drain, RowCoherent
<1>5. ASSUME NEW j \in Jobs, NEW s \in TerminalStates, NEW err \in BOOLEAN,
             MarkTerminal(j, s, err)
      PROVE  RowCoherent'
  <2>1. CASE row[j].state = "absent"
    BY <1>5, <2>1 DEF MarkTerminal, RowCoherent
  <2>2. CASE row[j].state # "absent"
    <3>1. CoherentRow(EndedRow(row[j], s, err))
      BY <1>0, EndedRowCoherent
    <3>2. row' = [row EXCEPT ![j] = EndedRow(row[j], s, err)]
      BY <1>5, <2>2 DEF MarkTerminal
    <3> QED BY <3>1, <3>2, OneRowCoherent
  <2> QED BY <2>1, <2>2
<1>6. ASSUME NEW j \in Jobs, RemoveQueuedDelete(j) PROVE RowCoherent'
  <2>1. CoherentRow(NoRow)
    BY DEF CoherentRow, NoRow
  <2> QED BY <1>6, <2>1, OneRowCoherent DEF RemoveQueuedDelete
<1>7. ASSUME NEW j \in Jobs, SetWorkerRef(j) PROVE RowCoherent'
  <2>1. CASE row[j].state = "absent"
    BY <1>7, <2>1 DEF SetWorkerRef, RowCoherent
  <2>2. CASE row[j].state # "absent"
    <3> DEFINE r == [row[j] EXCEPT !.state = "running", !.kind = "k8s-job",
                                   !.owner = NoOwner, !.ended = FALSE]
    <3>1. CoherentRow(r)
      BY <1>0 DEF CoherentRow, Row
    <3>2. row' = [row EXCEPT ![j] = r]
      BY <1>7, <2>2 DEF SetWorkerRef
    <3> QED BY <3>1, <3>2, OneRowCoherent
  <2> QED BY <2>1, <2>2
<1>8. ASSUME UNCHANGED row PROVE RowCoherent'
  BY <1>8 DEF RowCoherent
<1> QED BY <1>1, <1>2, <1>3, <1>4, <1>5, <1>6, <1>7, <1>8
        DEF StoreNext, SubprocessStep, RemoveQueuedRead, RemoveQueuedAbort

\* Every row of the store stays coherent, whatever replicas call whatever
\* operations in whatever order, k8s Job references included.
THEOREM StoreRowsCoherent == StoreSpec => []RowCoherent
<1>1. StoreInit => RowCoherent
  BY DEF StoreInit, RowCoherent, CoherentRow, NoRow
<1>2. StoreTypeOK /\ RowCoherent /\ [StoreNext]_storeVars => RowCoherent'
  <2> SUFFICES ASSUME StoreTypeOK, RowCoherent, [StoreNext]_storeVars PROVE RowCoherent'
    OBVIOUS
  <2>1. CASE StoreNext
    BY <2>1, StoreNextCoherent
  <2>2. CASE UNCHANGED storeVars
    BY <2>2 DEF storeVars, RowCoherent
  <2> QED BY <2>1, <2>2
<1> QED BY <1>1, <1>2, StoreTypeCorrect, PTL DEF StoreSpec

-----------------------------------------------------------------------------
(* The admission cap *)

\* The running rows are finitely many, so their number is a number.
LEMMA RunningFinite == IsFiniteSet(Running) /\ Cardinality(Running) \in Nat
BY JobsFinite, FS_Subset, FS_CardinalityType DEF Running

\* So they are after a step.
LEMMA RunningFiniteNext == IsFiniteSet(Running') /\ Cardinality(Running') \in Nat
BY JobsFinite, FS_Subset, FS_CardinalityType DEF Running

\* A step that makes no further row running cannot break the cap.
LEMMA CapShrinks ==
    ASSUME AdmissionCap, Running' \subseteq Running
    PROVE  AdmissionCap'
<1>1. Cardinality(Running') <= Cardinality(Running)
  BY RunningFinite, FS_Subset
<1> QED BY <1>1, RunningFinite, RunningFiniteNext, CapInt DEF AdmissionCap

\* Only admit and drain make rows running, and both count under the lock.
LEMMA SubprocessStepCap ==
    ASSUME StoreTypeOK, AdmissionCap, SubprocessStep
    PROVE  AdmissionCap'
<1> USE DEF StoreTypeOK
<1>1. ASSUME NEW j \in Jobs, Admit(j) PROVE AdmissionCap'
  <2>1. CASE HasFreeSlot
    <3>1. Running' = Running \cup {j} /\ j \notin Running
      BY <1>1, <2>1 DEF Admit, AdmittedRow, Running
    <3>2. Cardinality(Running') = Cardinality(Running) + 1
      BY <3>1, RunningFinite, FS_AddElement
    <3> QED BY <2>1, <3>2, RunningFinite, CapInt DEF HasFreeSlot, AdmissionCap
  <2>2. CASE ~HasFreeSlot
    <3>1. Running' \subseteq Running
      BY <1>1, <2>2 DEF Admit, AdmittedRow, Running
    <3> QED BY <3>1, CapShrinks
  <2> QED BY <2>1, <2>2
<1>2. ASSUME NEW j \in Jobs, NEW o \in Owners, MarkRunning(j, o) PROVE AdmissionCap'
  <2>1. Running' \subseteq Running
    BY <1>2 DEF MarkRunning, Running, Row
  <2> QED BY <2>1, CapShrinks
<1>3. ASSUME NEW j \in Jobs, NEW o \in Owners, FailSubprocessRow(j, o) PROVE AdmissionCap'
  <2>1. Running' \subseteq Running
    BY <1>3 DEF FailSubprocessRow, Running, Row
  <2> QED BY <2>1, CapShrinks
<1>4. ASSUME NEW S \in SUBSET Jobs, Drain(S) PROVE AdmissionCap'
  <2>1. Running' = Running \cup S /\ S \cap Running = {}
    <3>1. \A j \in S : row[j].state = "queued" /\ row'[j].state = "running"
      BY <1>4 DEF Drain, Promotable, Queued, Row
    <3>2. \A j \in Jobs \ S : row'[j] = row[j]
      BY <1>4 DEF Drain
    <3> QED BY <3>1, <3>2 DEF Running
  <2>2. IsFiniteSet(S) /\ Cardinality(S) \in Nat
    BY JobsFinite, FS_Subset, FS_CardinalityType
  <2>3. Cardinality(Running') = Cardinality(Running) + Cardinality(S)
    <3>1. Cardinality(Running \cap S) = 0
      <4>1. Running \cap S = {}
        BY <2>1
      <4> QED BY <4>1, FS_EmptySet
    <3>2. Cardinality(Running \cup S) =
            Cardinality(Running) + Cardinality(S) - Cardinality(Running \cap S)
      BY <2>2, RunningFinite, FS_Union
    <3>3. Cardinality(Running') = Cardinality(Running \cup S)
      BY <2>1
    <3> QED BY <2>2, <3>1, <3>2, <3>3, RunningFinite
  <2>4. CASE S = {}
    BY <2>1, <2>4, CapShrinks
  <2>5. CASE S # {} /\ Cap > 0
    <3>1. Cardinality(Running) + Cardinality(S) <= Cap
      <4>1. \/ Cap <= 0
            \/ Cardinality(Running) + Cardinality(S) <= Cap \/ S = {}
        BY <1>4 DEF Drain, Promotable
      <4> QED BY <2>5, <4>1, CapInt
    <3> QED BY <2>3, <3>1 DEF AdmissionCap
  <2> QED BY <2>4, <2>5 DEF AdmissionCap
<1>5. ASSUME NEW j \in Jobs, NEW s \in TerminalStates, NEW err \in BOOLEAN,
             MarkTerminal(j, s, err)
      PROVE  AdmissionCap'
  <2>1. CASE row[j].state = "absent"
    BY <1>5, <2>1, CapShrinks DEF MarkTerminal, Running
  <2>2. CASE row[j].state # "absent"
    <3>1. EndedRow(row[j], s, err).state = s
      BY DEF EndedRow, Row
    <3>2. row' = [row EXCEPT ![j] = EndedRow(row[j], s, err)]
      BY <1>5, <2>2 DEF MarkTerminal
    <3>3. Running' \subseteq Running
      BY <3>1, <3>2 DEF Running
    <3> QED BY <3>3, CapShrinks
  <2> QED BY <2>1, <2>2
<1>6. ASSUME NEW j \in Jobs, RemoveQueuedDelete(j) PROVE AdmissionCap'
  <2>1. Running' \subseteq Running
    BY <1>6 DEF RemoveQueuedDelete, NoRow, Running
  <2> QED BY <2>1, CapShrinks
<1>7. ASSUME UNCHANGED row PROVE AdmissionCap'
  BY <1>7, CapShrinks DEF Running
<1> QED BY <1>1, <1>2, <1>3, <1>4, <1>5, <1>6, <1>7
        DEF SubprocessStep, RemoveQueuedRead, RemoveQueuedAbort

\* With the subprocess backend, no number of replicas and no interleaving of
\* their admits, drains, claims, terminal writes and removals makes more rows
\* running than the cap allows.
THEOREM SubprocessCap == SubprocessSpec => []AdmissionCap
<1>1. StoreInit => StoreTypeOK /\ AdmissionCap
  <2> SUFFICES ASSUME StoreInit PROVE AdmissionCap
    BY StoreInitType
  <2>1. Running = {}
    BY DEF StoreInit, NoRow, Running
  <2> QED BY <2>1, FS_EmptySet, CapInt DEF AdmissionCap
<1>2. StoreTypeOK /\ AdmissionCap /\ [SubprocessStep]_storeVars
        => StoreTypeOK' /\ AdmissionCap'
  <2> SUFFICES ASSUME StoreTypeOK, AdmissionCap, [SubprocessStep]_storeVars
               PROVE  StoreTypeOK' /\ AdmissionCap'
    OBVIOUS
  <2>1. CASE SubprocessStep
    BY <2>1, SubprocessStepType, SubprocessStepCap
  <2>2. CASE UNCHANGED storeVars
    BY <2>2, CapShrinks DEF storeVars, StoreTypeOK, Running
  <2> QED BY <2>1, <2>2
<1> QED BY <1>1, <1>2, PTL DEF SubprocessSpec

-----------------------------------------------------------------------------
(* Claims *)

\* With the subprocess backend, once a worker has claimed a running row no
\* transaction puts the row back into the queue or turns it into an unclaimed
\* grant.
THEOREM ClaimsStable == SubprocessSpec => ClaimNeverReopened
<1> DEFINE Stable == \A j \in Running : row[j].kind # "pending" => ~Reopened(row'[j])
<1>1. StoreTypeOK /\ [SubprocessStep]_storeVars => [Stable]_storeVars
  <2> SUFFICES ASSUME StoreTypeOK, SubprocessStep, NEW j \in Running,
                      row[j].kind # "pending"
               PROVE  ~Reopened(row'[j])
    OBVIOUS
  <2> USE DEF StoreTypeOK
  <2>0. /\ j \in Jobs /\ row[j].state = "running" /\ row[j] \in Row
        /\ ~Reopened(row[j])
    BY DEF Running, Reopened
  <2>1. ASSUME NEW k \in Jobs, Admit(k) PROVE ~Reopened(row'[j])
    <3>1. j # k
      BY <2>0, <2>1 DEF Admit, ActiveStates
    <3> QED BY <2>0, <2>1, <3>1 DEF Admit
  <2>2. ASSUME NEW k \in Jobs, NEW o \in Owners, MarkRunning(k, o) \/ FailSubprocessRow(k, o)
        PROVE  ~Reopened(row'[j])
    <3>1. CASE MarkRunning(k, o)
      <4>1. ~Reopened([row[j] EXCEPT !.kind = "subprocess", !.owner = o])
        BY <2>0 DEF Row, Reopened
      <4> QED BY <2>0, <3>1, <4>1 DEF MarkRunning
    <3>2. CASE FailSubprocessRow(k, o)
      <4>1. ~Reopened([row[j] EXCEPT !.state = "failed", !.error = TRUE, !.ended = TRUE])
        BY <2>0 DEF Row, Reopened
      <4> QED BY <2>0, <3>2, <4>1 DEF FailSubprocessRow
    <3> QED BY <2>2, <3>1, <3>2
  <2>3. ASSUME NEW S \in SUBSET Jobs, Drain(S) PROVE ~Reopened(row'[j])
    <3>1. j \notin S
      BY <2>0, <2>3 DEF Drain, Promotable, Queued
    <3> QED BY <2>0, <2>3, <3>1 DEF Drain
  <2>4. ASSUME NEW k \in Jobs, NEW s \in TerminalStates, NEW err \in BOOLEAN,
               MarkTerminal(k, s, err)
        PROVE  ~Reopened(row'[j])
    <3>1. ~Reopened(EndedRow(row[j], s, err))
      BY <2>0 DEF EndedRow, Row, Reopened, TerminalStates, EndedStates
    <3>2. row'[j] = row[j] \/ row'[j] = EndedRow(row[j], s, err)
      BY <2>0, <2>4 DEF MarkTerminal
    <3> QED BY <2>0, <3>1, <3>2
  <2>5. ASSUME NEW k \in Jobs, RemoveQueuedDelete(k) PROVE ~Reopened(row'[j])
    BY <2>0, <2>5 DEF RemoveQueuedDelete, NoRow, Reopened
  <2> QED BY <2>0, <2>1, <2>2, <2>3, <2>4, <2>5
          DEF SubprocessStep, RemoveQueuedRead, RemoveQueuedAbort
<1>2. StoreInit => StoreTypeOK
  BY StoreInitType
<1>3. StoreTypeOK /\ [SubprocessStep]_storeVars => StoreTypeOK'
  BY SubprocessStepType DEF storeVars, StoreTypeOK
<1> QED BY <1>1, <1>2, <1>3, PTL DEF SubprocessSpec, ClaimNeverReopened
=============================================================================
