--------------------------- MODULE JobStateStore ---------------------------
(***************************************************************************)
(* The durable job-state store (server/services/job_state_store.py): one   *)
(* row per build, shared by every control-plane replica through Postgres.  *)
(*                                                                         *)
(* Each action is one transaction of the store.  admit and drain run under *)
(* the per-service advisory lock, so each of them is a single step;        *)
(* remove_queued reads its row without a lock and deletes it in a later    *)
(* statement, so it is two steps and any other transaction may commit in   *)
(* between.                                                                *)
(*                                                                         *)
(* Abstractions: a job is a model value; spawn_args, phase, usage, result, *)
(* correlation_key and service_status are payload no transaction reads to  *)
(* decide anything; error and ended_at are kept as "is it set".  The       *)
(* timestamps are kept as the order they induce: OlderThan compares        *)
(* created_at, and enqueued compares admission.enqueued_at.                *)
(***************************************************************************)
EXTENDS Integers, FiniteSets

CONSTANTS
    Jobs,        \* job ids (AIFactory task ids)
    Owners,      \* (POD_NAME, BOOT_ID) identities a subprocess claim is stamped with
    NoOwner,     \* no identity
    Cap          \* MAX_CONCURRENT_TASKS; Cap <= 0 means unlimited

ASSUME JobsFinite == IsFiniteSet(Jobs)
ASSUME CapInt == Cap \in Int
ASSUME NoOwnerFresh == NoOwner \notin Owners

VARIABLES
    row,         \* row[j]: the job_states row of j
    olderThan,   \* <<a, b>>: a's created_at is earlier than b's
    enqueued,    \* <<a, b>>: both queued, a was enqueued before b
    removing     \* jobs a remove_queued transaction has read as queued, not yet deleted

storeVars == <<row, olderThan, enqueued, removing>>

ActiveStates == {"queued", "running"}
EndedStates == {"done", "failed", "stuck"}
TerminalStates == EndedStates \cup {"review"}
LifecycleStates == {"absent"} \cup ActiveStates \cup TerminalStates
RefKinds == {"none", "pending", "subprocess", "k8s-job"}

Row == [state : LifecycleStates, kind : RefKinds, owner : Owners \cup {NoOwner},
        error : BOOLEAN, ended : BOOLEAN]

NoRow == [state |-> "absent", kind |-> "none", owner |-> NoOwner,
          error |-> FALSE, ended |-> FALSE]

Existing == {j \in Jobs : row[j].state # "absent"}
Running == {j \in Jobs : row[j].state = "running"}
Queued == {j \in Jobs : row[j].state = "queued"}

StoreInit ==
    /\ row = [j \in Jobs |-> NoRow]
    /\ olderThan = {}
    /\ enqueued = {}
    /\ removing = {}

-----------------------------------------------------------------------------
(* admit *)

HasFreeSlot_offByOne == Cap <= 0 \/ Cardinality(Running) <= Cap

\* The live running count is read under the lock.
HasFreeSlot == Cap <= 0 \/ Cardinality(Running) < Cap

AdmittedRow_keepsEnded(grant) ==
    [state |-> IF grant THEN "running" ELSE "queued",
     kind  |-> IF grant THEN "pending" ELSE "none",
     owner |-> NoOwner, error |-> FALSE, ended |-> TRUE]

\* A granted or queued row; a re-admitted one is reset in place.
AdmittedRow(grant) ==
    [state |-> IF grant THEN "running" ELSE "queued",
     kind  |-> IF grant THEN "pending" ELSE "none",
     owner |-> NoOwner, error |-> FALSE, ended |-> FALSE]

\* created_at is a server default: set when the row is inserted, kept when a
\* terminal row is re-admitted.
StampCreated(j) ==
    IF row[j].state = "absent"
    THEN olderThan \cup ({k \in Existing : k # j} \X {j})
    ELSE olderThan

Admit_ignoresActive(j) ==
    /\ row' = [row EXCEPT ![j] = AdmittedRow(HasFreeSlot)]
    /\ olderThan' = StampCreated(j)
    /\ enqueued' = IF HasFreeSlot THEN enqueued ELSE enqueued \cup (Queued \X {j})
    /\ UNCHANGED removing

Admit(j) ==
    /\ row[j].state \notin ActiveStates          \* otherwise ValueError -> 409
    /\ row' = [row EXCEPT ![j] = AdmittedRow(HasFreeSlot)]
    /\ olderThan' = StampCreated(j)
    /\ enqueued' = IF HasFreeSlot THEN enqueued ELSE enqueued \cup (Queued \X {j})
    /\ UNCHANGED removing

-----------------------------------------------------------------------------
(* mark_running, drain *)

\* Claim a still-running slot for the subprocess of owner o; a no-op on a row
\* that is gone or no longer running.
MarkRunning(j, o) ==
    /\ row' = IF row[j].state = "running"
              THEN [row EXCEPT ![j] = [@ EXCEPT !.kind = "subprocess", !.owner = o]]
              ELSE row
    /\ UNCHANGED <<olderThan, enqueued, removing>>

Promotable_anyOrder(S) ==
    /\ S \subseteq Queued
    /\ \/ Cap <= 0 /\ S = Queued
       \/ /\ Cap > 0
          /\ Cardinality(Running) + Cardinality(S) <= Cap \/ S = {}
          /\ S = Queued \/ Cardinality(Running) + Cardinality(S) >= Cap

\* The rows one drain may promote: the oldest queued rows that fit.
Promotable(S) ==
    /\ S \subseteq Queued
    /\ \/ Cap <= 0 /\ S = Queued
       \/ /\ Cap > 0
          /\ Cardinality(Running) + Cardinality(S) <= Cap \/ S = {}
          /\ S = Queued \/ Cardinality(Running) + Cardinality(S) >= Cap
    /\ \A j \in S, k \in Queued \ S : <<j, k>> \in olderThan

Drain(S) ==
    /\ Promotable(S)
    /\ row' = [j \in Jobs |-> IF j \in S THEN [row[j] EXCEPT !.state = "running",
                                                            !.kind = "pending",
                                                            !.owner = NoOwner]
                                         ELSE row[j]]
    /\ enqueued' = {e \in enqueued : e[1] \notin S /\ e[2] \notin S}
    /\ UNCHANGED <<olderThan, removing>>

-----------------------------------------------------------------------------
(* terminal writes *)

Unqueue(j) == {e \in enqueued : e[1] # j /\ e[2] # j}

EndedRow_noDefaultError(r, s, err) ==
    [r EXCEPT !.state = s, !.error = @ \/ err, !.ended = @ \/ s \in EndedStates]

EndedRow_offTaxonomy(r, s, err) ==
    [r EXCEPT !.state = IF err THEN "stopped" ELSE s,
              !.error = @ \/ err \/ s \in {"failed", "stuck"},
              !.ended = @ \/ s \in EndedStates]

\* failed and stuck always carry an error; review sets no ended_at.
EndedRow(r, s, err) ==
    [r EXCEPT !.state = s,
              !.error = @ \/ err \/ s \in {"failed", "stuck"},
              !.ended = @ \/ s \in EndedStates]

\* mark_terminal: no check of the row's state or owner.
MarkTerminal(j, s, err) ==
    /\ row' = IF row[j].state = "absent" THEN row
              ELSE [row EXCEPT ![j] = EndedRow(@, s, err)]
    /\ enqueued' = Unqueue(j)
    /\ UNCHANGED <<olderThan, removing>>

\* fail_subprocess_row: only while that exact owner holds the running row.
FailSubprocessRow(j, o) ==
    /\ row[j].state = "running"
    /\ row[j].kind = "subprocess"
    /\ row[j].owner = o
    /\ row' = [row EXCEPT ![j] = [@ EXCEPT !.state = "failed", !.error = TRUE,
                                            !.ended = TRUE]]
    /\ UNCHANGED <<olderThan, enqueued, removing>>

-----------------------------------------------------------------------------
(* set_worker_ref with a k8s-job reference: the row is running from here on, *)
(* whatever it was, and no slot is counted (#1628).                          *)

SetWorkerRef(j) ==
    /\ row' = IF row[j].state = "absent" THEN row
              ELSE [row EXCEPT ![j] = [@ EXCEPT !.state = "running", !.kind = "k8s-job",
                                                !.owner = NoOwner, !.ended = FALSE]]
    /\ enqueued' = Unqueue(j)
    /\ UNCHANGED <<olderThan, removing>>

-----------------------------------------------------------------------------
(* remove_queued: session.get without FOR UPDATE, then DELETE by key. *)

RemoveQueuedRead(j) ==
    /\ row[j].state = "queued"
    /\ removing' = removing \cup {j}
    /\ UNCHANGED <<row, olderThan, enqueued>>

RemoveQueuedDelete(j) ==
    /\ j \in removing
    /\ row' = [row EXCEPT ![j] = NoRow]
    /\ olderThan' = {e \in olderThan : e[1] # j /\ e[2] # j}
    /\ enqueued' = Unqueue(j)
    /\ removing' = removing \ {j}

\* Transactions die with the replica that holds their connections.
RemoveQueuedAbort(S) ==
    /\ removing' = removing \ S
    /\ UNCHANGED <<row, olderThan, enqueued>>

-----------------------------------------------------------------------------
(* Every replica may call every operation, in any order. *)

SubprocessStep ==
    \/ \E j \in Jobs : Admit(j)
    \/ \E j \in Jobs, o \in Owners : MarkRunning(j, o) \/ FailSubprocessRow(j, o)
    \/ \E S \in SUBSET Jobs : Drain(S)
    \/ \E j \in Jobs, s \in TerminalStates, err \in BOOLEAN : MarkTerminal(j, s, err)
    \/ \E j \in Jobs : RemoveQueuedRead(j) \/ RemoveQueuedDelete(j)
    \/ \E S \in SUBSET removing : RemoveQueuedAbort(S)

StoreNext == SubprocessStep \/ \E j \in Jobs : SetWorkerRef(j)

\* The store as the in-pod subprocess backend uses it, and with k8s Jobs too.
SubprocessSpec == StoreInit /\ [][SubprocessStep]_storeVars
StoreSpec == StoreInit /\ [][StoreNext]_storeVars

-----------------------------------------------------------------------------
(* Properties *)

\* Every variable keeps its type: a row is absent or a job-state row, and the
\* two orders relate jobs.
StoreTypeOK ==
    /\ row \in [Jobs -> Row]
    /\ olderThan \subseteq Jobs \X Jobs
    /\ enqueued \subseteq Jobs \X Jobs
    /\ removing \subseteq Jobs

\* job_state_store.py:13-16 -- no interleaving of admits, drains, claims,
\* terminal writes and removals in any replicas makes more than Cap rows
\* running.
AdmissionCap == Cap > 0 => Cardinality(Running) <= Cap

\* What every reader of a row relies on: a running
\* row names who may reap it (pending, an owner, or a Job), a subprocess claim
\* has its owner, an active row has no ended_at, a failed or stuck one has an
\* error and an ended_at (mark_terminal's never-overclaim rule).
CoherentRow(r) ==
    /\ r.state = "running" => r.kind # "none"
    /\ r.state = "queued" => r.kind = "none"
    /\ r.kind = "subprocess" <=> r.owner # NoOwner
    /\ r.state \in ActiveStates => ~r.ended
    /\ r.state \in {"failed", "stuck"} => r.error /\ r.ended

\* job_state_store.py:362-398 -- every row is coherent, whatever calls of
\* whatever replicas wrote it and in whatever order.
RowCoherent == \A j \in Jobs : CoherentRow(row[j])

Reopened(r) == r.state = "queued" \/ r.kind = "pending"

\* job_state_store.py:16 -- "prevents double-starting the same job": once a
\* worker has claimed a running row, no transaction puts the row back into the
\* queue or turns it into an unclaimed grant that a second launch could pick up.
ClaimNeverReopened ==
    [][\A j \in Running : row[j].kind # "pending" => ~Reopened(row'[j])]_storeVars

\* job_state_store.py:314 and :596 -- "Promote queued jobs FIFO", "FIFO
\* (enqueue) order": a drain never promotes a job enqueued after one it leaves
\* queued.
FifoPromotion ==
    [][\A j \in Queued \cap Running', k \in Queued \cap Queued' :
           <<k, j>> \notin enqueued]_storeVars
=============================================================================
