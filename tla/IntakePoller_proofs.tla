------------------------ MODULE IntakePoller_proofs ------------------------
(***************************************************************************)
(* Theorems about label-driven intake, for any issues, worker threads,     *)
(* requests in the server, and any number and combination of faults.       *)
(*                                                                         *)
(* None of the safety properties is inductive: what makes a second build   *)
(* impossible is that a request between the writing of its spec and the    *)
(* start of its build is the only one of its issue (StartsOnce), and what  *)
(* makes a mark honest is what the thread that sets it learned from the    *)
(* answer it waited for (Waiting, WorkersKnow).                            *)
(***************************************************************************)
EXTENDS IntakePoller, TLAPS

WorkerRecord == [pc : Pcs, issue : Issues \union {None},
                 seen : SUBSET Issues, sawQueued : SUBSET Issues]
RequestRecord == [phase : {"free", "fetching", "starting"},
                  issue : Issues \union {None}, waiter : Workers \union {None}]
ClaimRecord == [row : BOOLEAN, confirmed : BOOLEAN, stale : BOOLEAN]

\* A receiver has the issue, or had it before its spec was removed.
Taken(i) == Landed(i) \/ i \in lost

\* The places where a thread is at an issue, and those it reaches only after a
\* receiver took it.
AtAnIssue == {"post", "posted", "confirm", "queued", "failed", "unmark",
              "heal_age", "heal_label", "heal_unmark"}
AfterOk == {"confirm", "queued"}

WorkersKnow ==
    \A w \in Workers : /\ worker[w].pc \in AtAnIssue => worker[w].issue \in Issues
                       /\ worker[w].pc \in AfterOk => Taken(worker[w].issue)

RequestsKnow == \A s \in Slots : req[s].phase # "free" => req[s].issue \in Issues

\* A request that somebody waits for is that thread's only one, for its issue.
Waiting ==
    \A s \in Slots : req[s].waiter # None =>
        /\ req[s].phase # "free"
        /\ worker[req[s].waiter].pc = "posted"
        /\ worker[req[s].waiter].issue = req[s].issue
        /\ \A r \in Slots : req[r].waiter = req[s].waiter => r = s

\* A request about to start a build has written the issue's only spec, which
\* nobody has started or will start but this request.
StartsOnce ==
    \A s \in Slots : req[s].phase = "starting" =>
        /\ specs[req[s].issue] = 1 /\ starts[req[s].issue] = 0
        /\ \A r \in Slots : req[r].phase = "starting" /\ req[r].issue = req[s].issue
                               => r = s

IInv == /\ IntakeTypeOK /\ WorkersKnow /\ RequestsKnow /\ Waiting /\ StartsOnce
        /\ OneBuildPerIssue /\ MarkedWasLanded

-----------------------------------------------------------------------------
(* Steps of one thread *)

\* What the thread's new state must satisfy.
GoodWorker(W) == /\ W \in WorkerRecord
                 /\ W.pc \in AtAnIssue => W.issue \in Issues
                 /\ W.pc \in AfterOk => Taken(W.issue)

\* A fault counted stays within the bound.
LEMMA FaultType ==
    ASSUME IInv, NEW f, Fault(f)
    PROVE  faults' \in 0..MaxFaults
BY IntakeAssumption DEF IInv, IntakeTypeOK, Fault

\* A thread that nobody answers moves on; claims and labels change honestly.
LEMMA ThreadStep ==
    ASSUME IInv, NEW w \in Workers, worker[w].pc # "posted",
           NEW W, GoodWorker(W), worker' = [worker EXCEPT ![w] = W],
           UNCHANGED <<tier, board, req>>,
           faults' \in 0..MaxFaults, tick' \in Workers \union {None},
           labels' \in [Issues -> SUBSET {"queued", "failed"}],
           claim' \in [Issues -> ClaimRecord],
           \A i \in Issues : ~claim'[i].row => claim'[i] = NoClaim,
           \A i \in Issues : claim'[i].confirmed => claim[i].confirmed \/ Taken(i),
           \A i \in Issues : "queued" \in labels'[i] => "queued" \in labels[i] \/ Taken(i)
    PROVE  IInv'
<1>1. /\ tier' = tier /\ specs' = specs /\ starts' = starts /\ planned' = planned
      /\ lost' = lost /\ req' = req
  BY DEF board
<1>2. \A i : Taken(i)' = Taken(i)
  BY <1>1 DEF Taken, Landed
<1>3. worker' \in [Workers -> WorkerRecord]
  BY DEF IInv, IntakeTypeOK, GoodWorker, WorkerRecord
<1>4. IntakeTypeOK'
  BY <1>1, <1>3 DEF IInv, IntakeTypeOK, WorkerRecord, ClaimRecord
<1>5. \A v \in Workers : worker'[v] = IF v = w THEN W ELSE worker[v]
  BY DEF IInv, IntakeTypeOK
<1>6. WorkersKnow'
  BY <1>2, <1>5 DEF IInv, WorkersKnow, GoodWorker
<1>7. RequestsKnow' /\ StartsOnce' /\ OneBuildPerIssue'
  BY <1>1 DEF IInv, RequestsKnow, StartsOnce, OneBuildPerIssue
<1>8. Waiting'
  BY <1>1, <1>5 DEF IInv, IntakeTypeOK, Waiting
<1>9. MarkedWasLanded'
  BY <1>1, <1>2 DEF IInv, MarkedWasLanded, Taken, Landed
<1> QED
  BY <1>4, <1>6, <1>7, <1>8, <1>9 DEF IInv

\* The same when claims and labels stay as they are.
LEMMA QuietThreadStep ==
    ASSUME IInv, NEW w \in Workers, worker[w].pc # "posted",
           NEW W, GoodWorker(W), worker' = [worker EXCEPT ![w] = W],
           UNCHANGED <<tier, labels, claim, board, req>>,
           faults' \in 0..MaxFaults, tick' \in Workers \union {None}
    PROVE  IInv'
BY ThreadStep DEF IInv, IntakeTypeOK, ClaimRecord

\* The initial state satisfies the inductive invariant.
LEMMA InitIInv == Init => IInv
<1> SUFFICES ASSUME Init PROVE IInv
  OBVIOUS
<1>1. IntakeTypeOK
  BY IntakeAssumption DEF Init, IntakeTypeOK, NoClaim, Idle, FreeSlot, Pcs
<1>2. /\ WorkersKnow /\ RequestsKnow /\ Waiting /\ StartsOnce
  BY DEF Init, WorkersKnow, RequestsKnow, Waiting, StartsOnce, Idle, FreeSlot, AtAnIssue,
         AfterOk
<1>3. OneBuildPerIssue /\ MarkedWasLanded
  BY DEF Init, OneBuildPerIssue, MarkedWasLanded, NoClaim
<1> QED
  BY <1>1, <1>2, <1>3 DEF IInv

\* The thread's record, and the move to a place that needs no receiver.
LEMMA MoveGood ==
    ASSUME IInv, NEW w \in Workers, NEW pc \in Pcs \ AfterOk,
           pc \in AtAnIssue => worker[w].pc \in AtAnIssue
    PROVE  /\ GoodWorker([worker[w] EXCEPT !.pc = pc])
           /\ Move(w, pc) => worker' = [worker EXCEPT ![w] = [worker[w] EXCEPT !.pc = pc]]
<1>1. worker[w] \in WorkerRecord
  BY DEF IInv, IntakeTypeOK, WorkerRecord
<1>2. worker[w].pc \in AtAnIssue => worker[w].issue \in Issues
  BY DEF IInv, WorkersKnow
<1>3. GoodWorker([worker[w] EXCEPT !.pc = pc])
  BY <1>1, <1>2 DEF GoodWorker, WorkerRecord
<1> QED
  BY <1>3 DEF Move

\* The thread is done with its issue.
LEMMA IssueDoneGood ==
    ASSUME IInv, NEW w \in Workers, IssueDone(w)
    PROVE  \E W : GoodWorker(W) /\ worker' = [worker EXCEPT ![w] = W]
<1> DEFINE W == [worker[w] EXCEPT !.pc = "next", !.issue = None]
<1>1. worker[w] \in WorkerRecord
  BY DEF IInv, IntakeTypeOK, WorkerRecord
<1>2. GoodWorker(W)
  BY <1>1 DEF GoodWorker, WorkerRecord, Pcs, AtAnIssue, AfterOk
<1>3. worker' = [worker EXCEPT ![w] = W]
  BY DEF IssueDone
<1> QED
  BY <1>2, <1>3

-----------------------------------------------------------------------------
(* poller_loop and poll_once *)

\* A tick begins a pass.
LEMMA TickBeginIInv ==
    ASSUME IInv, NEW w \in Workers, TickBegin(w)
    PROVE  IInv'
<1>1. worker[w].pc # "posted" /\ UNCHANGED <<tier, labels, claim, board, req, faults>>
  BY DEF TickBegin
<1>2. tick' \in Workers \union {None} /\ faults' \in 0..MaxFaults
  BY DEF TickBegin, IInv, IntakeTypeOK
<1>3. Move(w, "fetch")
  BY DEF TickBegin, Move
<1>4. GoodWorker([worker[w] EXCEPT !.pc = "fetch"])
      /\ worker' = [worker EXCEPT ![w] = [worker[w] EXCEPT !.pc = "fetch"]]
  BY <1>3, MoveGood DEF Pcs, AtAnIssue, AfterOk
<1> QED
  BY <1>1, <1>2, <1>4, QuietThreadStep

\* The labels are read.
LEMMA FetchIInv ==
    ASSUME IInv, NEW w \in Workers, Fetch(w)
    PROVE  IInv'
<1>1. /\ worker[w].pc # "posted" /\ UNCHANGED <<tier, labels, claim, board, tick, req>>
      /\ tick' \in Workers \union {None}
  BY DEF Fetch, IInv, IntakeTypeOK
<1>2. faults' \in 0..MaxFaults
  BY FaultType DEF Fetch, NoFault, IInv, IntakeTypeOK
<1>3. \E W : GoodWorker(W) /\ worker' = [worker EXCEPT ![w] = W]
  <2>1. CASE Move(w, "next")
    BY <2>1, MoveGood DEF Pcs, AtAnIssue, AfterOk
  <2>2. CASE ~Move(w, "next")
    <3> DEFINE Q == {i \in Issues : "queued" \in labels[i]}
               W == [worker[w] EXCEPT !.pc = "next", !.seen = Issues, !.sawQueued = Q]
    <3>1. worker' = [worker EXCEPT ![w] = W]
      BY <2>2 DEF Fetch
    <3>2. worker[w] \in WorkerRecord /\ Q \subseteq Issues
      BY DEF IInv, IntakeTypeOK, WorkerRecord
    <3>3. GoodWorker(W)
      <4> HIDE DEF Q
      <4> QED
        BY <3>2 DEF GoodWorker, WorkerRecord, Pcs, AtAnIssue, AfterOk
    <3> QED
      BY <3>1, <3>3
  <2> QED
    BY <2>1, <2>2
<1> QED
  BY <1>1, <1>2, <1>3, QuietThreadStep

\* The pass ends.
LEMMA PassEndsIInv ==
    ASSUME IInv, NEW w \in Workers, PassEnds(w)
    PROVE  IInv'
<1>1. /\ worker[w].pc # "posted" /\ UNCHANGED <<tier, labels, claim, board, req>>
      /\ tick' \in Workers \union {None} /\ faults' \in 0..MaxFaults
      /\ worker' = [worker EXCEPT ![w] = Idle]
  BY DEF PassEnds, IInv, IntakeTypeOK
<1>2. GoodWorker(Idle)
  BY DEF GoodWorker, WorkerRecord, Idle, Pcs, AtAnIssue, AfterOk
<1> QED
  BY <1>1, <1>2, QuietThreadStep

\* The thread takes an issue up, or leaves it.
LEMMA TakeGood ==
    ASSUME IInv, NEW w \in Workers, NEW i \in Issues, NEW pc \in Pcs \ AfterOk,
           Take(w, i, pc)
    PROVE  \E W : GoodWorker(W) /\ worker' = [worker EXCEPT ![w] = W]
<1> DEFINE S == worker[w].seen \ {i}
           W == [worker[w] EXCEPT !.pc = pc, !.issue = i, !.seen = S]
<1>1. worker[w] \in WorkerRecord /\ S \subseteq Issues
  BY DEF IInv, IntakeTypeOK, WorkerRecord
<1>2. worker' = [worker EXCEPT ![w] = W]
  BY DEF Take
<1>3. GoodWorker(W)
  <2> HIDE DEF S
  <2> QED
    BY <1>1 DEF GoodWorker, WorkerRecord
<1> QED
  BY <1>2, <1>3

\* The thread passes over an issue.
LEMMA SkipGood ==
    ASSUME IInv, NEW w \in Workers, NEW i \in Issues, Skip(w, i)
    PROVE  \E W : GoodWorker(W) /\ worker' = [worker EXCEPT ![w] = W]
<1> DEFINE S == worker[w].seen \ {i}
           W == [worker[w] EXCEPT !.seen = S]
<1>1. /\ worker[w] \in WorkerRecord /\ S \subseteq Issues
      /\ worker[w].pc \in AtAnIssue => worker[w].issue \in Issues
      /\ worker[w].pc \in AfterOk => Taken(worker[w].issue)
  BY DEF IInv, IntakeTypeOK, WorkerRecord, WorkersKnow
<1>2. worker' = [worker EXCEPT ![w] = W]
  BY DEF Skip
<1>3. GoodWorker(W)
  <2> HIDE DEF S
  <2>1. W \in WorkerRecord /\ W.pc = worker[w].pc /\ W.issue = worker[w].issue
    BY <1>1 DEF WorkerRecord
  <2> QED
    BY <1>1, <2>1 DEF GoodWorker
<1> QED
  BY <1>2, <1>3

\* A claim is taken, fresh and unconfirmed.
LEMMA ClaimIssueIInv ==
    ASSUME IInv, NEW w \in Workers, NEW i \in Issues, ClaimIssue(w, i)
    PROVE  IInv'
<1>1. /\ worker[w].pc # "posted" /\ UNCHANGED <<tier, labels, board, tick, req>>
      /\ tick' \in Workers \union {None}
      /\ labels' \in [Issues -> SUBSET {"queued", "failed"}]
  BY DEF ClaimIssue, AtIssue, IInv, IntakeTypeOK
<1>2. faults' \in 0..MaxFaults
  BY FaultType DEF ClaimIssue, NoFault, IInv, IntakeTypeOK
<1>3. \E W : GoodWorker(W) /\ worker' = [worker EXCEPT ![w] = W]
  BY TakeGood, SkipGood DEF ClaimIssue, Pcs, AfterOk
<1>4. /\ claim' \in [Issues -> ClaimRecord]
      /\ \A j \in Issues : ~claim'[j].row => claim'[j] = NoClaim
      /\ \A j \in Issues : claim'[j].confirmed => claim[j].confirmed
  <2>1. CASE claim' = [claim EXCEPT ![i] = FreshClaim]
    BY <2>1 DEF FreshClaim, IInv, IntakeTypeOK, ClaimRecord
  <2>2. CASE UNCHANGED claim
    BY <2>2 DEF IInv, IntakeTypeOK, ClaimRecord
  <2> QED
    BY <2>1, <2>2 DEF ClaimIssue
<1> QED
  BY <1>1, <1>2, <1>3, <1>4, ThreadStep

\* A thread at one of its places after the route knows a receiver has its issue.
LEMMA ConfirmClaimIInv ==
    ASSUME IInv, NEW w \in Workers, ConfirmClaim(w)
    PROVE  IInv'
<1> DEFINE i == worker[w].issue
           W == [worker[w] EXCEPT !.pc = "queued"]
<1>1. /\ worker[w].pc # "posted" /\ UNCHANGED <<tier, labels, board, tick, req>>
      /\ tick' \in Workers \union {None}
      /\ labels' \in [Issues -> SUBSET {"queued", "failed"}]
  BY DEF ConfirmClaim, IInv, IntakeTypeOK
<1>2. faults' \in 0..MaxFaults
  BY FaultType DEF ConfirmClaim, NoFault, IInv, IntakeTypeOK
<1>3. i \in Issues /\ Taken(i) /\ worker[w] \in WorkerRecord
  BY DEF ConfirmClaim, IInv, IntakeTypeOK, WorkersKnow, AtAnIssue, AfterOk, WorkerRecord
<1>4. worker' = [worker EXCEPT ![w] = W]
  BY DEF ConfirmClaim, Move
<1>5. GoodWorker(W)
  BY <1>3 DEF GoodWorker, WorkerRecord, Pcs
<1>6. /\ claim' \in [Issues -> ClaimRecord]
      /\ \A j \in Issues : ~claim'[j].row => claim'[j] = NoClaim
      /\ \A j \in Issues : claim'[j].confirmed => claim[j].confirmed \/ Taken(j)
  <2>1. CASE claim' = [claim EXCEPT ![i] = Confirmed(claim[i])]
    <3>1. /\ claim[i] \in ClaimRecord
          /\ ~claim[i].row => claim[i] = NoClaim
      BY <1>3 DEF IInv, IntakeTypeOK, ClaimRecord
    <3>2. /\ Confirmed(claim[i]) \in ClaimRecord
          /\ ~Confirmed(claim[i]).row => Confirmed(claim[i]) = NoClaim
      BY <3>1 DEF Confirmed, ClaimRecord, NoClaim
    <3> QED
      BY <1>3, <2>1, <3>2 DEF IInv, IntakeTypeOK, ClaimRecord
  <2>2. CASE UNCHANGED claim
    BY <2>2 DEF IInv, IntakeTypeOK, ClaimRecord
  <2> QED
    BY <2>1, <2>2 DEF ConfirmClaim
<1> QED
  BY <1>1, <1>2, <1>4, <1>5, <1>6, ThreadStep

\* factory:queued is put on an issue a receiver has; factory:failed on any.
LEMMA MarkIssueIInv ==
    ASSUME IInv, NEW w \in Workers, ApplyQueued(w) \/ ApplyFailed(w)
    PROVE  IInv'
<1>1. PICK l \in {"queued", "failed"} : MarkIssue(w, l, l)
  BY DEF ApplyQueued, ApplyFailed
<1> DEFINE i == worker[w].issue
<1>2. /\ worker[w].pc # "posted" /\ UNCHANGED <<tier, claim, board, tick, req>>
      /\ tick' \in Workers \union {None}
      /\ claim' \in [Issues -> ClaimRecord]
      /\ \A j \in Issues : ~claim'[j].row => claim'[j] = NoClaim
  BY <1>1 DEF MarkIssue, IInv, IntakeTypeOK, ClaimRecord
<1>3. faults' \in 0..MaxFaults
  BY <1>1, FaultType DEF MarkIssue, NoFault, IInv, IntakeTypeOK
<1>4. \E W : GoodWorker(W) /\ worker' = [worker EXCEPT ![w] = W]
  BY <1>1, IssueDoneGood DEF MarkIssue
<1>5. l = "queued" => Taken(i)
  BY <1>1 DEF MarkIssue, IInv, WorkersKnow, AfterOk
<1>6. /\ labels' \in [Issues -> SUBSET {"queued", "failed"}]
      /\ \A j \in Issues : "queued" \in labels'[j] => "queued" \in labels[j] \/ Taken(j)
  <2>1. CASE labels' = [labels EXCEPT ![i] = labels[i] \union {l}]
    BY <1>5, <2>1 DEF IInv, IntakeTypeOK
  <2>2. CASE UNCHANGED labels
    BY <2>2 DEF IInv, IntakeTypeOK
  <2> QED
    BY <1>1, <2>1, <2>2 DEF MarkIssue
<1> QED
  BY <1>2, <1>3, <1>4, <1>6, ThreadStep

\* A claim is given back.
LEMMA UnmarkIInv ==
    ASSUME IInv, NEW w \in Workers, RollBack(w) \/ HealUnmark(w)
    PROVE  IInv'
<1>1. PICK pc \in {"unmark", "heal_unmark"} : Unmark(w, pc)
  BY DEF RollBack, HealUnmark
<1>2. /\ worker[w].pc # "posted" /\ UNCHANGED <<tier, labels, board, tick, req>>
      /\ tick' \in Workers \union {None}
      /\ labels' \in [Issues -> SUBSET {"queued", "failed"}]
  BY <1>1 DEF Unmark, IInv, IntakeTypeOK
<1>3. faults' \in 0..MaxFaults
  BY <1>1, FaultType DEF Unmark, NoFault, IInv, IntakeTypeOK
<1>4. \E W : GoodWorker(W) /\ worker' = [worker EXCEPT ![w] = W]
  BY <1>1, IssueDoneGood DEF Unmark
<1>5. /\ claim' \in [Issues -> ClaimRecord]
      /\ \A j \in Issues : ~claim'[j].row => claim'[j] = NoClaim
      /\ \A j \in Issues : claim'[j].confirmed => claim[j].confirmed
  <2>1. CASE claim' = [claim EXCEPT ![worker[w].issue] = NoClaim]
    BY <2>1 DEF NoClaim, IInv, IntakeTypeOK, ClaimRecord
  <2>2. CASE UNCHANGED claim
    BY <2>2 DEF IInv, IntakeTypeOK, ClaimRecord
  <2> QED
    BY <1>1, <2>1, <2>2 DEF Unmark
<1> QED
  BY <1>2, <1>3, <1>4, <1>5, ThreadStep

\* Self-heal looks for the build, then at the claim's age.
LEMMA HealCheckIInv ==
    ASSUME IInv, NEW w \in Workers,
           HealCheckAge(w) \/ \E i \in Issues : HealCheckBuild(w, i)
    PROVE  IInv'
<1>1. /\ worker[w].pc # "posted" /\ UNCHANGED <<tier, labels, claim, board, tick, req>>
      /\ tick' \in Workers \union {None}
  BY DEF HealCheckAge, HealCheckBuild, AtIssue, IInv, IntakeTypeOK
<1>2. faults' \in 0..MaxFaults
  BY FaultType DEF HealCheckAge, HealCheckBuild, NoFault, IInv, IntakeTypeOK
<1>3. \E W : GoodWorker(W) /\ worker' = [worker EXCEPT ![w] = W]
  <2>1. CASE HealCheckAge(w)
    <3>1. CASE Move(w, "heal_label")
      BY <2>1, <3>1, MoveGood DEF HealCheckAge, Pcs, AtAnIssue, AfterOk
    <3>2. CASE IssueDone(w)
      BY <3>2, IssueDoneGood
    <3> QED
      BY <2>1, <3>1, <3>2 DEF HealCheckAge
  <2>2. ASSUME NEW i \in Issues, HealCheckBuild(w, i) PROVE <1>3
    BY <2>2, TakeGood, SkipGood DEF HealCheckBuild, Pcs, AfterOk
  <2> QED
    BY <2>1, <2>2
<1> QED
  BY <1>1, <1>2, <1>3, QuietThreadStep

\* Self-heal takes factory:queued off.
LEMMA HealUnlabelIInv ==
    ASSUME IInv, NEW w \in Workers, HealUnlabel(w)
    PROVE  IInv'
<1>1. /\ worker[w].pc # "posted" /\ UNCHANGED <<tier, claim, board, tick, req>>
      /\ tick' \in Workers \union {None}
      /\ claim' \in [Issues -> ClaimRecord]
      /\ \A j \in Issues : ~claim'[j].row => claim'[j] = NoClaim
  BY DEF HealUnlabel, IInv, IntakeTypeOK, ClaimRecord
<1>2. faults' \in 0..MaxFaults
  BY FaultType DEF HealUnlabel, NoFault, IInv, IntakeTypeOK
<1>3. \E W : GoodWorker(W) /\ worker' = [worker EXCEPT ![w] = W]
  <2>1. CASE Move(w, "heal_unmark")
    BY <2>1, MoveGood DEF HealUnlabel, Pcs, AtAnIssue, AfterOk
  <2>2. CASE IssueDone(w)
    BY <2>2, IssueDoneGood
  <2> QED
    BY <2>1, <2>2 DEF HealUnlabel
<1>4. /\ labels' \in [Issues -> SUBSET {"queued", "failed"}]
      /\ \A j \in Issues : "queued" \in labels'[j] => "queued" \in labels[j]
  BY DEF HealUnlabel, IInv, IntakeTypeOK
<1> QED
  BY <1>1, <1>2, <1>3, <1>4, ThreadStep

-----------------------------------------------------------------------------
(* Routing *)

\* A thread moves and keeps its issue; the others stay where they are.
LEMMA Moved ==
    ASSUME IntakeTypeOK, NEW w \in Workers, NEW p \in Pcs, Move(w, p)
    PROVE  /\ worker' \in [Workers -> WorkerRecord]
           /\ worker'[w].pc = p /\ worker'[w].issue = worker[w].issue
           /\ \A v \in Workers \ {w} : worker'[v] = worker[v]
<1> DEFINE W == [worker[w] EXCEPT !.pc = p]
<1>1. /\ worker \in [Workers -> WorkerRecord] /\ worker[w] \in WorkerRecord
      /\ worker' = [worker EXCEPT ![w] = W]
  BY DEF IntakeTypeOK, WorkerRecord, Move
<1>2. W \in WorkerRecord /\ W.pc = p /\ W.issue = worker[w].issue
  BY <1>1 DEF WorkerRecord
<1> HIDE DEF W
<1> QED
  BY <1>1, <1>2

\* What AfterPost leads to.
LEMMA AfterPostPlaces ==
    /\ AfterPost("ok") = "confirm" /\ AfterPost("refused") = "failed"
    /\ AfterPost("error") = "unmark"
BY DEF AfterPost

\* PFactory takes the issue, perhaps unseen.
LEMMA PostHardIInv ==
    ASSUME IInv, NEW w \in Workers, PostHard(w)
    PROVE  IInv'
<1> DEFINE i == worker[w].issue
<1>1. /\ worker[w].pc = "post" /\ i \in Issues /\ worker[w] \in WorkerRecord
      /\ UNCHANGED <<tier, labels, claim, specs, starts, lost, tick, req>>
  BY DEF PostHard, IInv, IntakeTypeOK, WorkersKnow, AtAnIssue, WorkerRecord
<1>2. faults' \in 0..MaxFaults
  BY FaultType DEF PostHard, NoFault, IInv, IntakeTypeOK
<1>3. planned \subseteq planned' /\ planned' \subseteq Issues
  BY <1>1 DEF PostHard, IInv, IntakeTypeOK
<1>4. PICK pc \in {"confirm", "failed", "unmark"} :
         /\ Move(w, pc)
         /\ pc = "confirm" => i \in planned'
  BY AfterPostPlaces DEF PostHard
<1>5. \A j : Taken(j) => Taken(j)'
  BY <1>1, <1>3 DEF Taken, Landed
<1>6. /\ worker' \in [Workers -> WorkerRecord]
      /\ worker'[w].pc = pc /\ worker'[w].issue = i
      /\ \A v \in Workers \ {w} : worker'[v] = worker[v]
  BY <1>4, Moved DEF IInv, Pcs
<1>7. IntakeTypeOK'
  BY <1>1, <1>2, <1>3, <1>6 DEF IInv, IntakeTypeOK, WorkerRecord
<1>8. WorkersKnow'
  BY <1>1, <1>4, <1>5, <1>6 DEF IInv, WorkersKnow, Taken, Landed, AtAnIssue, AfterOk
<1>9. RequestsKnow' /\ StartsOnce' /\ OneBuildPerIssue'
  BY <1>1 DEF IInv, RequestsKnow, StartsOnce, OneBuildPerIssue
<1>10. Waiting'
  BY <1>1, <1>6 DEF IInv, IntakeTypeOK, Waiting
<1>11. MarkedWasLanded'
  BY <1>1, <1>3 DEF IInv, MarkedWasLanded, Landed
<1> QED
  BY <1>7, <1>8, <1>9, <1>10, <1>11 DEF IInv

\* A thread posts from-issue and waits: no other request has it as its waiter.
LEMMA PostFromIssueIInv ==
    ASSUME IInv, NEW w \in Workers, NEW s \in Slots, PostFromIssue(w, s)
    PROVE  IInv'
<1> DEFINE i == worker[w].issue
           R == [phase |-> "fetching", issue |-> i, waiter |-> w]
<1>1. /\ worker[w].pc = "post" /\ i \in Issues /\ worker[w] \in WorkerRecord
      /\ req[s].phase = "free"
      /\ UNCHANGED <<tier, labels, claim, specs, starts, planned, lost, tick, faults>>
  BY DEF PostFromIssue, IInv, IntakeTypeOK, WorkersKnow, AtAnIssue, WorkerRecord, board
<1>2. /\ req' \in [Slots -> RequestRecord]
      /\ req'[s] = R
      /\ \A r \in Slots \ {s} : req'[r] = req[r]
  BY <1>1 DEF PostFromIssue, IInv, IntakeTypeOK, RequestRecord
<1>3. /\ worker' \in [Workers -> WorkerRecord]
      /\ worker'[w].pc = "posted" /\ worker'[w].issue = i
      /\ \A v \in Workers \ {w} : worker'[v] = worker[v]
  BY Moved DEF PostFromIssue, IInv, Pcs
<1>4. IntakeTypeOK'
  BY <1>1, <1>2, <1>3 DEF IInv, IntakeTypeOK, WorkerRecord, RequestRecord
<1>5. WorkersKnow'
  BY <1>1, <1>3 DEF IInv, WorkersKnow, Taken, Landed, AtAnIssue, AfterOk
<1>6. RequestsKnow' /\ OneBuildPerIssue' /\ MarkedWasLanded'
  BY <1>1, <1>2 DEF IInv, RequestsKnow, OneBuildPerIssue, MarkedWasLanded, Landed
<1>7. StartsOnce'
  BY <1>1, <1>2 DEF IInv, StartsOnce
<1>8. Waiting'
  <2>1. \A r \in Slots : req[r].waiter # None => req[r].waiter # w
    BY <1>1 DEF IInv, Waiting
  <2>2. \A r \in Slots \ {s} : req'[r].waiter # None =>
             /\ req'[r].waiter \in Workers \ {w}
             /\ req'[r].phase # "free"
             /\ worker'[req'[r].waiter].pc = "posted"
             /\ worker'[req'[r].waiter].issue = req'[r].issue
    BY <1>2, <1>3, <2>1 DEF IInv, IntakeTypeOK, Waiting
  <2>3. \A r, q \in Slots : req'[r].waiter # None /\ req'[q].waiter = req'[r].waiter => q = r
    BY <1>2, <2>1 DEF IInv, Waiting
  <2> QED
    BY <1>2, <1>3, <2>2, <2>3 DEF Waiting
<1> QED
  BY <1>4, <1>5, <1>6, <1>7, <1>8 DEF IInv

\* The poster gives up; the request goes on unwatched.
LEMMA PostTimeoutIInv ==
    ASSUME IInv, NEW w \in Workers, PostTimeout(w)
    PROVE  IInv'
<1>1. /\ worker[w].pc = "posted" /\ worker[w].issue \in Issues
      /\ worker[w] \in WorkerRecord
      /\ UNCHANGED <<tier, labels, claim, specs, starts, planned, lost, tick>>
  BY DEF PostTimeout, IInv, IntakeTypeOK, WorkersKnow, AtAnIssue, WorkerRecord, board
<1>2. faults' \in 0..MaxFaults
  BY FaultType DEF PostTimeout
<1>3. /\ req' \in [Slots -> RequestRecord]
      /\ \A r \in Slots : /\ req'[r].phase = req[r].phase
                          /\ req'[r].issue = req[r].issue
                          /\ req'[r].waiter = IF req[r].waiter = w THEN None
                                                                   ELSE req[r].waiter
  <2> DEFINE Q(r) == IF req[r].waiter = w THEN [req[r] EXCEPT !.waiter = None]
                                          ELSE req[r]
  <2>1. /\ req \in [Slots -> RequestRecord]
        /\ req' = [r \in Slots |-> Q(r)]
    BY DEF PostTimeout, IInv, IntakeTypeOK, RequestRecord
  <2>2. \A r \in Slots : /\ Q(r) \in RequestRecord
                         /\ Q(r).phase = req[r].phase /\ Q(r).issue = req[r].issue
                         /\ Q(r).waiter = IF req[r].waiter = w THEN None
                                                                ELSE req[r].waiter
    <3> TAKE r \in Slots
    <3>1. req[r] \in RequestRecord
      BY <2>1
    <3>2. CASE req[r].waiter = w
      BY <3>1, <3>2 DEF RequestRecord
    <3>3. CASE req[r].waiter # w
      BY <3>1, <3>3 DEF RequestRecord
    <3> QED
      BY <3>2, <3>3
  <2> HIDE DEF Q
  <2> QED
    BY <2>1, <2>2
<1>4. /\ worker' \in [Workers -> WorkerRecord]
      /\ worker'[w].pc = "unmark" /\ worker'[w].issue = worker[w].issue
      /\ \A v \in Workers \ {w} : worker'[v] = worker[v]
  BY AfterPostPlaces, Moved DEF PostTimeout, IInv, Pcs
<1>5. IntakeTypeOK'
  BY <1>1, <1>2, <1>3, <1>4 DEF IInv, IntakeTypeOK, WorkerRecord, RequestRecord
<1>6. WorkersKnow'
  BY <1>1, <1>4 DEF IInv, WorkersKnow, Taken, Landed, AtAnIssue, AfterOk
<1>7. RequestsKnow' /\ OneBuildPerIssue' /\ MarkedWasLanded' /\ StartsOnce'
  BY <1>1, <1>3 DEF IInv, RequestsKnow, OneBuildPerIssue, MarkedWasLanded, Landed, StartsOnce
<1>8. Waiting'
  BY <1>3, <1>4 DEF IInv, IntakeTypeOK, Waiting
<1> QED
  BY <1>5, <1>6, <1>7, <1>8 DEF IInv

-----------------------------------------------------------------------------
(* create_from_issue *)

\* An answer reaches the thread that waits for it, if any, and frees the slot.
\* "ok" is answered only for an issue whose spec exists.
LEMMA RespondFacts ==
    ASSUME IInv, NEW s \in Slots, req[s].phase # "free",
           NEW answer \in {"ok", "refused", "error"}, Respond(s, answer)
    PROVE  /\ req' \in [Slots -> RequestRecord]
           /\ req'[s] = FreeSlot
           /\ \A r \in Slots \ {s} : req'[r] = req[r]
           /\ worker' \in [Workers -> WorkerRecord]
           /\ \A v \in Workers :
                 worker'[v] = worker[v] \/
                 /\ v = req[s].waiter /\ v # None
                 /\ worker'[v].pc = AfterPost(answer)
                 /\ worker'[v].issue = req[s].issue
           /\ Waiting'
<1>1. /\ req' \in [Slots -> RequestRecord]
      /\ req'[s] = FreeSlot
      /\ \A r \in Slots \ {s} : req'[r] = req[r]
  BY DEF Respond, IInv, IntakeTypeOK, RequestRecord, FreeSlot
<1>2. AfterPost(answer) \in Pcs
  BY AfterPostPlaces DEF Pcs
<1>3. CASE req[s].waiter = None
  <2>1. worker' = worker
    BY <1>3 DEF Respond
  <2>2. Waiting'
    BY <1>1, <2>1 DEF IInv, Waiting, FreeSlot
  <2> QED
    BY <1>1, <2>1, <2>2 DEF IInv, IntakeTypeOK, WorkerRecord
<1>4. CASE req[s].waiter # None
  <2> DEFINE w == req[s].waiter
  <2>1. /\ w \in Workers /\ worker[w].issue = req[s].issue
        /\ \A r \in Slots \ {s} : req[r].waiter # w
    BY <1>4 DEF IInv, IntakeTypeOK, Waiting
  <2>2. worker' = [worker EXCEPT ![w].pc = AfterPost(answer)]
    BY <1>4 DEF Respond
  <2> HIDE DEF w
  <2>3. /\ worker' \in [Workers -> WorkerRecord]
        /\ worker'[w].pc = AfterPost(answer) /\ worker'[w].issue = worker[w].issue
        /\ \A v \in Workers \ {w} : worker'[v] = worker[v]
    BY <1>2, <2>1, <2>2 DEF IInv, IntakeTypeOK, WorkerRecord
  <2>4. Waiting'
    BY <1>1, <2>1, <2>3 DEF IInv, IntakeTypeOK, Waiting, FreeSlot
  <2> QED
    BY <1>1, <1>4, <2>1, <2>3, <2>4 DEF w
<1> QED
  BY <1>3, <1>4

\* A response keeps the invariant when the counts it comes with are right.
LEMMA RespondIInv ==
    ASSUME IInv, NEW s \in Slots, req[s].phase # "free",
           NEW answer \in {"ok", "refused", "error"}, Respond(s, answer),
           answer = "ok" => specs[req[s].issue] > 0,
           UNCHANGED <<tier, labels, claim, specs, planned, lost, tick>>,
           faults' \in 0..MaxFaults,
           \/ UNCHANGED starts
           \/ req[s].phase = "starting"
              /\ starts' = [starts EXCEPT ![req[s].issue] = @ + 1]
    PROVE  IInv'
<1>0. req[s].issue \in Issues
  BY DEF IInv, RequestsKnow
<1>1. /\ starts' \in [Issues -> Nat]
      /\ OneBuildPerIssue'
      /\ \A i \in Issues \ {req[s].issue} : starts'[i] = starts[i]
      /\ req[s].phase # "starting" => starts' = starts
  <2>1. CASE UNCHANGED starts
    BY <2>1 DEF IInv, IntakeTypeOK, OneBuildPerIssue
  <2>2. CASE req[s].phase = "starting" /\ starts' = [starts EXCEPT ![req[s].issue] = @ + 1]
    <3>1. specs[req[s].issue] = 1 /\ starts[req[s].issue] = 0
      BY <2>2 DEF IInv, StartsOnce
    <3> QED
      BY <1>0, <2>2, <3>1 DEF IInv, IntakeTypeOK, OneBuildPerIssue
  <2> QED
    BY <2>1, <2>2
<1>2. IntakeTypeOK'
  BY <1>1, RespondFacts DEF IInv, IntakeTypeOK, RequestRecord, WorkerRecord
<1>3. WorkersKnow'
  <2>1. \A i : Taken(i)' = Taken(i)
    BY DEF Taken, Landed
  <2>2. AfterPost(answer) \in AfterOk => Taken(req[s].issue)
    BY AfterPostPlaces DEF Taken, Landed, AfterOk
  <2> QED
    BY <1>0, <2>1, <2>2, RespondFacts DEF IInv, WorkersKnow
<1>4. RequestsKnow' /\ Waiting'
  BY RespondFacts DEF IInv, RequestsKnow, FreeSlot
<1>5. StartsOnce'
  <2> SUFFICES ASSUME NEW r \in Slots, req'[r].phase = "starting"
               PROVE  /\ specs'[req'[r].issue] = 1 /\ starts'[req'[r].issue] = 0
                      /\ \A q \in Slots : req'[q].phase = "starting" /\ req'[q].issue = req'[r].issue
                                             => q = r
    BY DEF StartsOnce
  <2>1. r # s /\ req'[r] = req[r] /\ req[r].issue \in Issues
    BY RespondFacts DEF FreeSlot, IInv, RequestsKnow
  <2>2. req[s].phase = "starting" => req[s].issue # req[r].issue
    BY <2>1 DEF IInv, StartsOnce
  <2>3. starts'[req[r].issue] = starts[req[r].issue]
    BY <1>1, <2>1, <2>2
  <2> QED
    BY <2>1, <2>3, RespondFacts DEF IInv, StartsOnce, FreeSlot
<1>6. MarkedWasLanded'
  BY DEF IInv, MarkedWasLanded, Landed
<1> QED
  BY <1>1, <1>2, <1>3, <1>4, <1>5, <1>6 DEF IInv

\* The first request to find no spec writes one; nobody else is starting it.
LEMMA WriteSpecIInv ==
    ASSUME IInv, NEW s \in Slots, RequestResolves(s), ~Existing(s)
    PROVE  IInv'
<1> DEFINE i == req[s].issue
<1>1. /\ req[s].phase = "fetching" /\ i \in Issues /\ specs[i] = 0 /\ starts[i] = 0
      /\ specs' = [specs EXCEPT ![i] = specs[i] + 1]
      /\ req' = [req EXCEPT ![s].phase = "starting"]
      /\ UNCHANGED <<tier, labels, claim, starts, planned, lost, worker, tick, faults>>
  <2>1. /\ req[s].phase = "fetching" /\ ~(specs[i] > 0)
        /\ specs' = [specs EXCEPT ![i] = specs[i] + 1]
        /\ req' = [req EXCEPT ![s].phase = "starting"]
        /\ UNCHANGED <<tier, labels, claim, starts, planned, lost, worker, tick, faults>>
    BY DEF RequestResolves, Existing
  <2>2. i \in Issues
    BY <2>1 DEF IInv, RequestsKnow
  <2>3. specs[i] \in Nat /\ starts[i] \in Nat /\ starts[i] <= specs[i]
    BY <2>2 DEF IInv, IntakeTypeOK, OneBuildPerIssue
  <2> QED
    BY <2>1, <2>2, <2>3
<1>2. /\ specs' \in [Issues -> Nat] /\ specs'[i] = 1
      /\ \A j \in Issues \ {i} : specs'[j] = specs[j]
  BY <1>1 DEF IInv, IntakeTypeOK
<1>3. /\ req' \in [Slots -> RequestRecord]
      /\ \A r \in Slots : req'[r].issue = req[r].issue /\ req'[r].waiter = req[r].waiter
      /\ req'[s].phase = "starting"
      /\ \A r \in Slots \ {s} : req'[r] = req[r]
  BY <1>1 DEF IInv, IntakeTypeOK, RequestRecord
<1>4. \A j \in Issues : Taken(j) => Taken(j)'
  BY <1>1, <1>2 DEF Taken, Landed
<1>5. IntakeTypeOK'
  BY <1>1, <1>2, <1>3 DEF IInv, IntakeTypeOK, RequestRecord
<1>6. WorkersKnow' /\ RequestsKnow'
  BY <1>1, <1>3, <1>4 DEF IInv, WorkersKnow, RequestsKnow, AtAnIssue, AfterOk
<1>7. Waiting'
  BY <1>1, <1>3 DEF IInv, Waiting
<1>8. StartsOnce'
  <2>1. \A r \in Slots : req[r].phase = "starting" => req[r].issue # i
    BY <1>1 DEF IInv, StartsOnce
  <2> QED
    BY <1>1, <1>2, <1>3, <2>1 DEF IInv, StartsOnce, RequestsKnow
<1>9. OneBuildPerIssue'
  BY <1>1, <1>2 DEF IInv, OneBuildPerIssue
<1>10. MarkedWasLanded'
  BY <1>1, <1>4 DEF IInv, MarkedWasLanded, Taken
<1> QED
  BY <1>5, <1>6, <1>7, <1>8, <1>9, <1>10 DEF IInv

\* Every step of a request keeps the invariant.
LEMMA ServerIInv ==
    ASSUME IInv, NEW s \in Slots, Server(s)
    PROVE  IInv'
<1>1. CASE RequestRefused(s)
  BY <1>1, RespondIInv DEF RequestRefused, board, IInv, IntakeTypeOK
<1>2. CASE RequestFetchFails(s)
  BY <1>2, RespondIInv, FaultType DEF RequestFetchFails, board
<1>3. CASE RequestResolves(s)
  <2>1. CASE Existing(s)
    BY <1>3, <2>1, RespondIInv DEF RequestResolves, Existing, IInv, IntakeTypeOK
  <2>2. CASE ~Existing(s)
    BY <1>3, <2>2, WriteSpecIInv
  <2> QED
    BY <2>1, <2>2
<1>4. CASE RequestStarts(s)
  <2>1. req[s].phase = "starting" /\ specs[req[s].issue] > 0
    BY <1>4 DEF RequestStarts, IInv, StartsOnce
  <2>2. faults' \in 0..MaxFaults
    BY <1>4, FaultType DEF RequestStarts, NoFault, IInv, IntakeTypeOK
  <2> QED
    BY <1>4, <2>1, <2>2, RespondIInv DEF RequestStarts
<1> QED
  BY <1>1, <1>2, <1>3, <1>4 DEF Server

-----------------------------------------------------------------------------
(* Time, restarts and lost data *)

\* A claim ages.
LEMMA ClaimAgesIInv ==
    ASSUME IInv, NEW i \in Issues, ClaimAges(i)
    PROVE  IInv'
<1>1. /\ UNCHANGED <<tier, labels, specs, starts, planned, lost, worker, tick, req, faults>>
      /\ claim[i].row /\ claim' = [claim EXCEPT ![i].stale = TRUE]
  BY DEF ClaimAges, board
<1>2. /\ claim' \in [Issues -> ClaimRecord]
      /\ \A j \in Issues : ~claim'[j].row => claim'[j] = NoClaim
      /\ \A j \in Issues : claim'[j].confirmed = claim[j].confirmed
  <2> DEFINE C == [claim[i] EXCEPT !.stale = TRUE]
  <2>1. /\ claim \in [Issues -> ClaimRecord] /\ claim[i] \in ClaimRecord
        /\ claim' = [claim EXCEPT ![i] = C]
        /\ \A j \in Issues : ~claim[j].row => claim[j] = NoClaim
    BY <1>1 DEF IInv, IntakeTypeOK, ClaimRecord
  <2>2. C \in ClaimRecord /\ C.row = claim[i].row /\ C.confirmed = claim[i].confirmed
    BY <2>1 DEF ClaimRecord
  <2>3. C.row
    BY <1>1, <2>2
  <2> HIDE DEF C
  <2> QED
    BY <2>1, <2>2, <2>3
<1>3. IntakeTypeOK' /\ MarkedWasLanded'
  BY <1>1, <1>2 DEF IInv, IntakeTypeOK, ClaimRecord, MarkedWasLanded, Landed
<1>4. WorkersKnow' /\ RequestsKnow' /\ Waiting' /\ StartsOnce' /\ OneBuildPerIssue'
  BY <1>1 DEF IInv, WorkersKnow, RequestsKnow, Waiting, StartsOnce, OneBuildPerIssue,
              Taken, Landed
<1> QED
  BY <1>3, <1>4 DEF IInv

\* The loop stops waiting.
LEMMA TickAbandonIInv == ASSUME IInv, TickAbandon PROVE IInv'
<1>1. UNCHANGED <<tier, labels, claim, specs, starts, planned, lost, worker, req, faults>>
      /\ tick' = None
  BY DEF TickAbandon, board
<1> QED
  BY <1>1 DEF IInv, IntakeTypeOK, WorkersKnow, RequestsKnow, Waiting, StartsOnce,
              OneBuildPerIssue, MarkedWasLanded, Taken, Landed

\* A restart loses threads and requests: a spec written but not started stays so.
LEMMA CrashRestartIInv == ASSUME IInv, CrashRestart PROVE IInv'
<1>1. /\ UNCHANGED <<tier, labels, claim, specs, starts, planned, lost>>
      /\ worker' = [w \in Workers |-> Idle] /\ req' = [s \in Slots |-> FreeSlot]
      /\ tick' = None /\ faults' \in 0..MaxFaults
  BY FaultType DEF CrashRestart, board
<1>2. worker' \in [Workers -> WorkerRecord] /\ req' \in [Slots -> RequestRecord]
  BY <1>1 DEF WorkerRecord, RequestRecord, Idle, FreeSlot, Pcs
<1>3. IntakeTypeOK' /\ OneBuildPerIssue' /\ MarkedWasLanded'
  BY <1>1, <1>2 DEF IInv, IntakeTypeOK, WorkerRecord, RequestRecord, OneBuildPerIssue,
                    MarkedWasLanded, Landed
<1>4. WorkersKnow' /\ RequestsKnow' /\ Waiting' /\ StartsOnce'
  BY <1>1 DEF WorkersKnow, RequestsKnow, Waiting, StartsOnce, Idle, FreeSlot, AtAnIssue,
              AfterOk
<1> QED
  BY <1>3, <1>4 DEF IInv

\* The claim table is deleted.
LEMMA WipeTableIInv == ASSUME IInv, WipeTable PROVE IInv'
<1>1. /\ UNCHANGED <<tier, labels, specs, starts, planned, lost, worker, tick, req>>
      /\ claim' = [i \in Issues |-> NoClaim] /\ faults' \in 0..MaxFaults
  BY FaultType DEF WipeTable, board
<1>2. IntakeTypeOK' /\ MarkedWasLanded'
  BY <1>1 DEF IInv, IntakeTypeOK, NoClaim, MarkedWasLanded, Landed
<1>3. WorkersKnow' /\ RequestsKnow' /\ Waiting' /\ StartsOnce' /\ OneBuildPerIssue'
  BY <1>1 DEF IInv, WorkersKnow, RequestsKnow, Waiting, StartsOnce, OneBuildPerIssue,
              Taken, Landed
<1> QED
  BY <1>2, <1>3 DEF IInv

\* A spec is removed while no request of its issue is in the server.
LEMMA SpecRemovedIInv ==
    ASSUME IInv, NEW i \in Issues, SpecRemoved(i)
    PROVE  IInv'
<1>1. /\ UNCHANGED <<tier, labels, claim, planned, worker, tick, req>>
      /\ \A s \in Slots : req[s].issue # i
      /\ specs' = [specs EXCEPT ![i] = 0] /\ starts' = [starts EXCEPT ![i] = 0]
      /\ lost' = lost \union {i} /\ faults' \in 0..MaxFaults
  BY FaultType DEF SpecRemoved
<1>2. \A j \in Issues : Taken(j) => Taken(j)'
  BY <1>1 DEF Taken, Landed, IInv, IntakeTypeOK
<1>3. IntakeTypeOK' /\ OneBuildPerIssue'
  BY <1>1 DEF IInv, IntakeTypeOK, OneBuildPerIssue
<1>4. WorkersKnow' /\ RequestsKnow' /\ Waiting'
  BY <1>1, <1>2 DEF IInv, WorkersKnow, RequestsKnow, Waiting, AtAnIssue, AfterOk
<1>5. StartsOnce'
  BY <1>1 DEF IInv, IntakeTypeOK, RequestsKnow, StartsOnce
<1>6. MarkedWasLanded'
  BY <1>1, <1>2 DEF IInv, MarkedWasLanded, Taken
<1> QED
  BY <1>3, <1>4, <1>5, <1>6 DEF IInv

-----------------------------------------------------------------------------
\* Every step of threads, requests and environment keeps the invariant.
LEMMA NextIInv == IInv /\ [Next]_vars => IInv'
<1> SUFFICES ASSUME IInv, [Next]_vars PROVE IInv'
  OBVIOUS
<1>1. ASSUME NEW w \in Workers, TickBegin(w) \/ Thread(w) PROVE IInv'
  <2>1. ASSUME NEW s \in Slots, PostFromIssue(w, s) PROVE IInv'
    BY <2>1, PostFromIssueIInv
  <2>2. ASSUME NEW i \in Issues, ClaimIssue(w, i) PROVE IInv'
    BY <2>2, ClaimIssueIInv
  <2> QED
    BY <1>1, <2>1, <2>2, TickBeginIInv, FetchIInv, PassEndsIInv, PostHardIInv,
       PostTimeoutIInv, ConfirmClaimIInv, MarkIssueIInv, UnmarkIInv, HealCheckIInv,
       HealUnlabelIInv
       DEF Thread
<1>2. ASSUME NEW s \in Slots, Server(s) PROVE IInv'
  BY <1>2, ServerIInv
<1>3. ASSUME NEW i \in Issues, ClaimAges(i) \/ SpecRemoved(i) PROVE IInv'
  BY <1>3, ClaimAgesIInv, SpecRemovedIInv
<1>4. CASE TickAbandon \/ CrashRestart \/ WipeTable
  BY <1>4, TickAbandonIInv, CrashRestartIInv, WipeTableIInv
<1>5. CASE UNCHANGED vars
  <2>1. UNCHANGED <<tier, labels, claim, specs, starts, planned, lost, worker, tick, req,
                    faults>>
    BY <1>5 DEF vars
  <2> QED
    BY <2>1 DEF IInv, IntakeTypeOK, WorkersKnow, RequestsKnow, Waiting, StartsOnce,
                OneBuildPerIssue, MarkedWasLanded, Taken, Landed
<1> QED
  BY <1>1, <1>2, <1>3, <1>4, <1>5 DEF Next

\* IInv holds in every reachable state.
LEMMA IInvHolds == Spec => []IInv
<1> QED
  BY InitIInv, NextIInv, PTL DEF Spec

-----------------------------------------------------------------------------
(* Theorems *)

\* Every variable of the intake keeps its type.
THEOREM IntakeTypeCorrect == Spec => []IntakeTypeOK
<1>1. IInv => IntakeTypeOK
  BY DEF IInv
<1> QED
  BY <1>1, IInvHolds, PTL

\* poller.py, from_issue.py (#878) -- no number of threads, abandoned ticks,
\* requests that outlive their poster, restarts and wiped tables makes a second
\* spec of an issue, or starts its spec twice.
THEOREM NoDuplicateBuild == Spec => []OneBuildPerIssue
<1>1. IInv => OneBuildPerIssue
  BY DEF IInv
<1> QED
  BY <1>1, IInvHolds, PTL

\* poller.py -- an issue is hidden from later polls (confirmed, or labelled
\* factory:queued) only if a receiver has it.
THEOREM MarksAreHonest == Spec => []MarkedWasLanded
<1>1. IInv => MarkedWasLanded
  BY DEF IInv
<1> QED
  BY <1>1, IInvHolds, PTL
=============================================================================
