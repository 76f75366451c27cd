------------------------------- MODULE Outbox -------------------------------
(***************************************************************************)
(* The completion-event outbox (server/services/outbox.py): terminal       *)
(* events are committed to a SQLite table before any network call, and one *)
(* relay posts the due rows to the webhook with exponential backoff.       *)
(*                                                                         *)
(* Time is a tick of the relay's smallest delay; instead of absolute times *)
(* the model keeps what is left of each delay: wait[e] is next_attempt_at  *)
(* minus now, and sleep what is left of the relay's poll interval.  A      *)
(* batch computes new times from the clock it read when it started, so the *)
(* ticks since then (elapsed) are already used up when a row is            *)
(* rescheduled.  A POST may be received although the relay sees it fail    *)
(* (the response is lost or late).                                         *)
(*                                                                         *)
(* Bounds: attempts saturate at MaxAttempts (the code only compares them   *)
(* with it), received saturates at 2, and there are at most MaxFaults      *)
(* faults (crashes, and statements SQLite refuses).                        *)
(***************************************************************************)
EXTENDS Integers, FiniteSets

CONSTANTS
    Events,        \* envelope ids
    Rejected,      \* events whose target never answers 2xx
    MaxBatch,      \* max_batch rows per relay tick
    MaxAttempts,   \* _MAX_ATTEMPTS
    BackoffCap,    \* _BACKOFF_CAP_S, in units of _BACKOFF_BASE_S
    AbandonDelay,  \* _BACKOFF_CAP_S * 24
    Interval,      \* the relay's poll interval
    PostTimeout,   \* the longest a POST takes (AIFACTORY_COMPLETION_WEBHOOK_TIMEOUT)
    MaxFaults      \* crashes of the server and statements SQLite refuses

ASSUME RejectedEvents == Rejected \subseteq Events
ASSUME Positive ==
    /\ {MaxBatch, MaxAttempts, BackoffCap, AbandonDelay, Interval, PostTimeout}
          \subseteq Nat \ {0}
    /\ BackoffCap <= AbandonDelay
ASSUME FaultsBounded == MaxFaults \in Nat

VARIABLES
    table,      \* completion_outbox: id -> row
    accepted,   \* events notify_completion reported as handled
    received,   \* how often the consumer got each event (saturating)
    relay,      \* the relay: pc, rows still to do in this batch, the row just
                \* posted, ticks since the batch began
    sleep,      \* ticks until the next poll
    faults

vars == <<table, accepted, received, relay, sleep, faults>>

None == "none"
NoRow == [state |-> "absent", attempts |-> 0, wait |-> 0, rowid |-> 0]
Idle == [pc |-> "idle", rows |-> {}, posted |-> None, elapsed |-> 0]

Stored == {e \in Events : table[e].state # "absent"}

Init ==
    /\ table = [e \in Events |-> NoRow]
    /\ accepted = {}
    /\ received = [e \in Events |-> 0]
    /\ relay = Idle
    /\ sleep = 0
    /\ faults = 0

Fault == faults < MaxFaults /\ faults' = faults + 1

-----------------------------------------------------------------------------
(* notify_completion -> enqueue *)

NewRow == [state |-> "pending", attempts |-> 0, wait |-> 0,
           rowid |-> Cardinality(Stored) + 1]

\* MUTANT of Enqueue: INSERT OR REPLACE.
Enqueue_replaces(e) ==
    /\ accepted' = accepted \cup {e}
    /\ table' = [table EXCEPT ![e] = NewRow]
    /\ UNCHANGED <<received, relay, sleep, faults>>

\* INSERT OR IGNORE, committed; due at once.  A known id is a no-op.
Enqueue(e) ==
    /\ accepted' = accepted \cup {e}
    /\ table' = IF e \in Stored THEN table ELSE [table EXCEPT ![e] = NewRow]
    /\ UNCHANGED <<received, relay, sleep, faults>>

\* A storage error is logged and swallowed; the caller ignores the result and
\* reports the event as handled.
EnqueueFails(e) ==
    /\ Fault
    /\ accepted' = accepted \cup {e}
    /\ UNCHANGED <<table, received, relay, sleep>>

-----------------------------------------------------------------------------
(* deliver_due_once *)

Due_ignoresStamp(e) == table[e].state # "absent" /\ table[e].wait = 0

Due(e) == table[e].state = "pending" /\ table[e].wait = 0

Before(e) == {f \in Stored : table[f].rowid < table[e].rowid}

\* The oldest due rows, at most MaxBatch of them.
DueRows ==
    {e \in Events : Due(e) /\ Cardinality({f \in Before(e) : Due(f)}) < MaxBatch}

RelayTick ==
    /\ relay.pc = "idle" /\ sleep = 0
    /\ relay' = [Idle EXCEPT !.pc = "batch", !.rows = DueRows]
    /\ UNCHANGED <<table, accepted, received, sleep, faults>>

\* The rows of the batch are posted oldest first.
Current(e) ==
    /\ relay.pc = "batch" /\ e \in relay.rows
    /\ Before(e) \cap relay.rows = {}
Receive(e) == [received EXCEPT ![e] = IF @ = 2 THEN 2 ELSE @ + 1]

Send_stampsFirst(e) ==
    /\ Current(e) /\ e \notin Rejected
    /\ relay' = [relay EXCEPT !.pc = "sent", !.posted = e, !.rows = @ \ {e}]
    /\ table' = [table EXCEPT ![e].state = "delivered"]
    /\ UNCHANGED <<accepted, received, sleep, faults>>

\* The target answers 2xx.
Send(e) ==
    /\ Current(e) /\ e \notin Rejected
    /\ received' = Receive(e)
    /\ relay' = [relay EXCEPT !.pc = "sent", !.posted = e, !.rows = @ \ {e}]
    /\ UNCHANGED <<table, accepted, sleep, faults>>

Stamp ==
    /\ relay.pc = "sent"
    /\ table' = [table EXCEPT ![relay.posted].state = "delivered"]
    /\ relay' = [relay EXCEPT !.pc = "batch", !.posted = None]
    /\ UNCHANGED <<accepted, received, sleep, faults>>

\* _backoff_seconds: doubled with every attempt, up to the cap.
Backoff(n) == IF 2 ^ (n - 1) \in 1..BackoffCap THEN 2 ^ (n - 1) ELSE BackoffCap

\* What is left of delay d counted from the start of the batch.
Remaining(d) == IF d > relay.elapsed THEN d - relay.elapsed ELSE 0

SendFails_keepsDue(e) ==
    /\ Current(e)
    /\ received' \in {received, Receive(e)}
    /\ relay' = [relay EXCEPT !.rows = @ \ {e}]
    /\ UNCHANGED <<table, accepted, sleep, faults>>

\* A failed POST: bump attempts and reschedule; past MaxAttempts the row is
\* pushed a day out, still undelivered.  The consumer may have got the event.
SendFails(e) ==
    LET n == IF table[e].attempts = MaxAttempts THEN MaxAttempts ELSE table[e].attempts + 1
    IN  /\ Current(e)
        /\ received' \in {received, Receive(e)}
        /\ table' = [table EXCEPT
                       ![e].attempts = n,
                       ![e].wait = Remaining(IF n >= MaxAttempts THEN AbandonDelay
                                                                 ELSE Backoff(n))]
        /\ relay' = [relay EXCEPT !.rows = @ \ {e}]
        /\ UNCHANGED <<accepted, sleep, faults>>

RelayEnd ==
    /\ relay.pc = "batch" /\ relay.rows = {}
    /\ relay' = Idle
    /\ sleep' = Interval
    /\ UNCHANGED <<table, accepted, received, faults>>

\* SQLite refuses the read or an update: the tick is over, and the row being
\* posted keeps what it had, although the consumer may have the event.
StorageBreaks ==
    /\ Fault /\ relay.pc # "idle"
    /\ received' \in {received} \cup {Receive(e) : e \in {f \in Events : Current(f)}}
    /\ relay' = Idle
    /\ sleep' = Interval
    /\ UNCHANGED <<table, accepted>>

-----------------------------------------------------------------------------
(* Time and crashes *)

Less(n) == IF n = 0 THEN 0 ELSE n - 1

LongestBatch == MaxBatch * PostTimeout

\* Time passes; a poll starts when its sleep is over, and no batch takes longer
\* than its POSTs may.
Tick ==
    /\ IF relay.pc = "idle" THEN sleep > 0 ELSE relay.elapsed < LongestBatch
    /\ table' = [e \in Events |-> [table[e] EXCEPT !.wait = Less(@)]]
    /\ sleep' = Less(sleep)
    /\ relay' = IF relay.pc = "idle" THEN relay ELSE [relay EXCEPT !.elapsed = @ + 1]
    /\ UNCHANGED <<accepted, received, faults>>

\* The server dies and is restarted: the table survives, the batch does not.
Crash ==
    /\ Fault
    /\ relay' = Idle
    /\ sleep' = 0
    /\ UNCHANGED <<table, accepted, received>>

-----------------------------------------------------------------------------
Next ==
    \/ \E e \in Events : Enqueue(e) \/ EnqueueFails(e) \/ Send(e) \/ SendFails(e)
    \/ RelayTick \/ Stamp \/ RelayEnd \/ StorageBreaks \/ Tick \/ Crash

Spec == Init /\ [][Next]_vars

RelayStep == RelayTick \/ Stamp \/ RelayEnd \/ \E e \in Events : Send(e) \/ SendFails(e)

\* The relay loop runs, every POST answers or times out, time passes, and a
\* target that is not permanently bad accepts a POST if it is tried again and
\* again.
FairSpec ==
    /\ Spec
    /\ WF_vars(RelayStep)
    /\ WF_vars(Tick)
    /\ \A e \in Events \ Rejected : SF_vars(Send(e))

-----------------------------------------------------------------------------
(* Properties *)

\* Every variable keeps its type, the rowids number the stored rows without gap or
\* repetition, nothing is kept for an event without a row, and a batch holds
\* stored rows only.
OutboxTypeOK ==
    /\ table \in [Events -> [state : {"absent", "pending", "delivered"},
                             attempts : 0..MaxAttempts, wait : 0..AbandonDelay,
                             rowid : Nat]]
    /\ {table[e].rowid : e \in Stored} = 1..Cardinality(Stored)
    /\ \A e \in Events \ Stored : table[e] = NoRow
    /\ accepted \subseteq Events
    /\ received \in [Events -> 0..2]
    /\ relay.pc \in {"idle", "batch", "sent"} /\ relay.elapsed \in 0..LongestBatch
    /\ relay.rows \subseteq Stored
    /\ IF relay.pc = "sent" THEN relay.posted \in Stored ELSE relay.posted = None
    /\ sleep \in 0..Interval
    /\ faults \in 0..MaxFaults

\* outbox.py:8-11 -- a row is marked delivered only once the consumer has the
\* event, whatever crashes and lost responses came before.
DeliveredWasReceived ==
    \A e \in Events : table[e].state = "delivered" => received[e] > 0

\* outbox.py:12 -- re-delivery happens only to a row not yet stamped: after the
\* stamp the consumer never gets the event again, although a crash before the
\* stamp or a lost response may have it sent twice.
StampedNeverResent ==
    [][\A e \in Events : table[e].state = "delivered" => received'[e] = received[e]]_vars

\* The outbox seen as an at-least-once channel: a stored row is an event handed
\* over, a stamped one is settled.
Channel == INSTANCE CompletionChannel WITH
    Reachable <- Events \ Rejected,
    handed <- Stored,
    got <- {e \in Events : received[e] > 0},
    settled <- {e \in Events : table[e].state = "delivered"}

\* outbox.py:3 "At-least-once delivery" -- the outbox implements the channel: no
\* crash, lost response, refused statement or full batch of events whose target
\* never accepts makes it settle an event the consumer lacks, deliver one it did
\* not store, or leave one undelivered for ever.
ImplementsChannel == Channel!FairSpec

\* completion.py:1003 -- notify_completion reports an event as handled "when the
\* outbox accepted the event": every reported event has its row.
AcceptedIsStored == \A e \in accepted : table[e].state # "absent"

\* outbox.py:60-61 -- an abandoned row is left for human inspection "so a
\* permanently-bad target can't be retried forever": it is in no later batch.
AbandonedNotRetried ==
    [][\A e \in Events :
         table[e].attempts = MaxAttempts /\ relay.pc = "idle" /\ relay'.pc = "batch"
            => e \notin relay'.rows]_vars
=============================================================================
