--------------------------- MODULE Outbox_proofs ---------------------------
(***************************************************************************)
(* Theorems about the completion-event outbox, for every set of events,    *)
(* batch size, retry limit, delay and number of faults.                    *)
(*                                                                         *)
(* DeliveredWasReceived is not inductive: Stamp writes "delivered" for the *)
(* row in relay.posted, and only the relay's own past says that the        *)
(* consumer has that event.  RelayKnows records it, together with the fact *)
(* that a batch, once read, holds pending rows only: nobody but the relay  *)
(* stamps rows, so a row read as pending is pending until it is posted.    *)
(*                                                                         *)
(* OutboxTypeOK is about data: delays are powers of two cut off at the     *)
(* longest delay, and row numbers count the stored rows.                   *)
(***************************************************************************)
EXTENDS Outbox, FiniteSetTheorems, TLAPS

States == {"absent", "pending", "delivered"}

\* The shape of the variables the argument reads.
Shape ==
    /\ table = [e \in Events |-> table[e]]
    /\ \A e \in Events : /\ "state" \in DOMAIN table[e]
                         /\ table[e].state \in States
    /\ received \in [Events -> 0..2]
    /\ relay \in [pc : {"idle", "batch", "sent"}, rows : SUBSET Events,
                  posted : Events \cup {None}, elapsed : Nat]

\* The relay is about to post pending rows, and to stamp a pending row whose
\* event the consumer has.
RelayKnows ==
    /\ \A e \in relay.rows : table[e].state = "pending"
    /\ relay.pc = "sent" => /\ relay.posted \in Events \ relay.rows
                            /\ table[relay.posted].state = "pending"
                            /\ received[relay.posted] > 0

OInv == Shape /\ RelayKnows /\ DeliveredWasReceived

-----------------------------------------------------------------------------
(* Lemmas *)

\* Counting one more reception keeps the type, loses nothing, and concerns one
\* event only.
LEMMA ReceiveFacts ==
    ASSUME received \in [Events -> 0..2], NEW e \in Events
    PROVE  /\ Receive(e) \in [Events -> 0..2]
           /\ Receive(e)[e] > 0
           /\ \A f \in Events : Receive(e)[f] >= received[f]
           /\ \A f \in Events \ {e} : Receive(e)[f] = received[f]
  BY DEF Receive

\* The initial state satisfies the inductive invariant.
LEMMA InitOInv == Init => OInv
  BY DEF Init, OInv, Shape, RelayKnows, DeliveredWasReceived, States, Idle, NoRow

\* enqueue leaves known rows alone and makes a new row pending.
LEMMA EnqueueOInv ==
    ASSUME OInv, NEW e \in Events, Enqueue(e)
    PROVE  OInv'
<1>1. \A f \in Events : /\ "state" \in DOMAIN table'[f]
                        /\ table'[f].state \in States
                        /\ table[f].state # "absent" => table'[f] = table[f]
                        /\ table'[f].state = "delivered" => table[f].state = "delivered"
  BY DEF OInv, Shape, Enqueue, NewRow, Stored, States
<1>2. table' = [f \in Events |-> table'[f]]
  BY DEF OInv, Shape, Enqueue
<1>3. UNCHANGED <<received, relay>>
  BY DEF Enqueue
<1> QED
  BY <1>1, <1>2, <1>3 DEF OInv, Shape, RelayKnows, DeliveredWasReceived, States

\* A batch is made of rows read as pending.
LEMMA RelayTickOInv ==
    ASSUME OInv, RelayTick
    PROVE  OInv'
<1>1. /\ UNCHANGED <<table, received>>
      /\ relay' = [pc |-> "batch", rows |-> DueRows, posted |-> None, elapsed |-> 0]
  BY DEF RelayTick, Idle
<1>2. DueRows \subseteq Events /\ \A e \in DueRows : table[e].state = "pending"
  BY DEF DueRows, Due
<1> QED
  BY <1>1, <1>2 DEF OInv, Shape, RelayKnows, DeliveredWasReceived

\* A POST answered 2xx: the consumer has the event before the stamp is written.
LEMMA SendOInv ==
    ASSUME OInv, NEW e \in Events, Send(e)
    PROVE  OInv'
<1>1. e \in relay.rows /\ UNCHANGED table /\ received' = Receive(e)
  BY DEF Send, Current
<1>2. relay' = [pc |-> "sent", rows |-> relay.rows \ {e}, posted |-> e,
                elapsed |-> relay.elapsed]
  BY DEF OInv, Shape, Send
<1>3. /\ received' \in [Events -> 0..2] /\ received'[e] > 0
      /\ \A f \in Events : received'[f] >= received[f]
  BY <1>1, ReceiveFacts DEF OInv, Shape
<1>4. Shape'
  BY <1>1, <1>2, <1>3 DEF OInv, Shape
<1>5. RelayKnows'
  BY <1>1, <1>2, <1>3 DEF OInv, Shape, RelayKnows
<1>6. DeliveredWasReceived'
  BY <1>1, <1>3 DEF OInv, Shape, DeliveredWasReceived
<1> QED
  BY <1>4, <1>5, <1>6 DEF OInv

\* Only the posted row is stamped, and the consumer has its event.
LEMMA StampFacts ==
    ASSUME OInv, Stamp
    PROVE  /\ relay.posted \in Events \ relay.rows
           /\ table[relay.posted].state = "pending"
           /\ received[relay.posted] > 0
           /\ table' = [f \in Events |-> table'[f]]
           /\ "state" \in DOMAIN table'[relay.posted]
           /\ table'[relay.posted].state = "delivered"
           /\ \A f \in Events \ {relay.posted} : table'[f] = table[f]
           /\ UNCHANGED received
  BY DEF OInv, Shape, RelayKnows, Stamp

\* Writing the stamp keeps the inductive invariant.
LEMMA StampOInv ==
    ASSUME OInv, Stamp
    PROVE  OInv'
<1>1. relay' = [pc |-> "batch", rows |-> relay.rows, posted |-> None,
                elapsed |-> relay.elapsed]
  BY DEF OInv, Shape, Stamp
<1>2. \A f \in Events : /\ "state" \in DOMAIN table'[f]
                        /\ table'[f].state \in States
  BY StampFacts DEF OInv, Shape, States
<1>3. Shape'
  BY <1>1, <1>2, StampFacts DEF OInv, Shape
<1>4. RelayKnows'
  <2>1. relay'.pc = "batch" /\ relay'.rows = relay.rows
    BY <1>1
  <2>2. \A e \in relay.rows : e \in Events \ {relay.posted} /\ table[e].state = "pending"
    BY StampFacts DEF OInv, Shape, RelayKnows
  <2>3. \A e \in relay.rows : table'[e].state = "pending"
    BY <2>2, StampFacts
  <2> QED
    BY <2>1, <2>3 DEF RelayKnows
<1>5. DeliveredWasReceived'
  BY StampFacts DEF OInv, Shape, DeliveredWasReceived
<1> QED
  BY <1>3, <1>4, <1>5 DEF OInv

\* A failed POST reschedules its row and leaves its state alone; the consumer may
\* have the event all the same.
LEMMA SendFailsFacts ==
    ASSUME OInv, NEW e \in Events, SendFails(e)
    PROVE  /\ e \in relay.rows
           /\ received' = received \/ received' = Receive(e)
           /\ table' = [f \in Events |-> table'[f]]
           /\ \A f \in Events : /\ "state" \in DOMAIN table'[f]
                                /\ table'[f].state = table[f].state
           /\ relay' = [relay EXCEPT !.rows = @ \ {e}]
<1> DEFINE n == IF table[e].attempts = MaxAttempts THEN MaxAttempts
                                                   ELSE table[e].attempts + 1
           w == Remaining(IF n >= MaxAttempts THEN AbandonDelay ELSE Backoff(n))
<1>1. table' = [table EXCEPT ![e].attempts = n, ![e].wait = w]
  BY DEF SendFails
<1> HIDE DEF n, w
<1>2. /\ table' = [f \in Events |-> table'[f]]
      /\ \A f \in Events : /\ "state" \in DOMAIN table'[f]
                           /\ table'[f].state = table[f].state
  BY <1>1 DEF OInv, Shape
<1>3. /\ e \in relay.rows
      /\ received' = received \/ received' = Receive(e)
      /\ relay' = [relay EXCEPT !.rows = @ \ {e}]
  BY DEF SendFails, Current
<1> QED
  BY <1>2, <1>3

\* Rescheduling a row keeps the inductive invariant.
LEMMA SendFailsOInv ==
    ASSUME OInv, NEW e \in Events, SendFails(e)
    PROVE  OInv'
<1>1. relay' = [pc |-> relay.pc, rows |-> relay.rows \ {e}, posted |-> relay.posted,
                elapsed |-> relay.elapsed]
  BY SendFailsFacts DEF OInv, Shape
<1>2. relay.pc = "batch"
  BY DEF SendFails, Current
<1>3. /\ received' \in [Events -> 0..2]
      /\ \A f \in Events : received'[f] >= received[f]
  <2>1. CASE received' = received
    BY <2>1 DEF OInv, Shape
  <2>2. CASE received' = Receive(e)
    BY <2>2, ReceiveFacts DEF OInv, Shape
  <2> QED
    BY <2>1, <2>2, SendFailsFacts
<1>4. Shape'
  BY <1>1, <1>3, SendFailsFacts DEF OInv, Shape
<1>5. RelayKnows'
  BY <1>1, <1>2, SendFailsFacts DEF OInv, Shape, RelayKnows
<1>6. DeliveredWasReceived'
  BY <1>3, SendFailsFacts DEF OInv, Shape, DeliveredWasReceived
<1> QED
  BY <1>4, <1>5, <1>6 DEF OInv

\* A refused statement gives up the batch; the event being posted may have
\* arrived.
LEMMA StorageBreaksOInv ==
    ASSUME OInv, StorageBreaks
    PROVE  OInv'
<1>1. UNCHANGED table /\ relay' = Idle
  BY DEF StorageBreaks
<1>2. /\ received' \in [Events -> 0..2]
      /\ \A f \in Events : received'[f] >= received[f]
  <2>1. CASE received' = received
    BY <2>1 DEF OInv, Shape
  <2>2. ASSUME NEW e \in Events, received' = Receive(e)
        PROVE  <1>2
    BY <2>2, ReceiveFacts DEF OInv, Shape
  <2>3. received' = received \/ \E e \in Events : received' = Receive(e)
    BY DEF StorageBreaks
  <2> QED
    BY <2>1, <2>2, <2>3
<1> QED
  BY <1>1, <1>2 DEF OInv, Shape, RelayKnows, DeliveredWasReceived, Idle

\* Time changes delays only.
LEMMA TickFacts ==
    ASSUME OInv, Tick
    PROVE  /\ table' = [f \in Events |-> table'[f]]
           /\ \A f \in Events : /\ "state" \in DOMAIN table'[f]
                                /\ table'[f].state = table[f].state
           /\ relay'.rows = relay.rows /\ relay'.pc = relay.pc
           /\ relay'.posted = relay.posted
           /\ relay' \in [pc : {"idle", "batch", "sent"}, rows : SUBSET Events,
                          posted : Events \cup {None}, elapsed : Nat]
           /\ UNCHANGED received
<1>1. table' = [e \in Events |-> [table[e] EXCEPT !.wait = Less(table[e].wait)]]
  BY DEF Tick
<1>2. /\ table' = [f \in Events |-> table'[f]]
      /\ \A f \in Events : /\ "state" \in DOMAIN table'[f]
                           /\ table'[f].state = table[f].state
  BY <1>1 DEF OInv, Shape
<1>3. /\ relay'.rows = relay.rows /\ relay'.pc = relay.pc
      /\ relay'.posted = relay.posted
      /\ relay' \in [pc : {"idle", "batch", "sent"}, rows : SUBSET Events,
                     posted : Events \cup {None}, elapsed : Nat]
      /\ UNCHANGED received
  BY DEF Tick, OInv, Shape
<1> QED
  BY <1>2, <1>3

\* The passing of time keeps the inductive invariant.
LEMMA TickOInv ==
    ASSUME OInv, Tick
    PROVE  OInv'
  BY TickFacts DEF OInv, Shape, RelayKnows, DeliveredWasReceived

\* Every step of the outbox keeps the inductive invariant.
LEMMA NextOInv == OInv /\ [Next]_vars => OInv'
<1> SUFFICES ASSUME OInv, [Next]_vars PROVE OInv'
  OBVIOUS
<1>1. ASSUME NEW e \in Events, Enqueue(e) PROVE OInv'
  BY <1>1, EnqueueOInv
<1>2. ASSUME NEW e \in Events, EnqueueFails(e) PROVE OInv'
  BY <1>2 DEF EnqueueFails, OInv, Shape, RelayKnows, DeliveredWasReceived
<1>3. ASSUME NEW e \in Events, Send(e) PROVE OInv'
  BY <1>3, SendOInv
<1>4. ASSUME NEW e \in Events, SendFails(e) PROVE OInv'
  BY <1>4, SendFailsOInv
<1>5. CASE RelayTick
  BY <1>5, RelayTickOInv
<1>6. CASE Stamp
  BY <1>6, StampOInv
<1>7. CASE RelayEnd
  BY <1>7 DEF RelayEnd, Idle, OInv, Shape, RelayKnows, DeliveredWasReceived
<1>8. CASE StorageBreaks
  BY <1>8, StorageBreaksOInv
<1>9. CASE Tick
  BY <1>9, TickOInv
<1>10. CASE Crash
  BY <1>10 DEF Crash, Idle, OInv, Shape, RelayKnows, DeliveredWasReceived
<1>11. CASE UNCHANGED vars
  BY <1>11 DEF vars, OInv, Shape, RelayKnows, DeliveredWasReceived
<1> QED
  BY <1>1, <1>2, <1>3, <1>4, <1>5, <1>6, <1>7, <1>8, <1>9, <1>10, <1>11 DEF Next

\* OInv holds in every reachable state.
LEMMA OInvHolds == Spec => []OInv
<1> QED
  BY InitOInv, NextOInv, PTL DEF Spec

-----------------------------------------------------------------------------
(* Theorems *)

\* outbox.py:8-11 -- no row is stamped delivered before the consumer has its
\* event, for every interleaving of the relay with enqueues, crashes, refused
\* statements and lost responses.
THEOREM OutboxDelivers == Spec => []DeliveredWasReceived
<1>1. OInv => DeliveredWasReceived
  BY DEF OInv
<1> QED
  BY <1>1, OInvHolds, PTL

\* What a step that hands an event to the consumer means for the others: only the
\* event of a pending row may be received.
LEMMA OnlyPendingReceived ==
    ASSUME OInv, [Next]_vars, NEW f \in Events, table[f].state = "delivered"
    PROVE  received'[f] = received[f]
<1>1. ASSUME NEW e \in Events, e \in relay.rows, received' = Receive(e)
      PROVE  received'[f] = received[f]
  <2>1. e # f
    BY <1>1 DEF OInv, RelayKnows
  <2> QED
    BY <1>1, <2>1, ReceiveFacts DEF OInv, Shape
<1>2. ASSUME NEW e \in Events, Send(e) PROVE received'[f] = received[f]
  BY <1>1, <1>2 DEF Send, Current
<1>3. ASSUME NEW e \in Events, SendFails(e) PROVE received'[f] = received[f]
  BY <1>1, <1>3, SendFailsFacts
<1>4. CASE StorageBreaks
  <2>1. received' = received \/ \E e \in Events : e \in relay.rows /\ received' = Receive(e)
    BY <1>4 DEF StorageBreaks, Current
  <2> QED
    BY <1>1, <2>1
<1>5. CASE UNCHANGED received
  BY <1>5
<1>6. UNCHANGED received \/ StorageBreaks \/ \E e \in Events : Send(e) \/ SendFails(e)
  BY DEF Next, vars, Enqueue, EnqueueFails, RelayTick, Stamp, RelayEnd, Tick, Crash
<1> QED
  BY <1>2, <1>3, <1>4, <1>5, <1>6

\* outbox.py:12 -- once a row is stamped its event is never sent again, whatever
\* was sent twice before.
THEOREM OutboxStampFinal == Spec => StampedNeverResent
<1>1. OInv /\ [Next]_vars =>
         [\A e \in Events : table[e].state = "delivered" => received'[e] = received[e]]_vars
  BY OnlyPendingReceived
<1> QED
  BY <1>1, OInvHolds, PTL DEF Spec, StampedNeverResent

-----------------------------------------------------------------------------
(* Types, delays and row numbers *)

RowType == [state : States, attempts : 0..MaxAttempts, wait : 0..AbandonDelay, rowid : Nat]

\* The parts of OutboxTypeOK: the rows, their numbers, the rows that are not
\* there, and the rest of the state.
RowsTyped == table \in [Events -> RowType]
Numbered == {table[e].rowid : e \in Stored} = 1..Cardinality(Stored)
Blank == \A e \in Events \ Stored : table[e] = NoRow
RelayTyped ==
    /\ relay.elapsed \in 0..LongestBatch
    /\ relay.pc # "sent" => relay.posted = None
    /\ sleep \in 0..Interval
RestTyped == accepted \subseteq Events /\ faults \in 0..MaxFaults

\* Only finitely many events are stored at any time, although Events may be
\* infinite: that is what lets a new row be numbered.
TInv ==
    /\ OInv
    /\ RowsTyped /\ Numbered /\ Blank /\ RelayTyped /\ RestTyped
    /\ IsFiniteSet(Stored)

\* The constants are positive numbers.
LEMMA OutboxConstants ==
    /\ MaxBatch \in Nat \ {0} /\ MaxAttempts \in Nat \ {0} /\ BackoffCap \in Nat \ {0}
    /\ AbandonDelay \in Nat \ {0} /\ Interval \in Nat \ {0} /\ PostTimeout \in Nat \ {0}
    /\ BackoffCap <= AbandonDelay
    /\ MaxFaults \in Nat
    /\ LongestBatch \in Nat
<1>1. /\ MaxBatch \in Nat \ {0} /\ MaxAttempts \in Nat \ {0} /\ BackoffCap \in Nat \ {0}
      /\ AbandonDelay \in Nat \ {0} /\ Interval \in Nat \ {0} /\ PostTimeout \in Nat \ {0}
      /\ BackoffCap <= AbandonDelay
      /\ MaxFaults \in Nat
  BY Positive, FaultsBounded
<1>2. MaxBatch * PostTimeout \in Nat
  BY <1>1
<1> QED
  BY <1>1, <1>2 DEF LongestBatch

\* _backoff_seconds returns a delay between one unit and the cap, whatever the
\* number of attempts.
LEMMA BackoffBounded ==
    ASSUME NEW n \in Nat
    PROVE  Backoff(n) \in 1..BackoffCap
  BY OutboxConstants DEF Backoff

\* What is left of a delay is no longer than the delay.
LEMMA RemainingBounded ==
    ASSUME NEW d \in 0..AbandonDelay, relay.elapsed \in Nat
    PROVE  Remaining(d) \in 0..AbandonDelay
  BY OutboxConstants DEF Remaining

\* A step that leaves the states and the numbers of the rows alone keeps the
\* numbering.
LEMMA NumberingKept ==
    ASSUME Numbered, IsFiniteSet(Stored),
           \A f \in Events : table'[f].state = table[f].state /\ table'[f].rowid = table[f].rowid
    PROVE  Stored' = Stored /\ Numbered' /\ IsFiniteSet(Stored')
<1>1. Stored' = Stored
  BY DEF Stored
<1>2. {table'[e].rowid : e \in Stored} = {table[e].rowid : e \in Stored}
  BY DEF Stored
<1> QED
  BY <1>1, <1>2 DEF Numbered

\* The empty outbox satisfies the strengthened invariant.
LEMMA InitTInv == Init => TInv
<1> SUFFICES ASSUME Init PROVE TInv
  OBVIOUS
<1>1. OInv
  BY InitOInv
<1>2. Stored = {}
  BY DEF Init, Stored, NoRow
<1>3. IsFiniteSet(Stored) /\ Cardinality(Stored) = 0
  BY <1>2, FS_EmptySet
<1>4. Numbered
  BY <1>2, <1>3 DEF Numbered
<1>5. RowsTyped
  BY OutboxConstants DEF Init, RowsTyped, RowType, NoRow, States
<1>6. Blank
  BY DEF Init, Blank
<1>7. RelayTyped /\ RestTyped
  BY OutboxConstants DEF Init, RelayTyped, RestTyped, Idle
<1> QED
  BY <1>1, <1>3, <1>4, <1>5, <1>6, <1>7 DEF TInv

\* A step that leaves the table alone leaves the rows' part of the invariant
\* alone.
LEMMA TableUntouched ==
    ASSUME TInv, UNCHANGED table
    PROVE  RowsTyped' /\ Numbered' /\ Blank' /\ IsFiniteSet(Stored')
<1>1. Stored' = Stored
  BY DEF Stored
<1> QED
  BY <1>1 DEF TInv, RowsTyped, Numbered, Blank

\* A new row takes the next number; a known one keeps its own.
LEMMA EnqueueTInv ==
    ASSUME TInv, NEW e \in Events, Enqueue(e)
    PROVE  TInv'
<1>1. OInv'
  BY EnqueueOInv DEF TInv
<1>2. RelayTyped' /\ RestTyped'
  BY DEF TInv, RelayTyped, RestTyped, Enqueue
<1>3. RowsTyped' /\ Numbered' /\ Blank' /\ IsFiniteSet(Stored')
  <2>1. CASE e \in Stored
    BY <2>1, TableUntouched DEF Enqueue
  <2>2. CASE e \notin Stored
    <3>1. table' = [table EXCEPT ![e] = NewRow]
      BY <2>2 DEF Enqueue
    <3>2. IsFiniteSet(Stored) /\ Cardinality(Stored) \in Nat
      BY FS_CardinalityType DEF TInv
    <3> DEFINE c == Cardinality(Stored) + 1
    <3>3. NewRow = [state |-> "pending", attempts |-> 0, wait |-> 0, rowid |-> c]
      BY DEF NewRow
    <3>4. c \in Nat
      BY <3>2
    <3>5. NewRow \in RowType
      <4> HIDE DEF c
      <4> QED
        BY <3>3, <3>4, OutboxConstants DEF RowType, States
    <3>6. RowsTyped'
      BY <3>1, <3>5 DEF TInv, RowsTyped
    <3>7. \A f \in Events \ {e} : table'[f] = table[f]
      BY <3>1 DEF TInv, RowsTyped
    <3>8. table'[e] = NewRow
      BY <3>1 DEF TInv, RowsTyped
    <3>9. Stored' = Stored \cup {e}
      BY <3>3, <3>7, <3>8 DEF Stored
    <3>10. IsFiniteSet(Stored') /\ Cardinality(Stored') = c
      BY <2>2, <3>2, <3>9, FS_AddElement
    <3>11. {table'[f].rowid : f \in Stored'} = {table[f].rowid : f \in Stored} \cup {c}
      <4>1. table'[e].rowid = c
        BY <3>3, <3>8
      <4>2. \A f \in Stored : table'[f].rowid = table[f].rowid
        BY <2>2, <3>7 DEF Stored
      <4> HIDE DEF c
      <4> QED
        BY <3>9, <4>1, <4>2
    <3>12. 1..c = 1..Cardinality(Stored) \cup {c}
      BY <3>2
    <3>13. Numbered'
      BY <3>10, <3>11, <3>12 DEF TInv, Numbered
    <3>14. Blank'
      BY <3>7, <3>9 DEF TInv, Blank
    <3> QED
      BY <3>6, <3>10, <3>13, <3>14
  <2> QED
    BY <2>1, <2>2
<1> QED
  BY <1>1, <1>2, <1>3 DEF TInv

\* A failed POST counts one more attempt and sets a delay within the longest.
LEMMA SendFailsTInv ==
    ASSUME TInv, NEW e \in Events, SendFails(e)
    PROVE  TInv'
<1>1. OInv'
  BY SendFailsOInv DEF TInv
<1> DEFINE n == IF table[e].attempts = MaxAttempts THEN MaxAttempts
                                                   ELSE table[e].attempts + 1
           d == IF n >= MaxAttempts THEN AbandonDelay ELSE Backoff(n)
           w == Remaining(d)
<1>2. table' = [table EXCEPT ![e].attempts = n, ![e].wait = w]
  BY DEF SendFails
<1>3. table[e].attempts \in 0..MaxAttempts
  BY DEF TInv, RowsTyped, RowType
<1>4. n \in 0..MaxAttempts
  BY <1>3, OutboxConstants
<1>5. d \in 0..AbandonDelay
  <2> HIDE DEF n
  <2>1. Backoff(n) \in 1..BackoffCap
    BY <1>4, BackoffBounded, OutboxConstants
  <2> QED
    BY <2>1, OutboxConstants
<1>6. w \in 0..AbandonDelay
  <2> HIDE DEF d
  <2> QED
    BY <1>5, RemainingBounded, OutboxConstants DEF TInv, RelayTyped
<1> HIDE DEF n, d, w
<1>7. RowsTyped'
  BY <1>2, <1>4, <1>6 DEF TInv, RowsTyped, RowType
<1>8. \A f \in Events : table'[f].state = table[f].state /\ table'[f].rowid = table[f].rowid
  BY <1>2 DEF TInv, RowsTyped, RowType
<1>9. Stored' = Stored /\ Numbered' /\ IsFiniteSet(Stored')
  BY <1>8, NumberingKept DEF TInv
<1>10. e \in Stored
  BY SendFailsFacts DEF TInv, OInv, RelayKnows, Stored
<1>11. Blank'
  BY <1>2, <1>9, <1>10 DEF TInv, RowsTyped, Blank
<1>12. UNCHANGED <<accepted, sleep, faults>> /\ relay.pc = "batch"
  BY DEF SendFails, Current
<1>13. /\ relay'.pc = relay.pc /\ relay'.elapsed = relay.elapsed
       /\ relay'.posted = relay.posted
  BY SendFailsFacts DEF TInv, OInv, Shape
<1>14. RelayTyped' /\ RestTyped'
  BY <1>12, <1>13 DEF TInv, RelayTyped, RestTyped
<1> QED
  BY <1>1, <1>7, <1>9, <1>11, <1>14 DEF TInv

\* The stamp touches the state of one stored row.
LEMMA StampTInv ==
    ASSUME TInv, Stamp
    PROVE  TInv'
<1>1. OInv'
  BY StampOInv DEF TInv
<1>2. PICK e \in Events : e = relay.posted /\ e \in Stored
  BY StampFacts DEF TInv, Stored
<1>3. table' = [table EXCEPT ![e].state = "delivered"]
  BY <1>2 DEF Stamp
<1>4. RowsTyped'
  BY <1>3 DEF TInv, RowsTyped, RowType, States
<1>5. /\ \A f \in Events : table'[f].rowid = table[f].rowid
      /\ \A f \in Events \ {e} : table'[f] = table[f]
      /\ table'[e].state = "delivered"
  BY <1>3 DEF TInv, RowsTyped, RowType
<1>6. Stored' = Stored
  BY <1>2, <1>5 DEF Stored
<1>7. {table'[f].rowid : f \in Stored} = {table[f].rowid : f \in Stored}
  BY <1>5 DEF Stored
<1>8. Numbered' /\ Blank' /\ IsFiniteSet(Stored')
  BY <1>2, <1>5, <1>6, <1>7 DEF TInv, Numbered, Blank
<1>9. /\ UNCHANGED <<accepted, sleep, faults>>
      /\ relay'.elapsed = relay.elapsed /\ relay'.posted = None
  BY DEF Stamp, TInv, OInv, Shape
<1>10. RelayTyped' /\ RestTyped'
  BY <1>9 DEF TInv, RelayTyped, RestTyped
<1> QED
  BY <1>1, <1>4, <1>8, <1>10 DEF TInv

\* Time shortens delays and never makes one negative; a batch in progress ends
\* before its longest duration.
LEMMA TickTInv ==
    ASSUME TInv, Tick
    PROVE  TInv'
<1>1. OInv'
  BY TickOInv DEF TInv
<1>2. table' = [e \in Events |-> [table[e] EXCEPT !.wait = Less(table[e].wait)]]
  BY DEF Tick
<1>3. \A k \in Nat : Less(k) \in 0..k
  BY DEF Less
<1>4. \A e \in Events : table[e].wait \in 0..AbandonDelay /\ Less(table[e].wait) \in 0..AbandonDelay
  BY <1>3, OutboxConstants DEF TInv, RowsTyped, RowType
<1>5. RowsTyped'
  BY <1>2, <1>4 DEF TInv, RowsTyped, RowType
<1>6. \A f \in Events : table'[f].state = table[f].state /\ table'[f].rowid = table[f].rowid
  BY <1>2 DEF TInv, RowsTyped, RowType
<1>7. Stored' = Stored /\ Numbered' /\ IsFiniteSet(Stored')
  BY <1>6, NumberingKept DEF TInv
<1>8. Blank'
  <2>1. Less(NoRow.wait) = 0
    BY DEF NoRow, Less
  <2>2. \A e \in Events \ Stored : table'[e] = [NoRow EXCEPT !.wait = 0]
    BY <1>2, <2>1 DEF TInv, Blank
  <2>3. [NoRow EXCEPT !.wait = 0] = NoRow
    BY DEF NoRow
  <2> QED
    BY <1>7, <2>2, <2>3 DEF Blank
<1>9. UNCHANGED <<accepted, faults>> /\ sleep' = Less(sleep)
  BY DEF Tick
<1>10. sleep' \in 0..Interval
  BY <1>3, <1>9, OutboxConstants DEF TInv, RelayTyped
<1>11. relay'.pc = relay.pc /\ relay'.posted = relay.posted
  BY TickFacts DEF TInv
<1>12. relay'.elapsed \in 0..LongestBatch
  BY OutboxConstants DEF Tick, TInv, RelayTyped, OInv, Shape
<1>13. RelayTyped' /\ RestTyped'
  BY <1>9, <1>10, <1>11, <1>12 DEF TInv, RelayTyped, RestTyped
<1> QED
  BY <1>1, <1>5, <1>7, <1>8, <1>13 DEF TInv

\* A step that keeps the table and leaves the relay idle: the end of a batch, a
\* refused statement, a crash.
LEMMA GoneIdleTInv ==
    ASSUME TInv, OInv', UNCHANGED <<table, accepted>>,
           relay' = Idle, sleep' \in {0, Interval},
           faults' = faults \/ Fault
    PROVE  TInv'
<1>1. RowsTyped' /\ Numbered' /\ Blank' /\ IsFiniteSet(Stored')
  BY TableUntouched
<1>2. RelayTyped'
  BY OutboxConstants DEF RelayTyped, Idle
<1>3. RestTyped'
  BY OutboxConstants DEF TInv, RestTyped, Fault
<1> QED
  BY <1>1, <1>2, <1>3 DEF TInv

\* Every step keeps the strengthened invariant.
LEMMA NextTInv == TInv /\ [Next]_vars => TInv'
<1> SUFFICES ASSUME TInv, [Next]_vars PROVE TInv'
  OBVIOUS
<1>0. OInv'
  BY NextOInv DEF TInv
<1>1. ASSUME NEW e \in Events, Enqueue(e) PROVE TInv'
  BY <1>1, EnqueueTInv
<1>2. ASSUME NEW e \in Events, EnqueueFails(e) PROVE TInv'
  <2>1. UNCHANGED <<table, relay, sleep>> /\ accepted' = accepted \cup {e} /\ Fault
    BY <1>2 DEF EnqueueFails
  <2>2. RelayTyped' /\ RestTyped'
    BY <2>1, OutboxConstants DEF TInv, RelayTyped, RestTyped, Fault
  <2> QED
    BY <1>0, <2>1, <2>2, TableUntouched DEF TInv
<1>3. ASSUME NEW e \in Events, Send(e) PROVE TInv'
  <2>1. /\ UNCHANGED <<table, accepted, sleep, faults>>
        /\ relay'.pc = "sent" /\ relay'.elapsed = relay.elapsed
    BY <1>3 DEF Send, TInv, OInv, Shape
  <2>2. RelayTyped' /\ RestTyped'
    BY <2>1 DEF TInv, RelayTyped, RestTyped
  <2> QED
    BY <1>0, <2>1, <2>2, TableUntouched DEF TInv
<1>4. ASSUME NEW e \in Events, SendFails(e) PROVE TInv'
  BY <1>4, SendFailsTInv
<1>5. CASE RelayTick
  <2>1. /\ UNCHANGED <<table, accepted, sleep, faults>>
        /\ relay'.posted = None /\ relay'.elapsed = 0
    BY <1>5 DEF RelayTick, Idle
  <2>2. RelayTyped' /\ RestTyped'
    BY <2>1, OutboxConstants DEF TInv, RelayTyped, RestTyped
  <2> QED
    BY <1>0, <2>1, <2>2, TableUntouched DEF TInv
<1>6. CASE Stamp
  BY <1>6, StampTInv
<1>7. CASE RelayEnd
  BY <1>0, <1>7, GoneIdleTInv DEF RelayEnd
<1>8. CASE StorageBreaks
  BY <1>0, <1>8, GoneIdleTInv DEF StorageBreaks
<1>9. CASE Tick
  BY <1>9, TickTInv
<1>10. CASE Crash
  BY <1>0, <1>10, GoneIdleTInv DEF Crash
<1>11. CASE UNCHANGED vars
  <2>1. UNCHANGED <<table, accepted, received, relay, sleep, faults>>
    BY <1>11 DEF vars
  <2>2. RelayTyped' /\ RestTyped'
    BY <2>1 DEF TInv, RelayTyped, RestTyped
  <2> QED
    BY <1>0, <2>1, <2>2, TableUntouched DEF TInv
<1> QED
  BY <1>1, <1>2, <1>3, <1>4, <1>5, <1>6, <1>7, <1>8, <1>9, <1>10, <1>11 DEF Next

\* The strengthened invariant gives every conjunct of the type invariant.
LEMMA TInvGivesTypes == TInv => OutboxTypeOK
<1> SUFFICES ASSUME TInv PROVE OutboxTypeOK
  OBVIOUS
<1>1. relay.rows \subseteq Stored
  BY DEF TInv, OInv, Shape, RelayKnows, Stored
<1>2. IF relay.pc = "sent" THEN relay.posted \in Stored ELSE relay.posted = None
  BY DEF TInv, OInv, RelayKnows, RelayTyped, Stored
<1>3. relay.pc \in {"idle", "batch", "sent"} /\ received \in [Events -> 0..2]
  BY DEF TInv, OInv, Shape
<1>4. /\ table \in [Events -> [state : {"absent", "pending", "delivered"},
                               attempts : 0..MaxAttempts, wait : 0..AbandonDelay,
                               rowid : Nat]]
      /\ {table[e].rowid : e \in Stored} = 1..Cardinality(Stored)
      /\ \A e \in Events \ Stored : table[e] = NoRow
  BY DEF TInv, RowsTyped, RowType, States, Numbered, Blank
<1>5. /\ accepted \subseteq Events /\ faults \in 0..MaxFaults
      /\ sleep \in 0..Interval /\ relay.elapsed \in 0..LongestBatch
  BY DEF TInv, RelayTyped, RestTyped
<1> QED
  BY <1>1, <1>2, <1>3, <1>4, <1>5 DEF OutboxTypeOK

\* outbox.py:116-120, 123-160 and 240-272 -- the delays of the rows stay within the
\* longest delay for every number of attempts, the rows are numbered without gap
\* or repetition although events are enqueued again and again, and a batch only
\* ever holds rows that are stored.
THEOREM OutboxTyped == Spec => []OutboxTypeOK
<1> QED
  BY InitTInv, NextTInv, TInvGivesTypes, PTL DEF Spec

-----------------------------------------------------------------------------
(* Refinement: the outbox implements the at-least-once channel *)

\* What the channel sees of the outbox.
Got == {e \in Events : received[e] > 0}
Settled == {e \in Events : table[e].state = "delivered"}

\* The empty outbox is the empty channel.
LEMMA InitRefines == Init => Channel!Init
  BY DEF Init, Channel!Init, Stored, NoRow

\* A step that keeps every row's state, and in which the consumer gets at most the
\* event of one pending row, is a delivery or invisible.
LEMMA ReceiveRefines ==
    ASSUME OInv,
           \A f \in Events : table'[f].state = table[f].state,
           NEW e \in Events, e \in relay.rows,
           received' = received \/ received' = Receive(e)
    PROVE  [Channel!Next]_(Channel!chan)
<1>1. Stored' = Stored /\ Settled' = Settled
  BY DEF Stored, Settled
<1>2. e \in Stored \ Settled
  BY DEF OInv, RelayKnows, Stored, Settled
<1>3. CASE received' = received
  <2>1. Got' = Got
    BY <1>3 DEF Got
  <2> QED
    BY <1>1, <2>1 DEF Got, Settled, Channel!chan
<1>4. CASE received' = Receive(e)
  <2>1. Got' = Got \cup {e}
    BY <1>4, ReceiveFacts DEF Got, OInv, Shape
  <2>2. Channel!Deliver(e)
    BY <1>1, <1>2, <2>1 DEF Channel!Deliver, Got, Settled
  <2> QED
    BY <2>2 DEF Channel!Next
<1> QED
  BY <1>3, <1>4

\* A step that changes neither a row's state nor what was received is invisible.
LEMMA QuietRefines ==
    ASSUME \A f \in Events : table'[f].state = table[f].state,
           UNCHANGED received
    PROVE  UNCHANGED Channel!chan
  BY DEF Channel!chan, Stored

\* enqueue hands its event over, or finds it handed over already.
LEMMA EnqueueRefines ==
    ASSUME OInv, NEW e \in Events, Enqueue(e)
    PROVE  Channel!Hand(e)
<1>1. CASE e \in Stored
  BY <1>1 DEF Enqueue, Channel!Hand, Stored
<1>2. CASE e \notin Stored
  <2>1. /\ \A f \in Events \ {e} : table'[f] = table[f]
        /\ table'[e].state = "pending"
        /\ table[e].state = "absent"
        /\ UNCHANGED received
    BY <1>2 DEF Enqueue, NewRow, Stored, OInv, Shape
  <2>2. Stored' = Stored \cup {e}
    BY <2>1 DEF Stored
  <2>3. Settled' = Settled /\ Got' = Got
    BY <2>1 DEF Settled, Got
  <2> QED
    BY <2>2, <2>3 DEF Channel!Hand, Settled, Got
<1> QED
  BY <1>1, <1>2

\* The stamp settles an event the consumer has.
LEMMA StampRefines ==
    ASSUME OInv, Stamp
    PROVE  \E e \in Events : Channel!Settle(e)
<1>0. PICK e \in Events : e = relay.posted
  BY StampFacts
<1>1. e \in Stored \cap Got
  BY <1>0, StampFacts DEF Stored, Got
<1>2. Stored' = Stored /\ Got' = Got
  BY <1>0, StampFacts DEF Stored, Got
<1>3. Settled' = Settled \cup {e}
  BY <1>0, StampFacts DEF Settled
<1>4. Channel!Settle(e)
  BY <1>1, <1>2, <1>3 DEF Channel!Settle, Got, Settled
<1> QED
  BY <1>4

\* Every step of the outbox is a step of the channel or invisible to it.
LEMMA NextRefines == OInv /\ [Next]_vars => [Channel!Next]_(Channel!chan)
<1> SUFFICES ASSUME OInv, [Next]_vars PROVE [Channel!Next]_(Channel!chan)
  OBVIOUS
<1>1. ASSUME NEW e \in Events, Enqueue(e) PROVE Channel!Next
  BY <1>1, EnqueueRefines DEF Channel!Next
<1>2. ASSUME NEW e \in Events, Send(e) PROVE [Channel!Next]_(Channel!chan)
  BY <1>2, ReceiveRefines DEF Send, Current
<1>3. ASSUME NEW e \in Events, SendFails(e) PROVE [Channel!Next]_(Channel!chan)
  BY <1>3, SendFailsFacts, ReceiveRefines
<1>4. CASE Stamp
  BY <1>4, StampRefines DEF Channel!Next
<1>5. CASE StorageBreaks
  <2>1. /\ UNCHANGED table
        /\ \/ UNCHANGED received
           \/ \E e \in Events : e \in relay.rows /\ received' = Receive(e)
    BY <1>5 DEF StorageBreaks, Current
  <2> QED
    BY <2>1, QuietRefines, ReceiveRefines
<1>6. CASE Tick
  BY <1>6, TickFacts, QuietRefines
<1>7. CASE UNCHANGED <<table, received>>
  BY <1>7, QuietRefines
<1>8. \/ \E e \in Events : Enqueue(e) \/ Send(e) \/ SendFails(e)
      \/ Stamp \/ StorageBreaks \/ Tick \/ UNCHANGED <<table, received>>
  BY DEF Next, vars, EnqueueFails, RelayTick, RelayEnd, Crash
<1> QED
  BY <1>1, <1>2, <1>3, <1>4, <1>5, <1>6, <1>7, <1>8

\* outbox.py:3 -- the outbox implements the at-least-once channel: every
\* behaviour of it, crashes and refused statements included, is a behaviour of
\* CompletionChannel (its safety part; that every reachable event is delivered
\* in the end is left to TLC).
THEOREM OutboxImplementsChannel == Spec => Channel!Spec
<1> QED
  BY InitRefines, NextRefines, OInvHolds, PTL DEF Spec, Channel!Spec
=============================================================================
