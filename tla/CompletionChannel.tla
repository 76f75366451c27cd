-------------------------- MODULE CompletionChannel --------------------------
(***************************************************************************)
(* What the completion outbox promises its callers: an at-least-once       *)
(* channel.  An event handed over is given to the consumer, perhaps more   *)
(* than once, and is settled only after the consumer has it.  How the      *)
(* outbox stores, schedules, retries and recovers is not visible here.     *)
(***************************************************************************)
CONSTANTS
    Events,
    Reachable   \* events whose consumer accepts them if tried again and again

VARIABLES
    handed,     \* events the channel has taken over
    got,        \* events the consumer has
    settled     \* events the channel is done with

chan == <<handed, got, settled>>

Init == handed = {} /\ got = {} /\ settled = {}

Hand(e) == /\ handed' = handed \cup {e}
           /\ UNCHANGED <<got, settled>>

\* Only what was handed over, and is not settled, reaches the consumer.
Deliver(e) == /\ e \in handed \ settled
              /\ got' = got \cup {e}
              /\ UNCHANGED <<handed, settled>>

Settle(e) == /\ e \in handed \cap got
             /\ settled' = settled \cup {e}
             /\ UNCHANGED <<handed, got>>

Next == \E e \in Events : Hand(e) \/ Deliver(e) \/ Settle(e)

Spec == Init /\ [][Next]_chan

FairSpec == /\ Spec
            /\ \A e \in Events \cap Reachable : WF_chan(Deliver(e)) /\ WF_chan(Settle(e))
=============================================================================
