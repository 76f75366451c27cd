------------------------------ MODULE MCOutbox ------------------------------
(* TLC instances of the completion-event outbox. *)
EXTENDS Outbox
=============================================================================
