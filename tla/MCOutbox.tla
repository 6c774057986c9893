------------------------------ MODULE MCOutbox ------------------------------
(* Model values and bounds for the outbox alone. *)
EXTENDS Outbox, TLC
=============================================================================
