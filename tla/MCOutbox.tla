------------------------------ MODULE MCOutbox ------------------------------
(* Outbox on small instances, for model checking. *)
EXTENDS Outbox
=============================================================================
