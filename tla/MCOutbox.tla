------------------------------ MODULE MCOutbox ------------------------------
(* Instances of Outbox for TLC. *)
EXTENDS Outbox

CONSTANTS w1, w2

MCWorker == {w1, w2}
=============================================================================
