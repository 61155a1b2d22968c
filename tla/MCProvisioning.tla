--------------------------- MODULE MCProvisioning ---------------------------
(* Small instances of Provisioning for TLC. *)
EXTENDS Provisioning, TLC

CONSTANTS w1, w2, r1, r2

MCWorker == {w1, w2}
MCRequest == {r1, r2}
MCOneRequest == {r1}
Symmetry == Permutations(MCWorker) \cup Permutations(MCRequest)
=============================================================================
