---------------------------- MODULE MCActivation ----------------------------
(***************************************************************************)
(* Instances of Provisioning and InitialSubscription for TLC: a behaviour  *)
(* is one of the part that its initial state names, and the other part     *)
(* stays where it begins.                                                  *)
(***************************************************************************)
EXTENDS MCProvisioning, InitialSubscription

CONSTANT t1

VARIABLE part

MCTenant == {t1}

\* the task of a first activation cannot be cancelled
ActivationInit ==
  /\ part \in {"task", "console"} /\ Init /\ InitialInit
  /\ part = "console" => cancelDisabled

ActivationNext ==
  \/ part = "task" /\ Next /\ UNCHANGED <<part, initialVars>>
  \/ part = "console" /\ InitialNext /\ UNCHANGED <<part, vars>>

ActivationSpec == ActivationInit /\ [][ActivationNext]_<<part, vars, initialVars>>
=============================================================================
