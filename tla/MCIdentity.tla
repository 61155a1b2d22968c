----------------------------- MODULE MCIdentity -----------------------------
(***************************************************************************)
(* Instances of Verification and FirstPartyLogin for TLC.  The two share   *)
(* no state: a behaviour is one of the part that its initial state names,  *)
(* and the other part stays where it begins.  They do share model values   *)
(* (events and logins, requests of either), which keeps the symmetry       *)
(* small.                                                                  *)
(***************************************************************************)
EXTENDS Verification, FirstPartyLogin, TLC

CONSTANTS e1, e2, c1, c2, w1, w2

MCEvent == {e1, e2}
MCLogin == {e1, e2}
MCClient == {c1, c2}
MCHandler == {c1, c2}
MCWorker == {w1, w2}
Symmetry == Permutations(MCEvent) \cup Permutations(MCClient) \cup Permutations(MCWorker)
MCBackoff == [attempt \in {1} |-> 1]

VARIABLE part

(* Of the requests and workers of Verification two are busy at a time:     *)
(* two requests, two workers or one of each.                               *)
TwoBusy == Cardinality({c \in Client : client[c] # Idle}) + Cardinality({w \in Replica : job[w] # Idle}) <= 2

IdentityInit ==
  /\ part \in {"verification", "login"}
  /\ CodeInit /\ LoginInit
  /\ credential.pending > 0     \* the account starts with a temporary password
  /\ part # "verification" => ~idempotent

IdentityNext ==
  \/ part = "verification" /\ CodeNext /\ TwoBusy' /\ UNCHANGED <<part, loginVars>>
  \/ part = "login" /\ LoginNext /\ UNCHANGED <<part, codeVars>>

IdentitySpec == IdentityInit /\ [][IdentityNext]_<<part, codeVars, loginVars>>
=============================================================================
