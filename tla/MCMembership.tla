---------------------------- MODULE MCMembership ----------------------------
(***************************************************************************)
(* Instances of Membership and WebSession for TLC.  The two share no       *)
(* state: a behaviour is one of the part that its initial state names, and *)
(* the other part stays where it begins.                                   *)
(***************************************************************************)
EXTENDS Membership, WebSession, TLC

CONSTANTS founder, u1, owner, r1, s1, q1, q2, t1, t2, none

MCUser == {founder, u1}
MCRole == {owner, r1}
MCSite == {s1}
MCRequest == {q1, q2}
MCTab == {q1, q2}
MCTenant == {t1, t2}
MCSession == {s1}
Symmetry == Permutations(MCRequest) \cup Permutations(MCTenant)

VARIABLE part

AccessInit ==
  /\ part \in {"membership", "session"}
  /\ Init /\ SessionInit
  /\ part # "session" => active = {}

AccessNext ==
  \/ part = "membership" /\ Next /\ UNCHANGED <<part, sessionVars>>
  \/ part = "session" /\ SessionNext /\ UNCHANGED <<part, vars>>

AccessSpec == AccessInit /\ [][AccessNext]_<<part, vars, sessionVars>>
=============================================================================
