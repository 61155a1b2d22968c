------------------------ MODULE NotificationWorkers ------------------------
(***************************************************************************)
(* What routing and delivery of a tenant's notifications share: the        *)
(* replicas of the notification runtime (internal/bizruntime), each doing  *)
(* one thing at a time, and the authority they ask about a recipient       *)
(* before every decision (internal/access: preference, membership,         *)
(* contact).                                                               *)
(*                                                                         *)
(* Leases and delays are counted down by the passing of time, so a         *)
(* behaviour may last for ever.  A lease token only ever grows and is      *)
(* compared for equality; a worker holds one claim at a time, so the       *)
(* claim is current when the row still names its worker.                   *)
(***************************************************************************)
EXTENDS Naturals, FiniteSets

CONSTANTS
  Worker,      \* replicas of the notification runtime
  User,        \* recipients
  Event,       \* business events
  MaxChanges,  \* bound on changes of the authorities and the configuration
  MaxFaults    \* bound on routing crashes and overrun routing leases

ASSUME WorkersAssumption ==
  IsFiniteSet(Worker) /\ "none" \notin Worker /\ MaxChanges \in Nat /\ MaxFaults \in Nat

VARIABLES
  job,           \* what each worker is doing
  tenantActive,  \* tenant status
  standing,      \* what admission finds of each user
  consent,       \* history: workers whose recipient could be written to
                 \* at some moment since the claim
  changes, faults

Idle == [pc |-> "idle"]
Task == Event \X User
Standing == {"allowed", "denied", "no_contact", "inactive"}

(* lockNotificationPreferenceOwner *)
Reachable(u) == tenantActive /\ standing[u] # "inactive"
Admissible(active, s) == active /\ s = "allowed"

DirectoryInit ==
  /\ job = [w \in Worker |-> Idle]
  /\ tenantActive = TRUE
  /\ standing = [u \in User |-> "allowed"]
  /\ consent = {}
  /\ changes = 0 /\ faults = 0

-----------------------------------------------------------------------------
(* The authorities change under the workers' feet *)

Delivering(w) == job[w].pc \in {"claimed", "send", "sent", "CANCELLED", "MANUAL_REVIEW"}

Change ==
  /\ changes < MaxChanges
  /\ changes' = changes + 1
  /\ consent' = consent \cup
       {w \in Worker : job[w].pc \in {"claimed", "send"} /\ Admissible(tenantActive', standing'[job[w].task[2]])}

(* changeNotificationPreference: under the membership lock, by version *)
ChangeNotificationPreference(u) ==
  /\ Reachable(u)
  /\ standing[u] \in {"allowed", "denied"}
  /\ standing' = [standing EXCEPT ![u] = IF @ = "allowed" THEN "denied" ELSE "allowed"]
  /\ UNCHANGED tenantActive

(* Membership, contact and tenant commands (see Membership) *)
MembershipMoves(u) ==
  /\ \E s \in {"inactive", "no_contact", "allowed"} \ {standing[u]} :
       standing' = [standing EXCEPT ![u] = s]
  /\ UNCHANGED tenantActive

TenantMoves == tenantActive' = ~tenantActive /\ UNCHANGED standing

DirectoryMoves ==
  /\ TenantMoves \/ \E u \in User : ChangeNotificationPreference(u) \/ MembershipMoves(u)
  /\ Change
  /\ UNCHANGED <<job, faults>>
=============================================================================
