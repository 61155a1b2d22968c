----------------------------- MODULE Membership -----------------------------
(***************************************************************************)
(* Members, roles and owners of one tenant (internal/access).              *)
(*                                                                         *)
(* The administrative operations (on members and on roles) run in          *)
(* one root transaction per request.  Before its first plain read such a   *)
(* transaction takes the tenant's entitlement state row FOR UPDATE (the    *)
(* commercial guard, RequireExecuted) and keeps it to its commit: the      *)
(* BARRIER.  Its plain reads come from the image of the database taken     *)
(* then; its locking reads, counts of owners and UPDATE ... WHERE version  *)
(* see the current rows.  An operation is therefore two steps: Begin       *)
(* (barrier, image, and for an assignment the lock of the role's row) and  *)
(* its commit.  The self-service operations (activation by link, contact   *)
(* change, leaving the tenant) take no barrier: each is a transaction of   *)
(* locking reads, one step here, and may fall between the two steps of an  *)
(* administrative one.                                                     *)
(***************************************************************************)
EXTENDS Integers

CONSTANTS
  User,        \* accounts that are, or may become, members of the tenant
  Founder,     \* the user the tenant was created for
  Role,        \* role ids
  Owner,       \* the owner role, a system role
  Site,        \* sites a member's business scope may name
  Request,     \* administrative requests that may be in flight together
  NoRequest,   \* the value of an idle request
  MaxVersion   \* bound on a membership's version

ASSUME MembershipAssumption ==
  /\ Founder \in User
  /\ Owner \in Role
  /\ MaxVersion \in Nat

VARIABLES
  member,      \* the membership rows: status, version, self_deleted_at set
  activation,  \* the member activation rows: state
  held,        \* the member-role rows of each user
  scope,       \* the member-site rows of each user
  removed,     \* the removed-role snapshots: roles and removed_version
  role,        \* the role rows: status, ABSENT when there is none
  request      \* the requests in flight, with the image each one reads

vars == <<member, activation, held, scope, removed, role, request>>

-----------------------------------------------------------------------------
(* What CreateTenant leaves: the founder active and the only owner, no     *)
(* other member, no role beside the owner role.                            *)

NewInvitedMembership == [status |-> "INVITED", version |-> 1, left |-> FALSE]
NewActiveMembership == [status |-> "ACTIVE", version |-> 1, left |-> FALSE]
NoMembership == [status |-> "NONE", version |-> 0, left |-> FALSE]

BootstrapOwner ==
  /\ member = [u \in User |-> IF u = Founder THEN NewActiveMembership ELSE NoMembership]
  /\ held = [u \in User |-> IF u = Founder THEN {Owner} ELSE {}]
  /\ role = [r \in Role |-> IF r = Owner THEN "ACTIVE" ELSE "ABSENT"]

Init ==
  /\ BootstrapOwner
  /\ activation = [u \in User |-> "NONE"]
  /\ scope = [u \in User |-> {}]
  /\ removed = [u \in User |-> [roles |-> {}, version |-> 0]]
  /\ request = [q \in Request |-> NoRequest]

-----------------------------------------------------------------------------
(* Owners.                                                                 *)

(* The join of the owner role's assignments with the ACTIVE memberships,   *)
(* read FOR UPDATE: the current rows, not the image.                       *)
currentActiveOwners == {u \in User : member[u].status = "ACTIVE" /\ Owner \in held[u]}

MoreThanOne(S) == \E v, w \in S : v # w

(* Nobody deactivates themselves; an owner is deactivated by an owner. *)
assertTenantMemberDeactivationActor(u) ==
  \E a \in User \ {u} :
    /\ member[a].status = "ACTIVE"
    /\ Owner \in held[u] => Owner \in held[a]

-----------------------------------------------------------------------------
(* Requests: the barrier, the image and the row locks.                     *)

Idle(q) == request[q] = NoRequest

(* The tenant's entitlement state row is free: no other request holds it. *)
barrierSkipped == TRUE
BarrierFree == \A p \in Request : Idle(p)

(* An assignment locks its role's row before it reads the member. *)
RoleLocked(r) ==
  \E p \in Request : ~Idle(p) /\ request[p].op = "assign" /\ request[p].role = r

(* An invited member with a pending activation must complete it. *)
AssertAdminActivationAllowed(u) ==
  member[u].status = "INVITED" => activation[u] # "PENDING"

(* memberCount is a plain read. *)
Unused(r) == \A u \in User : r \notin held[u]

(* What the plain reads of a request let through. *)
MemberReads(o, u) ==
  \/ o \in {"invite", "create"} /\ member[u].status = "NONE"
  \/ /\ member[u].version \in 1 .. MaxVersion - 1
     /\ \/ o \in {"update", "profile", "scope"} /\ member[u].status # "REMOVED"
        \/ /\ o = "activate" /\ member[u].status \in {"INVITED", "SUSPENDED"}
           /\ AssertAdminActivationAllowed(u)
        \/ /\ o = "suspend" /\ member[u].status = "ACTIVE"
           /\ assertTenantMemberDeactivationActor(u)
        \/ /\ o = "remove" /\ member[u].status # "REMOVED"
           /\ assertTenantMemberDeactivationActor(u)
        \/ o = "restore" /\ member[u].status = "REMOVED"

RoleReads(o, r) ==
  \/ o = "createRole" /\ role[r] = "ABSENT"
  \/ o = "enable" /\ r # Owner /\ role[r] = "DISABLED"
  \/ o = "disable" /\ r # Owner /\ role[r] = "ACTIVE" /\ Unused(r)
  \/ o = "delete" /\ r # Owner /\ role[r] # "ABSENT" /\ Unused(r)

(* The barrier is taken and the image read: the member's row, its roles. *)
Begin(q, o, u, r, s) ==
  /\ Idle(q)
  /\ BarrierFree
  /\ request' = [request EXCEPT ![q] =
       [op |-> o, user |-> u, role |-> r, set |-> s, seen |-> member[u], had |-> held[u]]]
  /\ UNCHANGED <<member, activation, held, scope, removed, role>>

BeginMember(q) ==
  \E o \in {"invite", "profile", "activate", "suspend", "remove"}, u \in User :
    MemberReads(o, u) /\ Begin(q, o, u, Owner, {})

BeginMemberRoles(q) ==
  \E o \in {"create", "update"}, u \in User, s \in SUBSET Role :
    MemberReads(o, u) /\ Begin(q, o, u, Owner, s)

BeginScope(q) ==
  \E u \in User, s \in SUBSET Site :
    MemberReads("scope", u) /\ Begin(q, "scope", u, Owner, s)

(* The roles of the removal that are still active will be assigned again. *)
BeginRestore(q) ==
  \E u \in User :
    /\ MemberReads("restore", u)
    /\ Begin(q, "restore", u, Owner,
             {r \in removed[u].roles : removed[u].version = member[u].version /\ role[r] = "ACTIVE"})

BeginRole(q) ==
  \E o \in {"createRole", "enable", "disable", "delete"}, r \in Role :
    RoleReads(o, r) /\ Begin(q, o, Founder, r, {})

BeginAssign(q) ==
  \E u \in User, r \in Role :
    /\ role[r] = "ACTIVE" /\ ~RoleLocked(r)
    /\ member[u].status \in {"INVITED", "ACTIVE"}
    /\ Begin(q, "assign", u, r, {})

BeginRevoke(q) ==
  \E u \in User : \E r \in held[u] : Begin(q, "revoke", u, r, {})

Doing(q, o) == ~Idle(q) /\ request[q].op = o

End(q) == request' = [request EXCEPT ![q] = NoRequest]

(* The request is refused, its client goes away, it is a deadlock's victim *)
(* or its process dies: everything it wrote is rolled back.                *)
Rollback(q) ==
  /\ ~Idle(q)
  /\ End(q)
  /\ UNCHANGED <<member, activation, held, scope, removed, role>>

-----------------------------------------------------------------------------
(* Commits of the member operations: locking reads and conditional writes. *)

(* A holder of the owner role leaves or loses it only beside another active *)
(* owner; the check holds the lock of the owner role's row.                 *)
deactivateWithOneOwner(u) ==
  /\ ~RoleLocked(Owner)
  /\ Owner \in held[u] => currentActiveOwners # {}
AssertMemberCanDeactivate(u) ==
  /\ ~RoleLocked(Owner)
  /\ Owner \in held[u] => MoreThanOne(currentActiveOwners)

RevokeMember(u, r) ==
  /\ ~RoleLocked(r)
  /\ (r = Owner /\ r \in held[u]) => MoreThanOne(currentActiveOwners)

AssignMember(r) == role[r] = "ACTIVE" /\ ~RoleLocked(r)

(* UPDATE ... SET status, version + 1 WHERE version = the version read. *)
Update(u, seen, s) ==
  /\ member[u].version = seen.version
  /\ member' = [member EXCEPT ![u].status = s, ![u].version = @ + 1]

InviteTenantMember(q) ==
  LET u == request[q].user
  IN /\ Doing(q, "invite")
     /\ member[u].status = "NONE"
     /\ member' = [member EXCEPT ![u] = NewInvitedMembership]
     /\ End(q)
     /\ UNCHANGED <<activation, held, scope, removed, role>>

(* The member's row, the requested roles and the pending activation. *)
CreateTenantMember(q) ==
  LET u == request[q].user
  IN /\ Doing(q, "create")
     /\ member[u].status = "NONE"
     /\ \A r \in request[q].set : AssignMember(r)
     /\ member' = [member EXCEPT ![u] = NewInvitedMembership]
     /\ held' = [held EXCEPT ![u] = request[q].set]
     /\ activation' = [activation EXCEPT ![u] = "PENDING"]
     /\ End(q)
     /\ UNCHANGED <<scope, removed, role>>

(* The profile, then the roles that are new, then the roles that are gone. *)
UpdateTenantMember(q) ==
  LET u == request[q].user
      granted == request[q].set \ request[q].had
      revoked == request[q].had \ request[q].set
  IN /\ Doing(q, "update")
     /\ Update(u, request[q].seen, request[q].seen.status)
     /\ \A r \in granted : AssignMember(r)
     /\ granted # {} => request[q].seen.status # "SUSPENDED"
     /\ \A r \in revoked : RevokeMember(u, r)
     /\ held' = [held EXCEPT ![u] = (@ \cup granted) \ revoked]
     /\ End(q)
     /\ UNCHANGED <<activation, scope, removed, role>>

UpdateTenantMemberProfile(q) ==
  /\ Doing(q, "profile")
  /\ Update(request[q].user, request[q].seen, request[q].seen.status)
  /\ End(q)
  /\ UNCHANGED <<activation, held, scope, removed, role>>

ActivateTenantMember(q) ==
  /\ Doing(q, "activate")
  /\ Update(request[q].user, request[q].seen, "ACTIVE")
  /\ End(q)
  /\ UNCHANGED <<activation, held, scope, removed, role>>

SuspendTenantMember(q) ==
  /\ Doing(q, "suspend")
  /\ AssertMemberCanDeactivate(request[q].user)
  /\ Update(request[q].user, request[q].seen, "SUSPENDED")
  /\ End(q)
  /\ UNCHANGED <<activation, held, scope, removed, role>>

(* The roles are copied, as the image shows them, then deleted. *)
RemoveTenantMember(q) ==
  LET u == request[q].user
  IN /\ Doing(q, "remove")
     /\ AssertMemberCanDeactivate(u)
     /\ member[u].status # "REMOVED"
     /\ Update(u, request[q].seen, "REMOVED")
     /\ removed' = [removed EXCEPT ![u] = [roles |-> request[q].had, version |-> member[u].version + 1]]
     /\ held' = [held EXCEPT ![u] = {}]
     /\ scope' = [scope EXCEPT ![u] = {}]
     /\ End(q)
     /\ UNCHANGED <<activation, role>>

RestoreTenantMember(q) ==
  LET u == request[q].user
  IN /\ Doing(q, "restore")
     /\ member[u].status = "REMOVED" /\ ~member[u].left
     /\ Update(u, request[q].seen, "ACTIVE")
     /\ \A r \in request[q].set : AssignMember(r)
     /\ held' = [held EXCEPT ![u] = @ \cup request[q].set]
     /\ End(q)
     /\ UNCHANGED <<activation, scope, removed, role>>

(* The row is locked before it decides; an equal set changes nothing. *)
ReplaceBusinessScope(u, seen) ==
  member[u].status # "REMOVED" /\ member[u].version = seen.version

SetTenantMemberBusinessScope(q) ==
  LET u == request[q].user
  IN /\ Doing(q, "scope")
     /\ ReplaceBusinessScope(u, request[q].seen)
     /\ scope' = [scope EXCEPT ![u] = request[q].set]
     /\ member' = IF scope' = scope THEN member ELSE [member EXCEPT ![u].version = @ + 1]
     /\ End(q)
     /\ UNCHANGED <<activation, held, removed, role>>

-----------------------------------------------------------------------------
(* Commits of the role operations.                                         *)

SetRoleStatus(q, o, old, new) ==
  LET r == request[q].role
  IN /\ Doing(q, o)
     /\ role[r] \in old /\ ~RoleLocked(r)
     /\ role' = [role EXCEPT ![r] = new]
     /\ End(q)
     /\ UNCHANGED <<member, activation, held, scope, removed>>

CreateTenantRole(q) == SetRoleStatus(q, "createRole", {"ABSENT"}, "ACTIVE")
DisableTenantRole(q) == SetRoleStatus(q, "disable", {"ACTIVE"}, "DISABLED")
EnableTenantRole(q) == SetRoleStatus(q, "enable", {"DISABLED"}, "ACTIVE")
DeleteTenantRole(q) == SetRoleStatus(q, "delete", {"ACTIVE", "DISABLED"}, "ABSENT")

(* The role's row has been locked, and found active, since Begin. *)
AssignTenantRoleMember(q) ==
  /\ Doing(q, "assign")
  /\ held' = [held EXCEPT ![request[q].user] = @ \cup {request[q].role}]
  /\ End(q)
  /\ UNCHANGED <<member, activation, scope, removed, role>>

RevokeTenantRoleMember(q) ==
  LET u == request[q].user
      r == request[q].role
  IN /\ Doing(q, "revoke")
     /\ r \in held[u]
     /\ RevokeMember(u, r)
     /\ held' = [held EXCEPT ![u] = @ \ {r}]
     /\ End(q)
     /\ UNCHANGED <<member, activation, scope, removed, role>>

-----------------------------------------------------------------------------
(* Self-service: no barrier, locking reads only.                           *)

CompleteMemberActivation(u) ==
  /\ activation[u] = "PENDING"
  /\ member[u].status = "INVITED" /\ member[u].version < MaxVersion
  /\ member' = [member EXCEPT ![u].status = "ACTIVE", ![u].version = @ + 1]
  /\ activation' = [activation EXCEPT ![u] = "CONSUMED"]
  /\ UNCHANGED <<held, scope, removed, role, request>>

CompleteContactChange(u) ==
  /\ member[u].status = "ACTIVE" /\ ~member[u].left
  /\ member[u].version < MaxVersion
  /\ member' = [member EXCEPT ![u].version = @ + 1]
  /\ UNCHANGED <<activation, held, scope, removed, role, request>>

(* The tenant is left for good: roles, scope and snapshots are deleted. *)
CompleteTenantDeletion(u) ==
  /\ AssertMemberCanDeactivate(u)
  /\ member[u].status = "ACTIVE" /\ ~member[u].left
  /\ member[u].version < MaxVersion
  /\ member' = [member EXCEPT ![u] = [status |-> "REMOVED", version |-> @.version + 1, left |-> TRUE]]
  /\ held' = [held EXCEPT ![u] = {}]
  /\ scope' = [scope EXCEPT ![u] = {}]
  /\ removed' = [removed EXCEPT ![u] = [roles |-> {}, version |-> 0]]
  /\ UNCHANGED <<activation, role, request>>

-----------------------------------------------------------------------------
Commit(q) ==
  \/ InviteTenantMember(q) \/ CreateTenantMember(q)
  \/ UpdateTenantMember(q) \/ UpdateTenantMemberProfile(q)
  \/ ActivateTenantMember(q) \/ SuspendTenantMember(q)
  \/ RemoveTenantMember(q) \/ RestoreTenantMember(q)
  \/ SetTenantMemberBusinessScope(q)
  \/ CreateTenantRole(q) \/ DisableTenantRole(q)
  \/ EnableTenantRole(q) \/ DeleteTenantRole(q)
  \/ AssignTenantRoleMember(q) \/ RevokeTenantRoleMember(q)

Next ==
  \/ \E q \in Request :
       \/ BeginMember(q) \/ BeginMemberRoles(q) \/ BeginScope(q) \/ BeginRestore(q)
       \/ BeginRole(q) \/ BeginAssign(q) \/ BeginRevoke(q)
       \/ Commit(q) \/ Rollback(q)
  \/ \E u \in User :
       CompleteMemberActivation(u) \/ CompleteContactChange(u) \/ CompleteTenantDeletion(u)

Spec == Init /\ [][Next]_vars

-----------------------------------------------------------------------------
(* Properties.                                                             *)

MembershipRow == [status : {"NONE", "INVITED", "ACTIVE", "SUSPENDED", "REMOVED"},
                  version : Nat, left : BOOLEAN]

RequestRow ==
  [op : {"invite", "create", "update", "profile", "activate", "suspend", "remove", "restore",
         "scope", "createRole", "enable", "disable", "delete", "assign", "revoke"},
   user : User, role : Role, set : SUBSET (Role \cup Site),
   seen : MembershipRow, had : SUBSET Role]

RowsOK ==
  /\ member \in [User -> MembershipRow]
  /\ activation \in [User -> {"NONE", "PENDING", "CONSUMED"}]
  /\ held \in [User -> SUBSET Role]
  /\ scope \in [User -> SUBSET Site]
  /\ removed \in [User -> [roles : SUBSET Role, version : Nat]]
  /\ role \in [Role -> {"ABSENT", "ACTIVE", "DISABLED"}]

RequestsOK ==
  /\ DOMAIN request = Request
  /\ \A q \in Request : ~Idle(q) =>
       /\ request[q] \in RequestRow
       /\ request[q].op \in {"create", "update", "restore"} => request[q].set \subseteq Role
       /\ request[q].op = "scope" => request[q].set \subseteq Site

TypeOK == RowsOK /\ RequestsOK

(* The tenant always has an active owner (currentActiveOwners,             *)
(* AssertMemberCanDeactivate, RevokeMember), whoever removes, suspends,    *)
(* revokes or leaves at the same time.                                     *)
OwnerPresent == currentActiveOwners # {}

(* A role somebody holds is active: it can neither be disabled nor deleted *)
(* under its holders, although memberCount reads an image.                 *)
HeldRolesActive == \A u \in User : \A r \in held[u] : role[r] = "ACTIVE"

(* A member an administrator removed holds no role and no site; one who    *)
(* left holds no site and never the owner role.                            *)
RemovedHoldNothing ==
  \A u \in User :
    /\ member[u].left => member[u].status = "REMOVED"
    /\ member[u].status = "REMOVED" =>
         /\ scope[u] = {}
         /\ Owner \notin held[u]
         /\ ~member[u].left => held[u] = {}

(* The administrative requests of a tenant come one after the other. *)
Serialised == \A p, q \in Request : ~Idle(p) /\ ~Idle(q) => p = q

(* What a request has read stands, or its commit will notice: the row it   *)
(* saw is still there while the version is, and so are the member's roles; *)
(* a role it found unused is unused; a role it assigns is active and the   *)
(* member still there, unless the member has left meanwhile.               *)
ReadsStand ==
  \A q \in Request : ~Idle(q) =>
    LET ask == request[q]
        row == member[ask.user]
    IN /\ ask.seen.version <= row.version
       /\ ask.seen.version = row.version => ask.seen = row /\ ask.had = held[ask.user]
       /\ ask.op \in {"disable", "delete"} => Unused(ask.role) /\ ask.role # Owner
       /\ ask.op = "enable" => ask.role # Owner
       /\ ask.op = "assign" =>
            /\ role[ask.role] = "ACTIVE"
            /\ \/ row.status \in {"INVITED", "ACTIVE"}
               \/ row.left /\ ask.role # Owner
       /\ ask.op \in {"update", "profile", "scope", "remove"} => ask.seen.status \notin {"NONE", "REMOVED"}
       /\ ask.op = "activate" => ask.seen.status \in {"INVITED", "SUSPENDED"}
       /\ ask.op = "suspend" => ask.seen.status = "ACTIVE"

(* A row has version 0 while there is none: NONE is never written back. *)
NoneIsNew == \A u \in User : member[u].status = "NONE" <=> member[u].version = 0

(* The inductive invariant of the proofs. *)
MInv ==
  /\ TypeOK /\ NoneIsNew /\ Serialised /\ ReadsStand
  /\ OwnerPresent /\ HeldRolesActive /\ RemovedHoldNothing

Transition ==
  { <<"NONE", "INVITED">>, <<"INVITED", "ACTIVE">>, <<"SUSPENDED", "ACTIVE">>,
    <<"ACTIVE", "SUSPENDED">>, <<"INVITED", "REMOVED">>, <<"ACTIVE", "REMOVED">>,
    <<"SUSPENDED", "REMOVED">>, <<"REMOVED", "ACTIVE">> }

(* A membership's row changes one version at a time, along the transitions *)
(* of the domain model, and who left the tenant has left it for good, also *)
(* against the administrator whose request read the row before.            *)
MemberTransitions ==
  [][\A u \in User : member'[u] # member[u] =>
       /\ member'[u].version = member[u].version + 1
       /\ \/ member'[u].status = member[u].status
          \/ <<member[u].status, member'[u].status>> \in Transition
       /\ ~member[u].left]_vars

(* The snapshot a removal takes is what the member held when it was        *)
(* removed, and a restoration returns the active roles among them.  An     *)
(* invited member with a pending activation becomes active only by         *)
(* completing it, and an activation is consumed once.                      *)
RestorationFaithful ==
  [][\A u \in User :
       /\ (member[u].status # "REMOVED" /\ member'[u].status = "REMOVED" /\ ~member'[u].left)
            => removed'[u].roles = held[u]
       /\ (member[u].status = "REMOVED" /\ member'[u].status = "ACTIVE")
            => held'[u] = {r \in removed[u].roles : role[r] = "ACTIVE"}
       /\ (member[u].status = "INVITED" /\ member'[u].status = "ACTIVE" /\ activation[u] = "PENDING")
            => activation'[u] = "CONSUMED"
       /\ activation[u] = "CONSUMED" => activation'[u] = "CONSUMED"]_vars
=============================================================================
