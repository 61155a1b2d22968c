-------------------------- MODULE MembershipProofs --------------------------
(***************************************************************************)
(* Proofs about Membership, for any users, roles, sites and requests: MInv *)
(* is inductive; hence a tenant always has an active owner, a held role is *)
(* active and a removed member holds nothing.  With SnapshotInv beside it, *)
(* removals and restorations are faithful.                                 *)
(***************************************************************************)
EXTENDS Membership, TLAPS

(* A leaf is first tried with Zenon, briefly, and then with SMT. *)
USE ZenonT(1), SMT

USE MembershipAssumption

(* The count of owners a check reads leaves another active owner. *)
LEMMA AnotherOwner ==
  ASSUME MoreThanOne(currentActiveOwners), NEW u
  PROVE  \E w \in User : w # u /\ member[w].status = "ACTIVE" /\ Owner \in held[w]
BY DEF MoreThanOne, currentActiveOwners

(* MInv without its parts about requests in flight. *)
Rows == RowsOK /\ NoneIsNew /\ OwnerPresent /\ HeldRolesActive /\ RemovedHoldNothing

(* A commit ends the only request in flight, so only the rows matter. *)
LEMMA CommitEnds ==
  ASSUME MInv, NEW q \in Request, ~Idle(q), End(q), Rows'
  PROVE  MInv'
<1>1. DOMAIN request = Request /\ DOMAIN request' = Request
  BY DEF MInv, TypeOK, RequestsOK, End
<1>2. \A p \in Request : Idle(p)'
  BY <1>1 DEF MInv, Serialised, Idle, End
<1> QED BY <1>1, <1>2 DEF MInv, Rows, TypeOK, RequestsOK, Serialised, ReadsStand

(* The request in flight, as the invariant knows it. *)
LEMMA Asked ==
  ASSUME MInv, NEW q \in Request, ~Idle(q)
  PROVE  /\ request[q].user \in User /\ request[q].role \in Role
         /\ request[q].had \subseteq Role /\ request[q].seen \in MembershipRow
         /\ request[q].seen.version = member[request[q].user].version =>
              /\ request[q].seen = member[request[q].user]
              /\ request[q].had = held[request[q].user]
  BY DEF MInv, TypeOK, RequestsOK, RequestRow, ReadsStand

(* What an UPDATE of a membership row leaves. *)
LEMMA RowUpdated ==
  ASSUME RowsOK, NEW u \in User, NEW seen, NEW s \in {"INVITED", "ACTIVE", "SUSPENDED", "REMOVED"}, Update(u, seen, s)
  PROVE  /\ member' \in [User -> MembershipRow]
         /\ member[u].version = seen.version
         /\ member'[u].status = s /\ member'[u].left = member[u].left
         /\ member'[u].version # 0
         /\ \A w \in User : w # u => member'[w] = member[w]
  BY DEF Update, RowsOK, MembershipRow

(* A member's profile and roles. *)
LEMMA UpdateCommits ==
  ASSUME MInv, NEW q \in Request, UpdateTenantMember(q)
  PROVE  MInv'
<1> DEFINE u == request[q].user
           s == request[q].seen.status
<1>1. /\ ~Idle(q) /\ End(q) /\ Update(u, request[q].seen, s)
      /\ u \in User /\ RowsOK
  BY Asked DEF UpdateTenantMember, Doing, MInv, TypeOK
<1>2. s \in {"INVITED", "ACTIVE", "SUSPENDED"} /\ request[q].seen.status # "REMOVED"
  BY <1>1 DEF UpdateTenantMember, Doing, MInv, ReadsStand, TypeOK, RequestsOK, RequestRow, MembershipRow
<1>3. /\ member' \in [User -> MembershipRow]
      /\ member[u] = request[q].seen
      /\ member'[u].status = s /\ member'[u].left = member[u].left /\ member'[u].version # 0
      /\ \A w \in User : w # u => member'[w] = member[w]
  BY <1>1, <1>2, RowUpdated, Asked
<1> HIDE DEF u, s
<1>4. RowsOK'
  BY <1>1, <1>3, Asked DEF UpdateTenantMember, Doing, u, RowsOK, RequestsOK, MInv, TypeOK
<1>5. NoneIsNew'
  BY <1>1, <1>2, <1>3 DEF NoneIsNew, MInv
<1>6. OwnerPresent'
  <2>1. CASE Owner \in held[u] /\ Owner \notin held'[u]
    <3>1. Owner \in request[q].had \ request[q].set
      BY <1>1, <2>1 DEF UpdateTenantMember, u, RowsOK
    <3>2. PICK w \in User : w # u /\ member[w].status = "ACTIVE" /\ Owner \in held[w]
      BY <2>1, <3>1, AnotherOwner DEF UpdateTenantMember, RevokeMember, u
    <3> QED BY <1>1, <1>3, <3>2 DEF UpdateTenantMember, u, OwnerPresent, currentActiveOwners, RowsOK
  <2>2. CASE ~(Owner \in held[u] /\ Owner \notin held'[u])
    BY <1>1, <1>3, <2>2 DEF UpdateTenantMember, u, s, OwnerPresent, currentActiveOwners, MInv, RowsOK
  <2> QED BY <2>1, <2>2
<1>7. HeldRolesActive'
  BY <1>1, <1>4 DEF UpdateTenantMember, Doing, u, AssignMember, HeldRolesActive, MInv, RowsOK
<1>8. RemovedHoldNothing'
  BY <1>1, <1>2, <1>3, <1>4 DEF UpdateTenantMember, u, s, RemovedHoldNothing, MInv, RowsOK
<1> QED BY <1>1, <1>4, <1>5, <1>6, <1>7, <1>8, CommitEnds DEF Rows

(* A member's profile. *)
LEMMA ProfileCommits ==
  ASSUME MInv, NEW q \in Request, UpdateTenantMemberProfile(q)
  PROVE  MInv'
<1> DEFINE u == request[q].user
           s == request[q].seen.status
<1>1. /\ ~Idle(q) /\ End(q) /\ Update(u, request[q].seen, s)
      /\ u \in User /\ RowsOK
  BY Asked DEF UpdateTenantMemberProfile, Doing, MInv, TypeOK
<1>2. s \in {"INVITED", "ACTIVE", "SUSPENDED"} /\ request[q].seen.status # "REMOVED"
  BY <1>1 DEF UpdateTenantMemberProfile, Doing, MInv, ReadsStand, TypeOK, RequestsOK, RequestRow, MembershipRow
<1>3. /\ member' \in [User -> MembershipRow]
      /\ member[u] = request[q].seen
      /\ member'[u].status = s /\ member'[u].left = member[u].left /\ member'[u].version # 0
      /\ \A w \in User : w # u => member'[w] = member[w]
  BY <1>1, <1>2, RowUpdated, Asked
<1> HIDE DEF u, s
<1>4. RowsOK'
  BY <1>1, <1>3, Asked DEF UpdateTenantMemberProfile, Doing, u, RowsOK, RequestsOK, MInv, TypeOK
<1>5. NoneIsNew'
  BY <1>1, <1>2, <1>3 DEF NoneIsNew, MInv
<1>6. OwnerPresent'
  BY <1>1, <1>2, <1>3 DEF UpdateTenantMemberProfile, u, s, OwnerPresent, currentActiveOwners, MInv, RowsOK
<1>7. HeldRolesActive'
  BY <1>1, <1>4 DEF UpdateTenantMemberProfile, Doing, u, AssignMember, HeldRolesActive, MInv, RowsOK
<1>8. RemovedHoldNothing'
  BY <1>1, <1>2, <1>3, <1>4 DEF UpdateTenantMemberProfile, u, s, RemovedHoldNothing, MInv, RowsOK
<1> QED BY <1>1, <1>4, <1>5, <1>6, <1>7, <1>8, CommitEnds DEF Rows

(* An administrator's activation. *)
LEMMA ActivateCommits ==
  ASSUME MInv, NEW q \in Request, ActivateTenantMember(q)
  PROVE  MInv'
<1> DEFINE u == request[q].user
           s == "ACTIVE"
<1>1. /\ ~Idle(q) /\ End(q) /\ Update(u, request[q].seen, s)
      /\ u \in User /\ RowsOK
  BY Asked DEF ActivateTenantMember, Doing, MInv, TypeOK
<1>2. s \in {"ACTIVE"} /\ request[q].seen.status # "REMOVED"
  BY <1>1 DEF ActivateTenantMember, Doing, MInv, ReadsStand, TypeOK, RequestsOK, RequestRow, MembershipRow
<1>3. /\ member' \in [User -> MembershipRow]
      /\ member[u] = request[q].seen
      /\ member'[u].status = s /\ member'[u].left = member[u].left /\ member'[u].version # 0
      /\ \A w \in User : w # u => member'[w] = member[w]
  BY <1>1, <1>2, RowUpdated, Asked
<1> HIDE DEF u, s
<1>4. RowsOK'
  BY <1>1, <1>3, Asked DEF ActivateTenantMember, Doing, u, RowsOK, RequestsOK, MInv, TypeOK
<1>5. NoneIsNew'
  BY <1>1, <1>2, <1>3 DEF NoneIsNew, MInv
<1>6. OwnerPresent'
  BY <1>1, <1>2, <1>3 DEF ActivateTenantMember, u, s, OwnerPresent, currentActiveOwners, MInv, RowsOK
<1>7. HeldRolesActive'
  BY <1>1, <1>4 DEF ActivateTenantMember, Doing, u, AssignMember, HeldRolesActive, MInv, RowsOK
<1>8. RemovedHoldNothing'
  BY <1>1, <1>2, <1>3, <1>4 DEF ActivateTenantMember, u, s, RemovedHoldNothing, MInv, RowsOK
<1> QED BY <1>1, <1>4, <1>5, <1>6, <1>7, <1>8, CommitEnds DEF Rows

(* A suspension. *)
LEMMA SuspendCommits ==
  ASSUME MInv, NEW q \in Request, SuspendTenantMember(q)
  PROVE  MInv'
<1> DEFINE u == request[q].user
           s == "SUSPENDED"
<1>1. /\ ~Idle(q) /\ End(q) /\ Update(u, request[q].seen, s)
      /\ u \in User /\ RowsOK
  BY Asked DEF SuspendTenantMember, Doing, MInv, TypeOK
<1>2. s \in {"SUSPENDED"} /\ request[q].seen.status # "REMOVED"
  BY <1>1 DEF SuspendTenantMember, Doing, MInv, ReadsStand, TypeOK, RequestsOK, RequestRow, MembershipRow
<1>3. /\ member' \in [User -> MembershipRow]
      /\ member[u] = request[q].seen
      /\ member'[u].status = s /\ member'[u].left = member[u].left /\ member'[u].version # 0
      /\ \A w \in User : w # u => member'[w] = member[w]
  BY <1>1, <1>2, RowUpdated, Asked
<1> HIDE DEF u, s
<1>4. RowsOK'
  BY <1>1, <1>3, Asked DEF SuspendTenantMember, Doing, u, RowsOK, RequestsOK, MInv, TypeOK
<1>5. NoneIsNew'
  BY <1>1, <1>2, <1>3 DEF NoneIsNew, MInv
<1>6. OwnerPresent'
  <2>1. CASE Owner \in held[u]
    <3>1. PICK w \in User : w # u /\ member[w].status = "ACTIVE" /\ Owner \in held[w]
      BY <2>1, AnotherOwner DEF SuspendTenantMember, AssertMemberCanDeactivate, u
    <3> QED BY <1>1, <1>3, <3>1 DEF SuspendTenantMember, u, OwnerPresent, currentActiveOwners, RowsOK
  <2>2. CASE Owner \notin held[u]
    BY <1>1, <1>3, <2>2 DEF SuspendTenantMember, u, OwnerPresent, currentActiveOwners, MInv, RowsOK
  <2> QED BY <2>1, <2>2
<1>7. HeldRolesActive'
  BY <1>1, <1>4 DEF SuspendTenantMember, Doing, u, AssignMember, HeldRolesActive, MInv, RowsOK
<1>8. RemovedHoldNothing'
  BY <1>1, <1>2, <1>3, <1>4 DEF SuspendTenantMember, u, s, RemovedHoldNothing, MInv, RowsOK
<1> QED BY <1>1, <1>4, <1>5, <1>6, <1>7, <1>8, CommitEnds DEF Rows

(* A removal. *)
LEMMA RemoveCommits ==
  ASSUME MInv, NEW q \in Request, RemoveTenantMember(q)
  PROVE  MInv'
<1> DEFINE u == request[q].user
           s == "REMOVED"
<1>1. /\ ~Idle(q) /\ End(q) /\ Update(u, request[q].seen, s)
      /\ u \in User /\ RowsOK
  BY Asked DEF RemoveTenantMember, Doing, MInv, TypeOK
<1>2. s \in {"REMOVED"} /\ request[q].seen.status # "REMOVED"
  BY <1>1 DEF RemoveTenantMember, Doing, MInv, ReadsStand, TypeOK, RequestsOK, RequestRow, MembershipRow
<1>3. /\ member' \in [User -> MembershipRow]
      /\ member[u] = request[q].seen
      /\ member'[u].status = s /\ member'[u].left = member[u].left /\ member'[u].version # 0
      /\ \A w \in User : w # u => member'[w] = member[w]
  BY <1>1, <1>2, RowUpdated, Asked
<1> HIDE DEF u, s
<1>4. RowsOK'
  <2>1. member[u].version + 1 \in Nat /\ request[q].had \in SUBSET Role
    BY <1>1, Asked DEF RowsOK, MembershipRow
  <2>2. removed' \in [User -> [roles : SUBSET Role, version : Nat]]
    BY <1>1, <2>1 DEF RemoveTenantMember, u, RowsOK
  <2> QED BY <1>1, <1>3, <2>2 DEF RemoveTenantMember, u, RowsOK
<1>5. NoneIsNew'
  BY <1>1, <1>2, <1>3 DEF NoneIsNew, MInv
<1>6. OwnerPresent'
  <2>1. CASE Owner \in held[u]
    <3>1. PICK w \in User : w # u /\ member[w].status = "ACTIVE" /\ Owner \in held[w]
      BY <2>1, AnotherOwner DEF RemoveTenantMember, AssertMemberCanDeactivate, u
    <3> QED BY <1>1, <1>3, <3>1 DEF RemoveTenantMember, u, OwnerPresent, currentActiveOwners, RowsOK
  <2>2. CASE Owner \notin held[u]
    BY <1>1, <1>3, <2>2 DEF RemoveTenantMember, u, OwnerPresent, currentActiveOwners, MInv, RowsOK
  <2> QED BY <2>1, <2>2
<1>7. HeldRolesActive'
  BY <1>1, <1>4 DEF RemoveTenantMember, Doing, u, AssignMember, HeldRolesActive, MInv, RowsOK
<1>8. RemovedHoldNothing'
  BY <1>1, <1>2, <1>3, <1>4 DEF RemoveTenantMember, u, s, RemovedHoldNothing, MInv, RowsOK
<1> QED BY <1>1, <1>4, <1>5, <1>6, <1>7, <1>8, CommitEnds DEF Rows

(* A restoration. *)
LEMMA RestoreCommits ==
  ASSUME MInv, NEW q \in Request, RestoreTenantMember(q)
  PROVE  MInv'
<1> DEFINE u == request[q].user
           s == "ACTIVE"
<1>1. /\ ~Idle(q) /\ End(q) /\ Update(u, request[q].seen, s)
      /\ u \in User /\ RowsOK
  BY Asked DEF RestoreTenantMember, Doing, MInv, TypeOK
<1>2. s \in {"ACTIVE"}
  BY <1>1 DEF RestoreTenantMember, Doing, MInv, ReadsStand, TypeOK, RequestsOK, RequestRow, MembershipRow
<1>3. /\ member' \in [User -> MembershipRow]
      /\ member[u] = request[q].seen
      /\ member'[u].status = s /\ member'[u].left = member[u].left /\ member'[u].version # 0
      /\ \A w \in User : w # u => member'[w] = member[w]
  BY <1>1, <1>2, RowUpdated, Asked
<1> HIDE DEF u, s
<1>4. RowsOK'
  BY <1>1, <1>3, Asked DEF RestoreTenantMember, Doing, u, RowsOK, RequestsOK, MInv, TypeOK
<1>5. NoneIsNew'
  BY <1>1, <1>2, <1>3 DEF NoneIsNew, MInv
<1>6. OwnerPresent'
  BY <1>1, <1>2, <1>3 DEF RestoreTenantMember, u, s, OwnerPresent, currentActiveOwners, MInv, RowsOK
<1>7. HeldRolesActive'
  BY <1>1, <1>4 DEF RestoreTenantMember, Doing, u, AssignMember, HeldRolesActive, MInv, RowsOK
<1>8. RemovedHoldNothing'
  BY <1>1, <1>2, <1>3, <1>4 DEF RestoreTenantMember, u, s, RemovedHoldNothing, MInv, RowsOK
<1> QED BY <1>1, <1>4, <1>5, <1>6, <1>7, <1>8, CommitEnds DEF Rows

(* An invitation. *)
LEMMA InviteCommits ==
  ASSUME MInv, NEW q \in Request, InviteTenantMember(q)
  PROVE  MInv'
<1> DEFINE u == request[q].user
<1>1. ~Idle(q) /\ End(q) /\ u \in User /\ member[u].status = "NONE"
  BY Asked DEF InviteTenantMember, Doing
<1>2. RowsOK /\ NoneIsNew /\ OwnerPresent /\ HeldRolesActive /\ RemovedHoldNothing
  BY DEF MInv, TypeOK
<1>3. /\ member' = [member EXCEPT ![u] = NewInvitedMembership]
      /\ scope' = scope /\ removed' = removed /\ role' = role
      /\ activation' \in [User -> {"NONE", "PENDING", "CONSUMED"}]
  BY <1>2 DEF InviteTenantMember, RowsOK
<1> HIDE DEF u
<1>4. /\ member' \in [User -> MembershipRow]
      /\ member'[u] = NewInvitedMembership
      /\ \A w \in User : w # u => member'[w] = member[w]
  BY <1>1, <1>2, <1>3 DEF RowsOK, MembershipRow, NewInvitedMembership
<1>5. held' \in [User -> SUBSET Role] /\ held' = held
  BY <1>2 DEF InviteTenantMember, RowsOK
<1>6. RowsOK'
  BY <1>2, <1>3, <1>4, <1>5 DEF RowsOK
<1>7. NoneIsNew'
  BY <1>2, <1>4 DEF NoneIsNew, NewInvitedMembership
<1>8. OwnerPresent'
  BY <1>1, <1>2, <1>4, <1>5 DEF OwnerPresent, currentActiveOwners
<1>9. HeldRolesActive'
  BY <1>2, <1>3, <1>5 DEF HeldRolesActive
<1>10. RemovedHoldNothing'
  BY <1>2, <1>3, <1>4, <1>5 DEF RemovedHoldNothing, NewInvitedMembership
<1> QED BY <1>1, <1>6, <1>7, <1>8, <1>9, <1>10, CommitEnds DEF Rows

(* A new member with its roles. *)
LEMMA CreateCommits ==
  ASSUME MInv, NEW q \in Request, CreateTenantMember(q)
  PROVE  MInv'
<1> DEFINE u == request[q].user
<1>1. ~Idle(q) /\ End(q) /\ u \in User /\ member[u].status = "NONE"
  BY Asked DEF CreateTenantMember, Doing
<1>2. RowsOK /\ NoneIsNew /\ OwnerPresent /\ HeldRolesActive /\ RemovedHoldNothing
  BY DEF MInv, TypeOK
<1>3. /\ member' = [member EXCEPT ![u] = NewInvitedMembership]
      /\ scope' = scope /\ removed' = removed /\ role' = role
      /\ activation' \in [User -> {"NONE", "PENDING", "CONSUMED"}]
  BY <1>1, <1>2 DEF CreateTenantMember, RowsOK
<1> HIDE DEF u
<1>4. /\ member' \in [User -> MembershipRow]
      /\ member'[u] = NewInvitedMembership
      /\ \A w \in User : w # u => member'[w] = member[w]
  BY <1>1, <1>2, <1>3 DEF RowsOK, MembershipRow, NewInvitedMembership
<1>5. /\ held' \in [User -> SUBSET Role]
      /\ \A r \in held'[u] : role[r] = "ACTIVE"
      /\ \A w \in User : w # u => held'[w] = held[w]
  <2>1. request[q].set \subseteq Role
    BY <1>1 DEF CreateTenantMember, Doing, MInv, TypeOK, RequestsOK
  <2> QED BY <1>1, <1>2, <2>1 DEF CreateTenantMember, AssignMember, u, RowsOK
<1>6. RowsOK'
  BY <1>2, <1>3, <1>4, <1>5 DEF RowsOK
<1>7. NoneIsNew'
  BY <1>2, <1>4 DEF NoneIsNew, NewInvitedMembership
<1>8. OwnerPresent'
  BY <1>1, <1>2, <1>4, <1>5 DEF OwnerPresent, currentActiveOwners
<1>9. HeldRolesActive'
  BY <1>2, <1>3, <1>5 DEF HeldRolesActive
<1>10. RemovedHoldNothing'
  BY <1>2, <1>3, <1>4, <1>5 DEF RemovedHoldNothing, NewInvitedMembership
<1> QED BY <1>1, <1>6, <1>7, <1>8, <1>9, <1>10, CommitEnds DEF Rows

(* A business scope. *)
LEMMA ScopeCommits ==
  ASSUME MInv, NEW q \in Request, SetTenantMemberBusinessScope(q)
  PROVE  MInv'
<1> DEFINE u == request[q].user
<1>1. ~Idle(q) /\ End(q) /\ u \in User /\ RowsOK /\ request[q].set \in SUBSET Site
  BY Asked DEF SetTenantMemberBusinessScope, Doing, MInv, TypeOK, RequestsOK
<1>2. /\ member' \in [User -> MembershipRow]
      /\ \A w \in User : member'[w].status = member[w].status /\ member'[w].left = member[w].left
      /\ \A w \in User : w # u => member'[w] = member[w]
  <2>1. member \in [User -> MembershipRow] /\ member[u].version \in Nat
    BY <1>1 DEF RowsOK, MembershipRow
  <2> DEFINE row == [member[u] EXCEPT !.version = @ + 1]
  <2>2. row \in MembershipRow /\ row.status = member[u].status /\ row.left = member[u].left
    BY <1>1, <2>1 DEF MembershipRow
  <2>3. member' = member \/ member' = [member EXCEPT ![u] = row]
    BY DEF SetTenantMemberBusinessScope
  <2> HIDE DEF row, u
  <2> QED BY <1>1, <2>1, <2>2, <2>3
<1>3. member[u].status # "REMOVED" /\ member[u].status # "NONE"
  BY <1>1, Asked DEF SetTenantMemberBusinessScope, ReplaceBusinessScope, Doing, MInv, ReadsStand
<1>4. member'[u].version # 0
  BY <1>1, <1>3 DEF SetTenantMemberBusinessScope, RowsOK, MembershipRow, MInv, NoneIsNew
<1> HIDE DEF u
<1>5. RowsOK'
  BY <1>1, <1>2 DEF SetTenantMemberBusinessScope, u, RowsOK
<1>6. NoneIsNew'
  BY <1>1, <1>2, <1>3, <1>4 DEF MInv, NoneIsNew
<1>7. OwnerPresent' /\ HeldRolesActive'
  BY <1>2 DEF SetTenantMemberBusinessScope, MInv, OwnerPresent, currentActiveOwners, HeldRolesActive
<1>8. RemovedHoldNothing'
  BY <1>1, <1>2, <1>3 DEF SetTenantMemberBusinessScope, u, MInv, RemovedHoldNothing, RowsOK
<1> QED BY <1>1, <1>5, <1>6, <1>7, <1>8, CommitEnds DEF Rows

-----------------------------------------------------------------------------

(* An assignment. *)
LEMMA AssignCommits ==
  ASSUME MInv, NEW q \in Request, AssignTenantRoleMember(q)
  PROVE  MInv'
<1> DEFINE u == request[q].user
<1> USE DEF AssignTenantRoleMember, Doing
<1>1. ~Idle(q) /\ End(q)
  OBVIOUS
<1>2. u \in User /\ RowsOK /\ RequestsOK /\ ReadsStand
  BY <1>1, Asked DEF MInv, TypeOK
<1>3. RowsOK'
  BY <1>1, <1>2, Asked DEF RowsOK, MembershipRow, RequestsOK, RequestRow
<1>4. NoneIsNew'
  BY <1>1, <1>2, Asked DEF RowsOK, MembershipRow, NoneIsNew, MInv, ReadsStand
<1>5. OwnerPresent'
  BY <1>1, <1>2, Asked DEF OwnerPresent, currentActiveOwners, MInv, RowsOK, MembershipRow, ReadsStand
<1>6. HeldRolesActive'
  BY <1>1, <1>2 DEF HeldRolesActive, MInv, RowsOK, ReadsStand
<1>7. RemovedHoldNothing'
  BY <1>1, <1>2, Asked, ZenonT(10) DEF RemovedHoldNothing, MInv, RowsOK, MembershipRow, ReadsStand
<1> QED BY <1>1, <1>3, <1>4, <1>5, <1>6, <1>7, CommitEnds DEF Rows

(* A revocation. *)
LEMMA RevokeCommits ==
  ASSUME MInv, NEW q \in Request, RevokeTenantRoleMember(q)
  PROVE  MInv'
<1> DEFINE u == request[q].user
<1> USE DEF RevokeTenantRoleMember, Doing
<1>1. ~Idle(q) /\ End(q)
  OBVIOUS
<1>2. u \in User /\ RowsOK /\ RequestsOK /\ ReadsStand
  BY <1>1, Asked DEF MInv, TypeOK
<1>3. RowsOK'
  BY <1>1, <1>2, Asked DEF RowsOK, MembershipRow, RequestsOK, RequestRow
<1>4. NoneIsNew'
  BY <1>1, <1>2, Asked DEF RowsOK, MembershipRow, NoneIsNew, MInv, ReadsStand
<1>5. OwnerPresent'
  <2>1. CASE Owner \in held[u] /\ Owner \notin held'[u]
    <3>1. PICK w \in User : w # u /\ member[w].status = "ACTIVE" /\ Owner \in held[w]
      BY <1>1, <1>2, <2>1, Asked, AnotherOwner DEF RevokeMember, RowsOK
    <3> QED BY <1>1, <1>2, <3>1 DEF OwnerPresent, currentActiveOwners, RowsOK
  <2>2. CASE ~(Owner \in held[u] /\ Owner \notin held'[u])
    BY <1>1, <1>2, <2>2, Asked DEF OwnerPresent, currentActiveOwners, MInv, RowsOK
  <2> QED BY <2>1, <2>2
<1>6. HeldRolesActive'
  BY <1>1, <1>2, ZenonT(10) DEF HeldRolesActive, MInv, RowsOK, ReadsStand
<1>7. RemovedHoldNothing'
  BY <1>1, <1>2, Asked, ZenonT(10) DEF RemovedHoldNothing, MInv, RowsOK, MembershipRow, ReadsStand
<1> QED BY <1>1, <1>3, <1>4, <1>5, <1>6, <1>7, CommitEnds DEF Rows

(* A role is created, enabled, or disabled or deleted while nobody has it. *)
LEMMA RoleCommits ==
  ASSUME MInv, NEW q \in Request,
         \/ CreateTenantRole(q) \/ DisableTenantRole(q)
         \/ EnableTenantRole(q) \/ DeleteTenantRole(q)
  PROVE  MInv'
<1> DEFINE r == request[q].role
<1> USE DEF CreateTenantRole, DisableTenantRole, EnableTenantRole, DeleteTenantRole, SetRoleStatus, Doing
<1>1. ~Idle(q) /\ End(q) /\ r \in Role /\ RowsOK
  BY Asked DEF MInv, TypeOK
<1>2. RowsOK'
  BY <1>1 DEF RowsOK
<1>3. HeldRolesActive'
  <2>1. request[q].op \in {"disable", "delete"} => Unused(r)
    BY <1>1 DEF MInv, ReadsStand
  <2>2. HeldRolesActive
    BY DEF MInv
  <2> QED BY <1>1, <2>1, <2>2 DEF HeldRolesActive, RowsOK, Unused
<1>4. NoneIsNew' /\ OwnerPresent' /\ RemovedHoldNothing'
  BY <1>1 DEF MInv, NoneIsNew, OwnerPresent, currentActiveOwners, RemovedHoldNothing
<1> QED BY <1>1, <1>2, <1>3, <1>4, CommitEnds DEF Rows

(* Every command that commits keeps the invariant. *)
LEMMA CommitKeeps ==
  ASSUME MInv, NEW q \in Request, Commit(q)
  PROVE  MInv'
  BY InviteCommits, CreateCommits, UpdateCommits, ProfileCommits, ActivateCommits,
     SuspendCommits, RemoveCommits, RestoreCommits, ScopeCommits, RoleCommits,
     AssignCommits, RevokeCommits DEF Commit

(* A rollback leaves the rows alone. *)
LEMMA RollbackKeeps ==
  ASSUME MInv, NEW q \in Request, Rollback(q)
  PROVE  MInv'
<1>1. ~Idle(q) /\ End(q)
  BY DEF Rollback
<1>2. Rows'
  BY DEF Rows, Rollback, MInv, TypeOK, RowsOK, NoneIsNew, OwnerPresent, currentActiveOwners,
         HeldRolesActive, RemovedHoldNothing
<1> QED BY <1>1, <1>2, CommitEnds

-----------------------------------------------------------------------------
(* What the reads of a request establish, by its operation. *)
Admitted(o, u, r, s) ==
  /\ o \in {"create", "update", "restore"} => s \subseteq Role
  /\ o = "scope" => s \subseteq Site
  /\ o \in {"disable", "delete"} => Unused(r) /\ r # Owner
  /\ o = "enable" => r # Owner
  /\ o = "assign" => role[r] = "ACTIVE" /\ member[u].status \in {"INVITED", "ACTIVE"}
  /\ o \in {"update", "profile", "scope", "remove"} => member[u].status \notin {"NONE", "REMOVED"}
  /\ o = "activate" => member[u].status \in {"INVITED", "SUSPENDED"}
  /\ o = "suspend" => member[u].status = "ACTIVE"

Op == {"invite", "create", "update", "profile", "activate", "suspend", "remove", "restore",
       "scope", "createRole", "enable", "disable", "delete", "assign", "revoke"}

(* The barrier makes the request that begins the only one. *)
LEMMA BeginKeeps ==
  ASSUME MInv, NEW q \in Request, NEW o \in Op, NEW u \in User, NEW r \in Role,
         NEW s \in SUBSET (Role \cup Site), Begin(q, o, u, r, s), Admitted(o, u, r, s)
  PROVE  MInv'
<1> DEFINE ask == [op |-> o, user |-> u, role |-> r, set |-> s, seen |-> member[u], had |-> held[u]]
<1>1. /\ DOMAIN request' = Request /\ request'[q] = ask
      /\ \A p \in Request : p # q => Idle(p)'
  BY DEF Begin, BarrierFree, Idle, MInv, TypeOK, RequestsOK
<1>2. /\ member' = member /\ held' = held /\ role' = role
      /\ RowsOK' /\ NoneIsNew' /\ OwnerPresent' /\ HeldRolesActive' /\ RemovedHoldNothing'
  BY DEF Begin, MInv, TypeOK, RowsOK, NoneIsNew, OwnerPresent, currentActiveOwners,
         HeldRolesActive, RemovedHoldNothing
<1>3. ask \in RequestRow
  <2>1. member[u] \in MembershipRow /\ held[u] \in SUBSET Role
    BY DEF MInv, TypeOK, RowsOK
  <2> QED BY <2>1 DEF RequestRow, Op
<1>4. RequestsOK'
  BY <1>1, <1>3 DEF RequestsOK, Admitted
<1>5. Serialised'
  BY <1>1 DEF Serialised
<1>6. ReadsStand'
  <2>1. member[u].version \in Nat
    BY DEF MInv, TypeOK, RowsOK, MembershipRow
  <2>2. \A p \in Request : ~Idle(p)' => p = q
    BY <1>1
  <2> QED BY <1>1, <1>2, <2>1, <2>2 DEF ReadsStand, Admitted, Unused
<1> QED BY <1>2, <1>4, <1>5, <1>6 DEF MInv, TypeOK

(* Every request that begins has been admitted by its reads. *)
LEMMA BeginsKeep ==
  ASSUME MInv, NEW q \in Request,
         \/ BeginMember(q) \/ BeginMemberRoles(q) \/ BeginScope(q) \/ BeginRestore(q)
         \/ BeginRole(q) \/ BeginAssign(q) \/ BeginRevoke(q)
  PROVE  MInv'
<1>0. /\ \A u \in User : member[u].version \in 1 .. MaxVersion - 1 => member[u].status # "NONE"
      /\ held \in [User -> SUBSET Role] /\ removed \in [User -> [roles : SUBSET Role, version : Nat]]
  BY DEF MInv, NoneIsNew, TypeOK, RowsOK
<1>1. CASE BeginMember(q)
  <2>1. PICK o \in {"invite", "profile", "activate", "suspend", "remove"}, u \in User :
          MemberReads(o, u) /\ Begin(q, o, u, Owner, {})
    BY <1>1 DEF BeginMember
  <2>2. Admitted(o, u, Owner, {})
    BY <1>0, <2>1 DEF MemberReads, Admitted
  <2> QED BY <2>1, <2>2, BeginKeeps DEF Op
<1>2. CASE BeginMemberRoles(q)
  <2>1. PICK o \in {"create", "update"}, u \in User, s \in SUBSET Role :
          MemberReads(o, u) /\ Begin(q, o, u, Owner, s)
    BY <1>2 DEF BeginMemberRoles
  <2>2. Admitted(o, u, Owner, s)
    BY <1>0, <2>1 DEF MemberReads, Admitted
  <2> QED BY <2>1, <2>2, BeginKeeps DEF Op
<1>3. CASE BeginScope(q)
  <2>1. PICK u \in User, s \in SUBSET Site : MemberReads("scope", u) /\ Begin(q, "scope", u, Owner, s)
    BY <1>3 DEF BeginScope
  <2>2. Admitted("scope", u, Owner, s)
    BY <1>0, <2>1 DEF MemberReads, Admitted
  <2> QED BY <2>1, <2>2, BeginKeeps DEF Op
<1>4. CASE BeginRestore(q)
  <2>1. PICK u \in User : Begin(q, "restore", u, Owner,
          {r \in removed[u].roles : removed[u].version = member[u].version /\ role[r] = "ACTIVE"})
    BY <1>4 DEF BeginRestore
  <2> DEFINE s == {r \in removed[u].roles : removed[u].version = member[u].version /\ role[r] = "ACTIVE"}
  <2>2. s \in SUBSET Role
    BY <1>0
  <2> HIDE DEF s
  <2>3. Admitted("restore", u, Owner, s)
    BY <2>2 DEF Admitted
  <2> QED BY <2>1, <2>2, <2>3, BeginKeeps DEF Op, s
<1>5. CASE BeginRole(q)
  <2>1. PICK o \in {"createRole", "enable", "disable", "delete"}, r \in Role :
          RoleReads(o, r) /\ Begin(q, o, Founder, r, {})
    BY <1>5 DEF BeginRole
  <2>2. Admitted(o, Founder, r, {})
    BY <2>1 DEF RoleReads, Admitted
  <2> QED BY <2>1, <2>2, BeginKeeps DEF Op
<1>6. CASE BeginAssign(q)
  <2>1. PICK u \in User, r \in Role : /\ role[r] = "ACTIVE" /\ member[u].status \in {"INVITED", "ACTIVE"}
                                     /\ Begin(q, "assign", u, r, {})
    BY <1>6 DEF BeginAssign
  <2>2. Admitted("assign", u, r, {})
    BY <2>1 DEF Admitted
  <2> QED BY <2>1, <2>2, BeginKeeps DEF Op
<1>7. CASE BeginRevoke(q)
  <2>1. PICK u \in User : \E r \in held[u] : Begin(q, "revoke", u, r, {})
    BY <1>7 DEF BeginRevoke
  <2>2. PICK r \in held[u] : Begin(q, "revoke", u, r, {})
    BY <2>1
  <2>3. r \in Role /\ Admitted("revoke", u, r, {})
    BY <1>0, <2>2 DEF Admitted
  <2> QED BY <2>2, <2>3, BeginKeeps DEF Op
<1> QED BY <1>1, <1>2, <1>3, <1>4, <1>5, <1>6, <1>7

-----------------------------------------------------------------------------
(* A self-service step on a member's row: every request in flight that has *)
(* read the row finds its version gone.                                    *)
Stands(u) ==
  /\ member' \in [User -> MembershipRow]
  /\ member[u].status # "NONE" /\ member'[u].status # "NONE"
  /\ member'[u].version = member[u].version + 1
  /\ \A w \in User : w # u => member'[w] = member[w] /\ held'[w] = held[w]
  /\ held'[u] \subseteq held[u]
  /\ \/ member'[u].status \in {"INVITED", "ACTIVE"}
     \/ ~RoleLocked(Owner) /\ member'[u].left
  /\ request' = request /\ role' = role

(* What a member does alone touches no request, nor what one has read. *)
LEMMA SelfServiceReads ==
  ASSUME MInv, NEW u \in User, Stands(u)
  PROVE  ReadsStand' /\ Serialised' /\ RequestsOK' /\ NoneIsNew'
<1>1. Serialised' /\ RequestsOK'
  BY DEF Stands, MInv, TypeOK, Serialised, RequestsOK, Idle
<1>2. NoneIsNew'
  BY DEF Stands, MInv, TypeOK, RowsOK, NoneIsNew, MembershipRow
<1>3. ReadsStand'
  <2> SUFFICES ASSUME NEW q \in Request, ~Idle(q)
               PROVE  LET ask == request[q]
                          row == member'[ask.user]
                      IN /\ ask.seen.version <= row.version
                         /\ ask.seen.version = row.version => ask.seen = row /\ ask.had = held'[ask.user]
                         /\ ask.op \in {"disable", "delete"} => Unused(ask.role)'
                         /\ ask.op = "assign" => \/ row.status \in {"INVITED", "ACTIVE"}
                                                 \/ row.left /\ ask.role # Owner
    BY DEF Stands, MInv, ReadsStand, Idle
  <2> DEFINE ask == request[q]
  <2>0. ask \in RequestRow /\ member \in [User -> MembershipRow]
    BY DEF MInv, TypeOK, RowsOK, RequestsOK
  <2>1. ask.op \in {"disable", "delete"} => Unused(ask.role)'
    BY DEF Stands, MInv, ReadsStand, Unused
  <2>2. ask.op = "assign" => \/ member'[ask.user].status \in {"INVITED", "ACTIVE"}
                             \/ member'[ask.user].left /\ ask.role # Owner
    <3>1. CASE ask.user = u
      BY <3>1 DEF Stands, RoleLocked, Idle
    <3>2. CASE ask.user # u
      BY <2>0, <3>2 DEF Stands, MInv, ReadsStand, RequestRow
    <3> QED BY <3>1, <3>2
  <2>3. CASE ask.user = u
    <3>1. ask.seen.version <= member[u].version /\ ask.seen.version \in Nat /\ member[u].version \in Nat
      BY <2>0, <2>3 DEF MInv, ReadsStand, RequestRow, MembershipRow
    <3>2. ask.seen.version <= member'[u].version /\ ask.seen.version # member'[u].version
      BY <3>1 DEF Stands
    <3> QED BY <2>1, <2>2, <2>3, <3>2
  <2>4. CASE ask.user # u
    <3>1. member'[ask.user] = member[ask.user] /\ held'[ask.user] = held[ask.user]
      BY <2>0, <2>4 DEF Stands, RequestRow
    <3> QED BY <2>1, <2>2, <3>1 DEF MInv, ReadsStand
  <2> QED BY <2>3, <2>4
<1> QED BY <1>1, <1>2, <1>3

(* Activation by link or initial password. *)
LEMMA ActivationKeeps ==
  ASSUME MInv, NEW u \in User, CompleteMemberActivation(u)
  PROVE  MInv'
<1>1. Stands(u) /\ member'[u].status = "ACTIVE" /\ member'[u].left = member[u].left
  BY DEF CompleteMemberActivation, Stands, MInv, TypeOK, RowsOK, MembershipRow
<1>2. RowsOK'
  BY <1>1 DEF CompleteMemberActivation, Stands, MInv, TypeOK, RowsOK
<1>3. OwnerPresent' /\ HeldRolesActive'
  BY <1>1 DEF CompleteMemberActivation, Stands, MInv, OwnerPresent, currentActiveOwners, HeldRolesActive
<1>4. RemovedHoldNothing'
  BY <1>1 DEF CompleteMemberActivation, Stands, MInv, RemovedHoldNothing
<1> QED BY <1>1, <1>2, <1>3, <1>4, SelfServiceReads DEF MInv, TypeOK

(* A change of contact. *)
LEMMA ContactKeeps ==
  ASSUME MInv, NEW u \in User, CompleteContactChange(u)
  PROVE  MInv'
<1>1. Stands(u) /\ member'[u].status = "ACTIVE" /\ member'[u].left = member[u].left
  BY DEF CompleteContactChange, Stands, MInv, TypeOK, RowsOK, MembershipRow
<1>2. RowsOK'
  BY <1>1 DEF CompleteContactChange, Stands, MInv, TypeOK, RowsOK
<1>3. OwnerPresent' /\ HeldRolesActive'
  BY <1>1, ZenonT(10) DEF CompleteContactChange, Stands, MInv, OwnerPresent, currentActiveOwners, HeldRolesActive
<1>4. RemovedHoldNothing'
  BY <1>1 DEF CompleteContactChange, Stands, MInv, RemovedHoldNothing
<1> QED BY <1>1, <1>2, <1>3, <1>4, SelfServiceReads DEF MInv, TypeOK

(* A member leaves: the owners were counted under the owner role's lock. *)
LEMMA LeavingKeeps ==
  ASSUME MInv, NEW u \in User, CompleteTenantDeletion(u)
  PROVE  MInv'
<1> USE DEF CompleteTenantDeletion
<1>1. Stands(u) /\ member'[u].status = "REMOVED" /\ member'[u].left /\ held'[u] = {} /\ scope'[u] = {}
  BY DEF AssertMemberCanDeactivate, Stands, MInv, TypeOK, RowsOK, MembershipRow
<1>2. RowsOK'
  BY <1>1 DEF Stands, MInv, TypeOK, RowsOK
<1>3. OwnerPresent'
  <2>1. CASE Owner \in held[u]
    <3>1. PICK w \in User : w # u /\ member[w].status = "ACTIVE" /\ Owner \in held[w]
      BY <2>1, AnotherOwner DEF AssertMemberCanDeactivate
    <3> QED BY <1>1, <3>1 DEF Stands, OwnerPresent, currentActiveOwners
  <2>2. CASE Owner \notin held[u]
    BY <1>1, <2>2 DEF Stands, MInv, OwnerPresent, currentActiveOwners
  <2> QED BY <2>1, <2>2
<1>4. HeldRolesActive'
  BY <1>1 DEF Stands, MInv, HeldRolesActive
<1>5. RemovedHoldNothing'
  BY <1>1, ZenonT(10) DEF Stands, MInv, TypeOK, RowsOK, RemovedHoldNothing
<1> QED BY <1>1, <1>2, <1>3, <1>4, <1>5, SelfServiceReads DEF MInv, TypeOK

-----------------------------------------------------------------------------
(* A tenant starts with its founder as owner (CreateTenant). *)
LEMMA InitMInv == Init => MInv
<1> SUFFICES ASSUME Init PROVE MInv
  OBVIOUS
<1>0. RowsOK /\ NoneIsNew
  <2>1. NewActiveMembership \in MembershipRow /\ NoMembership \in MembershipRow
    BY DEF NewActiveMembership, NoMembership, MembershipRow
  <2>2. member \in [User -> MembershipRow]
    BY <2>1 DEF Init, BootstrapOwner
  <2>3. RowsOK
    BY <2>2, MembershipAssumption DEF Init, BootstrapOwner, RowsOK
  <2>4. ASSUME NEW u \in User
        PROVE  member[u].status = "NONE" <=> member[u].version = 0
    <3>1. member[u] = IF u = Founder THEN NewActiveMembership ELSE NoMembership
      BY DEF Init, BootstrapOwner
    <3> QED BY <3>1 DEF NewActiveMembership, NoMembership
  <2>5. NoneIsNew
    BY <2>4 DEF NoneIsNew
  <2> QED BY <2>3, <2>5
<1>1. RequestsOK /\ Serialised /\ ReadsStand
  BY DEF Init, RequestsOK, Serialised, ReadsStand, Idle
<1>2. OwnerPresent /\ HeldRolesActive /\ RemovedHoldNothing
  BY DEF Init, BootstrapOwner, NewActiveMembership, NoMembership, OwnerPresent,
         currentActiveOwners, HeldRolesActive, RemovedHoldNothing
<1> QED BY <1>0, <1>1, <1>2 DEF MInv, TypeOK

(* Every step keeps the invariant. *)
LEMMA NextMInv == MInv /\ [Next]_vars => MInv'
<1> SUFFICES ASSUME MInv, [Next]_vars PROVE MInv'
  OBVIOUS
<1>1. CASE UNCHANGED vars
  <2> USE <1>1 DEF vars
  <2>1. RowsOK' /\ NoneIsNew' /\ OwnerPresent' /\ HeldRolesActive' /\ RemovedHoldNothing'
    BY DEF MInv, TypeOK, RowsOK, NoneIsNew, OwnerPresent, currentActiveOwners, HeldRolesActive,
           RemovedHoldNothing
  <2>2. RequestsOK' /\ Serialised'
    BY DEF MInv, TypeOK, RequestsOK, Serialised, Idle
  <2>3. ReadsStand'
    BY DEF MInv, ReadsStand, Idle, Unused
  <2> QED BY <2>1, <2>2, <2>3 DEF MInv, TypeOK
<1>2. CASE Next
  BY <1>2, BeginsKeep, CommitKeeps, RollbackKeeps, ActivationKeeps, ContactKeeps, LeavingKeeps DEF Next
<1> QED BY <1>1, <1>2

(* MInv is inductive: what a request has read stands to its commit or is   *)
(* noticed there, because the barrier lets one request in at a time and    *)
(* every self-service step moves the version of the row it changes.        *)
THEOREM MembershipInvariant == Spec => []MInv
<1> QED BY InitMInv, NextMInv, PTL DEF Spec

(* A tenant always has an active owner, for any number of members and of   *)
(* requests in flight (currentActiveOwners under the owner role's lock).   *)
THEOREM OwnerAlwaysPresent == Spec => []OwnerPresent
<1>1. MInv => OwnerPresent
  BY DEF MInv
<1> QED BY <1>1, MembershipInvariant, PTL

(* No role is disabled or deleted under a member who holds it.             *)
THEOREM HeldRolesStayActive == Spec => []HeldRolesActive
<1>1. MInv => HeldRolesActive
  BY DEF MInv
<1> QED BY <1>1, MembershipInvariant, PTL

(* A removed member holds neither role nor site; one who left the tenant   *)
(* holds no site and not the owner role.                                   *)
THEOREM RemovedMembersHoldNothing == Spec => []RemovedHoldNothing
<1>1. MInv => RemovedHoldNothing
  BY DEF MInv
<1> QED BY <1>1, MembershipInvariant, PTL

-----------------------------------------------------------------------------
(* What may become of a membership's row. *)
RowStep(u) ==
  /\ member'[u].version = member[u].version + 1
  /\ \/ member'[u].status = member[u].status
     \/ <<member[u].status, member'[u].status>> \in Transition
  /\ ~member[u].left

(* An UPDATE under the version read. *)
LEMMA UpdateStep ==
  ASSUME MInv, NEW q \in Request, ~Idle(q), NEW s,
         Update(request[q].user, request[q].seen, s),
         \/ s = request[q].seen.status
         \/ <<request[q].seen.status, s>> \in Transition,
         request[q].seen.status = "REMOVED" => ~member[request[q].user].left,
         NEW u \in User, member'[u] # member[u]
  PROVE  RowStep(u)
<1>1. /\ u = request[q].user /\ member[u].version = request[q].seen.version
      /\ member'[u].version = member[u].version + 1 /\ member'[u].status = s
  BY DEF Update, MInv, TypeOK, RowsOK, MembershipRow
<1>2. request[q].seen = member[u]
  BY <1>1, Asked
<1>3. ~member[u].left
  BY <1>1, <1>2 DEF MInv, RemovedHoldNothing
<1> QED BY <1>1, <1>2, <1>3 DEF RowStep

(* A membership that changes does so in one of the ways of RowStep. *)
LEMMA NextRowStep ==
  ASSUME MInv, Next, NEW u \in User, member'[u] # member[u]
  PROVE  RowStep(u)
<1>0. /\ \A w \in User : member[w].left => member[w].status = "REMOVED"
      /\ \A w \in User : member[w].status = "NONE" => member[w].version = 0
      /\ member \in [User -> MembershipRow]
  BY DEF MInv, RemovedHoldNothing, NoneIsNew, TypeOK, RowsOK
<1>1. ASSUME NEW q \in Request, Commit(q) PROVE RowStep(u)
  <2>1. CASE InviteTenantMember(q) \/ CreateTenantMember(q)
    <3>1. u = request[q].user /\ member[u].status = "NONE" /\ member'[u] = NewInvitedMembership
      BY <1>0, <2>1, Asked DEF InviteTenantMember, CreateTenantMember, Doing
    <3> QED BY <1>0, <3>1 DEF RowStep, Transition, NewInvitedMembership
  <2>2. CASE UpdateTenantMember(q) \/ UpdateTenantMemberProfile(q)
    <3>1. /\ ~Idle(q) /\ Update(request[q].user, request[q].seen, request[q].seen.status)
          /\ request[q].op \in {"update", "profile"}
      BY <2>2 DEF UpdateTenantMember, UpdateTenantMemberProfile, Doing
    <3>2. request[q].seen.status # "REMOVED"
      BY <3>1 DEF MInv, ReadsStand
    <3> QED BY <3>1, <3>2, UpdateStep
  <2>3. CASE ActivateTenantMember(q)
    <3>1. /\ ~Idle(q) /\ Update(request[q].user, request[q].seen, "ACTIVE")
          /\ request[q].op = "activate"
      BY <2>3 DEF ActivateTenantMember, Doing
    <3>2. request[q].seen.status \in {"INVITED", "SUSPENDED"}
      BY <3>1 DEF MInv, ReadsStand
    <3> QED BY <3>1, <3>2, UpdateStep DEF Transition
  <2>4. CASE SuspendTenantMember(q)
    <3>1. /\ ~Idle(q) /\ Update(request[q].user, request[q].seen, "SUSPENDED")
          /\ request[q].op = "suspend"
      BY <2>4 DEF SuspendTenantMember, Doing
    <3>2. request[q].seen.status = "ACTIVE"
      BY <3>1 DEF MInv, ReadsStand
    <3> QED BY <3>1, <3>2, UpdateStep DEF Transition
  <2>5. CASE RemoveTenantMember(q)
    <3>1. /\ ~Idle(q) /\ Update(request[q].user, request[q].seen, "REMOVED")
          /\ request[q].op = "remove"
      BY <2>5 DEF RemoveTenantMember, Doing
    <3>2. request[q].seen.status \in {"INVITED", "ACTIVE", "SUSPENDED"}
      BY <3>1, Asked DEF MInv, ReadsStand, MembershipRow
    <3> QED BY <3>1, <3>2, UpdateStep DEF Transition
  <2>6. CASE RestoreTenantMember(q)
    <3>1. /\ ~Idle(q) /\ Update(request[q].user, request[q].seen, "ACTIVE")
          /\ member[request[q].user].status = "REMOVED" /\ ~member[request[q].user].left
      BY <2>6 DEF RestoreTenantMember, Doing
    <3>2. request[q].seen.status = "REMOVED"
      BY <3>1, Asked DEF Update
    <3> QED BY <3>1, <3>2, UpdateStep DEF Transition
  <2>7. CASE SetTenantMemberBusinessScope(q)
    <3>1. /\ u = request[q].user /\ member[u].status # "REMOVED"
          /\ member' = [member EXCEPT ![u].version = @ + 1]
      BY <1>0, <2>7, Asked DEF SetTenantMemberBusinessScope, ReplaceBusinessScope, Doing
    <3> QED BY <1>0, <3>1 DEF RowStep, MembershipRow
  <2>8. CASE \/ CreateTenantRole(q) \/ DisableTenantRole(q) \/ EnableTenantRole(q) \/ DeleteTenantRole(q)
             \/ AssignTenantRoleMember(q) \/ RevokeTenantRoleMember(q)
    BY <2>8 DEF CreateTenantRole, DisableTenantRole, EnableTenantRole, DeleteTenantRole, SetRoleStatus,
                AssignTenantRoleMember, RevokeTenantRoleMember
  <2> QED BY <1>1, <2>1, <2>2, <2>3, <2>4, <2>5, <2>6, <2>7, <2>8 DEF Commit
<1>2. ASSUME NEW w \in User,
             CompleteMemberActivation(w) \/ CompleteContactChange(w) \/ CompleteTenantDeletion(w)
      PROVE  RowStep(u)
  <2>1. u = w /\ member[u].status \in {"INVITED", "ACTIVE"} /\ member'[u].version = member[u].version + 1
    BY <1>0, <1>2 DEF CompleteMemberActivation, CompleteContactChange, CompleteTenantDeletion, MembershipRow
  <2>2. member'[u].status = member[u].status \/ <<member[u].status, member'[u].status>> \in Transition
    BY <1>0, <1>2, <2>1 DEF CompleteMemberActivation, CompleteContactChange, CompleteTenantDeletion,
                            MembershipRow, Transition
  <2> QED BY <1>0, <2>1, <2>2 DEF RowStep
<1>3. ASSUME NEW q \in Request,
             \/ BeginMember(q) \/ BeginMemberRoles(q) \/ BeginScope(q) \/ BeginRestore(q)
             \/ BeginRole(q) \/ BeginAssign(q) \/ BeginRevoke(q) \/ Rollback(q)
      PROVE  member' = member
  BY <1>3 DEF BeginMember, BeginMemberRoles, BeginScope, BeginRestore, BeginRole, BeginAssign,
              BeginRevoke, Rollback, Begin
<1> QED BY <1>1, <1>2, <1>3 DEF Next

(* A membership moves one version at a time along the transitions of the   *)
(* domain model, and the row of a member who left is never written again.  *)
THEOREM MembersMoveAsModelled == Spec => MemberTransitions
<1>1. MInv /\ [Next]_vars => [\A u \in User : member'[u] # member[u] =>
                                /\ member'[u].version = member[u].version + 1
                                /\ \/ member'[u].status = member[u].status
                                   \/ <<member[u].status, member'[u].status>> \in Transition
                                /\ ~member[u].left]_vars
  BY NextRowStep DEF RowStep
<1> QED BY <1>1, MembershipInvariant, PTL DEF Spec, MemberTransitions
-----------------------------------------------------------------------------
(* The snapshot of a removed member is that of the last version of its     *)
(* row, and a user without a row has no activation.                        *)
SnapshotRow(u) ==
  /\ (member[u].status = "REMOVED" /\ ~member[u].left) => removed[u].version = member[u].version
  /\ member[u].status = "NONE" => activation[u] = "NONE"

(* While the version a request has read stands, so do the roles it will    *)
(* restore, and there is no pending activation that it would pass over.    *)
SnapshotRead(q) ==
  LET ask == request[q]
      u == ask.user
  IN ask.seen.version = member[u].version =>
       /\ (ask.op = "restore" /\ ~ask.seen.left) => ask.set = {r \in removed[u].roles : role[r] = "ACTIVE"}
       /\ (ask.op = "activate" /\ ask.seen.status = "INVITED") => activation[u] # "PENDING"

(* What RestorationFaithful needs beside MInv. *)
SnapshotInv ==
  /\ \A u \in User : SnapshotRow(u)
  /\ \A q \in Request : ~Idle(q) => SnapshotRead(q)

(* The step of RestorationFaithful for one user. *)
Faithful(u) ==
  /\ (member[u].status # "REMOVED" /\ member'[u].status = "REMOVED" /\ ~member'[u].left)
       => removed'[u].roles = held[u]
  /\ (member[u].status = "REMOVED" /\ member'[u].status = "ACTIVE")
       => held'[u] = {r \in removed[u].roles : role[r] = "ACTIVE"}
  /\ (member[u].status = "INVITED" /\ member'[u].status = "ACTIVE" /\ activation[u] = "PENDING")
       => activation'[u] = "CONSUMED"
  /\ activation[u] = "CONSUMED" => activation'[u] = "CONSUMED"

(* A user whose row, snapshot and activation stay as they are. *)
LEMMA UntouchedUser ==
  ASSUME SnapshotInv, NEW u \in User,
         member'[u] = member[u], activation'[u] = activation[u], removed'[u] = removed[u]
  PROVE  Faithful(u) /\ SnapshotRow(u)'
  BY DEF SnapshotInv, SnapshotRow, Faithful

(* An UPDATE that keeps the status, or moves it between statuses that      *)
(* neither snapshot nor activation is about.                               *)
LEMMA PlainUpdate ==
  ASSUME SnapshotInv, MInv, NEW q \in Request, ~Idle(q), NEW s \in {"INVITED", "ACTIVE", "SUSPENDED"},
         Update(request[q].user, request[q].seen, s),
         request[q].seen.status # "REMOVED",
         (request[q].seen.status = "INVITED" /\ s = "ACTIVE") => activation[request[q].user] # "PENDING",
         activation' = activation, removed' = removed, NEW u \in User
  PROVE  Faithful(u) /\ SnapshotRow(u)'
<1>1. /\ request[q].user \in User /\ RowsOK
      /\ request[q].seen.version = member[request[q].user].version
           => request[q].seen = member[request[q].user]
  BY Asked DEF MInv, TypeOK
<1>2. CASE u = request[q].user
  <2>1. member[u].status = request[q].seen.status /\ member'[u].status = s
    BY <1>1, <1>2, RowUpdated
  <2> QED BY <1>2, <2>1 DEF Faithful, SnapshotRow
<1>3. CASE u # request[q].user
  BY <1>1, <1>3, RowUpdated, UntouchedUser
<1> QED BY <1>2, <1>3

(* A removal copies the roles the member holds, under the row's new        *)
(* version: the version it was read under still stands.                    *)
LEMMA RemovalFaithful ==
  ASSUME SnapshotInv, MInv, NEW q \in Request, RemoveTenantMember(q), NEW u \in User
  PROVE  Faithful(u) /\ SnapshotRow(u)'
<1>1. /\ ~Idle(q) /\ Update(request[q].user, request[q].seen, "REMOVED")
      /\ activation' = activation
  BY DEF RemoveTenantMember, Doing
<1>2. request[q].user \in User /\ RowsOK /\ request[q].had = held[request[q].user]
  BY <1>1, Asked DEF MInv, TypeOK, Update
<1>3. CASE u = request[q].user
  <2>1. member'[u].status = "REMOVED" /\ member'[u].version = member[u].version + 1
    BY <1>1, <1>2, <1>3 DEF Update, RowsOK, MembershipRow
  <2>2. removed'[u] = [roles |-> held[u], version |-> member[u].version + 1]
    BY <1>2, <1>3 DEF RemoveTenantMember, RowsOK
  <2> QED BY <1>1, <2>1, <2>2 DEF Faithful, SnapshotRow
<1>4. CASE u # request[q].user
  <2>1. member'[u] = member[u] /\ removed'[u] = removed[u]
    BY <1>1, <1>2, <1>4, RowUpdated DEF RemoveTenantMember, RowsOK
  <2> QED BY <1>1, <2>1, UntouchedUser
<1> QED BY <1>3, <1>4

(* A restoration assigns the roles it read, to a member who holds none.    *)
LEMMA RestoringFaithful ==
  ASSUME SnapshotInv, MInv, NEW q \in Request, RestoreTenantMember(q), NEW u \in User
  PROVE  Faithful(u) /\ SnapshotRow(u)'
<1>1. /\ ~Idle(q) /\ Update(request[q].user, request[q].seen, "ACTIVE")
      /\ request[q].op = "restore" /\ member[request[q].user].status = "REMOVED"
      /\ ~member[request[q].user].left /\ activation' = activation /\ removed' = removed
  BY DEF RestoreTenantMember, Doing
<1>2. request[q].user \in User /\ RowsOK /\ request[q].seen = member[request[q].user]
  BY <1>1, Asked DEF MInv, TypeOK, Update
<1>3. CASE u = request[q].user
  <2>1. member'[u].status = "ACTIVE"
    BY <1>1, <1>2, <1>3, RowUpdated
  <2>2. held[u] = {}
    BY <1>1, <1>3 DEF MInv, RemovedHoldNothing
  <2>3. request[q].set = {r \in removed[u].roles : role[r] = "ACTIVE"}
    BY <1>1, <1>2, <1>3 DEF SnapshotInv, SnapshotRead
  <2>4. held'[u] = held[u] \cup request[q].set
    BY <1>2, <1>3 DEF RestoreTenantMember, RowsOK
  <2> QED BY <1>1, <1>3, <2>1, <2>2, <2>3, <2>4 DEF Faithful, SnapshotRow
<1>4. CASE u # request[q].user
  <2>1. member'[u] = member[u]
    BY <1>1, <1>2, <1>4, RowUpdated
  <2> QED BY <1>1, <2>1, UntouchedUser
<1> QED BY <1>3, <1>4

(* An invitation or a creation writes the row of a user who had none, and  *)
(* therefore no activation that could be consumed twice.                   *)
LEMMA JoiningFaithful ==
  ASSUME SnapshotInv, MInv, NEW q \in Request, InviteTenantMember(q) \/ CreateTenantMember(q),
         NEW u \in User
  PROVE  Faithful(u) /\ SnapshotRow(u)'
<1>1. /\ ~Idle(q) /\ request[q].user \in User /\ RowsOK
      /\ member[request[q].user].status = "NONE" /\ removed' = removed
      /\ member' = [member EXCEPT ![request[q].user] = NewInvitedMembership]
      /\ \A w \in User : w # request[q].user => activation'[w] = activation[w]
  BY Asked DEF InviteTenantMember, CreateTenantMember, Doing, MInv, TypeOK, RowsOK
<1>2. CASE u = request[q].user
  <2>1. member'[u].status = "INVITED" /\ activation[u] = "NONE" /\ member[u].status = "NONE"
    BY <1>1, <1>2 DEF RowsOK, NewInvitedMembership, SnapshotInv, SnapshotRow
  <2> QED BY <2>1 DEF Faithful, SnapshotRow
<1>3. CASE u # request[q].user
  BY <1>1, <1>3, UntouchedUser DEF RowsOK
<1> QED BY <1>2, <1>3

(* A commit is faithful and leaves rows as SnapshotRow has them. *)
LEMMA CommitFaithful ==
  ASSUME SnapshotInv, MInv, NEW q \in Request, Commit(q), NEW u \in User
  PROVE  Faithful(u) /\ SnapshotRow(u)'
<1>1. CASE UpdateTenantMember(q) \/ UpdateTenantMemberProfile(q)
  <2>1. /\ ~Idle(q) /\ Update(request[q].user, request[q].seen, request[q].seen.status)
        /\ request[q].op \in {"update", "profile"} /\ activation' = activation /\ removed' = removed
    BY <1>1 DEF UpdateTenantMember, UpdateTenantMemberProfile, Doing
  <2>2. request[q].seen.status \in {"INVITED", "ACTIVE", "SUSPENDED"}
    BY <2>1, Asked DEF MInv, ReadsStand, MembershipRow
  <2> QED BY <2>1, <2>2, PlainUpdate
<1>2. CASE ActivateTenantMember(q)
  <2>1. /\ ~Idle(q) /\ Update(request[q].user, request[q].seen, "ACTIVE")
        /\ request[q].op = "activate" /\ activation' = activation /\ removed' = removed
    BY <1>2 DEF ActivateTenantMember, Doing
  <2>2. request[q].seen.status \in {"INVITED", "SUSPENDED"}
    BY <2>1 DEF MInv, ReadsStand
  <2>3. request[q].seen.status = "INVITED" => activation[request[q].user] # "PENDING"
    BY <2>1 DEF SnapshotInv, SnapshotRead, Update
  <2> QED BY <2>1, <2>2, <2>3, PlainUpdate
<1>3. CASE SuspendTenantMember(q)
  <2>1. /\ ~Idle(q) /\ Update(request[q].user, request[q].seen, "SUSPENDED")
        /\ request[q].op = "suspend" /\ activation' = activation /\ removed' = removed
    BY <1>3 DEF SuspendTenantMember, Doing
  <2>2. request[q].seen.status = "ACTIVE"
    BY <2>1 DEF MInv, ReadsStand
  <2> QED BY <2>1, <2>2, PlainUpdate
<1>4. CASE SetTenantMemberBusinessScope(q)
  <2>1. /\ ~Idle(q) /\ activation' = activation /\ removed' = removed
        /\ member[request[q].user].status # "REMOVED"
        /\ \/ member' = member
           \/ member' = [member EXCEPT ![request[q].user].version = @ + 1]
    BY <1>4 DEF SetTenantMemberBusinessScope, ReplaceBusinessScope, Doing
  <2>2. RowsOK /\ request[q].user \in User
    BY <2>1, Asked DEF MInv, TypeOK
  <2>3. CASE u = request[q].user
    <3>1. member'[u].status = member[u].status /\ member[u].status # "REMOVED"
      BY <2>1, <2>2, <2>3 DEF RowsOK, MembershipRow
    <3> QED BY <2>1, <3>1 DEF Faithful, SnapshotInv, SnapshotRow
  <2>4. CASE u # request[q].user
    BY <2>1, <2>2, <2>4, UntouchedUser DEF RowsOK
  <2> QED BY <2>3, <2>4
<1>5. CASE \/ CreateTenantRole(q) \/ DisableTenantRole(q) \/ EnableTenantRole(q) \/ DeleteTenantRole(q)
           \/ AssignTenantRoleMember(q) \/ RevokeTenantRoleMember(q)
  <2>1. member' = member /\ activation' = activation /\ removed' = removed
    BY <1>5 DEF CreateTenantRole, DisableTenantRole, EnableTenantRole, DeleteTenantRole, SetRoleStatus,
                AssignTenantRoleMember, RevokeTenantRoleMember
  <2> QED BY <2>1, UntouchedUser
<1> QED BY <1>1, <1>2, <1>3, <1>4, <1>5, RemovalFaithful, RestoringFaithful, JoiningFaithful DEF Commit

(* Self-service on an active or invited member is faithful too. *)
LEMMA SelfServiceFaithful ==
  ASSUME SnapshotInv, MInv, NEW w \in User,
         CompleteMemberActivation(w) \/ CompleteContactChange(w) \/ CompleteTenantDeletion(w),
         NEW u \in User
  PROVE  Faithful(u) /\ SnapshotRow(u)'
<1>1. RowsOK
  BY DEF MInv, TypeOK
<1>2. CASE u = w
  <2>1. CASE CompleteMemberActivation(w)
    <3>1. member[u].status = "INVITED" /\ member'[u].status = "ACTIVE" /\ activation'[u] = "CONSUMED"
      BY <1>1, <1>2, <2>1 DEF CompleteMemberActivation, RowsOK, MembershipRow
    <3> QED BY <3>1 DEF Faithful, SnapshotRow
  <2>2. CASE CompleteContactChange(w)
    <3>1. member[u].status = "ACTIVE" /\ member'[u].status = "ACTIVE" /\ activation'[u] = activation[u]
      BY <1>1, <1>2, <2>2 DEF CompleteContactChange, RowsOK, MembershipRow
    <3> QED BY <3>1 DEF Faithful, SnapshotRow
  <2>3. CASE CompleteTenantDeletion(w)
    <3>1. /\ member[u].status = "ACTIVE" /\ member'[u].status = "REMOVED" /\ member'[u].left
          /\ activation'[u] = activation[u]
      BY <1>1, <1>2, <2>3 DEF CompleteTenantDeletion, RowsOK, MembershipRow
    <3> QED BY <3>1 DEF Faithful, SnapshotRow
  <2> QED BY <2>1, <2>2, <2>3
<1>3. CASE u # w
  <2>1. member'[u] = member[u] /\ activation'[u] = activation[u] /\ removed'[u] = removed[u]
    BY <1>1, <1>3 DEF CompleteMemberActivation, CompleteContactChange, CompleteTenantDeletion, RowsOK
  <2> QED BY <2>1, UntouchedUser
<1> QED BY <1>2, <1>3

(* The request that begins reads under the barrier: what SnapshotRead says *)
(* of it is what it has just read.                                         *)
LEMMA BeginReadsSnapshot ==
  ASSUME SnapshotInv, MInv, NEW q \in Request, NEW o, NEW u \in User, NEW r, NEW s, Begin(q, o, u, r, s),
         (o = "restore" /\ ~member[u].left) => s = {x \in removed[u].roles : role[x] = "ACTIVE"},
         (o = "activate" /\ member[u].status = "INVITED") => activation[u] # "PENDING"
  PROVE  SnapshotInv'
<1>1. /\ member' = member /\ activation' = activation /\ removed' = removed /\ role' = role
  BY DEF Begin
<1>2. /\ request'[q] = [op |-> o, user |-> u, role |-> r, set |-> s, seen |-> member[u], had |-> held[u]]
      /\ \A p \in Request : p # q => Idle(p)'
  BY DEF Begin, BarrierFree, Idle, MInv, TypeOK, RequestsOK
<1>3. SnapshotRead(q)'
  BY <1>1, <1>2 DEF SnapshotRead
<1>4. \A v \in User : SnapshotRow(v)'
  BY <1>1 DEF SnapshotInv, SnapshotRow
<1> QED BY <1>2, <1>3, <1>4 DEF SnapshotInv

(* Every request that begins. *)
LEMMA BeginsReadSnapshot ==
  ASSUME SnapshotInv, MInv, NEW q \in Request,
         \/ BeginMember(q) \/ BeginMemberRoles(q) \/ BeginScope(q) \/ BeginRestore(q)
         \/ BeginRole(q) \/ BeginAssign(q) \/ BeginRevoke(q)
  PROVE  SnapshotInv'
<1>1. CASE BeginMember(q)
  <2>1. PICK o \in {"invite", "profile", "activate", "suspend", "remove"}, u \in User :
          MemberReads(o, u) /\ Begin(q, o, u, Owner, {})
    BY <1>1 DEF BeginMember
  <2>2. (o = "activate" /\ member[u].status = "INVITED") => activation[u] # "PENDING"
    BY <2>1 DEF MemberReads, AssertAdminActivationAllowed
  <2> QED BY <2>1, <2>2, BeginReadsSnapshot
<1>2. CASE BeginRestore(q)
  <2>1. PICK u \in User :
          /\ MemberReads("restore", u)
          /\ Begin(q, "restore", u, Owner,
               {r \in removed[u].roles : removed[u].version = member[u].version /\ role[r] = "ACTIVE"})
    BY <1>2 DEF BeginRestore
  <2>2. member[u].status = "REMOVED"
    BY <2>1 DEF MemberReads
  <2>3. ~member[u].left =>
          {r \in removed[u].roles : removed[u].version = member[u].version /\ role[r] = "ACTIVE"}
            = {r \in removed[u].roles : role[r] = "ACTIVE"}
    BY <2>2 DEF SnapshotInv, SnapshotRow
  <2> QED BY <2>1, <2>3, BeginReadsSnapshot
<1>3. CASE \/ BeginMemberRoles(q) \/ BeginScope(q) \/ BeginRole(q) \/ BeginAssign(q) \/ BeginRevoke(q)
  <2>1. PICK u \in User : \E o, r, s : Begin(q, o, u, r, s) /\ o \notin {"restore", "activate"}
    <3>1. CASE BeginMemberRoles(q)
      BY <3>1 DEF BeginMemberRoles
    <3>2. CASE BeginScope(q)
      BY <3>2 DEF BeginScope
    <3>3. CASE BeginRole(q)
      BY <3>3 DEF BeginRole
    <3>4. CASE BeginAssign(q)
      BY <3>4 DEF BeginAssign
    <3>5. CASE BeginRevoke(q)
      BY <3>5 DEF BeginRevoke
    <3> QED BY <1>3, <3>1, <3>2, <3>3, <3>4, <3>5
  <2> QED BY <2>1, BeginReadsSnapshot
<1> QED BY <1>1, <1>2, <1>3

(* After a commit or a rollback no request is in flight. *)
LEMMA EndsReading ==
  ASSUME MInv, NEW q \in Request, ~Idle(q), End(q), \A u \in User : SnapshotRow(u)'
  PROVE  SnapshotInv'
<1>1. \A p \in Request : Idle(p)'
  BY DEF MInv, Serialised, TypeOK, RequestsOK, Idle, End
<1> QED BY <1>1 DEF SnapshotInv

(* A self-service step moves the version of the row it changes, so the     *)
(* request that has read that row is excused.                              *)
LEMMA SelfServiceSnapshot ==
  ASSUME SnapshotInv, MInv, NEW u \in User,
         CompleteMemberActivation(u) \/ CompleteContactChange(u) \/ CompleteTenantDeletion(u)
  PROVE  SnapshotInv'
<1>1. RowsOK
  BY DEF MInv, TypeOK
<1>2. /\ request' = request /\ role' = role /\ member'[u].version = member[u].version + 1
      /\ \A w \in User : w # u => /\ member'[w] = member[w] /\ activation'[w] = activation[w]
                                  /\ removed'[w] = removed[w]
  BY <1>1 DEF CompleteMemberActivation, CompleteContactChange, CompleteTenantDeletion, RowsOK, MembershipRow
<1>3. ASSUME NEW q \in Request, ~Idle(q)
      PROVE  SnapshotRead(q)'
  <2>1. /\ request[q].user \in User /\ request[q].seen.version \in Nat
        /\ request[q].seen.version <= member[request[q].user].version
        /\ member[request[q].user].version \in Nat
    BY <1>1, <1>3, Asked DEF MInv, ReadsStand, MembershipRow, RowsOK
  <2>2. CASE request[q].user = u
    <3>1. request[q].seen.version # member'[u].version
      BY <1>2, <2>1, <2>2
    <3> QED BY <1>2, <2>2, <3>1 DEF SnapshotRead
  <2>3. CASE request[q].user # u
    <3>1. SnapshotRead(q)
      BY <1>3 DEF SnapshotInv
    <3> QED BY <1>2, <2>1, <2>3, <3>1 DEF SnapshotRead
  <2> QED BY <2>2, <2>3
<1>4. \A w \in User : SnapshotRow(w)'
  BY SelfServiceFaithful
<1> QED BY <1>2, <1>3, <1>4 DEF SnapshotInv, Idle

(* A step is faithful for every user and keeps SnapshotInv. *)
LEMMA NextFaithful ==
  ASSUME SnapshotInv, MInv, Next
  PROVE  SnapshotInv' /\ \A u \in User : Faithful(u)
<1>1. ASSUME NEW q \in Request, Commit(q)
      PROVE  SnapshotInv' /\ \A u \in User : Faithful(u)
  <2>1. ~Idle(q) /\ End(q)
    BY <1>1 DEF Commit, InviteTenantMember, CreateTenantMember, UpdateTenantMember,
         UpdateTenantMemberProfile, ActivateTenantMember, SuspendTenantMember, RemoveTenantMember,
         RestoreTenantMember, SetTenantMemberBusinessScope, CreateTenantRole, DisableTenantRole,
         EnableTenantRole, DeleteTenantRole, SetRoleStatus, AssignTenantRoleMember,
         RevokeTenantRoleMember, Doing
  <2> QED BY <1>1, <2>1, CommitFaithful, EndsReading
<1>2. ASSUME NEW q \in Request, Rollback(q)
      PROVE  SnapshotInv' /\ \A u \in User : Faithful(u)
  <2>1. ~Idle(q) /\ End(q) /\ member' = member /\ activation' = activation /\ removed' = removed
    BY <1>2 DEF Rollback
  <2> QED BY <2>1, UntouchedUser, EndsReading
<1>3. ASSUME NEW q \in Request,
             \/ BeginMember(q) \/ BeginMemberRoles(q) \/ BeginScope(q) \/ BeginRestore(q)
             \/ BeginRole(q) \/ BeginAssign(q) \/ BeginRevoke(q)
      PROVE  SnapshotInv' /\ \A u \in User : Faithful(u)
  <2>1. member' = member /\ activation' = activation /\ removed' = removed
    BY <1>3 DEF BeginMember, BeginMemberRoles, BeginScope, BeginRestore, BeginRole, BeginAssign,
                BeginRevoke, Begin
  <2> QED BY <1>3, <2>1, UntouchedUser, BeginsReadSnapshot
<1>4. ASSUME NEW w \in User,
             CompleteMemberActivation(w) \/ CompleteContactChange(w) \/ CompleteTenantDeletion(w)
      PROVE  SnapshotInv' /\ \A u \in User : Faithful(u)
  BY <1>4, SelfServiceFaithful, SelfServiceSnapshot
<1> QED BY <1>1, <1>2, <1>3, <1>4 DEF Next

(* SnapshotInv holds of every behaviour. *)
LEMMA SnapshotsKept == Spec => []SnapshotInv
<1>1. Init => SnapshotInv
  <2> SUFFICES ASSUME Init PROVE SnapshotInv
    OBVIOUS
  <2>1. \A u \in User : member[u].status # "REMOVED"
    BY DEF Init, BootstrapOwner, NewActiveMembership, NoMembership
  <2> QED BY <2>1 DEF Init, SnapshotInv, SnapshotRow, Idle
<1>2. SnapshotInv /\ MInv /\ [Next]_vars => SnapshotInv'
  <2>1. CASE UNCHANGED vars
    BY <2>1 DEF vars, SnapshotInv, SnapshotRow, SnapshotRead, Idle
  <2> QED BY <2>1, NextFaithful
<1> QED BY <1>1, <1>2, MembershipInvariant, PTL DEF Spec

(* A removal snapshots exactly what the member held, a restoration returns *)
(* exactly the roles of the snapshot that are still active, an invited     *)
(* member with a pending activation becomes active only by completing it,  *)
(* and an activation is consumed once, for any members and any requests    *)
(* in flight (RemoveTenantMember, RestoreTenantMember,                     *)
(* AssertAdminActivationAllowed).                                          *)
THEOREM RestoredAsRemoved == Spec => RestorationFaithful
<1>1. SnapshotInv /\ MInv /\ [Next]_vars => [\A u \in User : Faithful(u)]_vars
  BY NextFaithful
<1>2. [\A u \in User : Faithful(u)]_vars <=>
      [\A u \in User :
       /\ (member[u].status # "REMOVED" /\ member'[u].status = "REMOVED" /\ ~member'[u].left)
            => removed'[u].roles = held[u]
       /\ (member[u].status = "REMOVED" /\ member'[u].status = "ACTIVE")
            => held'[u] = {r \in removed[u].roles : role[r] = "ACTIVE"}
       /\ (member[u].status = "INVITED" /\ member'[u].status = "ACTIVE" /\ activation[u] = "PENDING")
            => activation'[u] = "CONSUMED"
       /\ activation[u] = "CONSUMED" => activation'[u] = "CONSUMED"]_vars
  BY DEF Faithful
<1> QED BY <1>1, <1>2, MembershipInvariant, SnapshotsKept, PTL DEF Spec, RestorationFaithful
=============================================================================
