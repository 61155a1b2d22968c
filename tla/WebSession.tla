----------------------------- MODULE WebSession -----------------------------
(***************************************************************************)
(* Browser sessions of one account, from the callback of a login to logout *)
(* (internal/access: web_session.go, credential_security.go,               *)
(* first_party_idp_security.go; internal/bizruntime: web_auth.go,          *)
(* web_password_security.go).                                              *)
(*                                                                         *)
(* A session's requests read its row without a lock and the account's      *)
(* authority after that; what they do next relies on what they read.       *)
(* Memberships, companies and the account's password change meanwhile.     *)
(***************************************************************************)
EXTENDS Naturals

CONSTANTS
  Tenant,
  NoTenant,
  Session,    \* tokens of sessions
  Tab,        \* requests of the account's browsers that may be served at the same time
  SessionTTL, RefreshWindow,
  MaxContext, \* bound on the context version of a session that is switched
  LastTime    \* bound on the time

ASSUME SessionAssumption ==
  /\ NoTenant \notin Tenant
  /\ SessionTTL \in Nat /\ RefreshWindow \in 1 .. SessionTTL - 1
  /\ MaxContext \in Nat /\ LastTime \in Nat \ {0}

VARIABLES
  time,
  session,  \* biz_web_sessions
  active,   \* active tenants that have the account as an active member
  tab       \* what each request is doing

sessionVars == <<time, session, active, tab>>

NoSession == [state |-> "none", tenant |-> NoTenant, version |-> 0, expires |-> 0, before |-> FALSE]
Closed == [pc |-> "idle"]

SessionInit ==
  /\ time = 1
  /\ session = [s \in Session |-> NoSession]
  /\ active \in SUBSET Tenant
  /\ tab = [r \in Tab |-> Closed]

In(r, pc) == tab[r].pc = pc
Moves(r, to) == tab' = [tab EXCEPT ![r] = to]
Onto(r, pc) == Moves(r, [tab[r] EXCEPT !.pc = pc])
Closes(r) == Moves(r, Closed)

(* The row is neither revoked nor expired. *)
Live(s) == session[s].state = "live" /\ session[s].expires > time

(* A row after an update with the guard revoked_at IS NULL *)
Revoked(row) ==
  IF row.state = "live" THEN [row EXCEPT !.state = "revoked", !.version = @ + 1] ELSE row

(* What a request knows of the row it has read; `since` only records the   *)
(* companies that the account could act for while the request was served.  *)
Seen(s, row, goal, target, since) ==
  [pc |-> "authenticate", session |-> s, tenant |-> row.tenant, version |-> row.version,
   goal |-> goal, target |-> target, since |-> since]

-----------------------------------------------------------------------------
(* CreateWebSession, once handleCallback has the account's identity: an    *)
(* account of one company starts in it.                                    *)
listWebTenants(r) ==
  /\ In(r, "idle")
  /\ Moves(r, [pc |-> "insert", since |-> active,
               tenant |-> IF \E t \in active : active = {t} THEN CHOOSE t \in active : TRUE ELSE NoTenant])
  /\ UNCHANGED <<time, session, active>>

CreateWebSession(r, s) ==
  LET row == [state |-> "live", tenant |-> tab[r].tenant, version |-> 1,
              expires |-> time + SessionTTL, before |-> FALSE]
  IN
  /\ In(r, "insert") /\ session[s].state = "none"
  /\ session' = [session EXCEPT ![s] = row]
  /\ Moves(r, Seen(s, row, "answer", NoTenant, tab[r].since))
  /\ UNCHANGED <<time, active>>

-----------------------------------------------------------------------------
(* AuthenticateWebSession *)

(* A request begins: handleSession, handleSwitchTenant, handleLogout,      *)
(* handlePasswordChange or a call of the API.  The form's secret and the   *)
(* expected context are compared with the row read here.                   *)
AuthenticateWebSession(r, s, goal, target) ==
  /\ In(r, "idle") /\ Live(s)
  /\ goal = "switch" => session[s].version <= MaxContext
  /\ Moves(r, Seen(s, session[s], goal, target, active))
  /\ UNCHANGED <<time, session, active>>

Reauthenticate(r) ==
  LET s == tab[r].session IN
  /\ In(r, "read")
  /\ IF Live(s)
     THEN Moves(r, Seen(s, session[s], tab[r].goal, tab[r].target, tab[r].since))
     ELSE Closes(r)
  /\ UNCHANGED <<time, session, active>>

(* Faulty variant: the company of the row is taken for granted. *)
TrustsRow(t) == TRUE

(* resolveWebUserPrincipal *)
Authorized(t) == t \in active

(* A session of no company is good for what needs none; one of a company   *)
(* that the account may no longer act for is revoked.                      *)
authenticateWebSessionRecord(r) ==
  LET known == tab[r] IN
  /\ In(r, "authenticate")
  /\ IF known.tenant # NoTenant /\ ~Authorized(known.tenant) THEN Onto(r, "revoke")
     ELSE \/ known.goal = "answer"   /\ Onto(r, "answered")
          \/ known.goal = "refuse"   /\ Closes(r)
          \/ known.goal = "refresh"  /\ Onto(r, "refresh")
          \/ known.goal = "logout"   /\ Onto(r, "revoke")
          \/ known.goal = "password" /\ Onto(r, "change")
          \/ known.goal = "resolve"  /\ Onto(r, "resolve")
          \/ known.goal = "switch"   /\ Moves(r, [known EXCEPT !.pc = "read", !.goal = "resolve"])
  /\ UNCHANGED <<time, session, active>>

(* The answer goes out. *)
Answer(r) ==
  /\ In(r, "answered")
  /\ Closes(r)
  /\ UNCHANGED <<time, session, active>>

revokeWebSessionByHash(r) ==
  /\ In(r, "revoke")
  /\ session' = [session EXCEPT ![tab[r].session] = Revoked(@)]
  /\ Closes(r)
  /\ UNCHANGED <<time, active>>

-----------------------------------------------------------------------------
(* The row is locked and read again; only a session near its end is        *)
(* extended.                                                               *)
RefreshWebSession(r) ==
  LET s == tab[r].session IN
  /\ In(r, "refresh")
  /\ IF Live(s)
     THEN /\ session' = [session EXCEPT ![s].expires =
                           IF @ - time > RefreshWindow THEN @ ELSE time + SessionTTL]
          /\ Moves(r, Seen(s, session[s], "answer", NoTenant, tab[r].since))
     ELSE session' = session /\ Closes(r)
  /\ UNCHANGED <<time, active>>

(* Faulty variant: the version that was read is not compared. *)
SwitchWhateverVersion(r) ==
  LET s == tab[r].session IN
  /\ In(r, "swap") /\ session[s].version <= MaxContext + 1
  /\ session' = [session EXCEPT ![s].tenant = tab[r].target, ![s].version = @ + 1]
  /\ Moves(r, [tab[r] EXCEPT !.pc = "read", !.goal = "answer"])
  /\ UNCHANGED <<time, active>>

(* SwitchWebSessionTenant: the target is resolved, then the row is updated *)
(* if it still has the version that was read.                              *)
ResolveTarget(r) ==
  /\ In(r, "resolve")
  /\ IF Authorized(tab[r].target) THEN Onto(r, "swap") ELSE Closes(r)
  /\ UNCHANGED <<time, session, active>>

SwitchWebSessionTenant(r) ==
  LET s == tab[r].session
      same == Live(s) /\ session[s].version = tab[r].version
  IN
  /\ In(r, "swap") /\ (same => session[s].version <= MaxContext)
  /\ session' = IF same THEN [session EXCEPT ![s].tenant = tab[r].target, ![s].version = @ + 1]
                ELSE session
  /\ Moves(r, [tab[r] EXCEPT !.pc = "read", !.goal = IF same THEN "answer" ELSE "refuse"])
  /\ UNCHANGED <<time, active>>

-----------------------------------------------------------------------------
(* The account's password *)

(* Faulty variant: only the sessions of some company are revoked. *)
revokeCompanySessions ==
  [s \in Session |-> IF session[s].tenant = NoTenant THEN session[s] ELSE Revoked(session[s])]

revokeWebSessionsForUser == [s \in Session |-> Revoked(session[s])]

(* `before` only records that a session was there. *)
EndSessions ==
  session' = [s \in Session |->
                [revokeWebSessionsForUser[s] EXCEPT !.before = session[s].state # "none"]]

changeOwnPassword(r) ==
  /\ In(r, "change")
  /\ IF tab[r].tenant # NoTenant /\ ~Authorized(tab[r].tenant)
     THEN session' = session ELSE EndSessions
  /\ Closes(r)
  /\ UNCHANGED <<time, active>>

(* RotateUserPassword and DisableUserPassword; RecoverPasswordWithCode and *)
(* ResetPasswordWithAuthorization do the same to the sessions.             *)
SecureAccount ==
  /\ EndSessions
  /\ UNCHANGED <<time, active, tab>>

-----------------------------------------------------------------------------
(* The account's companies *)

(* A member is activated or restored, or a suspended company resumes. *)
StartMembership(t) ==
  /\ t \notin active
  /\ active' = active \cup {t}
  /\ tab' = [r \in Tab |-> IF "since" \in DOMAIN tab[r]
                           THEN [tab[r] EXCEPT !.since = @ \cup {t}] ELSE tab[r]]
  /\ UNCHANGED <<time, session>>

(* Suspension, removal or self-deletion of the member, with its sessions *)
revokeWebSessionsForTenantMember(t) ==
  /\ t \in active
  /\ active' = active \ {t}
  /\ session' = [s \in Session |-> IF session[s].tenant = t THEN Revoked(session[s]) ELSE session[s]]
  /\ UNCHANGED <<time, tab>>

(* Suspension or closing of a company: its sessions are found out later. *)
SuspendTenant(t) ==
  /\ t \in active
  /\ active' = active \ {t}
  /\ UNCHANGED <<time, session, tab>>

-----------------------------------------------------------------------------
(* The process dies or its client goes away. *)
Leave(r) ==
  /\ ~In(r, "idle")
  /\ Closes(r)
  /\ UNCHANGED <<time, session, active>>

SessionTick ==
  /\ time < LastTime
  /\ time' = time + 1
  /\ UNCHANGED <<session, active, tab>>

Goal == {"answer", "refresh", "logout", "password"}

Browse(r) ==
  \/ listWebTenants(r)
  \/ \E s \in Session : \/ CreateWebSession(r, s)
                        \/ \E g \in Goal : AuthenticateWebSession(r, s, g, NoTenant)
                        \/ \E t \in Tenant : AuthenticateWebSession(r, s, "switch", t)
  \/ Reauthenticate(r) \/ authenticateWebSessionRecord(r) \/ Answer(r) \/ revokeWebSessionByHash(r)
  \/ RefreshWebSession(r) \/ ResolveTarget(r) \/ SwitchWebSessionTenant(r) \/ changeOwnPassword(r)
  \/ Leave(r)

SessionNext ==
  \/ \E r \in Tab : Browse(r)
  \/ SecureAccount
  \/ \E t \in Tenant : StartMembership(t) \/ revokeWebSessionsForTenantMember(t) \/ SuspendTenant(t)
  \/ SessionTick

SessionSpec == SessionInit /\ [][SessionNext]_sessionVars

-----------------------------------------------------------------------------
(* Properties *)

(* The type invariant; and a context version stands for one context: a     *)
(* request that knows the row's present version knows its company, and     *)
(* that it is not revoked (SwitchWebSessionTenant, revokeWebSessionByHash). *)
(* A session that was there when the password was replaced or disabled     *)
(* stays revoked, whatever its requests under way do next                  *)
(* (revokeWebSessionsForUser).                                             *)
SessionInv ==
  /\ time \in 1 .. LastTime /\ active \subseteq Tenant
  /\ \A s \in Session :
       /\ session[s].state \in {"none", "live", "revoked"}
       /\ session[s].tenant \in Tenant \cup {NoTenant}
       /\ session[s].version \in 0 .. MaxContext + 2
       /\ session[s].before => session[s].state = "revoked"
  /\ \A r \in Tab : "version" \in DOMAIN tab[r] =>
       LET row == session[tab[r].session] IN
       /\ tab[r].version <= row.version
       /\ tab[r].version = row.version => row.state = "live" /\ row.tenant = tab[r].tenant

(* A request is answered for a company only if the account could act for   *)
(* it at some moment since the request began, whatever the session's row   *)
(* says (authenticateWebSessionRecord).                                    *)
AnsweredUnderAuthority ==
  \A r \in Tab : In(r, "answered") => tab[r].tenant \in tab[r].since \cup {NoTenant}

(* What a step may do to a session that is there. *)
SessionKeeps(s) ==
  LET was == session[s] is == session'[s] IN
  /\ ~Live(s) => is.tenant = was.tenant /\ is.expires = was.expires
  /\ was.state = "revoked" => is.state = "revoked"
  /\ is.tenant # was.tenant =>
       /\ is.version = was.version + 1
       /\ \E r \in Tab : In(r, "swap") /\ tab[r].session = s /\ tab[r].version = was.version

(* A session that is revoked or has expired is not revived by a refresh, a *)
(* switch or a membership that comes late, and its company changes only    *)
(* for a request that had read its latest version (RefreshWebSession,      *)
(* SwitchWebSessionTenant).                                                *)
SessionMoves ==
  [][\A s \in Session : session[s].state # "none" => SessionKeeps(s)]_sessionVars
=============================================================================
