--------------------------- MODULE IdentityProofs ---------------------------
(***************************************************************************)
(* Proofs about browser sessions (WebSession) and logins (FirstPartyLogin) *)
(* for every value of their constants.  Each has an inductive invariant:   *)
(*   WInv  what a request has read of its session is the stored row or an  *)
(*         older one with a smaller version, and the tenants that lost     *)
(*         their authority since are noted;                                *)
(*   FInv  a flow, a code and a consent are used in the order of the       *)
(*         handlers, and the request that set a lock is not past it.       *)
(***************************************************************************)
EXTENDS WebSession, FirstPartyLogin, TLAPS

(* A leaf is first tried with Zenon, briefly, and then with SMT. *)
USE ZenonT(1), SMT

-----------------------------------------------------------------------------
(* Browser sessions *)

(* A tenant, or the choice that is still to be made.                       *)
Company == Tenant \cup {NoTenant}

(* A row of biz_web_sessions. *)
SessionRow ==
  [state : {"none", "live", "revoked"}, tenant : Company, version : Nat, expires : Nat,
   before : BOOLEAN]

(* The table.  The bound on versions is the one of the model: a live        *)
(* session is switched below it and revoked once.                          *)
RowOK(row) ==
  /\ row \in SessionRow
  /\ row.version <= IF row.state = "revoked" THEN MaxContext + 2 ELSE MaxContext + 1
  /\ row.state = "none" => row.version = 0
  /\ row.before => row.state = "revoked"

(* A request that is about to store a session, and one that has read one.  *)
Inserting == [pc : {"insert"}, since : SUBSET Tenant, tenant : Company]
Reading ==
  [pc : {"authenticate", "read", "answered", "revoke", "refresh", "change", "resolve", "swap"},
   session : Session, tenant : Company, version : Nat,
   goal : {"answer", "refuse", "refresh", "logout", "password", "resolve", "switch"},
   target : Company, since : SUBSET Tenant]

(* The row that a request has read: it is not newer than the stored one,   *)
(* and the same if its version is the same.                                *)
ReadStands(q, table) ==
  LET row == table[q.session] IN
  /\ q.version <= row.version
  /\ q.version = row.version => row.state = "live" /\ row.tenant = q.tenant

(* What a request has noted since it began.                                *)
NotedSince(q, companies) ==
  /\ companies \subseteq q.since
  /\ q.pc = "answered" => q.tenant \in q.since \cup {NoTenant}

(* What a request holds, against the stored rows and the companies' states. *)
TabOK(q, table, companies) ==
  \/ q = Closed
  \/ q \in Inserting /\ NotedSince(q, companies)
  \/ q \in Reading /\ ReadStands(q, table) /\ NotedSince(q, companies)

(* The inductive invariant of the sessions.                                *)
WInv ==
  /\ time \in 1..LastTime /\ active \subseteq Tenant
  /\ DOMAIN session = Session /\ \A s \in Session : RowOK(session[s])
  /\ DOMAIN tab = Tab /\ \A r \in Tab : TabOK(tab[r], session, active)

(* Requests in their stages.                                               *)
LEMMA TabStages ==
  ASSUME WInv, NEW r \in Tab
  PROVE  /\ In(r, "idle") => tab[r] = Closed
         /\ In(r, "insert") => tab[r] \in Inserting /\ NotedSince(tab[r], active)
         /\ tab[r].pc \notin {"idle", "insert"} =>
              tab[r] \in Reading /\ ReadStands(tab[r], session) /\ NotedSince(tab[r], active)
         /\ "version" \in DOMAIN tab[r] => tab[r].pc \notin {"idle", "insert"}
         /\ "since" \in DOMAIN tab[r] <=> tab[r].pc # "idle"
<1>1. CASE tab[r] = Closed
  BY <1>1 DEF Closed, In
<1>2. CASE tab[r] \in Inserting /\ NotedSince(tab[r], active)
  BY <1>2 DEF Inserting, In
<1>3. CASE tab[r] \in Reading /\ ReadStands(tab[r], session) /\ NotedSince(tab[r], active)
  BY <1>3 DEF Reading, In
<1> QED BY <1>1, <1>2, <1>3 DEF WInv, TabOK

(* A row is as it was for those who have read it, or has a new version.    *)
RowMoves(s) ==
  \/ session'[s].version > session[s].version
  \/ /\ session'[s].version = session[s].version /\ session'[s].tenant = session[s].tenant
     /\ session[s].state = "live" => session'[s].state = "live"

(* What a request knows survives every step that moves the table so, and    *)
(* takes companies from the account only.                                  *)
LEMMA TabKept ==
  ASSUME WInv, \A s \in Session : RowOK(session'[s]) /\ RowMoves(s), active' \subseteq active,
         NEW q, TabOK(q, session, active)
  PROVE  TabOK(q, session', active')
<1>1. CASE q = Closed \/ (q \in Inserting /\ NotedSince(q, active))
  BY <1>1 DEF TabOK, NotedSince
<1>2. CASE q \in Reading /\ ReadStands(q, session) /\ NotedSince(q, active)
  <2>1. q.session \in Session /\ q.version \in Nat
    BY <1>2 DEF Reading
  <2>2. session[q.session].version \in Nat /\ session'[q.session].version \in Nat
    BY <2>1 DEF WInv, RowOK, SessionRow
  <2>3. ReadStands(q, session')
    BY <1>2, <2>1, <2>2 DEF ReadStands, RowMoves
  <2> QED BY <1>2, <2>3 DEF TabOK, NotedSince
<1> QED BY <1>1, <1>2 DEF TabOK

(* One request moves on, or none.                                          *)
LEMMA TabsMove ==
  ASSUME WInv, \A s \in Session : RowOK(session'[s]) /\ RowMoves(s), DOMAIN session' = Session,
         active' \subseteq active, time' \in 1..LastTime,
         \/ tab' = tab
         \/ \E r \in Tab : \E q : Moves(r, q) /\ TabOK(q, session', active')
  PROVE  WInv'
<1>1. DOMAIN tab' = Tab
  BY DEF WInv, Moves
<1>2. ASSUME NEW x \in Tab PROVE TabOK(tab'[x], session', active')
  <2>1. TabOK(tab[x], session', active')
    BY TabKept DEF WInv
  <2>2. CASE tab' = tab
    BY <2>1, <2>2
  <2>3. ASSUME NEW r \in Tab, NEW q, Moves(r, q), TabOK(q, session', active')
        PROVE  TabOK(tab'[x], session', active')
    <3>1. tab'[x] = IF x = r THEN q ELSE tab[x]
      BY <2>3 DEF Moves, WInv
    <3> QED BY <2>1, <2>3, <3>1
  <2> QED BY <2>2, <2>3
<1> QED BY <1>1, <1>2 DEF WInv

(* One request moves on and the tables stay.                               *)
LEMMA TabMoves ==
  ASSUME WInv, UNCHANGED <<time, session, active>>, NEW r \in Tab, NEW q, Moves(r, q),
         TabOK(q, session, active)
  PROVE  WInv'
<1>1. \A s \in Session : RowOK(session'[s]) /\ RowMoves(s)
  BY DEF WInv, RowMoves
<1>2. DOMAIN session' = Session /\ active' \subseteq active /\ time' \in 1..LastTime
  BY DEF WInv
<1>3. TabOK(q, session', active')
  OBVIOUS
<1> QED BY <1>1, <1>2, <1>3, TabsMove

(* A request that has ended holds nothing.                                 *)
LEMMA ClosedOK == ASSUME NEW table, NEW companies PROVE TabOK(Closed, table, companies)
BY DEF TabOK

(* What is read of a live row stands.                                      *)
LEMMA SeenOK ==
  ASSUME WInv, NEW s \in Session, NEW table, NEW row, row \in SessionRow, row.state = "live",
         table[s].version = row.version, table[s].tenant = row.tenant, table[s].state = "live",
         NEW goal \in {"answer", "refuse", "refresh", "logout", "password", "resolve", "switch"},
         NEW target \in Company, NEW since \in SUBSET Tenant, active \subseteq since
  PROVE  TabOK(Seen(s, row, goal, target, since), table, active)
<1> DEFINE q == Seen(s, row, goal, target, since)
<1>1. q \in Reading
  BY DEF Seen, Reading, SessionRow
<1>2. ReadStands(q, table)
  BY DEF Seen, ReadStands, SessionRow
<1>3. NotedSince(q, active)
  BY DEF Seen, NotedSince
<1> QED BY <1>1, <1>2, <1>3 DEF TabOK

(* A request that goes on with what it has read.                           *)
LEMMA OntoOK ==
  ASSUME WInv, NEW r \in Tab, tab[r] \in Reading, ReadStands(tab[r], session),
         NotedSince(tab[r], active),
         NEW pc \in {"read", "answered", "revoke", "refresh", "change", "resolve", "swap"},
         pc = "answered" => tab[r].tenant \in active \cup {NoTenant},
         UNCHANGED <<time, session, active>>, Onto(r, pc)
  PROVE  WInv'
<1> DEFINE q == [tab[r] EXCEPT !.pc = pc]
<1>1. q \in Reading /\ q.pc = pc /\ q.session = tab[r].session /\ q.version = tab[r].version
      /\ q.tenant = tab[r].tenant /\ q.since = tab[r].since
  BY DEF Reading
<1>2. Moves(r, q)
  BY DEF Onto
<1> HIDE DEF q
<1>3. TabOK(q, session, active)
  BY <1>1 DEF TabOK, ReadStands, NotedSince
<1> QED BY <1>2, <1>3, TabMoves

(* A revoked row.                                                          *)
LEMMA RevokedRow ==
  ASSUME NEW row, RowOK(row)
  PROVE  /\ RowOK(Revoked(row)) /\ Revoked(row).tenant = row.tenant
         /\ Revoked(row).expires = row.expires /\ Revoked(row).before = row.before
         /\ row.state # "live" => Revoked(row) = row
         /\ row.state = "live" => Revoked(row).state = "revoked" /\ Revoked(row).version = row.version + 1
<1>1. MaxContext \in Nat
  BY SessionAssumption
<1>2. CASE row.state = "live"
  <2> DEFINE z == [row EXCEPT !.state = "revoked", !.version = row.version + 1]
  <2>0. row \in SessionRow /\ row.version \in Nat
    BY DEF RowOK, SessionRow
  <2>1. Revoked(row) = z
    BY <1>2, <2>0 DEF Revoked, SessionRow
  <2>2. /\ z.state = "revoked" /\ z.version = row.version + 1
        /\ z.tenant = row.tenant /\ z.expires = row.expires /\ z.before = row.before
    BY <2>0 DEF SessionRow
  <2>5. z \in SessionRow
    <3>1. \A v \in Nat : [row EXCEPT !.state = "revoked", !.version = v] \in SessionRow
      BY <2>0 DEF SessionRow
    <3>2. row.version + 1 \in Nat
      BY <2>0
    <3> QED BY <3>1, <3>2, Zenon
  <2>3. row.version \in Nat /\ row.version <= MaxContext + 1
    BY <1>2 DEF RowOK, SessionRow
  <2> HIDE DEF z
  <2>4. RowOK(z)
    BY <1>1, <2>2, <2>3, <2>5 DEF RowOK
  <2> QED BY <1>2, <2>1, <2>2, <2>4
<1>3. CASE row.state # "live"
  BY <1>3 DEF Revoked
<1> QED BY <1>2, <1>3

(* Revoking some of the sessions, with nothing else in the table that       *)
(* matters to a request.                                                   *)
LEMMA RevokeRows ==
  ASSUME WInv, DOMAIN session' = Session,
         \A s \in Session : \/ session'[s] = session[s] \/ session'[s] = Revoked(session[s])
                            \/ session'[s] = [Revoked(session[s]) EXCEPT !.before = session[s].state # "none"]
  PROVE  \A s \in Session : RowOK(session'[s]) /\ RowMoves(s)
<1> SUFFICES ASSUME NEW s \in Session PROVE RowOK(session'[s]) /\ RowMoves(s)
  OBVIOUS
<1> DEFINE row == session[s]
           gone == Revoked(session[s])
<1>1. RowOK(row) /\ row.version \in Nat
  BY DEF WInv, RowOK, SessionRow
<1> HIDE DEF row, gone
<1>2. /\ RowOK(gone) /\ gone.tenant = row.tenant /\ (row.state # "live" => gone = row)
      /\ row.state = "live" => gone.state = "revoked" /\ gone.version = row.version + 1
  BY <1>1, RevokedRow DEF row, gone
<1>3. CASE session'[s] = row \/ session'[s] = gone
  BY <1>1, <1>2, <1>3 DEF RowMoves, row
<1>4. CASE session'[s] = [gone EXCEPT !.before = row.state # "none"]
  <2>1. /\ session'[s] \in SessionRow /\ session'[s].state = gone.state
        /\ session'[s].version = gone.version /\ session'[s].tenant = gone.tenant
        /\ session'[s].before = (row.state # "none")
    BY <1>2, <1>4 DEF RowOK, SessionRow
  <2>2. gone.state \in {"none", "revoked"} /\ (gone.state = "none" => row.state = "none")
    BY <1>1, <1>2 DEF RowOK, SessionRow
  <2>3. RowOK(session'[s])
    BY <1>2, <2>1, <2>2 DEF RowOK
  <2>4. RowMoves(s)
    BY <1>1, <1>2, <2>1 DEF RowMoves, row
  <2> QED BY <2>3, <2>4
<1> QED BY <1>3, <1>4 DEF row, gone

(* CreateWebSession: a row is stored for a tenant that was active when it  *)
(* was resolved.                                                           *)
LEMMA CreateStep ==
  ASSUME WInv, NEW r \in Tab, NEW s \in Session, CreateWebSession(r, s)
  PROVE  WInv'
<1> DEFINE row == [state |-> "live", tenant |-> tab[r].tenant, version |-> 1,
                   expires |-> time + SessionTTL, before |-> FALSE]
<1>1. /\ tab[r] \in Inserting /\ NotedSince(tab[r], active) /\ session[s].state = "none"
      /\ session' = [session EXCEPT ![s] = row] /\ UNCHANGED <<time, active>>
      /\ Moves(r, Seen(s, row, "answer", NoTenant, tab[r].since))
  BY TabStages DEF CreateWebSession
<1>2. tab[r].tenant \in Company /\ tab[r].since \in SUBSET Tenant /\ active \subseteq tab[r].since
  BY <1>1 DEF Inserting, NotedSince
<1>3. RowOK(row) /\ row \in SessionRow /\ row.version = 1 /\ row.state = "live"
  BY <1>2, SessionAssumption DEF RowOK, SessionRow, WInv
<1>4. \A x \in Session : session'[x] = IF x = s THEN row ELSE session[x]
  BY <1>1 DEF WInv
<1>5. session[s].version = 0 /\ DOMAIN session' = Session
  BY <1>1 DEF WInv, RowOK
<1> HIDE DEF row
<1>6. \A x \in Session : RowOK(session'[x]) /\ RowMoves(x)
  BY <1>3, <1>4, <1>5 DEF WInv, RowMoves
<1>7. TabOK(Seen(s, row, "answer", NoTenant, tab[r].since), session', active)
  BY <1>2, <1>3, <1>4, SeenOK DEF Company
<1> QED BY <1>1, <1>5, <1>6, <1>7, TabsMove DEF WInv

(* AuthenticateWebSession reads the row, or ends the request.              *)
LEMMA AuthenticateStep ==
  ASSUME WInv, NEW r \in Tab,
         \/ listWebTenants(r) \/ Reauthenticate(r)
         \/ \E s \in Session, goal \in Goal \cup {"switch"}, target \in Company :
              AuthenticateWebSession(r, s, goal, target)
  PROVE  WInv'
<1>0. \A s \in Session : session[s] \in SessionRow
  BY DEF WInv, RowOK
<1>1. CASE listWebTenants(r)
  <2> DEFINE q == [pc |-> "insert", since |-> active,
               tenant |-> IF \E t \in active : active = {t} THEN CHOOSE t \in active : TRUE ELSE NoTenant]
  <2>1. (CHOOSE t \in active : TRUE) \in active \/ active = {}
    OBVIOUS
  <2>2. (\E t \in active : active = {t}) => active # {}
    OBVIOUS
  <2>3. q.tenant \in Company /\ active \in SUBSET Tenant
    BY <2>1, <2>2 DEF WInv, Company
  <2>4. TabOK(q, session, active)
    BY <2>3 DEF TabOK, Inserting, NotedSince
  <2>5. Moves(r, q) /\ UNCHANGED <<time, session, active>>
    BY <1>1 DEF listWebTenants
  <2> HIDE DEF q
  <2> QED BY <2>4, <2>5, TabMoves
<1>2. CASE Reauthenticate(r)
  <2> DEFINE s == tab[r].session
             q == Seen(s, session[s], tab[r].goal, tab[r].target, tab[r].since)
  <2>1. /\ tab[r] \in Reading /\ NotedSince(tab[r], active) /\ UNCHANGED <<time, session, active>>
        /\ IF Live(s) THEN Moves(r, q) ELSE Moves(r, Closed)
    BY <1>2, TabStages DEF Reauthenticate, In, Closes
  <2>2. /\ s \in Session /\ tab[r].target \in Company /\ tab[r].since \in SUBSET Tenant
        /\ tab[r].goal \in {"answer", "refuse", "refresh", "logout", "password", "resolve", "switch"}
        /\ active \subseteq tab[r].since
    BY <2>1 DEF Reading, NotedSince
  <2>3. Live(s) => TabOK(q, session, active)
    BY <1>0, <2>2, SeenOK DEF Live
  <2> HIDE DEF s, q
  <2> QED BY <2>1, <2>3, ClosedOK, TabMoves
<1>3. ASSUME NEW s \in Session, NEW goal \in Goal \cup {"switch"}, NEW target \in Company,
             AuthenticateWebSession(r, s, goal, target)
      PROVE  WInv'
  <2> DEFINE q == Seen(s, session[s], goal, target, active)
  <2>1. Moves(r, q) /\ UNCHANGED <<time, session, active>> /\ session[s].state = "live"
    BY <1>3 DEF AuthenticateWebSession, Live
  <2>2. TabOK(q, session, active)
    BY <1>0, <2>1, SeenOK DEF WInv, Goal
  <2> HIDE DEF q
  <2> QED BY <2>1, <2>2, TabMoves
<1> QED BY <1>1, <1>2, <1>3

(* A request goes on with the row that it has read: it is answered, refused *)
(* or dropped.                                                             *)
LEMMA RequestStep ==
  ASSUME WInv, NEW r \in Tab,
         authenticateWebSessionRecord(r) \/ Answer(r) \/ ResolveTarget(r) \/ Leave(r)
  PROVE  WInv'
<1>1. ASSUME Closes(r), UNCHANGED <<time, session, active>> PROVE WInv'
  BY <1>1, ClosedOK, TabMoves DEF Closes
<1>2. CASE Answer(r) \/ Leave(r)
  BY <1>1, <1>2 DEF Answer, Leave
<1>3. CASE ResolveTarget(r)
  <2>1. tab[r] \in Reading /\ ReadStands(tab[r], session) /\ NotedSince(tab[r], active)
    BY <1>3, TabStages DEF ResolveTarget, In
  <2> QED BY <1>1, <1>3, <2>1, OntoOK DEF ResolveTarget
<1>4. CASE authenticateWebSessionRecord(r)
  <2>1. /\ tab[r] \in Reading /\ ReadStands(tab[r], session) /\ NotedSince(tab[r], active)
        /\ UNCHANGED <<time, session, active>>
    BY <1>4, TabStages DEF authenticateWebSessionRecord, In
  <2>2. ASSUME NEW pc \in {"revoke", "refresh", "change", "resolve"}, Onto(r, pc) PROVE WInv'
    BY <2>1, <2>2, OntoOK
  <2>3. ASSUME tab[r].tenant \in active \cup {NoTenant}, Onto(r, "answered") PROVE WInv'
    BY <2>1, <2>3, OntoOK
  <2>4. ASSUME Moves(r, [tab[r] EXCEPT !.pc = "read", !.goal = "resolve"]) PROVE WInv'
    <3> DEFINE q == [tab[r] EXCEPT !.pc = "read", !.goal = "resolve"]
    <3>1. q \in Reading /\ q.pc = "read" /\ q.session = tab[r].session /\ q.version = tab[r].version
          /\ q.tenant = tab[r].tenant /\ q.since = tab[r].since
      BY <2>1 DEF Reading
    <3>2. Moves(r, q)
      BY <2>4
    <3> HIDE DEF q
    <3>3. TabOK(q, session, active)
      BY <2>1, <3>1 DEF TabOK, ReadStands, NotedSince
    <3> QED BY <2>1, <3>2, <3>3, TabMoves
  <2> QED BY <1>1, <1>4, <2>1, <2>2, <2>3, <2>4 DEF authenticateWebSessionRecord, Authorized
<1> QED BY <1>2, <1>3, <1>4

(* RefreshWebSession stores a later expiry if the row is as it was read.   *)
LEMMA RefreshStep ==
  ASSUME WInv, NEW r \in Tab, RefreshWebSession(r)
  PROVE  WInv'
<1> DEFINE s == tab[r].session
           q == Seen(s, session[s], "answer", NoTenant, tab[r].since)
<1>1. tab[r] \in Reading /\ NotedSince(tab[r], active) /\ UNCHANGED <<time, active>>
  BY TabStages DEF RefreshWebSession, In
<1>2. s \in Session /\ tab[r].since \in SUBSET Tenant /\ active \subseteq tab[r].since
  BY <1>1 DEF Reading, NotedSince
<1>3. RowOK(session[s]) /\ session[s] \in SessionRow /\ time \in Nat /\ SessionTTL \in Nat
  BY <1>2, SessionAssumption DEF WInv, RowOK
<1>4. CASE ~Live(s)
  BY <1>1, <1>4, ClosedOK, TabMoves DEF RefreshWebSession, Closes
<1>5. CASE Live(s)
  <2>1. PICK e \in Nat : session' = [session EXCEPT ![s].expires = e]
    BY <1>2, <1>3, <1>5 DEF RefreshWebSession, SessionRow
  <2>2. /\ DOMAIN session' = Session /\ \A x \in Session \ {s} : session'[x] = session[x]
        /\ session'[s] = [session[s] EXCEPT !.expires = e]
    BY <1>2, <2>1 DEF WInv
  <2>3. /\ session'[s] \in SessionRow /\ session'[s].state = session[s].state
        /\ session'[s].tenant = session[s].tenant /\ session'[s].version = session[s].version
        /\ session'[s].before = session[s].before
    BY <1>3, <2>2 DEF SessionRow
  <2>4. RowOK(session'[s])
    BY <1>3, <2>3 DEF RowOK
  <2>5. \A x \in Session : RowOK(session'[x]) /\ RowMoves(x)
    BY <2>2, <2>3, <2>4 DEF WInv, RowMoves
  <2>6. Moves(r, q) /\ session[s].state = "live"
    BY <1>5 DEF RefreshWebSession, Live
  <2>7. TabOK(q, session', active)
    BY <1>2, <1>3, <2>3, <2>6, SeenOK DEF Company
  <2> HIDE DEF q, s
  <2> QED BY <1>1, <2>2, <2>5, <2>6, <2>7, TabsMove DEF WInv
<1> QED BY <1>4, <1>5

(* SwitchWebSessionTenant stores the other tenant and the next version if  *)
(* the version is as it was read.                                          *)
LEMMA SwitchStep ==
  ASSUME WInv, NEW r \in Tab, SwitchWebSessionTenant(r)
  PROVE  WInv'
<1> DEFINE s == tab[r].session
           same == Live(s) /\ session[s].version = tab[r].version
           q == [tab[r] EXCEPT !.pc = "read", !.goal = IF same THEN "answer" ELSE "refuse"]
<1>1. /\ tab[r] \in Reading /\ ReadStands(tab[r], session) /\ NotedSince(tab[r], active)
      /\ UNCHANGED <<time, active>> /\ Moves(r, q) /\ (same => session[s].version <= MaxContext)
  BY TabStages DEF SwitchWebSessionTenant, In
<1>2. /\ s \in Session /\ tab[r].target \in Company /\ tab[r].version \in Nat /\ MaxContext \in Nat
  BY <1>1, SessionAssumption DEF Reading
<1>3. RowOK(session[s]) /\ session[s] \in SessionRow
  BY <1>2 DEF WInv, RowOK
<1>4. q \in Reading /\ q.pc = "read" /\ q.session = s /\ q.version = tab[r].version
      /\ q.tenant = tab[r].tenant /\ q.since = tab[r].since
  BY <1>1 DEF Reading
<1>5. CASE same
  <2>1. session' = [session EXCEPT ![s].tenant = tab[r].target, ![s].version = @ + 1]
    BY <1>5 DEF SwitchWebSessionTenant
  <2>2. /\ DOMAIN session' = Session /\ \A x \in Session \ {s} : session'[x] = session[x]
        /\ session'[s] \in SessionRow /\ session'[s].version = session[s].version + 1
        /\ session'[s].state = session[s].state /\ session'[s].before = session[s].before
    BY <1>2, <1>3, <2>1 DEF WInv, SessionRow
  <2>3. session[s].version \in Nat /\ session[s].state = "live"
    BY <1>3, <1>5 DEF SessionRow, Live
  <2>4. RowOK(session'[s])
    BY <1>1, <1>5, <1>2, <1>3, <2>2, <2>3 DEF RowOK
  <2>5. \A x \in Session : RowOK(session'[x]) /\ RowMoves(x)
    BY <2>2, <2>3, <2>4 DEF WInv, RowMoves
  <2>6. session[s].version = tab[r].version
    BY <1>5
  <2> HIDE DEF s, q, same
  <2>7. TabOK(q, session', active)
    BY <1>1, <1>2, <1>4, <2>2, <2>3, <2>6 DEF TabOK, ReadStands, NotedSince
  <2> QED BY <1>1, <2>2, <2>5, <2>7, TabsMove DEF WInv
<1>6. CASE ~same
  <2>1. session' = session
    BY <1>6 DEF SwitchWebSessionTenant
  <2>2. s = tab[r].session
    OBVIOUS
  <2> HIDE DEF s, q, same
  <2>3. TabOK(q, session, active)
    BY <1>1, <1>4, <2>2 DEF TabOK, ReadStands, NotedSince
  <2> QED BY <1>1, <2>1, <2>3, TabMoves
<1> QED BY <1>5, <1>6

(* A session is revoked by its own request, or all of them by a change of  *)
(* the password.                                                           *)
LEMMA RevokeStep ==
  ASSUME WInv,
         \/ \E r \in Tab : revokeWebSessionByHash(r) \/ changeOwnPassword(r)
         \/ SecureAccount \/ \E t \in Tenant : revokeWebSessionsForTenantMember(t)
  PROVE  WInv'
<1>1. ASSUME DOMAIN session' = Session,
             \A s \in Session : \/ session'[s] = session[s] \/ session'[s] = Revoked(session[s])
                                \/ session'[s] = [Revoked(session[s]) EXCEPT !.before = session[s].state # "none"],
             time' = time, active' \subseteq active, tab' = tab \/ \E r \in Tab : Closes(r)
      PROVE  WInv'
  <2>1. \A s \in Session : RowOK(session'[s]) /\ RowMoves(s)
    BY <1>1, RevokeRows
  <2>2. \A r \in Tab : Closes(r) => Moves(r, Closed) /\ TabOK(Closed, session', active')
    BY ClosedOK DEF Closes
  <2> QED BY <1>1, <2>1, <2>2, TabsMove DEF WInv
<1>2. EndSessions => /\ DOMAIN session' = Session
                     /\ \A s \in Session : session'[s] =
                          [Revoked(session[s]) EXCEPT !.before = session[s].state # "none"]
  BY DEF EndSessions, revokeWebSessionsForUser
<1>3. ASSUME NEW r \in Tab, revokeWebSessionByHash(r) PROVE WInv'
  <2>1. /\ DOMAIN session' = Session
        /\ \A s \in Session : session'[s] = session[s] \/ session'[s] = Revoked(session[s])
    BY <1>3 DEF revokeWebSessionByHash, WInv
  <2> QED BY <1>1, <1>3, <2>1 DEF revokeWebSessionByHash
<1>4. ASSUME NEW r \in Tab, changeOwnPassword(r) PROVE WInv'
  <2>1. CASE session' = session
    BY <1>1, <1>4, <2>1 DEF changeOwnPassword, WInv
  <2>2. CASE EndSessions
    BY <1>1, <1>2, <1>4, <2>2 DEF changeOwnPassword
  <2> QED BY <1>4, <2>1, <2>2 DEF changeOwnPassword
<1>5. CASE SecureAccount
  BY <1>1, <1>2, <1>5 DEF SecureAccount
<1>6. ASSUME NEW t \in Tenant, revokeWebSessionsForTenantMember(t) PROVE WInv'
  <2>1. /\ DOMAIN session' = Session
        /\ \A s \in Session : session'[s] = session[s] \/ session'[s] = Revoked(session[s])
    BY <1>6 DEF revokeWebSessionsForTenantMember
  <2> QED BY <1>1, <1>6, <2>1 DEF revokeWebSessionsForTenantMember
<1> QED BY <1>3, <1>4, <1>5, <1>6

(* A tenant is suspended or resumed, and time passes.                      *)
LEMMA CompanyStep ==
  ASSUME WInv,
         \/ \E t \in Tenant : StartMembership(t) \/ SuspendTenant(t)
         \/ SessionTick \/ UNCHANGED sessionVars
  PROVE  WInv'
<1>1. \A s \in Session : session' = session => RowOK(session'[s]) /\ RowMoves(s)
  BY DEF WInv, RowMoves
<1>2. CASE SessionTick \/ UNCHANGED sessionVars \/ \E t \in Tenant : SuspendTenant(t)
  <2>1. /\ session' = session /\ tab' = tab /\ active' \subseteq active /\ time' \in 1..LastTime
    BY <1>2, SessionAssumption DEF SessionTick, SuspendTenant, sessionVars, WInv
  <2> QED BY <1>1, <2>1, TabsMove DEF WInv
<1>3. ASSUME NEW t \in Tenant, StartMembership(t) PROVE WInv'
  <2>1. /\ UNCHANGED <<time, session>> /\ active' = active \cup {t} /\ DOMAIN tab' = Tab
    BY <1>3 DEF StartMembership
  <2>2. ASSUME NEW r \in Tab PROVE TabOK(tab'[r], session, active')
    <3>1. tab'[r] = IF tab[r].pc # "idle" THEN [tab[r] EXCEPT !.since = @ \cup {t}] ELSE tab[r]
      BY <1>3, TabStages DEF StartMembership
    <3>2. CASE tab[r].pc = "idle"
      BY <3>1, <3>2, TabStages DEF TabOK, In
    <3>3. CASE tab[r].pc = "insert"
      <4>1. tab[r] \in Inserting /\ NotedSince(tab[r], active)
        BY <3>3, TabStages DEF In
      <4>2. /\ tab'[r] \in Inserting /\ tab'[r].since = tab[r].since \cup {t} /\ tab'[r].pc = "insert"
        BY <3>1, <3>3, <4>1 DEF Inserting
      <4> QED BY <2>1, <4>1, <4>2 DEF TabOK, NotedSince
    <3>4. CASE tab[r].pc \notin {"idle", "insert"}
      <4>1. tab[r] \in Reading /\ ReadStands(tab[r], session) /\ NotedSince(tab[r], active)
        BY <3>4, TabStages
      <4>2. /\ tab'[r] \in Reading /\ tab'[r].since = tab[r].since \cup {t}
            /\ tab'[r].pc = tab[r].pc /\ tab'[r].session = tab[r].session
            /\ tab'[r].version = tab[r].version /\ tab'[r].tenant = tab[r].tenant
        BY <3>1, <3>4, <4>1 DEF Reading
      <4>3. ReadStands(tab'[r], session)
        BY <4>1, <4>2 DEF ReadStands
      <4>4. NotedSince(tab'[r], active')
        BY <2>1, <4>1, <4>2 DEF NotedSince
      <4> QED BY <4>2, <4>3, <4>4 DEF TabOK
    <3> QED BY <3>2, <3>3, <3>4
  <2> QED BY <2>1, <2>2 DEF WInv
<1> QED BY <1>2, <1>3

(* The inductive invariant of the browser sessions, for any tenants,       *)
(* sessions and requests (biz_web_sessions).                               *)
THEOREM SessionInvariance == SessionSpec => []WInv
<1>1. SessionInit => WInv
  <2> SUFFICES ASSUME SessionInit PROVE WInv
    OBVIOUS
  <2>1. RowOK(NoSession)
    BY SessionAssumption DEF RowOK, NoSession, SessionRow, Company
  <2> QED BY <2>1, ClosedOK, SessionAssumption DEF SessionInit, WInv
<1>2. WInv /\ [SessionNext]_sessionVars => WInv'
  <2> SUFFICES ASSUME WInv, [SessionNext]_sessionVars PROVE WInv'
    OBVIOUS
  <2>1. ASSUME NEW r \in Tab, Browse(r) PROVE WInv'
    <3>1. CASE \E s \in Session : CreateWebSession(r, s)
      BY <3>1, CreateStep
    <3>2. CASE \E s \in Session : \/ \E g \in Goal : AuthenticateWebSession(r, s, g, NoTenant)
                                  \/ \E t \in Tenant : AuthenticateWebSession(r, s, "switch", t)
      BY <3>2, AuthenticateStep DEF Company
    <3>3. CASE listWebTenants(r) \/ Reauthenticate(r)
      BY <3>3, AuthenticateStep
    <3>4. CASE authenticateWebSessionRecord(r) \/ Answer(r) \/ ResolveTarget(r) \/ Leave(r)
      BY <3>4, RequestStep
    <3>5. CASE revokeWebSessionByHash(r) \/ changeOwnPassword(r)
      BY <3>5, RevokeStep
    <3>6. CASE RefreshWebSession(r) \/ SwitchWebSessionTenant(r)
      BY <3>6, RefreshStep, SwitchStep
    <3> QED BY <2>1, <3>1, <3>2, <3>3, <3>4, <3>5, <3>6 DEF Browse
  <2> QED BY <2>1, RevokeStep, CompanyStep DEF SessionNext
<1> QED BY <1>1, <1>2, PTL DEF SessionSpec

(* The promises of the session table and of the requests that read it hold *)
(* in every reachable state.                                               *)
THEOREM SessionSafe == SessionSpec => []SessionInv
<1>1. WInv => SessionInv
  <2> SUFFICES ASSUME WInv PROVE SessionInv
    OBVIOUS
  <2>1. ASSUME NEW s \in Session
        PROVE  /\ session[s].state \in {"none", "live", "revoked"}
               /\ session[s].tenant \in Tenant \cup {NoTenant}
               /\ session[s].version \in 0 .. MaxContext + 2
               /\ session[s].before => session[s].state = "revoked"
    BY SessionAssumption DEF WInv, RowOK, SessionRow, Company
  <2>2. ASSUME NEW r \in Tab, "version" \in DOMAIN tab[r] PROVE ReadStands(tab[r], session)
    BY <2>2, TabStages
  <2> QED BY <2>1, <2>2 DEF WInv, SessionInv, ReadStands
<1> QED BY <1>1, SessionInvariance, PTL

(* No request is answered under a tenant or a session that had lost its    *)
(* authority before the request came (AuthenticateWebSession,              *)
(* AuthorizeTenant).                                                       *)
THEOREM AnswersUnderAuthority == SessionSpec => []AnsweredUnderAuthority
<1>1. WInv => AnsweredUnderAuthority
  BY TabStages DEF AnsweredUnderAuthority, In, NotedSince
<1> QED BY <1>1, SessionInvariance, PTL

(* Every step moves a stored session the way the code does.                *)
LEMMA KeepsStep ==
  ASSUME WInv, [SessionNext]_sessionVars, NEW s \in Session, session[s].state # "none"
  PROVE  SessionKeeps(s)
<1>0. RowOK(session[s]) /\ session[s] \in SessionRow
  BY DEF WInv, RowOK
<1>1. ASSUME session'[s] = session[s] PROVE SessionKeeps(s)
  BY <1>1 DEF SessionKeeps
<1>2. ASSUME \/ session'[s] = Revoked(session[s])
             \/ session'[s] = [Revoked(session[s]) EXCEPT !.before = session[s].state # "none"]
      PROVE  SessionKeeps(s)
  <2>1. /\ session'[s].tenant = session[s].tenant /\ session'[s].expires = session[s].expires
        /\ session[s].state = "revoked" => session'[s].state = "revoked"
    BY <1>0, <1>2, RevokedRow DEF RowOK, SessionRow
  <2> QED BY <2>1 DEF SessionKeeps
<1>3. ASSUME NEW r \in Tab, NEW x \in Session, CreateWebSession(r, x) PROVE SessionKeeps(s)
  BY <1>1, <1>3 DEF CreateWebSession, WInv
<1>4. ASSUME NEW r \in Tab, RefreshWebSession(r) PROVE SessionKeeps(s)
  <2>1. tab[r].session \in Session
    BY <1>4, TabStages DEF RefreshWebSession, In, Reading
  <2>2. CASE tab[r].session = s /\ Live(s)
    <3>1. /\ session'[s].tenant = session[s].tenant /\ session'[s].state = session[s].state
      BY <1>0, <1>4, <2>2 DEF RefreshWebSession, WInv, SessionRow
    <3> QED BY <2>2, <3>1 DEF SessionKeeps
  <2>3. CASE tab[r].session # s \/ ~Live(s)
    BY <1>1, <1>4, <2>1, <2>3 DEF RefreshWebSession, WInv
  <2> QED BY <2>2, <2>3
<1>5. ASSUME NEW r \in Tab, SwitchWebSessionTenant(r) PROVE SessionKeeps(s)
  <2>1. tab[r].session \in Session
    BY <1>5, TabStages DEF SwitchWebSessionTenant, In, Reading
  <2>2. CASE tab[r].session = s /\ Live(s) /\ session[s].version = tab[r].version
    <3>1. /\ session'[s].version = session[s].version + 1 /\ session'[s].state = session[s].state
      BY <1>0, <1>5, <2>2 DEF SwitchWebSessionTenant, WInv, SessionRow
    <3>2. In(r, "swap")
      BY <1>5 DEF SwitchWebSessionTenant
    <3> QED BY <2>2, <3>1, <3>2 DEF SessionKeeps
  <2>3. CASE ~(tab[r].session = s /\ Live(s) /\ session[s].version = tab[r].version)
    BY <1>1, <1>5, <2>1, <2>3 DEF SwitchWebSessionTenant, WInv
  <2> QED BY <2>2, <2>3
<1>6. CASE EndSessions
  BY <1>2, <1>6 DEF EndSessions, revokeWebSessionsForUser
<1>7. ASSUME NEW r \in Tab, revokeWebSessionByHash(r) PROVE SessionKeeps(s)
  <2>1. session'[s] = session[s] \/ session'[s] = Revoked(session[s])
    BY <1>7 DEF revokeWebSessionByHash, WInv
  <2> QED BY <1>1, <1>2, <2>1
<1>8. ASSUME NEW t \in Tenant, revokeWebSessionsForTenantMember(t) PROVE SessionKeeps(s)
  BY <1>1, <1>2, <1>8 DEF revokeWebSessionsForTenantMember
<1>9. CASE session' = session
  BY <1>1, <1>9
<1>10. ASSUME NEW r \in Tab, Browse(r) PROVE SessionKeeps(s)
  <2>1. CASE \/ listWebTenants(r) \/ Reauthenticate(r) \/ authenticateWebSessionRecord(r)
             \/ Answer(r) \/ ResolveTarget(r) \/ Leave(r)
             \/ \E x \in Session : \/ \E g \in Goal : AuthenticateWebSession(r, x, g, NoTenant)
                                   \/ \E t \in Tenant : AuthenticateWebSession(r, x, "switch", t)
    BY <1>9, <2>1 DEF listWebTenants, Reauthenticate, authenticateWebSessionRecord, Answer, ResolveTarget,
                      Leave, AuthenticateWebSession
  <2>2. CASE changeOwnPassword(r)
    BY <1>6, <1>9, <2>2 DEF changeOwnPassword
  <2> QED BY <1>3, <1>4, <1>5, <1>7, <1>10, <2>1, <2>2 DEF Browse
<1> QED BY <1>6, <1>8, <1>9, <1>10
        DEF SessionNext, SecureAccount, StartMembership, SuspendTenant, SessionTick, sessionVars

(* A revoked session stays revoked, and the tenant of a live one changes   *)
(* only with its context version (SwitchWebSessionTenant,                  *)
(* RevokeWebSession).                                                      *)
THEOREM SessionsMoveAsModelled == SessionSpec => SessionMoves
<1>1. WInv /\ [SessionNext]_sessionVars =>
        [\A s \in Session : session[s].state # "none" => SessionKeeps(s)]_sessionVars
  BY KeepsStep
<1> QED BY <1>1, SessionInvariance, PTL DEF SessionSpec, SessionMoves

-----------------------------------------------------------------------------
(* Logins *)

(* The rows of the logins.                                                 *)
Credential == [secret : 1..MaxSecret, disabled : BOOLEAN, temporary : Nat, pending : Nat]
Throttle == [count : Nat, since : Nat, until : Nat]
AskRow == [state : {"none", "open", "bound", "spent"}, csrf : Nat, expires : Nat]
CodeRow == [state : {"none", "issued", "used"}, expires : Nat]

(* What an HTTP request of a login has in hand, in each of its stages.     *)
Trying == [pc : {"throttle", "password"}, login : Login, csrf : Nat, secret : Nat, at : Nat]
Passed == [pc : {"passed"}, login : Login, csrf : Nat, must : BOOLEAN]
Refused == [pc : {"failed"}, at : Nat]
Verified == [pc : {"bind", "consent", "issue"}, login : Login, csrf : Nat]
Calling == [pc : {"exchange"}, login : Login]
HandlerRow == {Waiting} \cup Trying \cup Passed \cup Refused \cup Verified \cup Calling

(* The request h compares a password while the identifier is locked.       *)
PastLock(h) == handler[h].pc \in {"password", "failed"} /\ throttle.until > handler[h].at

(* Every row and every request has its type.                               *)
LoginType ==
  /\ now \in 1..Horizon
  /\ credential \in Credential /\ throttle \in Throttle /\ consent \in {"none", "accepted"}
  /\ ask \in [Login -> AskRow] /\ code \in [Login -> CodeRow]
  /\ flow \in Nat /\ granted \in Nat
  /\ handler \in [Handler -> HandlerRow]

(* Every identity goes back to the one time that the flow was consumed.    *)
FlowInv ==
  /\ flow # 0 => granted = 0 /\ \A h \in Handler : ~At(h, "exchange")
  /\ \A g, h \in Handler : At(g, "exchange") /\ At(h, "exchange") => g = h
  /\ granted > 0 => \A h \in Handler : ~At(h, "exchange")
  /\ granted <= 1

(* A code was issued after the consent was accepted, and its request is    *)
(* spent.                                                                  *)
CodeInv ==
  /\ \A h \in Handler : At(h, "issue") => consent = "accepted"
  /\ \A l \in Login : code[l].state # "none" => consent = "accepted" /\ ask[l].state = "spent"

(* The request that set the lock is not past it, and none passes it later. *)
LockInv ==
  /\ throttle.count >= MaxFailures => throttle.until > 0
  /\ \E h \in Handler : ~PastLock(h)

(* The inductive invariant of the logins.                                  *)
FInv == LoginType /\ FlowInv /\ CodeInv /\ LockInv

(* What the stage of a request says of its record.                         *)
LEMMA HandlerStages ==
  ASSUME LoginType, NEW h \in Handler
  PROVE  /\ handler[h].pc \in {"throttle", "password"} => handler[h] \in Trying
         /\ At(h, "passed") => handler[h] \in Passed
         /\ At(h, "failed") => handler[h] \in Refused
         /\ handler[h].pc \in {"bind", "consent", "issue"} => handler[h] \in Verified
         /\ At(h, "exchange") => handler[h] \in Calling
<1>1. handler[h] \in HandlerRow
  BY DEF LoginType
<1> QED BY <1>1 DEF HandlerRow, Waiting, Trying, Passed, Refused, Verified, Calling, At

(* A request moves to another stage, neither to the exchange nor to the    *)
(* issue of a code, and the rows that the promises speak of stay.          *)
LEMMA HandlerMoves ==
  ASSUME FInv, NEW h \in Handler, NEW q \in HandlerRow, Goes(h, q),
         UNCHANGED <<now, rows>>,
         q.pc # "exchange", q.pc = "issue" => consent = "accepted",
         q.pc \in {"password", "failed"} => throttle.until <= q.at \/ PastLock(h)
  PROVE  FInv'
<1>1. handler' = [handler EXCEPT ![h] = q] /\ handler \in [Handler -> HandlerRow]
  BY DEF Goes, FInv, LoginType
<1>2. UNCHANGED <<now, credential, throttle, consent, ask, code, flow, granted>>
  BY DEF rows
<1>3. \A g \in Handler : handler'[g] = IF g = h THEN q ELSE handler[g]
  BY <1>1
<1>4. LoginType'
  BY <1>1, <1>2 DEF FInv, LoginType
<1>5. FlowInv'
  BY <1>2, <1>3 DEF FInv, FlowInv, At
<1>6. CodeInv'
  BY <1>2, <1>3 DEF FInv, CodeInv, At
<1>7. LockInv'
  <2>1. PICK g \in Handler : ~PastLock(g)
    BY DEF FInv, LockInv
  <2>2. throttle.until \in Nat
    BY DEF FInv, LoginType, Throttle
  <2>3. q.pc \in {"password", "failed"} => q.at \in Nat
    BY DEF HandlerRow, Waiting, Trying, Passed, Refused, Verified, Calling
  <2>4. ~PastLock(g)'
    BY <1>2, <1>3, <2>1, <2>2, <2>3 DEF PastLock
  <2> QED BY <1>2, <2>4 DEF FInv, LockInv
<1> QED BY <1>4, <1>5, <1>6, <1>7 DEF FInv

(* The request ends, with the rows of the throttle, the requests or the    *)
(* credential changed.                                                     *)
LEMMA WaitingRow == Waiting \in HandlerRow /\ Waiting.pc = "idle"
BY DEF HandlerRow, Waiting

(* Steps of a request that change no row.                                  *)
LEMMA ReadSteps ==
  ASSUME FInv, NEW h \in Handler,
         \/ \E l \in Login, s \in {0, credential.secret} : SubmitPassword(h, l, s)
         \/ \E l \in Login : SubmitCode(h, l)
         \/ CheckThrottle(h) \/ AuthenticateUserPassword(h) \/ ReadConsent(h) \/ Drop(h)
  PROVE  FInv'
<1>0. LoginType /\ now \in Nat /\ throttle.until \in Nat /\ \A l \in Login : ask[l].csrf \in Nat
  BY DEF FInv, LoginType, Throttle, AskRow
<1>1. ASSUME NEW l \in Login, NEW s \in {0, credential.secret}, SubmitPassword(h, l, s) PROVE FInv'
  <2> DEFINE q == [pc |-> "throttle", login |-> l, csrf |-> ask[l].csrf, secret |-> s, at |-> now]
  <2>1. s \in Nat
    BY <1>0 DEF LoginType, Credential
  <2>2. q \in HandlerRow /\ q.pc = "throttle"
    BY <1>0, <2>1 DEF HandlerRow, Trying
  <2>3. Goes(h, q) /\ UNCHANGED <<now, rows>>
    BY <1>1 DEF SubmitPassword
  <2> HIDE DEF q
  <2> QED BY <2>2, <2>3, HandlerMoves
<1>2. ASSUME NEW l \in Login, SubmitCode(h, l) PROVE FInv'
  <2> DEFINE q == [pc |-> "passed", login |-> l, csrf |-> ask[l].csrf, must |-> FALSE]
  <2>2. q \in HandlerRow /\ q.pc = "passed"
    BY <1>0 DEF HandlerRow, Passed
  <2>3. Goes(h, q) /\ UNCHANGED <<now, rows>>
    BY <1>2 DEF SubmitCode
  <2> HIDE DEF q
  <2> QED BY <2>2, <2>3, HandlerMoves
<1>3. ASSUME Done(h), UNCHANGED <<now, rows>> PROVE FInv'
  BY <1>3, WaitingRow, HandlerMoves DEF Done
<1>4. CASE CheckThrottle(h)
  <2>1. handler[h] \in Trying /\ UNCHANGED <<now, rows>>
    BY <1>0, <1>4, HandlerStages DEF CheckThrottle, At
  <2>2. CASE throttle.until > handler[h].at
    BY <1>3, <1>4, <2>1, <2>2 DEF CheckThrottle
  <2>3. CASE ~(throttle.until > handler[h].at)
    <3> DEFINE q == [handler[h] EXCEPT !.pc = "password"]
    <3>1. q \in Trying /\ q.pc = "password" /\ q.at = handler[h].at /\ handler[h].at \in Nat
      BY <2>1 DEF Trying
    <3>2. Goes(h, q)
      BY <1>4, <2>3 DEF CheckThrottle, Step
    <3> HIDE DEF q
    <3>3. throttle.until <= q.at /\ q \in HandlerRow
      BY <1>0, <2>3, <3>1 DEF HandlerRow
    <3> QED BY <2>1, <3>1, <3>2, <3>3, HandlerMoves
  <2> QED BY <2>2, <2>3
<1>5. CASE AuthenticateUserPassword(h)
  <2>1. handler[h] \in Trying /\ UNCHANGED <<now, rows>> /\ At(h, "password")
    BY <1>0, <1>5, HandlerStages DEF AuthenticateUserPassword, At
  <2> DEFINE q == [pc |-> "passed", login |-> handler[h].login, csrf |-> handler[h].csrf,
                   must |-> credential.temporary > 0]
             f == [pc |-> "failed", at |-> handler[h].at]
  <2>2. Goes(h, q) \/ Goes(h, f)
    BY <1>5 DEF AuthenticateUserPassword
  <2>3. /\ handler[h].login \in Login /\ handler[h].csrf \in Nat /\ handler[h].at \in Nat
        /\ (credential.temporary > 0) \in BOOLEAN
    BY <1>0, <2>1 DEF Trying, LoginType, Credential
  <2>4. q \in HandlerRow /\ q.pc = "passed"
    BY <2>3 DEF HandlerRow, Passed
  <2>5. f \in HandlerRow /\ f.pc = "failed" /\ f.at = handler[h].at
    BY <2>3 DEF HandlerRow, Refused
  <2>6. throttle.until <= f.at \/ PastLock(h)
    BY <1>0, <2>1, <2>3, <2>5 DEF PastLock, At
  <2> HIDE DEF q, f
  <2> QED BY <2>1, <2>2, <2>4, <2>5, <2>6, HandlerMoves
<1>6. CASE ReadConsent(h)
  <2>1. handler[h] \in Verified /\ UNCHANGED <<now, rows>>
    BY <1>0, <1>6, HandlerStages DEF ReadConsent, At
  <2> DEFINE pc == IF PrivacyConsentSatisfies THEN "issue" ELSE "bind"
             q == [handler[h] EXCEPT !.pc = pc]
  <2>2. q \in Verified /\ q.pc = pc
    BY <2>1 DEF Verified
  <2>3. Goes(h, q)
    BY <1>6 DEF ReadConsent, Step
  <2>4. pc \in {"issue", "bind"} /\ (pc = "issue" => consent = "accepted")
    BY DEF PrivacyConsentSatisfies
  <2> HIDE DEF q, pc
  <2> QED BY <2>1, <2>2, <2>3, <2>4, HandlerMoves DEF HandlerRow
<1>7. CASE Drop(h)
  BY <1>3, <1>7 DEF Drop
<1> QED BY <1>1, <1>2, <1>4, <1>5, <1>6, <1>7

(* The throttle's row after a failure.                                     *)
LEMMA FailedRow ==
  ASSUME throttle \in Throttle, throttle.count >= MaxFailures => throttle.until > 0, NEW at \in Nat
  PROVE  /\ Failed(throttle, at) \in Throttle
         /\ Failed(throttle, at).count >= MaxFailures => Failed(throttle, at).until > 0
<1>1. /\ throttle.count \in Nat /\ throttle.since \in Nat /\ throttle.until \in Nat
      /\ Lockout \in Nat \ {0} /\ MaxFailures \in Nat /\ MaxFailures >= 3 /\ Window \in Nat
  BY LoginAssumption DEF Throttle
<1> QED BY <1>1 DEF Failed, Throttle

(* The throttle moves: by a failure, whose request then waits for nothing, *)
(* or by a success, which lifts the lock.                                  *)
LEMMA ThrottleSteps ==
  ASSUME FInv, NEW h \in Handler,
         recordFirstPartyLoginFailure(h) \/ recordFirstPartyLoginSuccess(h)
  PROVE  FInv'
<1>0. LoginType /\ UNCHANGED <<now, credential, consent, ask, code, flow, granted>>
  BY DEF FInv, recordFirstPartyLoginFailure, recordFirstPartyLoginSuccess
<1>1. ASSUME NEW q \in HandlerRow, Goes(h, q), q.pc \notin {"exchange", "issue"}, throttle' \in Throttle
      PROVE  LoginType' /\ FlowInv' /\ CodeInv' /\ \A g \in Handler : handler'[g] = IF g = h THEN q ELSE handler[g]
  <2>1. handler' = [handler EXCEPT ![h] = q] /\ handler \in [Handler -> HandlerRow]
    BY <1>0, <1>1 DEF Goes, LoginType
  <2>2. \A g \in Handler : handler'[g] = IF g = h THEN q ELSE handler[g]
    BY <2>1
  <2>3. LoginType'
    BY <1>0, <1>1, <2>1 DEF LoginType
  <2>4. FlowInv'
    BY <1>0, <1>1, <2>2 DEF FInv, FlowInv, At
  <2>5. CodeInv'
    BY <1>0, <1>1, <2>2 DEF FInv, CodeInv, At
  <2> QED BY <2>2, <2>3, <2>4, <2>5
<1>2. CASE recordFirstPartyLoginFailure(h)
  <2>1. handler[h].at \in Nat /\ throttle' = Failed(throttle, handler[h].at) /\ Goes(h, Waiting)
    BY <1>0, <1>2, HandlerStages DEF recordFirstPartyLoginFailure, Refused, Done
  <2>2. throttle' \in Throttle /\ (throttle'.count >= MaxFailures => throttle'.until > 0)
    BY <2>1, FailedRow DEF FInv, LoginType, LockInv
  <2>3. LoginType' /\ FlowInv' /\ CodeInv' /\ handler'[h] = Waiting
    BY <1>1, <2>1, <2>2, WaitingRow
  <2>4. ~PastLock(h)'
    BY <2>3 DEF PastLock, Waiting
  <2> QED BY <2>2, <2>3, <2>4 DEF FInv, LockInv
<1>3. CASE recordFirstPartyLoginSuccess(h)
  <2> DEFINE q == [pc |-> IF handler[h].must THEN "bind" ELSE "consent",
                   login |-> handler[h].login, csrf |-> handler[h].csrf]
  <2>1. handler[h].login \in Login /\ handler[h].csrf \in Nat
    BY <1>0, <1>3, HandlerStages DEF recordFirstPartyLoginSuccess, Passed
  <2>2. q \in HandlerRow /\ q.pc \in {"bind", "consent"}
    BY <2>1 DEF HandlerRow, Verified
  <2>3. Goes(h, q) /\ throttle' = NoThrottle
    BY <1>3 DEF recordFirstPartyLoginSuccess
  <2>4. throttle' \in Throttle /\ throttle'.count = 0 /\ throttle'.until = 0
    BY <2>3 DEF NoThrottle, Throttle
  <2> HIDE DEF q
  <2>5. LoginType' /\ FlowInv' /\ CodeInv' /\ handler'[h] = q
    BY <1>1, <2>2, <2>3, <2>4
  <2>6. ~PastLock(h)'
    BY <2>2, <2>5 DEF PastLock
  <2>7. MaxFailures \in Nat /\ MaxFailures >= 3
    BY LoginAssumption
  <2> QED BY <2>4, <2>5, <2>6, <2>7 DEF FInv, LockInv
<1> QED BY <1>2, <1>3

(* The lock while the throttle stays and no request begins to compare.     *)
LEMMA LockStays ==
  ASSUME FInv, throttle' = throttle,
         \A g \in Handler : handler'[g] = handler[g] \/ handler'[g].pc \notin {"password", "failed"}
  PROVE  LockInv'
<1>1. PICK g \in Handler : ~PastLock(g)
  BY DEF FInv, LockInv
<1>2. ~PastLock(g)'
  BY <1>1 DEF PastLock
<1> QED BY <1>2 DEF FInv, LockInv

(* Requests for authorization and their codes.                             *)
LEMMA AskSteps ==
  ASSUME FInv,
         \/ \E h \in Handler : BindFirstPartyAuthorizationIdentity(h) \/ IssueFirstPartyAuthorizationCode(h)
         \/ \E l \in Login : \/ CreateFirstPartyAuthorizationRequest(l)
                             \/ RefreshFirstPartyConsentCSRF(l)
                             \/ ClearFirstPartyAuthorizationIdentity(l)
                             \/ AcceptPrivacyConsentAndIssueAuthorizationCode(l)
  PROVE  FInv'
<1>0. /\ LoginType /\ UNCHANGED <<now, credential, throttle, flow, granted>>
      /\ now \in Nat /\ LoginTTL \in Nat /\ AuthCodeTTL \in Nat
  <2>1. UNCHANGED <<now, credential, throttle, flow, granted>>
    BY DEF BindFirstPartyAuthorizationIdentity, IssueFirstPartyAuthorizationCode,
       CreateFirstPartyAuthorizationRequest, RefreshFirstPartyConsentCSRF,
       ClearFirstPartyAuthorizationIdentity, AcceptPrivacyConsentAndIssueAuthorizationCode
  <2>2. LoginType /\ now \in Nat
    BY LoginAssumption DEF FInv, LoginType
  <2>3. LoginTTL \in Nat /\ AuthCodeTTL \in Nat
    BY LoginAssumption
  <2> QED BY <2>1, <2>2, <2>3
<1>1. ASSUME handler' \in [Handler -> HandlerRow],
             \A g \in Handler : handler'[g] = handler[g] \/ handler'[g] = Waiting,
             consent' \in {"none", "accepted"}, consent = "accepted" => consent' = "accepted",
             ask' \in [Login -> AskRow], code' \in [Login -> CodeRow],
             \A l \in Login : \/ code'[l] = code[l] /\ (ask[l].state = "spent" => ask'[l].state = "spent")
                              \/ consent' = "accepted" /\ ask'[l].state = "spent"
      PROVE  FInv'
  <2>1. LoginType'
    BY <1>0, <1>1 DEF LoginType
  <2>0. \A g \in Handler : handler'[g] = handler[g] \/ handler'[g].pc = "idle"
    BY <1>1, WaitingRow
  <2>2. FlowInv'
    BY <1>0, <2>0 DEF FInv, FlowInv, At
  <2>3. CodeInv'
    BY <1>1, <2>0 DEF FInv, CodeInv, At
  <2>4. LockInv'
    BY <1>0, <2>0, LockStays
  <2> QED BY <2>1, <2>2, <2>3, <2>4 DEF FInv
<1>2. ask \in [Login -> AskRow] /\ code \in [Login -> CodeRow] /\ handler \in [Handler -> HandlerRow]
      /\ consent \in {"none", "accepted"}
  BY <1>0 DEF LoginType
<1>3. ASSUME NEW l \in Login, CodeFor(l), consent' = "accepted", handler' \in [Handler -> HandlerRow],
             \A g \in Handler : handler'[g] = handler[g] \/ handler'[g] = Waiting
      PROVE  FInv'
  <2>1. SpentRequest \in AskRow /\ SpentRequest.state = "spent"
    BY DEF SpentRequest, AskRow
  <2>2. [state |-> "issued", expires |-> now + AuthCodeTTL] \in CodeRow
    BY <1>0 DEF CodeRow
  <2>3. ask' \in [Login -> AskRow] /\ code' \in [Login -> CodeRow]
    BY <1>2, <1>3, <2>1, <2>2 DEF CodeFor
  <2>4. \A x \in Login : \/ code'[x] = code[x] /\ ask'[x] = ask[x]
                         \/ ask'[x].state = "spent"
    BY <1>2, <1>3, <2>1 DEF CodeFor
  <2> QED BY <1>1, <1>3, <2>3, <2>4
<1>4. ASSUME NEW h \in Handler, Done(h)
      PROVE  /\ handler' \in [Handler -> HandlerRow]
             /\ \A g \in Handler : handler'[g] = handler[g] \/ handler'[g] = Waiting
  BY <1>2, <1>4, WaitingRow DEF Done, Goes
<1>5. ASSUME NEW l \in Login, NEW row \in AskRow, ask' = [ask EXCEPT ![l] = row], ask[l].state # "spent",
             UNCHANGED <<code, consent>>, handler' \in [Handler -> HandlerRow],
             \A g \in Handler : handler'[g] = handler[g] \/ handler'[g] = Waiting
      PROVE  FInv'
  <2>1. ask' \in [Login -> AskRow] /\ \A x \in Login : ask[x].state = "spent" => ask'[x].state = "spent"
    BY <1>2, <1>5
  <2> QED BY <1>1, <1>2, <1>5, <2>1
<1>6. ASSUME NEW h \in Handler, BindFirstPartyAuthorizationIdentity(h) PROVE FInv'
  <2> DEFINE l == handler[h].login
  <2>1. l \in Login /\ Done(h) /\ UNCHANGED <<code, consent>>
    BY <1>0, <1>6, HandlerStages DEF BindFirstPartyAuthorizationIdentity, At, Verified
  <2>2. CASE Shown(h)
    <3>1. ask' = [ask EXCEPT ![l] = [ask[l] EXCEPT !.state = "bound"]] /\ ask[l].state # "spent"
      BY <1>6, <2>2 DEF BindFirstPartyAuthorizationIdentity, Shown, Open
    <3>2. [ask[l] EXCEPT !.state = "bound"] \in AskRow
      BY <1>2, <2>1 DEF AskRow
    <3> QED BY <1>4, <1>5, <2>1, <3>1, <3>2
  <2>3. CASE ~Shown(h)
    BY <1>1, <1>2, <1>4, <1>6, <2>1, <2>3 DEF BindFirstPartyAuthorizationIdentity
  <2> QED BY <2>2, <2>3
<1>7. ASSUME NEW h \in Handler, IssueFirstPartyAuthorizationCode(h) PROVE FInv'
  <2>1. /\ handler[h].login \in Login /\ Done(h) /\ consent = "accepted" /\ consent' = consent
    BY <1>0, <1>7, HandlerStages DEF IssueFirstPartyAuthorizationCode, At, Verified, FInv, CodeInv
  <2>2. CASE Shown(h)
    BY <1>3, <1>4, <1>7, <2>1, <2>2 DEF IssueFirstPartyAuthorizationCode
  <2>3. CASE ~Shown(h)
    BY <1>1, <1>2, <1>4, <1>7, <2>1, <2>3 DEF IssueFirstPartyAuthorizationCode
  <2> QED BY <2>2, <2>3
<1>8. ASSUME NEW l \in Login, CreateFirstPartyAuthorizationRequest(l) PROVE FInv'
  <2>1. [state |-> "open", csrf |-> 1, expires |-> now + LoginTTL] \in AskRow
    BY <1>0 DEF AskRow
  <2> QED BY <1>2, <1>5, <1>8, <2>1 DEF CreateFirstPartyAuthorizationRequest
<1>9. ASSUME NEW l \in Login, RefreshFirstPartyConsentCSRF(l) PROVE FInv'
  <2>1. /\ ask' = [ask EXCEPT ![l] = [ask[l] EXCEPT !.csrf = @ + 1]] /\ ask[l].state # "spent"
        /\ UNCHANGED <<code, consent, handler>>
    BY <1>9 DEF RefreshFirstPartyConsentCSRF
  <2>2. [ask[l] EXCEPT !.csrf = @ + 1] \in AskRow
    BY <1>2 DEF AskRow
  <2> QED BY <1>2, <1>5, <2>1, <2>2
<1>10. ASSUME NEW l \in Login, ClearFirstPartyAuthorizationIdentity(l) PROVE FInv'
  <2>1. /\ ask' = [ask EXCEPT ![l] = [ask[l] EXCEPT !.state = "open"]] /\ ask[l].state # "spent"
        /\ UNCHANGED <<code, consent, handler>>
    BY <1>10 DEF ClearFirstPartyAuthorizationIdentity, Open
  <2>2. [ask[l] EXCEPT !.state = "open"] \in AskRow
    BY <1>2 DEF AskRow
  <2> QED BY <1>2, <1>5, <2>1, <2>2
<1>11. ASSUME NEW l \in Login, AcceptPrivacyConsentAndIssueAuthorizationCode(l) PROVE FInv'
  BY <1>2, <1>3, <1>11 DEF AcceptPrivacyConsentAndIssueAuthorizationCode
<1> QED BY <1>6, <1>7, <1>8, <1>9, <1>10, <1>11

(* The account's password.                                                 *)
LEMMA PasswordSteps ==
  ASSUME FInv,
         \/ ReplacePassword \/ DisableUserPassword
         \/ \E h \in Handler, l \in Login : CompleteInitialPasswordActivationForLogin(h, l)
  PROVE  FInv'
<1>0. /\ LoginType /\ UNCHANGED <<now, throttle, consent, ask, code, flow, granted>>
      /\ handler \in [Handler -> HandlerRow]
  BY DEF FInv, LoginType, ReplacePassword, DisableUserPassword, CompleteInitialPasswordActivationForLogin
<1>1. /\ credential \in Credential /\ credential.secret \in 1..MaxSecret /\ MaxSecret \in Nat
  BY <1>0, LoginAssumption DEF LoginType, Credential
<1>2. ASSUME credential.secret < MaxSecret
      PROVE  /\ setUserPassword(credential) \in Credential
             /\ [setUserPassword(credential) EXCEPT !.pending = 0] \in Credential
  <2>1. credential.secret + 1 \in 1..MaxSecret
    BY <1>1, <1>2
  <2>2. \A s \in 1..MaxSecret :
          [credential EXCEPT !.secret = s, !.disabled = FALSE, !.temporary = 0] \in Credential
    BY <1>1 DEF Credential
  <2>3. setUserPassword(credential) \in Credential
    <3>1. setUserPassword(credential) =
            [credential EXCEPT !.secret = credential.secret + 1, !.disabled = FALSE, !.temporary = 0]
      BY DEF setUserPassword
    <3> QED BY <2>1, <2>2, <3>1, Zenon
  <2>4. \A c \in Credential : [c EXCEPT !.pending = 0] \in Credential
    BY DEF Credential
  <2> QED BY <2>3, <2>4
<1>3. credential' \in Credential
  <2>1. DisableUserPassword => credential' \in Credential
    BY <1>1 DEF DisableUserPassword, Credential
  <2> QED BY <1>2, <2>1 DEF ReplacePassword, CompleteInitialPasswordActivationForLogin
<1>4. /\ handler' \in [Handler -> HandlerRow]
      /\ \A g \in Handler : handler'[g] = handler[g] \/ handler'[g].pc = "consent"
  <2>1. ASSUME NEW h \in Handler, NEW l \in Login, CompleteInitialPasswordActivationForLogin(h, l)
        PROVE  /\ handler' \in [Handler -> HandlerRow]
               /\ \A g \in Handler : handler'[g] = handler[g] \/ handler'[g].pc = "consent"
    <3> DEFINE q == [pc |-> "consent", login |-> l, csrf |-> ask[l].csrf]
    <3>1. q \in HandlerRow /\ q.pc = "consent"
      BY <1>0 DEF LoginType, AskRow, HandlerRow, Verified
    <3>2. handler' = [handler EXCEPT ![h] = q]
      BY <2>1 DEF CompleteInitialPasswordActivationForLogin, Goes
    <3> HIDE DEF q
    <3> QED BY <1>0, <3>1, <3>2
  <2> QED BY <1>0, <2>1 DEF ReplacePassword, DisableUserPassword
<1>5. LoginType'
  BY <1>0, <1>3, <1>4 DEF LoginType
<1>6. FlowInv' /\ CodeInv'
  BY <1>0, <1>4 DEF FInv, FlowInv, CodeInv, At
<1>7. LockInv'
  BY <1>0, <1>4, LockStays
<1> QED BY <1>5, <1>6, <1>7 DEF FInv

(* The callback consumes the flow before it redeems a code.                *)
LEMMA CallbackSteps ==
  ASSUME FInv, NEW h \in Handler,
         (\E l \in Login : ConsumeWebLoginFlow(h, l)) \/ ConsumeFirstPartyAuthorizationCode(h)
  PROVE  FInv'
<1>0. /\ LoginType /\ handler \in [Handler -> HandlerRow] /\ code \in [Login -> CodeRow]
      /\ UNCHANGED <<now, credential, throttle, consent, ask>> /\ granted \in Nat
  BY DEF FInv, LoginType, ConsumeWebLoginFlow, ConsumeFirstPartyAuthorizationCode
<1>1. ASSUME NEW l \in Login, ConsumeWebLoginFlow(h, l) PROVE FInv'
  <2> DEFINE q == [pc |-> "exchange", login |-> l]
  <2>1. q \in HandlerRow /\ q.pc = "exchange"
    BY DEF HandlerRow, Calling
  <2>2. handler' = [handler EXCEPT ![h] = q] /\ flow # 0 /\ flow' = 0 /\ UNCHANGED <<code, granted>>
    <3>1. now \in Nat /\ flow \in Nat
      BY <1>0 DEF LoginType
    <3>2. handler' = [handler EXCEPT ![h] = q] /\ flow > now /\ flow' = 0 /\ UNCHANGED <<code, granted>>
      BY <1>1 DEF ConsumeWebLoginFlow, Goes
    <3> QED BY <3>1, <3>2
  <2> HIDE DEF q
  <2>3. \A g \in Handler : handler'[g] = IF g = h THEN q ELSE handler[g]
    BY <1>0, <2>2
  <2>4. LoginType'
    BY <1>0, <2>1, <2>2 DEF LoginType
  <2>5. FlowInv'
    BY <2>1, <2>2, <2>3 DEF FInv, FlowInv, At
  <2>6. CodeInv'
    BY <1>0, <2>1, <2>2, <2>3 DEF FInv, CodeInv, At
  <2>7. LockInv'
    BY <1>0, <2>1, <2>3, LockStays
  <2> QED BY <2>4, <2>5, <2>6, <2>7 DEF FInv
<1>2. CASE ConsumeFirstPartyAuthorizationCode(h)
  <2>1. /\ handler[h].login \in Login /\ At(h, "exchange") /\ flow' = flow
        /\ handler' = [handler EXCEPT ![h] = Waiting]
        /\ \/ code' = [code EXCEPT ![handler[h].login] = UsedCode] /\ granted' = granted + 1
              /\ code[handler[h].login].state = "issued"
           \/ UNCHANGED <<code, granted>>
    BY <1>0, <1>2, HandlerStages DEF ConsumeFirstPartyAuthorizationCode, Calling, Done, Goes
  <2>2. \A g \in Handler : handler'[g] = IF g = h THEN Waiting ELSE handler[g]
    BY <1>0, <2>1
  <2>3. flow = 0 /\ granted = 0 /\ \A g \in Handler : g # h => ~At(g, "exchange")
    BY <1>0, <2>1 DEF FInv, FlowInv
  <2>4. UsedCode \in CodeRow
    BY DEF UsedCode, CodeRow
  <2>5. LoginType'
    BY <1>0, <2>1, <2>4, WaitingRow DEF LoginType
  <2>6. FlowInv'
    BY <2>1, <2>2, <2>3 DEF FlowInv, At, Waiting
  <2>7. CodeInv'
    BY <1>0, <2>1, <2>2 DEF FInv, CodeInv, At, Waiting
  <2>8. LockInv'
    BY <1>0, <2>2, WaitingRow, LockStays
  <2> QED BY <2>5, <2>6, <2>7, <2>8 DEF FInv
<1> QED BY <1>1, <1>2

(* The inductive invariant holds in every reachable state, for any number  *)
(* of authorization requests and of HTTP requests under way.               *)
THEOREM LoginInvariance == LoginSpec => []FInv
<1>1. LoginInit => FInv
  <2> SUFFICES ASSUME LoginInit PROVE FInv
    OBVIOUS
  <2>1. LoginType
    <3>1. /\ InitialTTL \in Nat /\ FlowTTL \in Nat /\ MaxSecret \in Nat \ {0} /\ Horizon \in Nat \ {0}
      BY LoginAssumption
    <3>2. credential \in Credential
      <4>1. 1 \in 1..MaxSecret /\ 1 + InitialTTL \in Nat
        BY <3>1
      <4>2. \A s \in 1..MaxSecret, n \in Nat :
              [secret |-> s, disabled |-> FALSE, temporary |-> n, pending |-> n] \in Credential
        BY DEF Credential
      <4> QED BY <4>1, <4>2 DEF LoginInit, InitialCredential
    <3>3. NoThrottle \in Throttle /\ NoRequest \in AskRow /\ NoCode \in CodeRow
      BY DEF NoThrottle, Throttle, NoRequest, AskRow, NoCode, CodeRow
    <3> QED BY <3>1, <3>2, <3>3, WaitingRow DEF LoginInit, LoginType
  <2>2. FlowInv /\ CodeInv
    BY DEF LoginInit, FlowInv, CodeInv, At, Waiting, NoCode
  <2>3. LockInv
    BY LoginAssumption DEF LoginInit, LockInv, PastLock, Waiting, NoThrottle
  <2> QED BY <2>1, <2>2, <2>3 DEF FInv
<1>2. FInv /\ [LoginNext]_loginVars => FInv'
  <2> SUFFICES ASSUME FInv, [LoginNext]_loginVars PROVE FInv'
    OBVIOUS
  <2>1. ASSUME NEW h \in Handler, Handle(h) PROVE FInv'
    BY <2>1, ReadSteps, ThrottleSteps, AskSteps, PasswordSteps, CallbackSteps DEF Handle
  <2>2. CASE LoginTick \/ UNCHANGED loginVars
    <3>1. UNCHANGED <<credential, throttle, consent, ask, code, flow, granted, handler>>
      BY <2>2 DEF LoginTick, loginVars, rows
    <3>2. now' \in 1..Horizon
      <4>1. now \in 1..Horizon /\ Horizon \in Nat
        BY LoginAssumption DEF FInv, LoginType
      <4> QED BY <2>2, <4>1 DEF LoginTick, loginVars
    <3>3. LoginType'
      BY <3>1, <3>2 DEF FInv, LoginType
    <3>4. LockInv'
      BY <3>1, LockStays
    <3>5. FlowInv' /\ CodeInv'
      BY <3>1 DEF FInv, FlowInv, CodeInv, At
    <3> QED BY <3>3, <3>4, <3>5 DEF FInv
  <2> QED BY <2>1, <2>2, AskSteps, PasswordSteps DEF LoginNext
<1> QED BY <1>1, <1>2, PTL DEF LoginSpec

(* The promises of the login hold in every reachable state: the lock at the *)
(* limit of failures, one identity per flow, consent before a code         *)
(* (FirstPartyLogin: recordFirstPartyLoginFailure, ConsumeWebLoginFlow,    *)
(* AcceptPrivacyConsentAndIssueAuthorizationCode).                         *)
THEOREM LoginSafe == LoginSpec => []LoginInv
<1>1. FInv => LoginInv
  <2> SUFFICES ASSUME FInv PROVE LoginInv
    OBVIOUS
  <2>2. LockedAtLimit
    BY DEF FInv, LockInv, PastLock, LockedAtLimit
  <2>3. OneGrantPerFlow /\ ConsentFirst
    BY DEF FInv, FlowInv, CodeInv, OneGrantPerFlow, ConsentFirst
  <2>4. ASSUME NEW l \in Login
        PROVE  /\ ask[l].state \in {"none", "open", "bound", "spent"}
               /\ code[l].state \in {"none", "issued", "used"}
               /\ code[l].state # "none" => ask[l].state = "spent"
    BY DEF FInv, LoginType, AskRow, CodeRow, CodeInv
  <2> QED BY <2>2, <2>3, <2>4 DEF FInv, LoginType, LoginInv, Credential, Throttle
<1> QED BY <1>1, LoginInvariance, PTL
=============================================================================
