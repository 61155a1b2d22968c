------------------------- MODULE EntitlementSnapshot -------------------------
(***************************************************************************)
(* Versioned entitlement snapshots of one tenant and the guard that admits *)
(* its business operations: the sources and their version, the catalogue   *)
(* and its epoch, the snapshot head with the newest snapshot row, and      *)
(* requests in flight.                                                     *)
(*                                                                         *)
(* A request is prepared (its own short transaction), then executes in a   *)
(* writable root, where the check joins the root and its locks (the        *)
(* catalogue shared, the tenant's state row exclusively) last to the       *)
(* commit, or in a read-only root, where it reads the committed tables at  *)
(* the root's read view.  An action that needs a lock is enabled when the  *)
(* lock is free; a transaction that ends in one step takes and gives back  *)
(* its locks in that step.                                                 *)
(*                                                                         *)
(* The snapshot cache is left out: it is addressed by version and digest,  *)
(* and a cached row is used only when it decodes as the stored one would.  *)
(***************************************************************************)
EXTENDS EntitlementResolve

CONSTANTS
  Request,      \* root requests
  ReadRequest,  \* those whose operation declares a read-only root
  Required,     \* [Request -> set of capability codes the operation requires]
  Offer,        \* overrides the platform may create, each under a request id
  InitialCatalogs, InitialSources, \* the module rows and sources there may be at first
  Registry,     \* sets of modules the deployed binary implements
  ClockOffset,  \* how far the application clock may be from the database's
  MaxVersion,   \* bound on source changes
  MaxMoves,     \* bound on catalogue commands and deployments together
  Horizon       \* bound on the clock

(* Kinds and effects of a source. *)
Kind == {"module", "capability", "quota", "field"}
Effect == {"grant", "deny", "safety_deny", "safety_mask", "quota_add", "quota_replace"}

(* A row of the source table; an override is asked for as an offer.        *)
Source ==
  [module : Module, kind : Kind, key : Module \cup Code, effect : Effect, limit : Int,
   source : {"plan", "addon", "override"}, id : STRING, from : Int, until : Int, revoked : Int]

(* What the tables may hold at first: sources that ValidateAppend let in.  *)
ASSUME SnapshotAssumption ==
  /\ {Never, Horizon, MaxMoves} \subseteq Nat /\ Never > Horizon + 1
  /\ ClockOffset \subseteq Int
  /\ InitialCatalogs \subseteq SUBSET Module /\ Registry \subseteq SUBSET Module
  /\ Offer \subseteq [id : STRING, module : Module, kind : Kind, key : Module \cup Code,
                     effect : Effect, limit : Int, from : Int, until : Int]
  /\ InitialSources \subseteq Source
  /\ \A s \in InitialSources :
       /\ s.from < s.until
       /\ \A modules \in InitialCatalogs : Validate(s, [m \in modules |-> "ready"])
  /\ \A s, x \in InitialSources :
       s # x /\ Replaces(s) /\ Replaces(x) /\ s.module = x.module => ~Overlap(s, x)

VARIABLES
  now, deploys, implemented,
  catalog, retired, epoch,     \* module rows, retired codes, catalogue singleton
  sources, version,            \* the tenant's sources and state row
  head, latest,                \* snapshot head and newest snapshot row
  draft,                       \* the override creation in flight
  request

tables == <<catalog, retired, epoch>>
rights == <<sources, version>>
vars == <<now, deploys, implemented, tables, rights, head, latest, draft, request>>

NoRow == [version |-> 0]
NoDraft == [offer |-> "none"]
Idle == [pc |-> "idle"]

Init ==
  /\ now = 0 /\ deploys = 0 /\ implemented = Module
  /\ \E modules \in InitialCatalogs : catalog = [m \in modules |-> "ready"]
  /\ retired = {} /\ epoch = 1
  /\ sources = InitialSources /\ version = 1
  /\ head = NoRow /\ latest = NoRow
  /\ draft = NoDraft
  /\ request = [r \in Request |-> Idle]

-----------------------------------------------------------------------------
(* ReadSnapshotCatalog: what the binary does not implement is not ready.   *)
Projected ==
  [m \in DOMAIN catalog |-> IF m \in implemented THEN catalog[m] ELSE "not_ready"]

Inputs == <<Projected, sources>>

(* The faulty variant ignores transactions in flight.                      *)
NobodyWaits == TRUE

(* The locks of a joined check are held by the root until it ends.         *)
LocksFree == \A r \in Request : request[r].pc # "executing"

(* ValidAt of the snapshot domain *)
ValidAt(row, at) == row.evaluatedAt <= at /\ at < row.validUntil

(* The head is reused while its stamps and its inputs are the current ones *)
(* and its row is still valid.                                             *)
HeadUsable(at) ==
  /\ head # NoRow /\ ~head.invalidated
  /\ head.sourceVersion = version /\ head.epoch = epoch /\ head.inputs = Inputs
  /\ ValidAt(latest, at)

(* What locked() calls ErrStateLost *)
StateLost ==
  \/ (head = NoRow) # (latest = NoRow)
  \/ head # NoRow /\ (head.version # latest.version \/ version < head.sourceVersion \/ epoch < head.epoch)

(* locked(): the pair of rows after the call; it fails when the authority  *)
(* is lost, or a source does not fit the catalogue.                        *)
LockedFails == StateLost \/ \E s \in sources : ~Validate(s, Projected)

(* A new version: a snapshot row, and the head that names it. *)
Fresh ==
  [head |-> [version |-> head.version + 1, sourceVersion |-> version, epoch |-> epoch,
             inputs |-> Inputs, invalidated |-> FALSE],
   latest |-> [version |-> head.version + 1, sourceVersion |-> version, epoch |-> epoch,
               evaluatedAt |-> now, validUntil |-> NextTransition(now, sources),
               result |-> Resolve(now, Projected, sources)]]

Locked == IF HeadUsable(now) THEN [head |-> head, latest |-> latest] ELSE Fresh

(* Guard.check on a result *)
Allows(result, r) ==
  \A c \in Required[r] : c \in DOMAIN result.capability /\ result.capability[c] = "ALLOWED"

-----------------------------------------------------------------------------
(* Guard.Prepare: the check before the root, in a transaction of its own.  *)
Prepare(r) ==
  LET rows == Locked
  IN  /\ request[r] = Idle /\ LocksFree
      /\ ~LockedFails
      /\ head' = rows.head /\ latest' = rows.latest
      /\ request' = [request EXCEPT ![r] =
           IF Allows(rows.latest.result, r)
           THEN [pc |-> "prepared", at |-> now, version |-> version, epoch |-> epoch] ELSE Idle]
      /\ UNCHANGED <<now, deploys, implemented, tables, rights, draft>>

(* RequireExecuted in a writable root.  The rows written are the root's    *)
(* until it commits; a refusal rolls the root back.                        *)
RequireExecuted(r) ==
  LET rows == Locked
  IN  /\ request[r].pc = "prepared" /\ r \notin ReadRequest /\ LocksFree
      /\ request' = [request EXCEPT ![r] =
           IF ~LockedFails /\ Allows(rows.latest.result, r)
           THEN [pc |-> "executing", at |-> now, rows |-> rows] ELSE Idle]
      /\ UNCHANGED <<now, deploys, implemented, tables, rights, head, latest, draft>>

Commit(r) ==
  /\ request[r].pc = "executing"
  /\ head' = request[r].rows.head /\ latest' = request[r].rows.latest
  /\ request' = [request EXCEPT ![r] = Idle]
  /\ UNCHANGED <<now, deploys, implemented, tables, rights, draft>>

Abort(r) ==
  /\ request[r].pc \in {"prepared", "executing"}
  /\ request' = [request EXCEPT ![r] = Idle]
  /\ UNCHANGED <<now, deploys, implemented, tables, rights, head, latest, draft>>

(* A read-only root: its first consistent read fixes what it sees.         *)
OpenReadView(r) ==
  /\ request[r].pc = "prepared" /\ r \in ReadRequest
  /\ request' = [request EXCEPT ![r] =
       [pc |-> "reading", seen |-> request[r], head |-> head, latest |-> latest,
        version |-> version, epoch |-> epoch, inputs |-> Inputs]]
  /\ UNCHANGED <<now, deploys, implemented, tables, rights, head, latest, draft>>

(* The faulty variant trusts any head that is valid in time.               *)
viewInTime(q, at) == q.head # NoRow /\ ValidAt(q.latest, at)

(* readOnly(): one statement compares the stamps of the view with its head *)
(* and takes the time of the database; anything else is stale.             *)
viewUsable(q, at) ==
  /\ q.head # NoRow /\ ~q.head.invalidated
  /\ q.head.sourceVersion = q.version /\ q.head.epoch = q.epoch
  /\ ValidAt(q.latest, at)

ReadAllowed(r) == viewUsable(request[r], now) /\ Allows(request[r].latest.result, r)

(* The outcome ends the request: allowed, refused, or stale and retried as *)
(* a new request.                                                          *)
readOnly(r, outcome) ==
  /\ request[r].pc = "reading"
  /\ outcome = IF ~viewUsable(request[r], now) THEN "stale"
               ELSE IF ReadAllowed(r) THEN "allowed" ELSE "refused"
  /\ request' = [request EXCEPT ![r] = Idle]
  /\ UNCHANGED <<now, deploys, implemented, tables, rights, head, latest, draft>>

-----------------------------------------------------------------------------
(* Overrides of the platform *)

AppTime == {now + d : d \in ClockOffset}

(* Advance: the next source version, and the head no longer holds.         *)
Advance ==
  /\ version' = version + 1
  /\ head' = IF head = NoRow THEN head ELSE [head EXCEPT !.invalidated = TRUE]

(* CreateEntitlementOverride reads the catalogue without a lock ...        *)
ReadEntitlementCatalog(o) ==
  /\ draft = NoDraft /\ version < MaxVersion
  /\ draft' = [offer |-> o, catalog |-> Projected, expected |-> version]
  /\ UNCHANGED <<now, deploys, implemented, tables, rights, head, latest, request>>

fromCreate(o, at) ==
  [module |-> o.module, kind |-> o.kind, key |-> o.key, effect |-> o.effect, limit |-> o.limit,
   source |-> "override", id |-> o.id, from |-> IF o.from = Never THEN at ELSE o.from,
   until |-> o.until, revoked |-> Never]

(* The source table's foreign key refuses a module that is gone.           *)
Insert(s) == s.module \in DOMAIN catalog /\ sources' = sources \cup {s}

(* ... then locks, answers a repeated request from its receipt, compares   *)
(* the version the caller expects, and validates against what it read.     *)
CreateEntitlementOverride(at) ==
  LET s == fromCreate(draft.offer, at)
  IN  /\ draft # NoDraft /\ LocksFree
      /\ \A x \in sources : x.id # s.id
      /\ version = draft.expected
      /\ s.until > s.from
      /\ ValidateAppend(sources, s, draft.catalog)
      /\ Insert(s)
      /\ Advance
      /\ draft' = NoDraft
      /\ UNCHANGED <<now, deploys, implemented, tables, latest, request>>

(* A receipt, a conflict, an invalid source or a failed insert: nothing is *)
(* written.                                                                *)
EndDraft ==
  /\ draft # NoDraft
  /\ draft' = NoDraft
  /\ UNCHANGED <<now, deploys, implemented, tables, rights, head, latest, request>>

RevokeEntitlementOverride(s, at) ==
  /\ LocksFree /\ version < MaxVersion
  /\ s.source = "override" /\ s.revoked = Never
  /\ sources' = (sources \ {s}) \cup {[s EXCEPT !.revoked = at]}
  /\ Advance
  /\ UNCHANGED <<now, deploys, implemented, tables, latest, draft, request>>

-----------------------------------------------------------------------------
(* The module catalogue: each command holds the catalogue exclusively and  *)
(* advances its epoch with its audit row.                                  *)
transact == LocksFree /\ deploys + epoch <= MaxMoves /\ epoch' = epoch + 1

CreateModule(m) ==
  /\ transact
  /\ m \notin retired \cup DOMAIN catalog
  /\ Dependencies[m] \subseteq DOMAIN catalog
  /\ catalog' = [n \in DOMAIN catalog \cup {m} |->
       IF n # m THEN catalog[n] ELSE IF m \in implemented THEN "ready" ELSE "not_ready"]
  /\ UNCHANGED <<now, deploys, implemented, retired, rights, head, latest, draft, request>>

SetTechnicalStatus(m, status) ==
  /\ transact
  /\ m \in DOMAIN catalog
  /\ status = "ready" => m \in implemented
  /\ catalog' = [catalog EXCEPT ![m] = status]
  /\ UNCHANGED <<now, deploys, implemented, retired, rights, head, latest, draft, request>>

(* Delete counts the modules that depend on it and the sources that name   *)
(* it; its code is never used again.                                       *)
DeleteModule(m) ==
  /\ transact
  /\ m \in DOMAIN catalog
  /\ \A n \in DOMAIN catalog : m \notin Dependencies[n]
  /\ \A s \in sources : s.module # m
  /\ catalog' = [n \in DOMAIN catalog \ {m} |-> catalog[n]]
  /\ retired' = retired \cup {m}
  /\ UNCHANGED <<now, deploys, implemented, rights, head, latest, draft, request>>

-----------------------------------------------------------------------------
(* A new binary: what was in flight is rolled back, and the definitions    *)
(* change without a catalogue epoch.                                       *)
Deploy(modules) ==
  /\ deploys + epoch <= MaxMoves /\ deploys' = deploys + 1
  /\ implemented' = modules
  /\ draft' = NoDraft
  /\ request' = [r \in Request |-> Idle]
  /\ UNCHANGED <<now, tables, rights, head, latest>>

Tick ==
  /\ now < Horizon /\ now' = now + 1
  /\ UNCHANGED <<deploys, implemented, tables, rights, head, latest, draft, request>>

ReadEnds(r) == \E outcome \in {"allowed", "refused", "stale"} : readOnly(r, outcome)

Next ==
  \/ \E r \in Request : Prepare(r)
  \/ \E r \in Request : RequireExecuted(r)
  \/ \E r \in Request : Commit(r)
  \/ \E r \in Request : Abort(r)
  \/ \E r \in Request : OpenReadView(r)
  \/ \E r \in Request : ReadEnds(r)
  \/ \E o \in Offer : ReadEntitlementCatalog(o)
  \/ \E at \in AppTime : CreateEntitlementOverride(at)
  \/ EndDraft
  \/ \E s \in sources, at \in AppTime : RevokeEntitlementOverride(s, at)
  \/ \E m \in Module : CreateModule(m)
  \/ \E m \in Module, status \in {"ready", "not_ready", "disabled"} : SetTechnicalStatus(m, status)
  \/ \E m \in Module : DeleteModule(m)
  \/ \E modules \in Registry : Deploy(modules)
  \/ Tick

Spec == Init /\ [][Next]_vars

-----------------------------------------------------------------------------
(* Resolve means what the documents say: the capabilities it allows are    *)
(* the entitled ones, and a safety refusal is always reported as such.     *)
ResolvedAsPromised ==
  LET reason == Resolve(now, Projected, sources).capability
  IN  \A c \in DOMAIN reason :
        /\ (reason[c] = "ALLOWED") <=> Entitled(now, Projected, sources, c)
        /\ (\E s \in sources : /\ Active(s, now) /\ s.effect = "safety_deny"
                               /\ \/ s.kind = "capability" /\ s.key = c
                                  \/ s.kind = "module" /\ s.module = Owner[c])
             => reason[c] = "SECURITY_DISABLED"

(* At no instant, past or to come, do two override replacements of one     *)
(* quota hold together, whatever was scheduled and revoked in between: no  *)
(* quota is ever refused for a conflict of overrides.                      *)
OneReplacement ==
  \A t \in 0..(Horizon + 1) : \A s, x \in sources :
    (Replaces(s) /\ Replaces(x) /\ s.module = x.module /\ Active(s, t) /\ Active(x, t)) => s = x

(* Types, the two promises above, and that no reachable state is one that  *)
(* locked() or Resolve refuses: head and history move together and behind  *)
(* their authorities, and every source, revoked ones included, fits the    *)
(* catalogue, although a creation validates against a catalogue it read    *)
(* before its lock.                                                        *)
SInv ==
  /\ now \in 0..Horizon /\ epoch \in 1..(MaxMoves + 1) /\ version \in Nat
  /\ DOMAIN catalog \cup retired \subseteq Module
  /\ \A r \in Request : request[r].pc \in {"idle", "prepared", "executing", "reading"}
  /\ ~LockedFails /\ OneReplacement /\ ResolvedAsPromised

(* A head the guard would reuse gives exactly the decisions Resolve would  *)
(* compute now: no source starts, ends or is revoked, no module changes    *)
(* and no binary is deployed without the head ceasing to be usable.        *)
HeadExact ==
  HeadUsable(now) => latest.result = Resolve(now, Projected, sources)

(* A writing operation is under way only with rights that stood when it    *)
(* was admitted and that nothing has touched since: neither a revocation,  *)
(* nor a new override, nor a catalogue command overtakes it.               *)
ExecutesUnderRights ==
  \A r \in Request : request[r].pc = "executing" =>
    /\ request[r].rows.head.inputs = Inputs
    /\ \A c \in Required[r] : Entitled(request[r].at, Projected, sources, c)

(* What the answer to a read must rest on. *)
ReadsRightly(r) ==
  LET q == request[r] IN
  /\ readOnly(r, "allowed") => \A c \in Required[r] : Entitled(now, q.inputs[1], q.inputs[2], c)
  /\ readOnly(r, "stale") => \/ q.version # q.seen.version
                            \/ q.epoch # q.seen.epoch
                            \/ \E s \in q.inputs[2] : State(s, now) # State(s, q.seen.at)

(* A read is allowed only with the rights of its read view at the time of  *)
(* the check: a right that ended after the preflight is not used.  It is   *)
(* told to retry only when something did change: a source, the catalogue,  *)
(* or a source that started, ended or was revoked since the preflight.     *)
ReadUnderRights == [][\A r \in Request : ReadsRightly(r)]_vars
=============================================================================
