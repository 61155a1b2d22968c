------------------------- MODULE InitialSubscription -------------------------
(***************************************************************************)
(* A tenant's first subscription as the platform console opens it          *)
(* (useInitialSubscription.ts), against the server that admits it          *)
(* (usecase/confirm.go) over a network that delays and loses requests and  *)
(* answers, in a tab that is reloaded or moved to another tenant at any    *)
(* time.  Of all that the tab knew, only the request journal in the        *)
(* session storage survives (initialSubscriptionJournal.ts).               *)
(*                                                                         *)
(* The handlers are asynchronous functions: a call of one is a slot, its   *)
(* pc the answer it awaits.  clearFlow moves contextEpoch on, after which  *)
(* every earlier call finds its context gone and does nothing more, so     *)
(* such calls are dropped here; what they have sent stays on the wire.     *)
(***************************************************************************)
EXTENDS Naturals, FiniteSets

CONSTANTS
  Tenant,               \* tenants
  Activations,          \* bound on INITIAL changes, numbered as they are previewed
  Calls,                \* bound on handler calls of the tab that run at once
  Nobody, Stranger,     \* nothing; an activation by another administrator
  MaxTraffic            \* bound on previews, counted twice, request ids and confirm requests, together

Activation == 1..Activations
Slot == 1..Calls

ASSUME ConsoleAssumption ==
  /\ Activations \in Nat /\ Calls \in Nat /\ MaxTraffic \in Nat
  /\ Nobody \notin Activation \cup Slot \cup Tenant
  /\ Stranger \notin Activation \cup {Nobody}

VARIABLES
  \* the server
  proposed,    \* tenant of each stored preview
  outdated,    \* previews that expired or whose facts have changed
  confirmed,   \* receipt of each change: its status and request id
  base,        \* each tenant's base subscription
  \* the network
  wire,        \* confirm requests sent and not yet admitted
  sends,       \* number of confirm requests sent
  \* the browser
  journal,     \* request id that sessionStorage keeps of a change, or 0
  requests,    \* number of request ids made
  tab,         \* the refs of the composable
  calls,       \* its running handlers
  letGo        \* history: changes given up with no copy of their command on the wire

serverVars == <<proposed, outdated, confirmed, base>>
networkVars == <<wire, sends>>
initialVars == <<serverVars, networkVars, journal, requests, tab, calls, letGo>>

Traffic == 2 * Cardinality({c \in Activation : proposed[c] # Nobody}) + requests + sends
Unconfirmed == [status |-> "none", request |-> 0]
Idle == [op |-> "idle", at |-> "none", id |-> Nobody, request |-> 0, sent |-> 0, found |-> "none",
         got |-> "none"]
Fault == {"error", "denied"}
Known == {"PROVISIONING", "APPLIED"}

NewTab(t) ==
  [tenant |-> t, target |-> "none", loading |-> FALSE, preview |-> Nobody,
   receipt |-> Nobody, status |-> "none", frozen |-> [id |-> Nobody, request |-> 0],
   recovery |-> Nobody, submitted |-> FALSE, retry |-> FALSE, pending |-> FALSE,
   reading |-> Nobody, verification |-> "idle"]

InitialInit ==
  /\ proposed = [c \in Activation |-> Nobody]
  /\ outdated = {}
  /\ confirmed = [c \in Activation |-> Unconfirmed]
  /\ base = [t \in Tenant |-> Nobody]
  /\ wire = {} /\ sends = 0
  /\ journal = [c \in Activation |-> 0]
  /\ requests = 0
  /\ tab \in {NewTab(t) : t \in Tenant}
  /\ calls = [s \in Slot |-> Idle]
  /\ letGo = {}

(***************************************************************************)
(* The refs                                                                *)
(***************************************************************************)
ClearFlow(t, keepTarget) ==
  [NewTab(t.tenant) EXCEPT !.recovery = t.recovery,
                           !.target = IF keepTarget THEN t.target ELSE "none"]

AllDropped == [s \in Slot |-> Idle]

\* receipt.value = ...: the object read back before is no longer the current one
Show(t, c, status) == [t EXCEPT !.receipt = c, !.status = status, !.reading = Nobody]

\* a call ends: finally { if (context.current()) pending.value = false }
Finish(s, t) ==
  /\ tab' = [t EXCEPT !.pending = FALSE]
  /\ calls' = [calls EXCEPT ![s] = Idle]

\* a call goes on to its next await, about change c
Ask(s, at, c, t) ==
  /\ tab' = t
  /\ calls' = [calls EXCEPT ![s] = [Idle EXCEPT !.op = calls[s].op, !.at = at, !.id = c]]

Await(s, at, t) == Ask(s, at, calls[s].id, t)

Start(s, op, at, c, request, t) ==
  /\ calls[s] = Idle /\ \A r \in 1..(s - 1) : calls[r] # Idle
  /\ tab' = t
  /\ calls' = [calls EXCEPT ![s] = [op |-> op, at |-> at, id |-> c, request |-> request,
                                    sent |-> 0, found |-> "none", got |-> "none"]]

(***************************************************************************)
(* Choosing a version                                                      *)
(***************************************************************************)
\* the inputs are disabled while pending || confirmationSubmitted
Editable == ~tab.pending /\ ~tab.submitted

\* another scope or plan is typed, or loadPublishedVersions begins
EditTarget(loading) ==
  /\ Editable
  /\ loading => ~tab.loading
  /\ tab' = [ClearFlow(tab, FALSE) EXCEPT !.loading = loading]
  /\ calls' = AllDropped
  /\ UNCHANGED <<serverVars, networkVars, journal, requests, letGo>>

\* the versions arrive; the first eligible one is selected, unless there is none
LoadedTargets ==
  /\ tab.loading
  /\ \/ tab' = [ClearFlow(tab, TRUE) EXCEPT !.target = "eligible"] /\ calls' = AllDropped
     \/ tab' = [tab EXCEPT !.loading = FALSE] /\ UNCHANGED calls
  /\ UNCHANGED <<serverVars, networkVars, journal, requests, letGo>>

SelectVersion ==
  /\ Editable /\ tab.target = "eligible"
  /\ tab' = ClearFlow(tab, TRUE)
  /\ calls' = AllDropped
  /\ UNCHANGED <<serverVars, networkVars, journal, requests, letGo>>

(***************************************************************************)
(* The handlers begin                                                      *)
(***************************************************************************)
\* createPreview, offered while there is no preview
CreatePreview(s) ==
  /\ Editable /\ tab.target = "eligible" /\ tab.preview = Nobody
  /\ Start(s, "quote", "quote", Nobody, 0,
           [Show(tab, Nobody, "none") EXCEPT !.pending = TRUE, !.verification = "idle"])
  /\ UNCHANGED <<serverVars, networkVars, journal, requests, letGo>>

ConfirmPreview(s) ==
  /\ Editable /\ tab.preview # Nobody /\ tab.target # "none"
  /\ Traffic < MaxTraffic
  /\ requests' = requests + 1
  /\ Start(s, "confirm", "remember", tab.preview, requests',
           [tab EXCEPT !.pending = TRUE, !.submitted = TRUE, !.recovery = tab.preview,
                       !.frozen = [id |-> tab.preview, request |-> requests']])
  /\ UNCHANGED <<serverVars, networkVars, journal, letGo>>

RefreshResult(s) ==
  /\ ~tab.pending /\ tab.preview # Nobody
  /\ tab.submitted \/ tab.receipt # Nobody      \* where the button is shown
  /\ Start(s, "refresh", "read", tab.preview, 0,
           [tab EXCEPT !.pending = TRUE, !.verification = "pending"])
  /\ UNCHANGED <<serverVars, networkVars, journal, requests, letGo>>

RetryTask(s) ==
  /\ ~tab.pending /\ tab.receipt # Nobody /\ tab.status = "PROVISIONING"
  /\ Start(s, "resume", "resume", tab.receipt, 0, [tab EXCEPT !.pending = TRUE])
  /\ UNCHANGED <<serverVars, networkVars, journal, requests, letGo>>

\* the id comes from the link (changeId watch) or is typed by the administrator
RestoreSubmission(s, c) ==
  /\ ~tab.pending /\ proposed[c] # Nobody
  /\ Start(s, "restore", "original", c, 0,
           [tab EXCEPT !.recovery = c, !.pending = TRUE, !.submitted = TRUE, !.retry = FALSE])
  /\ letGo' = letGo \ {c}
  /\ UNCHANGED <<serverVars, networkVars, journal, requests>>

RetryOriginalConfirmation(s) ==
  /\ ~tab.pending /\ tab.retry /\ tab.receipt = Nobody
  /\ tab.preview # Nobody /\ tab.frozen.id = tab.preview
  /\ Start(s, "retry", "read", tab.preview, tab.frozen.request,
           [tab EXCEPT !.pending = TRUE, !.retry = FALSE])
  /\ UNCHANGED <<serverVars, networkVars, journal, requests, letGo>>

(***************************************************************************)
(* The server and the network                                              *)
(***************************************************************************)
\* confirmSubscriptionChange leaves the browser; t is the tab from then on
Send(s, t) ==
  /\ Traffic < MaxTraffic
  /\ sends' = sends + 1
  /\ wire' = wire \cup {[id |-> calls[s].id, request |-> calls[s].request, number |-> sends']}
  /\ tab' = t
  /\ calls' = [calls EXCEPT ![s] = [calls[s] EXCEPT !.at = "sent", !.sent = sends', !.got = "none",
                                    !.op = IF @ = "retry" THEN "resent" ELSE @]]

\* the call that sent m, if it still runs, gets the answer unless that is lost
Answer(m, a) ==
  \E got \in {a, "none"} :
    calls' = [s \in Slot |-> IF calls[s].at = "sent" /\ calls[s].sent = m.number
                             THEN [calls[s] EXCEPT !.got = got] ELSE calls[s]]

\* a 400 or 409: the change is refused for good, or an earlier copy with the
\* same key still runs, or the transaction failed, or it committed and the
\* acknowledgement was lost
Refused(m) == Answer(m, "refused")

\* usecase.confirm of an INITIAL change, one transaction under the tenant's
\* lock; a copy that another one excludes stays on the wire until it runs
Confirm(m) ==
  LET held == confirmed[m.id]
      t == proposed[m.id]
  IN
  /\ wire' = wire \ {m}
  /\ \/ /\ held = Unconfirmed /\ m.id \notin outdated /\ base[t] = Nobody
        /\ \E status \in Known :
             /\ confirmed' = [confirmed EXCEPT ![m.id] = [status |-> status, request |-> m.request]]
             /\ Answer(m, status) \/ Refused(m)
        /\ base' = [base EXCEPT ![t] = m.id]
     \/ /\ held.request = m.request /\ Answer(m, held.status)
        /\ UNCHANGED <<confirmed, base>>
     \/ Refused(m) /\ UNCHANGED <<confirmed, base>>
  /\ UNCHANGED <<proposed, outdated, sends, journal, requests, tab, letGo>>

\* the session or the permission is refused before the use case, or the
\* request is lost
Undelivered(m) ==
  /\ wire' = wire \ {m}
  /\ Answer(m, "denied")
  /\ UNCHANGED <<serverVars, sends, journal, requests, tab, letGo>>

ReceiptOf(c) ==
  IF proposed[c] = tab.tenant /\ confirmed[c] # Unconfirmed THEN confirmed[c].status
  ELSE "absent"

\* initialSubscriptionReadbackMatches: only a receipt that is APPLIED, belongs
\* to the preview then shown and made the current subscription can match;
\* rights that moved on since may not
ReadbackMatches(x) ==
  {"differs"} \cup (IF x.found = "own" /\ base[tab.tenant] = x.id THEN {"matches"} ELSE {})

\* a read of a receipt or of the subscription is answered from the state of
\* that moment, and the answer arrives later
Serve(s) ==
  LET x == calls[s] IN
  /\ x.got = "none"
  /\ x.at \in {"read", "reread", "original", "reconcile", "subscription"}
  /\ calls' = [calls EXCEPT ![s].got =
       IF x.at # "subscription" THEN ReceiptOf(x.id)
       ELSE IF base[tab.tenant] = Nobody THEN "absent" ELSE "present"]
  /\ UNCHANGED <<serverVars, networkVars, journal, requests, tab, letGo>>

\* what the await of call x may bring: the answer or, at any time, a network
\* error.  The other reads are of facts that never lapse, so they need no
\* step of their own; a 401 or 403 matters to confirmPreview alone
Arrives(x) ==
  (CASE x.at = "readback" -> ReadbackMatches(x)
     [] x.at = "task" ->
          {"running"} \cup (IF confirmed[x.id].status = "APPLIED" THEN {"applied"} ELSE {})
     [] x.at = "resume" -> {"running", "refused"}
     [] x.at = "plan" -> {"present"}
     [] x.at = "proposal" -> IF proposed[x.id] = tab.tenant THEN {"present"} ELSE {}
     [] x.at = "prepared" -> {"running", "denied"}
     [] OTHER -> {x.got} \ {"none"})
  \cup (IF x.got = "none" THEN {"error"} ELSE {})

\* time passes or the catalogue, the offer or the rights change
Outdate(c) ==
  /\ proposed[c] # Nobody /\ c \notin outdated /\ confirmed[c] = Unconfirmed
  /\ outdated' = outdated \cup {c}
  /\ UNCHANGED <<proposed, confirmed, base, networkVars, journal, requests, tab, calls, letGo>>

\* the provisioning worker activates the prepared change
Activate(c) ==
  /\ confirmed[c].status = "PROVISIONING"
  /\ confirmed' = [confirmed EXCEPT ![c].status = "APPLIED"]
  /\ UNCHANGED <<proposed, outdated, base, networkVars, journal, requests, tab, calls, letGo>>

\* another administrator opens the tenant's subscription
OpenedElsewhere(t) ==
  /\ base[t] = Nobody
  /\ base' = [base EXCEPT ![t] = Stranger]
  /\ UNCHANGED <<proposed, outdated, confirmed, networkVars, journal, requests, tab, calls, letGo>>

(***************************************************************************)
(* The handlers go on                                                      *)
(***************************************************************************)
\* a call whose tenant, session or page is gone has read the session and
\* written the journal, or never will
LateJournal ==
  journal' \in {journal} \cup
    {[journal EXCEPT ![calls[s].id] = calls[s].request] : s \in {x \in Slot : calls[x].at = "remember"}}

\* tenantId watch, session change, or the page is left and mounted again
Reset(t) ==
  /\ tab # NewTab(t)
  /\ tab' = NewTab(t)
  /\ calls' = AllDropped
  /\ LateJournal
  /\ UNCHANGED <<serverVars, networkVars, requests, letGo>>

ReadResult(s, t) ==
  LET c == IF t.preview # Nobody THEN t.preview ELSE t.recovery
  IN  Ask(s, "read", c, t)

VerifyReadback(s, t) ==
  /\ tab' = [t EXCEPT !.reading = s, !.verification = "pending"]
  /\ calls' = [calls EXCEPT ![s] =
       [Idle EXCEPT !.op = "verify", !.at = "readback", !.id = t.receipt,
                    !.found = IF t.preview \in {Nobody, t.receipt} THEN "own" ELSE "other"]]

\* rememberInitialSubscription, then the command; or reading the session fails
Remember(s) ==
  /\ calls[s].at = "remember"
  /\ \/ /\ journal' \in {journal, [journal EXCEPT ![calls[s].id] = calls[s].request]}
        /\ Send(s, tab)
     \/ Finish(s, tab) /\ UNCHANGED <<journal, networkVars>>
  /\ UNCHANGED <<serverVars, requests, letGo>>

\* PreviewSubscriptionChange stores a preview for a tenant without a
\* subscription, or fails; or its answer is lost
Quoted(s) ==
  /\ calls[s].at = "quote"
  /\ \/ /\ base[tab.tenant] = Nobody /\ Traffic + 1 < MaxTraffic
        /\ \E c \in Activation, shown \in BOOLEAN :
             /\ proposed[c] = Nobody /\ \A d \in 1..(c - 1) : proposed[d] # Nobody
             /\ proposed' = [proposed EXCEPT ![c] = tab.tenant]
             /\ Finish(s, IF shown THEN [tab EXCEPT !.preview = c] ELSE tab)
     \/ Finish(s, tab) /\ UNCHANGED proposed
  /\ UNCHANGED <<outdated, confirmed, base, networkVars, journal, requests, letGo>>

\* a 400 or 409, after which the original is looked up before anything else
Rejected(got) == got = "refused"

UnderWay(c) == \E m \in wire : m.id = c

\* found: whether another copy of the command was under way by then (history)
RecoverConcurrentActivation(s) ==
  \/ tab.preview = Nobody /\ Finish(s, tab)
  \/ /\ tab.preview # Nobody
     /\ tab' = tab
     /\ calls' = [calls EXCEPT ![s] =
          [Idle EXCEPT !.op = calls[s].op, !.at = "reconcile", !.id = tab.preview,
                       !.found = IF UnderWay(tab.preview) THEN "others" ELSE "alone"]]

\* a 401 or 403 unlocks also after the receipt has arrived
UnlockedWithReceipt(t, got) ==
  IF got = "denied" THEN [t EXCEPT !.submitted = FALSE] ELSE t

\* confirmPreview unlocks after a 401 or 403, unless a receipt has arrived
Unlocked(t, got) ==
  IF t.receipt = Nobody /\ got = "denied" THEN [t EXCEPT !.submitted = FALSE] ELSE t

Confirmed(s, got) ==
  LET x == calls[s]
      t == Show(tab, x.id, got)
  IN
  /\ x.at = "sent"
  /\ CASE Rejected(got) -> RecoverConcurrentActivation(s)
       [] x.op = "confirm" /\ got \in Fault -> Finish(s, Unlocked(tab, got))
       [] x.op = "resent" /\ got \in Fault -> Finish(s, tab)
       [] x.op = "resent" /\ got \in Known -> ReadResult(s, t)
       [] x.op = "confirm" /\ got = "APPLIED" -> VerifyReadback(s, t)
       [] x.op = "confirm" /\ got = "PROVISIONING" ->
            Await(s, "prepared", [t EXCEPT !.verification = "pending"])
  /\ UNCHANGED <<serverVars, networkVars, journal, requests, letGo>>

\* confirmPreview's read of the task it has just created
Prepared(s, got) ==
  /\ calls[s].at = "prepared"
  /\ Finish(s, Unlocked(tab, got))
  /\ UNCHANGED <<serverVars, networkVars, journal, requests, letGo>>

Resumed(s, got) ==
  /\ calls[s].at = "resume"
  /\ IF got = "refused" THEN ReadResult(s, tab) ELSE Finish(s, tab)
  /\ UNCHANGED <<serverVars, networkVars, journal, requests, letGo>>

\* readResult's receipt: refreshResult offers the retry on a 404 alone, and
\* retryOriginalConfirmation sends the original request again on a 404 alone
Read(s, got) ==
  LET x == calls[s] IN
  /\ x.at \in {"read", "reread"}
  /\ CASE got = "APPLIED" ->
            VerifyReadback(s, Show(tab, x.id, got)) /\ UNCHANGED networkVars
       [] got = "PROVISIONING" /\ x.at = "read" ->
            /\ Await(s, "task", [Show(tab, x.id, got) EXCEPT !.verification = "pending"])
            /\ UNCHANGED networkVars
       [] got = "PROVISIONING" /\ x.at = "reread" ->
            Finish(s, Show(tab, x.id, got)) /\ UNCHANGED networkVars
       [] got = "absent" /\ x.op = "retry" -> Send(s, tab)
       [] x.op = "refresh" /\ got \in Fault \cup {"absent"} ->
            /\ Finish(s, [tab EXCEPT !.retry = got = "absent" /\ tab.frozen.id # Nobody])
            /\ UNCHANGED networkVars
       [] OTHER -> Finish(s, tab) /\ UNCHANGED networkVars
  /\ UNCHANGED <<serverVars, journal, requests, letGo>>

TaskRead(s, got) ==
  /\ calls[s].at = "task"
  /\ IF got = "applied" THEN Await(s, "reread", tab) ELSE Finish(s, tab)
  /\ UNCHANGED <<serverVars, networkVars, journal, requests, letGo>>

\* verifyReadback: only the latest readback of the receipt still shown counts
Current(s) == tab.reading = s

ReadBack(s, got) ==
  /\ calls[s].at = "readback"
  /\ IF ~Current(s) THEN Finish(s, tab) /\ UNCHANGED journal
     ELSE IF got = "matches"
     THEN /\ Finish(s, [tab EXCEPT !.verification = "verified"])
          /\ journal' \in {journal, [journal EXCEPT ![calls[s].id] = 0]}
     ELSE Finish(s, [tab EXCEPT !.verification = "failed"]) /\ UNCHANGED journal
  /\ UNCHANGED <<serverVars, networkVars, requests, letGo>>

\* a read that fails counts as absent
AbsentOrUnread(got) == got \in {"absent", "error"}

\* a 404; any other error leaves the change locked
Absent(got) == got = "absent"

\* recoverConcurrentActivation: the receipt, then the subscription; only when
\* both are absent is the change given up
Reconciled(s, got) ==
  LET x == calls[s] IN
  /\ x.at \in {"reconcile", "subscription"}
  /\ CASE x.at = "reconcile" /\ Absent(got) ->
            /\ tab' = tab
            /\ calls' = [calls EXCEPT ![s] = [x EXCEPT !.at = "subscription", !.got = "none"]]
            /\ UNCHANGED letGo
       [] x.at = "reconcile" /\ got \in Known ->
            ReadResult(s, Show(tab, x.id, got)) /\ UNCHANGED letGo
       [] x.at = "subscription" /\ Absent(got) ->
            /\ tab' = [ClearFlow(tab, FALSE) EXCEPT !.recovery = Nobody]
            /\ calls' = AllDropped
            /\ letGo' = IF x.found = "alone" THEN letGo \cup {x.id} ELSE letGo
       [] OTHER -> Finish(s, tab) /\ UNCHANGED letGo
  /\ UNCHANGED <<serverVars, networkVars, journal, requests>>

\* restoreSubmission puts the original's scope, plan and version in place; a
\* watcher whose value changes clears the flow, and drops the other calls
Reinstalled ==
  {t \in {tab, ClearFlow(tab, TRUE)} : tab.target = "none" => t # tab}

Restored(s, got) ==
  LET x == calls[s]
      others(t) == IF t = tab THEN calls ELSE [AllDropped EXCEPT ![s] = x]
  IN
  /\ x.at \in {"original", "plan", "proposal"}
  /\ CASE x.at = "original" /\ got = "absent" -> Await(s, "proposal", tab)
       [] x.at = "original" /\ got \in Known ->
            /\ tab' = tab
            /\ calls' = [calls EXCEPT ![s] = [x EXCEPT !.at = "plan", !.found = got, !.got = "none"]]
       [] x.at = "plan" /\ got = "present" ->
            \E t \in Reinstalled :
              /\ tab' = [Show(t, x.id, x.found)
                           EXCEPT !.target = "readonly", !.preview = Nobody,
                                  !.frozen = [id |-> Nobody, request |-> 0],
                                  !.recovery = x.id, !.submitted = TRUE, !.retry = FALSE]
              /\ calls' = [others(t) EXCEPT ![s] = [x EXCEPT !.at = "read", !.found = "none",
                                                             !.got = "none"]]
       [] x.at = "proposal" /\ got = "present" /\ journal[x.id] # 0 ->
            \E t \in Reinstalled :
              /\ tab' = [Show(t, Nobody, "none")
                           EXCEPT !.target = "readonly", !.preview = x.id,
                                  !.frozen = [id |-> x.id, request |-> journal[x.id]],
                                  !.recovery = x.id, !.submitted = TRUE, !.retry = TRUE,
                                  !.verification = "pending", !.pending = FALSE]
              /\ calls' = [others(t) EXCEPT ![s] = Idle]
       [] OTHER -> Finish(s, tab)
  /\ UNCHANGED <<serverVars, networkVars, journal, requests, letGo>>

InitialNext ==
  \/ \E loading \in BOOLEAN : EditTarget(loading)
  \/ LoadedTargets \/ SelectVersion
  \/ \E s \in Slot :
       \/ CreatePreview(s) \/ ConfirmPreview(s) \/ RefreshResult(s) \/ RetryTask(s)
       \/ RetryOriginalConfirmation(s) \/ \E c \in Activation : RestoreSubmission(s, c)
       \/ Serve(s) \/ Remember(s) \/ Quoted(s)
       \/ \E got \in Arrives(calls[s]) :
            \/ Confirmed(s, got) \/ Prepared(s, got) \/ Resumed(s, got) \/ Read(s, got)
            \/ TaskRead(s, got) \/ ReadBack(s, got) \/ Reconciled(s, got) \/ Restored(s, got)
  \/ \E m \in wire : Confirm(m) \/ Undelivered(m)
  \/ \E c \in Activation : Outdate(c) \/ Activate(c)
  \/ \E t \in Tenant : OpenedElsewhere(t) \/ Reset(t)

InitialSpec == InitialInit /\ [][InitialNext]_initialVars

(***************************************************************************)
(* Properties                                                              *)
(***************************************************************************)
TabType ==
  /\ tab.preview \in Activation \cup {Nobody} /\ tab.receipt \in Activation \cup {Nobody}
  /\ tab.reading \in Slot \cup {Nobody} /\ Traffic <= MaxTraffic
  /\ \A m \in wire : m.id \in Activation /\ m.request \in 1..requests

\* Where the console lets a change be confirmed under a new request id, none
\* of the earlier ids can take effect any more: while the confirmation is
\* unlocked, no command for the preview shown has committed, is on its way or
\* is about to be sent, after any loss, refusal or reload.
UnlockedUnsent ==
  tab.preview # Nobody /\ ~tab.submitted =>
    /\ confirmed[tab.preview] = Unconfirmed
    /\ \A m \in wire : m.id # tab.preview
    /\ \A s \in Slot : calls[s].at \in {"remember", "sent"} => calls[s].id # tab.preview

\* The console says "verified" only with the receipt that is APPLIED and made
\* the tenant's current subscription, and beside no other change's preview.
VerifiedTruly ==
  tab.verification = "verified" =>
    /\ tab.receipt # Nobody /\ confirmed[tab.receipt].status = "APPLIED"
    /\ base[tab.tenant] = tab.receipt
    /\ tab.preview \in {Nobody, tab.receipt}

\* The console's state, and the two promises above (confirmPreview,
\* retryOriginalConfirmation, verifyReadback).
ConsoleInv == TabType /\ UnlockedUnsent /\ VerifiedTruly

\* "A definitive 400/409 alone never proves that an earlier command did not
\* commit": what recoverConcurrentActivation does after one is enough.  A
\* change it gives up for "a completely new preview" never takes effect, unless
\* another copy of its command was under way when the refusal arrived, or it
\* is restored and sent again; and whichever copy does take effect, no two
\* first subscriptions of a tenant do.
GivenUpForGood ==
  /\ \A c \in letGo : confirmed[c] = Unconfirmed
  /\ \A c, d \in Activation :
       confirmed[c] # Unconfirmed /\ confirmed[d] # Unconfirmed /\ proposed[c] = proposed[d] => c = d
=============================================================================
