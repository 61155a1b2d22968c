----------------------- MODULE SubscriptionLifecycle -----------------------
(***************************************************************************)
(* The base subscription of one tenant: bootstrap, previewed and confirmed *)
(* changes, prepared activation, and the durable time transitions that     *)
(* move it on (application/subscriptionchanges, domain/subscriptionchange, *)
(* domain/timetransition).                                                 *)
(*                                                                         *)
(* Every operation is one transaction under the tenant's row lock.  The    *)
(* live PLAN sources carry the tenant's rights; they share one ExpiresAt   *)
(* and one RevokedAt.  A snapshot or catalog version is only ever compared *)
(* with a remembered one, so what is kept is whether the remembered one is *)
(* still current.  Times are ticks of the database clock, 0 is "none".     *)
(* The provisioning task is reduced to its end (see Provisioning).         *)
(***************************************************************************)
EXTENDS Naturals

CONSTANTS
  Change,      \* change ids
  Worker,      \* transition workers
  Input,       \* what a preview may ask for: [action, at, fixed, prep]
  Days,        \* ValidityDays of a fixed_days plan
  Grace,       \* lifecycle.GraceDuration, 0 for none
  PreviewTtl,  \* how long a preview can be confirmed
  Horizon      \* bound on time

NoChange == "none"
BaseId == "base"

ASSUME LifecycleAssumption ==
  /\ Days \in Nat \ {0} /\ Grace \in Nat /\ PreviewTtl \in Nat \ {0} /\ Horizon \in Nat \ {0}
  /\ NoChange \notin Change /\ BaseId \notin Change
  /\ Input \subseteq [action : {"INITIAL", "UPGRADE", "DOWNGRADE", "RENEW", "STOP_RENEWAL"},
                      at : Nat, fixed : BOOLEAN, prep : BOOLEAN]
  /\ \A i \in Input : i.action \in {"INITIAL", "STOP_RENEWAL"} => i.at = 0

VARIABLES
  now,
  state, revision, periodEnd, renewalStopped, pending,  \* the subscription row
  srcEnd, srcCut,    \* ExpiresAt and RevokedAt of the live PLAN sources
  phase,             \* of each change: preview, then receipt status
  input,             \* what the change asks for
  mode, effAt, endAt,\* Mode, EffectiveAt, EntitlementExpiresAt
  createdAt,         \* when the preview was made
  beforeState,       \* Before.State of preview and receipt
  fresh,             \* previews whose Before and versions are current
  task,              \* provisioning task of each change
  approvedRev,       \* Approval.SubscriptionRevision
  approved,          \* open tasks whose approved versions are current
  queued, running,   \* time transitions that are not terminal
  holds              \* the transition each worker holds a live lease on

rowVars == <<state, revision, periodEnd, renewalStopped, pending>>
sourceVars == <<srcEnd, srcCut>>
previewVars == <<input, mode, createdAt, beforeState>>
receiptTimes == <<effAt, endAt>>
changeVars == <<phase, previewVars, receiptTimes, fresh>>
taskVars == <<task, approvedRev, approved>>
transitionVars == <<queued, running, holds>>
vars == <<now, rowVars, sourceVars, changeVars, taskVars, transitionVars>>

-----------------------------------------------------------------------------
State == {"NONE", "PROVISIONING", "ACTIVE", "GRACE", "RESTRICTED", "ENDED"}
Phase == {"NONE", "PREVIEWED", "SCHEDULED", "PROVISIONING", "APPLIED", "FAILED"}
Transition == [kind : {"SCHEDULED_CHANGE", "SUBSCRIPTION_BOUNDARY"}, id : Change \cup {BaseId},
               version : Nat \ {0}, due : Nat \ {0}]
NoTransition == [kind |-> "none"]
NoInput == [action |-> "none"]

Boundary(version, due) ==
  [kind |-> "SUBSCRIPTION_BOUNDARY", id |-> BaseId, version |-> version, due |-> due]
BoundaryOf(version, due) == IF due = 0 THEN {} ELSE {Boundary(version, due)}
ScheduledChange(c, version, due) ==
  [kind |-> "SCHEDULED_CHANGE", id |-> c, version |-> version, due |-> due]

Later(a, b) == IF a > b THEN a ELSE b

Init ==
  /\ now = 1
  /\ state = "NONE" /\ revision = 0 /\ periodEnd = 0 /\ renewalStopped = FALSE /\ pending = NoChange
  /\ srcEnd = 0 /\ srcCut = 0
  /\ phase = [c \in Change |-> "NONE"]
  /\ input = [c \in Change |-> NoInput]
  /\ mode = [c \in Change |-> "none"]
  /\ effAt = [c \in Change |-> 0] /\ endAt = [c \in Change |-> 0] /\ createdAt = [c \in Change |-> 0]
  /\ beforeState = [c \in Change |-> "NONE"]
  /\ fresh = {} /\ approved = {}
  /\ task = [c \in Change |-> "none"] /\ approvedRev = [c \in Change |-> 0]
  /\ queued = {} /\ running = {}
  /\ holds = [w \in Worker |-> NoTransition]

-----------------------------------------------------------------------------
(* Decisions shared by preview, confirmation and execution *)

(* The current PLAN sources give the tenant its rights in [start, end). *)
RightsOn ==
  /\ state \notin {"NONE", "PROVISIONING"}
  /\ srcEnd = 0 \/ now < srcEnd
  /\ srcCut = 0 \/ now < srcCut

(* capture: ValidateCurrentSources compares every live source with the     *)
(* subscription's period.                                                  *)
SourcesMatch ==
  /\ srcEnd = periodEnd
  /\ srcCut # 0 /\ srcEnd # 0 => srcCut <= srcEnd

(* Period: defined, mode, at, end. *)
PeriodDefined(i) ==
  /\ i.at # 0 => i.at > now
  /\ i.action = "DOWNGRADE" /\ i.at = 0 => periodEnd # 0
  /\ i.action = "RENEW" => i.fixed /\ periodEnd # 0
Mode(i) ==
  IF i.at # 0 \/ (i.action = "DOWNGRADE" /\ periodEnd > now) THEN "SCHEDULED" ELSE "IMMEDIATE"
EffectiveAt(i) ==
  IF i.at # 0 THEN i.at ELSE IF Mode(i) = "SCHEDULED" THEN periodEnd ELSE now
End(i) ==
  IF i.action = "STOP_RENEWAL" THEN periodEnd
  ELSE IF i.action = "RENEW" THEN Later(EffectiveAt(i), periodEnd) + Days
  ELSE IF i.fixed THEN EffectiveAt(i) + Days ELSE 0

-----------------------------------------------------------------------------
(* BootstrapTenantSubscription and SaveBase *)
Bootstrap ==
  /\ state = "NONE"
  /\ state' = "ACTIVE" /\ revision' = 1
  /\ \E end \in {0, now + Days} :
       /\ periodEnd' = end /\ srcEnd' = end
       /\ queued' = queued \cup BoundaryOf(1, end)
  /\ fresh' = {}
  /\ UNCHANGED <<now, renewalStopped, pending, srcCut, phase, previewVars, receiptTimes,
                 taskVars, running, holds>>

(* PreviewSubscriptionChange *)
Preview(c, i) ==
  /\ phase[c] = "NONE"
  /\ i.action = "INITIAL" <=> state = "NONE"
  /\ pending = NoChange
  /\ i.action = "STOP_RENEWAL" => ~renewalStopped
  /\ i.action # "INITIAL" => SourcesMatch
  /\ PeriodDefined(i)
  /\ phase' = [phase EXCEPT ![c] = "PREVIEWED"]
  /\ input' = [input EXCEPT ![c] = i]
  /\ mode' = [mode EXCEPT ![c] = Mode(i)]
  /\ effAt' = [effAt EXCEPT ![c] = EffectiveAt(i)]
  /\ endAt' = [endAt EXCEPT ![c] = End(i)]
  /\ createdAt' = [createdAt EXCEPT ![c] = now]
  /\ beforeState' = [beforeState EXCEPT ![c] = state]
  /\ fresh' = fresh \cup {c}
  /\ UNCHANGED <<now, rowVars, sourceVars, taskVars, transitionVars>>

-----------------------------------------------------------------------------
(* ConfirmSubscriptionChange.  The quota policy may refuse: then nothing   *)
(* changes.                                                                *)

(* Faulty variant: the preview is not compared with the locked row. *)
ConfirmableStale(c) ==
  /\ phase[c] = "PREVIEWED"
  /\ now < createdAt[c] + PreviewTtl
  /\ IF input[c].action = "INITIAL" THEN state = "NONE" ELSE pending = NoChange /\ SourcesMatch
  /\ PeriodDefined(input[c])
  /\ Mode(input[c]) = mode[c]

Confirmable(c) ==
  /\ phase[c] = "PREVIEWED"
  /\ now < createdAt[c] + PreviewTtl
  /\ IF input[c].action = "INITIAL" THEN state = "NONE" ELSE pending = NoChange /\ SourcesMatch
  /\ c \in fresh
  /\ PeriodDefined(input[c])
  /\ Mode(input[c]) = mode[c]
  /\ mode[c] = "SCHEDULED" => EffectiveAt(input[c]) = effAt[c]

(* What every confirmation writes: the next revision and the receipt. *)
Receipt(c, status) ==
  /\ revision' = revision + 1
  /\ phase' = [phase EXCEPT ![c] = status]
  /\ effAt' = [effAt EXCEPT ![c] = EffectiveAt(input[c])]
  /\ endAt' = [endAt EXCEPT ![c] = End(input[c])]
  /\ fresh' = {}
  /\ UNCHANGED <<now, previewVars, running, holds>>

(* applySources: the old generation is revoked, the target's takes over    *)
(* with the new period.                                                    *)
ApplySources(end) ==
  /\ state' = "ACTIVE"
  /\ periodEnd' = end /\ srcEnd' = end /\ srcCut' = 0
  /\ renewalStopped' = FALSE /\ pending' = NoChange

OpenTask(c) ==
  /\ task' = [task EXCEPT ![c] = "open"]
  /\ approvedRev' = [approvedRev EXCEPT ![c] = revision + 1]
  /\ approved' = approved \cup {c}

ConfirmPrepare(c) ==
  /\ Confirmable(c)
  /\ mode[c] = "IMMEDIATE" /\ input[c].prep /\ input[c].action # "STOP_RENEWAL"
  /\ pending' = c
  /\ IF input[c].action = "INITIAL"
     THEN state' = "PROVISIONING" /\ periodEnd' = End(input[c])
     ELSE state' = "ACTIVE" /\ UNCHANGED periodEnd
  /\ OpenTask(c)
  /\ queued' = queued \cup BoundaryOf(revision + 1, periodEnd')
  /\ Receipt(c, "PROVISIONING")
  /\ UNCHANGED <<renewalStopped, sourceVars>>

(* Faulty variant: the old sources are left to run on. *)
FenceForgotten(due) == UNCHANGED sourceVars

(* installTimeFence: the old rights end at the switch at the latest. *)
Fence(due) ==
  /\ srcCut' = IF srcCut = 0 /\ (srcEnd = 0 \/ due < srcEnd) THEN due ELSE srcCut
  /\ UNCHANGED srcEnd

ConfirmSchedule(c) ==
  /\ Confirmable(c)
  /\ mode[c] = "SCHEDULED"
  /\ pending' = c /\ state' = "ACTIVE"
  /\ Fence(EffectiveAt(input[c]))
  /\ queued' = queued \cup {ScheduledChange(c, revision + 1, EffectiveAt(input[c]))}
  /\ Receipt(c, "SCHEDULED")
  /\ UNCHANGED <<periodEnd, renewalStopped, taskVars>>

ConfirmStop(c) ==
  /\ Confirmable(c)
  /\ input[c].action = "STOP_RENEWAL"
  /\ renewalStopped' = TRUE
  /\ queued' = queued \cup BoundaryOf(revision + 1, periodEnd)
  /\ Receipt(c, "APPLIED")
  /\ UNCHANGED <<state, periodEnd, pending, sourceVars, taskVars>>

ConfirmApply(c) ==
  /\ Confirmable(c)
  /\ mode[c] = "IMMEDIATE" /\ ~input[c].prep /\ input[c].action # "STOP_RENEWAL"
  /\ ApplySources(End(input[c]))
  /\ queued' = queued \cup BoundaryOf(revision + 1, End(input[c]))
  /\ Receipt(c, "APPLIED")
  /\ UNCHANGED taskVars

-----------------------------------------------------------------------------
(* The provisioning task comes to an end *)

(* CompletePreparedSubscriptionChange.  A first activation publishes the   *)
(* period it was admitted with.                                            *)
Activate(c) ==
  LET end == IF mode[c] = "IMMEDIATE" THEN End(input[c]) ELSE endAt[c] IN
  /\ task[c] = "open" /\ phase[c] = "PROVISIONING"
  /\ pending = c /\ revision = approvedRev[c]
  /\ input[c].action # "INITIAL" => SourcesMatch
  /\ c \in approved
  /\ mode[c] = "SCHEDULED" => effAt[c] <= now
  /\ revision' = revision + 1
  /\ ApplySources(end)
  /\ phase' = [phase EXCEPT ![c] = "APPLIED"]
  /\ task' = [task EXCEPT ![c] = "applied"]
  /\ queued' = queued \cup BoundaryOf(revision + 1, end)
  /\ IF input[c].action = "INITIAL"
     THEN effAt' = [effAt EXCEPT ![c] = now] /\ endAt' = [endAt EXCEPT ![c] = end]
     ELSE UNCHANGED receiptTimes
  /\ fresh' = {} /\ approved' = {}
  /\ UNCHANGED <<now, previewVars, approvedRev, running, holds>>

(* RECONCILIATION_REQUIRED: a permanent failure, or an approval that went  *)
(* stale; the reservation stays.                                           *)
GiveUp(c) ==
  /\ task[c] = "open"
  /\ task' = [task EXCEPT ![c] = "stuck"]
  /\ approved' = approved \ {c}
  /\ UNCHANGED <<now, rowVars, sourceVars, changeVars, approvedRev, transitionVars>>

(* Faulty variant: the cancelled reservation is not released. *)
CancelKeepsPending(c) ==
  /\ task[c] = "open" /\ input[c].action # "INITIAL"
  /\ pending = c /\ revision = approvedRev[c]
  /\ revision' = revision + 1
  /\ task' = [task EXCEPT ![c] = "cancelled"]
  /\ fresh' = {} /\ approved' = {}
  /\ UNCHANGED <<now, state, periodEnd, renewalStopped, pending, sourceVars, phase, previewVars,
                 receiptTimes, approvedRev, transitionVars>>

(* CancelPreparedSubscriptionChange; first activations cannot be           *)
(* cancelled.                                                              *)
CancelPrepared(c) ==
  /\ task[c] = "open" /\ input[c].action # "INITIAL"
  /\ pending = c /\ revision = approvedRev[c]
  /\ pending' = NoChange /\ revision' = revision + 1
  /\ task' = [task EXCEPT ![c] = "cancelled"]
  /\ fresh' = {} /\ approved' = {}
  /\ UNCHANGED <<now, state, periodEnd, renewalStopped, sourceVars, phase, previewVars,
                 receiptTimes, approvedRev, transitionVars>>

-----------------------------------------------------------------------------
(* Time transitions *)

(* Faulty variant: only QUEUED rows are scanned. *)
ClaimQueued(w) ==
  /\ holds[w] = NoTransition
  /\ \E t \in queued :
       /\ t.due <= now
       /\ queued' = queued \ {t}
       /\ running' = running \cup {t}
       /\ holds' = [holds EXCEPT ![w] = t]
  /\ UNCHANGED <<now, rowVars, sourceVars, changeVars, taskVars>>

(* ClaimDue.  A RUNNING row without a live lease is claimable again. *)
Claim(w) ==
  /\ holds[w] = NoTransition
  /\ \E t \in queued \cup running :
       /\ t \in queued => t.due <= now
       /\ \A v \in Worker : holds[v] # t
       /\ queued' = queued \ {t}
       /\ running' = running \cup {t}
       /\ holds' = [holds EXCEPT ![w] = t]
  /\ UNCHANGED <<now, rowVars, sourceVars, changeVars, taskVars>>

(* The lease expires, the worker crashes or its transaction fails. *)
LoseLease(w) ==
  /\ holds[w] # NoTransition
  /\ holds' = [holds EXCEPT ![w] = NoTransition]
  /\ UNCHANGED <<now, rowVars, sourceVars, changeVars, taskVars, queued, running>>

(* finishTransition; next is the successor inserted with it, if any. *)
Finish(w, next) ==
  /\ running' = running \ {holds[w]}
  /\ holds' = [holds EXCEPT ![w] = NoTransition]
  /\ queued' = queued \cup next

(* Faulty variant: the boundary is not compared with the current row. *)
BoundaryStandsAlways(t) == TRUE

BoundaryStands(t) == revision = t.version /\ periodEnd = t.due

ScheduleStands(t) ==
  pending = t.id /\ revision = t.version /\ phase[t.id] = "SCHEDULED" /\ effAt[t.id] = t.due

(* The transition is superseded by a newer revision; a boundary that meets *)
(* a reservation is spent as well.                                         *)
TransitionPasses(w) ==
  /\ holds[w] # NoTransition
  /\ IF holds[w].kind = "SUBSCRIPTION_BOUNDARY"
     THEN ~BoundaryStands(holds[w]) \/ pending # NoChange
     ELSE ~ScheduleStands(holds[w])
  /\ Finish(w, {})
  /\ UNCHANGED <<now, rowVars, sourceVars, changeVars, taskVars>>

(* Faulty variant: grace runs from the worker's pickup. *)
GraceEndFromPickup(t) == now + Grace

GraceEnd(t) == t.due + Grace

(* completeSubscriptionBoundary *)
BoundaryApplies(w) ==
  LET t == holds[w]
      toGrace == state # "GRACE" /\ Grace > 0 /\ GraceEnd(t) > now IN
  /\ t # NoTransition /\ t.kind = "SUBSCRIPTION_BOUNDARY"
  /\ BoundaryStands(t) /\ pending = NoChange
  /\ revision' = revision + 1
  /\ IF ~renewalStopped /\ toGrace
     THEN /\ state' = "GRACE" /\ periodEnd' = GraceEnd(t)
          /\ Finish(w, {Boundary(revision + 1, GraceEnd(t))})
     ELSE /\ state' = IF renewalStopped THEN "ENDED" ELSE "RESTRICTED"
          /\ Finish(w, {})
          /\ UNCHANGED periodEnd
  /\ fresh' = {}
  /\ UNCHANGED <<now, renewalStopped, pending, sourceVars, phase, previewVars, receiptTimes,
                 taskVars>>

(* Faulty variant: the failure lifts the time fence. *)
ScheduleFailsUnfences(w) ==
  /\ holds[w] # NoTransition /\ holds[w].kind = "SCHEDULED_CHANGE"
  /\ ScheduleStands(holds[w])
  /\ revision' = revision + 1 /\ pending' = NoChange
  /\ phase' = [phase EXCEPT ![holds[w].id] = "FAILED"]
  /\ fresh' = {}
  /\ Finish(w, {})
  /\ srcCut' = 0
  /\ UNCHANGED <<now, state, periodEnd, renewalStopped, srcEnd, previewVars, receiptTimes,
                 taskVars>>

(* failScheduledTransition: the target, the quotas, the requirements or    *)
(* the sources do not pass revalidation.                                   *)
ScheduleFails(w) ==
  /\ holds[w] # NoTransition /\ holds[w].kind = "SCHEDULED_CHANGE"
  /\ ScheduleStands(holds[w])
  /\ revision' = revision + 1 /\ pending' = NoChange
  /\ phase' = [phase EXCEPT ![holds[w].id] = "FAILED"]
  /\ fresh' = {}
  /\ Finish(w, {})
  /\ UNCHANGED <<now, state, periodEnd, renewalStopped, sourceVars, previewVars, receiptTimes,
                 taskVars>>

(* completeScheduledChange *)
SchedulePrepares(w) ==
  LET c == holds[w].id IN
  /\ holds[w] # NoTransition /\ holds[w].kind = "SCHEDULED_CHANGE"
  /\ ScheduleStands(holds[w]) /\ SourcesMatch /\ input[c].prep
  /\ revision' = revision + 1 /\ state' = "RESTRICTED"
  /\ OpenTask(c)
  /\ phase' = [phase EXCEPT ![c] = "PROVISIONING"]
  /\ fresh' = {}
  /\ Finish(w, {})
  /\ UNCHANGED <<now, periodEnd, renewalStopped, pending, sourceVars, previewVars, receiptTimes>>

ScheduleApplies(w) ==
  LET c == holds[w].id IN
  /\ holds[w] # NoTransition /\ holds[w].kind = "SCHEDULED_CHANGE"
  /\ ScheduleStands(holds[w]) /\ SourcesMatch /\ ~input[c].prep
  /\ revision' = revision + 1
  /\ ApplySources(endAt[c])
  /\ phase' = [phase EXCEPT ![c] = "APPLIED"]
  /\ fresh' = {}
  /\ Finish(w, {})
  /\ UNCHANGED <<now, previewVars, receiptTimes, taskVars>>

CompleteTransition(w) ==
  \/ TransitionPasses(w) \/ BoundaryApplies(w)
  \/ ScheduleFails(w) \/ SchedulePrepares(w) \/ ScheduleApplies(w)

-----------------------------------------------------------------------------
(* Environment *)

(* An override, the catalog or another source moves the versions on. *)
AuthorityMoves ==
  /\ fresh # {} \/ approved # {}
  /\ fresh' = {} /\ approved' = {}
  /\ UNCHANGED <<now, rowVars, sourceVars, phase, previewVars, receiptTimes, task, approvedRev,
                 transitionVars>>

(* Time passes; a snapshot ends where a source does. *)
Tick ==
  /\ now < Horizon
  /\ now' = now + 1
  /\ IF now + 1 \in {srcEnd, srcCut} THEN fresh' = {} /\ approved' = {} ELSE UNCHANGED <<fresh, approved>>
  /\ UNCHANGED <<rowVars, sourceVars, phase, previewVars, receiptTimes, task, approvedRev,
                 transitionVars>>

Operator(c) ==
  \/ \E i \in Input : Preview(c, i)
  \/ ConfirmPrepare(c) \/ ConfirmSchedule(c) \/ ConfirmStop(c) \/ ConfirmApply(c)
  \/ Activate(c) \/ GiveUp(c) \/ CancelPrepared(c)

Next ==
  \/ Bootstrap
  \/ \E c \in Change : Operator(c)
  \/ \E w \in Worker : Claim(w) \/ LoseLease(w) \/ CompleteTransition(w)
  \/ AuthorityMoves
  \/ Tick

Spec == Init /\ [][Next]_vars

(* The clock runs, workers keep polling, and a completion that is retried  *)
(* for ever commits some time (a lease outlasts a transaction).            *)
Fairness ==
  /\ WF_vars(Tick)
  /\ \A w \in Worker : WF_vars(Claim(w)) /\ SF_vars(CompleteTransition(w))
FairSpec == Spec /\ Fairness

-----------------------------------------------------------------------------
(* Properties *)

RowType ==
  /\ now \in Nat /\ state \in State /\ revision \in Nat /\ periodEnd \in Nat
  /\ renewalStopped \in BOOLEAN /\ pending \in Change \cup {NoChange}
  /\ srcEnd \in Nat /\ srcCut \in Nat
ChangeType ==
  /\ phase \in [Change -> Phase] /\ input \in [Change -> Input \cup {NoInput}]
  /\ mode \in [Change -> {"none", "IMMEDIATE", "SCHEDULED"}]
  /\ effAt \in [Change -> Nat] /\ endAt \in [Change -> Nat] /\ createdAt \in [Change -> Nat]
  /\ beforeState \in [Change -> State] /\ fresh \subseteq Change
TaskType ==
  /\ task \in [Change -> {"none", "open", "applied", "cancelled", "stuck"}]
  /\ approvedRev \in [Change -> Nat] /\ approved \subseteq Change
TransitionType ==
  /\ queued \subseteq Transition /\ running \subseteq Transition
  /\ holds \in [Worker -> Transition \cup {NoTransition}]

(* Every variable keeps its type; a transition names a positive revision   *)
(* and a date (Task.Integrity).                                            *)
TypeOK == RowType /\ ChangeType /\ TaskType /\ TransitionType

(* A reservation is never lost or left hanging: the pending change is      *)
(* scheduled with its transition still to come, or being prepared under    *)
(* the very revision that was approved (confirm, completeScheduledChange,  *)
(* CompletePrepared).                                                      *)
ReservationBacked ==
  /\ pending # NoChange => phase[pending] \in {"SCHEDULED", "PROVISIONING"}
  /\ \A c \in Change :
       /\ phase[c] = "SCHEDULED" =>
            pending = c /\ ScheduledChange(c, revision, effAt[c]) \in queued \cup running
       /\ pending = c /\ phase[c] = "PROVISIONING" => task[c] \in {"open", "stuck"}
       /\ task[c] = "open" => pending = c /\ phase[c] = "PROVISIONING" /\ revision = approvedRev[c]

(* The time fence is closed whether or not a worker runs: once a scheduled *)
(* switch is due, the old plan's rights are over (installTimeFence).       *)
FenceCloses ==
  \A c \in Change :
    mode[c] = "SCHEDULED" /\ effAt[c] <= now
      /\ (phase[c] = "SCHEDULED" \/ task[c] = "open") => ~RightsOn

(* What the properties above and below rest on: a leased transition is     *)
(* due, not yet terminal, and leased to one worker; a fence in the future  *)
(* belongs to the change that waits for it; a first activation owns its    *)
(* subscription; the sources end no later than the period.                 *)
InputKnown ==
  \A c \in Change : phase[c] # "NONE" =>
    input[c] \in Input /\ (input[c].action = "INITIAL" \/ state # "NONE")
LeasedIsDue ==
  /\ \A w \in Worker : holds[w] # NoTransition => holds[w] \in running
  /\ \A v, w \in Worker : holds[v] = holds[w] /\ holds[v] # NoTransition => v = w
  /\ \A t \in running : t.due <= now
FenceSet ==
  /\ \A c \in Change : phase[c] = "SCHEDULED" \/ (task[c] = "open" /\ mode[c] = "SCHEDULED") =>
       (srcCut # 0 /\ srcCut <= effAt[c]) \/ (srcCut = 0 /\ srcEnd # 0 /\ srcEnd <= effAt[c])
  /\ srcCut > now => pending # NoChange /\ phase[pending] = "SCHEDULED"
FirstActivation ==
  /\ state = "NONE" => pending = NoChange /\ revision = 0
  /\ state = "PROVISIONING" =>
       pending # NoChange /\ phase[pending] = "PROVISIONING" /\ input[pending].action = "INITIAL"
SourcesEnd ==
  state \notin {"NONE", "PROVISIONING"} => (srcEnd = 0 <=> periodEnd = 0) /\ srcEnd <= periodEnd

(* The inductive invariant of the subscription (confirm,                   *)
(* completeScheduledChange, completeSubscriptionBoundary, CompletePrepared *)
(* and CancelPrepared together).                                           *)
LInv ==
  /\ TypeOK /\ ReservationBacked
  /\ InputKnown /\ LeasedIsDue /\ FenceSet /\ FirstActivation /\ SourcesEnd

(* The status is never taken down while the plan's rights are in force: a  *)
(* boundary of an earlier revision cannot undo a renewal                   *)
(* (completeSubscriptionBoundary).                                         *)
NeverDegradedEarly ==
  [][state' \in {"GRACE", "RESTRICTED", "ENDED"} /\ state' # state => ~RightsOn]_vars

(* Rights that have lapsed come back through an applied change only; a     *)
(* late worker or a cancellation does not extend them (CompletePrepared,   *)
(* completeScheduledChange, confirm).                                      *)
RightsComeFromChanges ==
  [][~RightsOn /\ RightsOn' /\ state # "NONE"
       => \E c \in Change : phase[c] # "APPLIED" /\ phase'[c] = "APPLIED"]_vars

(* What is confirmed is what was previewed: the change takes effect on the *)
(* row the preview was made of, and its end moves by the time that passed  *)
(* since and by no more (confirm).                                         *)
ConfirmedAsPreviewed ==
  [][\A c \in Change : phase[c] = "PREVIEWED" /\ phase'[c] # "PREVIEWED"
       => state = beforeState[c] /\ endAt'[c] <= endAt[c] + (now - createdAt[c])]_vars

(* Grace is given once and counts from the end of the plan's rights,       *)
(* however late a worker comes (completeSubscriptionBoundary).             *)
GraceAnchored == state = "GRACE" => periodEnd = srcEnd + Grace

(* Every subscription with an end and no reservation has a transition that *)
(* will take it there (SaveBase, Complete, CompletePrepared).              *)
BoundaryCovered ==
  state \in {"ACTIVE", "GRACE"} /\ pending = NoChange /\ periodEnd # 0
    => Boundary(revision, periodEnd) \in queued \cup running

(* The same, as long as every change took effect at its confirmation: a    *)
(* bootstrap and direct changes always queue the boundary of the new       *)
(* period (saveConfirmed, ScheduleSubscriptionBoundary).                   *)
DirectBoundaryCovered ==
  (\A c \in Change : phase[c] # "NONE" => mode[c] = "IMMEDIATE" /\ ~input[c].prep)
    => BoundaryCovered

(* Grace is a way back: a subscription in GRACE can be renewed, that is,   *)
(* its sources pass the capture (completeSubscriptionBoundary,             *)
(* ValidateCurrentSources).                                                *)
GraceRecoverable == state = "GRACE" => SourcesMatch

(* A cancelled preparation does not revive a plan that had already been    *)
(* taken down (CancelPreparedSubscriptionChange).                          *)
CancelNeverRevives ==
  [][\A c \in Change :
       task[c] = "open" /\ task'[c] = "cancelled" /\ beforeState[c] \in {"RESTRICTED", "ENDED"}
         => state' # "ACTIVE"]_vars

(* Every scheduled change that is due is executed, rejected or handed to   *)
(* preparation (CompleteCommercialTimeTransition).                         *)
ScheduleResolves ==
  \A c \in Change : (phase[c] = "SCHEDULED" /\ effAt[c] <= now) ~> phase[c] # "SCHEDULED"

(* A period that is over, and whose boundary is queued or being worked on, *)
(* is noticed: the status leaves ACTIVE, the period was renewed, or a      *)
(* change has reserved the subscription (completeSubscriptionBoundary).    *)
ExpiryNoticed ==
  ( /\ state = "ACTIVE" /\ periodEnd # 0 /\ periodEnd <= now
    /\ Boundary(revision, periodEnd) \in queued \cup running )
    ~> (state # "ACTIVE" \/ periodEnd = 0 \/ periodEnd > now \/ pending # NoChange)

(* The end of a period is where the contract puts it and will be noticed:  *)
(* grace is counted from the end of the sources, and direct changes leave  *)
(* no period without a transition.                                         *)
PeriodInv == GraceAnchored /\ DirectBoundaryCovered
=============================================================================
