# The service in TLA+

A model of this multi-tenant service: how a tenant's subscription is opened,
changed and moved on by time, how approved changes are prepared at external
providers, how rights are resolved and enforced, who belongs to a tenant, how an
account proves who it is, and how events and messages reach their recipients.
The modules are checked with TLC on small instances; the safety properties are
proved with TLAPS for every value of the constants.

Contents: [inventory](#inventory), [modules](#modules-and-the-code),
[runs](#what-tlc-checks), [findings](#findings), [proofs](#what-is-proved),
[only model-checked](#what-is-only-model-checked),
[not modelled](#what-is-not-modelled).

## Inventory

The service is a multi-tenant Go application on MySQL. Operations run in *root
transactions*: one transaction per use case, with row locks taken in a fixed
order, the database's clock as the only clock, optimistic revisions on rows
that operators edit, and receipts that make a resent request idempotent.
Background workers are goroutines of the same binary; there can be several
replicas, and any of them may die at any point.

### The commercial part (`internal/commercial`)

* **Subscription** (`domain/subscription`): one base subscription per tenant.
  State: status, revision, period, renewal flag, and the id of the one pending
  change (the *reservation*). Operations: bootstrap, changes, time.
* **Subscription changes** (`application/subscriptionchanges`): preview, confirm,
  complete a prepared change, cancel it. A preview freezes what was seen
  (subscription, sources, catalogue and snapshot versions); a confirmation
  compares all of it again under locks and ends in one of four ways: applied at
  once, scheduled, handed to preparation, or renewal stopped.
* **Time transitions** (`domain/timetransition`): durable rows for what must
  happen at a date: the end of a period (`SUBSCRIPTION_BOUNDARY`), a scheduled
  change (`SCHEDULED_CHANGE`), the expiry of an entitlement. A worker claims a
  due row under a lease and completes it in one transaction.
* **Provisioning** (`domain/provisioning`, `application/provisioning`): the
  durable task of a change that needs external resources. Ordered steps, a
  lease with a growing token, retry budgets, a deadline; operators may retry or
  cancel.
* **Outbox** (`infrastructure/persistence/outbox.go`): events written with the
  change they announce, delivered under leases into an inbox, notifications and
  a projection that only moves forward.
* **Worker** (`internal/bizruntime/provisioning_worker.go`): every tick takes one
  due transition, one delivery and one task, in that order.
* **Entitlements, snapshots, enforcement, plans, catalogues**: sources of rights
  and their resolution into versioned snapshots, the guard that reads them, and
  the authoring of what is sold.

### The other parts

* **Access** (`internal/access`): members, roles and owners of a tenant; logins
  with the first-party identity provider; web sessions; verification codes and
  the one-time authorizations they are exchanged for; departments, scopes,
  delegation, service signatures, audit.
* **Notifications** (`internal/notification`): configuration, routing of events
  to recipients and channels, the inbox, delivery through external providers.
* **The console** (`web`): the page that opens a tenant's first subscription is
  a protocol of its own, with a journal that survives a reload.
* **Device operations** (`internal/deviceops`), and the composition, transports
  and generated contracts around all of these.

`PROJECT.json` lists each with its sources and its status.

### How the parts interact

    preview -> confirm --+-- at once ----------------> sources, APPLIED
                         |-- scheduled --> fence, transition --(due)--+
                         |                                            |
                         +-- needs preparation --> task <-------------+
                                                   |  claim, call, record
                                                   v
                              provider <-----> worker --> activation --> APPLIED

    every commit of these --> outbox row --> worker --> inbox, projection

### What is hard here

* A worker's tick is *not* atomic: claim, adapter call and record are three
  transactions with an external call between them. The lease may expire in any
  gap, and another worker may take the task.
* An external effect may be unknown. A timeout, a crash or a malformed answer
  says nothing about whether the resource exists; preparing again could create
  it twice, cancelling could leave it behind.
* Operators, workers and the clock race on the same rows: a boundary becomes
  due while a change is pending, a cancellation arrives after the period ended,
  a preview is confirmed as it expires.
* Workers are late. Rights must end on time even if no worker runs, and a late
  worker must not extend anything.
* Deliveries are repeated and reordered; failure reports come late.
* Rights are cached as snapshots. An operation that was admitted must run under
  rights that stand, whatever was revoked, deployed or expired in between.
* A command reads rows without locks, decides, and writes under locks. Versions
  must notice every change in between that matters.
* A browser may be reloaded while its request is still on the wire.

The `hazards` of `PROJECT.json` give the line where each of these bites and the
properties that would notice.

## Modules and the code

| module | models | theorems in |
| --- | --- | --- |
| `Provisioning` | the task, its use cases, the workers, the provider | `ProvisioningProofs` |
| `Outbox`; `Projection` | outbox rows, inbox, projection, delivering workers; what they promise | `OutboxProofs` |
| `SubscriptionLifecycle` | the subscription, its changes and its time transitions | `SubscriptionProofs` |
| `PlanManagement` | modules, features and plan versions as they are sold | `SubscriptionProofs` |
| `InitialSubscription` | the console page of the first subscription, and its server | `ConsoleProofs` |
| `EntitlementResolve`, `EntitlementSnapshot` | rights, their snapshots, the guard of operations | `EntitlementProofs` |
| `Membership` | members, roles, owners and scopes of a tenant | `MembershipProofs` |
| `FirstPartyLogin`, `WebSession` | logins and the sessions they create | `IdentityProofs` |
| `Verification` | codes, one-time authorizations, the security outbox | `OutboxProofs` |
| `NotificationWorkers`, `ExternalDelivery`, `NotificationRouting` | workers and recipients; delivery; routing and the composition of all | `NotificationProofs` |

The `MC` modules are the instances for TLC. Four of them (`MCActivation`,
`MCSubscriptionSales`, `MCMembership`, `MCIdentity`) hold two components that
share no row: the variable `part`, chosen in the initial state, says which of
the two moves, so a run explores the sum of the two state spaces and checks
each part's properties on its own behaviours.

A transaction that holds its row locks from the first read to the commit is one
action. Everything that happens between two transactions is a step of its own.
`map` in `PROJECT.json` gives the lines behind every definition. Definitions
whose comment says *faulty variant* are deliberate mistakes: each is put in the
place of the definition after it, to see that a property notices.

### `Provisioning`

The row and step variables are the fields of `Task` and `Step`. `Claim` is
`Task.Claim` with its six outcomes (past the deadline, activation, reconciliation,
preparation, and the two exhausted budgets); `Record` is `Task.Observe`;
`FinalizeCommits` activates the rights and completes the task in one transaction,
`FinalizeFails` is the rolled-back one followed by its separate record. `Retry`
and `Cancel` go through `Admitted`, the receipt and revision test of `mutate`.
A worker process carries what it learned from its claim (`wToken`, `wStage`,
`wStep`) and its observation across the gaps; `Crash` loses it.

The provider is outside the repository and modelled from the contract the
adapters are used with: a request takes effect, or is lost, at any time after it
left; `READY` and the two kinds of absence are only reported when true; anything
else, a panic or a malformed answer included, is `UNKNOWN`.

`TimelyDispatch` separates two worlds. With it, a worker that dispatches does so
before its lease is over. That is the intended case: the options are refused
unless the lease outlasts the step timeout by more than a second
(`provisioning_worker.go:51`). But the timeout starts at the call, and nothing
compares the lease with the clock there, so without the constant a worker may
stall between claim and call for any time. Properties that need the first world
say so in their statement.

### `Outbox` and `Projection`

An event is named by its aggregate version. Time is reduced to the two questions
the code asks of it, whether a lease has expired and whether the next attempt is
due. `Deliver` writes inbox, projection and acknowledgement in one transaction;
`Fail` is the separate report that may come late, find the row delivered, or find
another worker's lease. `Projection` says in 45 lines what a consumer may rely
on, and `Outbox` is shown to implement it.

### `SubscriptionLifecycle`

One tenant's row, the live PLAN sources (which share their expiry and their
revocation), a preview and receipt per change, and the transitions that are not
terminal. A snapshot or catalogue version is only ever compared with a
remembered one, so the model keeps *whether the remembered one is current*:
`fresh` for previews, `approved` for open tasks. `AuthorityMoves` lets any other
part of the system move the versions at any time; `Tick` moves them where a
source ends. `RightsOn` is what the tenant may actually use now.

`ConfirmPrepare`, `ConfirmSchedule`, `ConfirmStop` and `ConfirmApply` are the
four ends of `confirmChange`. `Fence` is `installTimeFence`: a scheduled switch
revokes the old sources at the switch's date in advance, so that their end does
not depend on a worker. `CompleteTransition` has one disjunct per outcome of
`CompleteCommercialTimeTransition`. The provisioning task appears only by its
end (`Activate`, `GiveUp`, `CancelPrepared`); its inside is `Provisioning`.

`TransitionPasses` also stands for the superseded branch of a scheduled change
(`time_transition.go:270-284`). That branch is unreachable: `ReservationBacked`
shows that the transition of a scheduled change always names the current
revision.

### `PlanManagement`

A command on modules holds the catalogue row exclusively; a command on the plan
holds it shared, and the plan's head exclusively. Features are read and written
outside both. A plan command is therefore two steps: what it reads and decides
(`CreatePlanDraft` to `RetirePlanVersion`), and `Save` or `Rollback`; feature
commands may fall between them.

### `InitialSubscription`

`useInitialSubscription.ts` is a set of asynchronous handlers over one page. A
call of a handler is a slot whose `at` names the answer it awaits; `wire` holds
the commands that were sent and not served. A reload or a change of tenant drops
the calls and keeps the wire and the journal in session storage. The server's
confirmation admits one change per tenant and replays a receipt by its request
id. A journal write that outlives its page is modelled at the reset, or never.

`Refused` is an answer 400 or 409. Besides a preview that is outdated or overtaken
it may mean that an earlier copy of the request is still running, that the
idempotency store could not be read, or that the transaction committed and its
completion could not be recorded; so `Confirm` may answer it at any time, also
after a commit. `recoverConcurrentActivation` then reads the receipt and the
subscription, and where both are absent (`Absent`) it clears the flow. Through
these reads `found` remembers whether another copy of the command was on the wire
when the refusal arrived, and `letGo` holds the changes given up when there was
none: history, which decides nothing the page does.

### `EntitlementResolve` and `EntitlementSnapshot`

`Resolve` is pure: precedence of refusals, quota arithmetic, dependencies
(`moduleReason`, a recursive function) and the next instant at which the answer
may change. `ResolvedAsPromised` compares it with a reference definition that
quantifies over everything a module needs instead of walking it. The state
machine has the tenant's head and newest row, the versions of the sources and
the epoch of the catalogue. A request is prepared in one transaction and executes
in another, where locks last to the commit, or reads at the root's read view.
Overrides, revocations, catalogue commands, deployments and time run beside it.

### `Membership`

An administrative operation takes the tenant's entitlement row before its first
plain read and keeps it: the *barrier*. Its plain reads come from the image of
that moment, its locking reads and version-guarded updates see current rows. So
it is two steps, `Begin` and a commit. Self-service (activation by link, contact
change, leaving) takes no barrier and may fall between the two.

### `FirstPartyLogin` and `WebSession`

A login is an authorization request whose forms a browser may send twice and in
any order. Each transaction of a form is a step, and the time that the throttle
goes by is read once, at the start. A session's requests read its row without a
lock and the account's authority after that; memberships, companies and the
password change in between. `since` records which companies were authorised at
some moment after a request began, which is what an answer must rest on.

### `Verification`

One user, purpose and destination. Challenges with their send limits and wrong
codes, the authorization a code is exchanged for, its single use, and the outbox
that delivers the code under leases to a sender that may or may not recognise
repeats (`idempotent`, chosen in the initial state). Ages are counted up, other
times down, so behaviours are not bounded by a clock.

### `NotificationWorkers`, `ExternalDelivery`, `NotificationRouting`

A worker does one thing at a time: route an event or deliver a task. The router
reads the configuration in three statements outside a transaction, so that it may
mix an old and a new one, and each recipient's standing in others. A channel the
process was started without an adapter for is recorded as unavailable; its last
transaction writes inbox, tasks and outcomes at once. Delivery is claim,
admission, call and completion, with the provider's callback beside them; the
provider is modelled from how the adapter classifies its answers.

## What TLC checks

| run | instance | states | shows |
| --- | --- | --- | --- |
| `prov_prepare` | 2 workers, 1 operator request, 2 steps, all limits 1 | 409,742 | rights only over real resources, nothing left behind by a cancellation, no repeated dispatch; every task comes to rest |
| `activation` | 2 requests, 1 step, 2 attempts, late dispatch allowed; and 1 tenant, 2 previews, 2 calls at once | 1,094,024 | row integrity, attempt budget, finality; and the console: unlocked only when nothing sent can take effect, success shown only where it is, a change that is given up takes effect later only by a copy that was still under way |
| `outbox_safety` | 2 workers, 3 versions, 2 deliveries | 70,875 | acknowledgement and projection agree; refinement of `Projection`, with its liveness |
| `sub_changes` | 2 changes of every kind, 1 worker; and 2 modules, 2 features, 1 plan | 623,324 | reservation, fence, period, no early degradation, no revival of rights, confirmation as previewed; and offers that fit the catalogue and are published as validated |
| `sub_live` | 2 scheduled changes, 2 workers | 108,413 | a due scheduled change is settled, the end of a period is noticed |
| `members` | 2 administrative requests, 2 users; and 1 session, 2 requests, 2 companies | 558,107 | an owner is always present, restorations are faithful; and answers under authority, context versions, no revival of sessions |
| `notifications` | 2 workers, 1 event, 2 recipients, 2 configurations | 167,804 | routed once and freshly, sent with consent, within the budget, at most once where the provider cannot repeat; everything settles |
| `identity` | 2 events, 2 clients, 2 workers; and 2 requests over a login | 1,168,932 | limits under races, single use, delivery that repeats nothing; and one grant per flow, consent first, lock at the limit |
| `entitlements` | 2 dependent modules, a writing and a reading request | 201,502 | heads are exact, operations run and read under rights that stand, `Resolve` as promised |
| `sub_grace`, `sub_orphan`, `sub_cancel` | as `sub_changes`, horizon 5 | | three disagreements, see [findings](#findings) |

**Bounds.** Every limit of the code is a constant (32 reconciliations, 3
activations, 10 retry cycles, 5 deliveries and so on). What the properties depend
on is that a limit can be reached, passed and raced, which small values give.

* `Provisioning`: a lease of 2 ticks, a deadline of 3 and a horizon of 6 leave
  room for lost leases before the deadline and for claims after it.
* `SubscriptionLifecycle`: a plan lasts 2 ticks, grace 1 and a preview 2, so that
  by tick 4 a period starts, is changed, ends, and has its grace; two changes are
  enough for one to be reserved while the other is previewed, confirmed or
  cancelled. `AllInputs` covers every action, at once and dated, with and without
  preparation, to limited and to unlimited plans.
* `PlanManagement`: 8 commands (`MaxCommands`) reach a second version of a plan
  after a module was verified, sold and withdrawn.
* `InitialSubscription`: `MaxTraffic` 7 requests, of which a preview counts as
  two: a confirmation, its retry, a reload and a competing change fit in.
* `EntitlementSnapshot`: two ticks, one catalogue move and three versions; module
  `b` needs `a`; five initial sources and three offers cover grants, denials,
  limits, overlaps and replacements; the clock of a request may be one tick ahead
  of the database's (`ClockOffset`).
* `Membership`: three versions of a row, enough to change it twice between the
  two steps of a request; `WebSession`: one switch of company (`MaxContext`), which
  others race with and lose, and three ticks with sessions that live for two, so
  that a session expires under its requests.
* `FirstPartyLogin`: `MaxFailures` is 3, the smallest that its policy admits.
  `Verification`: one send per window, one try, two deliveries.
* Notifications: one change of configuration, one fault, two attempts.

Workers and changes are interchangeable, and runs without liveness properties
use that symmetry where the parts allow it.

**Deadlock** is not checked: at a horizon, or with every task settled and every
event delivered, the system may rest.

**Fairness.**

* `Provisioning`: weak fairness of the clock and of each worker's step. The poll
  loop `start` runs until shutdown and database time passes. Crashes, lost
  requests and stale approvals are unrestricted.
* `Outbox`: weak fairness of each worker's step and of leases and back-offs
  running out. Crashes are unrestricted.
* `SubscriptionLifecycle`: weak fairness of the clock and of claims; strong
  fairness of a worker's completion, because it is enabled only while a lease
  lasts and leases may be lost again and again. It says that a completion which
  is tried for ever commits some time: the lease is far longer than the
  transaction. The code has no attempt limit here, so this cannot be weakened.
* `NotificationRouting`: weak fairness of the clock and of the workers together
  (`Work`): the runtime polls until shutdown, and one replica is enough.

## Findings

Three runs end in a violation. Each states what a document or a comment of the
repository says.

* `sub_grace`. Entering GRACE moves the period's end to the end of the grace
  (`time_transition.go:226`) and leaves the sources' expiry where it was. Every
  later preview compares the two (`ValidateCurrentSources`) and answers
  `ErrCorrupt`, so a subscription in GRACE can be neither renewed nor switched.
  `docs/commercial-entitlements/routes/R5-automation.md:29` promises an explicit
  way to recover after expiry.
* `sub_orphan`. Cancelling a prepared change increments the revision
  (`prepared.go:229`) without writing the boundary of the new revision. The old
  boundary will be superseded, so the period ends with nobody to notice. The
  failure of a scheduled change does the same. The comment at
  `timetransition_factories.go:87` says that a new boundary is persisted so that
  provisioning "cannot accidentally orphan expiration".
* `sub_cancel`. Confirming a renewal that needs preparation sets the status of a
  RESTRICTED subscription to ACTIVE at once (`confirm.go:201`); the cancellation
  (`prepared.go:234`) keeps it. The comment at `prepared.go:231` says that
  cancellation must not revive the expired old plan.

In none of them are rights given: the sources stay expired. What is wrong is the
status and the way out of it. `RightsComeFromChanges` shows the former.

### Observations

Corners met while modelling that no document contradicts, or that are closed by
something outside the modelled lines.

* The branch of `Task.Claim` that ends a task with `PREPARATION_RETRIES_EXHAUSTED`
  is dead, because `Task.Observe` always enforces the budget first: the last
  conjunct of `AttemptBudget`.
* An override created while its module is deleted is stopped by the foreign key
  `ce04_module_source_reference`, not by the validation, which read earlier.
* A commercial feature has no such key: it can be created over a module that was
  deleted in between. A feature may also be retired between the validation of a
  publication and its commit, and eligibility does not look at features again.
  `RetirePlanVersion` validates features as well, so a version whose feature is
  gone cannot be retired.
* `SwitchWebSessionTenant` reads the session again after authentication, so its
  version test compares with the second read. Suspending a tenant does not revoke
  sessions; their next request is refused instead. Completing an initial password
  for a login leaves other sessions as they are.
* A request that is slower than the lock-out goes by a stale time in the throttle;
  `LoginInv` says what remains true: the failure that reaches the limit locks, and
  past the lock a password is compared only for requests that raced with it.
* The console: a confirmation refused under one request id, then sent under a
  second while the journal cannot be written, is restored after a reload under
  the first id. Both may be on the wire; the server admits one. Restoring two
  changes of a plan at once can show one's receipt beside the other's preview,
  but never as verified.
* The console again: a refusal of one copy of a confirmation says nothing of
  another. When an earlier copy is still running (409), or the idempotency store
  fails under the later one (400), `recoverConcurrentActivation` may find neither
  receipt nor subscription, clear the flow and offer a new preview; the earlier
  copy may commit after that. The administrator then meets the subscription at the
  next preview or confirmation, and the tenant still gets one only.
  `GivenUpForGood` says where this cannot happen.
* `completeScheduledChange` turns a terminal error of `applySources` into a failure
  of the change in the same transaction (`time_transition.go:358-363`), so what was
  written before the error stays. The rows are locked and were compared just
  before, so no terminal error is known to arise after the first write, and
  `ScheduleFails` leaves the sources alone.
* A module that was ever verified cannot be deleted, because of the foreign key of
  its verifications, although `Delete` does not look at them.

## What is proved

Every safety property that a passing run checks is proved, for any sets of
workers, requests, changes, members, sessions and modules, any limits and any
horizon, except for one conjunct of `OfferInv` (see
[below](#what-is-only-model-checked)). `theorems` in `PROJECT.json` lists the
results. In each module an inductive invariant is established action by action;
the properties follow from it.

**Assumptions.** Each is named, in the module that declares the constants:
`ConstantsAssumption`, `OutboxAssumption`, `LifecycleAssumption`,
`OfferAssumption`, `ConsoleAssumption`, `RegistryAssumption`,
`SnapshotAssumption`, `MembershipAssumption`, `LoginAssumption`,
`SessionAssumption`, `PolicyAssumption`, `WorkersAssumption`,
`DeliveryAssumption`, `RoutingAssumption`. They say that numbers are natural
numbers, positive where the code's `Validate` demands it, and that "none" names
nothing. Five say more: dependencies have no cycle and capabilities one owner
(`Registry.Validate`), the initial sources passed `Source.Validate`, a login is
locked after three failures at the earliest (`FirstPartyLoginPolicy.Validate`),
the refresh window is shorter than a session's life, and the listed modules come
with what they depend on.

**`Provisioning`** (`Invariance`, `AppliedSafe`, `CancelSafe`, `DispatchSafe`,
`TerminalSafe`, `IntegritySafe`, `AttemptsBounded`). That an applied task has all
its resources is not inductive: nothing in it says why the evidence a worker is
about to record is true *now*. `IInv` adds three parts. *LeaseInv*: tokens
identify claims, so a worker whose token is the row's works on the row's stage
and step. *ProgressInv*: steps before the index are ready, those after it
untouched, the one being worked on unknown. *EvidenceInv*: stored effects are true
of the provider, and so is what the lease holder has observed but not recorded. A
late worker holds an old token, so its observation is never recorded; that is the
whole argument, and `LeaseInv` is what makes it go through. For the budget,
`BudgetInv` counts receipts by cardinality, bounds the claims of earlier cycles,
and says that steps not reached yet were never attempted.

**`Outbox`** (`OutboxInvariance`, `ProjectionSafe`, `BudgetSafe`, `DoneSafe`,
`Refinement`). `OInv` adds to the properties that only a leased row carries a
lease and that the token counts the attempts. `Refinement` shows that every step
maps to `Publish`, `Receive`, `Abandon` or a stutter.

**`Verification`** (`CodeInvariance`, `CodesSafe`, `AuthorizationSpentOnce`). `CInv`
relates the four rows of an event: a challenge is consumed exactly when it has an
authorization, and what remains of an authorization or a delay ends before a
known age. *CallsOK* is the argument for sending once: while a worker may still
call, nobody else may and nothing was accepted. *RateBounded* counts the
challenges and the requests about to insert one: the check of the send limits is
not serialised, so each of the requests that race, but one, may exceed them once.

**`SubscriptionLifecycle`** (`LifecycleInvariance`, `ReservationSafe`, `FenceSafe`,
`DegradeSafe`, `RightsSafe`, `PeriodSafe`, `PreviewKept`). `LInv` strengthens
`ReservationBacked` with five facts: what is known of a change's input, that a
leased transition is due and has one holder, that a waiting change has its fence
set at its date or earlier, that a first activation owns its subscription, and
that sources end no later than the period. The fence is the central one.
`FenceCloses` speaks of the instant the switch is due; the invariant has to say
that the revocation was written when the change was confirmed and that no step in
between moved it. For the period, `PInv` says that no transition is ahead of the
row and that only grace puts the period's end after that of the sources. For
previews, *FreshAsSeen* says that a preview that is current still shows the row
as it is, with the end that was computed when it was made.

**`PlanManagement`** (`OffersFit`, `PublishedAsValidated`). A command in flight holds
an image of modules; *InFlight* says that the shared lock keeps the image true of
everything but features until the commit.

**`InitialSubscription`** (`ConsoleSafe`, `GivenUpSafe`). `HandlerInv` says what
each awaiting call may still rely on. *ServerInv*: a receipt is that of its
tenant's subscription, what is on the wire was previewed and sent once, what is
given up is unconfirmed and either not under way or overtaken. *TabInv*: what the
page shows is the tenant's. *CrowdInv*: handlers run beside each other only once
the tenant has its subscription. *CallInv*: an answer on its way back is still
true where the handler will use it. *LetGoInv*: the page shows a change that was
given up only where the tenant has another, and restoring it ends the claim. That
a command was refused is no reason to unlock; that neither its receipt nor the
subscription exists is one as far as no copy is under way, and `GivenUpSafe`
claims it for that case. A copy that is under way can still commit, see
[observations](#observations); what holds without any condition is that a tenant's
confirmed first changes are one at most.

**Entitlements** (`SnapshotInvariance`, `SnapshotSafe`, `HeadIsExact`,
`ExecutionUnderRights`, `ReadsUnderRights`). Two lemmas about `Resolve` carry the
rest. `ReasonAllowed`: the recursive walk of the dependencies allows a module
exactly when everything it needs is sound, proved by well-founded descent, which
the absence of cycles permits. `StillLive`, `TransitionSeen`: no source starts or
ends before the instant that `NextTransition` names. `IInv` then says that a head
and its row, wherever they are stored, locked or read, are the answer for their
inputs, and that a prepared request's observation vouches for the head as long as
neither version has moved.

**`Membership`** (`MembershipInvariant`, `OwnerAlwaysPresent`, `HeldRolesStayActive`,
`RemovedMembersHoldNothing`, `MembersMoveAsModelled`, `RestoredAsRemoved`). `MInv`
adds to the promises that the barrier has one holder and that what a request read
stands while the version it read stands. `SnapshotInv` extends that to the roles
a restoration will give back, which live in a row of another version.

**Logins and sessions** (`LoginInvariance`, `LoginSafe`; `SessionInvariance`,
`SessionSafe`, `AnswersUnderAuthority`, `SessionsMoveAsModelled`). `FInv`: at most
one request is exchanging, and then the flow is spent and nothing was granted;
a code goes back to an accepted consent and a spent request; some request is not
past the lock. `WInv`: a request's version is not newer than the row's, and where
it is the same, so are company and state.

**Notifications** (`RoutingSafe`, `DeliverySafe`, `FreshSafe`, `ConsentSafe`).
*FreshInv*: everything a router has read was said by some configuration in force
since its claim, though not all by the same one. *PlansOK*, *EventsOK*: a plan
decides once for a recipient and channel, and an event that is not routed has left
nothing. *HopeInv*: a worker whose call may still be accepted is the only one, and
nothing was accepted before. `BudgetInv` counts the calls still to be made with
those made.

The action properties (`DispatchSafe`, `TerminalSafe`, `DoneSafe`, `DegradeSafe`,
`RightsSafe`, `PreviewKept`, `PublishedAsValidated`, `RestoredAsRemoved`,
`SessionsMoveAsModelled`, `AuthorizationSpentOnce`, `FreshSafe`, `ConsentSafe` and
those like them) follow from the invariants, one case per action.

## What is only model-checked

* Liveness: `EventuallySettles`, `ImplementsProjectionLive`, `ScheduleResolves`,
  `ExpiryNoticed`, `NotificationsSettle`. Fairness and `ENABLED` are outside what
  TLAPS can prove here.
* The second conjunct of `OfferInv`: the head's revision is the sum of those of
  the versions. The sum is a fold over a set, and what a fold computes takes
  induction over data. Everything else in `OfferInv` is `OfferRows`, which
  `OffersFit` proves.
* The properties of the three violation runs, which are false.

## What is not modelled

* In the commercial part: how a change is classified as an upgrade or a downgrade,
  the default rules that choose the base plan, the expiry transitions of
  entitlement overrides, the snapshot cache (addressed by version and digest, and
  used only when it decodes as the stored row would), deployments that roll over
  several binaries at once, retries after a database deadlock, explanations,
  digests and canonical encodings.
* That one goroutine runs transition, delivery and task in this order and that an
  error of one ends the tick: the parts share no row, and their product is past
  the bounds of one run.
* In access: departments, data policies and delegation, role permissions and the
  creation of tenants, service signatures (one atomic insert of a nonce), other
  identity providers and platform identities, appeals, audit, and the older
  delivery path of security notifications, which nothing composes at run time.
* In notifications: marking messages read, and the management queries.
* Device operations, whose saga is run by a framework outside the repository.
* Transports, generated contracts, wiring and the other pages of the web console:
  they convert a request and call one use case.
