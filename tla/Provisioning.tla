---------------------------- MODULE Provisioning ----------------------------
(***************************************************************************)
(* The durable provisioning task of one approved subscription change       *)
(* (domain/provisioning/model.go), the use cases that lock, change and     *)
(* save it (application/provisioning/internal/usecase/service.go), the     *)
(* workers that poll it (bizruntime/provisioning_worker.go) and the        *)
(* external provider behind the preparation adapters.                      *)
(*                                                                         *)
(* Every use case runs in one root transaction that holds the task's row   *)
(* lock, so each is one action here.  What is NOT atomic is a worker's     *)
(* tick: claim, adapter call and record are three separate transactions,   *)
(* and the adapter call runs outside any of them.                          *)
(***************************************************************************)
EXTENDS Naturals, FiniteSets

CONSTANTS
  Worker,             \* worker processes (provisioner-<nonce>)
  Request,            \* idempotency keys of operator requests
  NSteps,             \* number of ordered requirements of the task
  MaxAttempts,        \* Requirement.MaxAttempts, attempts of one cycle
  ReconcileLimit,     \* 32 in the code
  ActivationLimit,    \* 3 in the code
  RetryLimit,         \* 10 in the code
  Lease,              \* lease duration in ticks
  Deadline,           \* approval deadline in ticks (24 h in the code)
  Horizon,            \* bound on the clock
  TimelyDispatch      \* TRUE: a worker dispatches only within its lease

NoWorker == "none"

ASSUME ConstantsAssumption ==
  /\ NSteps \in Nat \ {0}
  /\ MaxAttempts \in Nat \ {0}
  /\ ReconcileLimit \in Nat
  /\ ActivationLimit \in Nat
  /\ RetryLimit \in Nat
  /\ Lease \in Nat \ {0}
  /\ Deadline \in Nat \ {0}
  /\ Horizon \in Nat
  /\ TimelyDispatch \in BOOLEAN
  /\ NoWorker \notin Worker

VARIABLES
  now,             \* database clock
  \* the task row
  state, revision, index, stage, nextAt, owner, token, until,
  retryAllowed,    \* an operator may retry
  cancelDisabled,  \* fixed at creation: set for a first activation
  cycles,          \* RetryCycles
  activations,     \* ActivationAttempts
  \* the step rows, by step number
  effect,          \* what is known of the external effect
  attempts,        \* prepare claims over the task's life
  cycle,           \* CycleAttempts: prepare claims of this cycle
  recon,           \* Reconciliations
  \* what each worker process holds between its transactions
  pc, wToken, wStage, wStep, wOutcome,
  \* operators
  request,         \* operation and expected revision of each request
  receipt,         \* requests that own a stored action receipt
  \* outside the service
  provider,        \* steps whose external resource exists
  inflight,        \* prepare requests sent and not yet settled
  fresh,           \* the approval still validates
  activated        \* how often the approved rights were activated

leaseVars == <<owner, token, until>>
rowVars == <<state, revision, index, stage, nextAt, leaseVars, retryAllowed, cancelDisabled,
             cycles, activations>>
stepVars == <<effect, attempts, cycle, recon>>
taskVars == <<rowVars, stepVars>>
heldVars == <<wToken, wStage, wStep>>
workerVars == <<pc, heldVars, wOutcome>>
operatorVars == <<request, receipt>>
externalVars == <<provider, inflight>>
vars == <<now, taskVars, workerVars, operatorVars, externalVars, fresh, activated>>

-----------------------------------------------------------------------------
(* Values *)

Step == 1..NSteps
TaskState == {"QUEUED", "RUNNING", "RETRY_WAIT", "READY", "APPLIED", "FAILED",
              "RECONCILIATION_REQUIRED", "CANCELLED"}
Stage == {"PREPARE", "RECONCILE", "ACTIVATE"}
Outcome == {"READY", "ABSENT", "RETRYABLE", "PERMANENT", "UNKNOWN"}

(* Step.State carries nothing more than Effect: it is READY exactly when   *)
(* the effect is, and RUNNING while a claim works on the step.             *)
Effect == {"ABSENT", "UNKNOWN", "READY"}

(* "claimed": the claim has committed; "calling": the prepare request has  *)
(* left; "observed": the worker holds the outcome it will record.          *)
Pc == {"idle", "claimed", "calling", "observed"}

(* An operator request fixes its operation and expected revision when it   *)
(* is first sent; a resend carries the same key and the same content.      *)
RequestRow == [op: {"NONE", "RETRY", "CANCEL"}, expected: Nat]

BackoffTable == <<1, 2, 4, 8, 16, 32, 64>>
Backoff(n) == IF n > 6 THEN BackoffTable[7] ELSE BackoffTable[n + 1]

-----------------------------------------------------------------------------
(* State predicates of the task *)

Settled == {"APPLIED", "CANCELLED", "FAILED", "RECONCILIATION_REQUIRED"}
Terminal == state \in {"APPLIED", "CANCELLED"}

Due ==
  IF state = "RUNNING"
  THEN now >= until
  ELSE state \in {"QUEUED", "RETRY_WAIT", "READY"} /\ now >= nextAt

(* Faulty variant: the lease is not fenced by owner and token. *)
OwnsUnfenced(w) == state = "RUNNING" /\ now < until

Owns(w) == state = "RUNNING" /\ owner = w /\ token = wToken[w] /\ now < until

(* Faulty variants: an uncertain effect is taken for no effect; a terminal *)
(* task may be cancelled again.                                            *)
CancellableUncertain ==
  /\ ~cancelDisabled
  /\ state # "RUNNING"
  /\ ~Terminal
  /\ \A i \in Step : effect[i] # "READY"

CancellableTerminal ==
  /\ ~cancelDisabled
  /\ state # "RUNNING"
  /\ \A i \in Step : effect[i] = "ABSENT"

Cancellable ==
  /\ ~cancelDisabled
  /\ state # "RUNNING"
  /\ ~Terminal
  /\ \A i \in Step : effect[i] = "ABSENT"

(* Faulty variant: only an expired lease is reconciled. *)
UncertainWhenExpired == state = "RUNNING"

(* The current step must be reconciled before anything else is tried. *)
Uncertain == state = "RUNNING" \/ effect[index] = "UNKNOWN"

Init ==
  /\ now = 0
  /\ state = "QUEUED"
  /\ revision = 1
  /\ index = 1
  /\ stage = "PREPARE"
  /\ nextAt = 0
  /\ owner = NoWorker /\ token = 0 /\ until = 0
  /\ retryAllowed = FALSE
  /\ cancelDisabled \in BOOLEAN
  /\ cycles = 0
  /\ activations = 0
  /\ effect = [i \in Step |-> "ABSENT"]
  /\ attempts = [i \in Step |-> 0]
  /\ cycle = [i \in Step |-> 0]
  /\ recon = [i \in Step |-> 0]
  /\ pc = [w \in Worker |-> "idle"]
  /\ wToken = [w \in Worker |-> 0]
  /\ wStage = [w \in Worker |-> "PREPARE"]
  /\ wStep = [w \in Worker |-> 1]
  /\ wOutcome = [w \in Worker |-> "UNKNOWN"]
  /\ request = [r \in Request |-> [op |-> "NONE", expected |-> 0]]
  /\ receipt = {}
  /\ provider = {}
  /\ inflight = {}
  /\ fresh = TRUE
  /\ activated = 0

-----------------------------------------------------------------------------
(* Updates of the row that several operations share *)

(* Faulty variant: the lease owner stays on the released row. *)
ReleaseKeepsOwner(to) ==
  /\ state' = to
  /\ until' = 0
  /\ revision' = revision + 1
  /\ UNCHANGED <<owner, token, cancelDisabled>>

(* release and finishRevision: the row leaves RUNNING for another state. *)
Release(to) ==
  /\ state' = to
  /\ owner' = NoWorker
  /\ until' = 0
  /\ revision' = revision + 1
  /\ UNCHANGED <<token, cancelDisabled>>

(* The tail of Claim: the row is leased and the worker takes the work. *)
LeaseTo(w, for) ==
  /\ state' = "RUNNING"
  /\ stage' = for
  /\ owner' = w
  /\ token' = token + 1
  /\ until' = now + Lease
  /\ revision' = revision + 1
  /\ pc' = [pc EXCEPT ![w] = "claimed"]
  /\ wToken' = [wToken EXCEPT ![w] = token + 1]
  /\ wStage' = [wStage EXCEPT ![w] = for]
  /\ wStep' = [wStep EXCEPT ![w] = index]
  /\ UNCHANGED <<index, nextAt, retryAllowed, cancelDisabled, cycles, wOutcome>>

(* The worker's tick ends: its local variables are gone. *)
TickEnds(w) ==
  /\ pc' = [pc EXCEPT ![w] = "idle"]
  /\ wToken' = [wToken EXCEPT ![w] = 0]
  /\ wStage' = [wStage EXCEPT ![w] = "PREPARE"]
  /\ wStep' = [wStep EXCEPT ![w] = 1]
  /\ wOutcome' = [wOutcome EXCEPT ![w] = "UNKNOWN"]

-----------------------------------------------------------------------------
(* ClaimProvisioningWork: Task.Claim under the row lock *)

(* Faulty variant: only preparation respects the approval deadline. *)
ClaimPastDeadlineOfSteps ==
  /\ now >= Deadline
  /\ index <= NSteps
  /\ Release("RECONCILIATION_REQUIRED") /\ retryAllowed' = FALSE
  /\ UNCHANGED <<index, stage, nextAt, cycles, activations, stepVars, workerVars>>

ClaimPastDeadline ==
  /\ now >= Deadline
  /\ Release("RECONCILIATION_REQUIRED") /\ retryAllowed' = FALSE
  /\ UNCHANGED <<index, stage, nextAt, cycles, activations, stepVars, workerVars>>

ClaimActivation(w) ==
  /\ now < Deadline
  /\ index = NSteps + 1
  /\ activations < ActivationLimit
  /\ activations' = activations + 1
  /\ LeaseTo(w, "ACTIVATE")
  /\ UNCHANGED stepVars

ClaimActivationExhausted ==
  /\ now < Deadline
  /\ index = NSteps + 1
  /\ activations >= ActivationLimit
  /\ activations' = activations + 1
  /\ stage' = "ACTIVATE"
  /\ Release("FAILED") /\ retryAllowed' = TRUE
  /\ UNCHANGED <<index, nextAt, cycles, stepVars, workerVars>>

ClaimReconcile(w) ==
  /\ now < Deadline
  /\ index <= NSteps
  /\ Uncertain
  /\ recon[index] < ReconcileLimit
  /\ recon' = [recon EXCEPT ![index] = @ + 1]
  /\ effect' = [effect EXCEPT ![index] = "UNKNOWN"]
  /\ LeaseTo(w, "RECONCILE")
  /\ UNCHANGED <<activations, attempts, cycle>>

ClaimReconcileExhausted ==
  /\ now < Deadline
  /\ index <= NSteps
  /\ Uncertain
  /\ recon[index] >= ReconcileLimit
  /\ Release("RECONCILIATION_REQUIRED") /\ retryAllowed' = FALSE
  /\ UNCHANGED <<index, stage, nextAt, cycles, activations, stepVars, workerVars>>

(* The invariant AttemptBudget shows that the first branch is never taken. *)
ClaimPrepare(w) ==
  /\ now < Deadline
  /\ index <= NSteps
  /\ ~Uncertain
  /\ IF cycle[index] >= MaxAttempts
     THEN /\ Release("FAILED") /\ retryAllowed' = TRUE
          /\ UNCHANGED <<index, stage, nextAt, cycles, activations, stepVars, workerVars>>
     ELSE /\ attempts' = [attempts EXCEPT ![index] = @ + 1]
          /\ cycle' = [cycle EXCEPT ![index] = @ + 1]
          /\ effect' = [effect EXCEPT ![index] = "UNKNOWN"]
          /\ LeaseTo(w, "PREPARE")
          /\ UNCHANGED <<activations, recon>>

Claim(w) ==
  /\ pc[w] = "idle"
  /\ Due
  /\ \/ ClaimPastDeadline
     \/ ClaimActivation(w)
     \/ ClaimActivationExhausted
     \/ ClaimReconcile(w)
     \/ ClaimReconcileExhausted
     \/ ClaimPrepare(w)
  /\ UNCHANGED <<now, operatorVars, externalVars, fresh, activated>>

-----------------------------------------------------------------------------
(* The adapter call, outside every transaction: invokePreparation *)

Observes(w, o) ==
  /\ pc' = [pc EXCEPT ![w] = "observed"]
  /\ wOutcome' = [wOutcome EXCEPT ![w] = o]
  /\ UNCHANGED heldVars

Exists(i) == i \in provider
RequestsFor(i) == {r \in inflight : r.step = i}
OwnRequest(w) == [step |-> wStep[w], token |-> wToken[w]]

(* Evidence an adapter may give.  READY needs a provider reference;        *)
(* ABSENT, RETRYABLE and PERMANENT need positive absence: no resource, and *)
(* no other request that could still create it.  UNKNOWN is always         *)
(* possible: a timeout, a panic, or a result that fails Validate.          *)
Evidence(i, o, others) ==
  \/ o = "READY" /\ Exists(i)
  \/ o \in {"ABSENT", "RETRYABLE", "PERMANENT"} /\ ~Exists(i) /\ others = {}
  \/ o = "UNKNOWN"

(* No adapter of the exact version is registered in this process. *)
AdapterMissing(w) ==
  /\ pc[w] = "claimed"
  /\ \/ wStage[w] = "PREPARE" /\ Observes(w, "RETRYABLE")
     \/ wStage[w] = "RECONCILE" /\ Observes(w, "UNKNOWN")
  /\ UNCHANGED <<now, taskVars, operatorVars, externalVars, fresh, activated>>

Dispatch(w) ==
  /\ pc[w] = "claimed"
  /\ wStage[w] = "PREPARE"
  /\ TimelyDispatch => Owns(w)
  /\ inflight' = inflight \cup {OwnRequest(w)}
  /\ pc' = [pc EXCEPT ![w] = "calling"]
  /\ UNCHANGED <<now, taskVars, heldVars, wOutcome, operatorVars, provider, fresh, activated>>

(* The call returns.  An answer other than UNKNOWN settles the worker's    *)
(* own request.                                                            *)
PrepareReturns(w) ==
  /\ pc[w] = "calling"
  /\ \E o \in Outcome :
       /\ Evidence(wStep[w], o, RequestsFor(wStep[w]) \ {OwnRequest(w)})
       /\ Observes(w, o)
       /\ inflight' = IF o = "UNKNOWN" THEN inflight ELSE inflight \ {OwnRequest(w)}
  /\ UNCHANGED <<now, taskVars, operatorVars, provider, fresh, activated>>

ReconcileReturns(w) ==
  /\ pc[w] = "claimed"
  /\ wStage[w] = "RECONCILE"
  /\ \E o \in Outcome : Evidence(wStep[w], o, RequestsFor(wStep[w])) /\ Observes(w, o)
  /\ UNCHANGED <<now, taskVars, operatorVars, externalVars, fresh, activated>>

(* The provider acts on a request, or the request is lost. *)
ProviderActs ==
  /\ \E r \in inflight : provider' = provider \cup {r.step} /\ inflight' = inflight \ {r}
  /\ UNCHANGED <<now, taskVars, workerVars, operatorVars, fresh, activated>>

RequestLost ==
  /\ \E r \in inflight : inflight' = inflight \ {r}
  /\ UNCHANGED <<now, taskVars, workerVars, operatorVars, provider, fresh, activated>>

-----------------------------------------------------------------------------
(* RecordProvisioningWork: Task.Observe under the row lock *)

ObserveActivation(o) ==
  /\ stage = "ACTIVATE"
  /\ \/ /\ o = "RETRYABLE"
        /\ Release("RETRY_WAIT") /\ retryAllowed' = TRUE
        /\ nextAt' = now + Backoff(activations)
     \/ /\ o # "RETRYABLE"
        /\ Release("RECONCILIATION_REQUIRED") /\ retryAllowed' = FALSE
        /\ UNCHANGED nextAt
  /\ UNCHANGED <<index, stage, cycles, activations, stepVars>>

ObserveReady(o) ==
  /\ stage # "ACTIVATE"
  /\ o = "READY"
  /\ effect' = [effect EXCEPT ![index] = "READY"]
  /\ index' = index + 1
  /\ nextAt' = now
  /\ retryAllowed' = FALSE
  /\ \/ index < NSteps /\ Release("QUEUED") /\ UNCHANGED stage
     \/ index = NSteps /\ Release("READY") /\ stage' = "ACTIVATE"
  /\ UNCHANGED <<cycles, activations, attempts, cycle, recon>>

(* Faulty variant: one attempt too many before the budget stops the step. *)
ObserveAbsentOneMore(o) ==
  /\ stage # "ACTIVATE"
  /\ o \in {"ABSENT", "RETRYABLE"}
  /\ effect' = [effect EXCEPT ![index] = "ABSENT"]
  /\ retryAllowed' = TRUE
  /\ \/ cycle[index] > MaxAttempts /\ Release("FAILED") /\ UNCHANGED nextAt
     \/ /\ cycle[index] <= MaxAttempts
        /\ Release("RETRY_WAIT")
        /\ nextAt' = now + Backoff(cycle[index])
  /\ UNCHANGED <<index, stage, cycles, activations, attempts, cycle, recon>>

ObserveAbsent(o) ==
  /\ stage # "ACTIVATE"
  /\ o \in {"ABSENT", "RETRYABLE"}
  /\ effect' = [effect EXCEPT ![index] = "ABSENT"]
  /\ retryAllowed' = TRUE
  /\ \/ cycle[index] >= MaxAttempts /\ Release("FAILED") /\ UNCHANGED nextAt
     \/ /\ cycle[index] < MaxAttempts
        /\ Release("RETRY_WAIT")
        /\ nextAt' = now + Backoff(cycle[index])
  /\ UNCHANGED <<index, stage, cycles, activations, attempts, cycle, recon>>

ObservePermanent(o) ==
  /\ stage # "ACTIVATE"
  /\ o = "PERMANENT"
  /\ effect' = [effect EXCEPT ![index] = "ABSENT"]
  /\ Release("FAILED") /\ retryAllowed' = FALSE
  /\ UNCHANGED <<index, stage, nextAt, cycles, activations, attempts, cycle, recon>>

ObserveUnknown(o) ==
  /\ stage # "ACTIVATE"
  /\ o = "UNKNOWN"
  /\ effect' = [effect EXCEPT ![index] = "UNKNOWN"]
  /\ Release("RECONCILIATION_REQUIRED") /\ retryAllowed' = TRUE
  /\ UNCHANGED <<index, stage, nextAt, cycles, activations, attempts, cycle, recon>>

Observe(o) ==
  \/ ObserveActivation(o)
  \/ ObserveReady(o)
  \/ ObserveAbsent(o)
  \/ ObservePermanent(o)
  \/ ObserveUnknown(o)

(* A worker that lost its lease gets ErrLease and drops the outcome; one   *)
(* whose activation committed but whose acknowledgement was lost reads the *)
(* applied task back.  Neither changes the task.                           *)
Record(w) ==
  /\ pc[w] = "observed"
  /\ \/ Owns(w) /\ Observe(wOutcome[w])
     \/ ~Owns(w) /\ UNCHANGED taskVars
  /\ TickEnds(w)
  /\ UNCHANGED <<now, operatorVars, externalVars, fresh, activated>>

-----------------------------------------------------------------------------
(* FinalizeProvisioningWork with CompletePreparedSubscriptionChange and    *)
(* Task.Complete: one transaction                                          *)

FinalizeCommits(w) ==
  /\ pc[w] = "claimed"
  /\ wStage[w] = "ACTIVATE"
  /\ Owns(w)
  /\ index = NSteps + 1
  /\ fresh
  /\ now < Deadline
  /\ Release("APPLIED") /\ retryAllowed' = FALSE
  /\ activated' = activated + 1
  \* the reply reaches the worker, or is lost and reads as Unavailable
  /\ \/ TickEnds(w)
     \/ Observes(w, "RETRYABLE")
  /\ UNCHANGED <<now, index, stage, nextAt, cycles, activations, stepVars, operatorVars,
                 externalVars, fresh>>

(* The transaction rolls back: RETRYABLE for Unavailable and for           *)
(* DeadlineExceeded, UNKNOWN for a lost lease or a failed revalidation.    *)
FinalizeFails(w) ==
  /\ pc[w] = "claimed"
  /\ wStage[w] = "ACTIVATE"
  /\ \/ Observes(w, "RETRYABLE")
     \/ ~(Owns(w) /\ fresh /\ now < Deadline) /\ Observes(w, "UNKNOWN")
  /\ UNCHANGED <<now, taskVars, operatorVars, externalVars, fresh, activated>>

-----------------------------------------------------------------------------
(* RetryProvisioningTask and CancelProvisioningTask: mutate *)

(* An operator reads the task and composes a request against its revision. *)
OperatorReads(r) ==
  /\ request[r].op = "NONE"
  /\ \E op \in {"RETRY", "CANCEL"} :
       request' = [request EXCEPT ![r] = [op |-> op, expected |-> revision]]
  /\ UNCHANGED <<now, taskVars, workerVars, receipt, externalVars, fresh, activated>>

(* A resend whose receipt is stored replays it, and a request whose        *)
(* expected revision has passed fails: neither changes the task.           *)
Admitted(r, op) ==
  /\ request[r].op = op
  /\ r \notin receipt
  /\ request[r].expected = revision

Retry(r) ==
  /\ Admitted(r, "RETRY")
  /\ state \in {"FAILED", "RECONCILIATION_REQUIRED"}
  /\ retryAllowed
  /\ now < Deadline
  /\ cycles < RetryLimit
  /\ Release("QUEUED") /\ retryAllowed' = FALSE
  /\ cycles' = cycles + 1
  /\ activations' = 0
  /\ nextAt' = now
  /\ cycle' = [i \in Step |-> IF i = index THEN 0 ELSE cycle[i]]
  /\ receipt' = receipt \cup {r}
  /\ UNCHANGED <<now, index, stage, effect, attempts, recon, workerVars, request, externalVars,
                 fresh, activated>>

Cancel(r) ==
  /\ Admitted(r, "CANCEL")
  /\ Cancellable
  /\ Release("CANCELLED") /\ retryAllowed' = FALSE
  /\ receipt' = receipt \cup {r}
  /\ UNCHANGED <<now, index, stage, nextAt, cycles, activations, stepVars, workerVars, request,
                 externalVars, fresh, activated>>

-----------------------------------------------------------------------------
(* Environment *)

(* The process dies: what it held between transactions is gone. *)
Crash(w) ==
  /\ pc[w] # "idle"
  /\ TickEnds(w)
  /\ UNCHANGED <<now, taskVars, operatorVars, externalVars, fresh, activated>>

(* An override, a catalog release or a validity boundary moves a version   *)
(* the approval is bound to.                                               *)
ApprovalGoesStale ==
  /\ fresh
  /\ fresh' = FALSE
  /\ UNCHANGED <<now, taskVars, workerVars, operatorVars, externalVars, activated>>

Tick ==
  /\ now < Horizon
  /\ now' = now + 1
  /\ UNCHANGED <<taskVars, workerVars, operatorVars, externalVars, fresh, activated>>

WorkerStep(w) ==
  \/ Claim(w)
  \/ AdapterMissing(w)
  \/ Dispatch(w)
  \/ PrepareReturns(w)
  \/ ReconcileReturns(w)
  \/ Record(w)
  \/ FinalizeCommits(w)
  \/ FinalizeFails(w)

Next ==
  \/ \E w \in Worker : WorkerStep(w) \/ Crash(w)
  \/ \E r \in Request : OperatorReads(r) \/ Retry(r) \/ Cancel(r)
  \/ ProviderActs
  \/ RequestLost
  \/ ApprovalGoesStale
  \/ Tick

Spec == Init /\ [][Next]_vars

(* Liveness needs the poll loops to keep running and the clock to advance: *)
(* start() ticks forever, and database time does not stop.  Crashes stay   *)
(* unrestricted.                                                           *)
Fairness == WF_vars(Tick) /\ \A w \in Worker : WF_vars(WorkerStep(w))
FairSpec == Spec /\ Fairness

-----------------------------------------------------------------------------
(* Properties *)

RowType ==
  /\ now \in Nat
  /\ state \in TaskState /\ stage \in Stage
  /\ revision \in Nat /\ nextAt \in Nat /\ token \in Nat /\ until \in Nat
  /\ index \in 1..(NSteps + 1)
  /\ owner \in Worker \cup {NoWorker}
  /\ cycles \in Nat /\ activations \in Nat /\ activated \in Nat
FlagType == retryAllowed \in BOOLEAN /\ cancelDisabled \in BOOLEAN /\ fresh \in BOOLEAN
StepType ==
  /\ effect \in [Step -> Effect]
  /\ attempts \in [Step -> Nat] /\ cycle \in [Step -> Nat] /\ recon \in [Step -> Nat]
WorkerType ==
  /\ pc \in [Worker -> Pc]
  /\ wToken \in [Worker -> Nat] /\ wStage \in [Worker -> Stage]
  /\ wStep \in [Worker -> 1..(NSteps + 1)]
  /\ wOutcome \in [Worker -> Outcome]
OperatorType == request \in [Request -> RequestRow] /\ receipt \subseteq Request
ExternalType == provider \subseteq Step /\ inflight \subseteq [step: Step, token: Nat]

(* Every variable keeps its type; the step index never leaves              *)
(* 1..NSteps+1 (Task.Integrity refuses such a row).                        *)
TypeOK == RowType /\ FlagType /\ StepType /\ WorkerType /\ OperatorType /\ ExternalType

(* Rights are activated only over real resources: whatever the workers,    *)
(* crashes, late answers and operators did, an APPLIED task has every      *)
(* external resource of its plan, and its rights were activated exactly    *)
(* once (FinalizeProvisioningWork; a lost acknowledgement included).       *)
AppliedOnlyWhenPrepared ==
  /\ state = "APPLIED" => provider = Step
  /\ activated = IF state = "APPLIED" THEN 1 ELSE 0

(* Cancellation "only releases untouched or positively absent preparation" *)
(* (CancelPreparedSubscriptionChange): a CANCELLED task left nothing at    *)
(* the provider, and no request that may still create something.  This     *)
(* rests on workers dispatching within their lease.                        *)
CancelledLeavesNothing ==
  TimelyDispatch /\ state = "CANCELLED" => provider = {} /\ inflight = {}

(* Recovery never repeats a write that may have succeeded: a prepare       *)
(* request is sent only when the step has neither a resource nor another   *)
(* request under way, even after a lease expired in the middle of a call   *)
(* (Claim sends an expired or uncertain step to RECONCILE).                *)
NoBlindDispatch ==
  [][TimelyDispatch =>
       \A r \in inflight' \ inflight : ~Exists(r.step) /\ RequestsFor(r.step) = {}]_vars

(* APPLIED and CANCELLED are final: no late record, retry, cancel or claim *)
(* changes the task or its steps again.                                    *)
TerminalIsFinal == [][Terminal => UNCHANGED taskVars]_vars

(* Manual retries cannot buy unbounded dispatches: over its whole life a   *)
(* step is attempted at most MaxAttempts times per cycle, and each cycle   *)
(* is paid for by one stored receipt, so a resent retry request never      *)
(* opens a second cycle (mutate, Task.Retry).  And a due step whose effect *)
(* is known always has an attempt of its cycle left, so Task.Observe       *)
(* enforces the budget and the PREPARATION_RETRIES_EXHAUSTED branch of     *)
(* Task.Claim is dead.                                                     *)
AttemptBudget ==
  /\ \A i \in Step : attempts[i] <= MaxAttempts * (cycles + 1)
  /\ cycles <= RetryLimit
  /\ cycles = Cardinality({r \in receipt : request[r].op = "RETRY"})
  /\ state \in {"QUEUED", "RETRY_WAIT"} /\ index <= NSteps /\ ~Uncertain
       => cycle[index] < MaxAttempts

(* No operation ever writes a row that Task.Integrity refuses to load: a   *)
(* lease exactly while RUNNING, every step before the index READY, and the *)
(* attempts of the cycle within the total and within the requirement.      *)
Integrity ==
  /\ (state = "RUNNING") <=> (owner # NoWorker)
  /\ state = "RUNNING" => token > 0
  /\ \A i \in Step : i < index => effect[i] = "READY"
  /\ \A i \in Step : cycle[i] <= attempts[i] /\ cycle[i] <= MaxAttempts

(* Every task comes to rest: the approval deadline ends all automatic      *)
(* work, even if workers crash forever.                                    *)
EventuallySettles == <>[](state \in Settled)

-----------------------------------------------------------------------------
(* The inductive invariant behind the safety properties *)

(* The worker holds the task's current lease token (expired or not). *)
Holds(w) == state = "RUNNING" /\ pc[w] # "idle" /\ wToken[w] = token

(* Nothing exists for the step and nothing is on its way. *)
Untouched(i) == ~Exists(i) /\ \A r \in inflight : r.step # i

(* Lease tokens identify claims: they never run ahead of the row, no two   *)
(* workers share one, and the holder works on the row's stage and step.    *)
LeaseInv ==
  /\ \A w \in Worker : pc[w] # "idle" => wToken[w] <= token
  /\ \A v, w \in Worker :
       pc[v] # "idle" /\ pc[w] # "idle" /\ wToken[v] = wToken[w] => v = w
  /\ \A w \in Worker : Holds(w) => wStage[w] = stage /\ wStep[w] = index
  /\ \A w \in Worker : pc[w] # "idle" /\ wStage[w] # "ACTIVATE" => wStep[w] \in Step
  /\ \A w \in Worker : pc[w] = "calling" => wStage[w] = "PREPARE"

(* Where the task stands: steps before the index are READY, those after it *)
(* untouched, and a running preparation has an unknown effect.             *)
ProgressInv ==
  /\ \A i \in Step : i < index => effect[i] = "READY"
  /\ \A i \in Step : i > index => effect[i] = "ABSENT"
  /\ index \in Step => effect[index] # "READY"
  /\ state = "RUNNING" /\ stage # "ACTIVATE" =>
       index \in Step /\ effect[index] = "UNKNOWN"
  /\ state = "RUNNING" /\ stage = "ACTIVATE" => index = NSteps + 1
  /\ state = "APPLIED" => index = NSteps + 1
  /\ state = "CANCELLED" => \A i \in Step : effect[i] = "ABSENT"
  /\ activated = IF state = "APPLIED" THEN 1 ELSE 0

(* The stored effects are true of the provider, and so is the evidence     *)
(* that the lease holder is about to record.                               *)
EvidenceInv ==
  /\ \A i \in Step : effect[i] = "READY" => Exists(i)
  /\ TimelyDispatch => \A i \in Step : effect[i] = "ABSENT" => Untouched(i)
  /\ \A w \in Worker :
       Holds(w) /\ wStage[w] # "ACTIVATE" /\ pc[w] = "observed"
         /\ wOutcome[w] = "READY" => Exists(wStep[w])
  /\ TimelyDispatch => \A w \in Worker :
       Holds(w) /\ wStage[w] # "ACTIVATE" /\ pc[w] = "observed"
         /\ wOutcome[w] \in {"ABSENT", "RETRYABLE", "PERMANENT"} => Untouched(wStep[w])
  /\ TimelyDispatch => \A w \in Worker :
       Holds(w) /\ wStage[w] = "PREPARE" /\ pc[w] = "claimed" => Untouched(wStep[w])

(* The conjunction that every step preserves. *)
IInv == TypeOK /\ LeaseInv /\ ProgressInv /\ EvidenceInv
=============================================================================
