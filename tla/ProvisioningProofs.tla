------------------------- MODULE ProvisioningProofs -------------------------
(***************************************************************************)
(* The theorems about Provisioning, for every number of workers, requests  *)
(* and steps and every value of the limits.  First type correctness and    *)
(* the attempt budget, action by action; then the inductive invariant and  *)
(* what follows from it.                                                   *)
(***************************************************************************)
EXTENDS Provisioning, TLAPS, FiniteSetTheorems

(* A leaf is first tried with Zenon, briefly, and then with SMT. *)
USE ZenonT(1), SMT

(* The backoff table yields a natural number for every attempt count. *)
LEMMA BackoffNat == ASSUME NEW n \in Nat PROVE Backoff(n) \in Nat
BY DEF Backoff, BackoffTable

(* A new task has its types (New). *)
LEMMA InitType == Init => TypeOK
<1> SUFFICES ASSUME Init PROVE TypeOK
  OBVIOUS
<1> USE ConstantsAssumption DEF Init
<1>1. RowType
  BY DEF RowType, TaskState, Stage, NoWorker
<1>2. FlagType
  BY DEF FlagType
<1>3. StepType
  BY DEF StepType, Effect
<1>4. WorkerType
  BY DEF WorkerType, Pc, Stage, Outcome
<1>5. OperatorType
  BY DEF OperatorType, RequestRow
<1>6. ExternalType
  BY DEF ExternalType
<1> QED BY <1>1, <1>2, <1>3, <1>4, <1>5, <1>6 DEF TypeOK

(* A transaction that gives the row back keeps the types of what it writes. *)
LEMMA ReleaseType ==
  ASSUME NEW to \in TaskState, TypeOK, Release(to)
  PROVE  /\ state' \in TaskState /\ revision' \in Nat /\ until' \in Nat /\ token' \in Nat
         /\ owner' \in Worker \cup {NoWorker}
BY DEF TypeOK, RowType, Release

(* The tail of Task.Claim keeps the types of what it writes. *)
LEMMA LeaseType ==
  ASSUME NEW w \in Worker, NEW for \in Stage, TypeOK, LeaseTo(w, for)
  PROVE  /\ state' \in TaskState /\ revision' \in Nat /\ until' \in Nat /\ token' \in Nat
         /\ owner' \in Worker \cup {NoWorker}
         /\ stage' \in Stage
         /\ WorkerType'
<1> USE ConstantsAssumption DEF TypeOK, LeaseTo
<1>1. state' \in TaskState /\ revision' \in Nat /\ until' \in Nat /\ token' \in Nat
  BY DEF RowType, TaskState
<1>2. owner' \in Worker \cup {NoWorker} /\ stage' \in Stage
  OBVIOUS
<1>3. WorkerType'
  BY DEF RowType, WorkerType, Pc
<1> QED BY <1>1, <1>2, <1>3

(* An index that is not past the last requirement names a step. *)
LEMMA IndexStep == TypeOK /\ index <= NSteps => index \in Step
BY ConstantsAssumption DEF TypeOK, RowType, Step

(* Task.Claim keeps the types, in each of its outcomes. *)
LEMMA ClaimType ==
  ASSUME TypeOK, NEW w \in Worker, Claim(w)
  PROVE  TypeOK'
<1> USE DEF TypeOK
<1>1. OperatorType' /\ ExternalType'
  BY DEF Claim, OperatorType, ExternalType, operatorVars, externalVars
<1>2. ASSUME NEW to \in TaskState, Release(to), retryAllowed' \in BOOLEAN,
             UNCHANGED <<index, nextAt, cycles, stepVars, workerVars>>,
             activations' \in Nat, stage' \in Stage
      PROVE  TypeOK'
  <2>1. RowType'
    BY <1>2, ReleaseType DEF RowType, Claim
  <2>2. FlagType'
    BY <1>2 DEF FlagType, Claim, Release
  <2>3. StepType' /\ WorkerType'
    BY <1>2 DEF StepType, WorkerType, stepVars, workerVars, heldVars
  <2> QED BY <1>1, <2>1, <2>2, <2>3
<1>3. ASSUME NEW for \in Stage, LeaseTo(w, for), activations' \in Nat, StepType'
      PROVE  TypeOK'
  <2>1. RowType'
    BY <1>3, LeaseType DEF RowType, Claim, LeaseTo
  <2>2. FlagType'
    BY <1>3 DEF FlagType, Claim, LeaseTo
  <2> QED BY <1>1, <1>3, <2>1, <2>2, LeaseType
<1>4. /\ "RECONCILIATION_REQUIRED" \in TaskState /\ "FAILED" \in TaskState
      /\ "ACTIVATE" \in Stage /\ "RECONCILE" \in Stage /\ "PREPARE" \in Stage
  BY DEF TaskState, Stage
<1>5. CASE ClaimPastDeadline
  BY <1>2, <1>4, <1>5 DEF ClaimPastDeadline, RowType
<1>6. CASE ClaimActivation(w)
  BY <1>3, <1>4, <1>6 DEF ClaimActivation, RowType, StepType, stepVars
<1>7. CASE ClaimActivationExhausted
  <2>1. activations' \in Nat /\ stage' \in Stage
    BY <1>4, <1>7 DEF ClaimActivationExhausted, RowType
  <2> QED BY <1>2, <1>4, <1>7, <2>1 DEF ClaimActivationExhausted
<1>8. CASE ClaimReconcile(w)
  <2>1. StepType'
    BY <1>8, IndexStep DEF ClaimReconcile, StepType, Effect
  <2> QED BY <1>3, <1>4, <1>8, <2>1 DEF ClaimReconcile, RowType
<1>9. CASE ClaimReconcileExhausted
  BY <1>2, <1>4, <1>9 DEF ClaimReconcileExhausted, RowType
<1>10. CASE ClaimPrepare(w)
  <2>1. CASE cycle[index] >= MaxAttempts
    <3>1. /\ Release("FAILED") /\ retryAllowed' = TRUE
          /\ UNCHANGED <<index, stage, nextAt, cycles, activations, stepVars, workerVars>>
      BY <1>10, <2>1 DEF ClaimPrepare
    <3> QED BY <1>2, <1>4, <3>1 DEF RowType
  <2>2. CASE ~(cycle[index] >= MaxAttempts)
    <3>1. StepType'
      <4>1. /\ index <= NSteps
            /\ attempts' = [attempts EXCEPT ![index] = @ + 1]
            /\ cycle' = [cycle EXCEPT ![index] = @ + 1]
            /\ effect' = [effect EXCEPT ![index] = "UNKNOWN"]
            /\ recon' = recon
        BY <1>10, <2>2 DEF ClaimPrepare
      <4> QED BY <4>1, IndexStep DEF StepType, Effect
    <3>2. LeaseTo(w, "PREPARE") /\ activations' \in Nat
      BY <1>10, <2>2 DEF ClaimPrepare, RowType
    <3> QED BY <1>3, <1>4, <3>1, <3>2
  <2> QED BY <2>1, <2>2
<1> QED BY <1>5, <1>6, <1>7, <1>8, <1>9, <1>10 DEF Claim

(* A step that leaves the task and the clock alone keeps their types. *)
LEMMA TaskFrame ==
  ASSUME TypeOK, UNCHANGED <<now, taskVars, fresh, activated>>
  PROVE  RowType' /\ FlagType' /\ StepType'
BY DEF TypeOK, RowType, FlagType, StepType, taskVars, rowVars, leaseVars, stepVars

(* Taking an adapter's outcome keeps the worker's types. *)
LEMMA ObservesType ==
  ASSUME TypeOK, NEW w \in Worker, NEW o \in Outcome, Observes(w, o)
  PROVE  WorkerType'
BY DEF TypeOK, WorkerType, Observes, Pc, heldVars

(* So does the end of a tick. *)
LEMMA TickEndsType ==
  ASSUME TypeOK, NEW w \in Worker, TickEnds(w)
  PROVE  WorkerType'
BY ConstantsAssumption DEF TypeOK, WorkerType, TickEnds, Pc, Stage, Outcome

(* The adapter call and the tick's end change only the worker and the wire. *)
LEMMA CallType ==
  ASSUME TypeOK, LeaseInv, NEW w \in Worker,
         \/ AdapterMissing(w) \/ Dispatch(w) \/ PrepareReturns(w) \/ ReconcileReturns(w)
         \/ FinalizeFails(w) \/ Crash(w)
  PROVE  TypeOK'
<1>1. RowType' /\ FlagType' /\ StepType'
  BY TaskFrame
     DEF AdapterMissing, Dispatch, PrepareReturns, ReconcileReturns, FinalizeFails, Crash
<1>2. OperatorType'
  BY DEF AdapterMissing, Dispatch, PrepareReturns, ReconcileReturns, FinalizeFails, Crash,
         operatorVars, TypeOK, OperatorType
<1>3. WorkerType'
  <2>1. CASE AdapterMissing(w)
    BY <2>1, ObservesType DEF AdapterMissing, Outcome
  <2>2. CASE Dispatch(w)
    BY <2>2 DEF Dispatch, TypeOK, WorkerType, Pc, heldVars
  <2>3. CASE PrepareReturns(w)
    BY <2>3, ObservesType DEF PrepareReturns
  <2>4. CASE ReconcileReturns(w)
    BY <2>4, ObservesType DEF ReconcileReturns
  <2>5. CASE FinalizeFails(w)
    BY <2>5, ObservesType DEF FinalizeFails, Outcome
  <2>6. CASE Crash(w)
    BY <2>6, TickEndsType DEF Crash
  <2> QED BY <2>1, <2>2, <2>3, <2>4, <2>5, <2>6
<1>4. ExternalType'
  <2>1. CASE Dispatch(w)
    <3>1. wStep[w] \in Step /\ wToken[w] \in Nat
      BY <2>1 DEF Dispatch, LeaseInv, TypeOK, WorkerType
    <3>2. OwnRequest(w) \in [step: Step, token: Nat]
      BY <3>1 DEF OwnRequest
    <3> QED BY <2>1, <3>2 DEF Dispatch, TypeOK, ExternalType
  <2>2. CASE PrepareReturns(w)
    <3>1. inflight' \subseteq inflight
      BY <2>2 DEF PrepareReturns
    <3> QED BY <2>2, <3>1 DEF PrepareReturns, TypeOK, ExternalType
  <2>3. CASE UNCHANGED externalVars
    BY <2>3 DEF externalVars, TypeOK, ExternalType
  <2> QED BY <2>1, <2>2, <2>3 DEF AdapterMissing, ReconcileReturns, FinalizeFails, Crash
<1> QED BY <1>1, <1>2, <1>3, <1>4 DEF TypeOK

(* Task.Observe keeps the types of the task it writes. *)
LEMMA ObserveType ==
  ASSUME TypeOK, NEW o \in Outcome, Observe(o), UNCHANGED <<now, fresh, activated>>,
         stage # "ACTIVATE" => index \in Step
  PROVE  RowType' /\ FlagType' /\ StepType'
<1>1. ASSUME NEW to \in TaskState, Release(to), retryAllowed' \in BOOLEAN,
             UNCHANGED <<cycles, activations>>, index' \in 1..(NSteps + 1),
             nextAt' \in Nat, stage' \in Stage
      PROVE  RowType' /\ FlagType'
  <2>1. RowType'
    BY <1>1, ReleaseType DEF TypeOK, RowType
  <2>2. FlagType'
    BY <1>1 DEF TypeOK, FlagType, Release
  <2> QED BY <2>1, <2>2
<1>2. /\ index \in 1..(NSteps + 1) /\ now \in Nat /\ nextAt \in Nat /\ stage \in Stage
      /\ activations \in Nat
  BY DEF TypeOK, RowType
<1>3. /\ {"RETRY_WAIT", "RECONCILIATION_REQUIRED", "QUEUED", "READY", "FAILED"} \subseteq TaskState
      /\ "ACTIVATE" \in Stage
  BY DEF TaskState, Stage
<1>4. ASSUME NEW e \in Effect, effect' = [effect EXCEPT ![index] = e],
             UNCHANGED <<attempts, cycle, recon>>
      PROVE  StepType'
  BY <1>4 DEF TypeOK, StepType
<1>5. {"ABSENT", "READY", "UNKNOWN"} \subseteq Effect
  BY DEF Effect
<1>6. CASE ObserveActivation(o)
  <2>1. StepType'
    BY <1>6 DEF ObserveActivation, stepVars, TypeOK, StepType
  <2>2. nextAt' \in Nat
    <3>1. now + Backoff(activations) \in Nat
      BY <1>2, BackoffNat
    <3> QED BY <1>2, <1>6, <3>1 DEF ObserveActivation
  <2>3. stage' \in Stage /\ index' \in 1..(NSteps + 1)
    BY <1>2, <1>6 DEF ObserveActivation
  <2> QED BY <1>1, <1>3, <1>6, <2>1, <2>2, <2>3 DEF ObserveActivation
<1>7. CASE ObserveReady(o)
  <2>1. index' \in 1..(NSteps + 1)
    <3>1. index <= NSteps /\ index' = index + 1
      BY <1>2, <1>7, ConstantsAssumption DEF ObserveReady
    <3> QED BY <1>2, <3>1, ConstantsAssumption
  <2>2. nextAt' \in Nat /\ stage' \in Stage
    BY <1>2, <1>3, <1>7 DEF ObserveReady
  <2>3. RowType' /\ FlagType'
    BY <1>1, <1>3, <1>7, <2>1, <2>2 DEF ObserveReady
  <2>4. StepType'
    BY <1>4, <1>5, <1>7 DEF ObserveReady
  <2> QED BY <2>3, <2>4
<1>8. CASE ObserveAbsent(o)
  <2>1. now + Backoff(cycle[index]) \in Nat
    BY <1>2, <1>8, BackoffNat DEF ObserveAbsent, TypeOK, StepType
  <2>2. nextAt' \in Nat /\ stage' \in Stage /\ index' \in 1..(NSteps + 1)
    BY <1>2, <1>8, <2>1 DEF ObserveAbsent
  <2> QED BY <1>1, <1>3, <1>4, <1>5, <1>8, <2>2 DEF ObserveAbsent
<1>9. CASE ObservePermanent(o)
  BY <1>1, <1>2, <1>3, <1>4, <1>5, <1>9 DEF ObservePermanent
<1>10. CASE ObserveUnknown(o)
  BY <1>1, <1>2, <1>3, <1>4, <1>5, <1>10 DEF ObserveUnknown
<1> QED BY <1>6, <1>7, <1>8, <1>9, <1>10 DEF Observe

(* RecordProvisioningWork keeps the types. *)
LEMMA RecordType ==
  ASSUME IInv, NEW w \in Worker, Record(w)
  PROVE  TypeOK'
<1> USE DEF IInv
<1>1. WorkerType'
  BY TickEndsType DEF Record
<1>2. OperatorType' /\ ExternalType'
  BY DEF Record, TypeOK, OperatorType, ExternalType, operatorVars, externalVars
<1>3. RowType' /\ FlagType' /\ StepType'
  <2>1. CASE Owns(w) /\ Observe(wOutcome[w])
    <3>1. wOutcome[w] \in Outcome
      BY DEF TypeOK, WorkerType
    <3>2. stage # "ACTIVATE" => index \in Step
      BY <2>1 DEF Owns, ProgressInv
    <3> QED BY <2>1, <3>1, <3>2, ObserveType DEF Record
  <2>2. CASE UNCHANGED taskVars
    BY <2>2, TaskFrame DEF Record
  <2> QED BY <2>1, <2>2 DEF Record
<1> QED BY <1>1, <1>2, <1>3 DEF TypeOK

(* FinalizeProvisioningWork keeps the types. *)
LEMMA FinalizeType ==
  ASSUME TypeOK, NEW w \in Worker, FinalizeCommits(w)
  PROVE  TypeOK'
<1>1. "APPLIED" \in TaskState
  BY DEF TaskState
<1>2. RowType'
  <2>1. /\ state' \in TaskState /\ revision' \in Nat /\ until' \in Nat /\ token' \in Nat
        /\ owner' \in Worker \cup {NoWorker}
    BY <1>1, ReleaseType DEF FinalizeCommits
  <2>2. activated' \in Nat
    BY DEF FinalizeCommits, TypeOK, RowType
  <2> QED BY <2>1, <2>2 DEF FinalizeCommits, TypeOK, RowType
<1>3. FlagType'
  BY DEF FinalizeCommits, Release, TypeOK, FlagType
<1>4. WorkerType'
  BY TickEndsType, ObservesType DEF FinalizeCommits, Outcome
<1>5. StepType' /\ OperatorType' /\ ExternalType'
  BY DEF FinalizeCommits, TypeOK, StepType, OperatorType, ExternalType, stepVars, operatorVars,
         externalVars
<1> QED BY <1>2, <1>3, <1>4, <1>5 DEF TypeOK

(* Retry and cancel requests keep the types. *)
LEMMA MutateType ==
  ASSUME TypeOK, NEW r \in Request, Retry(r) \/ Cancel(r)
  PROVE  TypeOK'
<1>1. "QUEUED" \in TaskState /\ "CANCELLED" \in TaskState
  BY DEF TaskState
<1>2. /\ state' \in TaskState /\ revision' \in Nat /\ until' \in Nat /\ token' \in Nat
      /\ owner' \in Worker \cup {NoWorker}
  BY <1>1, ReleaseType DEF Retry, Cancel
<1>3. RowType'
  <2>1. cycles' \in Nat /\ activations' \in Nat /\ nextAt' \in Nat
    BY DEF Retry, Cancel, TypeOK, RowType
  <2> QED BY <1>2, <2>1 DEF Retry, Cancel, TypeOK, RowType
<1>4. FlagType'
  BY DEF Retry, Cancel, Release, TypeOK, FlagType
<1>5. StepType'
  <2>1. cycle' \in [Step -> Nat]
    BY DEF Retry, Cancel, TypeOK, StepType, stepVars
  <2> QED BY <2>1 DEF Retry, Cancel, TypeOK, StepType, stepVars
<1>6. WorkerType' /\ OperatorType' /\ ExternalType'
  BY DEF Retry, Cancel, TypeOK, WorkerType, OperatorType, ExternalType, workerVars, heldVars,
         externalVars
<1> QED BY <1>3, <1>4, <1>5, <1>6 DEF TypeOK

(* So do an operator's reading, the provider, the approval and the clock. *)
LEMMA EnvironmentType ==
  ASSUME TypeOK,
         \/ \E r \in Request : OperatorReads(r)
         \/ ProviderActs \/ RequestLost \/ ApprovalGoesStale \/ Tick
  PROVE  TypeOK'
<1>1. ASSUME NEW r \in Request, OperatorReads(r)
      PROVE  TypeOK'
  <2>1. RowType' /\ FlagType' /\ StepType'
    BY <1>1, TaskFrame DEF OperatorReads
  <2>2. OperatorType'
    <3>1. PICK op \in {"RETRY", "CANCEL"} :
                 request' = [request EXCEPT ![r] = [op |-> op, expected |-> revision]]
      BY <1>1 DEF OperatorReads
    <3>2. [op |-> op, expected |-> revision] \in RequestRow
      BY DEF RequestRow, TypeOK, RowType
    <3> QED BY <1>1, <3>1, <3>2 DEF OperatorReads, TypeOK, OperatorType
  <2>3. WorkerType' /\ ExternalType'
    BY <1>1 DEF OperatorReads, TypeOK, WorkerType, ExternalType, workerVars, heldVars, externalVars
  <2> QED BY <2>1, <2>2, <2>3 DEF TypeOK
<1>2. CASE ProviderActs \/ RequestLost
  <2>1. RowType' /\ FlagType' /\ StepType'
    BY <1>2, TaskFrame DEF ProviderActs, RequestLost
  <2>2. ExternalType'
    <3>1. inflight' \subseteq inflight
      BY <1>2 DEF ProviderActs, RequestLost
    <3>2. provider' \subseteq Step
      <4>1. \A r \in inflight : r.step \in Step
        BY DEF TypeOK, ExternalType
      <4> QED BY <1>2, <4>1 DEF ProviderActs, RequestLost, TypeOK, ExternalType
    <3> QED BY <3>1, <3>2 DEF TypeOK, ExternalType
  <2>3. WorkerType' /\ OperatorType'
    BY <1>2 DEF ProviderActs, RequestLost, TypeOK, WorkerType, OperatorType, workerVars, heldVars,
                operatorVars
  <2> QED BY <2>1, <2>2, <2>3 DEF TypeOK
<1>3. CASE ApprovalGoesStale \/ Tick
  <2>1. RowType' /\ StepType'
    BY <1>3 DEF ApprovalGoesStale, Tick, TypeOK, RowType, StepType, taskVars, rowVars, leaseVars,
                stepVars
  <2>2. FlagType'
    BY <1>3 DEF ApprovalGoesStale, Tick, TypeOK, FlagType, taskVars, rowVars
  <2>3. WorkerType' /\ OperatorType' /\ ExternalType'
    BY <1>3 DEF ApprovalGoesStale, Tick, TypeOK, WorkerType, OperatorType, ExternalType,
                workerVars, heldVars, operatorVars, externalVars
  <2> QED BY <2>1, <2>2, <2>3 DEF TypeOK
<1> QED BY <1>1, <1>2, <1>3

-----------------------------------------------------------------------------
(* The attempt budget (Task.Claim, Task.Observe, Task.Retry) *)

(* The operator requests that were accepted as retries. *)
Retries == {r \in receipt : request[r].op = "RETRY"}

(* What AttemptBudget needs to be inductive: the claims of the earlier     *)
(* cycles are within their budget, a step the task has not come to was not *)
(* attempted, and a receipt belongs to a request that was sent.            *)
BudgetInv ==
  /\ IsFiniteSet(receipt) /\ \A r \in receipt : request[r].op # "NONE"
  /\ cycles = Cardinality(Retries) /\ cycles <= RetryLimit
  /\ \A i \in Step :
       /\ attempts[i] <= MaxAttempts * cycles + cycle[i] /\ cycle[i] <= MaxAttempts
       /\ i > index => cycle[i] = 0
  /\ state \in {"QUEUED", "RETRY_WAIT"} /\ index <= NSteps /\ effect[index] # "UNKNOWN"
       => cycle[index] < MaxAttempts

(* A new task has claimed nothing and been retried by nobody (New). *)
LEMMA BudgetInit == Init => BudgetInv
<1> SUFFICES ASSUME Init PROVE BudgetInv
  OBVIOUS
<1>1. IsFiniteSet(receipt) /\ Retries = {} /\ Cardinality(Retries) = 0
  BY FS_EmptySet DEF Init, Retries
<1> QED BY <1>1, ConstantsAssumption DEF Init, BudgetInv, Step

(* A step that neither claims nor retries keeps the budget, if it leaves   *)
(* the current step an attempt.                                            *)
LEMMA BudgetKept ==
  ASSUME TypeOK, BudgetInv, UNCHANGED <<attempts, cycle, cycles, receipt, request>>,
         index' \in 1..(NSteps + 1), index <= index',
         state' \in {"QUEUED", "RETRY_WAIT"} /\ index' <= NSteps /\ effect'[index'] # "UNKNOWN"
           => cycle[index'] < MaxAttempts
  PROVE  BudgetInv'
<1>1. Retries' = Retries
  BY DEF Retries
<1>2. index \in Nat /\ index' \in Nat /\ \A i \in Step : i \in Nat
  BY ConstantsAssumption DEF TypeOK, RowType, Step
<1> QED BY <1>1, <1>2 DEF BudgetInv

(* Only a retry opens a cycle, and it stores its receipt with it.          *)
LEMMA RetryBudget ==
  ASSUME TypeOK, BudgetInv, NEW r \in Request, Retry(r)
  PROVE  BudgetInv'
<1>1. /\ r \notin receipt /\ request[r].op = "RETRY" /\ cycles < RetryLimit
      /\ receipt' = receipt \cup {r} /\ cycles' = cycles + 1
      /\ cycle' = [i \in Step |-> IF i = index THEN 0 ELSE cycle[i]]
      /\ UNCHANGED <<index, effect, attempts, request>>
  BY DEF Retry, Admitted
<1>2. IsFiniteSet(Retries)
  BY FS_Subset DEF BudgetInv, Retries
<1>3. Retries' = Retries \cup {r} /\ r \notin Retries
  BY <1>1 DEF Retries
<1>4. Cardinality(Retries') = Cardinality(Retries) + 1
  BY <1>2, <1>3, FS_AddElement
<1>5. IsFiniteSet(receipt')
  BY <1>1, FS_AddElement DEF BudgetInv
<1>6. /\ cycles \in Nat /\ MaxAttempts \in Nat /\ RetryLimit \in Nat /\ 0 < MaxAttempts
      /\ index \in Nat /\ NSteps \in Nat
  BY ConstantsAssumption DEF TypeOK, RowType
<1>7. ASSUME NEW i \in Step
      PROVE  /\ attempts'[i] <= MaxAttempts * cycles' + cycle'[i] /\ cycle'[i] <= MaxAttempts
             /\ i > index' => cycle'[i] = 0
  <2>1. attempts[i] \in Nat /\ cycle[i] \in Nat /\ MaxAttempts * cycles \in Nat
    BY <1>6 DEF TypeOK, StepType
  <2>2. MaxAttempts * (cycles + 1) = MaxAttempts * cycles + MaxAttempts
    BY <1>6
  <2>3. attempts[i] <= MaxAttempts * cycles + MaxAttempts
    BY <1>6, <2>1 DEF BudgetInv
  <2> QED BY <1>1, <1>6, <2>1, <2>2, <2>3 DEF BudgetInv
<1>8. index' <= NSteps => cycle'[index'] < MaxAttempts
  BY <1>1, <1>6, IndexStep
<1> QED BY <1>1, <1>4, <1>5, <1>6, <1>7, <1>8 DEF BudgetInv

(* A claim attempts a step only while its cycle has an attempt left.       *)
LEMMA ClaimBudget ==
  ASSUME TypeOK, BudgetInv, NEW w \in Worker, Claim(w)
  PROVE  BudgetInv'
<1>1. UNCHANGED <<receipt, request>>
  BY DEF Claim, operatorVars
<1>2. index \in 1..(NSteps + 1) /\ index <= index
  BY ConstantsAssumption DEF TypeOK, RowType
<1>3. ASSUME UNCHANGED <<index, attempts, cycle, cycles>>, state' \notin {"QUEUED", "RETRY_WAIT"}
      PROVE  BudgetInv'
  BY <1>1, <1>2, <1>3, BudgetKept
<1>4. CASE ClaimPastDeadline \/ ClaimActivationExhausted \/ ClaimReconcileExhausted
  BY <1>3, <1>4 DEF ClaimPastDeadline, ClaimActivationExhausted, ClaimReconcileExhausted, Release, stepVars
<1>5. CASE ClaimActivation(w) \/ ClaimReconcile(w)
  BY <1>3, <1>5 DEF ClaimActivation, ClaimReconcile, LeaseTo, stepVars
<1>6. CASE ClaimPrepare(w)
  <2>1. CASE cycle[index] >= MaxAttempts
    BY <1>3, <1>6, <2>1 DEF ClaimPrepare, Release, stepVars
  <2>2. CASE ~(cycle[index] >= MaxAttempts)
    <3>1. /\ index \in Step /\ state' = "RUNNING"
          /\ attempts' = [attempts EXCEPT ![index] = @ + 1]
          /\ cycle' = [cycle EXCEPT ![index] = @ + 1]
          /\ UNCHANGED <<index, cycles>>
      BY <1>6, <2>2, IndexStep DEF ClaimPrepare, LeaseTo
    <3>2. Retries' = Retries
      BY <1>1 DEF Retries
    <3>3. ASSUME NEW i \in Step
          PROVE  /\ attempts'[i] <= MaxAttempts * cycles' + cycle'[i] /\ cycle'[i] <= MaxAttempts
                 /\ i > index' => cycle'[i] = 0
      <4>1. /\ attempts[i] \in Nat /\ cycle[i] \in Nat /\ MaxAttempts \in Nat
            /\ cycles \in Nat /\ index \in Nat /\ i \in Nat
        BY ConstantsAssumption DEF TypeOK, RowType, StepType, Step
      <4>2. MaxAttempts * cycles \in Nat
        BY <4>1
      <4>3. CASE i = index
        BY <2>2, <3>1, <4>1, <4>2, <4>3 DEF BudgetInv, TypeOK, StepType
      <4>4. CASE i # index
        BY <3>1, <4>1, <4>2, <4>4 DEF BudgetInv, TypeOK, StepType
      <4> QED BY <4>3, <4>4
    <3> QED BY <1>1, <3>1, <3>2, <3>3 DEF BudgetInv
  <2> QED BY <2>1, <2>2
<1> QED BY <1>4, <1>5, <1>6 DEF Claim

(* Task.Observe leaves a waiting step an attempt, or fails the task.       *)
LEMMA ObserveBudget ==
  ASSUME IInv, BudgetInv, NEW w \in Worker, Record(w)
  PROVE  BudgetInv'
<1>1. UNCHANGED <<receipt, request>> /\ TypeOK
  BY DEF Record, operatorVars, IInv
<1>2. index \in 1..(NSteps + 1) /\ index <= index /\ index \in Nat /\ NSteps \in Nat
  BY <1>1, ConstantsAssumption DEF TypeOK, RowType
<1>3. ASSUME UNCHANGED <<index, attempts, cycle, cycles>>, state' \notin {"QUEUED", "RETRY_WAIT"}
      PROVE  BudgetInv'
  BY <1>1, <1>2, <1>3, BudgetKept
<1>4. CASE UNCHANGED taskVars
  <2>1. UNCHANGED <<state, index, effect, attempts, cycle, cycles>>
    BY <1>4 DEF taskVars, rowVars, stepVars
  <2> QED BY <1>1, <1>2, <2>1, BudgetKept DEF BudgetInv
<1>5. ASSUME NEW o, Owns(w), Observe(o)
      PROVE  BudgetInv'
  <2>1. UNCHANGED <<attempts, cycle, cycles>>
    BY <1>5 DEF Observe, ObserveActivation, ObserveReady, ObserveAbsent, ObservePermanent,
                ObserveUnknown, stepVars
  <2>2. CASE ObserveActivation(o)
    <3>1. index' = NSteps + 1
      BY <1>5, <2>2 DEF ObserveActivation, Owns, IInv, ProgressInv
    <3> QED BY <1>1, <1>2, <2>1, <2>2, <3>1, BudgetKept DEF ObserveActivation
  <2>3. CASE ObserveReady(o)
    <3>1. index' = index + 1 /\ index' \in 1..(NSteps + 1)
      BY <1>2, <2>3 DEF ObserveReady
    <3>2. index' <= NSteps => cycle[index'] < MaxAttempts
      <4> SUFFICES ASSUME index' <= NSteps PROVE cycle[index'] < MaxAttempts
        OBVIOUS
      <4>1. index' \in Step /\ index' > index
        BY <1>2, <3>1 DEF Step
      <4> QED BY <4>1, ConstantsAssumption DEF BudgetInv
    <3> QED BY <1>1, <1>2, <2>1, <3>1, <3>2, BudgetKept
  <2>4. CASE ObserveAbsent(o)
    <3>1. index' = index /\ (state' \in {"QUEUED", "RETRY_WAIT"} => cycle[index] < MaxAttempts)
      BY <2>4 DEF ObserveAbsent, Release
    <3> QED BY <1>1, <1>2, <2>1, <3>1, BudgetKept
  <2>5. CASE ObservePermanent(o) \/ ObserveUnknown(o)
    BY <1>3, <2>1, <2>5 DEF ObservePermanent, ObserveUnknown, Release
  <2> QED BY <1>5, <2>2, <2>3, <2>4, <2>5 DEF Observe
<1> QED BY <1>4, <1>5 DEF Record

(* Every step of the worker, the operators and the outside keeps it. *)
LEMMA BudgetStep ==
  ASSUME IInv, BudgetInv, [Next]_vars
  PROVE  BudgetInv'
<1>1. TypeOK /\ index \in 1..(NSteps + 1) /\ index <= index
  BY ConstantsAssumption DEF IInv, TypeOK, RowType
<1>2. ASSUME UNCHANGED <<taskVars, operatorVars>>
      PROVE  BudgetInv'
  <2>1. UNCHANGED <<state, index, effect, attempts, cycle, cycles, receipt, request>>
    BY <1>2 DEF taskVars, rowVars, stepVars, operatorVars
  <2> QED BY <1>1, <2>1, BudgetKept DEF BudgetInv
<1>3. ASSUME NEW w \in Worker, WorkerStep(w) \/ Crash(w)
      PROVE  BudgetInv'
  <2>1. CASE Claim(w)
    BY <1>1, <2>1, ClaimBudget
  <2>2. CASE Record(w)
    BY <2>2, ObserveBudget
  <2>3. CASE FinalizeCommits(w)
    <3>1. /\ UNCHANGED <<index, attempts, cycle, cycles, receipt, request>>
          /\ state' \notin {"QUEUED", "RETRY_WAIT"}
      BY <2>3 DEF FinalizeCommits, Release, stepVars, operatorVars
    <3> QED BY <1>1, <3>1, BudgetKept
  <2>4. CASE \/ AdapterMissing(w) \/ Dispatch(w) \/ PrepareReturns(w) \/ ReconcileReturns(w)
             \/ FinalizeFails(w) \/ Crash(w)
    BY <1>2, <2>4 DEF AdapterMissing, Dispatch, PrepareReturns, ReconcileReturns, FinalizeFails, Crash
  <2> QED BY <1>3, <2>1, <2>2, <2>3, <2>4 DEF WorkerStep
<1>4. ASSUME NEW r \in Request, OperatorReads(r)
      PROVE  BudgetInv'
  <2>1. /\ receipt' = receipt /\ r \notin receipt
        /\ \A x \in receipt : request'[x] = request[x]
        /\ UNCHANGED <<state, index, effect, attempts, cycle, cycles>>
    BY <1>1, <1>4 DEF OperatorReads, BudgetInv, TypeOK, OperatorType, taskVars, rowVars, stepVars
  <2>2. Retries' = Retries
    BY <2>1 DEF Retries
  <2> QED BY <2>1, <2>2 DEF BudgetInv
<1>5. ASSUME NEW r \in Request, Retry(r)
      PROVE  BudgetInv'
  BY <1>1, <1>5, RetryBudget
<1>6. ASSUME NEW r \in Request, Cancel(r)
      PROVE  BudgetInv'
  <2>1. /\ receipt' = receipt \cup {r} /\ request' = request /\ request[r].op = "CANCEL"
        /\ state' = "CANCELLED" /\ UNCHANGED <<index, attempts, cycle, cycles>>
    BY <1>6 DEF Cancel, Admitted, Release, stepVars
  <2>2. Retries' = Retries
    BY <2>1 DEF Retries
  <2>3. IsFiniteSet(receipt')
    BY <2>1, FS_AddElement DEF BudgetInv
  <2> QED BY <2>1, <2>2, <2>3 DEF BudgetInv
<1>7. CASE ProviderActs \/ RequestLost \/ ApprovalGoesStale \/ Tick
  BY <1>2, <1>7 DEF ProviderActs, RequestLost, ApprovalGoesStale, Tick
<1>8. CASE UNCHANGED vars
  BY <1>2, <1>8 DEF vars
<1> QED BY <1>3, <1>4, <1>5, <1>6, <1>7, <1>8 DEF Next

(* What the inductive invariant says of the task. *)
LEMMA BudgetMeans == ASSUME TypeOK, BudgetInv PROVE AttemptBudget
<1>1. ASSUME NEW i \in Step PROVE attempts[i] <= MaxAttempts * (cycles + 1)
  <2>1. /\ attempts[i] \in Nat /\ cycle[i] \in Nat /\ MaxAttempts \in Nat /\ cycles \in Nat
        /\ MaxAttempts * cycles \in Nat
    BY ConstantsAssumption DEF TypeOK, RowType, StepType
  <2>2. MaxAttempts * (cycles + 1) = MaxAttempts * cycles + MaxAttempts
    BY <2>1
  <2> QED BY <2>1, <2>2 DEF BudgetInv
<1> QED BY <1>1 DEF BudgetInv, AttemptBudget, Retries, Uncertain

-----------------------------------------------------------------------------
(* The inductive invariant *)

(* A new task satisfies it: no lease, no effect, nothing at the provider. *)
LEMMA InitInv == Init => IInv
<1> SUFFICES ASSUME Init PROVE IInv
  OBVIOUS
<1>1. LeaseInv
  BY DEF Init, LeaseInv, Holds
<1>2. ProgressInv
  BY ConstantsAssumption DEF Init, ProgressInv, Step
<1>3. EvidenceInv
  BY DEF Init, EvidenceInv, Holds, Untouched, Exists, RequestsFor
<1> QED BY <1>1, <1>2, <1>3, InitType DEF IInv

(* The lease facts survive a step that starts no claim: workers keep what  *)
(* they hold or drop it, and a remaining holder sees the same stage and    *)
(* step.                                                                   *)
LEMMA LeaseKept ==
  ASSUME LeaseInv, token' = token,
         \A v \in Worker : pc'[v] # "idle" =>
           /\ pc[v] # "idle" /\ wToken'[v] = wToken[v]
           /\ wStage'[v] = wStage[v] /\ wStep'[v] = wStep[v],
         \A v \in Worker : pc'[v] = "calling" => wStage'[v] = "PREPARE",
         \A v \in Worker : Holds(v)' => Holds(v) /\ stage' = stage /\ index' = index
  PROVE  LeaseInv'
<1> USE DEF LeaseInv
<1>1. \A w \in Worker : pc'[w] # "idle" => wToken'[w] <= token'
  OBVIOUS
<1>2. \A v, w \in Worker :
        pc'[v] # "idle" /\ pc'[w] # "idle" /\ wToken'[v] = wToken'[w] => v = w
  OBVIOUS
<1>3. \A w \in Worker : Holds(w)' => wStage'[w] = stage' /\ wStep'[w] = index'
  BY DEF Holds
<1>4. \A w \in Worker : pc'[w] # "idle" /\ wStage'[w] # "ACTIVATE" => wStep'[w] \in Step
  OBVIOUS
<1> QED BY <1>1, <1>2, <1>3, <1>4

(* The evidence survives a step that writes no effect, takes no evidence   *)
(* away and leaves each remaining holder as it was.                        *)
LEMMA EvidenceKept ==
  ASSUME EvidenceInv, effect' = effect,
         \A i : Exists(i) => Exists(i)',
         \A i : Untouched(i) => Untouched(i)',
         \A v \in Worker : Holds(v)' =>
           /\ Holds(v) /\ pc'[v] = pc[v] /\ wStage'[v] = wStage[v]
           /\ wStep'[v] = wStep[v] /\ wOutcome'[v] = wOutcome[v]
  PROVE  EvidenceInv'
<1> USE DEF EvidenceInv
<1>1. \A i \in Step : effect'[i] = "READY" => Exists(i)'
  OBVIOUS
<1>2. TimelyDispatch => \A i \in Step : effect'[i] = "ABSENT" => Untouched(i)'
  OBVIOUS
<1>3. (\A w \in Worker :
         Holds(w) /\ wStage[w] # "ACTIVATE" /\ pc[w] = "observed" /\ wOutcome[w] = "READY"
           => Exists(wStep[w]))'
  BY DEF Exists
<1>4. TimelyDispatch => (\A w \in Worker :
         Holds(w) /\ wStage[w] # "ACTIVATE" /\ pc[w] = "observed"
           /\ wOutcome[w] \in {"ABSENT", "RETRYABLE", "PERMANENT"} => Untouched(wStep[w]))'
  BY DEF Untouched, Exists
<1>5. TimelyDispatch => (\A w \in Worker :
         Holds(w) /\ wStage[w] = "PREPARE" /\ pc[w] = "claimed" => Untouched(wStep[w]))'
  BY DEF Untouched, Exists
<1> QED BY <1>1, <1>2, <1>3, <1>4, <1>5

(* A row that is given back has no holder, whatever workers still believe. *)
LEMMA ReleaseInv ==
  ASSUME IInv, NEW to, to # "RUNNING", Release(to), UNCHANGED workerVars
  PROVE  /\ LeaseInv'
         /\ \A w \in Worker : ~Holds(w)'
<1>1. \A w \in Worker : ~Holds(w)'
  BY DEF Release, Holds
<1>2. UNCHANGED <<token, pc, wToken, wStage, wStep>>
  BY DEF Release, workerVars, heldVars
<1>3. \A v \in Worker : pc'[v] = "calling" => wStage'[v] = "PREPARE"
  BY <1>2 DEF IInv, LeaseInv
<1>4. LeaseInv'
  BY <1>1, <1>2, <1>3, LeaseKept DEF IInv
<1> QED BY <1>1, <1>4

(* Task.Claim: the new token is fresh, and the steps it may touch are the  *)
(* current one only, whose effect it marks UNKNOWN.                        *)
LEMMA ClaimInv ==
  ASSUME IInv, NEW w \in Worker, Claim(w)
  PROVE  LeaseInv' /\ ProgressInv' /\ EvidenceInv'
<1> USE DEF IInv
<1>1. /\ \A i : Exists(i)' <=> Exists(i)
      /\ \A i : Untouched(i)' <=> Untouched(i)
  BY DEF Claim, Exists, Untouched, externalVars
<1>2. state # "APPLIED" /\ state # "CANCELLED" /\ activated' = activated
  BY DEF Claim, Due
<1>3. ASSUME NEW to \in {"RECONCILIATION_REQUIRED", "FAILED"},
             Release(to), UNCHANGED <<index, stepVars, workerVars>>
      PROVE  LeaseInv' /\ ProgressInv' /\ EvidenceInv'
  <2>1. LeaseInv' /\ \A v \in Worker : ~Holds(v)'
    BY <1>3, ReleaseInv
  <2>2. ProgressInv'
    BY <1>2, <1>3 DEF ProgressInv, Release, stepVars
  <2>3. EvidenceInv'
    BY <1>1, <1>3, <2>1, EvidenceKept DEF stepVars
  <2> QED BY <2>1, <2>2, <2>3
<1>4. ASSUME NEW for \in Stage, LeaseTo(w, for), for # "ACTIVATE" => index \in Step
      PROVE  LeaseInv' /\ \A v \in Worker : Holds(v)' => v = w
  <2>1. \A v \in Worker : Holds(v)' => v = w
    BY <1>4 DEF LeaseTo, Holds, LeaseInv, TypeOK, RowType, WorkerType
  <2>2. /\ pc'[w] = "claimed" /\ wToken'[w] = token + 1 /\ wStage'[w] = for
        /\ wStep'[w] = index /\ token' = token + 1 /\ stage' = for /\ index' = index
    BY <1>4 DEF LeaseTo, TypeOK, WorkerType
  <2>3. \A v \in Worker : v # w =>
          pc'[v] = pc[v] /\ wToken'[v] = wToken[v] /\ wStage'[v] = wStage[v] /\ wStep'[v] = wStep[v]
    BY <1>4 DEF LeaseTo, TypeOK, WorkerType
  <2>4. token \in Nat /\ \A v \in Worker : wToken[v] \in Nat
    BY DEF TypeOK, RowType, WorkerType
  <2>5. /\ \A v \in Worker : pc'[v] # "idle" => wToken'[v] <= token'
        /\ \A v \in Worker : pc'[v] # "idle" /\ v # w => wToken'[v] <= token
    <3>1. \A v \in Worker : pc[v] # "idle" => wToken[v] <= token
      BY DEF LeaseInv
    <3>2. \A v \in Worker : pc'[v] # "idle" /\ v # w => wToken'[v] <= token
      BY <2>3, <3>1
    <3> QED BY <2>2, <2>3, <2>4, <3>2
  <2>6. \A u, v \in Worker :
          pc'[u] # "idle" /\ pc'[v] # "idle" /\ wToken'[u] = wToken'[v] => u = v
    <3>1. ASSUME NEW u \in Worker, NEW v \in Worker, u # w, v # w, pc'[u] # "idle",
                 pc'[v] # "idle", wToken'[u] = wToken'[v]
          PROVE  u = v
      BY <2>3, <3>1 DEF LeaseInv
    <3>2. \A v \in Worker : pc'[v] # "idle" /\ v # w => wToken'[v] # wToken'[w]
      BY <2>2, <2>3, <2>4, <2>5
    <3> QED BY <3>1, <3>2
  <2>7. \A v \in Worker : Holds(v)' => wStage'[v] = stage' /\ wStep'[v] = index'
    BY <2>1, <2>2
  <2>8. \A v \in Worker : pc'[v] # "idle" /\ wStage'[v] # "ACTIVATE" => wStep'[v] \in Step
    BY <1>4, <2>2, <2>3 DEF LeaseInv
  <2>9. \A v \in Worker : pc'[v] = "calling" => wStage'[v] = "PREPARE"
    BY <2>2, <2>3 DEF LeaseInv
  <2> QED BY <2>1, <2>5, <2>6, <2>7, <2>8, <2>9 DEF LeaseInv
<1>5. {"ACTIVATE", "RECONCILE", "PREPARE"} \subseteq Stage
  BY DEF Stage
<1>6. CASE ClaimPastDeadline
  BY <1>3, <1>6 DEF ClaimPastDeadline
<1>7. CASE ClaimActivation(w)
  <2>1. LeaseInv' /\ \A v \in Worker : Holds(v)' => v = w
    BY <1>4, <1>5, <1>7 DEF ClaimActivation
  <2>2. ProgressInv'
    BY <1>2, <1>7 DEF ClaimActivation, LeaseTo, ProgressInv, stepVars
  <2>3. pc'[w] = "claimed" /\ wStage'[w] = "ACTIVATE"
    BY <1>7 DEF ClaimActivation, LeaseTo, TypeOK, WorkerType
  <2>4. effect' = effect
    BY <1>7 DEF ClaimActivation, stepVars
  <2>5. EvidenceInv'
    BY <1>1, <2>1, <2>3, <2>4 DEF EvidenceInv
  <2> QED BY <2>1, <2>2, <2>5
<1>8. CASE ClaimActivationExhausted
  BY <1>3, <1>8 DEF ClaimActivationExhausted
<1>9. CASE ClaimReconcile(w)
  <2>1. index \in Step
    BY <1>9, IndexStep DEF ClaimReconcile
  <2>2. LeaseInv' /\ \A v \in Worker : Holds(v)' => v = w
    BY <1>4, <1>5, <1>9, <2>1 DEF ClaimReconcile
  <2>3. /\ effect'[index] = "UNKNOWN"
        /\ \A i \in Step : i # index => effect'[i] = effect[i]
    BY <1>9, <2>1 DEF ClaimReconcile, TypeOK, StepType
  <2>4. ProgressInv'
    BY <1>2, <1>9, <2>1, <2>3 DEF ClaimReconcile, LeaseTo, ProgressInv, Step
  <2>5. pc'[w] = "claimed" /\ wStage'[w] = "RECONCILE"
    BY <1>9 DEF ClaimReconcile, LeaseTo, TypeOK, WorkerType
  <2>6. EvidenceInv'
    BY <1>1, <2>2, <2>3, <2>5 DEF EvidenceInv
  <2> QED BY <2>2, <2>4, <2>6
<1>10. CASE ClaimReconcileExhausted
  BY <1>3, <1>10 DEF ClaimReconcileExhausted
<1>11. CASE ClaimPrepare(w)
  <2>1. CASE cycle[index] >= MaxAttempts
    BY <1>3, <1>11, <2>1 DEF ClaimPrepare
  <2>2. CASE ~(cycle[index] >= MaxAttempts)
    <3>1. index \in Step
      BY <1>11, IndexStep DEF ClaimPrepare
    <3>2. LeaseInv' /\ \A v \in Worker : Holds(v)' => v = w
      BY <1>4, <1>5, <1>11, <2>2, <3>1 DEF ClaimPrepare
    <3>3. /\ effect'[index] = "UNKNOWN"
          /\ \A i \in Step : i # index => effect'[i] = effect[i]
      BY <1>11, <2>2, <3>1 DEF ClaimPrepare, TypeOK, StepType
    <3>4. ProgressInv'
      BY <1>2, <1>11, <2>2, <3>1, <3>3 DEF ClaimPrepare, LeaseTo, ProgressInv, Step
    <3>5. pc'[w] = "claimed" /\ wStep'[w] = index
      BY <1>11, <2>2 DEF ClaimPrepare, LeaseTo, TypeOK, WorkerType
    <3>6. TimelyDispatch => Untouched(index)
      <4>1. effect[index] = "ABSENT"
        BY <1>11, <2>2, <3>1 DEF ClaimPrepare, Uncertain, ProgressInv, TypeOK, StepType, Effect
      <4> QED BY <3>1, <4>1 DEF EvidenceInv
    <3>7. EvidenceInv'
      BY <1>1, <3>1, <3>2, <3>3, <3>5, <3>6 DEF EvidenceInv
    <3> QED BY <3>2, <3>4, <3>7
  <2> QED BY <2>1, <2>2
<1> QED BY <1>6, <1>7, <1>8, <1>9, <1>10, <1>11 DEF Claim

(* The task's progress does not change with what workers and the wire do. *)
LEMMA ProgressFrame ==
  ASSUME IInv, UNCHANGED <<taskVars, activated>>
  PROVE  ProgressInv'
BY DEF IInv, ProgressInv, taskVars, rowVars, stepVars

(* A worker that moves on within its tick keeps what its claim gave it. *)
LEMMA TickLease ==
  ASSUME IInv, NEW w \in Worker, pc[w] # "idle", UNCHANGED <<taskVars, heldVars>>,
         NEW to \in Pc, pc' = [pc EXCEPT ![w] = to], to = "calling" => wStage[w] = "PREPARE"
  PROVE  /\ LeaseInv'
         /\ pc'[w] = to
         /\ \A v \in Worker : v # w => pc'[v] = pc[v]
         /\ \A v \in Worker : Holds(v)' => Holds(v)
<1>1. pc'[w] = to /\ \A v \in Worker : v # w => pc'[v] = pc[v]
  BY DEF IInv, TypeOK, WorkerType
<1>2. UNCHANGED <<state, stage, index, token, wToken, wStage, wStep>>
  BY DEF taskVars, rowVars, leaseVars, heldVars
<1>3. \A v \in Worker : Holds(v)' => Holds(v)
  BY <1>1, <1>2 DEF Holds
<1>4. \A v \in Worker : pc'[v] = "calling" => wStage'[v] = "PREPARE"
  BY <1>1, <1>2 DEF IInv, LeaseInv
<1>5. LeaseInv'
  BY <1>1, <1>2, <1>3, <1>4, LeaseKept DEF IInv
<1> QED BY <1>1, <1>3, <1>5

(* When a worker's tick ends the others keep what they hold. *)
LEMMA TickEndsLease ==
  ASSUME IInv, NEW w \in Worker, TickEnds(w)
  PROVE  /\ pc'[w] = "idle"
         /\ \A v \in Worker : v # w =>
              /\ pc'[v] = pc[v] /\ wToken'[v] = wToken[v] /\ wStage'[v] = wStage[v]
              /\ wStep'[v] = wStep[v] /\ wOutcome'[v] = wOutcome[v]
BY DEF IInv, TypeOK, WorkerType, TickEnds

(* A worker drops its work (a crash, or a record without a lease): it      *)
(* holds nothing any more, and nothing else changes.                       *)
LEMMA DropInv ==
  ASSUME IInv, NEW w \in Worker, TickEnds(w), UNCHANGED <<taskVars, externalVars, activated>>
  PROVE  LeaseInv' /\ ProgressInv' /\ EvidenceInv'
<1>1. ProgressInv'
  BY ProgressFrame
<1>2. UNCHANGED <<state, stage, index, token, effect, provider, inflight>>
  BY DEF taskVars, rowVars, leaseVars, stepVars, externalVars
<1>3. /\ pc'[w] = "idle"
      /\ \A v \in Worker : v # w =>
           /\ pc'[v] = pc[v] /\ wToken'[v] = wToken[v] /\ wStage'[v] = wStage[v]
           /\ wStep'[v] = wStep[v] /\ wOutcome'[v] = wOutcome[v]
  BY TickEndsLease
<1>4. \A v \in Worker : Holds(v)' => Holds(v) /\ v # w
  BY <1>2, <1>3 DEF Holds
<1>5. \A v \in Worker : pc'[v] = "calling" => wStage'[v] = "PREPARE"
  BY <1>3 DEF IInv, LeaseInv
<1>6. LeaseInv'
  BY <1>2, <1>3, <1>4, <1>5, LeaseKept DEF IInv
<1>7. (\A i : Exists(i)' <=> Exists(i)) /\ (\A i : Untouched(i)' <=> Untouched(i))
  BY <1>2 DEF Exists, Untouched
<1>8. EvidenceInv'
  BY <1>2, <1>3, <1>4, <1>7, EvidenceKept DEF IInv
<1> QED BY <1>1, <1>6, <1>8

(* The adapter answers a question that creates nothing: a missing adapter, *)
(* a reconciliation, a failed activation.                                  *)
LEMMA AnswerInv ==
  ASSUME IInv, NEW w \in Worker,
         AdapterMissing(w) \/ ReconcileReturns(w) \/ FinalizeFails(w)
  PROVE  LeaseInv' /\ ProgressInv' /\ EvidenceInv'
<1>1. ProgressInv'
  BY ProgressFrame DEF AdapterMissing, ReconcileReturns, FinalizeFails
<1>2. UNCHANGED <<taskVars, heldVars, externalVars>> /\ pc[w] = "claimed"
  BY DEF AdapterMissing, ReconcileReturns, FinalizeFails, Observes
<1>3. PICK o \in Outcome :
        /\ Observes(w, o)
        /\ wStage[w] # "ACTIVATE" /\ o = "READY" => Exists(wStep[w])
        /\ wStage[w] = "RECONCILE" /\ o \in {"ABSENT", "RETRYABLE", "PERMANENT"} =>
             Untouched(wStep[w])
  <2>1. CASE AdapterMissing(w)
    BY <2>1 DEF AdapterMissing, Outcome
  <2>2. CASE ReconcileReturns(w)
    <3>1. PICK o \in Outcome : Evidence(wStep[w], o, RequestsFor(wStep[w])) /\ Observes(w, o)
      BY <2>2 DEF ReconcileReturns
    <3> QED BY <3>1 DEF Evidence, Untouched, RequestsFor
  <2>3. CASE FinalizeFails(w)
    BY <2>3 DEF FinalizeFails, Outcome
  <2> QED BY <2>1, <2>2, <2>3
<1>4. /\ LeaseInv'
      /\ pc'[w] = "observed"
      /\ \A v \in Worker : v # w => pc'[v] = pc[v]
      /\ \A v \in Worker : Holds(v)' => Holds(v)
  <2>1. pc' = [pc EXCEPT ![w] = "observed"] /\ "observed" \in Pc
    BY <1>3 DEF Observes, Pc
  <2> QED BY <1>2, <2>1, TickLease, ZenonT(30)
<1>5. wOutcome'[w] = o /\ \A v \in Worker : v # w => wOutcome'[v] = wOutcome[v]
  BY <1>3 DEF Observes, IInv, TypeOK, WorkerType
<1>6. wStage[w] \in {"PREPARE", "RECONCILE", "ACTIVATE"}
  BY DEF IInv, TypeOK, WorkerType, Stage
<1>7. EvidenceInv'
  <2>1. /\ \A i \in Step : Exists(i)' <=> Exists(i)
        /\ \A i \in Step : Untouched(i)' <=> Untouched(i)
        /\ \A v \in Worker : Exists(wStep[v])' <=> Exists(wStep[v])
        /\ \A v \in Worker : Untouched(wStep[v])' <=> Untouched(wStep[v])
    BY <1>2 DEF Exists, Untouched, externalVars, heldVars
  <2>2. UNCHANGED <<effect, wStage, wStep>>
    BY <1>2 DEF taskVars, stepVars, heldVars
  <2> QED BY <1>2, <1>3, <1>4, <1>5, <1>6, <2>1, <2>2, ZenonT(10) DEF IInv, EvidenceInv
<1> QED BY <1>1, <1>4, <1>7

(* A prepare request leaves: within the lease, and only for a step that    *)
(* nothing has touched.  Its effect is already UNKNOWN in the row.         *)
LEMMA DispatchInv ==
  ASSUME IInv, NEW w \in Worker, Dispatch(w)
  PROVE  LeaseInv' /\ ProgressInv' /\ EvidenceInv'
<1>1. ProgressInv'
  BY ProgressFrame DEF Dispatch
<1>2. UNCHANGED <<taskVars, heldVars, provider, wOutcome>> /\ pc[w] = "claimed"
  BY DEF Dispatch
<1>3. /\ LeaseInv'
      /\ pc'[w] = "calling"
      /\ \A v \in Worker : v # w => pc'[v] = pc[v]
      /\ \A v \in Worker : Holds(v)' => Holds(v)
  <2>1. pc' = [pc EXCEPT ![w] = "calling"] /\ "calling" \in Pc /\ wStage[w] = "PREPARE"
    BY DEF Dispatch, Pc
  <2> QED BY <1>2, <2>1, TickLease, ZenonT(30)
<1>4. UNCHANGED <<effect, wStage, wStep>> /\ \A i : Exists(i)' <=> Exists(i)
  BY <1>2 DEF taskVars, stepVars, heldVars, Exists
<1>5. ASSUME NEW i, i # wStep[w] PROVE Untouched(i)' <=> Untouched(i)
  BY <1>4, <1>5 DEF Dispatch, Untouched, OwnRequest
<1>6. TimelyDispatch =>
        /\ Holds(w)
        /\ \A i \in Step : effect[i] = "ABSENT" => i # wStep[w]
        /\ \A v \in Worker : Holds(v) => v = w
  <2>1. TimelyDispatch => Holds(w)
    BY <1>2 DEF Dispatch, Owns, Holds
  <2>2. Holds(w) => wStep[w] = index /\ index \in Step /\ effect[index] = "UNKNOWN"
    BY DEF Dispatch, IInv, LeaseInv, ProgressInv, Holds
  <2> QED BY <2>1, <2>2, ZenonT(10) DEF Holds, IInv, LeaseInv
<1>7. EvidenceInv'
  <2>1. \A i \in Step : effect'[i] = "READY" => Exists(i)'
    BY <1>4 DEF IInv, EvidenceInv
  <2>2. TimelyDispatch => \A i \in Step : effect'[i] = "ABSENT" => Untouched(i)'
    BY <1>4, <1>5, <1>6 DEF IInv, EvidenceInv
  <2> QED BY <1>2, <1>3, <1>4, <1>6, <2>1, <2>2, ZenonT(10) DEF IInv, EvidenceInv
<1> QED BY <1>1, <1>3, <1>7

(* The prepare call returns with evidence about its own step. *)
LEMMA PrepareReturnsInv ==
  ASSUME IInv, NEW w \in Worker, PrepareReturns(w)
  PROVE  LeaseInv' /\ ProgressInv' /\ EvidenceInv'
<1>1. ProgressInv'
  BY ProgressFrame DEF PrepareReturns
<1>2. UNCHANGED <<taskVars, heldVars, provider>> /\ pc[w] = "calling"
  BY DEF PrepareReturns, Observes
<1>3. PICK o \in Outcome :
        /\ Evidence(wStep[w], o, RequestsFor(wStep[w]) \ {OwnRequest(w)})
        /\ Observes(w, o)
        /\ inflight' = IF o = "UNKNOWN" THEN inflight ELSE inflight \ {OwnRequest(w)}
  BY DEF PrepareReturns
<1>4. /\ LeaseInv'
      /\ pc'[w] = "observed"
      /\ \A v \in Worker : v # w => pc'[v] = pc[v]
      /\ \A v \in Worker : Holds(v)' => Holds(v)
  <2>1. pc' = [pc EXCEPT ![w] = "observed"] /\ "observed" \in Pc
    BY <1>3 DEF Observes, Pc
  <2> QED BY <1>2, <2>1, TickLease, ZenonT(30)
<1>5. wOutcome'[w] = o /\ \A v \in Worker : v # w => wOutcome'[v] = wOutcome[v]
  BY <1>3 DEF Observes, IInv, TypeOK, WorkerType
<1>6. UNCHANGED <<effect, wStage, wStep>> /\ \A i : Exists(i)' <=> Exists(i)
  BY <1>2 DEF taskVars, stepVars, heldVars, Exists
<1>7. \A i : Untouched(i) => Untouched(i)'
  BY <1>3, <1>6 DEF Untouched
<1>8. o = "READY" => Exists(wStep[w])
  BY <1>3 DEF Evidence
<1>9. o \in {"ABSENT", "RETRYABLE", "PERMANENT"} => Untouched(wStep[w])'
  BY <1>3, <1>6 DEF Evidence, Untouched, RequestsFor
<1>10. EvidenceInv'
  BY <1>4, <1>5, <1>6, <1>7, <1>8, <1>9, ZenonT(10) DEF IInv, EvidenceInv
<1> QED BY <1>1, <1>4, <1>10

(* Workers and task unchanged: the lease facts hold on, and so does the    *)
(* evidence if the environment only adds to it.                            *)
LEMMA WorkersFrame ==
  ASSUME IInv, UNCHANGED <<taskVars, workerVars>>,
         \A i : Exists(i) => Exists(i)',
         \A i : Untouched(i) => Untouched(i)'
  PROVE  LeaseInv' /\ EvidenceInv'
<1>1. UNCHANGED <<state, stage, index, token, effect, pc, wToken, wStage, wStep, wOutcome>>
  BY DEF taskVars, rowVars, leaseVars, stepVars, workerVars, heldVars
<1>2. \A v \in Worker : Holds(v)' => Holds(v)
  BY <1>1 DEF Holds
<1>3. \A v \in Worker : pc'[v] = "calling" => wStage'[v] = "PREPARE"
  BY <1>1 DEF IInv, LeaseInv
<1>4. LeaseInv'
  BY <1>1, <1>2, <1>3, LeaseKept DEF IInv
<1>5. EvidenceInv'
  BY <1>1, <1>2, EvidenceKept DEF IInv
<1> QED BY <1>4, <1>5

(* The provider acts only on requests under way, so an untouched step      *)
(* stays untouched.                                                        *)
LEMMA ProviderInv ==
  ASSUME IInv, ProviderActs \/ RequestLost
  PROVE  LeaseInv' /\ ProgressInv' /\ EvidenceInv'
<1>1. ProgressInv'
  BY ProgressFrame DEF ProviderActs, RequestLost
<1>2. UNCHANGED <<taskVars, workerVars>>
  BY DEF ProviderActs, RequestLost
<1>3. \A i : Exists(i) => Exists(i)'
  BY DEF ProviderActs, RequestLost, Exists
<1>4. \A i : Untouched(i) => Untouched(i)'
  BY DEF ProviderActs, RequestLost, Exists, Untouched
<1>5. LeaseInv' /\ EvidenceInv'
  BY <1>2, <1>3, <1>4, WorkersFrame
<1> QED BY <1>1, <1>5

(* A row given back at the end of a worker's tick has no holder. *)
LEMMA ReleaseTickInv ==
  ASSUME IInv, NEW w \in Worker, NEW to, to # "RUNNING", Release(to),
         TickEnds(w) \/ \E o \in Outcome : pc[w] # "idle" /\ Observes(w, o)
  PROVE  /\ LeaseInv'
         /\ \A v \in Worker : ~Holds(v)'
<1>1. \A v \in Worker : ~Holds(v)'
  BY DEF Release, Holds
<1>2. token' = token
  BY DEF Release
<1>3. CASE TickEnds(w)
  <2>1. /\ pc'[w] = "idle"
        /\ \A v \in Worker : v # w =>
             /\ pc'[v] = pc[v] /\ wToken'[v] = wToken[v] /\ wStage'[v] = wStage[v]
             /\ wStep'[v] = wStep[v] /\ wOutcome'[v] = wOutcome[v]
    BY <1>3, TickEndsLease
  <2>2. \A v \in Worker : pc'[v] = "calling" => wStage'[v] = "PREPARE"
    BY <2>1 DEF IInv, LeaseInv
  <2>3. LeaseInv'
    BY <1>1, <1>2, <2>1, <2>2, LeaseKept DEF IInv
  <2> QED BY <1>1, <2>3
<1>4. ASSUME NEW o \in Outcome, pc[w] # "idle", Observes(w, o)
      PROVE  LeaseInv'
  <2>1. /\ pc'[w] = "observed" /\ \A v \in Worker : v # w => pc'[v] = pc[v]
        /\ UNCHANGED <<wToken, wStage, wStep>>
    BY <1>4 DEF Observes, heldVars, IInv, TypeOK, WorkerType
  <2>2. \A v \in Worker : pc'[v] = "calling" => wStage'[v] = "PREPARE"
    BY <2>1 DEF IInv, LeaseInv
  <2> QED BY <1>1, <1>2, <1>4, <2>1, <2>2, LeaseKept DEF IInv
<1> QED BY <1>1, <1>3, <1>4

(* RecordProvisioningWork: only the lease holder writes, and it writes     *)
(* evidence that is true of its step.                                      *)
LEMMA RecordInv ==
  ASSUME IInv, NEW w \in Worker, Record(w)
  PROVE  LeaseInv' /\ ProgressInv' /\ EvidenceInv'
<1>1. /\ \A i : Exists(i)' <=> Exists(i)
      /\ \A i : Untouched(i)' <=> Untouched(i)
  BY DEF Record, Exists, Untouched, externalVars
<1>2. CASE UNCHANGED taskVars
  BY <1>2, DropInv DEF Record
<1>3. CASE Owns(w) /\ Observe(wOutcome[w])
  <2> DEFINE o == wOutcome[w]
  <2>1. Holds(w) /\ pc[w] = "observed" /\ state = "RUNNING" /\ activated' = activated
    BY <1>3 DEF Record, Owns, Holds
  <2>2. wStage[w] = stage /\ wStep[w] = index
    BY <2>1 DEF IInv, LeaseInv
  <2>3. stage # "ACTIVATE" => index \in Step /\ effect[index] = "UNKNOWN"
    BY <2>1 DEF IInv, ProgressInv
  <2>4. stage # "ACTIVATE" /\ o = "READY" => Exists(index)
    BY <2>1, <2>2 DEF IInv, EvidenceInv
  <2>5. TimelyDispatch /\ stage # "ACTIVATE" /\ o \in {"ABSENT", "RETRYABLE", "PERMANENT"} =>
          Untouched(index)
    BY <2>1, <2>2 DEF IInv, EvidenceInv
  <2>6. ASSUME NEW to \in {"QUEUED", "READY", "RETRY_WAIT", "FAILED", "RECONCILIATION_REQUIRED"},
               Release(to)
        PROVE  LeaseInv' /\ \A v \in Worker : ~Holds(v)'
    BY <2>6, ReleaseTickInv DEF Record
  <2>7. ASSUME NEW e \in {"ABSENT", "UNKNOWN"}, effect' = [effect EXCEPT ![index] = e],
               stage # "ACTIVATE", index' = index,
               TimelyDispatch /\ e = "ABSENT" => Untouched(index),
               NEW to \in {"RETRY_WAIT", "FAILED", "RECONCILIATION_REQUIRED"},
               Release(to)
        PROVE  LeaseInv' /\ ProgressInv' /\ EvidenceInv'
    <3>1. effect'[index] = e /\ \A i \in Step : i # index => effect'[i] = effect[i]
      BY <2>3, <2>7 DEF IInv, TypeOK, StepType
    <3>2. LeaseInv' /\ \A v \in Worker : ~Holds(v)'
      BY <2>6, <2>7
    <3>3. state' = to
      BY <2>7 DEF Release
    <3>4. ProgressInv'
      BY <2>1, <2>3, <2>7, <3>1, <3>3, ConstantsAssumption, ZenonT(10) DEF IInv, ProgressInv, Step
    <3>5. EvidenceInv'
      BY <1>1, <2>7, <3>1, <3>2, ZenonT(10) DEF IInv, EvidenceInv
    <3> QED BY <3>2, <3>4, <3>5
  <2>8. CASE ObserveActivation(o)
    <3>1. LeaseInv' /\ \A v \in Worker : ~Holds(v)'
      BY <2>6, <2>8 DEF ObserveActivation
    <3>2. state' \in {"RETRY_WAIT", "RECONCILIATION_REQUIRED"} /\ UNCHANGED <<index, effect>>
      BY <2>8 DEF ObserveActivation, Release, stepVars
    <3>3. ProgressInv'
      BY <2>1, <3>2 DEF IInv, ProgressInv
    <3>4. EvidenceInv'
      BY <1>1, <3>1, <3>2, ZenonT(10) DEF IInv, EvidenceInv
    <3> QED BY <3>1, <3>3, <3>4
  <2>9. CASE ObserveReady(o)
    <3>1. LeaseInv' /\ \A v \in Worker : ~Holds(v)'
      BY <2>6, <2>9 DEF ObserveReady
    <3>2. /\ state' \in {"QUEUED", "READY"} /\ index' = index + 1
          /\ stage # "ACTIVATE" /\ o = "READY" /\ effect' = [effect EXCEPT ![index] = "READY"]
      BY <2>9 DEF ObserveReady, Release
    <3>3. effect'[index] = "READY" /\ \A i \in Step : i # index => effect'[i] = effect[i]
      BY <2>3, <3>2 DEF IInv, TypeOK, StepType
    <3>4. ProgressInv'
      <4>1. \A i \in Step : i < index' => effect'[i] = "READY"
        BY <2>3, <3>2, <3>3 DEF IInv, ProgressInv, Step
      <4>2. \A i \in Step : i > index' => effect'[i] = "ABSENT"
        BY <2>3, <3>2, <3>3 DEF IInv, ProgressInv, Step
      <4>3. index' \in Step => effect'[index'] # "READY"
        BY <2>3, <3>2, <3>3 DEF IInv, ProgressInv, Step
      <4>4. activated' = IF state' = "APPLIED" THEN 1 ELSE 0
        BY <2>1, <3>2 DEF IInv, ProgressInv
      <4> QED BY <3>2, <4>1, <4>2, <4>3, <4>4 DEF ProgressInv
    <3>5. EvidenceInv'
      BY <1>1, <2>4, <3>1, <3>2, <3>3 DEF IInv, EvidenceInv
    <3> QED BY <3>1, <3>4, <3>5
  <2>10. CASE ObserveAbsent(o)
    BY <2>5, <2>7, <2>10 DEF ObserveAbsent
  <2>11. CASE ObservePermanent(o)
    BY <2>5, <2>7, <2>11 DEF ObservePermanent
  <2>12. CASE ObserveUnknown(o)
    BY <2>7, <2>12 DEF ObserveUnknown
  <2> QED BY <1>3, <2>8, <2>9, <2>10, <2>11, <2>12 DEF Observe
<1> QED BY <1>2, <1>3 DEF Record

(* FinalizeProvisioningWork: every step is READY when the rights are       *)
(* activated, and the task was not applied before.                         *)
LEMMA FinalizeInv ==
  ASSUME IInv, NEW w \in Worker, FinalizeCommits(w)
  PROVE  LeaseInv' /\ ProgressInv' /\ EvidenceInv'
<1>1. /\ \A i : Exists(i)' <=> Exists(i)
      /\ \A i : Untouched(i)' <=> Untouched(i)
  BY DEF FinalizeCommits, Exists, Untouched, externalVars
<1>2. LeaseInv' /\ \A v \in Worker : ~Holds(v)'
  BY ReleaseTickInv DEF FinalizeCommits, Outcome
<1>3. /\ state = "RUNNING" /\ state' = "APPLIED" /\ index = NSteps + 1
      /\ UNCHANGED <<index, effect>>
  BY DEF FinalizeCommits, Owns, Release, stepVars
<1>4. activated = 0 /\ activated' = activated + 1
  BY <1>3 DEF FinalizeCommits, IInv, ProgressInv
<1>5. ProgressInv'
  BY <1>3, <1>4 DEF IInv, ProgressInv
<1>6. EvidenceInv'
  BY <1>1, <1>2, <1>3, EvidenceKept DEF IInv
<1> QED BY <1>2, <1>5, <1>6

(* A retry keeps every effect; a cancellation is admitted only when all    *)
(* effects are ABSENT.                                                     *)
LEMMA MutateInv ==
  ASSUME IInv, NEW r \in Request, Retry(r) \/ Cancel(r)
  PROVE  LeaseInv' /\ ProgressInv' /\ EvidenceInv'
<1>1. /\ \A i : Exists(i)' <=> Exists(i)
      /\ \A i : Untouched(i)' <=> Untouched(i)
  BY DEF Retry, Cancel, Exists, Untouched, externalVars
<1>2. LeaseInv' /\ \A v \in Worker : ~Holds(v)'
  BY ReleaseInv DEF Retry, Cancel
<1>3. /\ state # "APPLIED" /\ state # "CANCELLED" /\ state' \in {"QUEUED", "CANCELLED"}
      /\ state' = "CANCELLED" => \A i \in Step : effect[i] = "ABSENT"
      /\ UNCHANGED <<index, effect, activated>>
  BY DEF Retry, Cancel, Cancellable, Terminal, Release, stepVars
<1>4. ProgressInv'
  BY <1>3 DEF IInv, ProgressInv
<1>5. EvidenceInv'
  BY <1>1, <1>2, <1>3, EvidenceKept DEF IInv
<1> QED BY <1>2, <1>4, <1>5

(* Reading, the approval and the clock touch nothing the invariant speaks  *)
(* of; nor does a stuttering step.                                         *)
LEMMA FrameInv ==
  ASSUME IInv, UNCHANGED <<taskVars, workerVars, externalVars, activated>>
  PROVE  LeaseInv' /\ ProgressInv' /\ EvidenceInv'
<1>1. ProgressInv'
  BY ProgressFrame
<1>2. (\A i : Exists(i)' <=> Exists(i)) /\ (\A i : Untouched(i)' <=> Untouched(i))
  BY DEF Exists, Untouched, externalVars
<1>3. LeaseInv' /\ EvidenceInv'
  BY <1>2, WorkersFrame
<1> QED BY <1>1, <1>3

(* Every step of every process preserves the invariant. *)
LEMMA NextInv == IInv /\ [Next]_vars => IInv'
<1> SUFFICES ASSUME IInv, [Next]_vars PROVE IInv'
  OBVIOUS
<1> USE DEF IInv
<1>1. ASSUME NEW w \in Worker, WorkerStep(w) PROVE IInv'
  <2>1. CASE Claim(w)
    BY <2>1, ClaimType, ClaimInv
  <2>2. CASE AdapterMissing(w) \/ ReconcileReturns(w) \/ FinalizeFails(w)
    BY <2>2, CallType, AnswerInv
  <2>3. CASE Dispatch(w)
    BY <2>3, CallType, DispatchInv
  <2>4. CASE PrepareReturns(w)
    BY <2>4, CallType, PrepareReturnsInv
  <2>5. CASE Record(w)
    BY <2>5, RecordType, RecordInv
  <2>6. CASE FinalizeCommits(w)
    BY <2>6, FinalizeType, FinalizeInv
  <2> QED BY <1>1, <2>1, <2>2, <2>3, <2>4, <2>5, <2>6 DEF WorkerStep
<1>2. ASSUME NEW w \in Worker, Crash(w) PROVE IInv'
  BY <1>2, CallType, DropInv DEF Crash
<1>3. ASSUME NEW r \in Request, OperatorReads(r) PROVE IInv'
  BY <1>3, EnvironmentType, FrameInv DEF OperatorReads
<1>4. ASSUME NEW r \in Request, Retry(r) \/ Cancel(r) PROVE IInv'
  BY <1>4, MutateType, MutateInv
<1>5. CASE ProviderActs \/ RequestLost
  BY <1>5, EnvironmentType, ProviderInv
<1>6. CASE ApprovalGoesStale \/ Tick
  BY <1>6, EnvironmentType, FrameInv DEF ApprovalGoesStale, Tick
<1>7. CASE UNCHANGED vars
  <2>1. TypeOK'
    BY <1>7 DEF vars, TypeOK, RowType, FlagType, StepType, WorkerType, OperatorType, ExternalType,
                taskVars, rowVars, leaseVars, stepVars, workerVars, heldVars, operatorVars,
                externalVars
  <2> QED BY <1>7, <2>1, FrameInv DEF vars
<1> QED BY <1>1, <1>2, <1>3, <1>4, <1>5, <1>6, <1>7 DEF Next

-----------------------------------------------------------------------------
(* Theorems *)

(* The inductive invariant holds in every reachable state: lease tokens    *)
(* identify claims, the stored effects and the evidence under way are true *)
(* of the provider.                                                        *)
THEOREM Invariance == Spec => []IInv
BY InitInv, NextInv, PTL DEF Spec

(* Rights are activated exactly once and only over existing resources      *)
(* (FinalizeProvisioningWork), for any number of workers and steps, and    *)
(* whether or not workers dispatch in time.                                *)
THEOREM AppliedSafe == Spec => []AppliedOnlyWhenPrepared
<1>1. IInv => AppliedOnlyWhenPrepared
  <2> SUFFICES ASSUME IInv PROVE AppliedOnlyWhenPrepared
    OBVIOUS
  <2>1. ASSUME state = "APPLIED" PROVE provider = Step
    <3>1. \A i \in Step : i < index
      BY <2>1, ConstantsAssumption DEF IInv, ProgressInv, Step
    <3>2. \A i \in Step : Exists(i)
      BY <3>1 DEF IInv, ProgressInv, EvidenceInv
    <3> QED BY <3>2 DEF Exists, IInv, TypeOK, ExternalType
  <2> QED BY <2>1 DEF AppliedOnlyWhenPrepared, IInv, ProgressInv
<1> QED BY <1>1, Invariance, PTL

(* A cancelled task leaves nothing behind (CancelPrepared), provided that  *)
(* workers dispatch within their lease.                                    *)
THEOREM CancelSafe == Spec => []CancelledLeavesNothing
<1>1. IInv => CancelledLeavesNothing
  <2> SUFFICES ASSUME IInv, TimelyDispatch, state = "CANCELLED"
               PROVE  provider = {} /\ inflight = {}
    BY DEF CancelledLeavesNothing
  <2>1. \A i \in Step : Untouched(i)
    BY DEF IInv, ProgressInv, EvidenceInv
  <2>2. \A r \in inflight : r.step \in Step
    BY DEF IInv, TypeOK, ExternalType
  <2> QED BY <2>1, <2>2 DEF Untouched, Exists, IInv, TypeOK, ExternalType
<1> QED BY <1>1, Invariance, PTL

(* Recovery never sends a prepare request for a step that may already have *)
(* an effect (Task.Claim reconciles first).                                *)
THEOREM DispatchSafe == Spec => NoBlindDispatch
<1> DEFINE A == TimelyDispatch =>
                  \A r \in inflight' \ inflight : ~Exists(r.step) /\ RequestsFor(r.step) = {}
<1>1. IInv /\ [Next]_vars => A
  <2> SUFFICES ASSUME IInv, [Next]_vars, TimelyDispatch,
                      NEW r \in inflight', r \notin inflight
               PROVE  Untouched(r.step)
    BY DEF Untouched, RequestsFor
  <2>1. PICK w \in Worker : Dispatch(w)
    <3>1. inflight' # inflight /\ ~(inflight' \subseteq inflight)
      OBVIOUS
    <3>2. ~UNCHANGED vars /\ ~UNCHANGED externalVars
      BY <3>1 DEF vars, externalVars
    <3> QED
      BY <3>1, <3>2
         DEF Next, WorkerStep, Claim, AdapterMissing, PrepareReturns, ReconcileReturns, Record,
             FinalizeCommits, FinalizeFails, Crash, OperatorReads, Retry, Cancel, ProviderActs,
             RequestLost, ApprovalGoesStale, Tick
  <2>2. r = OwnRequest(w) /\ Holds(w) /\ wStage[w] = "PREPARE" /\ pc[w] = "claimed"
    BY <2>1 DEF Dispatch, Owns, Holds
  <2>3. r.step = wStep[w]
    BY <2>2 DEF OwnRequest
  <2> QED BY <2>2, <2>3 DEF IInv, EvidenceInv
<1> QED BY <1>1, Invariance, PTL DEF Spec, NoBlindDispatch

(* No late record, retry, cancel or claim changes an APPLIED or CANCELLED  *)
(* task.                                                                   *)
THEOREM TerminalSafe == Spec => TerminalIsFinal
<1>1. [Next]_vars => (Terminal => UNCHANGED taskVars)
  <2> SUFFICES ASSUME [Next]_vars, Terminal PROVE UNCHANGED taskVars
    OBVIOUS
  <2>1. state # "RUNNING" /\ state \notin {"QUEUED", "RETRY_WAIT", "READY"}
        /\ state \notin {"FAILED", "RECONCILIATION_REQUIRED"}
    BY DEF Terminal
  <2>2. ~Due /\ ~Cancellable /\ \A w : ~Owns(w)
    BY <2>1 DEF Due, Cancellable, Owns
  <2> QED
    BY <2>1, <2>2
       DEF Next, WorkerStep, Claim, AdapterMissing, Dispatch, PrepareReturns, ReconcileReturns,
           Record, FinalizeCommits, FinalizeFails, Crash, OperatorReads, Retry, Cancel,
           ProviderActs, RequestLost, ApprovalGoesStale, Tick, vars
<1> QED BY <1>1, PTL DEF Spec, TerminalIsFinal

(* No operation writes a row that Task.Integrity refuses to load. *)
THEOREM IntegritySafe == Spec => []Integrity
<1> DEFINE Counters ==
             /\ (state = "RUNNING") <=> (owner # NoWorker)
             /\ state = "RUNNING" => token > 0
             /\ \A i \in Step : cycle[i] <= attempts[i] /\ cycle[i] <= MaxAttempts
<1>1. Init => Counters
  BY ConstantsAssumption DEF Init
<1>2. IInv /\ Counters /\ [Next]_vars => Counters'
  <2> SUFFICES ASSUME IInv, Counters, [Next]_vars PROVE Counters'
    OBVIOUS
  <2> USE ConstantsAssumption
  <2>1. CASE UNCHANGED <<state, owner, token, cycle, attempts>>
    BY <2>1
  <2>2. ASSUME NEW to \in TaskState \ {"RUNNING"}, Release(to),
               UNCHANGED <<cycle, attempts>>
        PROVE  Counters'
    BY <2>2 DEF Release
  <2>3. ASSUME NEW w \in Worker, NEW for, LeaseTo(w, for),
               \A i \in Step : cycle'[i] <= attempts'[i] /\ cycle'[i] <= MaxAttempts
        PROVE  Counters'
    <3>1. state' = "RUNNING" /\ owner' = w /\ token' = token + 1
      BY <2>3 DEF LeaseTo
    <3>2. token' > 0
      BY <3>1 DEF IInv, TypeOK, RowType
    <3> QED BY <2>3, <3>1, <3>2
  <2>4. {"RECONCILIATION_REQUIRED", "FAILED", "RETRY_WAIT", "QUEUED", "READY", "APPLIED",
         "CANCELLED"} \subseteq TaskState \ {"RUNNING"}
    BY DEF TaskState
  <2>5. ASSUME NEW w \in Worker, Claim(w) PROVE Counters'
    <3>1. CASE ClaimPastDeadline \/ ClaimActivationExhausted \/ ClaimReconcileExhausted
      BY <2>2, <2>4, <3>1
         DEF ClaimPastDeadline, ClaimActivationExhausted, ClaimReconcileExhausted, stepVars
    <3>2. CASE ClaimActivation(w) \/ ClaimReconcile(w)
      BY <2>3, <3>2 DEF ClaimActivation, ClaimReconcile, stepVars
    <3>3. CASE ClaimPrepare(w) /\ cycle[index] >= MaxAttempts
      BY <2>2, <2>4, <3>3 DEF ClaimPrepare, stepVars
    <3>4. CASE ClaimPrepare(w) /\ ~(cycle[index] >= MaxAttempts)
      <4>1. index \in Step
        BY <3>4, IndexStep DEF ClaimPrepare, IInv
      <4>2. \A i \in Step : cycle'[i] <= attempts'[i] /\ cycle'[i] <= MaxAttempts
        BY <3>4, <4>1 DEF ClaimPrepare, IInv, TypeOK, StepType
      <4> QED BY <2>3, <3>4, <4>2 DEF ClaimPrepare
    <3> QED BY <2>5, <3>1, <3>2, <3>3, <3>4 DEF Claim
  <2>6. ASSUME NEW w \in Worker, Record(w) PROVE Counters'
    <3>1. CASE UNCHANGED taskVars
      BY <2>1, <3>1 DEF taskVars, rowVars, leaseVars, stepVars
    <3>2. CASE Observe(wOutcome[w])
      BY <2>2, <2>4, <3>2 DEF Observe, ObserveActivation, ObserveReady, ObserveAbsent,
                              ObservePermanent, ObserveUnknown, stepVars
    <3> QED BY <2>6, <3>1, <3>2 DEF Record
  <2>7. ASSUME NEW w \in Worker, FinalizeCommits(w) PROVE Counters'
    BY <2>2, <2>4, <2>7 DEF FinalizeCommits, stepVars
  <2>8. ASSUME NEW r \in Request, Cancel(r) PROVE Counters'
    BY <2>2, <2>4, <2>8 DEF Cancel, stepVars
  <2>9. ASSUME NEW r \in Request, Retry(r) PROVE Counters'
    <3>1. /\ UNCHANGED attempts /\ Release("QUEUED")
          /\ cycle' = [i \in Step |-> IF i = index THEN 0 ELSE cycle[i]]
      BY <2>9 DEF Retry
    <3>2. \A i \in Step : cycle'[i] <= attempts'[i] /\ cycle'[i] <= MaxAttempts
      BY <3>1 DEF IInv, TypeOK, StepType
    <3> QED BY <3>1, <3>2 DEF Release
  <2>10. ASSUME NEW w \in Worker,
                \/ AdapterMissing(w) \/ Dispatch(w) \/ PrepareReturns(w) \/ ReconcileReturns(w)
                \/ FinalizeFails(w) \/ Crash(w)
         PROVE  Counters'
    BY <2>1, <2>10 DEF AdapterMissing, Dispatch, PrepareReturns, ReconcileReturns, FinalizeFails,
                       Crash, taskVars, rowVars, leaseVars, stepVars
  <2>11. CASE \/ \E r \in Request : OperatorReads(r)
              \/ ProviderActs \/ RequestLost \/ ApprovalGoesStale \/ Tick \/ UNCHANGED vars
    BY <2>1, <2>11 DEF OperatorReads, ProviderActs, RequestLost, ApprovalGoesStale, Tick, vars,
                       taskVars, rowVars, leaseVars, stepVars
  <2> QED BY <2>5, <2>6, <2>7, <2>8, <2>9, <2>10, <2>11 DEF Next, WorkerStep
<1>3. IInv /\ Counters => Integrity
  BY DEF IInv, ProgressInv, Integrity
<1> QED BY <1>1, <1>2, <1>3, Invariance, PTL DEF Spec

(* AttemptBudget for every number of steps, workers, requests and limits:  *)
(* whatever the interleaving of claims, lost leases, observations and      *)
(* operator retries, no step is attempted more often than the policy and   *)
(* the accepted retries allow, every cycle beyond the first has its        *)
(* receipt, and Task.Claim never meets a preparation it must refuse.       *)
THEOREM AttemptsBounded == Spec => []AttemptBudget
<1>1. Init => BudgetInv
  BY BudgetInit
<1>2. IInv /\ BudgetInv /\ [Next]_vars => BudgetInv'
  BY BudgetStep
<1>3. IInv /\ BudgetInv => AttemptBudget
  BY BudgetMeans DEF IInv
<1> QED BY <1>1, <1>2, <1>3, Invariance, PTL DEF Spec
=============================================================================
