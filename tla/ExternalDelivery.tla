-------------------------- MODULE ExternalDelivery --------------------------
(***************************************************************************)
(* External notification tasks: leased by workers, admitted, handed to a   *)
(* provider that may answer late, wrongly or not at all, retried, and      *)
(* closed by the provider's callback (internal/notification:               *)
(* external_delivery_worker.go, external_delivery.go, delivery/http.go).   *)
(***************************************************************************)
EXTENDS NotificationWorkers

CONSTANTS
  MaxAttempts,  \* ExternalDeliveryPolicy.MaxAttempts
  Lease,        \* LeaseDuration
  Backoff       \* Backoff[attempt - 1], by attempt

ASSUME DeliveryAssumption ==
  MaxAttempts \in Nat \ {0} /\ Lease \in Nat \ {0} /\ Backoff \in [1 .. MaxAttempts - 1 -> Nat \ {0}]

VARIABLES
  task,        \* biz_notification_external_tasks, by event and user
  idempotent,  \* ExternalNotificationIdempotent of the provider
  sends, accepted, verdict  \* the provider: calls, deliveries accepted, what became of the last

providerVars == <<sends, accepted, verdict>>
deliveryVars == <<task, idempotent, providerVars>>

NoTask == [state |-> "none", attempts |-> 0, owner |-> "none", left |-> 0, receipt |-> 0]
NewTask == [NoTask EXCEPT !.state = "PENDING"]
Terminal == {"PROVIDER_ACCEPTED", "DELIVERED", "CANCELLED", "MANUAL_REVIEW"}
TaskState == Terminal \cup {"none", "PENDING", "LEASED", "RETRY_WAIT"}

DeliveryInit ==
  /\ task = [t \in Task |-> NoTask]
  /\ idempotent \in BOOLEAN
  /\ sends = [t \in Task |-> 0] /\ accepted = [t \in Task |-> 0]
  /\ verdict = [t \in Task |-> "none"]

-----------------------------------------------------------------------------
(* Transitions of the row *)

Row(t, row) == task' = [task EXCEPT ![t] = row]

(* Its attempts and its receipt stay. *)
Becomes(row, state, owner, left) ==
  [state |-> state, attempts |-> row.attempts, owner |-> owner, left |-> left, receipt |-> row.receipt]

(* terminalExternalTask *)
Closed(row, state) == Becomes(row, state, "none", 0)

(* lockedExternalTask, for a row that is not terminal: the lease is live   *)
(* and the worker's.                                                       *)
Current(w) ==
  LET row == task[job[w].task] IN row.state = "LEASED" /\ row.owner = w /\ row.left > 0

(* NextDelay *)
NextDelay(attempt) == IF attempt < MaxAttempts THEN {Backoff[attempt]} ELSE {}

(* Faulty variant: a lease whose worker died is nobody's. *)
DueUnleased(row) == row.state = "PENDING" \/ (row.state = "RETRY_WAIT" /\ row.left = 0)

Due(row) == \/ row.state = "PENDING"
            \/ row.state \in {"RETRY_WAIT", "LEASED"} /\ row.left = 0

(* ClaimNextExternalTask *)
ClaimNextExternalTask(w, t) ==
  LET row == task[t] IN
  /\ job[w] = Idle /\ Due(row)
  /\ \/ /\ row.attempts >= MaxAttempts
        /\ Row(t, Closed(row, "MANUAL_REVIEW"))
        /\ UNCHANGED <<job, consent>>
     \/ /\ row.attempts < MaxAttempts
        /\ Row(t, [Becomes(row, "LEASED", w, Lease) EXCEPT !.attempts = @ + 1])
        /\ job' = [job EXCEPT ![w] = [pc |-> "claimed", task |-> t, recovered |-> row.state = "LEASED"]]
        /\ consent' = IF Admissible(tenantActive, standing[t[2]]) THEN consent \cup {w} ELSE consent \ {w}

-----------------------------------------------------------------------------
(* RunOnce *)

Goes(w, pc) == job' = [job EXCEPT ![w] = [pc |-> pc, task |-> @.task]]
Done(w) == job' = [job EXCEPT ![w] = Idle] /\ consent' = consent \ {w}

(* PrepareOptionalNotificationDelivery and what RunOnce makes of it *)
Admission(u) ==
  IF ~Reachable(u) \/ standing[u] = "denied" THEN "CANCELLED"
  ELSE IF standing[u] = "no_contact" THEN "MANUAL_REVIEW" ELSE "send"

(* Faulty variants: a recovered claim is sent again; what was routed is    *)
(* taken as admitted.                                                      *)
PrepareEveryTime(w) == job[w].pc = "claimed" /\ Goes(w, Admission(job[w].task[2]))
PrepareUnasked(w) ==
  job[w].pc = "claimed" /\ Goes(w, IF job[w].recovered /\ ~idempotent THEN "MANUAL_REVIEW" ELSE "send")

(* From the claim to the call: an outcome nobody knows is not tried again  *)
(* on a provider that is not idempotent; then the recipient is asked for.  *)
Prepare(w) ==
  /\ job[w].pc = "claimed"
  /\ Goes(w, IF job[w].recovered /\ ~idempotent THEN "MANUAL_REVIEW" ELSE Admission(job[w].task[2]))

(* TerminalExternalTask *)
TerminalExternalTask(w) ==
  LET t == job[w].task IN
  /\ job[w].pc \in {"CANCELLED", "MANUAL_REVIEW"}
  /\ IF Current(w) THEN Row(t, Closed(task[t], job[w].pc)) ELSE UNCHANGED task
  /\ Done(w)

(* classifyExternalProviderFailure *)
Retryable(known, retryable) == retryable /\ (known \/ idempotent)

(* SendExternalNotification and classifyHTTPProviderStatus: a result, or a *)
(* failure that says whether its outcome is known and whether another try  *)
(* makes sense.  An answer that is lost says nothing of what the provider  *)
(* did.                                                                    *)
SendExternalNotification(w) ==
  LET t == job[w].task IN
  /\ job[w].pc = "send"
  /\ sends' = [sends EXCEPT ![t] = @ + 1]
  /\ \E taken \in BOOLEAN, answer \in {"accepted", "delivered", "retry", "final"} :
       LET n == IF ~taken THEN accepted[t] ELSE IF idempotent THEN 1 ELSE accepted[t] + 1 IN
       /\ answer \in {"accepted", "delivered"} => taken
       /\ answer \in {"retry", "final"} => \E known, retryable \in BOOLEAN :
            (known => ~taken) /\ (answer = "retry") = Retryable(known, retryable)
       /\ answer = "delivered" => verdict[t] # "failed"
       /\ accepted' = [accepted EXCEPT ![t] = n]
       /\ verdict' = [verdict EXCEPT ![t] = IF answer = "delivered" THEN "delivered"
                                            ELSE IF n # accepted[t] THEN "none" ELSE @]
       /\ job' = [job EXCEPT ![w] = [pc |-> "sent", task |-> t, answer |-> answer, receipt |-> n]]
  /\ consent' = consent \ {w}

(* CompleteExternalTask *)
CompleteExternalTask(w) ==
  LET t == job[w].task IN
  /\ job[w].pc = "sent" /\ job[w].answer \in {"accepted", "delivered"}
  /\ IF Current(w)
     THEN Row(t, [Closed(task[t], IF job[w].answer = "delivered" THEN "DELIVERED" ELSE "PROVIDER_ACCEPTED")
                    EXCEPT !.receipt = job[w].receipt])
     ELSE UNCHANGED task
  /\ Done(w)

(* FailExternalTask *)
FailExternalTask(w) ==
  LET t == job[w].task
      row == task[t]
  IN
  /\ job[w].pc = "sent" /\ job[w].answer \in {"retry", "final"}
  /\ IF ~Current(w) THEN UNCHANGED task
     ELSE IF job[w].answer = "retry" /\ NextDelay(row.attempts) # {}
     THEN \E delay \in NextDelay(row.attempts) :
            Row(t, Becomes(row, "RETRY_WAIT", "none", delay))
     ELSE Row(t, Closed(row, "MANUAL_REVIEW"))
  /\ Done(w)

(* A shutdown, a crash or an error of the infrastructure: the lease is     *)
(* left to lapse.                                                          *)
AbandonTask(w) == Delivering(w) /\ Done(w)

DeliveryStep(w) ==
  \/ \E t \in Task : ClaimNextExternalTask(w, t) /\ UNCHANGED providerVars
  \/ Prepare(w) /\ UNCHANGED <<task, providerVars, consent>>
  \/ (TerminalExternalTask(w) \/ CompleteExternalTask(w) \/ FailExternalTask(w)) /\ UNCHANGED providerVars
  \/ SendExternalNotification(w) /\ UNCHANGED task

-----------------------------------------------------------------------------
(* ApplyExternalProviderCallback: the provider says what became of an      *)
(* accepted delivery, at any time and as often as it likes; a callback for *)
(* a receipt the row does not (yet) name is refused.                       *)
ApplyExternalProviderCallback(t) ==
  /\ accepted[t] > 0
  /\ \E status \in {"delivered", "failed"} :
       /\ verdict[t] \in {"none", status}
       /\ verdict' = [verdict EXCEPT ![t] = status]
       /\ IF task[t].receipt = accepted[t] /\ task[t].state = "PROVIDER_ACCEPTED"
          THEN Row(t, [task[t] EXCEPT !.state = IF status = "delivered" THEN "DELIVERED" ELSE "MANUAL_REVIEW"])
          ELSE UNCHANGED task
  /\ UNCHANGED <<job, consent, sends, accepted>>

-----------------------------------------------------------------------------
(* Properties *)

(* A provider that does not recognise a repeated task gets none to repeat: *)
(* at most one call for a task is accepted, whatever was lost, however     *)
(* late an answer comes and whoever died in between (RunOnce,              *)
(* classifyExternalProviderFailure).                                       *)
AcceptedOnce == ~idempotent => \A t \in Task : accepted[t] <= 1

(* At most MaxAttempts calls are made for a task, those of workers that    *)
(* lost their lease included (ClaimNextExternalTask).                      *)
SendBudget == \A t \in Task : sends[t] <= MaxAttempts

(* What is recorded is true of the provider: an accepted or delivered task *)
(* was accepted, a delivered one was delivered, and one that waits for     *)
(* another try was not taken by a provider that cannot repeat it           *)
(* (CompleteExternalTask, FailExternalTask,                                *)
(* ApplyExternalProviderCallback).                                         *)
RecordedTruly ==
  \A t \in Task :
    /\ task[t].state \in {"PROVIDER_ACCEPTED", "DELIVERED"} => task[t].receipt \in 1 .. accepted[t]
    /\ task[t].state = "DELIVERED" => verdict[t] = "delivered"
    /\ task[t].state = "RETRY_WAIT" /\ ~idempotent => accepted[t] = 0

(* All that a recipient and an operator are promised of the calls made for *)
(* a task, together.                                                       *)
DeliveryInv == AcceptedOnce /\ SendBudget /\ RecordedTruly

(* Nobody is written to against a preference or a suspension that was in   *)
(* force all through the attempt, whatever held when the event was routed  *)
(* (PrepareOptionalNotificationDelivery before every call).                *)
SentWithConsent ==
  [][\A w \in Worker : job[w].pc = "send" /\ job'[w].pc = "sent" => w \in consent]_<<job, consent>>

(* Every task comes to an outcome, however often workers die: attempts run *)
(* out (ClaimNextExternalTask).                                            *)
TaskSettles == \A t \in Task : task[t].state # "none" ~> task[t].state \in Terminal
=============================================================================
