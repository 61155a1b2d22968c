------------------------- MODULE NotificationProofs -------------------------
(***************************************************************************)
(* Proofs about NotificationRouting and ExternalDelivery, for any workers, *)
(* users, events and configurations: what a router knows comes from a      *)
(* configuration that was in force since it began, an event is routed      *)
(* once, nobody is written to against a standing refusal, and a provider   *)
(* is called for a task as often as its attempts allow and, where it       *)
(* cannot repeat a call, accepts one at most.                              *)
(***************************************************************************)
EXTENDS NotificationRouting, TLAPS

(* A leaf is first tried with Zenon, briefly, and then with SMT. *)
USE ZenonT(1), SMT

-----------------------------------------------------------------------------
(* Types *)

Says == Contents \cup {Nothing}
Channel == {"in_app", "sms"}
DecisionRow ==
       [user : User, channel : Channel,
        outcome : {"RECIPIENT_INACTIVE", "CHANNEL_UNAVAILABLE", "IN_APP_CREATED", "PREFERENCE_DENIED", "EXTERNAL_TASK"}]
  \cup [user : {"nobody"}, channel : {"none"}, outcome : {"UNAVAILABLE", "NO_CONFIGURATION"}]

Claimed == [pc : {"claimed"}, task : Task, recovered : BOOLEAN]
Prepared == [pc : {"send", "CANCELLED", "MANUAL_REVIEW"}, task : Task]
Sent == [pc : {"sent"}, task : Task, answer : {"accepted", "delivered", "retry", "final"}, receipt : Nat]
Carrying == Claimed \cup Prepared \cup Sent

Finding == [pc : {"find"}, event : Event, seen : SUBSET Says]
Choosing == [pc : {"channels"}, event : Event, seen : SUBSET Says, id : Nat, primary : User]
Adding == [pc : {"extra"}, event : Event, seen : SUBSET Says, id : Nat, primary : User,
           channels : SUBSET Channel]
Resolving == [pc : {"resolve"}, event : Event, seen : SUBSET Says, users : SUBSET User,
              channels : SUBSET Channel]
Preferring == [pc : {"preferences"}, event : Event, seen : SUBSET Says, plan : SUBSET DecisionRow,
               ask : SUBSET User]
Completing == [pc : {"complete"}, event : Event, seen : SUBSET Says, plan : SUBSET DecisionRow]
Router == Finding \cup Choosing \cup Adding \cup Resolving \cup Preferring \cup Completing

TaskRow == [state : TaskState, attempts : 0 .. MaxAttempts, owner : Worker \cup {"none"}, left : Nat,
            receipt : Nat]
EventRow == [state : {"none", "PENDING", "LEASED", "ROUTED"}, owner : Worker \cup {"none"}, left : Nat]

(* The rows of the tasks: a lease names its worker and was counted as an   *)
(* attempt, and only a lease or a delay runs down.                         *)
TaskOK(row) ==
  /\ row.owner # "none" <=> row.state = "LEASED"
  /\ row.left > 0 => row.state \in {"LEASED", "RETRY_WAIT"}
  /\ row.state = "LEASED" => row.attempts > 0
  /\ row.state = "none" => row = NoTask
EventOK(row) == row.owner # "none" <=> row.state = "LEASED"

NType ==
  /\ job \in [Worker -> {Idle} \cup Carrying \cup Router]
  /\ tenantActive \in BOOLEAN /\ standing \in [User -> Standing] /\ consent \subseteq Worker
  /\ task \in [Task -> TaskRow] /\ \A t \in Task : TaskOK(task[t])
  /\ idempotent \in BOOLEAN
  /\ sends \in [Task -> Nat] /\ accepted \in [Task -> Nat]
  /\ verdict \in [Task -> {"none", "delivered", "failed"}]
  /\ config \in [id : Nat, says : Says]
  /\ event \in [Event -> EventRow] /\ \A e \in Event : EventOK(event[e])
  /\ outcomes \in [Event -> SUBSET DecisionRow] /\ inbox \subseteq Task

(* The stage of a worker's job says what its record holds. *)
LEMMA Stages ==
  ASSUME NEW q \in {Idle} \cup Carrying \cup Router
  PROVE  /\ q.pc = "claimed" <=> q \in Claimed
         /\ q.pc \in {"send", "CANCELLED", "MANUAL_REVIEW"} <=> q \in Prepared
         /\ q.pc = "sent" <=> q \in Sent
         /\ q.pc = "find" <=> q \in Finding
         /\ q.pc = "channels" <=> q \in Choosing
         /\ q.pc = "extra" <=> q \in Adding
         /\ q.pc = "resolve" <=> q \in Resolving
         /\ q.pc = "preferences" <=> q \in Preferring
         /\ q.pc = "complete" <=> q \in Completing
         /\ q.pc = "idle" <=> q = Idle
BY SMT DEF Idle, Carrying, Router, Claimed, Prepared, Sent, Finding, Choosing, Adding, Resolving, Preferring, Completing

(* A router's steps up to the completion: it goes on as a router or ends,  *)
(* and nothing but its job changes (RouteOnce).                            *)
Reads(w) ==
  FindConfiguration(w) \/ FindChannels(w) \/ FindRecipients(w) \/ ResolveRecipients(w) \/ ReadPreference(w)

(* Its record has its type at each stage. *)
LEMMA ReadsRoute ==
  ASSUME NType, NEW w \in Worker, Reads(w)
  PROVE  /\ job[w] \in Router
         /\ \E q \in {Idle} \cup Router : job' = [job EXCEPT ![w] = q]
         /\ consent' = consent \/ consent' = consent \ {w}
<1>0. job[w] \in {Idle} \cup Carrying \cup Router
  BY DEF NType
<1>1. config.id \in Nat /\ config.says \in Says
  BY DEF NType
<1>2. config.says # Nothing => config.says \in [primary : User, extra : SUBSET User, channels : SUBSET Channel]
  BY <1>1, RoutingAssumption DEF Says, Channel
<1>3. Relation(w, "channels") \subseteq Channel /\ Relation(w, "extra") \subseteq User
  BY <1>2 DEF Relation, Nothing
<1>4. CASE FindConfiguration(w)
  <2>1. job[w] \in Finding
    BY <1>0, <1>4, Stages DEF FindConfiguration
  <2>2. \A o \in {"UNAVAILABLE", "NO_CONFIGURATION"} : Planned(w, ToNobody(o)) \in Completing
    BY <2>1 DEF Finding, Planned, ToNobody, Decision, Completing, DecisionRow
  <2> QED BY <1>1, <1>2, <1>4, <2>1, <2>2 DEF FindConfiguration, Knows, Finding, Choosing, Router
<1>5. CASE FindChannels(w)
  <2>1. job[w] \in Choosing
    BY <1>0, <1>5, Stages DEF FindChannels
  <2>2. Chosen(w, Relation(w, "channels")) \in Adding
    BY <1>3, <2>1 DEF Choosing, Chosen, Adding
  <2> QED BY <1>5, <2>1, <2>2 DEF FindChannels, Knows, Router
<1>6. CASE FindRecipients(w)
  <2>1. job[w] \in Adding
    BY <1>0, <1>6, Stages DEF FindRecipients
  <2>2. [pc |-> "resolve", event |-> job[w].event, seen |-> job[w].seen,
         users |-> Relation(w, "extra") \cup {job[w].primary}, channels |-> job[w].channels] \in Resolving
    BY <1>3, <2>1 DEF Adding, Resolving
  <2> QED BY <1>6, <2>1, <2>2 DEF FindRecipients, Knows, Done, Router
<1>7. CASE ResolveRecipients(w)
  <2>1. job[w] \in Resolving
    BY <1>0, <1>7, Stages DEF ResolveRecipients
  <2> DEFINE active == {u \in job[w].users : standing[u] # "inactive"}
  <2>0. PICK off \in SUBSET {"sms"} :
          \/ Done(w)
          \/ Knows(w, Asking(w, Sorted(w, active, off), IF "sms" \in job[w].channels \ off THEN active ELSE {}))
    BY <1>7 DEF ResolveRecipients
  <2> DEFINE plan == Sorted(w, active, off)
             ask == IF "sms" \in job[w].channels \ off THEN active ELSE {}
  <2>2. plan \subseteq DecisionRow /\ ask \subseteq User
    BY <2>1 DEF Resolving, Sorted, Decision, DecisionRow
  <2>3. Done(w) \/ Knows(w, Asking(w, plan, ask))
    BY <2>0
  <2> HIDE DEF plan, ask
  <2>4. Asking(w, plan, ask) \in Preferring
    BY <2>1, <2>2 DEF Resolving, Asking, Preferring
  <2> QED BY <2>1, <2>3, <2>4 DEF Knows, Done, Router
<1>8. CASE ReadPreference(w)
  <2>1. job[w] \in Preferring
    BY <1>0, <1>8, Stages DEF ReadPreference
  <2>2. Planned(w, job[w].plan) \in Completing
    BY <2>1 DEF Preferring, Planned, Completing
  <2>3. ASSUME NEW u \in job[w].ask, NEW o \in {"PREFERENCE_DENIED", "EXTERNAL_TASK"}
        PROVE  Asking(w, job[w].plan \cup {Decision(u, "sms", o)}, job[w].ask \ {u}) \in Preferring
    BY <2>1 DEF Preferring, Asking, Decision, DecisionRow, Channel
  <2> QED BY <1>8, <2>1, <2>2, <2>3 DEF ReadPreference, Knows, Done, Router
<1> QED BY <1>4, <1>5, <1>6, <1>7, <1>8 DEF Reads

(* A row that is closed, leased, told to wait or made anew has its shape. *)
LEMMA BecomesRow ==
  ASSUME NEW row \in TaskRow, NEW s \in TaskState, NEW o \in Worker \cup {"none"}, NEW n \in Nat,
         o # "none" <=> s = "LEASED", n > 0 => s \in {"LEASED", "RETRY_WAIT"},
         s = "LEASED" => row.attempts > 0, s # "none"
  PROVE  Becomes(row, s, o, n) \in TaskRow /\ TaskOK(Becomes(row, s, o, n))
<1>1. row.attempts \in 0 .. MaxAttempts /\ row.receipt \in Nat
  BY DEF TaskRow
<1> QED BY <1>1 DEF Becomes, TaskRow, TaskOK

(* A closed row keeps its attempts and its receipt (terminalExternalTask). *)
LEMMA ClosedRow ==
  ASSUME NEW row \in TaskRow, NEW s \in Terminal
  PROVE  /\ Closed(row, s) \in TaskRow /\ TaskOK(Closed(row, s))
         /\ Closed(row, s).state = s /\ Closed(row, s).attempts = row.attempts
         /\ Closed(row, s).receipt = row.receipt
<1>1. s \in TaskState /\ s # "none" /\ s # "LEASED"
  BY DEF TaskState, Terminal
<1>2. Closed(row, s) \in TaskRow /\ TaskOK(Closed(row, s))
  BY <1>1, BecomesRow DEF Closed
<1> QED BY <1>2 DEF Closed, Becomes

(* So have a task that is made and one that is not. *)
LEMMA NewRow == /\ NewTask \in TaskRow /\ TaskOK(NewTask) /\ NewTask.state = "PENDING"
                /\ NoTask \in TaskRow /\ TaskOK(NoTask) /\ NoTask.state = "none"
                /\ NewTask.attempts = 0 /\ NoTask.attempts = 0
BY DeliveryAssumption, SMT DEF NewTask, NoTask, TaskRow, TaskOK, TaskState, Terminal

(* One row changes and the tasks keep their types. *)
LEMMA RowMoves ==
  ASSUME NType, NEW t \in Task, NEW row \in TaskRow, TaskOK(row), Row(t, row)
  PROVE  task' \in [Task -> TaskRow] /\ \A x \in Task : TaskOK(task'[x])
BY DEF Row, NType

(* The claim leases the task for one more attempt, or closes it when they  *)
(* are used up (ClaimNextExternalTask).                                    *)
Leased(row, w) == [Becomes(row, "LEASED", w, Lease) EXCEPT !.attempts = @ + 1]

(* Either way the row keeps its shape, and a lapsed lease is marked as     *)
(* recovered.                                                              *)
LEMMA ClaimMoves ==
  ASSUME NType, NEW w \in Worker, NEW t \in Task, ClaimNextExternalTask(w, t)
  PROVE  \/ /\ Row(t, Closed(task[t], "MANUAL_REVIEW")) /\ UNCHANGED <<job, consent>>
            /\ task[t].state \in {"PENDING", "RETRY_WAIT", "LEASED"}
         \/ /\ Row(t, Leased(task[t], w)) /\ Leased(task[t], w) \in TaskRow /\ TaskOK(Leased(task[t], w))
            /\ Leased(task[t], w).state = "LEASED" /\ Leased(task[t], w).attempts = task[t].attempts + 1
            /\ Leased(task[t], w).receipt = task[t].receipt
            /\ task[t].state \in {"PENDING", "RETRY_WAIT", "LEASED"} /\ job[w] = Idle
            /\ \E r \in BOOLEAN : /\ r = (task[t].state = "LEASED")
                                  /\ job' = [job EXCEPT ![w] = [pc |-> "claimed", task |-> t, recovered |-> r]]
            /\ consent' = IF Admissible(tenantActive, standing[t[2]]) THEN consent \cup {w} ELSE consent \ {w}
<1>1. task[t] \in TaskRow /\ MaxAttempts \in Nat /\ Lease \in Nat /\ w # "none"
  BY DeliveryAssumption, WorkersAssumption DEF NType
<1>2. task[t].state \in {"PENDING", "RETRY_WAIT", "LEASED"} /\ job[w] = Idle
  BY DEF ClaimNextExternalTask, Due
<1>3. CASE task[t].attempts < MaxAttempts
  <2>1. /\ Leased(task[t], w) \in TaskRow /\ TaskOK(Leased(task[t], w))
        /\ Leased(task[t], w).state = "LEASED" /\ Leased(task[t], w).attempts = task[t].attempts + 1
        /\ Leased(task[t], w).receipt = task[t].receipt
    <3>1. Leased(task[t], w) = [state |-> "LEASED", attempts |-> task[t].attempts + 1, owner |-> w,
                                left |-> Lease, receipt |-> task[t].receipt]
      BY DEF Leased, Becomes
    <3>2. task[t].attempts + 1 \in 0 .. MaxAttempts /\ task[t].attempts + 1 > 0 /\ task[t].receipt \in Nat
      BY <1>1, <1>3, SMT DEF TaskRow
    <3>3. "LEASED" \in TaskState
      BY DEF TaskState
    <3> QED BY <1>1, <3>1, <3>2, <3>3, SMT DEF TaskRow, TaskOK
  <2>2. ~(task[t].attempts >= MaxAttempts)
    BY <1>1, <1>3 DEF TaskRow
  <2>3. /\ Row(t, Leased(task[t], w))
        /\ job' = [job EXCEPT ![w] = [pc |-> "claimed", task |-> t, recovered |-> task[t].state = "LEASED"]]
        /\ consent' = IF Admissible(tenantActive, standing[t[2]]) THEN consent \cup {w} ELSE consent \ {w}
    BY <2>2 DEF ClaimNextExternalTask, Leased
  <2> QED BY <1>2, <2>1, <2>3
<1>4. CASE ~(task[t].attempts < MaxAttempts)
  BY <1>2, <1>4 DEF ClaimNextExternalTask
<1> QED BY <1>3, <1>4

(* How a failure leaves the row (FailExternalTask). *)
LEMMA FailMoves ==
  ASSUME NType, NEW w \in Worker, FailExternalTask(w)
  PROVE  /\ job[w] \in Sent /\ job[w].answer \in {"retry", "final"} /\ Done(w)
         /\ \/ UNCHANGED task
            \/ Row(job[w].task, Closed(task[job[w].task], "MANUAL_REVIEW"))
            \/ /\ job[w].answer = "retry"
               /\ \E row \in TaskRow :
                    /\ Row(job[w].task, row) /\ TaskOK(row) /\ row.state = "RETRY_WAIT"
                    /\ row.attempts = task[job[w].task].attempts
<1> DEFINE t == job[w].task
<1>1. job[w] \in Sent /\ t \in Task
  BY Stages DEF FailExternalTask, NType, Sent
<1>2. task[t] \in TaskRow /\ TaskOK(task[t]) /\ MaxAttempts \in Nat
  BY <1>1, DeliveryAssumption DEF NType
<1>3. Current(w) => task[t].attempts \in 1 .. MaxAttempts
  BY <1>2 DEF Current, TaskRow, TaskOK
<1>4. ASSUME Current(w), NEW delay \in NextDelay(task[t].attempts)
      PROVE  delay \in Nat
  BY <1>2, <1>3, <1>4, DeliveryAssumption DEF NextDelay
<1>5. ASSUME NEW delay \in Nat
      PROVE  LET row == Becomes(task[t], "RETRY_WAIT", "none", delay) IN
             row \in TaskRow /\ TaskOK(row) /\ row.state = "RETRY_WAIT" /\ row.attempts = task[t].attempts
  <2>1. "RETRY_WAIT" \in TaskState
    BY DEF TaskState
  <2>2. /\ Becomes(task[t], "RETRY_WAIT", "none", delay) \in TaskRow
        /\ TaskOK(Becomes(task[t], "RETRY_WAIT", "none", delay))
    BY <1>2, <2>1, BecomesRow
  <2> QED BY <2>2 DEF Becomes
<1>6. \/ UNCHANGED task
      \/ Row(t, Closed(task[t], "MANUAL_REVIEW"))
      \/ /\ job[w].answer = "retry" /\ Current(w)
         /\ \E delay \in NextDelay(task[t].attempts) : Row(t, Becomes(task[t], "RETRY_WAIT", "none", delay))
  BY DEF FailExternalTask
<1> QED BY <1>1, <1>4, <1>5, <1>6 DEF FailExternalTask

(* A worker that records a refusal, or a result, closes the row while its  *)
(* lease stands, and ends (TerminalExternalTask, CompleteExternalTask).    *)
LEMMA RefusalMoves ==
  ASSUME NType, NEW w \in Worker, TerminalExternalTask(w)
  PROVE  /\ job[w] \in Prepared /\ job[w].pc \in {"CANCELLED", "MANUAL_REVIEW"} /\ Done(w)
         /\ UNCHANGED task \/ Row(job[w].task, Closed(task[job[w].task], job[w].pc))
<1>1. job[w] \in Prepared
  BY Stages DEF TerminalExternalTask, NType
<1> QED BY <1>1 DEF TerminalExternalTask

Result(w) == [Closed(task[job[w].task], IF job[w].answer = "delivered" THEN "DELIVERED" ELSE "PROVIDER_ACCEPTED")
                EXCEPT !.receipt = job[w].receipt]

(* The result names the receipt it was given. *)
LEMMA ResultMoves ==
  ASSUME NType, NEW w \in Worker, CompleteExternalTask(w)
  PROVE  /\ job[w] \in Sent /\ job[w].answer \in {"accepted", "delivered"} /\ Done(w)
         /\ Result(w) \in TaskRow /\ TaskOK(Result(w))
         /\ Result(w).state = IF job[w].answer = "delivered" THEN "DELIVERED" ELSE "PROVIDER_ACCEPTED"
         /\ Result(w).attempts = task[job[w].task].attempts /\ Result(w).receipt = job[w].receipt
         /\ UNCHANGED task \/ Row(job[w].task, Result(w))
<1> DEFINE t == job[w].task
           s == IF job[w].answer = "delivered" THEN "DELIVERED" ELSE "PROVIDER_ACCEPTED"
<1>1. job[w] \in Sent /\ t \in Task /\ job[w].receipt \in Nat
  BY Stages DEF CompleteExternalTask, NType, Sent
<1>2. Closed(task[t], s) \in TaskRow /\ TaskOK(Closed(task[t], s))
  BY <1>1, ClosedRow DEF NType, Terminal
<1>3. Result(w) = [state |-> s, attempts |-> task[t].attempts, owner |-> "none", left |-> 0,
                   receipt |-> job[w].receipt]
  BY DEF Result, Closed, Becomes
<1>4. Result(w) \in TaskRow /\ TaskOK(Result(w))
  <2>1. s \in TaskState /\ s # "none" /\ s # "LEASED"
    BY DEF TaskState, Terminal
  <2>2. task[t].attempts \in 0 .. MaxAttempts
    BY <1>1 DEF NType, TaskRow
  <2> HIDE DEF s
  <2> QED BY <1>1, <1>3, <2>1, <2>2 DEF TaskRow, TaskOK
<1>5. UNCHANGED task \/ Row(t, Result(w))
  BY DEF CompleteExternalTask, Result
<1> QED BY <1>1, <1>3, <1>4, <1>5 DEF CompleteExternalTask

(* The claim is prepared for the call or for a refusal (Prepare). *)
LEMMA PrepareMoves ==
  ASSUME NType, NEW w \in Worker, Prepare(w)
  PROVE  /\ job[w] \in Claimed
         /\ \E q \in Prepared :
              /\ job' = [job EXCEPT ![w] = q] /\ q.task = job[w].task
              /\ q.pc = "send" => /\ job[w].recovered => idempotent
                                  /\ Admissible(tenantActive, standing[job[w].task[2]])
<1>1. job[w] \in Claimed /\ job[w].task \in Event \X User
  BY Stages DEF Prepare, NType, Claimed, Task
<1> DEFINE u == job[w].task[2]
           pc == IF job[w].recovered /\ ~idempotent THEN "MANUAL_REVIEW" ELSE Admission(u)
           q == [pc |-> pc, task |-> job[w].task]
<1>2. u \in User /\ standing[u] \in Standing
  BY <1>1 DEF NType
<1>3. /\ Admission(u) \in {"send", "CANCELLED", "MANUAL_REVIEW"}
      /\ Admission(u) = "send" => Admissible(tenantActive, standing[u])
  BY <1>2 DEF Admission, Admissible, Reachable, Standing
<1>4. q \in Prepared
  BY <1>1, <1>3 DEF Prepared, Claimed
<1>5. job' = [job EXCEPT ![w] = q]
  BY DEF Prepare, Goes
<1>6. pc = "send" => (job[w].recovered => idempotent) /\ Admissible(tenantActive, standing[u])
  BY <1>3
<1> QED BY <1>1, <1>4, <1>5, <1>6

(* The call: counted, answered, and taken by the provider or not; whoever  *)

(* answers with a result has taken it, and a failure that may be repeated  *)
(* on a provider that cannot was not (SendExternalNotification,            *)
(* classifyExternalProviderFailure).                                       *)
LEMMA SendMoves ==
  ASSUME NType, NEW w \in Worker, SendExternalNotification(w)
  PROVE  LET t == job[w].task IN
         /\ job[w] \in Prepared /\ job[w].pc = "send" /\ t \in Task
         /\ sends' = [sends EXCEPT ![t] = @ + 1] /\ consent' = consent \ {w}
         /\ \E n \in Nat, q \in Sent, v \in {"none", "delivered", "failed"} :
              /\ job' = [job EXCEPT ![w] = q] /\ q.task = t /\ q.receipt = n
              /\ accepted' = [accepted EXCEPT ![t] = n] /\ verdict' = [verdict EXCEPT ![t] = v]
              /\ n = accepted[t] \/ (idempotent /\ n = 1) \/ (~idempotent /\ n = accepted[t] + 1)
              /\ q.answer \in {"accepted", "delivered"} =>
                   (idempotent /\ n = 1) \/ (~idempotent /\ n = accepted[t] + 1)
              /\ q.answer = "retry" /\ ~idempotent => n = accepted[t]
              /\ q.answer = "delivered" => v = "delivered"
              /\ q.answer # "delivered" => v = IF n # accepted[t] THEN "none" ELSE verdict[t]
<1> DEFINE t == job[w].task
<1>1. job[w] \in Prepared /\ t \in Task
  BY Stages DEF SendExternalNotification, NType, Prepared
<1>2. PICK taken \in BOOLEAN, answer \in {"accepted", "delivered", "retry", "final"} :
        LET n == IF ~taken THEN accepted[t] ELSE IF idempotent THEN 1 ELSE accepted[t] + 1 IN
        /\ answer \in {"accepted", "delivered"} => taken
        /\ answer \in {"retry", "final"} => \E known, retryable \in BOOLEAN :
             (known => ~taken) /\ (answer = "retry") = Retryable(known, retryable)
        /\ answer = "delivered" => verdict[t] # "failed"
        /\ accepted' = [accepted EXCEPT ![t] = n]
        /\ verdict' = [verdict EXCEPT ![t] = IF answer = "delivered" THEN "delivered"
                                             ELSE IF n # accepted[t] THEN "none" ELSE @]
        /\ job' = [job EXCEPT ![w] = [pc |-> "sent", task |-> t, answer |-> answer, receipt |-> n]]
  BY DEF SendExternalNotification
<1> DEFINE n == IF ~taken THEN accepted[t] ELSE IF idempotent THEN 1 ELSE accepted[t] + 1
           q == [pc |-> "sent", task |-> t, answer |-> answer, receipt |-> n]
           v == IF answer = "delivered" THEN "delivered" ELSE IF n # accepted[t] THEN "none" ELSE verdict[t]
<1>3. accepted[t] \in Nat /\ verdict[t] \in {"none", "delivered", "failed"}
  BY <1>1 DEF NType
<1>4. n \in Nat
  BY <1>3
<1>5. q \in Sent /\ v \in {"none", "delivered", "failed"}
  BY <1>1, <1>3, <1>4 DEF Sent
<1>6. answer = "retry" /\ ~idempotent => ~taken
  BY <1>2 DEF Retryable
<1>7. /\ n = accepted[t] \/ (idempotent /\ n = 1) \/ (~idempotent /\ n = accepted[t] + 1)
      /\ answer \in {"accepted", "delivered"} => (idempotent /\ n = 1) \/ (~idempotent /\ n = accepted[t] + 1)
      /\ answer = "retry" /\ ~idempotent => n = accepted[t]
  BY <1>2, <1>6
<1>8. /\ job' = [job EXCEPT ![w] = q] /\ q.task = t /\ q.receipt = n /\ q.answer = answer
      /\ accepted' = [accepted EXCEPT ![t] = n] /\ verdict' = [verdict EXCEPT ![t] = v]
  BY <1>2
<1>9. answer = "delivered" => v = "delivered"
  OBVIOUS
<1>10. answer # "delivered" => v = IF n # accepted[t] THEN "none" ELSE verdict[t]
  OBVIOUS
<1>11. /\ job[w].pc = "send" /\ sends' = [sends EXCEPT ![t] = @ + 1] /\ consent' = consent \ {w}
  BY DEF SendExternalNotification
<1> HIDE DEF n, q, v
<1> QED BY <1>1, <1>4, <1>5, <1>7, <1>8, <1>9, <1>10, <1>11

(* The completion of a route: the plan becomes the outcomes, the messages  *)
(* and the tasks of an event that was leased, if the lease still stands    *)
(* (CompleteBusinessEventRoute).                                           *)
Marked(w, outcome) == {<<job[w].event, d.user>> : d \in {d \in job[w].plan : d.outcome = outcome}}
Recorded(w) ==
  /\ event[job[w].event].state = "LEASED"
  /\ outcomes' = [outcomes EXCEPT ![job[w].event] = @ \cup job[w].plan]
  /\ inbox' = inbox \cup Marked(w, "IN_APP_CREATED")
  /\ task' = [t \in Task |-> IF t \in Marked(w, "EXTERNAL_TASK") /\ task[t] = NoTask THEN NewTask ELSE task[t]]
  /\ event' = [event EXCEPT ![job[w].event] = [state |-> "ROUTED", owner |-> "none", left |-> 0]]

(* Time touches nothing but what is left of a lease or a delay (Tick). *)
LEMMA DownRow ==
  ASSUME NEW row \in TaskRow, TaskOK(row)
  PROVE  /\ Down(row) \in TaskRow /\ TaskOK(Down(row)) /\ Down(row).state = row.state
         /\ Down(row).attempts = row.attempts /\ Down(row).receipt = row.receipt
         /\ row = NoTask <=> Down(row) = NoTask
<1>1. CASE row.left > 0
  <2>1. /\ Down(row) = [row EXCEPT !.left = row.left - 1] /\ row.left - 1 \in Nat
        /\ row.state \in {"LEASED", "RETRY_WAIT"}
    BY <1>1 DEF Down, TaskRow, TaskOK
  <2>2. Down(row) \in TaskRow
    BY <2>1 DEF TaskRow
  <2>3. /\ Down(row).state = row.state /\ Down(row).owner = row.owner
        /\ Down(row).attempts = row.attempts /\ Down(row).receipt = row.receipt
    BY <2>1 DEF TaskRow
  <2>4. NoTask.state = "none"
    BY DEF NoTask
  <2> QED BY <2>1, <2>2, <2>3, <2>4 DEF TaskOK
<1>2. CASE ~(row.left > 0)
  BY <1>2 DEF Down
<1> QED BY <1>1, <1>2

(* The same of an event. *)
LEMMA DownEvent ==
  ASSUME NEW row \in EventRow, EventOK(row)
  PROVE  /\ Down(row) \in EventRow /\ EventOK(Down(row)) /\ Down(row).state = row.state
<1>1. CASE row.left > 0
  <2>1. Down(row) = [row EXCEPT !.left = row.left - 1] /\ row.left - 1 \in Nat
    BY <1>1 DEF Down, EventRow
  <2> QED BY <2>1 DEF EventRow, EventOK
<1>2. CASE ~(row.left > 0)
  BY <1>2 DEF Down
<1> QED BY <1>1, <1>2

(* It records its plan, or nothing. *)
LEMMA CompleteMoves ==
  ASSUME NType, NEW w \in Worker, CompleteBusinessEventRoute(w)
  PROVE  /\ job[w] \in Completing /\ job[w].event \in Event /\ job[w].plan \subseteq DecisionRow
         /\ Marked(w, "IN_APP_CREATED") \subseteq Task /\ Done(w)
         /\ Recorded(w) \/ UNCHANGED <<outcomes, inbox, task, event>>
<1>1. job[w] \in Completing
  BY Stages DEF CompleteBusinessEventRoute, NType
<1>2. job[w].event \in Event /\ job[w].plan \subseteq DecisionRow
  BY <1>1 DEF Completing
<1>3. Marked(w, "IN_APP_CREATED") \subseteq Task
  <2>1. \A d \in DecisionRow : d.outcome = "IN_APP_CREATED" => d.user \in User
    BY DEF DecisionRow
  <2> QED BY <1>2, <2>1 DEF Marked, Task
<1>4. CASE CurrentRoute(w)
  <2>1. [NoEvent EXCEPT !.state = "ROUTED"] = [state |-> "ROUTED", owner |-> "none", left |-> 0]
    BY DEF NoEvent
  <2> QED BY <1>1, <1>2, <1>3, <1>4, <2>1 DEF CompleteBusinessEventRoute, Recorded, Marked, CurrentRoute
<1>5. CASE ~CurrentRoute(w)
  BY <1>1, <1>2, <1>3, <1>5 DEF CompleteBusinessEventRoute
<1> QED BY <1>4, <1>5

-----------------------------------------------------------------------------
(* Types are kept *)
(* A step of one worker, with the rows as they were. *)
LEMMA JobType ==
  ASSUME NType, NEW w \in Worker, NEW q \in {Idle} \cup Carrying \cup Router,
         job' = [job EXCEPT ![w] = q], consent' \subseteq consent \cup {w}
  PROVE  job' \in [Worker -> {Idle} \cup Carrying \cup Router] /\ consent' \subseteq Worker
BY DEF NType

(* A worker ends. *)
LEMMA DoneType ==
  ASSUME NType, NEW w \in Worker, Done(w)
  PROVE  job' \in [Worker -> {Idle} \cup Carrying \cup Router] /\ consent' \subseteq Worker
BY JobType DEF Done

(* A delivery keeps the types. *)
LEMMA DeliverType ==
  ASSUME NType, NEW w \in Worker, Deliver(w)
  PROVE  NType'
<1>0. UNCHANGED <<tenantActive, standing, idempotent, config, event, outcomes, inbox>>
  BY DEF Deliver, directoryVars, routingVars
<1>1. CASE \E t \in Task : ClaimNextExternalTask(w, t) /\ UNCHANGED providerVars
  <2>1. PICK t \in Task : ClaimNextExternalTask(w, t) /\ UNCHANGED <<sends, accepted, verdict>>
    BY <1>1 DEF providerVars
  <2>2. \E row \in TaskRow : Row(t, row) /\ TaskOK(row)
    BY <2>1, ClaimMoves, ClosedRow DEF NType, Terminal
  <2>3. \A r \in BOOLEAN : [pc |-> "claimed", task |-> t, recovered |-> r] \in Claimed
    BY DEF Claimed
  <2>4. job' \in [Worker -> {Idle} \cup Carrying \cup Router] /\ consent' \subseteq Worker
    BY <2>1, <2>3, ClaimMoves, JobType DEF NType, Carrying
  <2> QED BY <1>0, <2>1, <2>2, <2>4, RowMoves DEF NType
<1>2. CASE Prepare(w) /\ UNCHANGED <<task, providerVars, consent>>
  <2>1. job' \in [Worker -> {Idle} \cup Carrying \cup Router] /\ consent' \subseteq Worker
    BY <1>2, PrepareMoves, JobType DEF Carrying
  <2> QED BY <1>0, <1>2, <2>1 DEF NType, providerVars
<1>3. CASE TerminalExternalTask(w) /\ UNCHANGED providerVars
  <2>1. task' \in [Task -> TaskRow] /\ \A x \in Task : TaskOK(task'[x])
    BY <1>3, RefusalMoves, ClosedRow, RowMoves DEF NType, Prepared, Terminal
  <2> QED BY <1>0, <1>3, <2>1, RefusalMoves, DoneType DEF NType, providerVars
<1>4. CASE CompleteExternalTask(w) /\ UNCHANGED providerVars
  <2>1. task' \in [Task -> TaskRow] /\ \A x \in Task : TaskOK(task'[x])
    BY <1>4, ResultMoves, RowMoves DEF NType, Sent
  <2> QED BY <1>0, <1>4, <2>1, ResultMoves, DoneType DEF NType, providerVars
<1>5. CASE FailExternalTask(w) /\ UNCHANGED providerVars
  <2>1. task' \in [Task -> TaskRow] /\ \A x \in Task : TaskOK(task'[x])
    BY <1>5, FailMoves, ClosedRow, RowMoves DEF NType, Sent, Terminal
  <2> QED BY <1>0, <1>5, <2>1, FailMoves, DoneType DEF NType, providerVars
<1>6. CASE SendExternalNotification(w) /\ UNCHANGED task
  <2>1. job' \in [Worker -> {Idle} \cup Carrying \cup Router] /\ consent' \subseteq Worker
    BY <1>6, SendMoves, JobType DEF Carrying
  <2>2. /\ sends' \in [Task -> Nat] /\ accepted' \in [Task -> Nat]
        /\ verdict' \in [Task -> {"none", "delivered", "failed"}]
    BY <1>6, SendMoves DEF NType
  <2> QED BY <1>0, <1>6, <2>1, <2>2 DEF NType
<1> QED BY <1>1, <1>2, <1>3, <1>4, <1>5, <1>6 DEF Deliver, DeliveryStep

(* What a configuration says changes; the routers remember it. *)
LEMMA ConfigType ==
  ASSUME NType, ConfigurationMoves
  PROVE  /\ config' \in [id : Nat, says : Says] /\ job' \in [Worker -> {Idle} \cup Carrying \cup Router]
         /\ \A w \in Worker : ~Routing(w) => job'[w] = job[w]
         /\ \A w \in Worker : Routing(w) => /\ job[w] \in Router /\ job'[w] \in Router
                                            /\ job'[w] = [job[w] EXCEPT !.seen = job[w].seen \cup {config'.says}]
<1>1. config' \in [id : Nat, says : Says]
  <2>1. config.id \in Nat
    BY DEF NType
  <2>2. config'.id \in Nat /\ config'.says \in Says
    BY <2>1 DEF ConfigurationMoves, NoConfig, Says
  <2> QED BY <2>1, <2>2 DEF ConfigurationMoves, NoConfig, Says
<1>2. config'.says \in Says
  BY <1>1
<1>3. ASSUME NEW w \in Worker, Routing(w)
      PROVE  job[w] \in Router /\ [job[w] EXCEPT !.seen = job[w].seen \cup {config'.says}] \in Router
  <2>1. job[w] \in Router
    BY <1>3, Stages DEF NType, Routing, Router
  <2>2. ASSUME NEW q \in Finding
        PROVE  [q EXCEPT !.seen = q.seen \cup {config'.says}] \in Finding
    BY <1>2 DEF Finding
  <2>3. ASSUME NEW q \in Choosing
        PROVE  [q EXCEPT !.seen = q.seen \cup {config'.says}] \in Choosing
    BY <1>2 DEF Choosing
  <2>4. ASSUME NEW q \in Adding
        PROVE  [q EXCEPT !.seen = q.seen \cup {config'.says}] \in Adding
    BY <1>2 DEF Adding
  <2>5. ASSUME NEW q \in Resolving
        PROVE  [q EXCEPT !.seen = q.seen \cup {config'.says}] \in Resolving
    BY <1>2 DEF Resolving
  <2>6. ASSUME NEW q \in Preferring
        PROVE  [q EXCEPT !.seen = q.seen \cup {config'.says}] \in Preferring
    BY <1>2 DEF Preferring
  <2>7. ASSUME NEW q \in Completing
        PROVE  [q EXCEPT !.seen = q.seen \cup {config'.says}] \in Completing
    BY <1>2 DEF Completing
  <2> QED BY <2>1, <2>2, <2>3, <2>4, <2>5, <2>6, <2>7 DEF Router
<1>4. job' = [w \in Worker |-> IF Routing(w) THEN [job[w] EXCEPT !.seen = job[w].seen \cup {config'.says}]
                                              ELSE job[w]]
  BY DEF ConfigurationMoves
<1>5. job' \in [Worker -> {Idle} \cup Carrying \cup Router]
  BY <1>3, <1>4 DEF NType
<1> QED BY <1>1, <1>3, <1>4, <1>5

(* One event changes and the events keep their types. *)
LEMMA EventType ==
  ASSUME NType, NEW e \in Event, NEW row \in EventRow, EventOK(row), event' = [event EXCEPT ![e] = row]
  PROVE  event' \in [Event -> EventRow] /\ \A x \in Event : EventOK(event'[x])
BY DEF NType

(* A claimed event is leased to a router that has seen the configuration   *)
(* as it is (ClaimNextBusinessEvent).                                      *)
LEMMA ClaimEventMoves ==
  ASSUME NType, NEW w \in Worker, ClaimEvent(w)
  PROVE  \E e \in Event :
           /\ job[w] = Idle /\ event[e].state \in {"PENDING", "LEASED"}
           /\ event' = [event EXCEPT ![e] = [state |-> "LEASED", owner |-> w, left |-> RouteLease]]
           /\ [state |-> "LEASED", owner |-> w, left |-> RouteLease] \in EventRow
           /\ EventOK([state |-> "LEASED", owner |-> w, left |-> RouteLease])
           /\ job' = [job EXCEPT ![w] = [pc |-> "find", event |-> e, seen |-> {config.says}]]
           /\ [pc |-> "find", event |-> e, seen |-> {config.says}] \in Finding
<1>1. PICK e \in Event : ClaimNextBusinessEvent(w, e)
  BY DEF ClaimEvent
<1>2. config.says \in Says /\ RouteLease \in Nat /\ w # "none"
  BY RoutingAssumption, WorkersAssumption DEF NType
<1>3. [pc |-> "find", event |-> e, seen |-> {config.says}] \in Finding
  BY <1>2 DEF Finding
<1>4. /\ [state |-> "LEASED", owner |-> w, left |-> RouteLease] \in EventRow
      /\ EventOK([state |-> "LEASED", owner |-> w, left |-> RouteLease])
  BY <1>2 DEF EventRow, EventOK
<1> QED BY <1>1, <1>3, <1>4 DEF ClaimNextBusinessEvent, EventDue

(* Every step keeps the types. *)
LEMMA TypeStep == NType /\ [Next]_vars => NType'
<1> SUFFICES ASSUME NType, [Next]_vars PROVE NType'
  OBVIOUS
<1>1. CASE DirectoryMoves /\ UNCHANGED <<deliveryVars, routingVars>>
  <2>0. standing \in [User -> Standing] /\ tenantActive \in BOOLEAN
    BY DEF NType
  <2>1. tenantActive' \in BOOLEAN /\ standing' \in [User -> Standing]
    <3>1. CASE TenantMoves
      BY <2>0, <3>1 DEF TenantMoves
    <3>2. ASSUME NEW u \in User, ChangeNotificationPreference(u)
          PROVE  tenantActive' \in BOOLEAN /\ standing' \in [User -> Standing]
      BY <2>0, <3>2 DEF ChangeNotificationPreference, Standing
    <3>3. ASSUME NEW u \in User, MembershipMoves(u)
          PROVE  tenantActive' \in BOOLEAN /\ standing' \in [User -> Standing]
      BY <2>0, <3>3 DEF MembershipMoves, Standing
    <3> QED BY <1>1, <3>1, <3>2, <3>3 DEF DirectoryMoves
  <2>2. consent' \subseteq Worker
    BY <1>1 DEF DirectoryMoves, Change, NType
  <2> QED BY <1>1, <2>1, <2>2 DEF DirectoryMoves, NType, deliveryVars, routingVars, providerVars
<1>2. CASE ConfigurationMoves
  BY <1>2, ConfigType DEF ConfigurationMoves, NType, deliveryVars, providerVars
<1>3. CASE \E e \in Event : AppendBusinessEvent(e)
  <2>1. PICK e \in Event : AppendBusinessEvent(e)
    BY <1>3
  <2> DEFINE row == [event[e] EXCEPT !.state = "PENDING"]
  <2>2. event[e] \in EventRow /\ EventOK(event[e]) /\ event[e].state = "none"
    BY <2>1 DEF NType, AppendBusinessEvent
  <2>3. row \in EventRow /\ EventOK(row) /\ event' = [event EXCEPT ![e] = row]
    BY <2>1, <2>2 DEF AppendBusinessEvent, EventRow, EventOK
  <2>4. event' \in [Event -> EventRow] /\ \A x \in Event : EventOK(event'[x])
    BY <2>3, EventType
  <2> QED BY <2>1, <2>4 DEF AppendBusinessEvent, NType, directoryVars, deliveryVars, providerVars
<1>4. ASSUME NEW w \in Worker, ClaimEvent(w)
      PROVE  NType'
  <2>1. event' \in [Event -> EventRow] /\ \A x \in Event : EventOK(event'[x])
    BY <1>4, ClaimEventMoves, EventType
  <2>2. consent' = consent
    BY <1>4 DEF ClaimEvent
  <2>3. job' \in [Worker -> {Idle} \cup Carrying \cup Router] /\ consent' \subseteq Worker
    BY <1>4, <2>2, ClaimEventMoves, JobType DEF Router
  <2> QED BY <1>4, <2>1, <2>3 DEF ClaimEvent, NType, directoryVars, deliveryVars, providerVars
<1>5. ASSUME NEW w \in Worker, Route(w)
      PROVE  NType'
  <2>0. UNCHANGED <<tenantActive, standing, idempotent, sends, accepted, verdict, config>>
    BY <1>5 DEF Route, directoryVars, providerVars
  <2>1. CASE Reads(w) /\ UNCHANGED <<event, outcomes, inbox, task>>
    <3>1. job' \in [Worker -> {Idle} \cup Carrying \cup Router] /\ consent' \subseteq Worker
      BY <2>1, ReadsRoute, JobType
    <3> QED BY <2>0, <2>1, <3>1 DEF NType
  <2>2. CASE CompleteBusinessEventRoute(w)
    <3>1. job' \in [Worker -> {Idle} \cup Carrying \cup Router] /\ consent' \subseteq Worker
      BY <2>2, CompleteMoves, DoneType
    <3>2. CASE Recorded(w)
      <4>1. outcomes' \in [Event -> SUBSET DecisionRow] /\ inbox' \subseteq Task
        BY <2>2, <3>2, CompleteMoves DEF Recorded, NType
      <4>2. task' \in [Task -> TaskRow] /\ \A x \in Task : TaskOK(task'[x])
        BY <3>2, NewRow DEF Recorded, NType
      <4>3. event' \in [Event -> EventRow] /\ \A x \in Event : EventOK(event'[x])
        BY <2>2, <3>2, CompleteMoves, EventType DEF Recorded, EventRow, EventOK
      <4> QED BY <2>0, <3>1, <4>1, <4>2, <4>3 DEF NType
    <3>3. CASE UNCHANGED <<outcomes, inbox, task, event>>
      BY <2>0, <3>1, <3>3 DEF NType
    <3> QED BY <2>2, <3>2, <3>3, CompleteMoves
  <2> QED BY <1>5, <2>1, <2>2 DEF Route, RouteStep, Reads
<1>6. ASSUME NEW w \in Worker, Abandon(w)
      PROVE  NType'
  <2>1. Done(w)
    BY <1>6 DEF Abandon, AbandonRoute, AbandonTask
  <2> QED BY <1>6, <2>1, DoneType DEF Abandon, NType, directoryVars, deliveryVars, routingVars, providerVars
<1>7. ASSUME NEW t \in Task, ApplyExternalProviderCallback(t),
             UNCHANGED <<directoryVars, faults, idempotent, routingVars>>
      PROVE  NType'
  <2>1. task' \in [Task -> TaskRow] /\ \A x \in Task : TaskOK(task'[x])
    <3>1. ASSUME NEW s \in {"DELIVERED", "MANUAL_REVIEW"}, task[t].state = "PROVIDER_ACCEPTED"
          PROVE  [task[t] EXCEPT !.state = s] \in TaskRow /\ TaskOK([task[t] EXCEPT !.state = s])
      <4>1. task[t] \in TaskRow /\ TaskOK(task[t]) /\ s \in TaskState
        BY <3>1 DEF NType, TaskState, Terminal
      <4>2. [task[t] EXCEPT !.state = s] \in TaskRow
        BY <4>1 DEF TaskRow
      <4> QED BY <3>1, <4>1, <4>2 DEF TaskRow, TaskOK
    <3> QED BY <1>7, <3>1, RowMoves DEF ApplyExternalProviderCallback, NType
  <2>2. verdict' \in [Task -> {"none", "delivered", "failed"}]
    BY <1>7 DEF ApplyExternalProviderCallback, NType
  <2> QED BY <1>7, <2>1, <2>2 DEF ApplyExternalProviderCallback, NType, directoryVars, routingVars
<1>8. CASE Tick
  <2>1. task' \in [Task -> TaskRow] /\ \A x \in Task : TaskOK(task'[x])
    BY <1>8, DownRow DEF Tick, NType
  <2>2. event' \in [Event -> EventRow] /\ \A x \in Event : EventOK(event'[x])
    BY <1>8, DownEvent DEF Tick, NType
  <2> QED BY <1>8, <2>1, <2>2 DEF Tick, NType, directoryVars, providerVars
<1>9. CASE UNCHANGED vars
  BY <1>9 DEF vars, NType, directoryVars, deliveryVars, routingVars, providerVars
<1> QED BY <1>1, <1>2, <1>3, <1>4, <1>5, <1>6, <1>7, <1>8, <1>9, DeliverType DEF Next, Work

-----------------------------------------------------------------------------
(* Consent: who is about to be written to could be, at some moment since   *)
(* the claim                                                               *)

(* SentWithConsent follows from this: a worker on its way to the call has  *)
(* found its recipient admissible, and one that has claimed finds an       *)
(* admissible recipient only where the history saw it.                     *)
ConsentInv ==
  \A w \in Worker :
    /\ job[w].pc = "send" => w \in consent
    /\ job[w].pc = "claimed" /\ Admissible(tenantActive, standing[job[w].task[2]]) => w \in consent

(* Steps that start no delivery keep it. *)
LEMMA ConsentKept ==
  ASSUME ConsentInv, UNCHANGED <<tenantActive, standing>>,
         \A w \in Worker : \/ job'[w] = job[w] /\ (w \in consent => w \in consent')
                           \/ job'[w].pc \notin {"claimed", "send"}
  PROVE  ConsentInv'
BY DEF ConsentInv, Admissible

(* A worker that ends keeps it. *)
LEMMA DoneKept ==
  ASSUME NType, ConsentInv, NEW w \in Worker, Done(w), UNCHANGED <<tenantActive, standing>>
  PROVE  ConsentInv'
<1>1. \A x \in Worker : job'[x] = IF x = w THEN Idle ELSE job[x]
  BY DEF Done, NType
<1>2. consent' = consent \ {w} /\ Idle.pc = "idle"
  BY DEF Done, Idle
<1> QED BY <1>1, <1>2, ConsentKept

(* Every step keeps it: a change of the authorities adds to the history    *)
(* whoever it makes admissible (Change, RunOnce).                          *)
LEMMA ConsentStep == NType /\ ConsentInv /\ [Next]_vars => ConsentInv'
<1> SUFFICES ASSUME NType, ConsentInv, [Next]_vars PROVE ConsentInv'
  OBVIOUS
<1>1. CASE DirectoryMoves
  <2>1. /\ job' = job /\ consent \subseteq consent'
        /\ \A w \in Worker :
             job[w].pc \in {"claimed", "send"} /\ Admissible(tenantActive', standing'[job[w].task[2]])
               => w \in consent'
    BY <1>1 DEF DirectoryMoves, Change
  <2> QED BY <2>1 DEF ConsentInv, Admissible
<1>2. CASE ConfigurationMoves
  <2>1. /\ UNCHANGED <<tenantActive, standing, consent>>
        /\ \A w \in Worker : job'[w] = job[w] \/ (Routing(w) /\ job'[w] \in Router)
    BY <1>2, ConfigType DEF ConfigurationMoves
  <2>2. \A q \in Router : q.pc \notin {"claimed", "send"}
    BY DEF Router, Finding, Choosing, Adding, Resolving, Preferring, Completing
  <2> QED BY <2>1, <2>2, ConsentKept
<1>3. CASE \E e \in Event : AppendBusinessEvent(e)
  BY <1>3 DEF AppendBusinessEvent, directoryVars, ConsentInv, Admissible
<1>4. ASSUME NEW w \in Worker, ClaimEvent(w)
      PROVE  ConsentInv'
  <2>0. UNCHANGED <<tenantActive, standing, consent>>
    BY <1>4 DEF ClaimEvent, directoryVars
  <2>1. \A x \in Worker : job'[x] = job[x] \/ job'[x].pc = "find"
    <3>1. PICK e \in Event : job' = [job EXCEPT ![w] = [pc |-> "find", event |-> e, seen |-> {config.says}]]
      BY <1>4, ClaimEventMoves
    <3> QED BY <3>1 DEF NType
  <2> QED BY <2>0, <2>1, ConsentKept
<1>5. ASSUME NEW w \in Worker, Route(w)
      PROVE  ConsentInv'
  <2>0. UNCHANGED <<tenantActive, standing>>
    BY <1>5 DEF Route, directoryVars
  <2>1. CASE Reads(w)
    <3>1. PICK q \in {Idle} \cup Router : job' = [job EXCEPT ![w] = q]
      BY <2>1, ReadsRoute
    <3>2. q.pc \notin {"claimed", "send"}
      BY DEF Idle, Router, Finding, Choosing, Adding, Resolving, Preferring, Completing
    <3>3. \A x \in Worker : \/ job'[x] = job[x] /\ (x \in consent => x \in consent')
                            \/ job'[x].pc \notin {"claimed", "send"}
      BY <2>1, <3>1, <3>2, ReadsRoute DEF NType
    <3> QED BY <2>0, <3>3, ConsentKept
  <2>2. CASE CompleteBusinessEventRoute(w)
    BY <2>0, <2>2, CompleteMoves, DoneKept
  <2> QED BY <1>5, <2>1, <2>2 DEF Route, RouteStep, Reads
<1>6. ASSUME NEW w \in Worker, Deliver(w)
      PROVE  ConsentInv'
  <2>0. UNCHANGED <<tenantActive, standing>>
    BY <1>6 DEF Deliver, directoryVars
  <2>1. ASSUME NEW t \in Task, ClaimNextExternalTask(w, t)
        PROVE  ConsentInv'
    <3>1. CASE UNCHANGED <<job, consent>>
      BY <2>0, <3>1 DEF ConsentInv, Admissible
    <3>2. CASE /\ \E r \in BOOLEAN : job' = [job EXCEPT ![w] = [pc |-> "claimed", task |-> t, recovered |-> r]]
               /\ consent' = IF Admissible(tenantActive, standing[t[2]]) THEN consent \cup {w} ELSE consent \ {w}
      <4>1. job'[w].pc = "claimed" /\ job'[w].task = t /\ \A x \in Worker \ {w} : job'[x] = job[x]
        BY <3>2 DEF NType
      <4> QED BY <2>0, <3>2, <4>1, ZenonT(10) DEF ConsentInv, Admissible
    <3> QED BY <2>1, <3>1, <3>2, ClaimMoves
  <2>2. CASE Prepare(w) /\ UNCHANGED <<task, providerVars, consent>>
    <3>1. PICK q \in Prepared : /\ job' = [job EXCEPT ![w] = q] /\ job[w] \in Claimed
                                /\ q.pc = "send" => Admissible(tenantActive, standing[job[w].task[2]])
      BY <2>2, PrepareMoves
    <3>2. q.pc # "claimed" /\ job[w].pc = "claimed"
      BY <3>1 DEF Prepared, Claimed
    <3>3. job'[w] = q /\ \A x \in Worker \ {w} : job'[x] = job[x]
      BY <3>1 DEF NType
    <3> QED BY <2>0, <2>2, <3>1, <3>2, <3>3 DEF ConsentInv, Admissible
  <2>3. CASE Done(w)
    BY <2>0, <2>3, DoneKept
  <2>4. CASE SendExternalNotification(w)
    <3>1. PICK q \in Sent : job' = [job EXCEPT ![w] = q] /\ consent' = consent \ {w}
      BY <2>4, SendMoves
    <3>2. \A x \in Worker : \/ job'[x] = job[x] /\ (x \in consent => x \in consent')
                            \/ job'[x].pc \notin {"claimed", "send"}
      BY <3>1 DEF NType, Sent
    <3> QED BY <2>0, <3>1, <3>2, ConsentKept
  <2> QED BY <1>6, <2>1, <2>2, <2>3, <2>4, RefusalMoves, ResultMoves, FailMoves DEF Deliver, DeliveryStep
<1>7. ASSUME NEW w \in Worker, Abandon(w)
      PROVE  ConsentInv'
  BY <1>7, DoneKept DEF Abandon, AbandonRoute, AbandonTask, directoryVars
<1>8. ASSUME NEW t \in Task, ApplyExternalProviderCallback(t), UNCHANGED directoryVars
      PROVE  ConsentInv'
  BY <1>8 DEF ApplyExternalProviderCallback, directoryVars, ConsentInv, Admissible
<1>9. CASE Tick \/ UNCHANGED vars
  BY <1>9 DEF Tick, vars, directoryVars, ConsentInv, Admissible
<1> QED BY <1>1, <1>2, <1>3, <1>4, <1>5, <1>6, <1>7, <1>8, <1>9 DEF Next, Work

(* A tenant starts with nothing under way. *)
LEMMA TypeInit == Init => NType
<1> SUFFICES ASSUME Init PROVE NType
  OBVIOUS
<1>1. /\ job \in [Worker -> {Idle} \cup Carrying \cup Router]
      /\ tenantActive \in BOOLEAN /\ standing \in [User -> Standing] /\ consent \subseteq Worker
  BY DEF Init, DirectoryInit, Standing
<1>2. /\ task \in [Task -> TaskRow] /\ \A t \in Task : TaskOK(task[t])
      /\ idempotent \in BOOLEAN
      /\ sends \in [Task -> Nat] /\ accepted \in [Task -> Nat]
      /\ verdict \in [Task -> {"none", "delivered", "failed"}]
  BY NewRow DEF Init, DeliveryInit
<1>3. NoEvent \in EventRow /\ EventOK(NoEvent)
  BY DEF NoEvent, EventRow, EventOK
<1>4. /\ event \in [Event -> EventRow] /\ \A e \in Event : EventOK(event[e])
      /\ outcomes \in [Event -> SUBSET DecisionRow] /\ inbox \subseteq Task
  BY <1>3 DEF Init
<1>5. config \in [id : Nat, says : Says]
  BY DEF Init, Says
<1> QED BY <1>1, <1>2, <1>4, <1>5 DEF NType

(* Nobody is written to against a preference or a suspension in force all  *)
(* through the attempt, in any behaviour (RunOnce,                         *)
(* PrepareOptionalNotificationDelivery).                                   *)
THEOREM ConsentSafe == Spec => SentWithConsent
<1>1. Init => NType /\ ConsentInv
  <2>1. Init => ConsentInv
    <3>1. Init => \A w \in Worker : job[w] = Idle
      BY DEF Init, DirectoryInit
    <3> QED BY <3>1 DEF ConsentInv, Idle
  <2> QED BY <2>1, TypeInit
<1>2. NType /\ ConsentInv /\ [Next]_vars => (NType /\ ConsentInv)'
  BY TypeStep, ConsentStep
<1>3. NType /\ ConsentInv /\ [Next]_vars =>
        [\A w \in Worker : job[w].pc = "send" /\ job'[w].pc = "sent" => w \in consent]_<<job, consent>>
  BY DEF ConsentInv
<1> QED BY <1>1, <1>2, <1>3, PTL DEF Spec, SentWithConsent

-----------------------------------------------------------------------------
(* Routing by what was in force since the claim *)

Named(u, seen) == \E c \in seen \ {Nothing} : u \in c.extra \cup {c.primary}
Offered(ch, seen) == \E c \in seen \ {Nothing} : ch \in c.channels
Supported(d, seen) ==
  IF d.user = "nobody" THEN d.outcome = "NO_CONFIGURATION" => Nothing \in seen
                       ELSE Named(d.user, seen) /\ Offered(d.channel, seen)

(* Everything a router has read so far was said by some configuration it   *)
(* has seen in force, though not all of it by the same one.                *)
FreshJob(q) ==
  /\ q.pc \in {"channels", "extra"} => Named(q.primary, q.seen)
  /\ q.pc \in {"extra", "resolve"} => \A ch \in q.channels : Offered(ch, q.seen)
  /\ q.pc = "resolve" => \A u \in q.users : Named(u, q.seen)
  /\ q.pc = "preferences" => \A u \in q.ask : Named(u, q.seen) /\ Offered("sms", q.seen)
  /\ q.pc \in {"preferences", "complete"} => \A d \in q.plan : Supported(d, q.seen)
FreshInv == \A w \in Worker : job[w] \in Router => config.says \in job[w].seen /\ FreshJob(job[w])

(* What was said stays said. *)
LEMMA MoreSeen ==
  ASSUME NEW q \in Router, FreshJob(q), NEW c, NEW r, r = [q EXCEPT !.seen = q.seen \cup {c}]
  PROVE  FreshJob(r) /\ c \in r.seen
<1>0. /\ \A u : Named(u, q.seen) => Named(u, q.seen \cup {c})
      /\ \A ch : Offered(ch, q.seen) => Offered(ch, q.seen \cup {c})
      /\ \A d : Supported(d, q.seen) => Supported(d, q.seen \cup {c})
  BY DEF Named, Offered, Supported
<1>1. CASE q \in Finding
  BY <1>1 DEF Finding, FreshJob
<1>2. CASE q \in Choosing
  <2>1. r.pc = "channels" /\ r.seen = q.seen \cup {c} /\ r.primary = q.primary /\ q.pc = "channels"
    BY <1>2 DEF Choosing
  <2> QED BY <1>0, <2>1 DEF FreshJob
<1>3. CASE q \in Adding
  <2>1. /\ r.pc = "extra" /\ r.seen = q.seen \cup {c} /\ r.primary = q.primary /\ q.pc = "extra"
        /\ r.channels = q.channels
    BY <1>3 DEF Adding
  <2> QED BY <1>0, <2>1 DEF FreshJob
<1>4. CASE q \in Resolving
  <2>1. /\ r.pc = "resolve" /\ r.seen = q.seen \cup {c} /\ r.users = q.users /\ q.pc = "resolve"
        /\ r.channels = q.channels
    BY <1>4 DEF Resolving
  <2> QED BY <1>0, <2>1 DEF FreshJob
<1>5. CASE q \in Preferring
  <2>1. /\ r.pc = "preferences" /\ r.seen = q.seen \cup {c} /\ r.plan = q.plan /\ q.pc = "preferences"
        /\ r.ask = q.ask
    BY <1>5 DEF Preferring
  <2> QED BY <1>0, <2>1 DEF FreshJob
<1>6. CASE q \in Completing
  <2>1. r.pc = "complete" /\ r.seen = q.seen \cup {c} /\ r.plan = q.plan /\ q.pc = "complete"
    BY <1>6 DEF Completing
  <2> QED BY <1>0, <2>1 DEF FreshJob
<1> QED BY <1>1, <1>2, <1>3, <1>4, <1>5, <1>6 DEF Router

(* Each read of a router adds what the configuration says now              *)
(* (FindRoutingConfiguration, RouteOnce).                                  *)
LEMMA ReadsFresh ==
  ASSUME NType, FreshInv, NEW w \in Worker, Reads(w)
  PROVE  job'[w] \in Router => config.says \in job'[w].seen /\ FreshJob(job'[w])
<1>0. /\ job[w] \in Router /\ config.says \in job[w].seen /\ FreshJob(job[w])
      /\ \A q : job' = [job EXCEPT ![w] = q] => job'[w] = q
  BY ReadsRoute DEF FreshInv, NType
<1>1. Idle \notin Router
  BY DEF Idle, Router, Finding, Choosing, Adding, Resolving, Preferring, Completing
<1>2. /\ config.says # Nothing => Named(config.says.primary, job[w].seen)
      /\ \A ch \in Relation(w, "channels") : Offered(ch, job[w].seen)
      /\ \A u \in Relation(w, "extra") : Named(u, job[w].seen)
  <2>1. /\ config.says = Nothing => Relation(w, "channels") = {} /\ Relation(w, "extra") = {}
        /\ Relation(w, "channels") \subseteq config.says.channels
        /\ Relation(w, "extra") \subseteq config.says.extra
    BY DEF Relation, Nothing
  <2> QED BY <1>0, <2>1 DEF Named, Offered
<1>3. CASE FindConfiguration(w)
  <2>1. CASE \E o \in {"UNAVAILABLE", "NO_CONFIGURATION"} :
               job'[w] = Planned(w, ToNobody(o)) /\ (o = "NO_CONFIGURATION" => config.says = Nothing)
    BY <1>0, <2>1 DEF Planned, ToNobody, Decision, FreshJob, Supported
  <2>2. CASE /\ config.says # Nothing
             /\ job'[w] = [pc |-> "channels", event |-> job[w].event, seen |-> job[w].seen,
                           id |-> config.id, primary |-> config.says.primary]
    BY <1>0, <1>2, <2>2 DEF FreshJob
  <2> QED BY <1>0, <1>3, <2>1, <2>2 DEF FindConfiguration, Knows
<1>4. CASE FindChannels(w)
  <2>1. job'[w] = Chosen(w, Relation(w, "channels")) /\ job[w].pc = "channels"
    BY <1>0, <1>4 DEF FindChannels, Knows
  <2> QED BY <1>0, <1>2, <2>1 DEF Chosen, FreshJob
<1>5. CASE FindRecipients(w)
  <2>1. /\ job[w].pc = "extra"
        /\ \/ job'[w] = Idle
           \/ job'[w] = [pc |-> "resolve", event |-> job[w].event, seen |-> job[w].seen,
                         users |-> Relation(w, "extra") \cup {job[w].primary}, channels |-> job[w].channels]
    BY <1>0, <1>5 DEF FindRecipients, Knows, Done
  <2> QED BY <1>0, <1>1, <1>2, <2>1 DEF FreshJob
<1>6. CASE ResolveRecipients(w)
  <2> DEFINE active == {u \in job[w].users : standing[u] # "inactive"}
             channels == job[w].channels
  <2>0. PICK off \in SUBSET {"sms"} :
          \/ Done(w)
          \/ Knows(w, Asking(w, Sorted(w, active, off), IF "sms" \in channels \ off THEN active ELSE {}))
    BY <1>6 DEF ResolveRecipients
  <2> DEFINE plan == Sorted(w, active, off)
             ask == IF "sms" \in channels \ off THEN active ELSE {}
  <2>1. job[w].pc = "resolve" /\ (job'[w] = Idle \/ job'[w] = Asking(w, plan, ask))
    BY <1>0, <1>6, <2>0 DEF ResolveRecipients, Knows, Done
  <2>2. (\A u \in job[w].users : Named(u, job[w].seen)) /\ \A ch \in channels : Offered(ch, job[w].seen)
    BY <1>0, <2>1 DEF FreshJob
  <2>3. \A d \in plan : Supported(d, job[w].seen)
    BY <2>2 DEF Sorted, Decision, Supported
  <2>4. \A u \in ask : Named(u, job[w].seen) /\ Offered("sms", job[w].seen)
    BY <2>2
  <2> HIDE DEF plan, ask
  <2> QED BY <1>0, <1>1, <2>1, <2>3, <2>4 DEF Asking, FreshJob
<1>7. CASE ReadPreference(w)
  <2>1. /\ \A u \in job[w].ask : Named(u, job[w].seen) /\ Offered("sms", job[w].seen)
        /\ \A d \in job[w].plan : Supported(d, job[w].seen)
    BY <1>0, <1>7 DEF ReadPreference, FreshJob
  <2>2. CASE job'[w] = Planned(w, job[w].plan)
    BY <1>0, <2>1, <2>2 DEF Planned, FreshJob
  <2>3. ASSUME NEW u \in job[w].ask, NEW o \in {"PREFERENCE_DENIED", "EXTERNAL_TASK"},
               job'[w] = Asking(w, job[w].plan \cup {Decision(u, "sms", o)}, job[w].ask \ {u})
        PROVE  config.says \in job'[w].seen /\ FreshJob(job'[w])
    <3>1. Supported(Decision(u, "sms", o), job[w].seen)
      BY <2>1, <2>3 DEF Decision, Supported
    <3> QED BY <1>0, <2>1, <2>3, <3>1 DEF Asking, FreshJob
  <2> QED BY <1>0, <1>1, <1>7, <2>2, <2>3 DEF ReadPreference, Knows, Done
<1> QED BY <1>3, <1>4, <1>5, <1>6, <1>7 DEF Reads

(* Steps that read nothing keep what the routers know. *)
LEMMA FreshKept ==
  ASSUME FreshInv, config' = config, \A w \in Worker : job'[w] = job[w] \/ job'[w] \notin Router
  PROVE  FreshInv'
BY DEF FreshInv

(* What is not a router's record. *)
LEMMA NotRouting ==
  ASSUME NEW q \in {Idle} \cup Carrying
  PROVE  q \notin Router
BY DEF Idle, Carrying, Claimed, Prepared, Sent, Router, Finding, Choosing, Adding, Resolving, Preferring, Completing

(* Every step keeps what the routers know true of what they have seen. *)
LEMMA FreshStep == NType /\ FreshInv /\ [Next]_vars => FreshInv'
<1> SUFFICES ASSUME NType, FreshInv, [Next]_vars PROVE FreshInv'
  OBVIOUS
<1>0. ASSUME NEW w \in Worker, NEW q \in {Idle} \cup Carrying, job' = [job EXCEPT ![w] = q], config' = config
      PROVE  FreshInv'
  <2>1. \A x \in Worker : job'[x] = job[x] \/ job'[x] \notin Router
    BY <1>0, NotRouting DEF NType
  <2> QED BY <1>0, <2>1, FreshKept
<1>1. CASE DirectoryMoves /\ UNCHANGED <<deliveryVars, routingVars>>
  BY <1>1, FreshKept DEF DirectoryMoves, routingVars
<1>2. CASE ConfigurationMoves
  <2>1. ASSUME NEW w \in Worker, job'[w] \in Router
        PROVE  config'.says \in job'[w].seen /\ FreshJob(job'[w])
    <3>1. CASE Routing(w)
      BY <1>2, <3>1, ConfigType, MoreSeen DEF FreshInv
    <3>2. CASE ~Routing(w)
      <4>1. job'[w] = job[w]
        BY <1>2, <3>2, ConfigType
      <4>2. \A q \in Router : q.pc \in {"find", "channels", "extra", "resolve", "preferences", "complete"}
        BY DEF Router, Finding, Choosing, Adding, Resolving, Preferring, Completing
      <4> QED BY <2>1, <3>2, <4>1, <4>2 DEF Routing
    <3> QED BY <3>1, <3>2
  <2> QED BY <2>1 DEF FreshInv
<1>3. CASE \E e \in Event : AppendBusinessEvent(e)
  BY <1>3, FreshKept DEF AppendBusinessEvent
<1>4. ASSUME NEW w \in Worker, ClaimEvent(w)
      PROVE  FreshInv'
  <2>1. PICK e \in Event : job' = [job EXCEPT ![w] = [pc |-> "find", event |-> e, seen |-> {config.says}]]
    BY <1>4, ClaimEventMoves
  <2>2. config' = config
    BY <1>4 DEF ClaimEvent
  <2>3. \A x \in Worker : job'[x] = IF x = w THEN [pc |-> "find", event |-> e, seen |-> {config.says}] ELSE job[x]
    BY <2>1 DEF NType
  <2> QED BY <2>2, <2>3 DEF FreshInv, FreshJob
<1>5. ASSUME NEW w \in Worker, Route(w)
      PROVE  FreshInv'
  <2>0. config' = config
    BY <1>5 DEF Route
  <2>1. CASE Reads(w)
    <3>1. \A x \in Worker : x # w => job'[x] = job[x]
      BY <2>1, ReadsRoute, ZenonT(10) DEF NType
    <3> QED BY <2>0, <2>1, <3>1, ReadsFresh DEF FreshInv
  <2>2. CASE CompleteBusinessEventRoute(w)
    BY <1>0, <2>0, <2>2, CompleteMoves DEF Done
  <2> QED BY <1>5, <2>1, <2>2 DEF Route, RouteStep, Reads
<1>6. ASSUME NEW w \in Worker, Deliver(w)
      PROVE  FreshInv'
  <2>0. config' = config
    BY <1>6 DEF Deliver, routingVars
  <2>1. ASSUME NEW t \in Task, ClaimNextExternalTask(w, t)
        PROVE  FreshInv'
    <3>1. \A r \in BOOLEAN : [pc |-> "claimed", task |-> t, recovered |-> r] \in Carrying
      BY DEF Carrying, Claimed
    <3> QED BY <1>0, <2>0, <2>1, <3>1, ClaimMoves, FreshKept
  <2>2. CASE Prepare(w)
    BY <1>0, <2>0, <2>2, PrepareMoves DEF Carrying
  <2>3. CASE Done(w)
    BY <1>0, <2>0, <2>3 DEF Done
  <2>4. CASE SendExternalNotification(w)
    BY <1>0, <2>0, <2>4, SendMoves DEF Carrying
  <2> QED BY <1>6, <2>1, <2>2, <2>3, <2>4, RefusalMoves, ResultMoves, FailMoves DEF Deliver, DeliveryStep
<1>7. ASSUME NEW w \in Worker, Abandon(w)
      PROVE  FreshInv'
  BY <1>0, <1>7 DEF Abandon, AbandonRoute, AbandonTask, routingVars, Done
<1>8. ASSUME NEW t \in Task, ApplyExternalProviderCallback(t), UNCHANGED routingVars
      PROVE  FreshInv'
  BY <1>8, FreshKept DEF ApplyExternalProviderCallback, routingVars
<1>9. CASE Tick \/ UNCHANGED vars
  BY <1>9, FreshKept DEF Tick, vars, routingVars
<1> QED BY <1>1, <1>2, <1>3, <1>4, <1>5, <1>6, <1>7, <1>8, <1>9 DEF Next, Work

(* Only a completed route writes outcomes, and it writes its plan. *)
LEMMA OutcomesMove ==
  ASSUME NType, [Next]_vars, outcomes' # outcomes
  PROVE  \E w \in Worker : /\ job[w] \in Completing /\ job' = [job EXCEPT ![w] = Idle]
                           /\ outcomes' = [outcomes EXCEPT ![job[w].event] = @ \cup job[w].plan]
<1>1. PICK w \in Worker : CompleteBusinessEventRoute(w)
  BY DEF Next, DirectoryMoves, ConfigurationMoves, AppendBusinessEvent, Work, ClaimEvent, Route, RouteStep, Deliver,
         Abandon, Tick, vars, routingVars
<1> QED BY <1>1, CompleteMoves DEF Recorded, Done

(* RoutedFresh: what an event is routed by was in force while the router   *)
(* was at it, in any behaviour (RouteOnce, FindRoutingConfiguration).      *)
THEOREM FreshSafe == Spec => RoutedFresh
<1>1. Init => NType /\ FreshInv
  <2>1. Init => \A w \in Worker : job[w] = Idle
    BY DEF Init, DirectoryInit
  <2> QED BY <2>1, TypeInit, NotRouting DEF FreshInv
<1>2. NType /\ FreshInv /\ [Next]_vars => (NType /\ FreshInv)'
  BY TypeStep, FreshStep
<1>3. NType /\ FreshInv /\ [Next]_vars =>
        [\A w \in Worker : job[w].pc = "complete" /\ outcomes' # outcomes /\ job'[w] = Idle =>
           \A d \in outcomes'[job[w].event] \ outcomes[job[w].event] :
             LET said == job[w].seen \ {Nothing} IN
             IF d.user = "nobody" THEN d.outcome = "NO_CONFIGURATION" => Nothing \in job[w].seen ELSE
             /\ \E c \in said : d.user \in c.extra \cup {c.primary}
             /\ \E c \in said : d.channel \in c.channels]_vars
  <2> SUFFICES ASSUME NType, FreshInv, [Next]_vars, NEW w \in Worker,
                      job[w].pc = "complete", outcomes' # outcomes, job'[w] = Idle,
                      NEW d \in outcomes'[job[w].event] \ outcomes[job[w].event]
               PROVE  Supported(d, job[w].seen)
    BY DEF Supported, Named, Offered
  <2>1. PICK x \in Worker : /\ job[x] \in Completing /\ job' = [job EXCEPT ![x] = Idle]
                            /\ outcomes' = [outcomes EXCEPT ![job[x].event] = @ \cup job[x].plan]
    BY OutcomesMove
  <2>2. w = x
    <3>1. w # x => job'[w] = job[w]
      BY <2>1 DEF NType
    <3> QED BY <3>1 DEF Idle
  <2>3. job[w].event \in Event /\ job[w] \in Router
    BY <2>1, <2>2 DEF Completing, Router
  <2>4. d \in job[w].plan
    BY <2>1, <2>2, <2>3 DEF NType
  <2> QED BY <2>3, <2>4 DEF FreshInv, FreshJob
<1> QED BY <1>1, <1>2, <1>3, PTL DEF Spec, RoutedFresh

-----------------------------------------------------------------------------
(* An event is routed once *)

(* A plan decides once for a recipient and channel, and its outcomes are   *)
(* of their channels.                                                      *)
Settled(plan) ==
  /\ \A d1, d2 \in plan : d1.user = d2.user /\ d1.channel = d2.channel => d1 = d2
  /\ \A d \in plan : /\ d.outcome = "IN_APP_CREATED" => d.channel = "in_app"
                     /\ d.outcome = "EXTERNAL_TASK" => d.channel = "sms"
PlanOK(q) ==
  /\ q.pc \in {"preferences", "complete"} => Settled(q.plan)
  /\ q.pc = "preferences" => \A u \in q.ask, d \in q.plan : ~(d.user = u /\ d.channel = "sms")

(* An event that is not routed has left nothing behind. *)
Unrouted(e) == outcomes[e] = {} /\ \A u \in User : <<e, u>> \notin inbox /\ task[<<e, u>>].state = "none"
OnceAt(e) ==
  /\ Settled(outcomes[e])
  /\ \A u \in User :
       /\ <<e, u>> \in inbox <=> Decision(u, "in_app", "IN_APP_CREATED") \in outcomes[e]
       /\ task[<<e, u>>].state # "none" <=> Decision(u, "sms", "EXTERNAL_TASK") \in outcomes[e]
PlansOK == \A w \in Worker : PlanOK(job[w])
EventsOK == \A e \in Event : OnceAt(e) /\ (event[e].state # "ROUTED" => Unrouted(e))

(* Only the rows named "none" are no tasks. *)
LEMMA NoneIsNoTask ==
  ASSUME NType, NEW t \in Task
  PROVE  task[t] = NoTask <=> task[t].state = "none"
BY DEF NType, TaskOK, NoTask

(* NInv follows from the types and from what is made of each event. *)
LEMMA NInvFollows == NType /\ EventsOK => NInv
<1> SUFFICES ASSUME NType, EventsOK PROVE NInv
  OBVIOUS
<1>1. ASSUME NEW t \in Task
      PROVE  /\ task[t].state \in TaskState /\ task[t].attempts \in 0 .. MaxAttempts
             /\ task[t].owner # "none" <=> task[t].state = "LEASED"
             /\ task[t].left > 0 => task[t].state \in {"LEASED", "RETRY_WAIT"}
  BY DEF NType, TaskRow, TaskOK
<1>2. ASSUME NEW e \in Event
      PROVE  /\ event[e].state \in {"none", "PENDING", "LEASED", "ROUTED"}
             /\ event[e].owner # "none" <=> event[e].state = "LEASED"
  BY DEF NType, EventRow, EventOK
<1>3. inbox \subseteq Task
  BY DEF NType
<1>4. RoutedOnce
  <2> SUFFICES ASSUME NEW e \in Event
               PROVE  /\ \A d1, d2 \in outcomes[e] : d1.user = d2.user /\ d1.channel = d2.channel => d1 = d2
                      /\ \A u \in User :
                           /\ <<e, u>> \in inbox <=> Decision(u, "in_app", "IN_APP_CREATED") \in outcomes[e]
                           /\ task[<<e, u>>] # NoTask <=> Decision(u, "sms", "EXTERNAL_TASK") \in outcomes[e]
    BY DEF RoutedOnce
  <2>1. OnceAt(e)
    BY DEF EventsOK
  <2>2. \A u \in User : task[<<e, u>>] = NoTask <=> task[<<e, u>>].state = "none"
    BY NoneIsNoTask DEF Task
  <2> QED BY <2>1, <2>2 DEF OnceAt, Settled
<1> QED BY <1>1, <1>2, <1>3, <1>4 DEF NInv

(* What a router decides keeps to the rules of a plan. *)
LEMMA ReadsPlan ==
  ASSUME NType, PlansOK, NEW w \in Worker, Reads(w)
  PROVE  PlanOK(job'[w])
<1>0. job[w] \in {Idle} \cup Carrying \cup Router /\ \A q : job' = [job EXCEPT ![w] = q] => job'[w] = q
  BY DEF NType
<1>1. CASE Done(w)
  <2>1. job'[w] = Idle
    BY <1>1 DEF Done, NType
  <2> QED BY <2>1 DEF Idle, PlanOK
<1>2. CASE FindConfiguration(w)
  <2>1. \/ job'[w].pc = "channels"
        \/ \E o \in {"UNAVAILABLE", "NO_CONFIGURATION"} : job'[w] = Planned(w, ToNobody(o))
    BY <1>0, <1>2 DEF FindConfiguration, Knows
  <2>2. ASSUME NEW o \in {"UNAVAILABLE", "NO_CONFIGURATION"}
        PROVE  PlanOK(Planned(w, ToNobody(o)))
    BY DEF Planned, ToNobody, Decision, PlanOK, Settled
  <2> QED BY <2>1, <2>2 DEF PlanOK
<1>3. CASE FindChannels(w)
  BY <1>0, <1>3, ZenonT(10) DEF FindChannels, Knows, Chosen, PlanOK
<1>4. CASE FindRecipients(w)
  BY <1>0, <1>1, <1>4 DEF FindRecipients, Knows, PlanOK
<1>5. CASE ResolveRecipients(w)
  <2> DEFINE active == {u \in job[w].users : standing[u] # "inactive"}
             channels == job[w].channels
  <2>0. PICK off \in SUBSET {"sms"} :
          \/ Done(w)
          \/ Knows(w, Asking(w, Sorted(w, active, off), IF "sms" \in channels \ off THEN active ELSE {}))
    BY <1>5 DEF ResolveRecipients
  <2> DEFINE plan == Sorted(w, active, off)
             ask == IF "sms" \in channels \ off THEN active ELSE {}
  <2>1. Done(w) \/ Knows(w, Asking(w, plan, ask))
    BY <2>0
  <2>2. ASSUME NEW d \in plan
        PROVE  \/ d.outcome = "RECIPIENT_INACTIVE" /\ d.user \notin active
                  /\ d = Decision(d.user, d.channel, "RECIPIENT_INACTIVE")
               \/ d.outcome = "CHANNEL_UNAVAILABLE" /\ d.user \in active /\ d.channel = "sms" /\ ask = {}
                  /\ d = Decision(d.user, d.channel, "CHANNEL_UNAVAILABLE")
               \/ d.outcome = "IN_APP_CREATED" /\ d.user \in active /\ d.channel = "in_app"
                  /\ d = Decision(d.user, d.channel, "IN_APP_CREATED")
    BY <2>2 DEF Sorted, Decision
  <2>3. ask \subseteq active
    OBVIOUS
  <2> HIDE DEF plan, ask, active
  <2>4. Settled(plan) /\ \A u \in ask, d \in plan : ~(d.user = u /\ d.channel = "sms")
    BY <2>2, <2>3 DEF Settled
  <2>5. PlanOK(Asking(w, plan, ask))
    BY <2>4 DEF Asking, PlanOK
  <2> QED BY <1>0, <1>1, <2>1, <2>5 DEF Knows
<1>6. CASE ReadPreference(w)
  <2>1. job[w] \in Preferring /\ PlanOK(job[w])
    BY <1>0, <1>6, Stages DEF ReadPreference, PlansOK
  <2>2. Settled(job[w].plan) /\ \A u \in job[w].ask, d \in job[w].plan : ~(d.user = u /\ d.channel = "sms")
    BY <2>1 DEF PlanOK, Preferring
  <2>3. PlanOK(Planned(w, job[w].plan))
    BY <2>2 DEF Planned, PlanOK
  <2>4. ASSUME NEW u \in job[w].ask, NEW o \in {"PREFERENCE_DENIED", "EXTERNAL_TASK"}
        PROVE  PlanOK(Asking(w, job[w].plan \cup {Decision(u, "sms", o)}, job[w].ask \ {u}))
    <3> DEFINE new == Decision(u, "sms", o)
    <3>1. new.user = u /\ new.channel = "sms" /\ new.outcome = o
      BY DEF Decision
    <3> HIDE DEF new
    <3>2. Settled(job[w].plan \cup {new})
      BY <2>2, <3>1 DEF Settled
    <3>3. \A v \in job[w].ask \ {u}, d \in job[w].plan \cup {new} : ~(d.user = v /\ d.channel = "sms")
      BY <2>2, <3>1
    <3> QED BY <3>2, <3>3 DEF new, Asking, PlanOK
  <2>5. \/ Done(w) \/ Knows(w, Planned(w, job[w].plan))
        \/ \E u \in job[w].ask, o \in {"PREFERENCE_DENIED", "EXTERNAL_TASK"} :
             Knows(w, Asking(w, job[w].plan \cup {Decision(u, "sms", o)}, job[w].ask \ {u}))
    BY <1>6 DEF ReadPreference
  <2> QED BY <1>0, <1>1, <2>3, <2>4, <2>5 DEF Knows
<1> QED BY <1>2, <1>3, <1>4, <1>5, <1>6 DEF Reads

(* No step but the completion of a route changes a plan that is made. *)
LEMMA PlansStep == NType /\ PlansOK /\ [Next]_vars => PlansOK'
<1> SUFFICES ASSUME NType, PlansOK, [Next]_vars PROVE PlansOK'
  OBVIOUS
<1>0. ASSUME NEW w \in Worker, NEW q, q.pc \notin {"preferences", "complete"}, job' = [job EXCEPT ![w] = q]
      PROVE  PlansOK'
  <2>1. \A x \in Worker : job'[x] = IF x = w THEN q ELSE job[x]
    BY <1>0 DEF NType
  <2> QED BY <1>0, <2>1 DEF PlansOK, PlanOK
<1>1. ASSUME NEW w \in Worker, Done(w)
      PROVE  PlansOK'
  BY <1>0, <1>1 DEF Done, Idle
<1>2. ASSUME job' = job
      PROVE  PlansOK'
  BY <1>2 DEF PlansOK
<1>3. CASE ConfigurationMoves
  <2>1. ASSUME NEW w \in Worker
        PROVE  PlanOK(job'[w])
    <3>1. CASE Routing(w)
      <4>1. job[w] \in Router /\ job'[w] = [job[w] EXCEPT !.seen = job[w].seen \cup {config'.says}]
        BY <1>3, <3>1, ConfigType
      <4>2. /\ job'[w].pc = job[w].pc
            /\ job[w] \in Preferring => job'[w].plan = job[w].plan /\ job'[w].ask = job[w].ask
            /\ job[w] \in Completing => job'[w].plan = job[w].plan
        BY <4>1 DEF Router, Finding, Choosing, Adding, Resolving, Preferring, Completing
      <4>3. (job[w].pc = "preferences" => job[w] \in Preferring) /\ (job[w].pc = "complete" => job[w] \in Completing)
        BY Stages DEF NType
      <4> QED BY <4>2, <4>3 DEF PlansOK, PlanOK
    <3>2. CASE ~Routing(w)
      BY <1>3, <3>2, ConfigType DEF PlansOK
    <3> QED BY <3>1, <3>2
  <2> QED BY <2>1 DEF PlansOK
<1>4. ASSUME NEW w \in Worker, ClaimEvent(w)
      PROVE  PlansOK'
  BY <1>0, <1>4, ClaimEventMoves
<1>5. ASSUME NEW w \in Worker, Route(w)
      PROVE  PlansOK'
  <2>1. CASE Reads(w)
    <3>1. \A x \in Worker : x # w => job'[x] = job[x]
      BY <2>1, ReadsRoute DEF NType
    <3> QED BY <2>1, <3>1, ReadsPlan DEF PlansOK
  <2>2. CASE CompleteBusinessEventRoute(w)
    BY <1>1, <2>2, CompleteMoves
  <2> QED BY <1>5, <2>1, <2>2 DEF Route, RouteStep, Reads
<1>6. ASSUME NEW w \in Worker, Deliver(w)
      PROVE  PlansOK'
  <2>0. \A q \in Carrying : q.pc \notin {"preferences", "complete"}
    BY DEF Carrying, Claimed, Prepared, Sent
  <2>1. ASSUME NEW t \in Task, ClaimNextExternalTask(w, t)
        PROVE  PlansOK'
    <3>1. \/ job' = job
          \/ \E r \in BOOLEAN : job' = [job EXCEPT ![w] = [pc |-> "claimed", task |-> t, recovered |-> r]]
      BY <2>1, ClaimMoves
    <3> QED BY <1>0, <1>2, <3>1
  <2>2. CASE Prepare(w)
    BY <1>0, <2>0, <2>2, PrepareMoves DEF Carrying
  <2>3. CASE SendExternalNotification(w)
    BY <1>0, <2>0, <2>3, SendMoves DEF Carrying
  <2> QED BY <1>1, <1>6, <2>1, <2>2, <2>3, RefusalMoves, ResultMoves, FailMoves DEF Deliver, DeliveryStep
<1>7. ASSUME NEW w \in Worker, Abandon(w)
      PROVE  PlansOK'
  BY <1>1, <1>7 DEF Abandon, AbandonRoute, AbandonTask
<1>8. CASE (\E t \in Task : ApplyExternalProviderCallback(t)) \/ Tick \/ UNCHANGED vars
           \/ DirectoryMoves \/ \E e \in Event : AppendBusinessEvent(e)
  BY <1>2, <1>8 DEF ApplyExternalProviderCallback, Tick, vars, DirectoryMoves, AppendBusinessEvent
<1> QED BY <1>3, <1>4, <1>5, <1>6, <1>7, <1>8 DEF Next, Work

(* A delivery makes no task and unmakes none. *)
LEMMA DeliverRows ==
  ASSUME NType, NEW w \in Worker, DeliveryStep(w)
  PROVE  \A t \in Task : task'[t].state = "none" <=> task[t].state = "none"
<1>0. ASSUME NEW x \in Task, NEW row, Row(x, row), row.state # "none", task[x].state # "none"
      PROVE  \A t \in Task : task'[t].state = "none" <=> task[t].state = "none"
  <2>1. \A t \in Task : task'[t] = IF t = x THEN row ELSE task[t]
    BY <1>0 DEF Row, NType
  <2> QED BY <1>0, <2>1
<1>1. ASSUME NEW x \in Task, NEW s \in Terminal
      PROVE  Closed(task[x], s).state # "none"
  BY <1>1, ClosedRow DEF NType, Terminal
<1>2. ASSUME NEW t \in Task, ClaimNextExternalTask(w, t)
      PROVE  \A x \in Task : task'[x].state = "none" <=> task[x].state = "none"
  BY <1>0, <1>1, <1>2, ClaimMoves DEF Terminal
<1>3. ASSUME job[w] \in Carrying, Current(w)
      PROVE  job[w].task \in Task /\ task[job[w].task].state # "none"
  BY <1>3 DEF Current, Carrying, Claimed, Prepared, Sent
<1>4. CASE TerminalExternalTask(w)
  <2>1. Current(w) => Row(job[w].task, Closed(task[job[w].task], job[w].pc))
    BY <1>4 DEF TerminalExternalTask
  <2>2. ~Current(w) => task' = task
    BY <1>4 DEF TerminalExternalTask
  <2>3. job[w] \in Carrying /\ job[w].pc \in Terminal
    BY <1>4, RefusalMoves DEF Carrying, Terminal
  <2> QED BY <1>0, <1>1, <1>3, <2>1, <2>2, <2>3
<1>5. CASE CompleteExternalTask(w)
  <2>1. Current(w) => Row(job[w].task, Result(w))
    BY <1>5 DEF CompleteExternalTask, Result
  <2>2. ~Current(w) => task' = task
    BY <1>5 DEF CompleteExternalTask
  <2>3. job[w] \in Carrying /\ Result(w).state # "none"
    BY <1>5, ResultMoves DEF Carrying
  <2> QED BY <1>0, <1>3, <2>1, <2>2, <2>3
<1>6. CASE FailExternalTask(w)
  <2>1. ~Current(w) => task' = task
    BY <1>6 DEF FailExternalTask
  <2>2. job[w] \in Carrying /\ "MANUAL_REVIEW" \in Terminal
    BY <1>6, FailMoves DEF Carrying, Terminal
  <2>3. CASE Current(w)
    BY <1>0, <1>1, <1>3, <1>6, <2>2, <2>3, FailMoves
  <2> QED BY <2>1, <2>3
<1> QED BY <1>2, <1>4, <1>5, <1>6 DEF DeliveryStep

(* Steps that route nothing keep it: tasks are neither made nor unmade. *)
LEMMA EventsKept ==
  ASSUME EventsOK, UNCHANGED <<outcomes, inbox>>,
         \A t \in Task : task'[t].state = "none" <=> task[t].state = "none",
         \A e \in Event : event[e].state = "ROUTED" => event'[e].state = "ROUTED"
  PROVE  EventsOK'
<1>1. ASSUME NEW e \in Event
      PROVE  OnceAt(e)' /\ (event'[e].state # "ROUTED" => Unrouted(e)')
  <2>1. \A u \in User : task'[<<e, u>>].state = "none" <=> task[<<e, u>>].state = "none"
    BY DEF Task
  <2>2. OnceAt(e) /\ (event[e].state # "ROUTED" => Unrouted(e))
    BY DEF EventsOK
  <2> QED BY <2>1, <2>2 DEF OnceAt, Unrouted
<1> QED BY <1>1 DEF EventsOK

(* The completed route makes what its plan says of an event that had none. *)
LEMMA EventsRecorded ==
  ASSUME NType, PlansOK, EventsOK, NEW w \in Worker, job[w] \in Completing, Recorded(w)
  PROVE  EventsOK'
<1> DEFINE e == job[w].event
           plan == job[w].plan
<1>1. e \in Event /\ plan \subseteq DecisionRow /\ Settled(plan)
  BY DEF Completing, PlansOK, PlanOK
<1>2. Unrouted(e)
  BY <1>1 DEF Recorded, EventsOK
<1>3. \A x \in Event : outcomes'[x] = IF x = e THEN plan ELSE outcomes[x]
  BY <1>1, <1>2 DEF Recorded, Unrouted, NType
<1>4. ASSUME NEW x \in Event, NEW u \in User
      PROVE  /\ <<x, u>> \in inbox' <=> <<x, u>> \in inbox \/ <<x, u>> \in Marked(w, "IN_APP_CREATED")
             /\ task'[<<x, u>>].state # "none" <=>
                  task[<<x, u>>].state # "none" \/ <<x, u>> \in Marked(w, "EXTERNAL_TASK")
  <2>1. <<x, u>> \in Task
    BY <1>4 DEF Task
  <2>2. task'[<<x, u>>] = IF <<x, u>> \in Marked(w, "EXTERNAL_TASK") /\ task[<<x, u>>] = NoTask THEN NewTask
                          ELSE task[<<x, u>>]
    BY <2>1 DEF Recorded
  <2>3. task[<<x, u>>] = NoTask <=> task[<<x, u>>].state = "none"
    BY <2>1, NoneIsNoTask
  <2> QED BY <2>2, <2>3, NewRow DEF Recorded
<1>5. ASSUME NEW x \in Event, NEW u \in User, NEW o \in {"IN_APP_CREATED", "EXTERNAL_TASK"}, NEW c,
             c = IF o = "IN_APP_CREATED" THEN "in_app" ELSE "sms"
      PROVE  <<x, u>> \in Marked(w, o) <=> x = e /\ Decision(u, c, o) \in plan
  <2>1. ASSUME <<x, u>> \in Marked(w, o)
        PROVE  x = e /\ Decision(u, c, o) \in plan
    <3>1. PICK d \in plan : d.outcome = o /\ <<x, u>> = <<e, d.user>>
      BY <2>1 DEF Marked
    <3>2. d.channel = c
      BY <1>1, <1>5, <3>1 DEF Settled
    <3>3. d = [user |-> d.user, channel |-> d.channel, outcome |-> d.outcome]
      BY <1>1, <3>1 DEF DecisionRow
    <3> QED BY <3>1, <3>2, <3>3 DEF Decision
  <2>2. ASSUME x = e, Decision(u, c, o) \in plan
        PROVE  <<x, u>> \in Marked(w, o)
    BY <2>2 DEF Marked, Decision
  <2> QED BY <2>1, <2>2
<1>6. ASSUME NEW x \in Event
      PROVE  OnceAt(x)' /\ (event'[x].state # "ROUTED" => Unrouted(x)')
  <2>0. OnceAt(x) /\ (event[x].state # "ROUTED" => Unrouted(x))
    BY DEF EventsOK
  <2>1. \A u \in User : /\ <<x, u>> \in Marked(w, "IN_APP_CREATED") <=>
                             x = e /\ Decision(u, "in_app", "IN_APP_CREATED") \in plan
                        /\ <<x, u>> \in Marked(w, "EXTERNAL_TASK") <=>
                             x = e /\ Decision(u, "sms", "EXTERNAL_TASK") \in plan
    BY <1>5
  <2> HIDE DEF e, plan
  <2>2. CASE x = e
    <3>1. event'[x].state = "ROUTED"
      BY <1>1, <2>2 DEF Recorded, NType, e
    <3> QED BY <1>1, <1>2, <1>3, <1>4, <2>1, <2>2, <3>1 DEF OnceAt, Unrouted
  <2>3. CASE x # e
    <3>1. event'[x] = event[x]
      BY <2>3 DEF Recorded, NType, e
    <3> QED BY <1>3, <1>4, <2>0, <2>1, <2>3, <3>1 DEF OnceAt, Unrouted
  <2> QED BY <2>2, <2>3
<1> QED BY <1>6 DEF EventsOK

(* Every step keeps it. *)
LEMMA EventsStep == NType /\ PlansOK /\ EventsOK /\ [Next]_vars => EventsOK'
<1> SUFFICES ASSUME NType, PlansOK, EventsOK, [Next]_vars PROVE EventsOK'
  OBVIOUS
<1>1. CASE DirectoryMoves /\ UNCHANGED <<deliveryVars, routingVars>>
  BY <1>1, EventsKept DEF deliveryVars, routingVars
<1>2. CASE ConfigurationMoves
  BY <1>2, EventsKept DEF ConfigurationMoves, deliveryVars
<1>3. ASSUME NEW e \in Event, AppendBusinessEvent(e)
      PROVE  EventsOK'
  <2>1. \A x \in Event : event'[x] = IF x = e THEN [event[e] EXCEPT !.state = "PENDING"] ELSE event[x]
    BY <1>3 DEF AppendBusinessEvent, NType
  <2>2. event[e].state = "none"
    BY <1>3 DEF AppendBusinessEvent
  <2> QED BY <1>3, <2>1, <2>2, EventsKept DEF AppendBusinessEvent, deliveryVars
<1>4. ASSUME NEW w \in Worker, ClaimEvent(w)
      PROVE  EventsOK'
  <2>1. \A e \in Event : event[e].state = "ROUTED" => event'[e].state = "ROUTED"
    BY <1>4, ClaimEventMoves DEF NType
  <2> QED BY <1>4, <2>1, EventsKept DEF ClaimEvent, deliveryVars
<1>5. ASSUME NEW w \in Worker, Route(w)
      PROVE  EventsOK'
  <2>1. CASE UNCHANGED <<event, outcomes, inbox, task>>
    BY <2>1, EventsKept
  <2>2. CASE CompleteBusinessEventRoute(w)
    BY <2>1, <2>2, CompleteMoves, EventsRecorded
  <2> QED BY <1>5, <2>1, <2>2 DEF Route, RouteStep
<1>6. ASSUME NEW w \in Worker, Deliver(w)
      PROVE  EventsOK'
  BY <1>6, DeliverRows, EventsKept DEF Deliver, routingVars
<1>7. ASSUME NEW w \in Worker, Abandon(w)
      PROVE  EventsOK'
  BY <1>7, EventsKept DEF Abandon, deliveryVars, routingVars
<1>8. ASSUME NEW t \in Task, ApplyExternalProviderCallback(t), UNCHANGED routingVars
      PROVE  EventsOK'
  <2>1. ASSUME NEW x \in Task
        PROVE  task'[x].state = "none" <=> task[x].state = "none"
    <3>1. CASE task' = task
      BY <3>1
    <3>2. CASE task[t].state = "PROVIDER_ACCEPTED" /\ \E s \in {"DELIVERED", "MANUAL_REVIEW"} :
                 task' = [task EXCEPT ![t] = [task[t] EXCEPT !.state = s]]
      BY <3>2 DEF NType, TaskRow
    <3> QED BY <1>8, <3>1, <3>2 DEF ApplyExternalProviderCallback, Row
  <2> QED BY <1>8, <2>1, EventsKept DEF routingVars
<1>9. CASE Tick
  <2>1. \A t \in Task : task'[t].state = task[t].state
    BY <1>9, DownRow DEF Tick, NType
  <2>2. \A e \in Event : event'[e].state = event[e].state
    BY <1>9, DownEvent DEF Tick, NType
  <2> QED BY <1>9, <2>1, <2>2, EventsKept DEF Tick
<1>10. CASE UNCHANGED vars
  BY <1>10, EventsKept DEF vars, deliveryVars, routingVars
<1> QED BY <1>1, <1>2, <1>3, <1>4, <1>5, <1>6, <1>7, <1>8, <1>9, <1>10 DEF Next, Work

(* NInv: leases name their workers, and an event is routed once, whoever   *)
(* claimed it and lost the claim (lockedEvent,                             *)
(* CompleteBusinessEventRoute).                                            *)
THEOREM RoutingSafe == Spec => []NInv
<1>1. Init => NType /\ PlansOK /\ EventsOK
  <2> SUFFICES ASSUME Init PROVE PlansOK /\ EventsOK
    BY TypeInit
  <2>1. \A w \in Worker : job[w] = Idle
    BY DEF Init, DirectoryInit
  <2>2. \A t \in Task : task[t].state = "none"
    BY NewRow DEF Init, DeliveryInit
  <2>3. \A e \in Event : outcomes[e] = {} /\ inbox = {}
    BY DEF Init
  <2> QED BY <2>1, <2>2, <2>3 DEF PlansOK, PlanOK, Idle, EventsOK, OnceAt, Settled, Unrouted, Task
<1>2. NType /\ PlansOK /\ EventsOK /\ [Next]_vars => (NType /\ PlansOK /\ EventsOK)'
  BY TypeStep, PlansStep, EventsStep
<1> QED BY <1>1, <1>2, NInvFollows, PTL DEF Spec

-----------------------------------------------------------------------------
(* At most one call is accepted where the provider cannot repeat one       *)

(* A worker whose call may still be taken, or whose answer may have the    *)
(* task tried again: it has claimed a task no earlier claim may have sent, *)
(* is about to call, or was told that another try makes sense.             *)
Hopeful(w, t) ==
  \/ job[w].pc = "claimed" /\ ~job[w].recovered /\ job[w].task = t
  \/ job[w].pc = "send" /\ job[w].task = t
  \/ job[w].pc = "sent" /\ job[w].answer = "retry" /\ job[w].task = t
Waiting == {"none", "PENDING", "RETRY_WAIT"}

(* While somebody is hopeful of a task it was never accepted, and nobody   *)
(* else is; a task that waits has neither.                                 *)
HopeAt(t) ==
  /\ \A w \in Worker : Hopeful(w, t) => accepted[t] = 0
  /\ \A w, x \in Worker : Hopeful(w, t) /\ Hopeful(x, t) => w = x
  /\ task[t].state \in Waiting => accepted[t] = 0 /\ \A w \in Worker : ~Hopeful(w, t)
HopeInv == ~idempotent => \A t \in Task : HopeAt(t)

(* What answers and rows say of the provider is true. *)
AnswerOK(q) ==
  q.pc = "sent" /\ q.answer \in {"accepted", "delivered"} =>
    q.receipt \in 1 .. accepted[q.task] /\ (q.answer = "delivered" => verdict[q.task] = "delivered")
AnswersOK ==
  /\ \A w \in Worker : AnswerOK(job[w])
  /\ \A t \in Task :
       /\ accepted[t] \in 0 .. 1 /\ (accepted[t] = 0 => verdict[t] = "none")
       /\ task[t].state \in {"PROVIDER_ACCEPTED", "DELIVERED"} => task[t].receipt \in 1 .. accepted[t]
       /\ task[t].state = "DELIVERED" => verdict[t] = "delivered"

(* Steps that give no hope and put no task back to wait keep it. *)
LEMMA HopeKept ==
  ASSUME HopeInv, UNCHANGED <<idempotent, accepted>>,
         \A w \in Worker, t \in Task : ~idempotent /\ Hopeful(w, t)' => Hopeful(w, t),
         \A t \in Task : task'[t].state \in Waiting => task[t].state \in Waiting
  PROVE  HopeInv'
BY DEF HopeInv, HopeAt

(* A worker that ends, or goes on with something else, hopes for nothing. *)
LEMMA HopeLess ==
  ASSUME NType, NEW w \in Worker, NEW q, job' = [job EXCEPT ![w] = q], q.pc \notin {"claimed", "send", "sent"}
  PROVE  \A x \in Worker, t \in Task : Hopeful(x, t)' => x # w /\ Hopeful(x, t)
<1>1. \A x \in Worker : job'[x] = IF x = w THEN q ELSE job[x]
  BY DEF NType
<1> QED BY <1>1 DEF Hopeful

(* A router hopes for no task, and makes tasks only where there are none. *)
LEMMA HopeRoutes ==
  ASSUME NType, HopeInv, NEW w \in Worker, ClaimEvent(w) \/ Route(w) \/ Abandon(w)
  PROVE  HopeInv'
<1>0. \A q \in {Idle} \cup Router : q.pc \notin {"claimed", "send", "sent"}
  BY DEF Idle, Router, Finding, Choosing, Adding, Resolving, Preferring, Completing
<1>1. UNCHANGED <<idempotent, accepted>>
  BY DEF ClaimEvent, Route, Abandon, deliveryVars, providerVars
<1>2. \E q \in {Idle} \cup Router : job' = [job EXCEPT ![w] = q]
  <2>1. CASE ClaimEvent(w)
    BY <2>1, ClaimEventMoves DEF Router
  <2>2. CASE Route(w)
    BY <2>2, ReadsRoute, CompleteMoves DEF Route, RouteStep, Reads, Done
  <2>3. CASE Abandon(w)
    BY <2>3 DEF Abandon, AbandonRoute, AbandonTask, Done
  <2> QED BY <2>1, <2>2, <2>3
<1>3. \A x \in Worker, t \in Task : Hopeful(x, t)' => Hopeful(x, t)
  BY <1>0, <1>2, HopeLess
<1>4. ASSUME NEW t \in Task
      PROVE  task'[t].state \in Waiting => task[t].state \in Waiting
  <2>1. CASE task' = task
    BY <2>1
  <2>2. CASE Recorded(w)
    <3>1. (task'[t] = NewTask /\ task[t] = NoTask) \/ task'[t] = task[t]
      BY <2>2 DEF Recorded
    <3> QED BY <3>1, NewRow DEF Waiting
  <2> QED BY <2>1, <2>2, CompleteMoves DEF ClaimEvent, Route, RouteStep, Abandon, deliveryVars
<1> QED BY <1>1, <1>3, <1>4, HopeKept

(* The claim: who takes a task that waits is the only one hopeful of it,   *)
(* and who takes over a lapsed lease is not (ClaimNextExternalTask).       *)
LEMMA HopeClaims ==
  ASSUME NType, HopeInv, NEW w \in Worker, NEW t \in Task, ClaimNextExternalTask(w, t),
         UNCHANGED <<idempotent, accepted>>
  PROVE  HopeInv'
<1>0. \A row : \A x \in Task : Row(t, row) => task'[x] = IF x = t THEN row ELSE task[x]
  BY DEF Row, NType
<1>1. CASE Row(t, Closed(task[t], "MANUAL_REVIEW")) /\ job' = job
  <2>1. Closed(task[t], "MANUAL_REVIEW").state \notin Waiting
    BY ClosedRow DEF NType, Terminal, Waiting
  <2> QED BY <1>0, <1>1, <2>1, HopeKept DEF Hopeful
<1>2. ASSUME NEW r \in BOOLEAN, r = (task[t].state = "LEASED"), Row(t, Leased(task[t], w)),
             job' = [job EXCEPT ![w] = [pc |-> "claimed", task |-> t, recovered |-> r]],
             Leased(task[t], w).state = "LEASED", task[t].state \in {"PENDING", "RETRY_WAIT", "LEASED"}
      PROVE  HopeInv'
  <2>1. \A x \in Task : task'[x].state \in Waiting => task[x].state \in Waiting /\ x # t
    BY <1>0, <1>2 DEF Waiting
  <2>2. /\ job'[w].pc = "claimed" /\ job'[w].task = t /\ job'[w].recovered = r
        /\ \A x \in Worker : x # w => job'[x] = job[x]
    BY <1>2 DEF NType
  <2>3. \A x \in Worker, y \in Task : Hopeful(x, y)' => Hopeful(x, y) \/ (x = w /\ y = t /\ ~r)
    BY <2>2 DEF Hopeful
  <2>4. CASE r
    BY <2>1, <2>3, <2>4, HopeKept
  <2>5. CASE ~r /\ ~idempotent
    <3>1. task[t].state \in Waiting
      BY <1>2, <2>5 DEF Waiting
    <3>2. ASSUME NEW y \in Task
          PROVE  HopeAt(y)'
      <4>1. HopeAt(y) /\ HopeAt(t)
        BY <2>5 DEF HopeInv
      <4> QED BY <2>1, <2>3, <3>1, <4>1 DEF HopeAt
    <3> QED BY <3>2 DEF HopeInv
  <2>6. CASE idempotent
    BY <2>6 DEF HopeInv
  <2> QED BY <2>4, <2>5, <2>6
<1> QED BY <1>1, <1>2, ClaimMoves, ZenonT(10)

(* A failed call leaves the task to wait only if its worker held the lease *)
(* and was hopeful of it, alone (FailExternalTask).                        *)
LEMMA HopeFails ==
  ASSUME NType, HopeInv, NEW w \in Worker, FailExternalTask(w), UNCHANGED <<idempotent, accepted>>
  PROVE  HopeInv'
<1> DEFINE t == job[w].task
<1>0. job[w] \in Sent /\ t \in Task /\ Done(w)
  BY FailMoves DEF Sent
<1>1. \A x \in Worker, y \in Task : Hopeful(x, y)' => x # w /\ Hopeful(x, y)
  BY <1>0, HopeLess DEF Done, Idle
<1>2. \A row : \A y \in Task : Row(t, row) => task'[y] = IF y = t THEN row ELSE task[y]
  BY <1>0 DEF Row, NType
<1>3. CASE task' = task
  BY <1>1, <1>3, HopeKept
<1>4. CASE Row(t, Closed(task[t], "MANUAL_REVIEW"))
  <2>1. Closed(task[t], "MANUAL_REVIEW").state \notin Waiting
    BY <1>0, ClosedRow DEF NType, Terminal, Waiting
  <2> QED BY <1>1, <1>2, <1>4, <2>1, HopeKept
<1>5. ASSUME job[w].answer = "retry", NEW row \in TaskRow, Row(t, row)
      PROVE  HopeInv'
  <2>1. Hopeful(w, t)
    BY <1>0, <1>5 DEF Hopeful, Sent
  <2>2. ASSUME ~idempotent, NEW y \in Task
        PROVE  HopeAt(y)'
    <3>1. HopeAt(y) /\ HopeAt(t)
      BY <1>0, <2>2 DEF HopeInv
    <3> HIDE DEF t
    <3> QED BY <1>0, <1>1, <1>2, <1>5, <2>1, <3>1 DEF HopeAt
  <2> QED BY <2>2 DEF HopeInv
<1> QED BY <1>3, <1>4, <1>5, FailMoves

(* The call: it is taken at most once, and who was told to try again was   *)
(* not taken (SendExternalNotification, classifyExternalProviderFailure).  *)
LEMMA HopeSends ==
  ASSUME NType, HopeInv, NEW w \in Worker, SendExternalNotification(w), UNCHANGED <<idempotent, task>>
  PROVE  HopeInv'
<1> SUFFICES ASSUME ~idempotent, NEW y \in Task
             PROVE  HopeAt(y)'
  BY DEF HopeInv
<1>0. PICK t \in Task : t = job[w].task
  BY SendMoves
<1>1. PICK n \in Nat, q \in Sent :
        /\ job' = [job EXCEPT ![w] = q] /\ q.task = t /\ accepted' = [accepted EXCEPT ![t] = n]
        /\ q.answer = "retry" => n = accepted[t]
        /\ job[w].pc = "send"
  BY <1>0, SendMoves
<1>2. /\ job'[w].pc = "sent" /\ job'[w].task = t /\ job'[w].answer = q.answer
      /\ \A x \in Worker : x # w => job'[x] = job[x]
  BY <1>1 DEF NType, Sent
<1>3. \A x \in Task : accepted'[x] = IF x = t THEN n ELSE accepted[x]
  BY <1>1 DEF NType
<1>4. Hopeful(w, t) /\ HopeAt(t) /\ HopeAt(y)
  BY <1>0, <1>1 DEF Hopeful, HopeInv
<1>5. \A x \in Worker, z \in Task : Hopeful(x, z)' => Hopeful(x, z) /\ (x = w => z = t /\ q.answer = "retry")
  BY <1>0, <1>1, <1>2, ZenonT(10) DEF Hopeful
<1>6. CASE y = t
  <2>1. \A x \in Worker : Hopeful(x, t)' => x = w /\ n = accepted[t]
    BY <1>1, <1>4, <1>5 DEF HopeAt
  <2> QED BY <1>1, <1>3, <1>4, <1>6, <2>1 DEF HopeAt
<1>7. CASE y # t
  BY <1>3, <1>4, <1>5, <1>7 DEF HopeAt
<1> QED BY <1>6, <1>7

(* Every other step of a delivery leaves hope as it was or gives it up. *)
LEMMA HopeStep == NType /\ HopeInv /\ [Next]_vars => HopeInv'
<1> SUFFICES ASSUME NType, HopeInv, [Next]_vars PROVE HopeInv'
  OBVIOUS
<1>1. CASE DirectoryMoves /\ UNCHANGED <<deliveryVars, routingVars>>
  BY <1>1, HopeKept DEF DirectoryMoves, deliveryVars, providerVars, Hopeful
<1>2. CASE ConfigurationMoves
  <2>1. ASSUME NEW w \in Worker, NEW t \in Task, Hopeful(w, t)'
        PROVE  Hopeful(w, t)
    <3>1. CASE Routing(w)
      <4>1. job'[w].pc \notin {"claimed", "send", "sent"}
        BY <1>2, <3>1, ConfigType DEF Router, Finding, Choosing, Adding, Resolving, Preferring, Completing
      <4> QED BY <2>1, <4>1 DEF Hopeful
    <3>2. CASE ~Routing(w)
      BY <1>2, <2>1, <3>2, ConfigType DEF Hopeful
    <3> QED BY <3>1, <3>2
  <2> QED BY <1>2, <2>1, HopeKept DEF ConfigurationMoves, deliveryVars, providerVars
<1>3. ASSUME NEW e \in Event, AppendBusinessEvent(e)
      PROVE  HopeInv'
  BY <1>3, HopeKept DEF AppendBusinessEvent, deliveryVars, providerVars, Hopeful
<1>4. ASSUME NEW w \in Worker, Deliver(w)
      PROVE  HopeInv'
  <2>0. idempotent' = idempotent
    BY <1>4 DEF Deliver
  <2>1. ASSUME NEW t \in Task, ClaimNextExternalTask(w, t), UNCHANGED providerVars
        PROVE  HopeInv'
    BY <2>0, <2>1, HopeClaims DEF providerVars
  <2>2. CASE Prepare(w) /\ UNCHANGED <<task, providerVars, consent>>
    <3>1. PICK q \in Prepared : /\ job' = [job EXCEPT ![w] = q] /\ q.task = job[w].task
                                /\ q.pc = "send" => (job[w].recovered => idempotent)
                                /\ job[w] \in Claimed
      BY <2>2, PrepareMoves
    <3>2. job'[w] = q /\ \A x \in Worker : x # w => job'[x] = job[x]
      BY <3>1 DEF NType
    <3>3. \A x \in Worker, t \in Task : ~idempotent /\ Hopeful(x, t)' => Hopeful(x, t)
      BY <3>1, <3>2, ZenonT(10) DEF Hopeful, Prepared, Claimed
    <3> QED BY <2>0, <2>2, <3>3, HopeKept DEF providerVars
  <2>3. ASSUME NEW row, row.state \notin Waiting, job[w].task \in Task, Done(w), UNCHANGED accepted,
               Row(job[w].task, row) \/ UNCHANGED task
        PROVE  HopeInv'
    <3>1. \A x \in Worker, t \in Task : Hopeful(x, t)' => Hopeful(x, t)
      BY <2>3, HopeLess DEF Done, Idle
    <3>2. \A t \in Task : task'[t].state \in Waiting => task[t].state \in Waiting
      BY <2>3 DEF Row, NType
    <3> QED BY <2>0, <2>3, <3>1, <3>2, HopeKept
  <2>4. CASE TerminalExternalTask(w) /\ UNCHANGED providerVars
    <3>1. job[w].task \in Task /\ job[w].pc \in Terminal
      BY <2>4, RefusalMoves DEF Prepared, Terminal
    <3>2. Closed(task[job[w].task], job[w].pc).state \notin Waiting
      BY <3>1, ClosedRow DEF NType, Waiting, Terminal
    <3> QED BY <2>3, <2>4, <3>1, <3>2, RefusalMoves DEF providerVars
  <2>5. CASE CompleteExternalTask(w) /\ UNCHANGED providerVars
    <3>1. job[w].task \in Task /\ Result(w).state \notin Waiting
      BY <2>5, ResultMoves DEF Sent, Waiting
    <3> QED BY <2>3, <2>5, <3>1, ResultMoves DEF providerVars
  <2>6. CASE FailExternalTask(w) /\ UNCHANGED providerVars
    BY <2>0, <2>6, HopeFails DEF providerVars
  <2>7. CASE SendExternalNotification(w) /\ UNCHANGED task
    BY <2>0, <2>7, HopeSends
  <2> QED BY <1>4, <2>1, <2>2, <2>4, <2>5, <2>6, <2>7 DEF Deliver, DeliveryStep
<1>5. ASSUME NEW t \in Task, ApplyExternalProviderCallback(t), idempotent' = idempotent
      PROVE  HopeInv'
  <2>1. \A x \in Task : task'[x].state \in Waiting => task[x].state \in Waiting
    <3>1. CASE task' = task
      BY <3>1
    <3>2. CASE \E s \in {"DELIVERED", "MANUAL_REVIEW"} : task' = [task EXCEPT ![t] = [task[t] EXCEPT !.state = s]]
      BY <3>2 DEF NType, TaskRow, Waiting
    <3> QED BY <1>5, <3>1, <3>2 DEF ApplyExternalProviderCallback, Row
  <2> QED BY <1>5, <2>1, HopeKept DEF ApplyExternalProviderCallback, Hopeful
<1>6. CASE Tick
  <2>1. \A t \in Task : task'[t].state = task[t].state
    BY <1>6, DownRow DEF Tick, NType
  <2> QED BY <1>6, <2>1, HopeKept DEF Tick, providerVars, Hopeful
<1>7. CASE UNCHANGED vars
  BY <1>7, HopeKept DEF vars, deliveryVars, providerVars, Hopeful
<1> QED BY <1>1, <1>2, <1>3, <1>4, <1>5, <1>6, <1>7, HopeRoutes DEF Next, Work

(* Steps that call nobody and record no result keep it. *)
LEMMA AnswersKept ==
  ASSUME AnswersOK, UNCHANGED <<accepted, verdict>>,
         \A w \in Worker : job'[w] = job[w] \/ job'[w].pc # "sent",
         \A t \in Task : \/ task'[t].state = task[t].state /\ task'[t].receipt = task[t].receipt
                         \/ task'[t].state \notin {"PROVIDER_ACCEPTED", "DELIVERED"}
  PROVE  AnswersOK'
BY DEF AnswersOK, AnswerOK

(* A call tells the truth of what the provider did, and takes back nothing *)
(* it said before.                                                         *)
LEMMA AnswersSent ==
  ASSUME NType, HopeInv, AnswersOK, NEW w \in Worker, SendExternalNotification(w), UNCHANGED <<idempotent, task>>
  PROVE  AnswersOK'
<1>0. PICK t \in Task : t = job[w].task
  BY SendMoves
<1>1. PICK n \in Nat, q \in Sent, v \in {"none", "delivered", "failed"} :
        /\ job' = [job EXCEPT ![w] = q] /\ q.task = t /\ q.receipt = n
        /\ accepted' = [accepted EXCEPT ![t] = n] /\ verdict' = [verdict EXCEPT ![t] = v]
        /\ n = accepted[t] \/ (idempotent /\ n = 1) \/ (~idempotent /\ n = accepted[t] + 1)
        /\ q.answer \in {"accepted", "delivered"} =>
             (idempotent /\ n = 1) \/ (~idempotent /\ n = accepted[t] + 1)
        /\ q.answer = "delivered" => v = "delivered"
        /\ q.answer # "delivered" => v = IF n # accepted[t] THEN "none" ELSE verdict[t]
  BY <1>0, SendMoves
<1>2. accepted[t] \in 0 .. 1 /\ (accepted[t] = 0 => verdict[t] = "none")
  BY DEF AnswersOK
<1>3. ~idempotent => accepted[t] = 0
  BY <1>0, SendMoves DEF HopeInv, HopeAt, Hopeful
<1>4. /\ n \in 0 .. 1 /\ n >= accepted[t] /\ (verdict[t] = "delivered" => v = "delivered")
      /\ n = 0 => v = "none"
      /\ q.answer \in {"accepted", "delivered"} => n = 1
  BY <1>1, <1>2, <1>3, SMT
<1>5. \A x \in Task : /\ accepted'[x] = IF x = t THEN n ELSE accepted[x]
                      /\ verdict'[x] = IF x = t THEN v ELSE verdict[x]
  BY <1>1 DEF NType
<1>6. job'[w] = q /\ \A x \in Worker : x # w => job'[x] = job[x]
  BY <1>1 DEF NType
<1>7. ASSUME NEW x \in Task
      PROVE  /\ accepted'[x] \in 0 .. 1 /\ (accepted'[x] = 0 => verdict'[x] = "none")
             /\ accepted[x] \in 0 .. 1 /\ accepted'[x] >= accepted[x]
             /\ verdict[x] = "delivered" => verdict'[x] = "delivered"
  BY <1>4, <1>5 DEF AnswersOK
<1>8. ASSUME NEW x \in Worker
      PROVE  AnswerOK(job[x])' 
  <2>1. CASE x = w
    BY <1>1, <1>4, <1>5, <1>6, <2>1 DEF AnswerOK
  <2>2. CASE x # w /\ job[x].pc = "sent"
    <3>1. job[x].task \in Task /\ job'[x] = job[x] /\ job[x].receipt \in Nat
      BY <1>6, <2>2, Stages DEF NType, Sent
    <3>2. AnswerOK(job[x])
      BY DEF AnswersOK
    <3> QED BY <1>7, <3>1, <3>2 DEF AnswerOK
  <2>3. CASE x # w /\ job[x].pc # "sent"
    BY <1>6, <2>3 DEF AnswerOK
  <2> QED BY <2>1, <2>2, <2>3
<1>9. ASSUME NEW x \in Task
      PROVE  /\ task'[x].state \in {"PROVIDER_ACCEPTED", "DELIVERED"} => task'[x].receipt \in 1 .. accepted'[x]
             /\ task'[x].state = "DELIVERED" => verdict'[x] = "delivered"
  <2>1. task'[x] = task[x] /\ task[x].receipt \in Nat
    BY DEF NType, TaskRow
  <2> QED BY <1>7, <2>1 DEF AnswersOK
<1> QED BY <1>7, <1>8, <1>9 DEF AnswersOK

(* The provider's word on a delivery is recorded as it is given, and not   *)
(* taken back (ApplyExternalProviderCallback).                             *)
LEMMA AnswersCalled ==
  ASSUME NType, AnswersOK, NEW t \in Task, ApplyExternalProviderCallback(t)
  PROVE  AnswersOK'
<1>1. PICK s \in {"delivered", "failed"} :
        /\ verdict[t] \in {"none", s} /\ verdict' = [verdict EXCEPT ![t] = s]
        /\ IF task[t].receipt = accepted[t] /\ task[t].state = "PROVIDER_ACCEPTED"
           THEN Row(t, [task[t] EXCEPT !.state = IF s = "delivered" THEN "DELIVERED" ELSE "MANUAL_REVIEW"])
           ELSE UNCHANGED task
  BY DEF ApplyExternalProviderCallback
<1>2. accepted[t] > 0 /\ accepted[t] \in Nat /\ UNCHANGED <<job, accepted>>
  BY DEF ApplyExternalProviderCallback, NType
<1>3. \A x \in Task : verdict'[x] = IF x = t THEN s ELSE verdict[x]
  BY <1>1 DEF NType
<1>4. ASSUME NEW w \in Worker
      PROVE  AnswerOK(job[w])'
  <2>1. AnswerOK(job[w]) /\ job'[w] = job[w]
    BY <1>2 DEF AnswersOK
  <2>2. job[w].pc = "sent" => job[w].task \in Task
    BY Stages DEF NType, Sent
  <2> QED BY <1>1, <1>2, <1>3, <2>1, <2>2 DEF AnswerOK
<1>5. ASSUME NEW x \in Task
      PROVE  \/ task'[x] = task[x]
             \/ /\ x = t /\ task[x].state = "PROVIDER_ACCEPTED" /\ task'[x].receipt = task[x].receipt
                /\ task'[x].state = IF s = "delivered" THEN "DELIVERED" ELSE "MANUAL_REVIEW"
  <2>1. task[t] \in TaskRow
    BY DEF NType
  <2> QED BY <1>1, <2>1 DEF Row, NType, TaskRow
<1>6. ASSUME NEW x \in Task
      PROVE  /\ accepted'[x] \in 0 .. 1 /\ (accepted'[x] = 0 => verdict'[x] = "none")
             /\ task'[x].state \in {"PROVIDER_ACCEPTED", "DELIVERED"} => task'[x].receipt \in 1 .. accepted'[x]
             /\ task'[x].state = "DELIVERED" => verdict'[x] = "delivered"
  <2>1. /\ accepted[x] \in 0 .. 1 /\ (accepted[x] = 0 => verdict[x] = "none")
        /\ task[x].state \in {"PROVIDER_ACCEPTED", "DELIVERED"} => task[x].receipt \in 1 .. accepted[x]
        /\ task[x].state = "DELIVERED" => verdict[x] = "delivered"
    BY DEF AnswersOK
  <2>2. accepted'[x] = accepted[x] /\ (accepted[x] = 0 => x # t)
    BY <1>2
  <2> QED BY <1>1, <1>3, <1>5, <2>1, <2>2
<1> QED BY <1>4, <1>6 DEF AnswersOK

(* Every step keeps it. *)
LEMMA AnswersStep == NType /\ HopeInv /\ AnswersOK /\ [Next]_vars => AnswersOK'
<1> SUFFICES ASSUME NType, HopeInv, AnswersOK, [Next]_vars PROVE AnswersOK'
  OBVIOUS
<1>0. ASSUME NEW w \in Worker, NEW q, q.pc # "sent", job' = [job EXCEPT ![w] = q]
      PROVE  \A x \in Worker : job'[x] = job[x] \/ job'[x].pc # "sent"
  BY <1>0 DEF NType
<1>1. CASE DirectoryMoves /\ UNCHANGED <<deliveryVars, routingVars>>
  BY <1>1, AnswersKept DEF DirectoryMoves, deliveryVars, providerVars
<1>2. CASE ConfigurationMoves
  <2>1. \A q \in Router : q.pc # "sent"
    BY DEF Router, Finding, Choosing, Adding, Resolving, Preferring, Completing
  <2> QED BY <1>2, <2>1, ConfigType, AnswersKept DEF ConfigurationMoves, deliveryVars, providerVars
<1>3. ASSUME NEW e \in Event, AppendBusinessEvent(e)
      PROVE  AnswersOK'
  BY <1>3, AnswersKept DEF AppendBusinessEvent, deliveryVars, providerVars
<1>4. ASSUME NEW w \in Worker, ClaimEvent(w) \/ Route(w) \/ Abandon(w)
      PROVE  AnswersOK'
  <2>0. \A q \in {Idle} \cup Router : q.pc # "sent"
    BY DEF Idle, Router, Finding, Choosing, Adding, Resolving, Preferring, Completing
  <2>1. UNCHANGED <<accepted, verdict>>
    BY <1>4 DEF ClaimEvent, Route, Abandon, deliveryVars, providerVars
  <2>2. \E q \in {Idle} \cup Router : job' = [job EXCEPT ![w] = q]
    <3>1. CASE ClaimEvent(w)
      BY <3>1, ClaimEventMoves DEF Router
    <3>2. CASE Route(w)
      BY <3>2, ReadsRoute, CompleteMoves DEF Route, RouteStep, Reads, Done
    <3>3. CASE Abandon(w)
      BY <3>3 DEF Abandon, AbandonRoute, AbandonTask, Done
    <3> QED BY <1>4, <3>1, <3>2, <3>3
  <2>3. \A x \in Worker : job'[x] = job[x] \/ job'[x].pc # "sent"
    BY <1>0, <2>0, <2>2
  <2>4. ASSUME NEW t \in Task
        PROVE  task'[t] = task[t] \/ task'[t].state = "PENDING"
    <3>1. Recorded(w) => task'[t] = task[t] \/ task'[t] = NewTask
      BY DEF Recorded
    <3>2. task' = task \/ Recorded(w)
      BY <1>4, CompleteMoves DEF ClaimEvent, Route, RouteStep, Abandon, deliveryVars
    <3> QED BY <3>1, <3>2, NewRow
  <2> QED BY <2>1, <2>3, <2>4, AnswersKept
<1>5. ASSUME NEW w \in Worker, Deliver(w)
      PROVE  AnswersOK'
  <2>0. \A x \in Task : \A row : Row(x, row) => \A t \in Task : task'[t] = IF t = x THEN row ELSE task[t]
    BY DEF Row, NType
  <2>1. ASSUME NEW t \in Task, ClaimNextExternalTask(w, t), UNCHANGED providerVars
        PROVE  AnswersOK'
    <3>1. \/ job' = job
          \/ \E r \in BOOLEAN : job' = [job EXCEPT ![w] = [pc |-> "claimed", task |-> t, recovered |-> r]]
      BY <2>1, ClaimMoves
    <3>2. \A x \in Worker : job'[x] = job[x] \/ job'[x].pc # "sent"
      BY <1>0, <3>1
    <3>3. \E row : Row(t, row) /\ row.state \in {"MANUAL_REVIEW", "LEASED"}
      BY <2>1, ClaimMoves, ClosedRow DEF NType, Terminal
    <3> QED BY <2>0, <2>1, <3>2, <3>3, AnswersKept DEF providerVars
  <2>2. CASE Prepare(w) /\ UNCHANGED <<task, providerVars, consent>>
    BY <1>0, <2>2, PrepareMoves, AnswersKept DEF providerVars, Prepared
  <2>3. ASSUME Done(w)
        PROVE  \A x \in Worker : job'[x] = job[x] \/ job'[x].pc # "sent"
    BY <1>0, <2>3 DEF Done, Idle
  <2>4. CASE TerminalExternalTask(w) /\ UNCHANGED providerVars
    <3>1. job[w].task \in Task /\ job[w].pc \in {"CANCELLED", "MANUAL_REVIEW"}
      BY <2>4, RefusalMoves DEF Prepared
    <3>2. Closed(task[job[w].task], job[w].pc).state \in {"CANCELLED", "MANUAL_REVIEW"}
      BY <3>1, ClosedRow DEF NType, Terminal
    <3> QED BY <2>0, <2>3, <2>4, <3>1, <3>2, RefusalMoves, AnswersKept DEF providerVars
  <2>5. CASE CompleteExternalTask(w) /\ UNCHANGED providerVars
    <3>1. PICK t \in Task : t = job[w].task /\ job[w].pc = "sent"
      BY <2>5, ResultMoves DEF Sent
    <3>2. /\ job[w].receipt \in 1 .. accepted[t]
          /\ job[w].answer = "delivered" => verdict[t] = "delivered"
      BY <2>5, <3>1, ResultMoves DEF AnswersOK, AnswerOK
    <3>3. /\ Result(w).state = "DELIVERED" => verdict[t] = "delivered"
          /\ Result(w).receipt \in 1 .. accepted[t]
      BY <2>5, <3>2, ResultMoves
    <3>4. \A x \in Worker : job'[x] = job[x] \/ job'[x].pc # "sent"
      BY <2>3, <2>5, ResultMoves
    <3>5. \A x \in Task : task'[x] = task[x] \/ (x = t /\ task'[x] = Result(w))
      BY <2>0, <2>5, <3>1, ResultMoves
    <3> QED BY <2>5, <3>3, <3>4, <3>5 DEF AnswersOK, AnswerOK, providerVars
  <2>6. CASE FailExternalTask(w) /\ UNCHANGED providerVars
    <3>1. job[w].task \in Task
      BY <2>6, FailMoves DEF Sent
    <3>2. Closed(task[job[w].task], "MANUAL_REVIEW").state = "MANUAL_REVIEW"
      BY <3>1, ClosedRow DEF NType, Terminal
    <3> QED BY <2>0, <2>3, <2>6, <3>1, <3>2, FailMoves, AnswersKept DEF providerVars
  <2>7. CASE SendExternalNotification(w) /\ UNCHANGED task
    BY <1>5, <2>7, AnswersSent DEF Deliver
  <2> QED BY <1>5, <2>1, <2>2, <2>4, <2>5, <2>6, <2>7 DEF Deliver, DeliveryStep
<1>6. CASE Tick
  <2>1. \A t \in Task : task'[t].state = task[t].state /\ task'[t].receipt = task[t].receipt
    BY <1>6, DownRow DEF Tick, NType
  <2> QED BY <1>6, <2>1, AnswersKept DEF Tick, providerVars
<1>7. CASE UNCHANGED vars
  BY <1>7, AnswersKept DEF vars, deliveryVars, providerVars
<1> QED BY <1>1, <1>2, <1>3, <1>4, <1>5, <1>6, <1>7, AnswersCalled DEF Next, Work

-----------------------------------------------------------------------------
(* The calls made for a task, and those still to be made, were claimed *)

INSTANCE FiniteSetTheorems

Calls(t) == {w \in Worker : job[w].pc \in {"claimed", "send"} /\ job[w].task = t}
BudgetInv == \A t \in Task : sends[t] + Cardinality(Calls(t)) <= task[t].attempts

(* Counting the workers on a task: fewer, one more and one less. *)
LEMMA CallsCount ==
  /\ \A t \in Task : IsFiniteSet(Calls(t)) /\ Cardinality(Calls(t)) \in Nat
  /\ \A S, T : S \subseteq T /\ T \subseteq Worker => Cardinality(S) <= Cardinality(T)
  /\ \A S, w : S \subseteq Worker /\ w \notin S => Cardinality(S \cup {w}) = Cardinality(S) + 1
  /\ \A S, w : S \subseteq Worker /\ w \in S => Cardinality(S \ {w}) = Cardinality(S) - 1
<1>1. \A S \in SUBSET Worker : IsFiniteSet(S)
  BY WorkersAssumption, FS_Subset
<1>2. \A t \in Task : IsFiniteSet(Calls(t)) /\ Cardinality(Calls(t)) \in Nat
  BY <1>1, FS_CardinalityType DEF Calls
<1>3. \A S, T : S \subseteq T /\ T \subseteq Worker => Cardinality(S) <= Cardinality(T)
  BY <1>1, FS_Subset
<1>4. \A S, w : S \subseteq Worker /\ w \notin S => Cardinality(S \cup {w}) = Cardinality(S) + 1
  BY <1>1, FS_AddElement
<1>5. \A S, w : S \subseteq Worker /\ w \in S => Cardinality(S \ {w}) = Cardinality(S) - 1
  BY <1>1, FS_RemoveElement
<1> QED BY <1>2, <1>3, <1>4, <1>5

(* Steps that claim nothing and call nobody keep it. *)
LEMMA BudgetKept ==
  ASSUME NType, NType', BudgetInv, sends' = sends,
         \A w \in Worker : job'[w] = job[w] \/ job'[w].pc \notin {"claimed", "send"}
                           \/ (job'[w].task = job[w].task /\ job[w].pc \in {"claimed", "send"}),
         \A t \in Task : task'[t].attempts >= task[t].attempts
  PROVE  BudgetInv'
<1> SUFFICES ASSUME NEW t \in Task
             PROVE  sends'[t] + Cardinality(Calls(t)') <= task'[t].attempts
  BY DEF BudgetInv
<1>1. Calls(t)' \subseteq Calls(t) /\ Calls(t) \subseteq Worker
  BY DEF Calls
<1>2. PICK S : S = Calls(t)'
  OBVIOUS
<1>3. Cardinality(S) <= Cardinality(Calls(t)) /\ Cardinality(Calls(t)) \in Nat
  BY <1>1, <1>2, CallsCount
<1>4. /\ sends[t] \in Nat /\ task[t].attempts \in Nat /\ task'[t].attempts \in Nat
      /\ sends[t] + Cardinality(Calls(t)) <= task[t].attempts
  BY DeliveryAssumption DEF NType, TaskRow, BudgetInv
<1>5. Cardinality(S) \in Nat
  BY <1>1, <1>2, WorkersAssumption, FS_Subset, FS_CardinalityType
<1> QED BY <1>2, <1>3, <1>4, <1>5

(* A claim is counted before its call can be made (ClaimNextExternalTask). *)
LEMMA BudgetClaims ==
  ASSUME NType, NType', BudgetInv, NEW w \in Worker, NEW t \in Task, ClaimNextExternalTask(w, t), sends' = sends
  PROVE  BudgetInv'
<1>1. CASE Row(t, Closed(task[t], "MANUAL_REVIEW")) /\ job' = job
  <2>1. Closed(task[t], "MANUAL_REVIEW").attempts = task[t].attempts
    BY ClosedRow DEF NType, Terminal
  <2>2. \A x \in Task : task'[x].attempts = task[x].attempts
    BY <1>1, <2>1 DEF Row, NType
  <2>3. \A x \in Task : task[x].attempts \in Nat
    BY DeliveryAssumption DEF NType, TaskRow
  <2> QED BY <1>1, <2>2, <2>3, BudgetKept
<1>2. ASSUME NEW r \in BOOLEAN, Row(t, Leased(task[t], w)), job[w] = Idle,
             Leased(task[t], w).attempts = task[t].attempts + 1,
             job' = [job EXCEPT ![w] = [pc |-> "claimed", task |-> t, recovered |-> r]]
      PROVE  BudgetInv'
  <2>1. /\ job'[w].pc = "claimed" /\ job'[w].task = t /\ \A x \in Worker : x # w => job'[x] = job[x]
        /\ job[w].pc = "idle"
    BY <1>2 DEF NType, Idle
  <2>2. \A x \in Task : task'[x].attempts = IF x = t THEN task[t].attempts + 1 ELSE task[x].attempts
    BY <1>2 DEF Row, NType
  <2>3. ASSUME NEW x \in Task
        PROVE  sends'[x] + Cardinality(Calls(x)') <= task'[x].attempts
    <3>0. sends[x] \in Nat /\ task[x].attempts \in Nat /\ sends[x] + Cardinality(Calls(x)) <= task[x].attempts
      BY DeliveryAssumption DEF NType, TaskRow, BudgetInv
    <3>1. CASE x = t
      <4>1. Calls(x)' = Calls(x) \cup {w} /\ w \notin Calls(x) /\ Calls(x) \subseteq Worker
        BY <2>1, <3>1 DEF Calls
      <4>2. Cardinality(Calls(x) \cup {w}) = Cardinality(Calls(x)) + 1 /\ Cardinality(Calls(x)) \in Nat
        BY <4>1, CallsCount
      <4> QED BY <2>2, <3>0, <3>1, <4>1, <4>2
    <3>2. CASE x # t
      <4>1. Calls(x)' = Calls(x)
        BY <2>1, <3>2 DEF Calls
      <4> QED BY <2>2, <3>0, <3>2, <4>1
    <3> QED BY <3>1, <3>2
  <2> QED BY <2>3 DEF BudgetInv
<1> QED BY <1>1, <1>2, ClaimMoves

(* The call uses its claim up (SendExternalNotification). *)
LEMMA BudgetSends ==
  ASSUME NType, BudgetInv, NEW w \in Worker, SendExternalNotification(w), task' = task
  PROVE  BudgetInv'
<1>0. PICK t \in Task : t = job[w].task /\ job[w].pc = "send" /\ sends' = [sends EXCEPT ![t] = @ + 1]
  BY SendMoves
<1>1. PICK q \in Sent : job' = [job EXCEPT ![w] = q]
  BY SendMoves
<1>2. job'[w].pc = "sent" /\ \A x \in Worker : x # w => job'[x] = job[x]
  BY <1>1 DEF NType, Sent
<1>3. ASSUME NEW x \in Task
      PROVE  sends'[x] + Cardinality(Calls(x)') <= task'[x].attempts
  <2>0. sends[x] \in Nat /\ task[x].attempts \in Nat /\ sends[x] + Cardinality(Calls(x)) <= task[x].attempts
    BY DeliveryAssumption DEF NType, TaskRow, BudgetInv
  <2>1. CASE x = t
    <3>1. Calls(x)' = Calls(x) \ {w} /\ w \in Calls(x) /\ Calls(x) \subseteq Worker
      BY <1>0, <1>2, <2>1 DEF Calls
    <3>2. Cardinality(Calls(x) \ {w}) = Cardinality(Calls(x)) - 1 /\ Cardinality(Calls(x)) \in Nat
      BY <3>1, CallsCount
    <3>3. sends'[x] = sends[x] + 1
      BY <1>0, <2>1 DEF NType
    <3> QED BY <2>0, <3>1, <3>2, <3>3
  <2>2. CASE x # t
    <3>1. Calls(x)' = Calls(x)
      BY <1>0, <1>2, <2>2 DEF Calls
    <3>2. sends'[x] = sends[x]
      BY <1>0, <2>2 DEF NType
    <3> QED BY <2>0, <3>1, <3>2
  <2> QED BY <2>1, <2>2
<1> QED BY <1>3 DEF BudgetInv

(* Every step keeps it. *)
LEMMA BudgetStep == NType /\ NType' /\ BudgetInv /\ [Next]_vars => BudgetInv'
<1> SUFFICES ASSUME NType, NType', BudgetInv, [Next]_vars PROVE BudgetInv'
  OBVIOUS
<1>0. ASSUME NEW w \in Worker, NEW q, q.pc \notin {"claimed", "send"}, job' = [job EXCEPT ![w] = q]
      PROVE  \A x \in Worker : job'[x] = job[x] \/ job'[x].pc \notin {"claimed", "send"}
  BY <1>0 DEF NType
<1>1. \A t \in Task : task[t].attempts \in Nat
  BY DeliveryAssumption DEF NType, TaskRow
<1>2. CASE (DirectoryMoves /\ UNCHANGED <<deliveryVars, routingVars>>) \/ UNCHANGED vars
           \/ \E e \in Event : AppendBusinessEvent(e)
  <2>1. UNCHANGED <<job, sends, task>>
    BY <1>2 DEF DirectoryMoves, AppendBusinessEvent, vars, deliveryVars, providerVars
  <2> QED BY <1>1, <2>1, BudgetKept
<1>3. CASE ConfigurationMoves
  <2>1. \A q \in Router : q.pc \notin {"claimed", "send"}
    BY DEF Router, Finding, Choosing, Adding, Resolving, Preferring, Completing
  <2>2. UNCHANGED <<sends, task>>
    BY <1>3 DEF ConfigurationMoves, deliveryVars, providerVars
  <2>3. \A w \in Worker : job'[w] = job[w] \/ job'[w].pc \notin {"claimed", "send"}
    BY <1>3, <2>1, ConfigType
  <2> QED BY <1>1, <2>2, <2>3, BudgetKept
<1>4. ASSUME NEW w \in Worker, ClaimEvent(w) \/ Route(w) \/ Abandon(w)
      PROVE  BudgetInv'
  <2>0. \A q \in {Idle} \cup Router : q.pc \notin {"claimed", "send"}
    BY DEF Idle, Router, Finding, Choosing, Adding, Resolving, Preferring, Completing
  <2>1. sends' = sends
    BY <1>4 DEF ClaimEvent, Route, Abandon, deliveryVars, providerVars
  <2>2. \E q \in {Idle} \cup Router : job' = [job EXCEPT ![w] = q]
    <3>1. CASE ClaimEvent(w)
      BY <3>1, ClaimEventMoves DEF Router
    <3>2. CASE Route(w)
      BY <3>2, ReadsRoute, CompleteMoves DEF Route, RouteStep, Reads, Done
    <3>3. CASE Abandon(w)
      BY <3>3 DEF Abandon, AbandonRoute, AbandonTask, Done
    <3> QED BY <1>4, <3>1, <3>2, <3>3
  <2>3. \A x \in Worker : job'[x] = job[x] \/ job'[x].pc \notin {"claimed", "send"}
    BY <1>0, <2>0, <2>2
  <2>4. ASSUME NEW t \in Task
        PROVE  task'[t].attempts >= task[t].attempts
    <3>1. Recorded(w) => task'[t] = task[t] \/ (task'[t] = NewTask /\ task[t] = NoTask)
      BY DEF Recorded
    <3>2. task' = task \/ Recorded(w)
      BY <1>4, CompleteMoves DEF ClaimEvent, Route, RouteStep, Abandon, deliveryVars
    <3> QED BY <1>1, <3>1, <3>2, NewRow
  <2> QED BY <2>1, <2>3, <2>4, BudgetKept
<1>5. ASSUME NEW w \in Worker, Deliver(w)
      PROVE  BudgetInv'
  <2>1. ASSUME NEW t \in Task, ClaimNextExternalTask(w, t), UNCHANGED providerVars
        PROVE  BudgetInv'
    BY <2>1, BudgetClaims DEF providerVars
  <2>2. CASE Prepare(w) /\ UNCHANGED <<task, providerVars, consent>>
    <3>1. PICK q \in Prepared : job' = [job EXCEPT ![w] = q] /\ q.task = job[w].task /\ job[w] \in Claimed
      BY <2>2, PrepareMoves
    <3>2. job[w].pc = "claimed" /\ job'[w].task = job[w].task /\ \A x \in Worker : x # w => job'[x] = job[x]
      BY <3>1 DEF NType, Claimed
    <3> QED BY <1>1, <2>2, <3>2, BudgetKept DEF providerVars
  <2>3. ASSUME job[w].task \in Task, NEW row, Row(job[w].task, row) \/ UNCHANGED task,
               row.attempts = task[job[w].task].attempts, Done(w), sends' = sends
        PROVE  BudgetInv'
    <3>1. \A x \in Worker : job'[x] = job[x] \/ job'[x].pc \notin {"claimed", "send"}
      BY <1>0, <2>3 DEF Done, Idle
    <3>2. \A t \in Task : task'[t].attempts = task[t].attempts
      BY <2>3 DEF Row, NType
    <3> QED BY <1>1, <2>3, <3>1, <3>2, BudgetKept
  <2>4. CASE TerminalExternalTask(w) /\ UNCHANGED providerVars
    <3>1. job[w].task \in Task /\ job[w].pc \in Terminal
      BY <2>4, RefusalMoves DEF Prepared, Terminal
    <3>2. Closed(task[job[w].task], job[w].pc).attempts = task[job[w].task].attempts
      BY <3>1, ClosedRow DEF NType
    <3> QED BY <2>3, <2>4, <3>1, <3>2, RefusalMoves DEF providerVars
  <2>5. CASE CompleteExternalTask(w) /\ UNCHANGED providerVars
    BY <2>3, <2>5, ResultMoves DEF providerVars, Sent
  <2>6. CASE FailExternalTask(w) /\ UNCHANGED providerVars
    <3>1. job[w].task \in Task /\ Done(w)
      BY <2>6, FailMoves DEF Sent
    <3>2. Closed(task[job[w].task], "MANUAL_REVIEW").attempts = task[job[w].task].attempts
      BY <3>1, ClosedRow DEF NType, Terminal
    <3> QED BY <2>3, <2>6, <3>1, <3>2, FailMoves, ZenonT(10) DEF providerVars
  <2>7. CASE SendExternalNotification(w) /\ UNCHANGED task
    BY <2>7, BudgetSends
  <2> QED BY <1>5, <2>1, <2>2, <2>4, <2>5, <2>6, <2>7, ZenonT(10) DEF Deliver, DeliveryStep
<1>6. ASSUME NEW t \in Task, ApplyExternalProviderCallback(t)
      PROVE  BudgetInv'
  <2>1. \A x \in Task : task'[x].attempts = task[x].attempts
    <3>1. CASE task' = task
      BY <3>1
    <3>2. CASE \E s \in {"DELIVERED", "MANUAL_REVIEW"} : task' = [task EXCEPT ![t] = [task[t] EXCEPT !.state = s]]
      BY <3>2 DEF NType, TaskRow
    <3> QED BY <1>6, <3>1, <3>2 DEF ApplyExternalProviderCallback, Row
  <2> QED BY <1>1, <1>6, <2>1, BudgetKept DEF ApplyExternalProviderCallback
<1>7. CASE Tick
  <2>1. \A t \in Task : task'[t].attempts = task[t].attempts
    BY <1>7, DownRow DEF Tick, NType
  <2> QED BY <1>1, <1>7, <2>1, BudgetKept DEF Tick, providerVars
<1> QED BY <1>2, <1>3, <1>4, <1>5, <1>6, <1>7, ZenonT(10) DEF Next, Work

(* DeliveryInv: a provider that cannot repeat a task accepts it once, a    *)
(* task is called for no more often than its attempts allow, and what is   *)
(* recorded of it is true of the provider (RunOnce,                        *)
(* classifyExternalProviderFailure, CompleteExternalTask,                  *)
(* ApplyExternalProviderCallback).                                         *)
THEOREM DeliverySafe == Spec => []DeliveryInv
<1> DEFINE IInv == NType /\ HopeInv /\ AnswersOK /\ BudgetInv
<1>1. Init => IInv
  <2> SUFFICES ASSUME Init PROVE HopeInv /\ AnswersOK /\ BudgetInv
    BY TypeInit
  <2>1. \A w \in Worker : job[w].pc = "idle"
    BY DEF Init, DirectoryInit, Idle
  <2>2. \A t \in Task : task[t].state = "none" /\ task[t].attempts = 0
    BY NewRow DEF Init, DeliveryInit
  <2>3. \A t \in Task : sends[t] = 0 /\ accepted[t] = 0 /\ verdict[t] = "none"
    BY DEF Init, DeliveryInit
  <2>4. HopeInv /\ AnswersOK
    BY <2>1, <2>2, <2>3 DEF HopeInv, HopeAt, Hopeful, AnswersOK, AnswerOK
  <2>5. \A t \in Task : Calls(t) = {}
    BY <2>1, ZenonT(10) DEF Calls
  <2>6. \A t \in Task : Cardinality(Calls(t)) = 0
    BY <2>5, FS_EmptySet
  <2> QED BY <2>2, <2>3, <2>4, <2>6 DEF BudgetInv
<1>2. IInv /\ [Next]_vars => IInv'
  BY TypeStep, HopeStep, AnswersStep, BudgetStep
<1>3. IInv => DeliveryInv
  <2> SUFFICES ASSUME NType, HopeInv, AnswersOK, BudgetInv PROVE DeliveryInv
    OBVIOUS
  <2>1. AcceptedOnce
    BY DEF AnswersOK, AcceptedOnce
  <2>2. ASSUME NEW t \in Task
        PROVE  sends[t] <= MaxAttempts
    <3>1. /\ sends[t] \in Nat /\ task[t].attempts \in 0 .. MaxAttempts /\ MaxAttempts \in Nat
          /\ sends[t] + Cardinality(Calls(t)) <= task[t].attempts
      BY DeliveryAssumption DEF NType, TaskRow, BudgetInv
    <3> QED BY <3>1, CallsCount
  <2>3. RecordedTruly
    BY DEF HopeInv, HopeAt, Waiting, AnswersOK, RecordedTruly
  <2> QED BY <2>1, <2>2, <2>3 DEF DeliveryInv, SendBudget
<1> QED BY <1>1, <1>2, <1>3, PTL DEF Spec
=============================================================================
