------------------------------- MODULE Outbox -------------------------------
(***************************************************************************)
(* The transactional outbox, the consumer's inbox and the monotonic        *)
(* subscription projection of one tenant                                   *)
(* (infrastructure/persistence/outbox.go), with the workers that deliver   *)
(* the events (bizruntime/provisioning_worker.go).                         *)
(*                                                                         *)
(* Events are named by their aggregate version: the event id is a digest   *)
(* of tenant, aggregate and version.  Claim, Deliver and Fail are one      *)
(* transaction each, under the event's row lock.  Database time is         *)
(* abstracted to the two questions the code asks of it: has the lease      *)
(* expired, and has the next attempt come due.                             *)
(***************************************************************************)
EXTENDS Naturals

CONSTANTS
  Worker,          \* worker processes
  MaxVersion,      \* bound on the aggregate's versions
  MaxDeliveries    \* 5 in the code

NoWorker == "none"

ASSUME OutboxAssumption ==
  /\ MaxVersion \in Nat \ {0}
  /\ MaxDeliveries \in Nat \ {0}
  /\ NoWorker \notin Worker

VARIABLES
  state,      \* outbox row of each version
  attempts,   \* delivery claims so far
  token,      \* lease token of the row
  owner,      \* lease owner of the row
  live,       \* rows whose lease has not expired
  due,        \* rows whose next_attempt_at has passed
  inbox,      \* versions with an inbox row
  head,       \* version of the projection row, 0 before the first
  pc,         \* worker: idle, leased (claim committed) or failing
  wEvent,     \* the version the worker claimed
  wToken      \* the lease token it got

rowVars == <<state, attempts, token, owner, live, due>>
consumerVars == <<inbox, head>>
workerVars == <<pc, wEvent, wToken>>
vars == <<rowVars, consumerVars, workerVars>>

-----------------------------------------------------------------------------
Version == 1..MaxVersion
RowState == {"NONE", "PENDING", "LEASED", "RETRY_WAIT", "DELIVERED", "DEAD"}
Done == {"DELIVERED", "DEAD"}

Init ==
  /\ state = [v \in Version |-> "NONE"]
  /\ attempts = [v \in Version |-> 0]
  /\ token = [v \in Version |-> 0]
  /\ owner = [v \in Version |-> NoWorker]
  /\ live = {}
  /\ due = {}
  /\ inbox = {}
  /\ head = 0
  /\ pc = [w \in Worker |-> "idle"]
  /\ wEvent = [w \in Worker |-> 1]
  /\ wToken = [w \in Worker |-> 0]

(* Append, in the root transaction that moves the subscription to version  *)
(* v; versions grow but need not be consecutive.  next_attempt_at is the   *)
(* time of the event itself.                                               *)
AppendEvent(v) ==
  /\ \A u \in Version : u >= v => state[u] = "NONE"
  /\ state' = [state EXCEPT ![v] = "PENDING"]
  /\ due' = due \cup {v}
  /\ UNCHANGED <<attempts, token, owner, live, consumerVars, workerVars>>

-----------------------------------------------------------------------------
(* Claim: any due or expired row, since SKIP LOCKED passes over the first  *)
(* ones while other transactions hold them.                                *)

(* Faulty variant: an expired lease is never taken over. *)
ClaimableDueOnly(v) == state[v] \in {"PENDING", "RETRY_WAIT"} /\ v \in due

Claimable(v) ==
  \/ state[v] \in {"PENDING", "RETRY_WAIT"} /\ v \in due
  \/ state[v] = "LEASED" /\ v \notin live

ClaimLease(w, v) ==
  /\ attempts[v] < MaxDeliveries
  /\ state' = [state EXCEPT ![v] = "LEASED"]
  /\ attempts' = [attempts EXCEPT ![v] = @ + 1]
  /\ token' = [token EXCEPT ![v] = @ + 1]
  /\ owner' = [owner EXCEPT ![v] = w]
  /\ live' = live \cup {v}
  /\ due' = due \ {v}
  /\ pc' = [pc EXCEPT ![w] = "leased"]
  /\ wEvent' = [wEvent EXCEPT ![w] = v]
  /\ wToken' = [wToken EXCEPT ![w] = token[v] + 1]

ClaimDead(v) ==
  /\ attempts[v] >= MaxDeliveries
  /\ state' = [state EXCEPT ![v] = "DEAD"]
  /\ owner' = [owner EXCEPT ![v] = NoWorker]
  /\ live' = live \ {v}
  /\ UNCHANGED <<attempts, token, due, workerVars>>

Claim(w) ==
  /\ pc[w] = "idle"
  /\ \E v \in Version : Claimable(v) /\ (ClaimLease(w, v) \/ ClaimDead(v))
  /\ UNCHANGED consumerVars

-----------------------------------------------------------------------------
(* Deliver: inbox, projection and acknowledgement in one transaction *)

(* locked(), for a row that is not yet DELIVERED. *)
Locked(w, v) ==
  /\ token[v] = wToken[w]
  /\ state[v] = "LEASED"
  /\ owner[v] = w
  /\ v \in live

(* Faulty variant: the order of versions is not looked at. *)
ClassifyInOrder(v) == IF v \in inbox THEN "DUPLICATE" ELSE "APPLIED"

(* ClassifyDelivery; a version names its payload, so hashes always agree. *)
ClassifyDelivery(v) ==
  IF v \in inbox THEN "DUPLICATE"
  ELSE IF v < head THEN "STALE"
  ELSE IF v = head THEN "DUPLICATE"
  ELSE "APPLIED"

TickEnds(w) ==
  /\ pc' = [pc EXCEPT ![w] = "idle"]
  /\ wEvent' = [wEvent EXCEPT ![w] = 1]
  /\ wToken' = [wToken EXCEPT ![w] = 0]

(* The worker takes the error path: it will call Fail. *)
GoesFailing(w) == pc' = [pc EXCEPT ![w] = "failing"] /\ UNCHANGED <<wEvent, wToken>>

Deliver(w) ==
  LET v == wEvent[w] IN
  /\ pc[w] = "leased"
  /\ Locked(w, v)
  /\ inbox' = inbox \cup {v}
  /\ head' = IF ClassifyDelivery(v) = "APPLIED" THEN v ELSE head
  /\ state' = [state EXCEPT ![v] = "DELIVERED"]
  /\ owner' = [owner EXCEPT ![v] = NoWorker]
  /\ live' = live \ {v}
  \* the reply arrives, or is lost after the commit
  /\ TickEnds(w) \/ GoesFailing(w)
  /\ UNCHANGED <<attempts, token, due>>

(* ErrLease, or any other error: the transaction rolled back. *)
DeliverFails(w) ==
  /\ pc[w] = "leased"
  /\ GoesFailing(w)
  /\ UNCHANGED <<rowVars, consumerVars>>

-----------------------------------------------------------------------------
(* Fail, in a transaction of its own *)

FailRow(v) ==
  /\ state' = [state EXCEPT ![v] = IF attempts[v] >= MaxDeliveries THEN "DEAD" ELSE "RETRY_WAIT"]
  /\ owner' = [owner EXCEPT ![v] = NoWorker]
  /\ live' = live \ {v}
  /\ due' = due \ {v}
  /\ UNCHANGED <<attempts, token>>

(* Faulty variant: a failure report that comes late overwrites the row. *)
FailUnfenced(w) ==
  /\ pc[w] = "failing"
  /\ FailRow(wEvent[w])
  /\ TickEnds(w)
  /\ UNCHANGED consumerVars

(* A row that is DELIVERED is left alone, a lost lease is ErrLease, and    *)
(* the call itself may fail.                                               *)
Fail(w) ==
  /\ pc[w] = "failing"
  /\ \/ Locked(w, wEvent[w]) /\ FailRow(wEvent[w])
     \/ UNCHANGED rowVars
  /\ TickEnds(w)
  /\ UNCHANGED consumerVars

-----------------------------------------------------------------------------
(* Environment *)

Crash(w) ==
  /\ pc[w] # "idle"
  /\ TickEnds(w)
  /\ UNCHANGED <<rowVars, consumerVars>>

LeaseExpires(v) ==
  /\ v \in live
  /\ live' = live \ {v}
  /\ UNCHANGED <<state, attempts, token, owner, due, consumerVars, workerVars>>

BackoffPasses(v) ==
  /\ state[v] = "RETRY_WAIT"
  /\ v \notin due
  /\ due' = due \cup {v}
  /\ UNCHANGED <<state, attempts, token, owner, live, consumerVars, workerVars>>

WorkerStep(w) == Claim(w) \/ Deliver(w) \/ DeliverFails(w) \/ Fail(w)

Next ==
  \/ \E v \in Version : AppendEvent(v) \/ LeaseExpires(v) \/ BackoffPasses(v)
  \/ \E w \in Worker : WorkerStep(w) \/ Crash(w)

Spec == Init /\ [][Next]_vars

(* Workers keep polling and database time passes; crashes are unlimited. *)
Fairness ==
  /\ \A w \in Worker : WF_vars(WorkerStep(w))
  /\ \A v \in Version : WF_vars(LeaseExpires(v)) /\ WF_vars(BackoffPasses(v))
FairSpec == Spec /\ Fairness

-----------------------------------------------------------------------------
(* Properties *)

(* Every variable keeps its type. *)
TypeOK ==
  /\ state \in [Version -> RowState]
  /\ attempts \in [Version -> Nat] /\ token \in [Version -> Nat]
  /\ owner \in [Version -> Worker \cup {NoWorker}]
  /\ live \subseteq Version /\ due \subseteq Version
  /\ inbox \subseteq Version /\ head \in Version \cup {0}
  /\ pc \in [Worker -> {"idle", "leased", "failing"}]
  /\ wEvent \in [Worker -> Version] /\ wToken \in [Worker -> Nat]

(* The consumer's effects and the acknowledgement never come apart: a row  *)
(* is DELIVERED exactly when its inbox row exists, and the projection is   *)
(* the newest version received, whatever the order of delivery (Deliver,   *)
(* ClassifyDelivery).                                                      *)
ProjectionIsLatest ==
  /\ inbox = {v \in Version : state[v] = "DELIVERED"}
  /\ head \in inbox \cup {0}
  /\ \A v \in inbox : v <= head

(* A DELIVERED or DEAD event stays so: no stale worker, failure report or  *)
(* claim reopens or kills it (locked, Claim).                              *)
DoneIsFinal == [][\A v \in Version : state[v] \in Done => state'[v] = state[v]]_state

(* Nobody gives up early or late: an event dies only after all its         *)
(* deliveries were attempted, and no event is attempted more often (Claim  *)
(* and Fail share the limit).                                              *)
DeliveryBudget ==
  \A v \in Version :
    /\ attempts[v] <= MaxDeliveries
    /\ token[v] = attempts[v]
    /\ state[v] = "DEAD" => attempts[v] = MaxDeliveries

(* Only a LEASED row carries a lease, and it has an owner. *)
LeaseOnlyWhenLeased ==
  /\ \A v \in live : state[v] = "LEASED"
  /\ \A v \in Version : owner[v] # NoWorker <=> state[v] = "LEASED"

(* The inductive invariant behind the properties: acknowledgements match   *)
(* the inbox, the budget is kept, and every update that leaves LEASED      *)
(* clears lease_owner and lease_until.                                     *)
OInv == TypeOK /\ ProjectionIsLatest /\ DeliveryBudget /\ LeaseOnlyWhenLeased

-----------------------------------------------------------------------------
(* Refinement: the outbox implements Projection *)

Published == {v \in Version : state[v] # "NONE"}
Dead == {v \in Version : state[v] = "DEAD"}

Abstract == INSTANCE Projection WITH
  published <- Published, received <- inbox, abandoned <- Dead, latest <- head

(* The delivery protocol, crashes and retries included, shows its consumer *)
(* only what Projection allows: each version received once or given up,    *)
(* the newest one shown.                                                   *)
ImplementsProjection == Abstract!SafeSpec

(* It also settles each version sooner or later, even if workers crash for *)
(* ever: a claim is counted before the work (Claim), so that a row whose   *)
(* workers always die is declared DEAD by a later claim.                   *)
ImplementsProjectionLive == Abstract!Spec
=============================================================================
