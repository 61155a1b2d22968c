---------------------------- MODULE OutboxProofs ----------------------------
(***************************************************************************)
(* Proofs about the two outboxes, for every value of their constants: the  *)
(* outbox of commercial events, which implements Projection, for any       *)
(* number of workers, versions and deliveries (Outbox); the challenges,    *)
(* authorizations and notifications of verification codes, for any number  *)
(* of events, requests and workers (Verification).                         *)
(***************************************************************************)
EXTENDS Outbox, Verification, TLAPS, FiniteSetTheorems

(* A leaf is first tried with Zenon, briefly, and then with SMT. *)
USE ZenonT(1), SMT

-----------------------------------------------------------------------------
(* Commercial events *)


(* One disjunct per case of Next, with the version it touches named. *)
LEMMA NextCases ==
  ASSUME [Next]_vars
  PROVE  \/ \E v \in Version : AppendEvent(v)
         \/ \E v \in Version : LeaseExpires(v)
         \/ \E v \in Version : BackoffPasses(v)
         \/ \E w \in Worker, v \in Version :
              pc[w] = "idle" /\ Claimable(v) /\ ClaimLease(w, v) /\ UNCHANGED consumerVars
         \/ \E v \in Version : Claimable(v) /\ ClaimDead(v) /\ UNCHANGED consumerVars
         \/ \E w \in Worker : Deliver(w)
         \/ \E w \in Worker :
              Locked(w, wEvent[w]) /\ FailRow(wEvent[w]) /\ TickEnds(w) /\ UNCHANGED consumerVars
         \/ \E w \in Worker :
              (TickEnds(w) \/ GoesFailing(w)) /\ UNCHANGED <<rowVars, consumerVars>>
         \/ UNCHANGED vars
BY DEF Next, WorkerStep, Claim, DeliverFails, Fail, Crash

(* The types of the worker's own variables do not depend on the row. *)
LEMMA WorkerFrame ==
  ASSUME TypeOK, NEW w \in Worker, TickEnds(w) \/ GoesFailing(w)
  PROVE  /\ pc' \in [Worker -> {"idle", "leased", "failing"}]
         /\ wEvent' \in [Worker -> Version]
         /\ wToken' \in [Worker -> Nat]
<1>1. 1 \in Version
  BY OutboxAssumption DEF Version
<1>2. CASE TickEnds(w)
  BY <1>1, <1>2 DEF TypeOK, TickEnds
<1>3. CASE GoesFailing(w)
  BY <1>3 DEF TypeOK, GoesFailing
<1> QED BY <1>2, <1>3

(* The inductive invariant: only LEASED rows hold a lease. *)
THEOREM OutboxInvariance == Spec => []OInv
<1>1. Init => OInv
  BY OutboxAssumption
  DEF Init, OInv, TypeOK, ProjectionIsLatest, DeliveryBudget, LeaseOnlyWhenLeased, Version, RowState
<1>2. OInv /\ [Next]_vars => OInv'
  <2> SUFFICES ASSUME OInv, [Next]_vars PROVE OInv'
    OBVIOUS
  <2> USE OutboxAssumption DEF OInv, RowState
  <2>1. CASE \E v \in Version : AppendEvent(v)
    <3>1. PICK v \in Version : AppendEvent(v)
      BY <2>1
    <3>2. state[v] = "NONE"
      BY <3>1 DEF AppendEvent, Version
    <3>3. TypeOK'
      BY <3>1 DEF AppendEvent, TypeOK, consumerVars, workerVars
    <3>4. ProjectionIsLatest' /\ DeliveryBudget' /\ LeaseOnlyWhenLeased'
      BY <3>1, <3>2
      DEF AppendEvent, TypeOK, ProjectionIsLatest, DeliveryBudget, LeaseOnlyWhenLeased, consumerVars
    <3> QED BY <3>3, <3>4
  <2>2. CASE \E v \in Version : LeaseExpires(v)
    BY <2>2 DEF LeaseExpires, TypeOK, ProjectionIsLatest, DeliveryBudget, LeaseOnlyWhenLeased,
      consumerVars, workerVars
  <2>3. CASE \E v \in Version : BackoffPasses(v)
    BY <2>3 DEF BackoffPasses, TypeOK, ProjectionIsLatest, DeliveryBudget, LeaseOnlyWhenLeased,
      consumerVars, workerVars
  <2>4. CASE \E w \in Worker, v \in Version :
               pc[w] = "idle" /\ Claimable(v) /\ ClaimLease(w, v) /\ UNCHANGED consumerVars
    <3>1. PICK w \in Worker, v \in Version :
                 Claimable(v) /\ ClaimLease(w, v) /\ UNCHANGED consumerVars
      BY <2>4
    <3>2. TypeOK'
      BY <3>1 DEF ClaimLease, TypeOK, consumerVars
    <3>3. ProjectionIsLatest' /\ DeliveryBudget' /\ LeaseOnlyWhenLeased'
      BY <3>1 DEF ClaimLease, Claimable, TypeOK, ProjectionIsLatest, DeliveryBudget,
        LeaseOnlyWhenLeased, consumerVars
    <3> QED BY <3>2, <3>3
  <2>5. CASE \E v \in Version : Claimable(v) /\ ClaimDead(v) /\ UNCHANGED consumerVars
    <3>1. PICK v \in Version : Claimable(v) /\ ClaimDead(v) /\ UNCHANGED consumerVars
      BY <2>5
    <3>2. TypeOK'
      BY <3>1 DEF ClaimDead, TypeOK, consumerVars, workerVars
    <3>3. ProjectionIsLatest' /\ DeliveryBudget' /\ LeaseOnlyWhenLeased'
      BY <3>1 DEF ClaimDead, Claimable, TypeOK, ProjectionIsLatest, DeliveryBudget,
        LeaseOnlyWhenLeased, consumerVars
    <3> QED BY <3>2, <3>3
  <2>6. CASE \E w \in Worker : Deliver(w)
    <3>1. PICK w \in Worker : Deliver(w)
      BY <2>6
    <3>2. TypeOK'
      <4>1. wEvent[w] \in Version
        BY DEF TypeOK
      <4>2. TickEnds(w) \/ GoesFailing(w)
        BY <3>1 DEF Deliver
      <4>3. inbox' \subseteq Version /\ head' \in Version \cup {0}
        BY <3>1, <4>1 DEF Deliver, TypeOK
      <4> QED BY <3>1, <4>1, <4>2, <4>3, WorkerFrame DEF Deliver, TypeOK
    <3>3. ProjectionIsLatest'
      <4> DEFINE v == wEvent[w]
      <4>1. v \in Version /\ v \notin inbox /\ v # 0
        BY <3>1 DEF Deliver, Locked, TypeOK, ProjectionIsLatest, Version
      <4>2. inbox' = {u \in Version : state'[u] = "DELIVERED"}
        BY <3>1, <4>1, ZenonT(10) DEF Deliver, TypeOK, ProjectionIsLatest
      <4>3. head' = IF v > head THEN v ELSE head
        BY <3>1, <4>1 DEF Deliver, ClassifyDelivery, TypeOK, ProjectionIsLatest, Version
      <4>4. inbox' = inbox \cup {v}
        BY <3>1 DEF Deliver
      <4>5. head' \in inbox' \cup {0} /\ \A u \in inbox' : u <= head'
        BY <4>1, <4>3, <4>4 DEF TypeOK, ProjectionIsLatest, Version
      <4> QED BY <4>2, <4>5 DEF ProjectionIsLatest
    <3>4. DeliveryBudget' /\ LeaseOnlyWhenLeased'
      BY <3>1 DEF Deliver, Locked, TypeOK, DeliveryBudget, LeaseOnlyWhenLeased
    <3> QED BY <3>2, <3>3, <3>4
  <2>7. CASE \E w \in Worker :
               Locked(w, wEvent[w]) /\ FailRow(wEvent[w]) /\ TickEnds(w) /\ UNCHANGED consumerVars
    <3>1. PICK w \in Worker :
                 Locked(w, wEvent[w]) /\ FailRow(wEvent[w]) /\ TickEnds(w) /\ UNCHANGED consumerVars
      BY <2>7
    <3>2. wEvent[w] \in Version
      BY DEF TypeOK
    <3>3. TypeOK'
      BY <3>1, <3>2, WorkerFrame DEF FailRow, TypeOK, consumerVars
    <3>4. ProjectionIsLatest' /\ DeliveryBudget' /\ LeaseOnlyWhenLeased'
      BY <3>1, <3>2 DEF FailRow, Locked, TypeOK, ProjectionIsLatest, DeliveryBudget,
        LeaseOnlyWhenLeased, consumerVars
    <3> QED BY <3>3, <3>4
  <2>8. CASE \E w \in Worker :
               (TickEnds(w) \/ GoesFailing(w)) /\ UNCHANGED <<rowVars, consumerVars>>
    BY <2>8, WorkerFrame
    DEF TypeOK, ProjectionIsLatest, DeliveryBudget, LeaseOnlyWhenLeased, rowVars, consumerVars
  <2>9. CASE UNCHANGED vars
    BY <2>9 DEF TypeOK, ProjectionIsLatest, DeliveryBudget, LeaseOnlyWhenLeased, vars, rowVars,
      consumerVars, workerVars
  <2> QED BY <2>1, <2>2, <2>3, <2>4, <2>5, <2>6, <2>7, <2>8, <2>9, NextCases
<1> QED BY <1>1, <1>2, PTL DEF Spec

(* The acknowledged events are those in the inbox, and the projection row  *)
(* is the newest of them (Deliver).                                        *)
THEOREM ProjectionSafe == Spec => []ProjectionIsLatest
BY OutboxInvariance, PTL DEF OInv

(* No event is attempted beyond the limit or dies before it (Claim, Fail). *)
THEOREM BudgetSafe == Spec => []DeliveryBudget
BY OutboxInvariance, PTL DEF OInv

(* DELIVERED and DEAD are final, whoever still holds an old token          *)
(* (locked).                                                               *)
THEOREM DoneSafe == Spec => DoneIsFinal
<1>1. OInv /\ [Next]_vars
        => [\A v \in Version : state[v] \in Done => state'[v] = state[v]]_state
  <2> SUFFICES ASSUME OInv, [Next]_vars, NEW v \in Version, state[v] \in Done
               PROVE  state'[v] = state[v]
    OBVIOUS
  <2> USE DEF OInv, TypeOK, Done
  <2>1. CASE \E u \in Version : AppendEvent(u)
    BY <2>1 DEF AppendEvent, Version
  <2>2. CASE \E u \in Version : LeaseExpires(u)
    BY <2>2 DEF LeaseExpires
  <2>3. CASE \E u \in Version : BackoffPasses(u)
    BY <2>3 DEF BackoffPasses
  <2>4. CASE \E w \in Worker, u \in Version :
               pc[w] = "idle" /\ Claimable(u) /\ ClaimLease(w, u) /\ UNCHANGED consumerVars
    BY <2>4 DEF ClaimLease, Claimable
  <2>5. CASE \E u \in Version : Claimable(u) /\ ClaimDead(u) /\ UNCHANGED consumerVars
    BY <2>5 DEF ClaimDead, Claimable
  <2>6. CASE \E w \in Worker : Deliver(w)
    BY <2>6 DEF Deliver, Locked
  <2>7. CASE \E w \in Worker :
               Locked(w, wEvent[w]) /\ FailRow(wEvent[w]) /\ TickEnds(w) /\ UNCHANGED consumerVars
    BY <2>7 DEF FailRow, Locked
  <2>8. CASE UNCHANGED rowVars
    BY <2>8 DEF rowVars
  <2> QED BY <2>1, <2>2, <2>3, <2>4, <2>5, <2>6, <2>7, <2>8, NextCases DEF vars
<1> QED BY <1>1, OutboxInvariance, PTL DEF Spec, DoneIsFinal

(* Every step of the delivery protocol is a step of Projection or none:    *)
(* only AppendEvent, Deliver and the deaths are seen by the consumer.           *)
THEOREM Refinement == Spec => ImplementsProjection
<1>1. Init => Abstract!Init
  BY DEF Init, Abstract!Init, Published, Dead
<1>2. OInv /\ [Next]_vars => [Abstract!Next]_Abstract!vars
  <2> SUFFICES ASSUME OInv, [Next]_vars
               PROVE  Abstract!Next \/ UNCHANGED Abstract!vars
    OBVIOUS
  <2>0. ASSUME Published' = Published, Dead' = Dead, UNCHANGED consumerVars
        PROVE  UNCHANGED Abstract!vars
    BY <2>0 DEF Abstract!vars, consumerVars
  <2>a. ASSUME NEW u \in Version, Abstract!Publish(u) \/ Abstract!Receive(u) \/ Abstract!Abandon(u)
        PROVE  Abstract!Next
    BY <2>a DEF Abstract!Next
  <2> USE DEF OInv, TypeOK, Published, Dead
  <2>1. CASE \E v \in Version : AppendEvent(v)
    <3>1. PICK v \in Version : AppendEvent(v)
      BY <2>1
    <3>2. Published' = Published \cup {v} /\ Dead' = Dead
      BY <3>1 DEF AppendEvent, Version
    <3>3. \A u \in Published : u < v
      BY <3>1 DEF AppendEvent, Version
    <3>4. Abstract!Publish(v)
      BY <3>1, <3>2, <3>3 DEF Abstract!Publish, AppendEvent, consumerVars
    <3> QED BY <2>a, <3>4
  <2>2. CASE \E v \in Version : LeaseExpires(v)
    BY <2>0, <2>2 DEF LeaseExpires
  <2>3. CASE \E v \in Version : BackoffPasses(v)
    BY <2>0, <2>3 DEF BackoffPasses
  <2>4. CASE \E w \in Worker, v \in Version :
               pc[w] = "idle" /\ Claimable(v) /\ ClaimLease(w, v) /\ UNCHANGED consumerVars
    <3>1. Published' = Published /\ Dead' = Dead
      BY <2>4 DEF ClaimLease, Claimable
    <3> QED BY <2>0, <2>4, <3>1
  <2>5. CASE \E v \in Version : Claimable(v) /\ ClaimDead(v) /\ UNCHANGED consumerVars
    <3>1. PICK v \in Version : Claimable(v) /\ ClaimDead(v) /\ UNCHANGED consumerVars
      BY <2>5
    <3>2. Published' = Published /\ Dead' = Dead \cup {v}
      BY <3>1 DEF ClaimDead, Claimable
    <3>3. Abstract!Open(v)
      BY <3>1 DEF Claimable, Abstract!Open, ProjectionIsLatest
    <3>4. Abstract!Abandon(v)
      BY <3>1, <3>2, <3>3 DEF Abstract!Abandon, consumerVars
    <3> QED BY <2>a, <3>4
  <2>6. CASE \E w \in Worker : Deliver(w)
    <3>1. PICK w \in Worker : Deliver(w)
      BY <2>6
    <3> DEFINE v == wEvent[w]
    <3>2. v \in Version /\ state[v] = "LEASED" /\ v \notin inbox
      BY <3>1 DEF Deliver, Locked, ProjectionIsLatest
    <3>3. Published' = Published /\ Dead' = Dead
      BY <3>1, <3>2 DEF Deliver
    <3>4. Abstract!Open(v)
      BY <3>2 DEF Abstract!Open
    <3>5. head' = IF v > head THEN v ELSE head
      BY <3>1, <3>2, OutboxAssumption DEF Deliver, ClassifyDelivery, ProjectionIsLatest, Version
    <3>6. Abstract!Receive(v)
      BY <3>1, <3>3, <3>4, <3>5 DEF Abstract!Receive, Deliver
    <3> QED BY <2>a, <3>2, <3>6
  <2>7. CASE \E w \in Worker :
               Locked(w, wEvent[w]) /\ FailRow(wEvent[w]) /\ TickEnds(w) /\ UNCHANGED consumerVars
    <3>1. PICK w \in Worker, v \in Version : Locked(w, v) /\ FailRow(v) /\ UNCHANGED consumerVars
      BY <2>7
    <3>2. state[v] = "LEASED" /\ v \notin inbox
      BY <3>1 DEF Locked, ProjectionIsLatest
    <3>3. CASE attempts[v] >= MaxDeliveries
      <4>1. Published' = Published /\ Dead' = Dead \cup {v}
        BY <3>1, <3>2, <3>3 DEF FailRow
      <4>2. Abstract!Open(v)
        BY <3>2 DEF Abstract!Open
      <4>3. Abstract!Abandon(v)
        BY <3>1, <4>1, <4>2 DEF Abstract!Abandon, consumerVars
      <4> QED BY <2>a, <4>3
    <3>4. CASE ~(attempts[v] >= MaxDeliveries)
      <4>1. Published' = Published /\ Dead' = Dead
        BY <3>1, <3>2, <3>4 DEF FailRow
      <4> QED BY <2>0, <3>1, <4>1
    <3> QED BY <3>3, <3>4
  <2>8. CASE UNCHANGED <<rowVars, consumerVars>>
    BY <2>0, <2>8 DEF rowVars
  <2> QED BY <2>1, <2>2, <2>3, <2>4, <2>5, <2>6, <2>7, <2>8, NextCases DEF vars
<1> QED BY <1>1, <1>2, OutboxInvariance, PTL DEF Spec, ImplementsProjection, Abstract!SafeSpec

-----------------------------------------------------------------------------
(* Verification codes *)

(* The rows of the challenges, the authorizations and the notifications.   *)
ChallengeRow == [state : {"none", "open", "consumed"}, attempts : 0..MaxVerificationTries]
AuthorizationRow == [state : {"none", "open", "consumed"}, left : Nat]
OutboxRow == [state : Final \cup {"none", "PENDING", "SENDING", "RETRY_WAIT"},
              attempts : 0..MaxAttempts, owner : Replica \cup {"none"}, left : Nat, sealed : BOOLEAN]
Serving == [pc : {"insert", "verified"}, event : Event]
Delivering == [pc : {"send", "unknown", "delivered", "retry", "failed"}, event : Event]

(* Every row, request and worker has its type.                             *)
CodeType ==
  /\ challenge \in [Event -> ChallengeRow] /\ authorization \in [Event -> AuthorizationRow]
  /\ outbox \in [Event -> OutboxRow] /\ age \in [Event -> Nat]
  /\ client \in [Client -> {Idle} \cup Serving] /\ job \in [Replica -> {Idle} \cup Delivering]
  /\ used \in [Event -> Seq(Event)] /\ idempotent \in BOOLEAN /\ accepted \in [Event -> Nat]

(* A challenge, the authorization it was exchanged for and the time it has *)
(* left, of an age g and with the uses u.                                  *)
CodeOK(c, a, g, u) ==
  /\ c.state = "none" => c.attempts = 0
  /\ c.state = "consumed" => c.attempts < MaxVerificationTries
  /\ c.state = "consumed" <=> a.state # "none"
  /\ a.state = "none" => a.left = 0
  /\ a.state # "consumed" => u = <<>>
  /\ a.state = "open" /\ a.left > 0 => g + a.left < CodeTTL + AuthorizationTTL

(* The notification of a challenge c.                                      *)
NoticeOK(c, o, g) ==
  /\ c.state # "none" => o.state # "none"
  /\ c.state = "consumed" => o.state # "PENDING"
  /\ o.state = "none" => o = NoNotification
  /\ o.state \in {"SENDING", "RETRY_WAIT"} => o.attempts > 0
  /\ o.sealed <=> o.state \in {"PENDING", "SENDING", "RETRY_WAIT"}
  /\ (o.owner # "none") = (o.state = "SENDING")
  /\ o.state = "RETRY_WAIT" /\ o.left > 0 => g + o.left < CodeTTL

(* The rows of every event agree.                                          *)
EventsOK ==
  \A e \in Event : CodeOK(challenge[e], authorization[e], age[e], used[e])
                   /\ NoticeOK(challenge[e], outbox[e], age[e])

(* The worker's call may still be made, or made again.                     *)
MayCall(w, e) == job[w].pc \in {"send", "retry"} /\ job[w].event = e

(* A sender that does not recognise repeats is called by one worker at a   *)
(* time, and by none once it has accepted the message.                     *)
CallsOK ==
  /\ idempotent => \A e \in Event : accepted[e] = 0
  /\ ~idempotent => \A e \in Event :
       /\ accepted[e] <= 1
       /\ outbox[e].state \in {"none", "PENDING", "RETRY_WAIT"} =>
            accepted[e] = 0 /\ \A w \in Replica : ~MayCall(w, e)
       /\ \A v, w \in Replica : MayCall(v, e) /\ MayCall(w, e) => v = w
       /\ \A w \in Replica : MayCall(w, e) => accepted[e] = 0

(* The inductive invariant of the verification codes.                      *)
CInv == CodeType /\ EventsOK /\ CallsOK /\ RateBounded

(* What the policies say of their numbers (VerificationPolicy.Validate,    *)
(* NotificationRetryPolicy.Validate).                                      *)
LEMMA CodeConstants ==
  /\ CodeTTL \in Nat /\ AuthorizationTTL \in Nat /\ ResendInterval \in Nat /\ SendLimitWindow \in Nat
  /\ MaxSendsPerWindow \in Nat /\ MaxSendsPerWindow > 0
  /\ MaxVerificationTries \in Nat /\ MaxAttempts \in Nat /\ Lease \in Nat
  /\ \A n \in 1 .. MaxAttempts - 1 : Backoff[n] \in Nat
  /\ "none" \notin Replica /\ IsFiniteSet(Event) /\ IsFiniteSet(Client)
BY PolicyAssumption

(* The challenges that count against the limits and the requests about to  *)
(* add one, counted.                                                       *)
About == {c \in Client : client[c].pc = "insert"}
Young == {e \in Challenges : age[e] < ResendInterval}
Recent == {e \in Challenges : age[e] <= SendLimitWindow}

(* The counts are numbers, and the requests are no more than all of them.  *)
LEMMA Counted ==
  /\ IsFiniteSet(About) /\ IsFiniteSet(Young) /\ IsFiniteSet(Recent)
  /\ Cardinality(About) \in Nat /\ Cardinality(Young) \in Nat /\ Cardinality(Recent) \in Nat
  /\ Cardinality(Client) \in Nat /\ Cardinality(About) <= Cardinality(Client)
<1>1. About \subseteq Client /\ Young \subseteq Event /\ Recent \subseteq Event
  BY DEF About, Young, Recent, Challenges
<1> HIDE DEF About, Young, Recent
<1> QED BY <1>1, CodeConstants, FS_Subset, FS_CardinalityType

(* The limits while no challenge is added and no request is let through.   *)
LEMMA RateStays ==
  ASSUME RateBounded, About' \subseteq About, Young' \subseteq Young, Recent' \subseteq Recent
  PROVE  RateBounded'
<1>1. /\ Cardinality(Young) > 0 => Cardinality(Young) + Cardinality(About) <= Cardinality(Client)
      /\ Cardinality(Recent) + Cardinality(About) <= MaxSendsPerWindow + Cardinality(Client) - 1
  BY DEF RateBounded, About, Young, Recent
<1>2. /\ Cardinality(About') <= Cardinality(About) /\ Cardinality(About') \in Nat
      /\ Cardinality(Young') <= Cardinality(Young) /\ Cardinality(Young') \in Nat
      /\ Cardinality(Recent') <= Cardinality(Recent) /\ Cardinality(Recent') \in Nat
  BY Counted, FS_Subset, FS_CardinalityType
<1>3. /\ Cardinality(Young') > 0 => Cardinality(Young') + Cardinality(About') <= Cardinality(Client)
      /\ Cardinality(Recent') + Cardinality(About') <= MaxSendsPerWindow + Cardinality(Client) - 1
  <2>1. MaxSendsPerWindow \in Nat
    BY CodeConstants
  <2> QED BY <1>1, <1>2, <2>1, Counted
<1> QED BY <1>3 DEF RateBounded, About, Young, Recent

(* A request is let through: no challenge is young, and the window has     *)
(* room for one.                                                           *)
LEMMA RateLets ==
  ASSUME CodeType, SendAllowed, UNCHANGED <<challenge, age>>
  PROVE  RateBounded'
<1>1. Young' = {} /\ Recent' = Recent /\ Cardinality(Recent) < MaxSendsPerWindow
  BY CodeConstants DEF SendAllowed, Young, Recent, Challenges, CodeType
<1>2. About' \subseteq Client
  BY DEF About
<1>3. Cardinality(About') \in Nat /\ Cardinality(About') <= Cardinality(Client) /\ Cardinality(Young') = 0
  BY <1>1, <1>2, CodeConstants, FS_Subset, FS_CardinalityType, FS_EmptySet
<1>4. /\ Cardinality(Young') > 0 => Cardinality(Young') + Cardinality(About') <= Cardinality(Client)
      /\ Cardinality(Recent') + Cardinality(About') <= MaxSendsPerWindow + Cardinality(Client) - 1
  BY <1>1, <1>3, Counted, CodeConstants
<1> QED BY <1>4 DEF RateBounded, About, Young, Recent

(* A request that was let through adds its challenge.                      *)
LEMMA RateAdds ==
  ASSUME RateBounded, NEW c \in Client, client[c].pc = "insert", NEW e \in Event,
         About' = About \ {c}, Young' \subseteq Young \cup {e}, Recent' \subseteq Recent \cup {e}
  PROVE  RateBounded'
<1>1. /\ Cardinality(Young) > 0 => Cardinality(Young) + Cardinality(About) <= Cardinality(Client)
      /\ Cardinality(Recent) + Cardinality(About) <= MaxSendsPerWindow + Cardinality(Client) - 1
  BY DEF RateBounded, About, Young, Recent
<1>2. Cardinality(About') = Cardinality(About) - 1
  <2>1. c \in About
    BY DEF About
  <2> QED BY <2>1, Counted, FS_RemoveElement
<1>3. ASSUME NEW S, NEW T, IsFiniteSet(S), T \subseteq S \cup {e}
      PROVE  Cardinality(T) \in Nat /\ Cardinality(T) <= Cardinality(S) + 1
  <2>1. IsFiniteSet(S \cup {e}) /\ Cardinality(S \cup {e}) <= Cardinality(S) + 1
    <3>1. Cardinality(S) \in Nat
      BY <1>3, FS_CardinalityType
    <3>2. /\ IsFiniteSet(S \cup {e})
          /\ Cardinality(S \cup {e}) = IF e \in S THEN Cardinality(S) ELSE Cardinality(S) + 1
      BY <1>3, FS_AddElement
    <3> QED BY <3>1, <3>2
  <2>2. IsFiniteSet(T) /\ Cardinality(T) <= Cardinality(S \cup {e})
    BY <1>3, <2>1, FS_Subset
  <2> QED BY <1>3, <2>1, <2>2, FS_CardinalityType
<1>4. /\ Cardinality(Young') \in Nat /\ Cardinality(Young') <= Cardinality(Young) + 1
      /\ Cardinality(Recent') \in Nat /\ Cardinality(Recent') <= Cardinality(Recent) + 1
  BY <1>3, Counted
<1>5. /\ Cardinality(Young') > 0 => Cardinality(Young') + Cardinality(About') <= Cardinality(Client)
      /\ Cardinality(Recent') + Cardinality(About') <= MaxSendsPerWindow + Cardinality(Client) - 1
  <2>1. MaxSendsPerWindow \in Nat
    BY CodeConstants
  <2> QED BY <1>1, <1>2, <1>4, <2>1, Counted
<1> QED BY <1>5 DEF RateBounded, About, Young, Recent

(* The rows of one event at most move.                                     *)
LEMMA EventMoves ==
  ASSUME EventsOK, NEW e \in Event, age' = age,
         \A d \in Event : d # e => /\ challenge'[d] = challenge[d] /\ authorization'[d] = authorization[d]
                                   /\ outbox'[d] = outbox[d] /\ used'[d] = used[d],
         CodeOK(challenge'[e], authorization'[e], age[e], used'[e]),
         NoticeOK(challenge'[e], outbox'[e], age[e])
  PROVE  EventsOK'
BY DEF EventsOK

(* The calls while the workers and the provider stay.                      *)
LEMMA CallsStay ==
  ASSUME CallsOK, UNCHANGED <<job, idempotent, accepted>>,
         \A e \in Event : outbox'[e].state \in {"none", "PENDING", "RETRY_WAIT"} =>
                          outbox[e].state \in {"none", "PENDING", "RETRY_WAIT"}
  PROVE  CallsOK'
BY DEF CallsOK, MayCall

(* What a request or a worker that is not idle has in hand.                *)
LEMMA InHand ==
  ASSUME CodeType
  PROVE  /\ \A c \in Client : client[c].pc \in {"insert", "verified"} => client[c] \in Serving /\ client[c].event \in Event
         /\ \A w \in Replica : job[w].pc # "idle" => job[w] \in Delivering /\ job[w].event \in Event
<1>1. /\ \A c \in Client : client[c] \in {Idle} \cup Serving
      /\ \A w \in Replica : job[w] \in {Idle} \cup Delivering
  BY DEF CodeType
<1> QED BY <1>1 DEF Idle, Serving, Delivering

(* Requests                                                                *)
LEMMA LimitsStep ==
  ASSUME CInv, NEW c \in Client, NEW e \in Event, CheckLimits(c, e), UNCHANGED <<age, job, providerVars>>
  PROVE  CInv'
<1>1. UNCHANGED <<challenge, authorization, outbox, used, age, job, idempotent, accepted>>
  BY DEF CheckLimits, codeRows, providerVars
<1>2. client' \in [Client -> {Idle} \cup Serving]
  BY DEF CInv, CodeType, CheckLimits, Serving
<1>3. CodeType' /\ EventsOK' /\ CallsOK'
  BY <1>1, <1>2, CallsStay DEF CInv, CodeType, EventsOK
<1>4. RateBounded'
  BY <1>1, RateLets DEF CInv, CheckLimits
<1> QED BY <1>3, <1>4 DEF CInv

(* The counts of the limits while the challenges stay and no request is    *)
(* let through.                                                            *)
LEMMA CountsStay ==
  ASSUME CodeType, RateBounded, age' = age,
         \A e \in Event : challenge'[e].state = "none" <=> challenge[e].state = "none",
         EventsOK, EventsOK', CodeType',
         \A c \in Client : client'[c].pc = "insert" => client[c].pc = "insert"
  PROVE  RateBounded'
<1>1. \A e \in Event : (challenge[e] = NoChallenge <=> challenge[e].state = "none")
  BY DEF EventsOK, CodeOK, CodeType, ChallengeRow, NoChallenge
<1>2. \A e \in Event : (challenge'[e] = NoChallenge <=> challenge'[e].state = "none")
  BY DEF EventsOK, CodeOK, CodeType, ChallengeRow, NoChallenge
<1>3. Challenges' = Challenges
  BY <1>1, <1>2 DEF Challenges
<1>4. About' \subseteq About /\ Young' \subseteq Young /\ Recent' \subseteq Recent
  BY <1>3 DEF About, Young, Recent
<1> QED BY <1>4, RateStays

(* New rows are as they should be.                                         *)
LEMMA FreshRows ==
  /\ Pending \in OutboxRow /\ NoNotification \in OutboxRow /\ NoChallenge \in ChallengeRow
  /\ NoAuthorization \in AuthorizationRow /\ Pending.state = "PENDING"
  /\ \A c, g : c.state # "consumed" => NoticeOK(c, Pending, g)
<1>1. MaxAttempts \in Nat /\ MaxVerificationTries \in Nat
  BY CodeConstants
<1>2. NoNotification \in OutboxRow
  BY <1>1 DEF NoNotification, OutboxRow, Final
<1>3. Pending \in OutboxRow /\ Pending.state = "PENDING" /\ Pending.sealed
  BY <1>2 DEF Pending, OutboxRow, Final
<1>4. Pending.owner = "none"
  BY <1>2 DEF Pending, OutboxRow, NoNotification
<1>5. NoChallenge \in ChallengeRow /\ NoAuthorization \in AuthorizationRow
  BY <1>1 DEF NoChallenge, ChallengeRow, NoAuthorization, AuthorizationRow
<1>6. \A c, g : c.state # "consumed" => NoticeOK(c, Pending, g)
  BY <1>3, <1>4 DEF NoticeOK
<1> QED BY <1>2, <1>3, <1>5, <1>6

(* CreateVerificationChallenge inserts the challenge with its notification, *)
(* or finds it there.                                                      *)
LEMMA InsertStep ==
  ASSUME CInv, NEW c \in Client, InsertChallenge(c), UNCHANGED <<age, job, providerVars>>
  PROVE  CInv'
<1> DEFINE e == client[c].event
<1>0. /\ CodeType /\ EventsOK /\ client[c].pc = "insert" /\ e \in Event
      /\ UNCHANGED <<authorization, used, age, job, idempotent, accepted>>
  BY InHand DEF CInv, InsertChallenge, providerVars
<1>1. /\ client' = [client EXCEPT ![c] = Idle] /\ client \in [Client -> {Idle} \cup Serving]
      /\ Idle.pc = "idle"
  BY <1>0 DEF InsertChallenge, CodeType, Idle
<1>2. CASE challenge[e] = NoChallenge /\ outbox[e] = NoNotification
  <2> DEFINE row == [challenge[e] EXCEPT !.state = "open"]
  <2>1. challenge' = [challenge EXCEPT ![e] = row] /\ outbox' = [outbox EXCEPT ![e] = Pending]
    BY <1>2 DEF InsertChallenge
  <2>2. row = [state |-> "open", attempts |-> 0]
    BY <1>2 DEF NoChallenge
  <2>3. row \in ChallengeRow /\ row.state = "open" /\ row.attempts = 0
    <3>1. MaxVerificationTries \in Nat
      BY CodeConstants
    <3> QED BY <2>2, <3>1 DEF ChallengeRow
  <2> HIDE DEF row
  <2>4. challenge \in [Event -> ChallengeRow] /\ outbox \in [Event -> OutboxRow]
    BY <1>0 DEF CodeType
  <2>5. /\ challenge'[e] = row /\ outbox'[e] = Pending
        /\ \A d \in Event : d # e => challenge'[d] = challenge[d] /\ outbox'[d] = outbox[d]
    BY <1>0, <2>1, <2>4
  <2>6. CodeType'
    BY <1>0, <1>1, <2>1, <2>3, <2>4, FreshRows DEF CodeType
  <2>7. CodeOK(row, authorization[e], age[e], used[e])
    <3>1. CodeOK(challenge[e], authorization[e], age[e], used[e]) /\ challenge[e].state = "none"
      BY <1>0, <1>2 DEF EventsOK, NoChallenge
    <3> QED BY <2>3, <3>1 DEF CodeOK
  <2>8. NoticeOK(row, Pending, age[e])
    BY <2>3, FreshRows
  <2>9. EventsOK'
    BY <1>0, <2>5, <2>7, <2>8, EventMoves
  <2>10. CallsOK'
    <3>1. outbox[e].state = "none"
      BY <1>2 DEF NoNotification
    <3> QED BY <1>0, <2>5, <3>1, CallsStay DEF CInv
  <2>11. RateBounded'
    <3>1. About' = About \ {c}
      BY <1>1 DEF About
    <3>2. \A d \in Challenges' : d \in Challenges \cup {e}
      BY <2>5 DEF Challenges
    <3>3. Young' \subseteq Young \cup {e} /\ Recent' \subseteq Recent \cup {e}
      BY <1>0, <3>2 DEF Young, Recent
    <3> QED BY <1>0, <3>1, <3>3, RateAdds DEF CInv
  <2> QED BY <2>6, <2>9, <2>10, <2>11 DEF CInv
<1>3. CASE ~(challenge[e] = NoChallenge /\ outbox[e] = NoNotification)
  <2>1. UNCHANGED <<challenge, outbox>>
    BY <1>3 DEF InsertChallenge
  <2>2. CodeType' /\ EventsOK' /\ CallsOK'
    BY <1>0, <1>1, <2>1, CallsStay DEF CInv, CodeType, EventsOK
  <2>3. RateBounded'
    BY <1>0, <1>1, <2>1, <2>2, CountsStay DEF CInv
  <2> QED BY <2>2, <2>3 DEF CInv
<1> QED BY <1>2, <1>3

(* EnqueueSecurityNotification stores a notification without a challenge.  *)
LEMMA EnqueueStep ==
  ASSUME CInv, NEW e \in Event, EnqueueSecurityNotification(e), UNCHANGED <<age, job, providerVars>>
  PROVE  CInv'
<1>0. /\ CodeType /\ EventsOK /\ outbox[e] = NoNotification /\ outbox \in [Event -> OutboxRow]
      /\ outbox' = [outbox EXCEPT ![e] = Pending]
      /\ UNCHANGED <<challenge, authorization, client, used, age, job, idempotent, accepted>>
  BY DEF CInv, CodeType, EnqueueSecurityNotification, providerVars
<1>1. outbox'[e] = Pending /\ \A d \in Event : d # e => outbox'[d] = outbox[d]
  BY <1>0
<1>2. outbox[e].state = "none"
  BY <1>0 DEF NoNotification
<1>3. CodeType'
  BY <1>0, FreshRows DEF CodeType
<1>4. EventsOK'
  <2>1. challenge[e].state = "none" /\ CodeOK(challenge[e], authorization[e], age[e], used[e])
    BY <1>0, <1>2 DEF EventsOK, NoticeOK
  <2>2. NoticeOK(challenge[e], Pending, age[e])
    BY <2>1, FreshRows
  <2> QED BY <1>0, <1>1, <2>1, <2>2, EventMoves
<1>5. CallsOK'
  BY <1>0, <1>1, <1>2, CallsStay DEF CInv
<1>6. RateBounded'
  BY <1>0, <1>3, <1>4, CountsStay DEF CInv
<1> QED BY <1>3, <1>4, <1>5, <1>6 DEF CInv

(* A request ends.                                                         *)
LEMMA EndStep ==
  ASSUME CInv, NEW c \in Client, EndRequest(c), UNCHANGED <<age, job, providerVars>>
  PROVE  CInv'
<1>1. UNCHANGED <<challenge, authorization, outbox, used, age, job, idempotent, accepted>>
  BY DEF EndRequest, codeRows, providerVars
<1>2. /\ client' \in [Client -> {Idle} \cup Serving]
      /\ \A d \in Client : client'[d].pc = "insert" => client[d].pc = "insert"
  BY DEF CInv, CodeType, EndRequest, Idle
<1>3. CodeType' /\ EventsOK' /\ CallsOK'
  BY <1>1, <1>2, CallsStay DEF CInv, CodeType, EventsOK
<1>4. RateBounded'
  BY <1>1, <1>2, <1>3, CountsStay DEF CInv
<1> QED BY <1>3, <1>4 DEF CInv

(* VerifyChallenge counts a wrong code or exchanges the right one.         *)
LEMMA VerifyStep ==
  ASSUME CInv, NEW c \in Client, NEW e \in Event, VerifyChallenge(c, e), UNCHANGED <<age, job, providerVars>>
  PROVE  CInv'
<1>0. /\ CodeType /\ EventsOK /\ challenge \in [Event -> ChallengeRow] /\ outbox \in [Event -> OutboxRow]
      /\ authorization \in [Event -> AuthorizationRow] /\ client \in [Client -> {Idle} \cup Serving]
      /\ UNCHANGED <<used, age, job, idempotent, accepted>>
      /\ challenge[e].state = "open" /\ age[e] < CodeTTL /\ age[e] \in Nat
      /\ challenge[e].attempts < MaxVerificationTries
  <2>1. CodeType /\ EventsOK
    BY DEF CInv
  <2>2. /\ challenge \in [Event -> ChallengeRow] /\ outbox \in [Event -> OutboxRow]
        /\ authorization \in [Event -> AuthorizationRow] /\ client \in [Client -> {Idle} \cup Serving]
        /\ age[e] \in Nat
    BY <2>1 DEF CodeType
  <2>3. UNCHANGED <<used, age, job, idempotent, accepted>>
    BY DEF VerifyChallenge, providerVars
  <2>4. /\ challenge[e].state = "open" /\ ~(age[e] >= CodeTTL)
        /\ challenge[e].attempts < MaxVerificationTries
    BY DEF VerifyChallenge, Expired
  <2>5. age[e] < CodeTTL
    BY <2>2, <2>4, CodeConstants
  <2> QED BY <2>1, <2>2, <2>3, <2>4, <2>5
<1>1. /\ challenge[e] \in ChallengeRow /\ challenge[e].attempts \in Nat /\ MaxVerificationTries \in Nat
      /\ CodeTTL \in Nat /\ AuthorizationTTL \in Nat
  BY <1>0, CodeConstants DEF ChallengeRow
<1>2. /\ CodeOK(challenge[e], authorization[e], age[e], used[e])
      /\ NoticeOK(challenge[e], outbox[e], age[e])
  BY <1>0 DEF EventsOK
<1>3. CASE /\ challenge' = [challenge EXCEPT ![e].attempts = @ + 1]
           /\ UNCHANGED <<authorization, outbox, client>>
  <2> DEFINE row == [challenge[e] EXCEPT !.attempts = @ + 1]
  <2>1. row.state = "open" /\ row \in ChallengeRow
    BY <1>0, <1>1 DEF ChallengeRow
  <2>2. challenge' = [challenge EXCEPT ![e] = row]
    BY <1>3
  <2> HIDE DEF row
  <2>3. challenge'[e] = row /\ \A d \in Event : d # e => challenge'[d] = challenge[d]
    BY <1>0, <2>2
  <2>4. CodeType'
    BY <1>0, <1>3, <2>1, <2>2 DEF CodeType
  <2>5. CodeOK(row, authorization[e], age[e], used[e]) /\ NoticeOK(row, outbox[e], age[e])
    BY <1>0, <1>2, <2>1 DEF CodeOK, NoticeOK
  <2>6. EventsOK'
    BY <1>0, <1>3, <2>3, <2>5, EventMoves
  <2>7. CallsOK'
    BY <1>0, <1>3, CallsStay DEF CInv
  <2>8. RateBounded'
    BY <1>0, <1>3, <2>1, <2>3, <2>4, <2>6, CountsStay DEF CInv
  <2> QED BY <2>4, <2>6, <2>7, <2>8 DEF CInv
<1>4. CASE /\ challenge' = [challenge EXCEPT ![e].state = "consumed"]
           /\ authorization' = [authorization EXCEPT ![e] = [state |-> "open", left |-> AuthorizationTTL]]
           /\ outbox' = CancelNotification(e)
           /\ client' = [client EXCEPT ![c] = [pc |-> "verified", event |-> e]]
  <2> DEFINE row == [challenge[e] EXCEPT !.state = "consumed"]
             grant == [state |-> "open", left |-> AuthorizationTTL]
             gone == [outbox[e] EXCEPT !.state = "CANCELLED", !.sealed = FALSE]
  <2>1. row.state = "consumed" /\ row.attempts = challenge[e].attempts /\ row \in ChallengeRow
    BY <1>1 DEF ChallengeRow
  <2>2. grant \in AuthorizationRow /\ grant.state = "open" /\ grant.left = AuthorizationTTL
    BY <1>1 DEF AuthorizationRow
  <2>3. outbox[e] \in OutboxRow
    BY <1>0
  <2>4. /\ gone \in OutboxRow /\ gone.state = "CANCELLED" /\ ~gone.sealed
        /\ gone.owner = outbox[e].owner
    BY <2>3 DEF OutboxRow, Final
  <2>5. /\ challenge' = [challenge EXCEPT ![e] = row] /\ authorization' = [authorization EXCEPT ![e] = grant]
        /\ outbox' = IF outbox[e].state \in {"PENDING", "FAILED"} THEN [outbox EXCEPT ![e] = gone] ELSE outbox
    BY <1>4 DEF CancelNotification
  <2>6. [pc |-> "verified", event |-> e] \in Serving /\ [pc |-> "verified", event |-> e].pc = "verified"
    BY DEF Serving
  <2>7. /\ client' \in [Client -> {Idle} \cup Serving]
        /\ \A d \in Client : client'[d].pc = "insert" => client[d].pc = "insert"
    BY <1>0, <1>4, <2>6
  <2> HIDE DEF row, grant, gone
  <2>8. /\ challenge'[e] = row /\ authorization'[e] = grant
        /\ outbox'[e] = IF outbox[e].state \in {"PENDING", "FAILED"} THEN gone ELSE outbox[e]
        /\ \A d \in Event : d # e => /\ challenge'[d] = challenge[d] /\ authorization'[d] = authorization[d]
                                     /\ outbox'[d] = outbox[d]
    BY <1>0, <2>5
  <2>9. CodeType'
    BY <1>0, <2>1, <2>2, <2>4, <2>5, <2>7 DEF CodeType
  <2>10. CodeOK(row, grant, age[e], used[e])
    BY <1>0, <1>1, <1>2, <2>1, <2>2 DEF CodeOK
  <2>11. NoticeOK(row, outbox'[e], age[e])
    BY <1>0, <1>2, <2>1, <2>4, <2>8 DEF NoticeOK
  <2>12. EventsOK'
    BY <1>0, <2>8, <2>10, <2>11, EventMoves
  <2>13. CallsOK'
    BY <1>0, <2>4, <2>8, CallsStay DEF CInv
  <2>14. RateBounded'
    BY <1>0, <2>1, <2>7, <2>8, <2>9, <2>12, CountsStay DEF CInv
  <2> QED BY <2>9, <2>12, <2>13, <2>14 DEF CInv
<1> QED BY <1>3, <1>4 DEF VerifyChallenge

(* Who presents an authorization spends it once.                           *)
LEMMA ConsumeStep ==
  ASSUME CInv, NEW c \in Client, NEW f \in Event, ConsumeOneTimeAuthorization(c, f),
         UNCHANGED <<age, job, providerVars>>
  PROVE  /\ CInv'
         /\ \A d \in Event : used'[d] # used[d] =>
              /\ used[d] = <<>> /\ used'[d] = <<d>>
              /\ challenge[d].attempts < MaxVerificationTries
              /\ age[d] < CodeTTL + AuthorizationTTL
<1> DEFINE e == client[c].event
<1>0. /\ CodeType /\ EventsOK /\ e \in Event /\ authorization \in [Event -> AuthorizationRow]
      /\ used \in [Event -> Seq(Event)]
      /\ UNCHANGED <<challenge, outbox, client, age, job, idempotent, accepted>>
  BY InHand DEF CInv, CodeType, ConsumeOneTimeAuthorization, providerVars
<1>1. CASE f = e /\ authorization[e].state = "open" /\ authorization[e].left > 0
  <2> DEFINE row == [authorization[e] EXCEPT !.state = "consumed"]
  <2>1. authorization' = [authorization EXCEPT ![e] = row] /\ used' = [used EXCEPT ![e] = Append(used[e], e)]
    BY <1>1 DEF ConsumeOneTimeAuthorization
  <2>2. authorization[e] \in AuthorizationRow /\ row \in AuthorizationRow /\ row.state = "consumed"
        /\ row.left = authorization[e].left
    BY <1>0 DEF AuthorizationRow
  <2>3. CodeOK(challenge[e], authorization[e], age[e], used[e]) /\ NoticeOK(challenge[e], outbox[e], age[e])
    BY <1>0 DEF EventsOK
  <2>4. used[e] = <<>> /\ Append(used[e], e) = <<e>> /\ Append(used[e], e) \in Seq(Event)
    <3>1. used[e] = <<>>
      BY <1>1, <2>3 DEF CodeOK
    <3>2. Append(<<>>, e) = <<e>> /\ <<e>> \in Seq(Event)
      BY <1>0
    <3> QED BY <3>1, <3>2, Zenon
  <2> HIDE DEF row
  <2>5. /\ authorization'[e] = row /\ used'[e] = <<e>>
        /\ \A d \in Event : d # e => authorization'[d] = authorization[d] /\ used'[d] = used[d]
    BY <1>0, <2>1, <2>4
  <2>6. CodeType'
    BY <1>0, <2>1, <2>2, <2>4 DEF CodeType
  <2>7. CodeOK(challenge[e], row, age[e], used'[e])
    BY <1>1, <2>2, <2>3 DEF CodeOK
  <2>8. EventsOK'
    BY <1>0, <2>3, <2>5, <2>7, EventMoves
  <2>9. CallsOK' /\ RateBounded'
    BY <1>0, <2>6, <2>8, CallsStay, CountsStay DEF CInv
  <2>10. challenge[e].attempts < MaxVerificationTries /\ age[e] < CodeTTL + AuthorizationTTL
    <3>1. age[e] \in Nat /\ authorization[e].left \in Nat /\ CodeTTL \in Nat /\ AuthorizationTTL \in Nat
      BY <1>0, <2>2, CodeConstants DEF CodeType, AuthorizationRow
    <3>2. challenge[e].state = "consumed"
      BY <1>1, <2>3 DEF CodeOK
    <3>3. age[e] + authorization[e].left < CodeTTL + AuthorizationTTL
      BY <1>1, <2>3 DEF CodeOK
    <3>4. challenge[e].attempts < MaxVerificationTries
      BY <2>3, <3>2 DEF CodeOK
    <3> QED BY <1>1, <3>1, <3>3, <3>4
  <2> QED BY <2>4, <2>5, <2>6, <2>8, <2>9, <2>10 DEF CInv
<1>2. CASE ~(f = e /\ authorization[e].state = "open" /\ authorization[e].left > 0)
  <2>1. UNCHANGED <<authorization, used>>
    BY <1>2 DEF ConsumeOneTimeAuthorization
  <2>2. CodeType' /\ EventsOK'
    BY <1>0, <2>1 DEF CodeType, EventsOK
  <2>3. CallsOK' /\ RateBounded'
    BY <1>0, <2>2, CallsStay, CountsStay DEF CInv
  <2> QED BY <2>1, <2>2, <2>3 DEF CInv
<1> QED BY <1>1, <1>2

(* The worker                                                              *)

(* The worker w writes the row of the notification of e and goes on with   *)
(* next.                                                                   *)
NoticeStep(e, w, row, next) ==
  /\ outbox' = [outbox EXCEPT ![e] = row] /\ job' = [job EXCEPT ![w] = next]
  /\ next = Idle \/ next \in Delivering
  /\ UNCHANGED <<challenge, authorization, age, client, used, idempotent>>
  /\ accepted' \in [Event -> Nat]

(* Such a step keeps the types, the rows' agreement and the limits.        *)
LEMMA NoticeMoves ==
  ASSUME CInv, NEW e \in Event, NEW row \in OutboxRow, NEW w \in Replica, NEW next,
         NoticeOK(challenge[e], row, age[e]), NoticeStep(e, w, row, next)
  PROVE  /\ CodeType' /\ EventsOK' /\ RateBounded'
         /\ outbox'[e] = row /\ \A d \in Event : d # e => outbox'[d] = outbox[d]
         /\ job'[w] = next /\ \A v \in Replica : v # w => job'[v] = job[v]
<1>0. /\ CodeType /\ EventsOK /\ outbox \in [Event -> OutboxRow] /\ job \in [Replica -> {Idle} \cup Delivering]
      /\ outbox' = [outbox EXCEPT ![e] = row] /\ job' = [job EXCEPT ![w] = next]
      /\ next \in {Idle} \cup Delivering
      /\ UNCHANGED <<challenge, authorization, age, client, used, idempotent>>
      /\ accepted' \in [Event -> Nat]
  BY DEF CInv, CodeType, NoticeStep
<1>1. /\ outbox'[e] = row /\ \A d \in Event : d # e => outbox'[d] = outbox[d]
      /\ job'[w] = next /\ \A v \in Replica : v # w => job'[v] = job[v]
  BY <1>0
<1>2. CodeType'
  BY <1>0 DEF CodeType
<1>3. EventsOK'
  <2>1. CodeOK(challenge[e], authorization[e], age[e], used[e])
    BY <1>0 DEF EventsOK
  <2> QED BY <1>0, <1>1, <2>1, EventMoves
<1>4. RateBounded'
  BY <1>0, <1>2, <1>3, CountsStay DEF CInv
<1> QED BY <1>1, <1>2, <1>3, <1>4

(* A row that is finalised, with or without a delivery.                   *)
LEMMA Finalized ==
  ASSUME NEW row \in OutboxRow, NEW c, NEW g
  PROVE  /\ Finalize(row) \in OutboxRow /\ Finalize(row).state = "MANUAL_REVIEW"
         /\ NoticeOK(c, Finalize(row), g)
         /\ [Finalize(row) EXCEPT !.state = "DELIVERED"] \in OutboxRow
         /\ [Finalize(row) EXCEPT !.state = "DELIVERED"].state = "DELIVERED"
         /\ NoticeOK(c, [Finalize(row) EXCEPT !.state = "DELIVERED"], g)
<1>1. /\ Finalize(row) \in OutboxRow /\ Finalize(row).state = "MANUAL_REVIEW" /\ ~Finalize(row).sealed
      /\ Finalize(row).owner = "none"
  BY DEF Finalize, OutboxRow, Final
<1> DEFINE end == [Finalize(row) EXCEPT !.state = "DELIVERED"]
<1>2. /\ end \in OutboxRow /\ end.state = "DELIVERED" /\ ~end.sealed /\ end.owner = "none"
  BY <1>1 DEF OutboxRow, Final
<1> HIDE DEF end
<1>3. NoticeOK(c, end, g) /\ NoticeOK(c, Finalize(row), g)
  BY <1>1, <1>2 DEF NoticeOK
<1> QED BY <1>1, <1>2, <1>3 DEF end

(* The calls after a row was settled and no call was added.                *)
LEMMA CallsEnd ==
  ASSUME CInv, NEW e \in Event, NEW w \in Replica, UNCHANGED <<idempotent, accepted>>,
         \A d \in Event : d # e => outbox'[d] = outbox[d],
         \/ outbox'[e].state \notin {"none", "PENDING", "RETRY_WAIT"}
         \/ outbox'[e] = outbox[e]
         \/ MayCall(w, e),
         \A v \in Replica : v # w => job'[v] = job[v],
         job'[w].pc \notin {"send", "retry"}
  PROVE  CallsOK'
<1>1. \A v \in Replica, d \in Event : MayCall(v, d)' => MayCall(v, d)
  BY DEF MayCall
<1>2. ASSUME MayCall(w, e), ~idempotent
      PROVE  accepted[e] = 0 /\ \A v \in Replica : ~MayCall(v, e)'
  BY <1>1, <1>2 DEF CInv, CallsOK, MayCall
<1> QED BY <1>1, <1>2 DEF CInv, CallsOK

(* ClaimNextSecurityNotification gives the row to the worker or finalises  *)
(* it.                                                                     *)
LEMMA ClaimStep ==
  ASSUME CInv, NEW w \in Replica, NEW e \in Event, ClaimNextSecurityNotification(w, e),
         UNCHANGED <<challenge, authorization, age, client, used, idempotent>>
  PROVE  CInv'
<1> DEFINE row == outbox[e]
<1>0. /\ CodeType /\ EventsOK /\ row \in OutboxRow /\ job[w] = Idle /\ job[w].pc = "idle"
      /\ UNCHANGED accepted /\ accepted' \in [Event -> Nat] /\ row.state \in {"PENDING", "RETRY_WAIT", "SENDING"}
      /\ NoticeOK(challenge[e], row, age[e]) /\ job \in [Replica -> {Idle} \cup Delivering]
  BY DEF CInv, CodeType, EventsOK, ClaimNextSecurityNotification, Due, Idle
<1>1. CASE Expired(e) \/ row.attempts >= MaxAttempts
  <2>1. outbox' = [outbox EXCEPT ![e] = Finalize(row)] /\ job' = [job EXCEPT ![w] = Idle]
    BY <1>0, <1>1 DEF ClaimNextSecurityNotification, Row
  <2>2. /\ Finalize(row) \in OutboxRow /\ Finalize(row).state = "MANUAL_REVIEW"
        /\ NoticeOK(challenge[e], Finalize(row), age[e])
    BY <1>0, Finalized
  <2>3. /\ CodeType' /\ EventsOK' /\ RateBounded' /\ outbox'[e] = Finalize(row)
        /\ \A d \in Event : d # e => outbox'[d] = outbox[d]
        /\ job'[w] = Idle /\ \A v \in Replica : v # w => job'[v] = job[v]
    <3>1. NoticeStep(e, w, Finalize(row), Idle)
      BY <1>0, <2>1 DEF NoticeStep
    <3> QED BY <1>0, <2>2, <3>1, NoticeMoves, ZenonT(10)
  <2>4. CallsOK'
    BY <1>0, <2>2, <2>3, CallsEnd DEF Idle
  <2> QED BY <2>3, <2>4 DEF CInv
<1>2. CASE ~(Expired(e) \/ row.attempts >= MaxAttempts)
  <2> DEFINE new == [row EXCEPT !.state = "SENDING", !.attempts = @ + 1, !.owner = w, !.left = Lease]
             next == [pc |-> IF row.state = "SENDING" /\ ~idempotent THEN "unknown" ELSE "send", event |-> e]
  <2>1. outbox' = [outbox EXCEPT ![e] = new] /\ job' = [job EXCEPT ![w] = next]
    BY <1>2 DEF ClaimNextSecurityNotification, Row
  <2>2. Lease \in Nat /\ MaxAttempts \in Nat /\ row.attempts \in 0..MaxAttempts /\ "none" \notin Replica
    BY <1>0, CodeConstants DEF OutboxRow
  <2>3. \A n \in 0..MaxAttempts : [row EXCEPT !.state = "SENDING", !.attempts = n, !.owner = w, !.left = Lease]
                                    \in OutboxRow
    BY <1>0, <2>2 DEF OutboxRow, Final
  <2>4. row.attempts + 1 \in 0..MaxAttempts
    BY <1>2, <2>2
  <2>5. new \in OutboxRow
    BY <2>3, <2>4, Zenon
  <2>6. new.state = "SENDING" /\ new.attempts = row.attempts + 1 /\ new.owner = w /\ new.sealed = row.sealed
    BY <1>0 DEF OutboxRow
  <2>7. /\ next \in Delivering /\ next.event = e
        /\ next.pc = IF row.state = "SENDING" /\ ~idempotent THEN "unknown" ELSE "send"
    BY DEF Delivering
  <2> HIDE DEF new, next, row
  <2>8. NoticeOK(challenge[e], new, age[e])
    BY <1>0, <2>2, <2>6 DEF NoticeOK, row
  <2>9. /\ CodeType' /\ EventsOK' /\ RateBounded' /\ outbox'[e] = new
        /\ \A d \in Event : d # e => outbox'[d] = outbox[d]
        /\ job'[w] = next /\ \A v \in Replica : v # w => job'[v] = job[v]
    <3>1. NoticeStep(e, w, new, next)
      BY <1>0, <2>1, <2>7 DEF NoticeStep
    <3> QED BY <2>5, <2>8, <3>1, NoticeMoves
  <2>10. CallsOK'
    <3>1. CASE idempotent
      BY <1>0, <3>1 DEF CInv, CallsOK
    <3>2. CASE ~idempotent /\ row.state = "SENDING"
      BY <1>0, <2>6, <2>7, <2>9, <3>2, CallsEnd
    <3>3. CASE ~idempotent /\ row.state # "SENDING"
      <4>1. accepted[e] = 0 /\ \A v \in Replica : ~MayCall(v, e)
        BY <1>0, <3>3 DEF CInv, CallsOK, row
      <4>2. \A v \in Replica, d \in Event : MayCall(v, d)' => MayCall(v, d) \/ (v = w /\ d = e)
        BY <2>7, <2>9 DEF MayCall
      <4> QED BY <1>0, <2>6, <2>9, <3>3, <4>1, <4>2 DEF CInv, CallsOK
    <3> QED BY <3>1, <3>2, <3>3
  <2> QED BY <2>9, <2>10 DEF CInv
<1> QED BY <1>1, <1>2

(* The provider is called and answers, or its answer is lost.              *)
LEMMA SendStep ==
  ASSUME CInv, NEW w \in Replica, SendSecurityNotification(w),
         UNCHANGED <<challenge, authorization, age, client, used, idempotent>>
  PROVE  CInv'
<1>e. PICK e \in Event : job[w].event = e
  BY InHand DEF CInv, SendSecurityNotification
<1>0. /\ CodeType /\ EventsOK /\ job[w].pc = "send" /\ outbox' = outbox
      /\ accepted \in [Event -> Nat] /\ job \in [Replica -> {Idle} \cup Delivering] /\ idempotent \in BOOLEAN
  BY DEF CInv, CodeType, SendSecurityNotification
<1>1. PICK taken \in BOOLEAN, answer \in {"delivered", "retry", "failed"} :
        /\ answer # "delivered" => \E known, retryable \in BOOLEAN :
             (known => ~taken) /\ (answer = "retry") = Retryable(known, retryable)
        /\ accepted' = [accepted EXCEPT ![e] = IF taken /\ ~idempotent THEN @ + 1 ELSE @]
        /\ job' = [job EXCEPT ![w] = [pc |-> answer, event |-> e]]
  BY <1>e DEF SendSecurityNotification
<1>2. answer = "retry" /\ ~idempotent => ~taken
  BY <1>1 DEF Retryable
<1> DEFINE next == [pc |-> answer, event |-> e]
<1>3. next \in Delivering /\ next.pc = answer /\ next.event = e
  BY <1>0 DEF Delivering
<1>4. /\ accepted' \in [Event -> Nat] /\ accepted'[e] = IF taken /\ ~idempotent THEN accepted[e] + 1 ELSE accepted[e]
      /\ \A d \in Event : d # e => accepted'[d] = accepted[d]
  BY <1>0, <1>1
<1>5. job' = [job EXCEPT ![w] = next]
  BY <1>1
<1> HIDE DEF next
<1>6. job'[w] = next /\ \A v \in Replica : v # w => job'[v] = job[v]
  BY <1>0, <1>5
<1>7. job' \in [Replica -> {Idle} \cup Delivering]
  BY <1>0, <1>3, <1>5
<1>8. CodeType' /\ EventsOK'
  BY <1>0, <1>4, <1>7 DEF CodeType, EventsOK
<1>9. RateBounded'
  BY <1>0, <1>8, CountsStay DEF CInv
<1>10. CallsOK'
  <2>1. CASE idempotent
    BY <1>0, <1>4, <2>1 DEF CInv, CallsOK
  <2>2. CASE ~idempotent
    <3>1. MayCall(w, e)
      BY <1>e, <1>0 DEF MayCall
    <3>2. /\ accepted[e] = 0 /\ outbox[e].state \notin {"none", "PENDING", "RETRY_WAIT"}
          /\ \A v \in Replica : MayCall(v, e) => v = w
      BY <1>0, <2>2, <3>1 DEF CInv, CallsOK
    <3>3. \A v \in Replica, d \in Event : MayCall(v, d)' => MayCall(v, d) /\ (v = w => answer = "retry")
      BY <1>e, <1>0, <1>3, <1>6 DEF MayCall
    <3>4. accepted'[e] <= 1 /\ \A v \in Replica : MayCall(v, e)' => accepted'[e] = 0
      BY <1>0, <1>2, <1>4, <2>2, <3>2, <3>3
    <3> QED BY <1>0, <1>4, <2>2, <3>2, <3>3, <3>4 DEF CInv, CallsOK
  <2> QED BY <2>1, <2>2
<1> QED BY <1>8, <1>9, <1>10 DEF CInv

(* CompleteReliableSecurityNotification finalises the row of a current     *)
(* claim.                                                                  *)
LEMMA CompleteStep ==
  ASSUME CInv, NEW w \in Replica, CompleteReliableSecurityNotification(w),
         UNCHANGED <<challenge, authorization, age, client, used, idempotent>>
  PROVE  CInv'
<1>e. PICK e \in Event : job[w].event = e
  BY InHand DEF CInv, CompleteReliableSecurityNotification
<1> DEFINE done == [Finalize(outbox[e]) EXCEPT !.state = "DELIVERED"]
           row == IF Current(w) THEN done ELSE outbox[e]
<1>0. /\ CodeType /\ EventsOK /\ job[w].pc = "delivered" /\ accepted' = accepted
      /\ outbox \in [Event -> OutboxRow] /\ outbox[e] \in OutboxRow /\ accepted' \in [Event -> Nat]
      /\ NoticeOK(challenge[e], outbox[e], age[e]) /\ job' = [job EXCEPT ![w] = Idle]
  BY DEF CInv, CodeType, EventsOK, CompleteReliableSecurityNotification, Ends
<1>1. outbox' = [outbox EXCEPT ![e] = row]
  BY <1>e, <1>0 DEF CompleteReliableSecurityNotification, Row
<1>2. done \in OutboxRow /\ done.state = "DELIVERED" /\ NoticeOK(challenge[e], done, age[e])
  BY <1>0, Finalized
<1> HIDE DEF done
<1>3. row \in OutboxRow /\ (row.state = "DELIVERED" \/ row = outbox[e]) /\ NoticeOK(challenge[e], row, age[e])
  BY <1>0, <1>2
<1> HIDE DEF row
<1>4. /\ CodeType' /\ EventsOK' /\ RateBounded' /\ outbox'[e] = row
      /\ \A d \in Event : d # e => outbox'[d] = outbox[d]
      /\ job'[w] = Idle /\ \A v \in Replica : v # w => job'[v] = job[v]
  <2>1. NoticeStep(e, w, row, Idle)
    BY <1>0, <1>1 DEF NoticeStep
  <2> QED BY <1>3, <2>1, NoticeMoves
<1>5. CallsOK'
  <2>1. UNCHANGED <<idempotent, accepted>> /\ job'[w].pc \notin {"send", "retry"}
    BY <1>0, <1>4 DEF Idle
  <2>2. outbox'[e].state \notin {"none", "PENDING", "RETRY_WAIT"} \/ outbox'[e] = outbox[e]
    BY <1>3, <1>4
  <2> QED BY <1>4, <2>1, <2>2, CallsEnd
<1> QED BY <1>4, <1>5 DEF CInv

(* FailReliableSecurityNotification lets the row wait for a retry or       *)
(* finalises it.                                                           *)
LEMMA FailStep ==
  ASSUME CInv, NEW w \in Replica, FailReliableSecurityNotification(w),
         UNCHANGED <<challenge, authorization, age, client, used, idempotent>>
  PROVE  CInv'
<1>e. PICK e \in Event : job[w].event = e
  BY InHand DEF CInv, FailReliableSecurityNotification
<1> DEFINE old == outbox[e]
           wait == [old EXCEPT !.state = "RETRY_WAIT", !.owner = "none", !.left = Backoff[old.attempts]]
<1>0. /\ CodeType /\ EventsOK /\ job[w].pc \in {"unknown", "retry", "failed"} /\ accepted' = accepted
      /\ outbox \in [Event -> OutboxRow] /\ old \in OutboxRow /\ accepted' \in [Event -> Nat]
      /\ NoticeOK(challenge[e], old, age[e]) /\ job' = [job EXCEPT ![w] = Idle]
  BY DEF CInv, CodeType, EventsOK, FailReliableSecurityNotification, Ends
<1>1. ASSUME NEW row \in OutboxRow, outbox' = [outbox EXCEPT ![e] = row],
             NoticeOK(challenge[e], row, age[e]),
             \/ row.state = "MANUAL_REVIEW" \/ row = old
             \/ row.state = "RETRY_WAIT" /\ MayCall(w, e)
      PROVE  CInv'
  <2>1. /\ CodeType' /\ EventsOK' /\ RateBounded' /\ outbox'[e] = row
        /\ \A d \in Event : d # e => outbox'[d] = outbox[d]
        /\ job'[w] = Idle /\ \A v \in Replica : v # w => job'[v] = job[v]
    <3>1. NoticeStep(e, w, row, Idle)
      BY <1>0, <1>1 DEF NoticeStep
    <3>2. row \in OutboxRow /\ NoticeOK(challenge[e], row, age[e])
      BY <1>1
    <3> QED BY <3>1, <3>2, NoticeMoves
  <2>2. CallsOK'
    <3>1. UNCHANGED <<idempotent, accepted>> /\ job'[w].pc \notin {"send", "retry"}
      BY <1>0, <2>1 DEF Idle
    <3>2. \/ outbox'[e].state \notin {"none", "PENDING", "RETRY_WAIT"}
          \/ outbox'[e] = outbox[e] \/ MayCall(w, e)
      BY <1>1, <2>1
    <3> QED BY <2>1, <3>1, <3>2, CallsEnd
  <2> QED BY <2>1, <2>2 DEF CInv
<1>2. CASE ~Current(w)
  BY <1>0, <1>1, <1>2 DEF FailReliableSecurityNotification
<1>3. CASE Current(w) /\ job[w].pc = "retry" /\ RetryInTime(e, old)
  <2>1. outbox' = [outbox EXCEPT ![e] = wait]
    BY <1>e, <1>3 DEF FailReliableSecurityNotification, Row
  <2>2. /\ old.state = "SENDING" /\ old.attempts > 0 /\ old.attempts < MaxAttempts /\ old.attempts \in Nat
        /\ MaxAttempts \in Nat
    <3>1. old.state = "SENDING" /\ old.attempts < MaxAttempts
      BY <1>e, <1>3 DEF Current, RetryInTime
    <3>2. old.attempts > 0
      BY <1>0, <3>1 DEF NoticeOK
    <3>3. MaxAttempts \in Nat /\ old.attempts \in 0..MaxAttempts
      BY <1>0, CodeConstants DEF OutboxRow
    <3> QED BY <3>1, <3>2, <3>3
  <2>3. Backoff[old.attempts] \in Nat
    BY <2>2, CodeConstants
  <2>4. wait \in OutboxRow
    <3>1. \A n \in Nat : [old EXCEPT !.state = "RETRY_WAIT", !.owner = "none", !.left = n] \in OutboxRow
      BY <1>0 DEF OutboxRow, Final
    <3> QED BY <2>3, <3>1, Zenon
  <2>5. /\ wait.state = "RETRY_WAIT" /\ wait.owner = "none" /\ wait.left = Backoff[old.attempts]
        /\ wait.attempts = old.attempts /\ wait.sealed = old.sealed
    BY <1>0 DEF OutboxRow
  <2>6. age[e] + Backoff[old.attempts] < CodeTTL
    <3>1. age[e] \in Nat /\ CodeTTL \in Nat
      BY <1>0, CodeConstants DEF CodeType
    <3> QED BY <1>3, <2>3, <3>1 DEF RetryInTime
  <2> HIDE DEF wait
  <2>7. NoticeOK(challenge[e], wait, age[e])
    BY <1>0, <2>2, <2>5, <2>6 DEF NoticeOK
  <2> QED BY <1>e, <1>1, <1>3, <2>1, <2>4, <2>5, <2>7 DEF MayCall
<1>4. CASE Current(w) /\ ~(job[w].pc = "retry" /\ RetryInTime(e, old))
  <2>1. outbox' = [outbox EXCEPT ![e] = Finalize(old)]
    BY <1>e, <1>4 DEF FailReliableSecurityNotification, Row
  <2>2. /\ Finalize(old) \in OutboxRow /\ Finalize(old).state = "MANUAL_REVIEW"
        /\ NoticeOK(challenge[e], Finalize(old), age[e])
    BY <1>0, Finalized
  <2> QED BY <1>1, <2>1, <2>2
<1> QED BY <1>2, <1>3, <1>4

(* A worker dies.                                                          *)
LEMMA AbandonStep ==
  ASSUME CInv, NEW w \in Replica, Abandon(w)
  PROVE  CInv'
<1>0. /\ CodeType /\ EventsOK /\ job' = [job EXCEPT ![w] = Idle] /\ job \in [Replica -> {Idle} \cup Delivering]
      /\ UNCHANGED <<challenge, authorization, outbox, age, client, used, idempotent, accepted>>
  BY DEF CInv, CodeType, Abandon, Ends, codeRows, providerVars
<1>1. job' \in [Replica -> {Idle} \cup Delivering] /\ job'[w] = Idle /\ \A v \in Replica : v # w => job'[v] = job[v]
  BY <1>0
<1>2. CodeType' /\ EventsOK'
  BY <1>0, <1>1 DEF CodeType, EventsOK
<1>3. \A v \in Replica, d \in Event : MayCall(v, d)' => MayCall(v, d)
  <2>1. Idle.pc = "idle"
    BY DEF Idle
  <2> QED BY <1>1, <2>1 DEF MayCall
<1>4. CallsOK'
  BY <1>0, <1>3 DEF CInv, CallsOK
<1>5. RateBounded'
  BY <1>0, <1>2, CountsStay DEF CInv
<1> QED BY <1>2, <1>4, <1>5 DEF CInv

(* Time passes: ages grow and what is left shrinks by as much.             *)
LEMMA TickStep ==
  ASSUME CInv, Tick
  PROVE  CInv'
<1>0. /\ CodeType /\ EventsOK /\ UNCHANGED <<challenge, client, job, used, idempotent, accepted>>
      /\ \A c \in Client : client[c].pc # "insert"
      /\ age' = [e \in Event |-> IF outbox[e] # NoNotification /\ age[e] < Oldest THEN age[e] + 1 ELSE age[e]]
      /\ authorization' = [e \in Event |-> [authorization[e] EXCEPT !.left = Less(@)]]
      /\ outbox' = [e \in Event |-> [outbox[e] EXCEPT !.left = Less(@)]]
  BY DEF CInv, Tick, providerVars
<1>1. \A e \in Event : /\ age[e] \in Nat /\ authorization[e] \in AuthorizationRow /\ outbox[e] \in OutboxRow
                       /\ authorization[e].left \in Nat /\ outbox[e].left \in Nat
  BY <1>0 DEF CodeType, AuthorizationRow, OutboxRow
<1>2. \A n \in Nat : Less(n) \in Nat /\ Less(n) <= n /\ (Less(n) > 0 => Less(n) + 1 = n)
  BY DEF Less
<1>3. ASSUME NEW e \in Event
      PROVE  /\ age'[e] \in Nat /\ age[e] <= age'[e] /\ age'[e] <= age[e] + 1
  BY <1>0, <1>1
<1>4. ASSUME NEW e \in Event
      PROVE  /\ authorization'[e] \in AuthorizationRow /\ authorization'[e].state = authorization[e].state
             /\ authorization'[e].left = Less(authorization[e].left)
  <2>1. authorization'[e] = [authorization[e] EXCEPT !.left = Less(authorization[e].left)]
    BY <1>0
  <2>2. Less(authorization[e].left) \in Nat
    BY <1>1, <1>2
  <2> QED BY <1>1, <2>1, <2>2 DEF AuthorizationRow
<1>5. ASSUME NEW e \in Event
      PROVE  /\ outbox'[e] \in OutboxRow /\ outbox'[e].state = outbox[e].state
             /\ outbox'[e].left = Less(outbox[e].left) /\ outbox'[e].attempts = outbox[e].attempts
             /\ outbox'[e].owner = outbox[e].owner /\ outbox'[e].sealed = outbox[e].sealed
  <2>1. outbox'[e] = [outbox[e] EXCEPT !.left = Less(outbox[e].left)]
    BY <1>0
  <2>2. Less(outbox[e].left) \in Nat
    BY <1>1, <1>2
  <2>3. \A o \in OutboxRow, n \in Nat :
          /\ [o EXCEPT !.left = n] \in OutboxRow /\ [o EXCEPT !.left = n].state = o.state
          /\ [o EXCEPT !.left = n].left = n /\ [o EXCEPT !.left = n].attempts = o.attempts
          /\ [o EXCEPT !.left = n].owner = o.owner /\ [o EXCEPT !.left = n].sealed = o.sealed
    BY DEF OutboxRow
  <2> QED BY <1>1, <2>1, <2>2, <2>3
<1>6. CodeType'
  <2>1. /\ age' \in [Event -> Nat] /\ DOMAIN authorization' = Event /\ DOMAIN outbox' = Event
    BY <1>0, <1>3
  <2>2. authorization' \in [Event -> AuthorizationRow] /\ outbox' \in [Event -> OutboxRow]
    BY <1>0, <1>4, <1>5
  <2> QED BY <1>0, <2>1, <2>2 DEF CodeType
<1>7. EventsOK'
  <2> SUFFICES ASSUME NEW e \in Event
               PROVE  /\ CodeOK(challenge[e], authorization'[e], age'[e], used[e])
                      /\ NoticeOK(challenge[e], outbox'[e], age'[e])
    BY <1>0 DEF EventsOK
  <2>1. /\ CodeOK(challenge[e], authorization[e], age[e], used[e])
        /\ NoticeOK(challenge[e], outbox[e], age[e])
    BY <1>0 DEF EventsOK
  <2>2. CodeTTL \in Nat /\ AuthorizationTTL \in Nat
    BY CodeConstants
  <2>3. CodeOK(challenge[e], authorization'[e], age'[e], used[e])
    <3>1. ASSUME authorization'[e].state = "open", authorization'[e].left > 0
          PROVE  age'[e] + authorization'[e].left < CodeTTL + AuthorizationTTL
      <4>1. /\ age[e] \in Nat /\ age'[e] \in Nat /\ age'[e] <= age[e] + 1
            /\ authorization[e].left \in Nat /\ authorization'[e].left \in Nat
            /\ authorization'[e].left + 1 = authorization[e].left
        BY <1>1, <1>2, <1>3, <1>4, <3>1
      <4>2. age[e] + authorization[e].left < CodeTTL + AuthorizationTTL
        BY <1>4, <2>1, <3>1, <4>1 DEF CodeOK
      <4> QED BY <2>2, <4>1, <4>2
    <3>2. authorization'[e].state = "none" => authorization'[e].left = 0
      BY <1>4, <2>1 DEF CodeOK, Less
    <3> QED BY <1>4, <2>1, <3>1, <3>2 DEF CodeOK
  <2>4. outbox'[e].state = "none" => outbox'[e] = NoNotification
    <3> SUFFICES ASSUME outbox[e].state = "none" PROVE outbox'[e] = NoNotification
      BY <1>5
    <3>1. outbox[e] = NoNotification /\ NoNotification.left = 0 /\ NoNotification \in OutboxRow
      BY <2>1, FreshRows DEF NoticeOK, NoNotification
    <3>2. outbox'[e] = [NoNotification EXCEPT !.left = 0]
      BY <1>0, <3>1 DEF Less
    <3> QED BY <3>1, <3>2 DEF OutboxRow
  <2>5. outbox'[e].state = "RETRY_WAIT" /\ outbox'[e].left > 0 => age'[e] + outbox'[e].left < CodeTTL
    <3> SUFFICES ASSUME outbox'[e].state = "RETRY_WAIT", outbox'[e].left > 0
                 PROVE  age'[e] + outbox'[e].left < CodeTTL
      OBVIOUS
    <3>1. /\ age[e] \in Nat /\ age'[e] \in Nat /\ age'[e] <= age[e] + 1
          /\ outbox[e].left \in Nat /\ outbox'[e].left \in Nat
          /\ outbox'[e].left + 1 = outbox[e].left
      BY <1>1, <1>2, <1>3, <1>5
    <3>2. age[e] + outbox[e].left < CodeTTL
      BY <1>5, <2>1, <3>1 DEF NoticeOK
    <3> QED BY <2>2, <3>1, <3>2
  <2>6. NoticeOK(challenge[e], outbox'[e], age'[e])
    BY <1>5, <2>1, <2>4, <2>5 DEF NoticeOK
  <2> QED BY <2>3, <2>6
<1>8. CallsOK'
  BY <1>0, <1>5, CallsStay DEF CInv
<1>9. RateBounded'
  <2>1. Challenges' = Challenges /\ About' \subseteq About
    BY <1>0 DEF Challenges, About
  <2>2. ResendInterval \in Nat /\ SendLimitWindow \in Nat /\ Challenges \subseteq Event
    BY CodeConstants DEF Challenges
  <2>3. Young' \subseteq Young /\ Recent' \subseteq Recent
    BY <1>1, <1>3, <2>1, <2>2 DEF Young, Recent
  <2> QED BY <2>1, <2>3, RateStays DEF CInv
<1> QED BY <1>6, <1>7, <1>8, <1>9 DEF CInv

(* The empty tables.                                                       *)
LEMMA CodesInit == CodeInit => CInv
<1> SUFFICES ASSUME CodeInit PROVE CInv
  OBVIOUS
<1>1. CodeType
  <2>1. <<>> \in Seq(Event)
    OBVIOUS
  <2> QED BY <2>1, FreshRows DEF CodeInit, CodeType
<1>2. EventsOK
  <2>1. \A g : NoticeOK(NoChallenge, NoNotification, g) /\ CodeOK(NoChallenge, NoAuthorization, g, <<>>)
    BY DEF NoticeOK, CodeOK, NoChallenge, NoNotification, NoAuthorization
  <2> QED BY <2>1 DEF CodeInit, EventsOK
<1>3. CallsOK
  BY DEF CodeInit, CallsOK, MayCall, Idle
<1>4. RateBounded
  <2>1. About = {} /\ Young = {} /\ Recent = {}
    BY DEF CodeInit, About, Young, Recent, Challenges, Idle
  <2>2. Cardinality(About) = 0 /\ Cardinality(Young) = 0 /\ Cardinality(Recent) = 0
    BY <2>1, FS_EmptySet
  <2>3. MaxSendsPerWindow \in Nat /\ MaxSendsPerWindow > 0
    BY CodeConstants
  <2>4. /\ Cardinality(Young) > 0 => Cardinality(Young) + Cardinality(About) <= Cardinality(Client)
        /\ Cardinality(Recent) + Cardinality(About) <= MaxSendsPerWindow + Cardinality(Client) - 1
    BY <2>2, <2>3, Counted
  <2> QED BY <2>4 DEF RateBounded, About, Young, Recent
<1> QED BY <1>1, <1>2, <1>3, <1>4 DEF CInv

(* Every step keeps the inductive invariant.                               *)
LEMMA CodesNext == CInv /\ [CodeNext]_codeVars => CInv'
<1> SUFFICES ASSUME CInv, [CodeNext]_codeVars PROVE CInv'
  OBVIOUS
<1>1. CASE Serve
  BY <1>1, LimitsStep, VerifyStep, ConsumeStep, InsertStep, EndStep, EnqueueStep DEF Serve
<1>2. CASE Work
  BY <1>2, ClaimStep, SendStep, CompleteStep, FailStep DEF Work
<1>3. CASE UNCHANGED codeVars
  <2>1. UNCHANGED <<challenge, authorization, outbox, age, client, job, used, idempotent, accepted>>
    BY <1>3 DEF codeVars, codeRows, providerVars
  <2>2. CodeType' /\ EventsOK'
    BY <2>1 DEF CInv, CodeType, EventsOK
  <2> QED BY <2>1, <2>2, CallsStay, CountsStay DEF CInv
<1> QED BY <1>1, <1>2, <1>3, TickStep, AbandonStep DEF CodeNext

(* The inductive invariant of the verification codes, for any number of    *)
(* events, requests and workers.                                           *)
THEOREM CodeInvariance == CodeSpec => []CInv
BY CodesInit, CodesNext, PTL DEF CodeSpec

(* The promises about verification codes and the messages that carry them  *)
(* hold in every reachable state: sending limits up to the requests that   *)
(* race, no pending code after its exchange, one accepted message on a     *)
(* sender that does not recognise repeats, no retry after expiry           *)
(* (CreateVerificationChallenge, VerifyChallenge, RunOnce).                *)
THEOREM CodesSafe == CodeSpec => []VInv
<1>1. CInv => VInv
  <2> SUFFICES ASSUME CInv PROVE VInv
    OBVIOUS
  <2>0. CodeType /\ EventsOK
    BY DEF CInv
  <2>1. NoPendingCode
    BY <2>0 DEF EventsOK, NoticeOK, NoPendingCode, CodeType, OutboxRow, Final
  <2>2. AcceptedOnce
    BY <2>0 DEF CInv, CallsOK, AcceptedOnce, CodeType
  <2>3. RetryBeforeExpiry
    BY <2>0 DEF EventsOK, NoticeOK, RetryBeforeExpiry
  <2>4. ASSUME NEW e \in Event
        PROVE  /\ challenge[e].attempts \in 0 .. MaxVerificationTries
               /\ challenge[e].state = "consumed" <=> authorization[e] # NoAuthorization
    <3>1. challenge[e] \in ChallengeRow /\ authorization[e] \in AuthorizationRow
      BY <2>0 DEF CodeType
    <3>2. CodeOK(challenge[e], authorization[e], age[e], used[e])
      BY <2>0 DEF EventsOK
    <3>3. authorization[e].state = "none" <=> authorization[e] = NoAuthorization
      BY <3>1, <3>2 DEF CodeOK, AuthorizationRow, NoAuthorization
    <3> QED BY <3>1, <3>2, <3>3 DEF CodeOK, ChallengeRow
  <2>5. ASSUME NEW e \in Event
        PROVE  /\ outbox[e].state \in Final \cup {"none", "PENDING", "SENDING", "RETRY_WAIT"}
               /\ outbox[e].sealed <=> outbox[e].state \in {"PENDING", "SENDING", "RETRY_WAIT"}
               /\ (outbox[e].owner # "none") = (outbox[e].state = "SENDING")
               /\ outbox[e].attempts <= MaxAttempts
    <3>1. outbox[e] \in OutboxRow /\ NoticeOK(challenge[e], outbox[e], age[e]) /\ MaxAttempts \in Nat
      BY <2>0, CodeConstants DEF CodeType, EventsOK
    <3> QED BY <3>1 DEF NoticeOK, OutboxRow
  <2> QED BY <2>1, <2>2, <2>3, <2>4, <2>5 DEF CInv, VInv
<1> QED BY <1>1, CodeInvariance, PTL

(* An authorization is spent once, for its own flow, after fewer wrong     *)
(* codes than allowed and in time, whichever requests race                 *)
(* (VerifyChallenge, ConsumeOneTimeAuthorization).                         *)
THEOREM AuthorizationSpentOnce == CodeSpec => SpentOnce
<1>1. CInv /\ [CodeNext]_codeVars =>
        [\A e \in Event : used'[e] # used[e] =>
           /\ used[e] = <<>> /\ used'[e] = <<e>>
           /\ challenge[e].attempts < MaxVerificationTries
           /\ age[e] < CodeTTL + AuthorizationTTL]_codeVars
  <2> SUFFICES ASSUME CInv, CodeNext
               PROVE  \A e \in Event : used'[e] # used[e] =>
                        /\ used[e] = <<>> /\ used'[e] = <<e>>
                        /\ challenge[e].attempts < MaxVerificationTries
                        /\ age[e] < CodeTTL + AuthorizationTTL
    OBVIOUS
  <2>1. used' = used \/ \E c \in Client, f \in Event :
                          ConsumeOneTimeAuthorization(c, f) /\ UNCHANGED <<age, job, providerVars>>
    BY DEF CodeNext, Serve, Work, Tick, Abandon, CheckLimits, VerifyChallenge, InsertChallenge, EndRequest,
       EnqueueSecurityNotification
  <2> QED BY <2>1, ConsumeStep
<1> QED BY <1>1, CodeInvariance, PTL DEF CodeSpec, SpentOnce
=============================================================================
