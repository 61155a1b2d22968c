---------------------------- MODULE Verification ----------------------------
(***************************************************************************)
(* Verification codes, the one-time authorizations they are exchanged for  *)
(* and the security notifications that carry them (internal/access:        *)
(* verification.go, verification_delivery.go; internal/notification:       *)
(* security_delivery_worker.go).                                           *)
(*                                                                         *)
(* One user, purpose and destination: the scope of the send limits.  A     *)
(* transaction takes no time.  Time since the creation of a row is counted *)
(* up to the last deadline it matters for, other times are counted down.   *)
(* A request may know the right code at any time: it was received or it    *)
(* was guessed.  The flow a challenge is bound to is part of its business  *)
(* event's name; here the event stands for it.                             *)
(***************************************************************************)
EXTENDS Naturals, Sequences, FiniteSets

CONSTANTS
  Event,           \* business events
  Client, Replica,  \* requests being served; replicas of the delivery worker
  CodeTTL, AuthorizationTTL, ResendInterval, SendLimitWindow,
  MaxSendsPerWindow, MaxVerificationTries,  \* VerificationPolicy
  MaxAttempts, Lease, Backoff               \* NotificationRetryPolicy

ASSUME PolicyAssumption ==
  /\ \A d \in {CodeTTL, AuthorizationTTL, ResendInterval, SendLimitWindow, MaxSendsPerWindow,
               MaxVerificationTries, MaxAttempts, Lease} : d \in Nat \ {0}
  /\ Backoff \in [1 .. MaxAttempts - 1 -> Nat \ {0}]
  /\ IsFiniteSet(Event) /\ IsFiniteSet(Client)
  /\ "none" \notin Replica  \* no lease_owner

VARIABLES
  challenge,      \* biz_verification_challenges, by business event
  authorization,  \* one-time authorizations, by business event of the challenge
  outbox,         \* biz_security_notification_outbox, by business event
  age,            \* time since the rows of the event were created
  client, job,    \* what each request and each worker is doing
  used,           \* history: the flows an authorization was spent for
  idempotent,     \* SecurityNotificationIdempotent of the sender
  accepted        \* messages taken by a provider that does not recognise repeats

codeRows == <<challenge, authorization, outbox>>
providerVars == <<idempotent, accepted>>
codeVars == <<codeRows, age, client, job, used, providerVars>>

Deadlines == {ResendInterval, SendLimitWindow + 1, CodeTTL + AuthorizationTTL}
Oldest == CHOOSE d \in Deadlines : \A other \in Deadlines : other <= d
Idle == [pc |-> "idle"]
NoChallenge == [state |-> "none", attempts |-> 0]
NoAuthorization == [state |-> "none", left |-> 0]
NoNotification == [state |-> "none", attempts |-> 0, owner |-> "none", left |-> 0, sealed |-> FALSE]
Pending == [NoNotification EXCEPT !.state = "PENDING", !.sealed = TRUE]
Final == {"DELIVERED", "CANCELLED", "MANUAL_REVIEW"}

CodeInit ==
  /\ challenge = [e \in Event |-> NoChallenge]
  /\ authorization = [e \in Event |-> NoAuthorization]
  /\ outbox = [e \in Event |-> NoNotification]
  /\ age = [e \in Event |-> 0]
  /\ client = [c \in Client |-> Idle] /\ job = [w \in Replica |-> Idle]
  /\ used = [e \in Event |-> <<>>]
  /\ idempotent \in BOOLEAN
  /\ accepted = [e \in Event |-> 0]

Expired(e) == age[e] >= CodeTTL
Challenges == {e \in Event : challenge[e] # NoChallenge}

-----------------------------------------------------------------------------
(* CreateVerificationChallenge: looks for the event, then at the limits    *)
(* without a lock, then inserts.  A request that repeats an event gets its *)
(* receipt or a conflict, and changes nothing.                             *)

(* The latest challenge is the youngest; a challenge is in the window to   *)
(* its last instant.                                                       *)
SendAllowed ==
  /\ \A e \in Challenges : age[e] >= ResendInterval
  /\ Cardinality({e \in Challenges : age[e] <= SendLimitWindow}) < MaxSendsPerWindow

CheckLimits(c, e) ==
  /\ client[c] = Idle
  /\ challenge[e] = NoChallenge /\ SendAllowed
  /\ client' = [client EXCEPT ![c] = [pc |-> "insert", event |-> e]]
  /\ UNCHANGED <<codeRows, used>>

InsertChallenge(c) ==
  LET e == client[c].event IN
  /\ client[c].pc = "insert"
  /\ IF challenge[e] = NoChallenge /\ outbox[e] = NoNotification
     THEN /\ challenge' = [challenge EXCEPT ![e].state = "open"]
          /\ outbox' = [outbox EXCEPT ![e] = Pending]
     ELSE UNCHANGED <<challenge, outbox>>
  /\ client' = [client EXCEPT ![c] = Idle]
  /\ UNCHANGED <<authorization, used>>

(* EnqueueSecurityNotification: a notification without a challenge *)
EnqueueSecurityNotification(e) ==
  /\ outbox[e] = NoNotification
  /\ outbox' = [outbox EXCEPT ![e] = Pending]
  /\ UNCHANGED <<challenge, authorization, client, used>>

-----------------------------------------------------------------------------

(* What VerifyChallenge does to the notification: cancelled while it is    *)
(* pending or failed, left alone while it is sent or waits for a retry.    *)
CancelNotification(e) ==
  IF outbox[e].state \in {"PENDING", "FAILED"}
  THEN [outbox EXCEPT ![e].state = "CANCELLED", ![e].sealed = FALSE] ELSE outbox

(* VerifyChallenge: a wrong code costs a try, the right one is exchanged   *)
(* for an authorization that only this request knows.  A request for       *)
(* another flow changes nothing.                                           *)
VerifyChallenge(c, e) ==
  /\ client[c] = Idle
  /\ challenge[e].state = "open" /\ ~Expired(e)
  /\ challenge[e].attempts < MaxVerificationTries
  /\ \/ /\ challenge' = [challenge EXCEPT ![e].attempts = @ + 1]
        /\ UNCHANGED <<authorization, outbox, client>>
     \/ /\ challenge' = [challenge EXCEPT ![e].state = "consumed"]
        /\ authorization' = [authorization EXCEPT ![e] = [state |-> "open", left |-> AuthorizationTTL]]
        /\ outbox' = CancelNotification(e)
        /\ client' = [client EXCEPT ![c] = [pc |-> "verified", event |-> e]]
  /\ UNCHANGED used

(* Faulty variant: the flow is not compared and the row not marked. *)
ConsumeAgain(c, f) ==
  LET e == client[c].event IN
  /\ client[c].pc = "verified"
  /\ Len(used[e]) < 2 /\ authorization[e].left > 0
  /\ used' = [used EXCEPT ![e] = Append(@, f)]
  /\ UNCHANGED <<codeRows, client>>

(* ConsumeOneTimeAuthorization: by the request that got it, which may try  *)
(* again when the answer was lost and may name another flow.               *)
ConsumeOneTimeAuthorization(c, f) ==
  LET e == client[c].event IN
  /\ client[c].pc = "verified"
  /\ IF f = e /\ authorization[e].state = "open" /\ authorization[e].left > 0
     THEN /\ authorization' = [authorization EXCEPT ![e].state = "consumed"]
          /\ used' = [used EXCEPT ![e] = Append(@, f)]
     ELSE UNCHANGED <<authorization, used>>
  /\ UNCHANGED <<challenge, outbox, client>>

(* The request ends, or dies where it is: its transaction is rolled back,  *)
(* its authorization is lost.                                              *)
EndRequest(c) ==
  /\ client[c] # Idle
  /\ client' = [client EXCEPT ![c] = Idle]
  /\ UNCHANGED <<codeRows, used>>

Serve ==
  /\ \/ \E c \in Client :
          \/ \E e \in Event : CheckLimits(c, e) \/ VerifyChallenge(c, e) \/ ConsumeOneTimeAuthorization(c, e)
          \/ InsertChallenge(c) \/ EndRequest(c)
     \/ \E e \in Event : EnqueueSecurityNotification(e)
  /\ UNCHANGED <<age, job, providerVars>>

-----------------------------------------------------------------------------
(* The delivery worker *)

Row(e, row) == outbox' = [outbox EXCEPT ![e] = row]
Ends(w) == job' = [job EXCEPT ![w] = Idle]

(* finalizeSecurityNotification *)
Finalize(row) ==
  [row EXCEPT !.state = "MANUAL_REVIEW", !.owner = "none", !.left = 0, !.sealed = FALSE]

Due(row) ==
  \/ row.state = "PENDING"
  \/ row.state \in {"RETRY_WAIT", "SENDING"} /\ row.left = 0

(* ClaimNextSecurityNotification; the challenge is not asked. *)
ClaimNextSecurityNotification(w, e) ==
  LET row == outbox[e] IN
  /\ job[w] = Idle /\ Due(row)
  /\ IF Expired(e) \/ row.attempts >= MaxAttempts
     THEN Row(e, Finalize(row)) /\ UNCHANGED job
     ELSE /\ Row(e, [row EXCEPT !.state = "SENDING", !.attempts = @ + 1, !.owner = w, !.left = Lease])
          /\ job' = [job EXCEPT ![w] = [pc |-> IF row.state = "SENDING" /\ ~idempotent THEN "unknown" ELSE "send",
                                        event |-> e]]
  /\ UNCHANGED accepted

(* reliableLocked, for a row that is not delivered *)
Current(w) ==
  LET row == outbox[job[w].event] IN row.state = "SENDING" /\ row.owner = w /\ row.left > 0

(* Faulty variant: an unknown outcome is tried again on any sender. *)
RetryableAsTold(known, retryable) == retryable

(* classifySecurityDeliveryFailure *)
Retryable(known, retryable) == retryable /\ (known \/ idempotent)

(* SendSecurityNotification: an answer that is lost says nothing of what   *)
(* the provider did.                                                       *)
SendSecurityNotification(w) ==
  LET e == job[w].event IN
  /\ job[w].pc = "send"
  /\ \E taken \in BOOLEAN, answer \in {"delivered", "retry", "failed"} :
       /\ answer = "delivered" => taken
       /\ answer # "delivered" => \E known, retryable \in BOOLEAN :
            (known => ~taken) /\ (answer = "retry") = Retryable(known, retryable)
       /\ accepted' = [accepted EXCEPT ![e] = IF taken /\ ~idempotent THEN @ + 1 ELSE @]
       /\ job' = [job EXCEPT ![w] = [pc |-> answer, event |-> e]]
  /\ UNCHANGED outbox

(* CompleteReliableSecurityNotification *)
CompleteReliableSecurityNotification(w) ==
  LET e == job[w].event IN
  /\ job[w].pc = "delivered"
  /\ IF Current(w) THEN Row(e, [Finalize(outbox[e]) EXCEPT !.state = "DELIVERED"]) ELSE UNCHANGED outbox
  /\ Ends(w) /\ UNCHANGED accepted

RetryInTime(e, row) == row.attempts < MaxAttempts /\ CodeTTL > age[e] + Backoff[row.attempts]

(* FailReliableSecurityNotification *)
FailReliableSecurityNotification(w) ==
  LET e == job[w].event
      row == outbox[e]
  IN
  /\ job[w].pc \in {"unknown", "retry", "failed"}
  /\ IF ~Current(w) THEN UNCHANGED outbox
     ELSE IF job[w].pc = "retry" /\ RetryInTime(e, row)
     THEN Row(e, [row EXCEPT !.state = "RETRY_WAIT", !.owner = "none", !.left = Backoff[row.attempts]])
     ELSE Row(e, Finalize(row))
  /\ Ends(w) /\ UNCHANGED accepted

(* RunOnce *)
Work ==
  /\ \E w \in Replica :
       \/ \E e \in Event : ClaimNextSecurityNotification(w, e)
       \/ SendSecurityNotification(w) \/ CompleteReliableSecurityNotification(w) \/ FailReliableSecurityNotification(w)
  /\ UNCHANGED <<challenge, authorization, age, client, used, idempotent>>

(* A shutdown, a crash or a lost database: the claim is left to lapse. *)
Abandon(w) ==
  /\ job[w] # Idle /\ Ends(w)
  /\ UNCHANGED <<codeRows, age, client, used, providerVars>>

-----------------------------------------------------------------------------
Less(n) == IF n > 0 THEN n - 1 ELSE 0

(* Time passes, and no request is in the middle of its transaction. *)
Tick ==
  /\ \A c \in Client : client[c].pc # "insert"
  /\ \E e \in Event : outbox[e] # NoNotification /\ (age[e] < Oldest \/ outbox[e].left > 0)
  /\ age' = [e \in Event |-> IF outbox[e] # NoNotification /\ age[e] < Oldest THEN age[e] + 1 ELSE age[e]]
  /\ authorization' = [e \in Event |-> [authorization[e] EXCEPT !.left = Less(@)]]
  /\ outbox' = [e \in Event |-> [outbox[e] EXCEPT !.left = Less(@)]]
  /\ UNCHANGED <<challenge, client, job, used, providerVars>>

CodeNext == Serve \/ Work \/ Tick \/ \E w \in Replica : Abandon(w)

CodeSpec == CodeInit /\ [][CodeNext]_codeVars

-----------------------------------------------------------------------------
(* Properties *)

(* An authorization is spent once, for the flow its challenge was created  *)
(* for, after no more wrong codes than allowed, and within the two times   *)
(* to live of the challenge's creation, whichever requests raced           *)
(* (VerifyChallenge, ConsumeOneTimeAuthorization).                         *)
SpentOnce ==
  [][\A e \in Event : used'[e] # used[e] =>
       /\ used[e] = <<>> /\ used'[e] = <<e>>
       /\ challenge[e].attempts < MaxVerificationTries
       /\ age[e] < CodeTTL + AuthorizationTTL]_codeVars

(* The limits on sending hold up to the requests that raced: the check is  *)
(* not serialized, so of the requests being served each but one may exceed *)
(* them, once.  Counted are the challenges that exist and those about to   *)
(* (CreateVerificationChallenge).                                          *)
RateBounded ==
  LET about == Cardinality({c \in Client : client[c].pc = "insert"})
      young == Cardinality({e \in Challenges : age[e] < ResendInterval})
      recent == Cardinality({e \in Challenges : age[e] <= SendLimitWindow})
  IN
  /\ young > 0 => young + about <= Cardinality(Client)
  /\ recent + about <= MaxSendsPerWindow + Cardinality(Client) - 1

(* A code that was exchanged is not waiting for its first delivery         *)
(* (VerifyChallenge cancels it).                                           *)
NoPendingCode == \A e \in Event : challenge[e].state = "consumed" => outbox[e].state \notin {"PENDING", "FAILED"}

(* A sender that does not recognise a repeated message gets none to        *)
(* repeat: at most one call for an event is accepted, whatever was lost    *)
(* and whoever died in between (RunOnce, classifySecurityDeliveryFailure). *)
AcceptedOnce == \A e \in Event : accepted[e] <= 1

(* A message that waits for another attempt is due before it expires       *)
(* (FailReliableSecurityNotification).                                     *)
RetryBeforeExpiry ==
  \A e \in Event : outbox[e].state = "RETRY_WAIT" /\ outbox[e].left > 0 => age[e] + outbox[e].left < CodeTTL

(* The four promises above; shapes of the rows; the material of a message  *)
(* is kept exactly as long as it may still be sent, and a lease names its  *)
(* worker (finalizeSecurityNotification).                                  *)
VInv ==
  /\ RateBounded /\ NoPendingCode /\ AcceptedOnce /\ RetryBeforeExpiry
  /\ \A e \in Event :
       /\ challenge[e].attempts \in 0 .. MaxVerificationTries
       /\ challenge[e].state = "consumed" <=> authorization[e] # NoAuthorization
       /\ outbox[e].state \in Final \cup {"none", "PENDING", "SENDING", "RETRY_WAIT"}
       /\ outbox[e].sealed <=> outbox[e].state \in {"PENDING", "SENDING", "RETRY_WAIT"}
       /\ (outbox[e].owner # "none") = (outbox[e].state = "SENDING")
       /\ outbox[e].attempts <= MaxAttempts
=============================================================================
