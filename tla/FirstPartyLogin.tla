-------------------------- MODULE FirstPartyLogin --------------------------
(***************************************************************************)
(* Login at the first-party identity provider, for one account             *)
(* (internal/access: first_party_idp.go, first_party_idp_security.go,      *)
(* privacy_consent.go, member_activation.go; internal/bizruntime:          *)
(* first_party_idp.go, first_party_native_login.go, web_auth.go).          *)
(*                                                                         *)
(* A login is an authorization request: the login form, the form for a     *)
(* first password and the consent form all name it, and its browser may    *)
(* send any of them, twice and in any order.  A form is served by several  *)
(* transactions, one step each; the time that the throttle goes by is read *)
(* once, at the start.  Secrets are numbered as they are set, so 0 is      *)
(* never the right one.  The requests are all of one flow of the web       *)
(* application, whose page was opened several times: its callback redeems  *)
(* a code and creates a session (module WebSession).                       *)
(***************************************************************************)
EXTENDS Naturals

CONSTANTS
  Login,      \* authorization requests a browser may make
  Handler,    \* HTTP requests that may be served at the same time
  FlowTTL, LoginTTL, AuthCodeTTL, \* of a flow, of an authorization request and of its code
  MaxFailures, Window, Lockout,   \* FirstPartyLoginPolicy
  InitialTTL,                     \* of a temporary password
  MaxSecret,                      \* bound on the account's passwords; the last one stays
  Horizon                         \* bound on the time

ASSUME LoginAssumption ==
  /\ \A d \in {FlowTTL, LoginTTL, AuthCodeTTL, Window, Lockout, InitialTTL, MaxSecret} : d \in Nat \ {0}
  /\ MaxFailures \in Nat /\ MaxFailures >= 3  \* FirstPartyLoginPolicy.Validate
  /\ Handler # {} /\ Horizon \in Nat \ {0}

VARIABLES
  now,
  credential,  \* biz_user_password_credentials; until when an activation by SMS is pending
  throttle,    \* biz_idp_login_throttles: the row of the account's identifier
  consent,     \* biz_privacy_consents: the row of the current agreement
  ask,         \* biz_idp_authorization_requests
  code,        \* biz_idp_authorization_codes
  flow,        \* biz_web_login_flows: until when the row is good, 0 once it is deleted
  granted,     \* identities that the callback was given
  handler      \* what each HTTP request is doing

rows == <<credential, throttle, consent, ask, code, flow, granted>>
loginVars == <<now, rows, handler>>

Waiting == [pc |-> "idle"]
NoThrottle == [count |-> 0, since |-> 0, until |-> 0]
NoRequest == [state |-> "none", csrf |-> 0, expires |-> 0]
SpentRequest == [state |-> "spent", csrf |-> 0, expires |-> 0]
NoCode == [state |-> "none", expires |-> 0]
UsedCode == [state |-> "used", expires |-> 0]

(* The account has a password of its own, or the temporary one that an     *)
(* activation by SMS has sent.                                             *)
InitialCredential ==
  { [secret |-> 1, disabled |-> FALSE, temporary |-> 0, pending |-> 0],
    [secret |-> 1, disabled |-> FALSE, temporary |-> 1 + InitialTTL,
     pending |-> 1 + InitialTTL] }

LoginInit ==
  /\ now = 1
  /\ credential \in InitialCredential
  /\ throttle = NoThrottle
  /\ consent = "none"
  /\ ask = [l \in Login |-> NoRequest]
  /\ code = [l \in Login |-> NoCode]
  /\ flow = now + FlowTTL
  /\ granted = 0
  /\ handler = [h \in Handler |-> Waiting]

Goes(h, to) == handler' = [handler EXCEPT ![h] = to]
At(h, pc) == handler[h].pc = pc
Step(h, pc) == Goes(h, [handler[h] EXCEPT !.pc = pc])
Done(h) == Goes(h, Waiting)

(* LoadFirstPartyAuthorizationRequest: the request is there, in time. *)
Open(l) == ask[l].state \in {"open", "bound"} /\ ask[l].expires > now

(* loadFirstPartyAuthorizationRequestForUpdate: and the form that was sent *)
(* is the last one that was shown.                                         *)
Shown(h) == LET l == handler[h].login IN Open(l) /\ ask[l].csrf = handler[h].csrf

-----------------------------------------------------------------------------
(* handleAuthorize: CreateFirstPartyAuthorizationRequest.  Expired requests *)
(* are deleted; nobody could tell them from deleted ones.                   *)
CreateFirstPartyAuthorizationRequest(l) ==
  /\ ask[l].state = "none"
  /\ ask' = [ask EXCEPT ![l] = [state |-> "open", csrf |-> 1, expires |-> now + LoginTTL]]
  /\ UNCHANGED <<now, credential, throttle, consent, code, flow, granted, handler>>

(* handleLogin, with the right password or a wrong one *)
SubmitPassword(h, l, secret) ==
  /\ At(h, "idle") /\ Open(l)
  /\ Goes(h, [pc |-> "throttle", login |-> l, csrf |-> ask[l].csrf, secret |-> secret, at |-> now])
  /\ UNCHANGED <<now, rows>>

(* handleOTPVerify: the code was right and its authorization is spent. *)
SubmitCode(h, l) ==
  /\ At(h, "idle") /\ Open(l)
  /\ Goes(h, [pc |-> "passed", login |-> l, csrf |-> ask[l].csrf, must |-> FALSE])
  /\ UNCHANGED <<now, rows>>

(* The first transaction of authenticateFirstPartyLoginWithAudit *)
CheckThrottle(h) ==
  /\ At(h, "throttle")
  /\ IF throttle.until > handler[h].at THEN Done(h) ELSE Step(h, "password")
  /\ UNCHANGED <<now, rows>>

(* AuthenticateUserPassword: a temporary password is good for its time. *)
AuthenticateUserPassword(h) ==
  LET right == /\ handler[h].secret = credential.secret /\ ~credential.disabled
               /\ credential.temporary > 0 => credential.temporary > now
  IN
  /\ At(h, "password")
  /\ IF right
     THEN Goes(h, [pc |-> "passed", login |-> handler[h].login, csrf |-> handler[h].csrf,
                   must |-> credential.temporary > 0])
     ELSE Goes(h, [pc |-> "failed", at |-> handler[h].at])
  /\ UNCHANGED <<now, rows>>

(* Faulty variant: a lock is set for one failure too many. *)
FailedTooLate(row, at) ==
  LET fresh == row.count = 0 \/ at >= row.since + Window
      count == IF fresh THEN 1 ELSE row.count + 1
  IN [count |-> count,
      since |-> IF fresh THEN at ELSE row.since,
      until |-> IF count > MaxFailures THEN at + Lockout ELSE IF fresh THEN 0 ELSE row.until]

(* The throttle's row after a failure of a request that began at `at` *)
Failed(row, at) ==
  LET fresh == row.count = 0 \/ at >= row.since + Window
      wasBlocked == ~fresh /\ row.until > at
      count == IF fresh THEN 1 ELSE row.count + 1
  IN [count |-> count,
      since |-> IF fresh THEN at ELSE row.since,
      until |-> IF count >= MaxFailures /\ ~wasBlocked THEN at + Lockout
                ELSE IF fresh THEN 0 ELSE row.until]

recordFirstPartyLoginFailure(h) ==
  /\ At(h, "failed")
  /\ throttle' = Failed(throttle, handler[h].at)
  /\ Done(h)
  /\ UNCHANGED <<now, credential, consent, ask, code, flow, granted>>

(* The row is deleted, whatever it says by now. *)
recordFirstPartyLoginSuccess(h) ==
  /\ At(h, "passed")
  /\ throttle' = NoThrottle
  /\ Goes(h, [pc |-> IF handler[h].must THEN "bind" ELSE "consent",
              login |-> handler[h].login, csrf |-> handler[h].csrf])
  /\ UNCHANGED <<now, credential, consent, ask, code, flow, granted>>

-----------------------------------------------------------------------------
(* continueVerifiedLogin *)

PrivacyConsentSatisfies == consent = "accepted"

ReadConsent(h) ==
  /\ At(h, "consent")
  /\ Step(h, IF PrivacyConsentSatisfies THEN "issue" ELSE "bind")
  /\ UNCHANGED <<now, rows>>

BindFirstPartyAuthorizationIdentity(h) ==
  LET l == handler[h].login IN
  /\ At(h, "bind")
  /\ ask' = IF Shown(h) THEN [ask EXCEPT ![l].state = "bound"] ELSE ask
  /\ Done(h)
  /\ UNCHANGED <<now, credential, throttle, consent, code, flow, granted>>

(* A request is deleted when its code is inserted. *)
CodeFor(l) ==
  /\ code' = [code EXCEPT ![l] = [state |-> "issued", expires |-> now + AuthCodeTTL]]
  /\ ask' = [ask EXCEPT ![l] = SpentRequest]

IssueFirstPartyAuthorizationCode(h) ==
  /\ At(h, "issue")
  /\ IF Shown(h) THEN CodeFor(handler[h].login) ELSE UNCHANGED <<code, ask>>
  /\ Done(h)
  /\ UNCHANGED <<now, credential, throttle, consent, flow, granted>>

-----------------------------------------------------------------------------
(* The consent form *)

(* handleConsentPage: each page that is shown makes the earlier ones stale. *)
RefreshFirstPartyConsentCSRF(l) ==
  /\ Open(l) /\ ask[l].state = "bound" /\ ask[l].csrf < 2
  /\ ask' = [ask EXCEPT ![l].csrf = @ + 1]
  /\ UNCHANGED <<now, credential, throttle, consent, code, flow, granted, handler>>

(* handleConsent, refused *)
ClearFirstPartyAuthorizationIdentity(l) ==
  /\ Open(l)
  /\ ask' = [ask EXCEPT ![l].state = "open"]
  /\ UNCHANGED <<now, credential, throttle, consent, code, flow, granted, handler>>

(* handleConsent, accepted *)
AcceptPrivacyConsentAndIssueAuthorizationCode(l) ==
  /\ Open(l) /\ ask[l].state = "bound"
  /\ consent' = "accepted"
  /\ CodeFor(l)
  /\ UNCHANGED <<now, credential, throttle, flow, granted, handler>>

-----------------------------------------------------------------------------
(* The account's password *)

(* setUserPassword: the password is no longer a temporary one. *)
setUserPassword(c) == [c EXCEPT !.secret = @ + 1, !.disabled = FALSE, !.temporary = 0]

(* handleInitialPasswordChange: the activation is completed (module        *)
(* Membership) and the login goes on.                                      *)
CompleteInitialPasswordActivationForLogin(h, l) ==
  /\ At(h, "idle") /\ Open(l) /\ ask[l].state = "bound"
  /\ credential.pending > now /\ credential.secret < MaxSecret
  /\ credential' = [setUserPassword(credential) EXCEPT !.pending = 0]
  /\ Goes(h, [pc |-> "consent", login |-> l, csrf |-> ask[l].csrf])
  /\ UNCHANGED <<now, throttle, consent, ask, code, flow, granted>>

(* changeOwnPassword, RecoverPasswordWithCode, ResetPasswordWithAuthorization *)
(* and RotateUserPassword                                                     *)
ReplacePassword ==
  /\ credential.secret < MaxSecret
  /\ credential' = setUserPassword(credential)
  /\ UNCHANGED <<now, throttle, consent, ask, code, flow, granted, handler>>

DisableUserPassword ==
  /\ ~credential.disabled /\ credential.secret < MaxSecret
  /\ credential' = [credential EXCEPT !.disabled = TRUE]
  /\ UNCHANGED <<now, throttle, consent, ask, code, flow, granted, handler>>

-----------------------------------------------------------------------------
(* handleCallback *)

(* The flow is consumed first: a login whose code fails is begun anew. *)
ConsumeWebLoginFlow(h, l) ==
  /\ At(h, "idle") /\ code[l].state # "none" /\ flow > now
  /\ flow' = 0
  /\ Goes(h, [pc |-> "exchange", login |-> l])
  /\ UNCHANGED <<now, credential, throttle, consent, ask, code, granted>>

(* handleToken: a code is deleted when it is redeemed. *)
ConsumeFirstPartyAuthorizationCode(h) ==
  LET l == handler[h].login
      good == code[l].state = "issued" /\ code[l].expires > now
  IN
  /\ At(h, "exchange")
  /\ code' = IF good THEN [code EXCEPT ![l] = UsedCode] ELSE code
  /\ granted' = IF good THEN granted + 1 ELSE granted
  /\ Done(h)
  /\ UNCHANGED <<now, credential, throttle, consent, ask, flow>>

-----------------------------------------------------------------------------
(* The process dies or its client goes away. *)
Drop(h) ==
  /\ ~At(h, "idle")
  /\ Done(h)
  /\ UNCHANGED <<now, rows>>

LoginTick ==
  /\ now < Horizon
  /\ now' = now + 1
  /\ UNCHANGED <<rows, handler>>

Handle(h) ==
  \/ \E l \in Login, s \in {0, credential.secret} : SubmitPassword(h, l, s)
  \/ \E l \in Login : \/ SubmitCode(h, l)
                      \/ CompleteInitialPasswordActivationForLogin(h, l)
                      \/ ConsumeWebLoginFlow(h, l)
  \/ CheckThrottle(h) \/ AuthenticateUserPassword(h)
  \/ recordFirstPartyLoginFailure(h) \/ recordFirstPartyLoginSuccess(h)
  \/ ReadConsent(h)
  \/ BindFirstPartyAuthorizationIdentity(h) \/ IssueFirstPartyAuthorizationCode(h)
  \/ ConsumeFirstPartyAuthorizationCode(h)
  \/ Drop(h)

LoginNext ==
  \/ \E h \in Handler : Handle(h)
  \/ \E l \in Login : \/ CreateFirstPartyAuthorizationRequest(l)
                      \/ RefreshFirstPartyConsentCSRF(l)
                      \/ ClearFirstPartyAuthorizationIdentity(l)
                      \/ AcceptPrivacyConsentAndIssueAuthorizationCode(l)
  \/ ReplacePassword \/ DisableUserPassword
  \/ LoginTick

LoginSpec == LoginInit /\ [][LoginNext]_loginVars

-----------------------------------------------------------------------------
(* Properties *)

(* A flow is good for one identity at most, and with it one session,       *)
(* however often its pages and its callback are opened and whichever of    *)
(* them race (ConsumeWebLoginFlow, ConsumeFirstPartyAuthorizationCode).    *)
OneGrantPerFlow == granted <= 1

(* Nobody is given a code, and with it a session, who has never accepted   *)
(* the agreement, whichever forms of the login were sent and in which      *)
(* order (continueVerifiedLogin, handleConsent).                           *)
ConsentFirst == \A l \in Login : code[l].state # "none" => consent = "accepted"

(* The failure that exhausts the policy locks the account's identifier,    *)
(* and while the lock runs a password is compared at most for requests     *)
(* that raced with that failure, never for all there are                   *)
(* (authenticateFirstPartyLoginWithAudit, recordFirstPartyLoginFailure).   *)
LockedAtLimit ==
  /\ throttle.count >= MaxFailures => throttle.until > 0
  /\ \E h \in Handler : ~(handler[h].pc \in {"password", "failed"} /\ throttle.until > handler[h].at)

(* The type invariant, with the three promises above; and a code is issued *)
(* only for a request that it spends.                                      *)
LoginInv ==
  /\ OneGrantPerFlow /\ ConsentFirst /\ LockedAtLimit
  /\ now \in 1 .. Horizon
  /\ credential \in [secret : 1 .. MaxSecret, disabled : BOOLEAN, temporary : Nat, pending : Nat]
  /\ throttle \in [count : Nat, since : Nat, until : Nat]
  /\ consent \in {"none", "accepted"}
  /\ \A l \in Login :
       /\ ask[l].state \in {"none", "open", "bound", "spent"}
       /\ code[l].state \in {"none", "issued", "used"}
       /\ code[l].state # "none" => ask[l].state = "spent"
  /\ flow \in Nat /\ granted \in Nat
=============================================================================
