---------------------------- MODULE ConsoleProofs ----------------------------
(***************************************************************************)
(* Proofs about InitialSubscription, for any tenants, any number of        *)
(* changes and of handler calls, and any traffic: what the console unlocks *)
(* cannot take effect by an earlier request, it verifies truly, and what   *)
(* it gives up takes effect only by a copy of the command that was under   *)
(* way when it was refused.                                                *)
(***************************************************************************)
EXTENDS InitialSubscription, TLAPS

(* A leaf is first tried with Zenon, briefly, and then with SMT. *)
USE ZenonT(4), SMT

USE ConsoleAssumption

Reads == {"read", "reread", "original", "reconcile"}
Change == Activation \cup {Nobody}

(* The rows, the messages, the refs of the tab and the calls. *)
ReceiptRow == {Unconfirmed} \cup [status : Known, request : Nat]
Message == [id : Activation, request : Nat, number : Nat]
TabRow ==
  [tenant : Tenant, target : {"none", "eligible", "readonly"}, loading : BOOLEAN,
   preview : Change, receipt : Change, status : {"none"} \cup Known,
   frozen : [id : Change, request : Nat], recovery : Change, submitted : BOOLEAN,
   retry : BOOLEAN, pending : BOOLEAN, reading : Slot \cup {Nobody},
   verification : {"idle", "pending", "verified", "failed"}]
CallRow ==
  [op : {"idle", "quote", "confirm", "refresh", "resume", "restore", "retry", "resent", "verify"},
   at : Reads \cup {"none", "quote", "remember", "sent", "prepared", "resume", "task", "plan",
                    "proposal", "readback", "subscription"},
   id : Change, request : Nat, sent : Nat, found : {"none", "own", "other", "alone", "others"} \cup Known,
   got : {"none", "absent", "present", "refused", "denied"} \cup Known]

ServerTypes ==
  /\ proposed \in [Activation -> Tenant \cup {Nobody}]
  /\ outdated \subseteq Activation
  /\ confirmed \in [Activation -> ReceiptRow]
  /\ base \in [Tenant -> Change \cup {Stranger}]
  /\ wire \subseteq Message /\ sends \in Nat
  /\ journal \in [Activation -> Nat] /\ \A c \in Activation : journal[c] <= requests
  /\ requests \in Nat
  /\ letGo \subseteq Activation
  /\ Cardinality({c \in Activation : proposed[c] # Nobody}) \in Nat
PageTypes == tab \in TabRow /\ calls \in [Slot -> CallRow]

(* The tenant has a subscription by now, so the change will not commit. *)
Barred(c) == base[proposed[c]] # Nobody

(* A change that has not committed and will not. *)
GivenUp(c) == proposed[c] \in Tenant /\ confirmed[c] = Unconfirmed /\ (Barred(c) \/ ~UnderWay(c))

(* A receipt is that of its tenant's subscription; what is on the wire was *)
(* previewed, under an id that was made, and sent once.                    *)
ServerInv ==
  /\ \A c \in Activation : confirmed[c] # Unconfirmed => proposed[c] \in Tenant /\ base[proposed[c]] = c
  /\ \A m \in wire : proposed[m.id] \in Tenant /\ m.request \in 1..requests /\ m.number <= sends
  /\ \A m, n \in wire : m.number = n.number => m = n
  /\ \A c \in letGo : GivenUp(c)

Alone(s) == \A r \in Slot \ {s} : calls[r] = Idle
Taken == base[tab.tenant] # Nobody
Found(c) == confirmed[c] # Unconfirmed /\ proposed[c] = tab.tenant
Unsent(c) == confirmed[c] = Unconfirmed /\ \A m \in wire : m.id # c

(* The preview and the receipt shown are the tenant's, and the change to   *)
(* recover is known while a confirmation is locked.                        *)
TabInv ==
  /\ tab.preview # Nobody => proposed[tab.preview] = tab.tenant
  /\ tab.receipt # Nobody => Found(tab.receipt)
  /\ tab.submitted => tab.recovery # Nobody
  /\ tab.retry => tab.submitted
  /\ tab.recovery # Nobody => proposed[tab.recovery] \in Tenant
  /\ tab.frozen.id # Nobody => tab.frozen.request \in 1..requests

(* Handlers run beside each other, or without holding the page, only once  *)
(* the tenant has its subscription; an unlocked page runs nothing but the  *)
(* preview it asked for.                                                   *)
CrowdInv ==
  /\ ~tab.submitted => tab.receipt = Nobody /\ \A s \in Slot : calls[s] = Idle \/ calls[s].at = "quote"
  /\ \A s \in Slot : calls[s].at = "quote" => ~tab.submitted /\ tab.pending /\ Alone(s)
  /\ \A s \in Slot : calls[s] # Idle /\ (~tab.pending \/ ~Alone(s)) => Taken

(* The answer that a call has got is still true. *)
AnswerOK(x) ==
  /\ x.got \in Known => Found(x.id)
  /\ x.got = "APPLIED" => confirmed[x.id].status = "APPLIED"
  /\ x.got = "refused" => x.at = "sent"
  /\ x.at = "sent" => x.got # "absent" /\ x.got # "present"
  /\ x.at \in Reads => x.got # "denied" /\ x.got # "present"
  /\ x.at = "reread" => x.got # "absent"

(* What a call at each of its awaits relies on. *)
StageOK(x) ==
  /\ x.at \in {"none", "quote"} => x.got = "none"
  /\ x.at \notin {"none", "quote"} => x.id # Nobody /\ proposed[x.id] \in Tenant
  /\ x.at \in {"task", "reread", "prepared", "plan"} => Found(x.id)
  /\ x.at = "plan" => x.found \in Known
  /\ x.at \in {"reconcile", "subscription"} =>
       /\ proposed[x.id] = tab.tenant /\ x.op \in {"confirm", "resent"}
       /\ x.found = "alone" => Taken \/ ~UnderWay(x.id)
       /\ x.found = "alone" /\ x.at = "subscription" /\ x.got = "absent" => confirmed[x.id] = Unconfirmed
  /\ x.at \in {"remember", "sent"} \/ x.op = "retry" =>
       proposed[x.id] = tab.tenant /\ (x.id = tab.preview \/ Taken)
  /\ x.at \in {"remember", "sent"} \/ (x.op = "retry" /\ x.at = "read") => x.request \in 1..requests
  /\ x.at \in {"remember", "prepared"} => x.op = "confirm"
  /\ x.op = "retry" => x.at \in {"read", "task", "reread"}
  /\ x.op = "restore" => x.at \in {"original", "plan", "proposal", "read", "task", "reread"}
  /\ x.at \in {"original", "plan", "proposal"} => x.op = "restore"
  /\ x.at = "sent" =>
       /\ x.op \in {"confirm", "resent"} /\ x.sent <= sends
       /\ \A m \in wire : m.number = x.sent => m.id = x.id

(* Between confirmPreview and its answer nothing else runs, and no other   *)
(* command for the change is under way.                                    *)
ConfirmOK(s) ==
  LET x == calls[s] IN
  x.op = "confirm" /\ x.at \in {"remember", "sent", "prepared"} =>
    /\ tab.pending /\ ~tab.retry /\ Alone(s) /\ x.id = tab.preview
    /\ x.at = "prepared" => tab.receipt # Nobody
    /\ x.at = "remember" => Unsent(x.id)
    /\ x.at = "sent" =>
         /\ \A m \in wire : m.id = x.id => m.number = x.sent /\ confirmed[x.id] = Unconfirmed
         /\ x.got = "denied" => Unsent(x.id)

(* The readback that counts is of the receipt shown. *)
ReadbackOK(s) ==
  calls[s].at = "readback" /\ tab.reading = s =>
    /\ calls[s].id = tab.receipt /\ confirmed[calls[s].id].status = "APPLIED"
    /\ calls[s].found = "own" => tab.preview \in {Nobody, tab.receipt}

CallOK(s) == AnswerOK(calls[s]) /\ StageOK(calls[s]) /\ ConfirmOK(s) /\ ReadbackOK(s)
CallInv == \A s \in Slot : CallOK(s)

(* A change that is given up is neither shown, while it could commit, nor  *)
(* being restored.                                                         *)
LetGoInv ==
  \A c \in letGo :
    /\ tab.preview = c => Barred(c)
    /\ \A s \in Slot : calls[s].op = "restore" => calls[s].id # c

(* The inductive invariant. *)
HandlerInv ==
  /\ ServerTypes /\ PageTypes /\ Traffic <= MaxTraffic
  /\ ServerInv /\ TabInv /\ CrowdInv /\ CallInv /\ LetGoInv
  /\ UnlockedUnsent /\ VerifiedTruly

(***************************************************************************)
(* Calls                                                                   *)
(***************************************************************************)
(* A slot that is free, or that asks for a preview, relies on nothing. *)
LEMMA RestingOK ==
  ASSUME NEW s \in Slot,
         \/ calls'[s] = Idle
         \/ calls'[s].at = "quote" /\ calls'[s].op = "quote" /\ calls'[s].got = "none"
  PROVE  CallOK(s)'
<1>1. /\ calls'[s].at \in {"none", "quote"} /\ calls'[s].op \in {"idle", "quote"}
      /\ calls'[s].got = "none"
  BY DEF Idle
<1>2. AnswerOK(calls[s])'
  BY <1>1 DEF AnswerOK, Known, Reads
<1>3. StageOK(calls[s])'
  BY <1>1 DEF StageOK
<1> QED BY <1>1, <1>2, <1>3 DEF CallOK, ConfirmOK, ReadbackOK

(* The shape of a step of the page: the server's rows stay, the journal    *)
(* keeps ids that were made, and new commands carry new numbers.           *)
PageStep ==
  /\ UNCHANGED <<proposed, outdated, confirmed, base>>
  /\ requests' \in Nat /\ requests <= requests'
  /\ sends' \in Nat /\ sends <= sends'
  /\ \A m \in wire' : m \in wire \/ m.number > sends
  /\ letGo' \subseteq letGo

(* A call goes on undisturbed beside a step of another. *)
LEMMA OthersOK ==
  ASSUME HandlerInv, PageStep,
         NEW s \in Slot, calls[s] # Idle \/ ~tab.pending,
         NEW r \in Slot \ {s}, calls'[r] = calls[r] \/ calls'[r] = Idle,
         tab'.tenant = tab.tenant, tab'.preview = tab.preview \/ Taken \/ calls'[r] = Idle,
         \/ tab'.reading = Nobody \/ tab'.reading = s
         \/ tab'.reading = tab.reading /\ tab'.receipt = tab.receipt /\ tab'.preview = tab.preview
  PROVE  CallOK(r)'
<1>1. CASE calls'[r] = Idle
  BY <1>1, RestingOK
<1>2. CASE calls'[r] = calls[r] /\ calls'[r] # Idle
  <2>0. CallOK(r)
    BY DEF HandlerInv, CallInv
  <2>1. AnswerOK(calls[r])'
    BY <1>2, <2>0 DEF CallOK, AnswerOK, Found, PageStep
  <2>2. calls[r] \in CallRow
    BY DEF HandlerInv, PageTypes
  <2>3. StageOK(calls[r])'
    <3>1. \A m \in wire' : calls[r].at = "sent" /\ m.number = calls[r].sent => m.id = calls[r].id
      BY <2>0, <2>2 DEF CallOK, StageOK, PageStep, CallRow, HandlerInv, ServerTypes
    <3>2. calls[r].request \in Nat /\ calls[r].sent \in Nat
      BY <2>2 DEF CallRow
    <3>3. calls[r].request \in 1..requests => calls[r].request \in 1..requests'
      BY <3>2 DEF PageStep, HandlerInv, ServerTypes
    <3>4. calls[r].sent <= sends => calls[r].sent <= sends'
      BY <3>2 DEF PageStep, HandlerInv, ServerTypes
    <3>5. Taken
      <4>1. calls[r] # Idle /\ (~tab.pending \/ ~Alone(r))
        BY <1>2 DEF Alone
      <4> QED BY <4>1 DEF HandlerInv, CrowdInv
    <3> QED BY <1>2, <2>0, <3>1, <3>3, <3>4, <3>5 DEF CallOK, StageOK, Found, Taken, PageStep
  <2>4. ConfirmOK(r)'
    <3>1. ~(calls[r].op = "confirm" /\ calls[r].at \in {"remember", "sent", "prepared"})
      BY <2>0 DEF CallOK, ConfirmOK, Alone
    <3> QED BY <1>2, <3>1 DEF ConfirmOK
  <2>5. ReadbackOK(r)'
    BY <1>2, <2>0 DEF CallOK, ReadbackOK, PageStep
  <2> QED BY <2>1, <2>3, <2>4, <2>5 DEF CallOK
<1> QED BY <1>1, <1>2

(* A step of a call on a locked page leaves no other handler behind that   *)
(* the page does not know of.                                              *)
LEMMA CrowdKept ==
  ASSUME HandlerInv, PageStep, PageTypes',
         NEW s \in Slot, calls[s] # Idle \/ ~tab.pending,
         \A r \in Slot \ {s} : calls'[r] = calls[r] \/ calls'[r] = Idle,
         tab'.tenant = tab.tenant, tab'.submitted,
         calls'[s].at # "quote", calls'[s] = Idle \/ tab'.pending \/ Taken
  PROVE  CrowdInv'
<1>1. \A r \in Slot \ {s} : calls'[r] # Idle => calls'[r].at # "quote" /\ Taken
  <2> SUFFICES ASSUME NEW r \in Slot \ {s}, calls'[r] # Idle
               PROVE  calls'[r].at # "quote" /\ Taken
    OBVIOUS
  <2>1. calls'[r] = calls[r] /\ calls[r] # Idle
    OBVIOUS
  <2>2. ~tab.pending \/ ~Alone(r)
    BY DEF Alone
  <2> QED BY <2>1, <2>2 DEF HandlerInv, CrowdInv
<1>2. Taken' <=> Taken
  BY DEF Taken, PageStep
<1>3. \A r \in Slot : calls'[r].at # "quote"
  BY <1>1 DEF Idle
<1>4. \A r \in Slot : calls'[r] # Idle /\ (~tab'.pending \/ ~Alone(r)') => Taken
  BY <1>1 DEF Alone
<1> QED BY <1>2, <1>3, <1>4 DEF CrowdInv

(* What was verified stays so while the receipt shown is one of the        *)
(* tenant's: it has no other.                                              *)
LEMMA VerifiedKept ==
  ASSUME HandlerInv, PageStep, PageTypes',
         tab'.tenant = tab.tenant,
         \/ tab'.verification # "verified"
         \/ /\ tab'.verification = tab.verification
            /\ tab'.preview = tab.preview \/ tab'.preview = Nobody
            /\ \/ tab'.receipt = tab.receipt
               \/ tab'.receipt \in Activation /\ Found(tab'.receipt)
  PROVE  VerifiedTruly'
<1>1. CASE tab'.verification # "verified"
  BY <1>1 DEF VerifiedTruly
<1>2. CASE tab'.verification = tab.verification /\ tab.verification = "verified"
  <2>1. tab'.receipt \in Activation /\ Found(tab'.receipt) => base[tab.tenant] = tab'.receipt
    BY DEF Found, HandlerInv, ServerInv
  <2>2. /\ tab.receipt # Nobody /\ confirmed[tab.receipt].status = "APPLIED"
        /\ base[tab.tenant] = tab.receipt /\ tab.preview \in {Nobody, tab.receipt}
    BY <1>2 DEF HandlerInv, VerifiedTruly
  <2> QED BY <1>1, <1>2, <2>1, <2>2 DEF VerifiedTruly, PageStep
<1> QED BY <1>1, <1>2

(* What a step of the page leaves as it is. *)
Settled(t) == t.tenant = tab.tenant /\ t.preview = tab.preview /\ t.recovery = tab.recovery
              /\ t.frozen = tab.frozen /\ t.submitted = tab.submitted

LEMMA TabKept ==
  ASSUME HandlerInv, PageStep, tab' \in TabRow, Settled(tab'),
         tab'.retry => tab'.submitted,
         tab'.receipt = tab.receipt \/ tab'.receipt = Nobody \/ Found(tab'.receipt)
  PROVE  TabInv'
<1>1. tab'.frozen.request \in Nat
  BY DEF TabRow
<1> QED BY <1>1 DEF HandlerInv, TabInv, Settled, PageStep, ServerTypes, Found

(* A step of a call on a locked page. *)
LEMMA BusyStep ==
  ASSUME HandlerInv, PageStep, PageTypes', ServerTypes', ServerInv', TabInv', Traffic' <= MaxTraffic,
         NEW s \in Slot, calls[s] # Idle \/ ~tab.pending,
         \A r \in Slot \ {s} : calls'[r] = calls[r] \/ calls'[r] = Idle,
         tab'.tenant = tab.tenant, tab'.submitted,
         tab'.preview = tab.preview \/ Taken \/ \A r \in Slot \ {s} : calls'[r] = Idle,
         \/ tab'.reading = Nobody \/ tab'.reading = s
         \/ tab'.reading = tab.reading /\ tab'.receipt = tab.receipt /\ tab'.preview = tab.preview,
         calls'[s].at # "quote", calls'[s] = Idle \/ tab'.pending \/ Taken,
         tab'.preview \in {Nobody, tab.preview} \/ tab'.preview \notin letGo,
         calls'[s].op = "restore" => calls'[s].id \notin letGo',
         CallOK(s)', VerifiedTruly'
  PROVE  HandlerInv'
<1>1. CrowdInv'
  BY CrowdKept
<1>2. \A r \in Slot \ {s} : CallOK(r)'
  BY OthersOK
<1>3. CallInv'
  BY <1>2 DEF CallInv
<1>4. UnlockedUnsent'
  BY DEF UnlockedUnsent
<1>5. LetGoInv'
  <2>1. letGo' \subseteq letGo /\ Nobody \notin letGo
    BY DEF PageStep, HandlerInv, ServerTypes
  <2>2. \A r \in Slot : calls'[r].op = "restore" => calls'[r].id \notin letGo'
    BY <2>1 DEF HandlerInv, LetGoInv, Idle
  <2> QED BY <2>1, <2>2 DEF HandlerInv, LetGoInv, Barred, PageStep
<1> QED BY <1>1, <1>3, <1>4, <1>5 DEF HandlerInv

(* A step that leaves the network alone. *)
Quiet ==
  /\ UNCHANGED <<serverVars, networkVars, requests>> /\ letGo' \subseteq letGo
  /\ journal' \in [Activation -> Nat] /\ \A c \in Activation : journal'[c] <= requests

LEMMA QuietStep ==
  ASSUME HandlerInv, Quiet
  PROVE  PageStep /\ ServerTypes' /\ ServerInv' /\ Traffic' <= MaxTraffic
<1>1. PageStep
  BY DEF Quiet, PageStep, HandlerInv, ServerTypes, serverVars, networkVars
<1>2. ServerTypes' /\ ServerInv'
  <2>1. ServerTypes'
    BY DEF Quiet, HandlerInv, ServerTypes, serverVars, networkVars
  <2>2. \A c \in letGo' : GivenUp(c)'
    BY DEF Quiet, HandlerInv, ServerInv, GivenUp, Barred, UnderWay, serverVars, networkVars
  <2> QED BY <2>1, <2>2 DEF Quiet, HandlerInv, ServerInv, serverVars, networkVars
<1>3. Traffic' = Traffic
  BY DEF Quiet, Traffic, serverVars, networkVars
<1> QED BY <1>1, <1>2, <1>3 DEF HandlerInv

LEMMA StillQuiet ==
  ASSUME HandlerInv, UNCHANGED <<serverVars, networkVars, requests, letGo, journal>>
  PROVE  Quiet
<1> QED BY DEF Quiet, HandlerInv, ServerTypes

(* A page that is free of commands. *)
LEMMA FreePage ==
  ASSUME PageTypes', ServerTypes', ServerInv', TabInv', Traffic' <= MaxTraffic,
         \A c \in letGo' : tab'.preview = c => Barred(c)',
         ~tab'.submitted, tab'.receipt = Nobody, UnlockedUnsent', tab'.verification # "verified",
         \A s \in Slot :
           \/ calls'[s] = Idle
           \/ /\ calls'[s].at = "quote" /\ calls'[s].op = "quote" /\ calls'[s].got = "none"
              /\ tab'.pending /\ \A r \in Slot \ {s} : calls'[r] = Idle
  PROVE  HandlerInv'
<1>1. CallInv'
  BY RestingOK DEF CallInv
<1>2. CrowdInv'
  BY DEF CrowdInv, Alone, Idle
<1>3. VerifiedTruly'
  BY DEF VerifiedTruly
<1>4. LetGoInv'
  BY DEF LetGoInv, Idle
<1> QED BY <1>1, <1>2, <1>3, <1>4 DEF HandlerInv

(***************************************************************************)
(* The page is cleared                                                     *)
(***************************************************************************)
LEMMA NewTabRow ==
  ASSUME NEW t \in Tenant
  PROVE  /\ NewTab(t) \in TabRow
         /\ NewTab(t).tenant = t /\ NewTab(t).preview = Nobody /\ NewTab(t).receipt = Nobody
         /\ ~NewTab(t).submitted /\ ~NewTab(t).retry /\ ~NewTab(t).pending /\ NewTab(t).frozen.id = Nobody
         /\ NewTab(t).recovery = Nobody /\ NewTab(t).reading = Nobody
         /\ NewTab(t).verification = "idle"
<1> QED BY DEF NewTab, TabRow, Change

LEMMA ClearFlowRow ==
  ASSUME NEW t \in TabRow, NEW keep \in BOOLEAN
  PROVE  /\ ClearFlow(t, keep) \in TabRow
         /\ ClearFlow(t, keep).tenant = t.tenant /\ ClearFlow(t, keep).preview = Nobody
         /\ ClearFlow(t, keep).receipt = Nobody /\ ~ClearFlow(t, keep).submitted
         /\ ~ClearFlow(t, keep).retry
         /\ ~ClearFlow(t, keep).pending /\ ClearFlow(t, keep).frozen.id = Nobody
         /\ ClearFlow(t, keep).recovery = t.recovery /\ ClearFlow(t, keep).reading = Nobody
         /\ ClearFlow(t, keep).verification = "idle"
<1>1. t.tenant \in Tenant /\ t.recovery \in Change /\ t.target \in {"none", "eligible", "readonly"}
  BY DEF TabRow
<1> DEFINE n == NewTab(t.tenant)
<1>2. /\ n \in TabRow /\ n.tenant = t.tenant /\ n.preview = Nobody /\ n.receipt = Nobody
      /\ ~n.submitted /\ ~n.retry /\ ~n.pending /\ n.frozen.id = Nobody /\ n.reading = Nobody
      /\ n.verification = "idle"
  BY <1>1, NewTabRow
<1>3. ClearFlow(t, keep) = [n EXCEPT !.recovery = t.recovery, !.target = IF keep THEN t.target ELSE "none"]
  BY DEF ClearFlow
<1> HIDE DEF n
<1>4. (IF keep THEN t.target ELSE "none") \in {"none", "eligible", "readonly"}
  BY <1>1
<1> QED BY <1>1, <1>2, <1>3, <1>4 DEF TabRow

LEMMA NoCalls == AllDropped \in [Slot -> CallRow] /\ \A s \in Slot : AllDropped[s] = Idle
<1>1. Idle \in CallRow
  BY DEF Idle, CallRow, Change
<1> QED BY <1>1 DEF AllDropped

LEMMA Cleared ==
  ASSUME HandlerInv, ServerTypes', ServerInv', Traffic' <= MaxTraffic, proposed' = proposed,
         calls' = AllDropped, tab' \in TabRow,
         tab'.preview = Nobody, tab'.receipt = Nobody, ~tab'.submitted, ~tab'.retry, tab'.frozen.id = Nobody,
         tab'.recovery = tab.recovery \/ tab'.recovery = Nobody, tab'.verification = "idle"
  PROVE  HandlerInv'
<1>1. TabInv'
  BY DEF TabInv, HandlerInv
<1>2. PageTypes' /\ \A s \in Slot : calls'[s] = Idle
  BY NoCalls DEF PageTypes
<1>3. UnlockedUnsent'
  BY DEF UnlockedUnsent
<1>4. \A c \in letGo' : tab'.preview # c
  BY DEF ServerTypes
<1> QED BY <1>1, <1>2, <1>3, <1>4, FreePage

LEMMA EditTargetKeeps ==
  ASSUME HandlerInv, NEW loading \in BOOLEAN, EditTarget(loading)
  PROVE  HandlerInv'
<1> DEFINE t == ClearFlow(tab, FALSE)
<1>1. tab \in TabRow
  BY DEF HandlerInv, PageTypes
<1>2. /\ t \in TabRow /\ t.preview = Nobody /\ t.receipt = Nobody /\ ~t.submitted
      /\ ~t.retry /\ t.frozen.id = Nobody /\ t.recovery = tab.recovery /\ t.verification = "idle"
  BY <1>1, ClearFlowRow
<1>3. tab' = [t EXCEPT !.loading = loading] /\ calls' = AllDropped
  BY DEF EditTarget
<1> HIDE DEF t
<1>4. /\ tab' \in TabRow /\ tab'.preview = Nobody /\ tab'.receipt = Nobody /\ ~tab'.submitted
      /\ ~tab'.retry /\ tab'.frozen.id = Nobody /\ tab'.recovery = tab.recovery /\ tab'.verification = "idle"
  BY <1>2, <1>3 DEF TabRow
<1>5. ServerTypes' /\ ServerInv' /\ Traffic' <= MaxTraffic /\ proposed' = proposed
  BY QuietStep, StillQuiet DEF EditTarget, serverVars
<1> QED BY <1>3, <1>4, <1>5, Cleared

LEMMA SelectVersionKeeps ==
  ASSUME HandlerInv, SelectVersion
  PROVE  HandlerInv'
<1>1. tab \in TabRow
  BY DEF HandlerInv, PageTypes
<1>2. /\ tab' \in TabRow /\ tab'.preview = Nobody /\ tab'.receipt = Nobody /\ ~tab'.submitted
      /\ ~tab'.retry /\ tab'.frozen.id = Nobody /\ tab'.recovery = tab.recovery /\ tab'.verification = "idle"
  BY <1>1, ClearFlowRow DEF SelectVersion
<1>3. ServerTypes' /\ ServerInv' /\ Traffic' <= MaxTraffic /\ proposed' = proposed
  BY QuietStep, StillQuiet DEF SelectVersion, serverVars
<1> QED BY <1>2, <1>3, Cleared DEF SelectVersion

LEMMA ResetKeeps ==
  ASSUME HandlerInv, NEW t \in Tenant, Reset(t)
  PROVE  HandlerInv'
<1>1. /\ tab' \in TabRow /\ tab'.preview = Nobody /\ tab'.receipt = Nobody /\ ~tab'.submitted
      /\ ~tab'.retry /\ tab'.frozen.id = Nobody /\ tab'.recovery = Nobody /\ tab'.verification = "idle"
  BY NewTabRow DEF Reset
<1>2. Quiet
  <2>1. journal' \in [Activation -> Nat] /\ \A c \in Activation : journal'[c] <= requests
    <3>1. CASE journal' = journal
      BY <3>1 DEF HandlerInv, ServerTypes
    <3>2. CASE journal' # journal
      <4>1. PICK s \in Slot : calls[s].at = "remember"
                              /\ journal' = [journal EXCEPT ![calls[s].id] = calls[s].request]
        BY <3>2 DEF Reset, LateJournal
      <4>2. calls[s].request \in 1..requests
        BY <4>1 DEF HandlerInv, CallInv, CallOK, StageOK
      <4>3. calls[s].request \in Nat /\ calls[s].request <= requests
        BY <4>2 DEF HandlerInv, ServerTypes
      <4>4. journal \in [Activation -> Nat] /\ \A c \in Activation : journal[c] <= requests
        BY DEF HandlerInv, ServerTypes
      <4> QED BY <4>1, <4>3, <4>4
    <3> QED BY <3>1, <3>2
  <2> QED BY <2>1 DEF Quiet, Reset
<1>3. ServerTypes' /\ ServerInv' /\ Traffic' <= MaxTraffic /\ proposed' = proposed
  BY <1>2, QuietStep DEF Quiet, serverVars
<1> QED BY <1>1, <1>3, Cleared DEF Reset

LEMMA LoadedTargetsKeeps ==
  ASSUME HandlerInv, LoadedTargets
  PROVE  HandlerInv'
<1>1. tab \in TabRow
  BY DEF HandlerInv, PageTypes
<1>2. PageStep /\ ServerTypes' /\ ServerInv' /\ Traffic' <= MaxTraffic /\ proposed' = proposed
  BY QuietStep, StillQuiet DEF LoadedTargets, serverVars
<1>3. CASE tab' = [ClearFlow(tab, TRUE) EXCEPT !.target = "eligible"] /\ calls' = AllDropped
  <2> DEFINE t == ClearFlow(tab, TRUE)
  <2>1. /\ t \in TabRow /\ t.preview = Nobody /\ t.receipt = Nobody /\ ~t.submitted
        /\ ~t.retry /\ t.frozen.id = Nobody /\ t.recovery = tab.recovery /\ t.verification = "idle"
    BY <1>1, ClearFlowRow
  <2>2. tab' = [t EXCEPT !.target = "eligible"]
    BY <1>3
  <2> HIDE DEF t
  <2>3. /\ tab' \in TabRow /\ tab'.preview = Nobody /\ tab'.receipt = Nobody /\ ~tab'.submitted
        /\ ~tab'.retry /\ tab'.frozen.id = Nobody /\ tab'.recovery = tab.recovery /\ tab'.verification = "idle"
    BY <2>1, <2>2 DEF TabRow
  <2> QED BY <1>2, <1>3, <2>3, Cleared
<1>4. CASE tab' = [tab EXCEPT !.loading = FALSE] /\ UNCHANGED calls
  <2>1. /\ tab' \in TabRow /\ tab'.tenant = tab.tenant /\ tab'.preview = tab.preview
        /\ tab'.receipt = tab.receipt /\ tab'.frozen = tab.frozen /\ tab'.recovery = tab.recovery
        /\ tab'.submitted = tab.submitted /\ tab'.pending = tab.pending /\ tab'.retry = tab.retry
        /\ tab'.reading = tab.reading /\ tab'.verification = tab.verification
    BY <1>1, <1>4 DEF TabRow
  <2>2. CallInv'
    BY <1>4, <2>1 DEF LoadedTargets, HandlerInv, CallInv, CallOK, AnswerOK, StageOK, ConfirmOK, ReadbackOK,
           Found, Taken, Unsent, UnderWay, Alone, serverVars, networkVars
  <2>3. CrowdInv' /\ TabInv' /\ UnlockedUnsent' /\ VerifiedTruly'
    BY <1>4, <2>1 DEF LoadedTargets, HandlerInv, CrowdInv, TabInv, UnlockedUnsent, VerifiedTruly, Taken, Alone,
           Found, serverVars, networkVars
  <2>4. LetGoInv'
    BY <1>4, <2>1 DEF LoadedTargets, HandlerInv, LetGoInv, Barred, serverVars
  <2> QED BY <1>2, <1>4, <2>1, <2>2, <2>3, <2>4 DEF HandlerInv, PageTypes
<1> QED BY <1>3, <1>4 DEF LoadedTargets

(***************************************************************************)
(* The handlers begin                                                      *)
(***************************************************************************)
LEMMA Started ==
  ASSUME HandlerInv, NEW s \in Slot, NEW op, NEW at, NEW c, NEW request, NEW t,
         [op |-> op, at |-> at, id |-> c, request |-> request, sent |-> 0, found |-> "none",
          got |-> "none"] \in CallRow,
         Start(s, op, at, c, request, t)
  PROVE  /\ calls[s] = Idle /\ tab' = t /\ calls' \in [Slot -> CallRow]
         /\ \A r \in Slot \ {s} : calls'[r] = calls[r]
         /\ calls'[s] = [op |-> op, at |-> at, id |-> c, request |-> request, sent |-> 0,
                         found |-> "none", got |-> "none"]
<1>1. calls \in [Slot -> CallRow]
  BY DEF HandlerInv, PageTypes
<1> QED BY <1>1 DEF Start

LEMMA AllResting ==
  ASSUME HandlerInv, Editable
  PROVE  tab.receipt = Nobody /\ \A s \in Slot : calls[s] = Idle
<1> QED BY DEF HandlerInv, CrowdInv, Editable

LEMMA CreatePreviewKeeps ==
  ASSUME HandlerInv, NEW s \in Slot, CreatePreview(s)
  PROVE  HandlerInv'
<1> DEFINE u == Show(tab, Nobody, "none")
           t == [u EXCEPT !.pending = TRUE, !.verification = "idle"]
<1>1. tab \in TabRow
  BY DEF HandlerInv, PageTypes
<1>2. /\ t \in TabRow /\ t.tenant = tab.tenant /\ t.preview = tab.preview /\ t.receipt = Nobody
      /\ t.frozen = tab.frozen /\ t.recovery = tab.recovery /\ t.submitted = tab.submitted
      /\ t.retry = tab.retry /\ t.pending /\ t.verification = "idle"
  <2>1. /\ u \in TabRow /\ u.tenant = tab.tenant /\ u.preview = tab.preview /\ u.receipt = Nobody
        /\ u.frozen = tab.frozen /\ u.recovery = tab.recovery /\ u.submitted = tab.submitted
        /\ u.retry = tab.retry
    BY <1>1 DEF Show, TabRow, Change
  <2> HIDE DEF u
  <2> QED BY <2>1 DEF TabRow
<1>3. Start(s, "quote", "quote", Nobody, 0, t)
  BY DEF CreatePreview
<1> HIDE DEF t
<1>4. [op |-> "quote", at |-> "quote", id |-> Nobody, request |-> 0, sent |-> 0, found |-> "none",
       got |-> "none"] \in CallRow
  BY DEF CallRow, Change
<1>5. /\ tab' = t /\ calls' \in [Slot -> CallRow] /\ \A r \in Slot \ {s} : calls'[r] = calls[r]
      /\ calls'[s].at = "quote" /\ calls'[s].op = "quote" /\ calls'[s].got = "none"
  BY <1>3, <1>4, Started
<1>6. Editable
  BY DEF CreatePreview
<1>7. Quiet
  BY StillQuiet DEF CreatePreview
<1>8. TabInv' /\ ~tab'.submitted
  BY <1>2, <1>5, <1>6, <1>7, TabKept, QuietStep DEF Settled, Editable, HandlerInv, TabInv
<1>9. UnlockedUnsent'
  BY <1>2, <1>5, <1>6, AllResting DEF CreatePreview, UnlockedUnsent, Idle
<1>10. \A c \in letGo' : tab'.preview = c => Barred(c)'
  BY <1>2, <1>5, <1>7 DEF Quiet, HandlerInv, LetGoInv, Barred, serverVars
<1> QED BY <1>2, <1>5, <1>6, <1>7, <1>8, <1>9, <1>10, QuietStep, AllResting, FreePage DEF PageTypes

(* A call that has been started for change c of the tenant, on a page that *)
(* is locked with it.                                                      *)
LEMMA StartKeeps ==
  ASSUME HandlerInv, Quiet, NEW s \in Slot, NEW op, NEW at, NEW c \in Activation, NEW request \in Nat, NEW t,
         [op |-> op, at |-> at, id |-> c, request |-> request, sent |-> 0, found |-> "none",
          got |-> "none"] \in CallRow,
         Start(s, op, at, c, request, t),
         ~tab.pending, t \in TabRow, t.tenant = tab.tenant, t.preview = tab.preview,
         t.receipt = tab.receipt, t.reading = tab.reading, t.frozen = tab.frozen,
         t.submitted, t.pending, t.recovery # Nobody, proposed[t.recovery] \in Tenant,
         t.verification = tab.verification \/ t.verification = "pending",
         proposed[c] \in Tenant,
         at \in {"read", "resume", "original"},
         op = "retry" => at = "read" /\ c = tab.preview /\ request \in 1..requests,
         op = "restore" => c \notin letGo', at = "original" <=> op = "restore"
  PROVE  HandlerInv'
<1>1. /\ tab' = t /\ calls' \in [Slot -> CallRow]
      /\ \A r \in Slot \ {s} : calls'[r] = calls[r]
      /\ calls'[s] = [op |-> op, at |-> at, id |-> c, request |-> request, sent |-> 0,
                      found |-> "none", got |-> "none"]
  BY Started
<1>2. PageStep /\ ServerTypes' /\ ServerInv' /\ Traffic' <= MaxTraffic
  BY QuietStep
<1>3. TabInv'
  BY <1>1 DEF Quiet, serverVars, TabInv, HandlerInv, Found
<1>4. CallOK(s)'
  <2>1. /\ calls'[s].op = op /\ calls'[s].at = at /\ calls'[s].id = c /\ calls'[s].request = request
        /\ calls'[s].got = "none"
    BY <1>1
  <2>2. AnswerOK(calls[s])'
    BY <2>1 DEF AnswerOK, Known
  <2>3. StageOK(calls[s])'
    <3>1. proposed' = proposed /\ requests' = requests
      BY DEF Quiet, serverVars
    <3>2. c = tab.preview => proposed[c] = tab.tenant
      BY DEF HandlerInv, TabInv
    <3> QED BY <1>1, <2>1, <3>1, <3>2 DEF StageOK
  <2> QED BY <2>1, <2>2, <2>3 DEF CallOK, ConfirmOK, ReadbackOK
<1>5. VerifiedTruly'
  BY <1>1, <1>2, VerifiedKept DEF PageTypes
<1>6. calls'[s].op = "restore" => calls'[s].id \notin letGo'
  BY <1>1
<1>7. calls'[s].at # "quote"
  BY <1>1
<1> QED BY <1>1, <1>2, <1>3, <1>4, <1>5, <1>6, <1>7, BusyStep DEF PageTypes

LEMMA RefreshResultKeeps ==
  ASSUME HandlerInv, NEW s \in Slot, RefreshResult(s)
  PROVE  HandlerInv'
<1> DEFINE t == [tab EXCEPT !.pending = TRUE, !.verification = "pending"]
<1>1. tab \in TabRow
  BY DEF HandlerInv, PageTypes
<1>2. /\ t \in TabRow /\ t.tenant = tab.tenant /\ t.preview = tab.preview /\ t.receipt = tab.receipt
      /\ t.reading = tab.reading /\ t.frozen = tab.frozen /\ t.recovery = tab.recovery
      /\ t.submitted = tab.submitted /\ t.pending /\ t.verification = "pending"
  BY <1>1 DEF TabRow
<1>3. Start(s, "refresh", "read", tab.preview, 0, t)
  BY DEF RefreshResult
<1> HIDE DEF t
<1>4. tab.submitted /\ tab.recovery # Nobody /\ proposed[tab.recovery] \in Tenant
  BY DEF RefreshResult, HandlerInv, CrowdInv, TabInv
<1>5. tab.preview \in Activation /\ proposed[tab.preview] \in Tenant
  BY <1>1 DEF RefreshResult, HandlerInv, TabInv, TabRow, Change
<1>6. [op |-> "refresh", at |-> "read", id |-> tab.preview, request |-> 0, sent |-> 0,
       found |-> "none", got |-> "none"] \in CallRow
  BY <1>5 DEF CallRow, Change, Reads
<1>7. Quiet /\ ~tab.pending
  BY StillQuiet DEF RefreshResult
<1> QED BY <1>2, <1>3, <1>4, <1>5, <1>6, <1>7, StartKeeps

LEMMA RetryTaskKeeps ==
  ASSUME HandlerInv, NEW s \in Slot, RetryTask(s)
  PROVE  HandlerInv'
<1> DEFINE t == [tab EXCEPT !.pending = TRUE]
<1>1. tab \in TabRow
  BY DEF HandlerInv, PageTypes
<1>2. /\ t \in TabRow /\ t.tenant = tab.tenant /\ t.preview = tab.preview /\ t.receipt = tab.receipt
      /\ t.reading = tab.reading /\ t.frozen = tab.frozen /\ t.recovery = tab.recovery
      /\ t.submitted = tab.submitted /\ t.pending /\ t.verification = tab.verification
  BY <1>1 DEF TabRow
<1>3. Start(s, "resume", "resume", tab.receipt, 0, t)
  BY DEF RetryTask
<1> HIDE DEF t
<1>4. tab.submitted /\ tab.recovery # Nobody /\ proposed[tab.recovery] \in Tenant
  BY DEF RetryTask, HandlerInv, CrowdInv, TabInv
<1>5. tab.receipt \in Activation /\ proposed[tab.receipt] \in Tenant
  BY <1>1 DEF RetryTask, HandlerInv, TabInv, TabRow, Change, Found
<1>6. [op |-> "resume", at |-> "resume", id |-> tab.receipt, request |-> 0, sent |-> 0,
       found |-> "none", got |-> "none"] \in CallRow
  BY <1>5 DEF CallRow, Change, Reads
<1>7. Quiet /\ ~tab.pending
  BY StillQuiet DEF RetryTask
<1> QED BY <1>2, <1>3, <1>4, <1>5, <1>6, <1>7, StartKeeps

LEMMA RestoreSubmissionKeeps ==
  ASSUME HandlerInv, NEW s \in Slot, NEW c \in Activation, RestoreSubmission(s, c)
  PROVE  HandlerInv'
<1> DEFINE t == [tab EXCEPT !.recovery = c, !.pending = TRUE, !.submitted = TRUE, !.retry = FALSE]
<1>1. tab \in TabRow
  BY DEF HandlerInv, PageTypes
<1>2. /\ t \in TabRow /\ t.tenant = tab.tenant /\ t.preview = tab.preview /\ t.receipt = tab.receipt
      /\ t.reading = tab.reading /\ t.frozen = tab.frozen /\ t.recovery = c
      /\ t.submitted /\ t.pending /\ t.verification = tab.verification
  BY <1>1 DEF TabRow, Change
<1>3. Start(s, "restore", "original", c, 0, t)
  BY DEF RestoreSubmission
<1> HIDE DEF t
<1>4. c # Nobody /\ proposed[c] \in Tenant
  BY DEF RestoreSubmission, HandlerInv, ServerTypes
<1>5. [op |-> "restore", at |-> "original", id |-> c, request |-> 0, sent |-> 0,
       found |-> "none", got |-> "none"] \in CallRow
  BY DEF CallRow, Change, Reads
<1>6. Quiet /\ ~tab.pending /\ c \notin letGo'
  BY DEF RestoreSubmission, Quiet, HandlerInv, ServerTypes
<1> QED BY <1>2, <1>3, <1>4, <1>5, <1>6, StartKeeps

LEMMA RetryOriginalKeeps ==
  ASSUME HandlerInv, NEW s \in Slot, RetryOriginalConfirmation(s)
  PROVE  HandlerInv'
<1> DEFINE t == [tab EXCEPT !.pending = TRUE, !.retry = FALSE]
<1>1. tab \in TabRow
  BY DEF HandlerInv, PageTypes
<1>2. /\ t \in TabRow /\ t.tenant = tab.tenant /\ t.preview = tab.preview /\ t.receipt = tab.receipt
      /\ t.reading = tab.reading /\ t.frozen = tab.frozen /\ t.recovery = tab.recovery
      /\ t.submitted = tab.submitted /\ t.pending /\ t.verification = tab.verification
  BY <1>1 DEF TabRow
<1>3. Start(s, "retry", "read", tab.preview, tab.frozen.request, t)
  BY DEF RetryOriginalConfirmation
<1> HIDE DEF t
<1>4. tab.submitted /\ tab.recovery # Nobody /\ proposed[tab.recovery] \in Tenant
  BY DEF RetryOriginalConfirmation, HandlerInv, TabInv
<1>5. tab.preview \in Activation /\ proposed[tab.preview] \in Tenant
  BY <1>1 DEF RetryOriginalConfirmation, HandlerInv, TabInv, TabRow, Change
<1>6. tab.frozen.request \in 1..requests /\ tab.frozen.request \in Nat
  BY <1>1 DEF RetryOriginalConfirmation, HandlerInv, TabInv, TabRow
<1>7. [op |-> "retry", at |-> "read", id |-> tab.preview, request |-> tab.frozen.request, sent |-> 0,
       found |-> "none", got |-> "none"] \in CallRow
  BY <1>5, <1>6 DEF CallRow, Change, Reads
<1>8. Quiet /\ ~tab.pending
  BY StillQuiet DEF RetryOriginalConfirmation
<1> QED BY <1>2, <1>3, <1>4, <1>5, <1>6, <1>7, <1>8, StartKeeps

LEMMA ConfirmPreviewKeeps ==
  ASSUME HandlerInv, NEW s \in Slot, ConfirmPreview(s)
  PROVE  HandlerInv'
<1> DEFINE f == [id |-> tab.preview, request |-> requests']
           t == [tab EXCEPT !.pending = TRUE, !.submitted = TRUE, !.recovery = tab.preview,
                            !.frozen = f]
<1>1. tab \in TabRow /\ requests \in Nat /\ requests' = requests + 1
  BY DEF HandlerInv, PageTypes, ServerTypes, ConfirmPreview
<1>2. tab.preview \in Activation /\ proposed[tab.preview] = tab.tenant /\ tab.tenant \in Tenant
  BY <1>1 DEF ConfirmPreview, HandlerInv, TabInv, TabRow, Change
<1>3. /\ t \in TabRow /\ t.tenant = tab.tenant /\ t.preview = tab.preview /\ t.receipt = tab.receipt
      /\ t.reading = tab.reading /\ t.frozen.id = tab.preview /\ t.frozen.request = requests'
      /\ t.recovery = tab.preview /\ t.submitted /\ t.pending /\ t.retry = tab.retry
      /\ t.verification = tab.verification
  <2>1. /\ f \in [id : Change, request : Nat] /\ f.id = tab.preview /\ f.request = requests'
        /\ tab.preview \in Change
    BY <1>1, <1>2 DEF Change
  <2> HIDE DEF f
  <2>2. /\ t \in TabRow /\ t.frozen = f /\ t.recovery = tab.preview
    BY <1>1, <2>1 DEF TabRow
  <2>3. /\ t.tenant = tab.tenant /\ t.preview = tab.preview /\ t.receipt = tab.receipt
        /\ t.reading = tab.reading /\ t.submitted /\ t.pending /\ t.retry = tab.retry
        /\ t.verification = tab.verification
    BY <1>1, <2>1 DEF TabRow
  <2> QED BY <2>1, <2>2, <2>3
<1>4. Start(s, "confirm", "remember", tab.preview, requests', t)
  BY DEF ConfirmPreview
<1> HIDE DEF t
<1>5. [op |-> "confirm", at |-> "remember", id |-> tab.preview, request |-> requests', sent |-> 0,
       found |-> "none", got |-> "none"] \in CallRow
  BY <1>1, <1>2 DEF CallRow, Change
<1>6. /\ tab' = t /\ calls' \in [Slot -> CallRow] /\ \A r \in Slot \ {s} : calls'[r] = calls[r]
      /\ calls'[s] = [op |-> "confirm", at |-> "remember", id |-> tab.preview, request |-> requests',
                      sent |-> 0, found |-> "none", got |-> "none"]
  BY <1>4, <1>5, Started
<1>7. /\ calls'[s].op = "confirm" /\ calls'[s].at = "remember" /\ calls'[s].id = tab.preview
      /\ calls'[s].request = requests' /\ calls'[s].got = "none"
  BY <1>6
<1>8. Editable /\ UNCHANGED <<serverVars, networkVars, journal, letGo>>
  BY DEF ConfirmPreview
<1>9. PageStep
  BY <1>1, <1>8 DEF PageStep, HandlerInv, ServerTypes, serverVars, networkVars
<1>10. ServerTypes' /\ ServerInv'
  <2>1. ServerTypes'
    BY <1>1, <1>8 DEF HandlerInv, ServerTypes, serverVars, networkVars
  <2>2. \A c \in letGo' : GivenUp(c)'
    BY <1>8 DEF HandlerInv, ServerInv, GivenUp, Barred, UnderWay, serverVars, networkVars
  <2> QED BY <1>1, <1>8, <2>1, <2>2 DEF HandlerInv, ServerTypes, ServerInv, serverVars, networkVars, Message
<1>11. Traffic' <= MaxTraffic
  <2> DEFINE n == Cardinality({c \in Activation : proposed[c] # Nobody})
  <2>1. Traffic' = 2 * n + requests' + sends /\ Traffic = 2 * n + requests + sends /\ Traffic < MaxTraffic
    BY <1>8 DEF Traffic, ConfirmPreview, serverVars, networkVars
  <2>2. n \in Nat /\ sends \in Nat
    BY DEF HandlerInv, ServerTypes
  <2> HIDE DEF n
  <2> QED BY <1>1, <2>1, <2>2
<1>12. TabInv'
  BY <1>1, <1>2, <1>3, <1>6, <1>8 DEF TabInv, HandlerInv, serverVars, Found
<1>13. CallOK(s)'
  <2>1. AnswerOK(calls[s])'
    BY <1>7 DEF AnswerOK, Known, Reads
  <2>2. StageOK(calls[s])'
    BY <1>1, <1>2, <1>3, <1>6, <1>7, <1>8 DEF StageOK, serverVars
  <2>3. ConfirmOK(s)'
    <3>1. Alone(s)'
      BY <1>6, <1>8, AllResting DEF Alone
    <3>2. Unsent(tab.preview) /\ ~tab.retry
      BY <1>2, <1>8 DEF HandlerInv, UnlockedUnsent, Unsent, Editable, TabInv
    <3> QED BY <1>3, <1>6, <1>7, <1>8, <3>1, <3>2 DEF ConfirmOK, Unsent, serverVars, networkVars
  <2> QED BY <1>7, <2>1, <2>2, <2>3 DEF CallOK, ReadbackOK
<1>14. VerifiedTruly'
  BY <1>3, <1>6, <1>9, VerifiedKept DEF PageTypes
<1> QED BY <1>3, <1>6, <1>7, <1>8, <1>9, <1>10, <1>11, <1>12, <1>13, <1>14, BusyStep DEF PageTypes, Editable

(***************************************************************************)
(* The handlers go on                                                      *)
(***************************************************************************)
(* What a call that runs knows of the page. *)
LEMMA Running ==
  ASSUME HandlerInv, NEW s \in Slot, calls[s].at \notin {"none", "quote"}
  PROVE  /\ calls[s] # Idle /\ calls[s] \in CallRow /\ tab \in TabRow /\ CallOK(s)
         /\ calls[s].id \in Activation /\ proposed[calls[s].id] \in Tenant
         /\ tab.submitted /\ tab.recovery \in Activation /\ proposed[tab.recovery] \in Tenant
         /\ tab.pending \/ Taken
<1>1. calls[s] # Idle /\ calls[s].at # "none" /\ calls[s].at # "quote"
  BY DEF Idle
<1>2. calls[s] \in CallRow /\ tab \in TabRow /\ CallOK(s)
  BY DEF HandlerInv, PageTypes, CallInv
<1>3. calls[s].id \in Activation /\ proposed[calls[s].id] \in Tenant
  BY <1>1, <1>2 DEF CallOK, StageOK, CallRow, Change
<1>4. tab.submitted /\ (tab.pending \/ Taken)
  BY <1>1 DEF HandlerInv, CrowdInv
<1>5. tab.recovery \in Activation /\ proposed[tab.recovery] \in Tenant
  BY <1>2, <1>4 DEF HandlerInv, TabInv, TabRow, Change
<1> QED BY <1>1, <1>2, <1>3, <1>4, <1>5

LEMMA Shown ==
  ASSUME NEW t \in TabRow, NEW c \in Change, NEW status \in {"none"} \cup Known
  PROVE  /\ Show(t, c, status) \in TabRow
         /\ Show(t, c, status).receipt = c /\ Show(t, c, status).reading = Nobody
         /\ Show(t, c, status).tenant = t.tenant /\ Show(t, c, status).preview = t.preview
         /\ Show(t, c, status).recovery = t.recovery /\ Show(t, c, status).frozen = t.frozen
         /\ Show(t, c, status).submitted = t.submitted /\ Show(t, c, status).retry = t.retry
         /\ Show(t, c, status).pending = t.pending /\ Show(t, c, status).verification = t.verification
<1>1. /\ Show(t, c, status) \in TabRow
      /\ Show(t, c, status).receipt = c /\ Show(t, c, status).reading = Nobody
  BY DEF Show, TabRow
<1>2. /\ Show(t, c, status).tenant = t.tenant /\ Show(t, c, status).preview = t.preview
      /\ Show(t, c, status).recovery = t.recovery /\ Show(t, c, status).frozen = t.frozen
  BY DEF Show, TabRow
<1>3. /\ Show(t, c, status).submitted = t.submitted /\ Show(t, c, status).retry = t.retry
      /\ Show(t, c, status).pending = t.pending /\ Show(t, c, status).verification = t.verification
  BY DEF Show, TabRow
<1> QED BY <1>1, <1>2, <1>3

(* A tab that shows the receipt it showed before, with the readback under  *)
(* way, or another receipt of the tenant's.                                *)
ShowsOwn(t) ==
  \/ t.receipt = tab.receipt /\ t.reading = tab.reading
  \/ t.receipt \in Activation /\ Found(t.receipt) /\ t.reading = Nobody

(* A call ends on a page that stays locked. *)
LEMMA FinishKeeps ==
  ASSUME HandlerInv, Quiet, NEW s \in Slot, calls[s].at \notin {"none", "quote"}, NEW t \in TabRow,
         Settled(t), ShowsOwn(t),
         \/ t.verification = tab.verification \/ t.verification # "verified"
         \/ /\ t.receipt # Nobody /\ confirmed[t.receipt].status = "APPLIED"
            /\ base[tab.tenant] = t.receipt /\ t.preview \in {Nobody, t.receipt},
         Finish(s, t)
  PROVE  HandlerInv'
<1>1. calls[s] # Idle /\ tab.submitted /\ calls \in [Slot -> CallRow]
  BY Running DEF HandlerInv, PageTypes
<1>2. /\ tab' \in TabRow /\ Settled(tab') /\ tab'.receipt = t.receipt /\ tab'.reading = t.reading
      /\ tab'.verification = t.verification
  BY DEF Finish, TabRow, Settled
<1>3. /\ calls' \in [Slot -> CallRow] /\ calls'[s] = Idle
      /\ \A r \in Slot \ {s} : calls'[r] = calls[r]
  <2>1. Idle \in CallRow
    BY DEF Idle, CallRow, Change
  <2> QED BY <1>1, <2>1 DEF Finish
<1>4. PageStep /\ ServerTypes' /\ ServerInv' /\ Traffic' <= MaxTraffic
  BY QuietStep
<1>5. TabInv'
  BY <1>1, <1>2, <1>4, TabKept DEF ShowsOwn, Settled
<1>6. VerifiedTruly'
  <2>1. CASE t.verification = tab.verification \/ t.verification # "verified"
    BY <1>2, <1>3, <1>4, <2>1, VerifiedKept DEF PageTypes, ShowsOwn, Settled
  <2>2. CASE /\ t.receipt # Nobody /\ confirmed[t.receipt].status = "APPLIED"
             /\ base[tab.tenant] = t.receipt /\ t.preview \in {Nobody, t.receipt}
    BY <1>2, <1>4, <2>2 DEF VerifiedTruly, PageStep, Settled
  <2> QED BY <2>1, <2>2
<1>7. CallOK(s)' /\ calls'[s].at # "quote" /\ calls'[s].op # "restore"
  BY <1>3, RestingOK DEF Idle
<1> QED BY <1>1, <1>2, <1>3, <1>4, <1>5, <1>6, <1>7, BusyStep DEF PageTypes, ShowsOwn, Settled

(* A call goes on to its next await. *)
LEMMA Went ==
  ASSUME HandlerInv, NEW s \in Slot, NEW c \in Change, NEW t,
         NEW at \in {"read", "reread", "task", "prepared", "proposal"},
         Ask(s, at, c, t)
  PROVE  /\ tab' = t /\ calls' \in [Slot -> CallRow]
         /\ \A r \in Slot \ {s} : calls'[r] = calls[r]
         /\ calls'[s].op = calls[s].op /\ calls'[s].at = at /\ calls'[s].id = c /\ calls'[s].got = "none"
<1> DEFINE y == [Idle EXCEPT !.op = calls[s].op, !.at = at, !.id = c]
<1>1. calls \in [Slot -> CallRow] /\ Idle \in CallRow /\ Idle.got = "none"
  BY DEF HandlerInv, PageTypes, Idle, CallRow, Change
<1>2. y \in CallRow /\ y.op = calls[s].op /\ y.at = at /\ y.id = c /\ y.got = "none"
  BY <1>1 DEF CallRow, Reads
<1>3. tab' = t /\ calls' = [calls EXCEPT ![s] = y]
  BY DEF Ask
<1> HIDE DEF y
<1> QED BY <1>1, <1>2, <1>3

LEMMA AskKeeps ==
  ASSUME HandlerInv, Quiet, NEW s \in Slot, calls[s].at \notin {"none", "quote"}, NEW t \in TabRow,
         Settled(t), t.pending = tab.pending, t.retry = tab.retry, ShowsOwn(t),
         t.verification = tab.verification \/ t.verification # "verified",
         NEW c \in Activation, proposed[c] \in Tenant,
         NEW at \in {"read", "reread", "task", "prepared", "proposal"},
         at \in {"task", "reread", "prepared"} => Found(c),
         at = "proposal" => calls[s].op = "restore",
         calls[s].op = "restore" => c = calls[s].id /\ at \in {"proposal", "task", "reread"},
         at = "prepared" => calls[s].at = "sent" /\ calls[s].op = "confirm"
                            /\ c = calls[s].id /\ t.receipt # Nobody,
         calls[s].op = "retry" => c = calls[s].id /\ at \in {"task", "reread"},
         Ask(s, at, c, t)
  PROVE  HandlerInv'
<1>1. calls[s] # Idle /\ CallOK(s) /\ tab.submitted /\ (tab.pending \/ Taken)
  BY Running
<1>2. /\ tab' = t /\ calls' \in [Slot -> CallRow]
      /\ \A r \in Slot \ {s} : calls'[r] = calls[r]
      /\ calls'[s].op = calls[s].op /\ calls'[s].at = at /\ calls'[s].id = c /\ calls'[s].got = "none"
  BY Went DEF Change
<1>3. PageStep /\ ServerTypes' /\ ServerInv' /\ Traffic' <= MaxTraffic
  BY QuietStep
<1>4. TabInv'
  BY <1>1, <1>2, <1>3, TabKept DEF ShowsOwn, Settled
<1>5. VerifiedTruly'
  BY <1>2, <1>3, VerifiedKept DEF PageTypes, ShowsOwn, Settled
<1>6. CallOK(s)'
  <2>1. AnswerOK(calls[s])'
    BY <1>2 DEF AnswerOK, Known
  <2>2. StageOK(calls[s])'
    <3>1. UNCHANGED <<proposed, outdated, confirmed, base>>
      BY DEF Quiet, serverVars
    <3>2. at \notin {"remember", "sent", "plan"} /\ at # "none" /\ at # "quote" /\ c # Nobody
      OBVIOUS
    <3>3. calls[s].op = "retry" => proposed[c] = tab.tenant /\ (c = tab.preview \/ Taken)
      BY <1>1 DEF CallOK, StageOK
    <3> QED BY <1>2, <3>1, <3>2, <3>3 DEF StageOK, Found, Taken, Settled
  <2>3. ConfirmOK(s)'
    <3>1. CASE at = "prepared"
      <4>1. tab.pending /\ ~tab.retry /\ Alone(s) /\ c = tab.preview /\ t.receipt # Nobody
        BY <1>1, <3>1 DEF CallOK, ConfirmOK
      <4> QED BY <1>2, <3>1, <4>1 DEF ConfirmOK, Alone, Settled
    <3>2. CASE at # "prepared"
      BY <1>2, <3>2 DEF ConfirmOK, Reads
    <3> QED BY <3>1, <3>2
  <2> QED BY <1>2, <2>1, <2>2, <2>3 DEF CallOK, ReadbackOK, Reads
<1>7. calls'[s].at # "quote" /\ (calls'[s].op = "restore" => calls'[s].id \notin letGo')
  BY <1>2, <1>3 DEF HandlerInv, LetGoInv, PageStep
<1> QED BY <1>1, <1>2, <1>3, <1>4, <1>5, <1>6, <1>7, BusyStep DEF PageTypes, ShowsOwn, Settled

(* recoverConcurrentActivation goes on to its next read. *)
LEMMA ReconcileKeeps ==
  ASSUME HandlerInv, Quiet, NEW s \in Slot, calls[s].at \notin {"none", "quote"},
         NEW y \in CallRow, y.op \in {"confirm", "resent"}, y.at \in {"reconcile", "subscription"},
         y.id \in Activation, proposed[y.id] = tab.tenant, y.got = "none",
         y.found = "alone" => Taken \/ ~UnderWay(y.id),
         tab' = tab, calls' = [calls EXCEPT ![s] = y]
  PROVE  HandlerInv'
<1>1. calls[s] # Idle /\ tab \in TabRow /\ tab.submitted /\ (tab.pending \/ Taken)
  BY Running
<1>2. calls \in [Slot -> CallRow] /\ tab.tenant \in Tenant
  BY <1>1 DEF HandlerInv, PageTypes, TabRow
<1>3. calls' \in [Slot -> CallRow] /\ calls'[s] = y /\ \A r \in Slot \ {s} : calls'[r] = calls[r]
  BY <1>2
<1>4. PageStep /\ ServerTypes' /\ ServerInv' /\ Traffic' <= MaxTraffic
  BY QuietStep
<1>5. UNCHANGED <<proposed, confirmed, base, wire>>
  BY DEF Quiet, serverVars, networkVars
<1>6. TabInv' /\ VerifiedTruly'
  BY <1>4, <1>5 DEF HandlerInv, TabInv, VerifiedTruly, Found, Quiet
<1>7. CallOK(s)'
  <2>1. AnswerOK(calls[s])'
    BY <1>3 DEF AnswerOK, Known
  <2>2. StageOK(calls[s])'
    BY <1>2, <1>3, <1>5 DEF StageOK, Taken, UnderWay
  <2> QED BY <1>3, <2>1, <2>2 DEF CallOK, ConfirmOK, ReadbackOK
<1>8. calls'[s].at # "quote" /\ calls'[s].op # "restore"
  BY <1>3
<1> QED BY <1>1, <1>3, <1>4, <1>6, <1>7, <1>8, BusyStep DEF PageTypes

(* verifyReadback begins, for a receipt that is applied. *)
LEMMA VerifyKeeps ==
  ASSUME HandlerInv, Quiet, NEW s \in Slot, calls[s].at \notin {"none", "quote"}, NEW t \in TabRow,
         Settled(t), t.pending = tab.pending, t.retry = tab.retry,
         t.receipt \in Activation, Found(t.receipt), confirmed[t.receipt].status = "APPLIED",
         VerifyReadback(s, t)
  PROVE  HandlerInv'
<1> DEFINE own == IF t.preview \in {Nobody, t.receipt} THEN "own" ELSE "other"
           y == [Idle EXCEPT !.op = "verify", !.at = "readback", !.id = t.receipt, !.found = own]
<1>1. calls[s] # Idle /\ tab.submitted /\ (tab.pending \/ Taken)
  BY Running
<1>2. /\ tab' \in TabRow /\ Settled(tab') /\ tab'.receipt = t.receipt /\ tab'.reading = s
      /\ tab'.pending = t.pending /\ tab'.retry = t.retry /\ tab'.verification = "pending"
  BY DEF VerifyReadback, TabRow, Settled
<1>3. calls \in [Slot -> CallRow] /\ Idle \in CallRow /\ Idle.got = "none"
  BY DEF HandlerInv, PageTypes, Idle, CallRow, Change
<1>4. own \in {"own", "other"} /\ (own = "own" => t.preview \in {Nobody, t.receipt})
  OBVIOUS
<1>5. calls' = [calls EXCEPT ![s] = y]
  BY DEF VerifyReadback
<1> HIDE DEF own
<1>6. /\ y \in CallRow /\ y.op = "verify" /\ y.at = "readback" /\ y.id = t.receipt /\ y.found = own
      /\ y.got = "none"
  BY <1>3, <1>4 DEF CallRow, Change
<1> HIDE DEF y
<1>7. /\ calls' \in [Slot -> CallRow] /\ \A r \in Slot \ {s} : calls'[r] = calls[r]
      /\ calls'[s].op = "verify" /\ calls'[s].at = "readback" /\ calls'[s].id = t.receipt
      /\ calls'[s].found = own /\ calls'[s].got = "none"
  BY <1>3, <1>5, <1>6
<1>8. PageStep /\ ServerTypes' /\ ServerInv' /\ Traffic' <= MaxTraffic
  BY QuietStep
<1>9. TabInv'
  BY <1>1, <1>2, <1>8, TabKept DEF Settled
<1>10. VerifiedTruly'
  BY <1>2 DEF VerifiedTruly
<1>11. CallOK(s)'
  <2>1. AnswerOK(calls[s])'
    BY <1>7 DEF AnswerOK, Known, Reads
  <2>2. StageOK(calls[s])'
    <3>1. proposed[t.receipt] \in Tenant
      BY DEF Found, HandlerInv, ServerInv
    <3> QED BY <1>7, <1>8, <3>1 DEF StageOK, PageStep
  <2>3. ReadbackOK(s)'
    BY <1>2, <1>4, <1>7, <1>8 DEF ReadbackOK, Settled, PageStep
  <2> QED BY <1>7, <2>1, <2>2, <2>3 DEF CallOK, ConfirmOK
<1>12. calls'[s].at # "quote" /\ calls'[s].op # "restore"
  BY <1>7
<1> QED BY <1>1, <1>2, <1>7, <1>8, <1>9, <1>10, <1>11, <1>12, BusyStep DEF PageTypes, Settled

(* The command leaves the browser. *)
LEMMA SendKeeps ==
  ASSUME HandlerInv, NEW s \in Slot,
         calls[s].at = "remember" \/ (calls[s].op = "retry" /\ calls[s].at = "read"),
         UNCHANGED <<serverVars, requests, letGo>>,
         journal' \in [Activation -> Nat], \A c \in Activation : journal'[c] <= requests,
         Send(s, tab)
  PROVE  HandlerInv'
<1> DEFINE x == calls[s]
           m == [id |-> x.id, request |-> x.request, number |-> sends']
<1>1. /\ x # Idle /\ x \in CallRow /\ tab \in TabRow /\ CallOK(s) /\ x.id \in Activation
      /\ proposed[x.id] \in Tenant /\ tab.submitted /\ (tab.pending \/ Taken)
  BY Running
<1>2. calls \in [Slot -> CallRow] /\ sends \in Nat /\ requests \in Nat
  BY DEF HandlerInv, PageTypes, ServerTypes
<1>3. tab' = tab /\ sends' = sends + 1 /\ wire' = wire \cup {m} /\ Traffic < MaxTraffic
  BY DEF Send
<1>4. /\ calls' \in [Slot -> CallRow] /\ \A r \in Slot \ {s} : calls'[r] = calls[r]
      /\ calls'[s].at = "sent" /\ calls'[s].sent = sends' /\ calls'[s].got = "none"
      /\ calls'[s].id = x.id /\ calls'[s].request = x.request
      /\ calls'[s].op = IF x.op = "retry" THEN "resent" ELSE x.op
  <2> DEFINE op == IF x.op = "retry" THEN "resent" ELSE x.op
             y == [x EXCEPT !.at = "sent", !.sent = sends', !.got = "none", !.op = op]
  <2>1. calls' = [calls EXCEPT ![s] = y] /\ sends' \in Nat
    BY <1>2, <1>3 DEF Send
  <2>2. op \in {"idle", "quote", "confirm", "refresh", "resume", "restore", "retry", "resent", "verify"}
    BY <1>1 DEF CallRow
  <2> HIDE DEF op, x
  <2>3. /\ y \in CallRow /\ y.at = "sent" /\ y.sent = sends' /\ y.got = "none" /\ y.op = op
        /\ y.id = x.id /\ y.request = x.request
    BY <1>1, <2>1, <2>2 DEF CallRow
  <2> HIDE DEF y
  <2> QED BY <1>2, <2>1, <2>3 DEF op
<1>5. /\ proposed[x.id] = tab.tenant /\ (x.id = tab.preview \/ Taken)
      /\ x.request \in 1..requests /\ x.op \in {"confirm", "retry"} 
      /\ x.op = "confirm" => x.at = "remember"
  BY <1>1 DEF CallOK, StageOK
<1>6. m \in Message /\ m.id = x.id /\ m.request = x.request /\ m.number = sends'
  BY <1>1, <1>2, <1>3 DEF Message, CallRow
<1> HIDE DEF m
<1>7. \A n \in wire : n.number \in Nat /\ n.number <= sends /\ proposed[n.id] \in Tenant /\ n.request \in 1..requests
  BY DEF HandlerInv, ServerInv, ServerTypes, Message
<1>8. PageStep
  BY <1>2, <1>3, <1>6 DEF PageStep, serverVars
<1>9. ServerTypes'
  BY <1>2, <1>3, <1>6 DEF HandlerInv, ServerTypes, serverVars
<1>10. ServerInv'
  <2>1. \A n \in wire' : proposed'[n.id] \in Tenant /\ n.request \in 1..requests' /\ n.number <= sends'
    BY <1>1, <1>2, <1>3, <1>5, <1>6, <1>7 DEF serverVars
  <2>2. \A n, o \in wire' : n.number = o.number => n = o
    BY <1>2, <1>3, <1>6, <1>7 DEF HandlerInv, ServerInv
  <2>3. ASSUME NEW c \in letGo
        PROVE  GivenUp(c)'
    <3>1. GivenUp(c)
      BY DEF HandlerInv, ServerInv
    <3>2. CASE m.id = c
      <4>1. Barred(c)
        BY <1>5, <1>6, <3>2 DEF HandlerInv, LetGoInv, Barred, Taken
      <4> QED BY <3>1, <4>1 DEF GivenUp, Barred, serverVars
    <3>3. CASE m.id # c
      BY <1>3, <3>1, <3>3 DEF GivenUp, Barred, UnderWay, serverVars
    <3> QED BY <3>2, <3>3
  <2> QED BY <2>1, <2>2, <2>3 DEF HandlerInv, ServerInv, serverVars
<1>11. Traffic' <= MaxTraffic
  <2> DEFINE p == Cardinality({c \in Activation : proposed[c] # Nobody})
  <2>1. Traffic' = 2 * p + requests + sends' /\ Traffic = 2 * p + requests + sends
    BY DEF Traffic, serverVars
  <2>2. p \in Nat
    BY DEF HandlerInv, ServerTypes
  <2> HIDE DEF p
  <2> QED BY <1>2, <1>3, <2>1, <2>2
<1>12. TabInv' /\ VerifiedTruly'
  BY <1>3 DEF HandlerInv, TabInv, VerifiedTruly, Found, serverVars
<1>13. CallOK(s)'
  <2>1. AnswerOK(calls[s])'
    BY <1>4 DEF AnswerOK, Known, Reads
  <2>2. StageOK(calls[s])'
    <3>1. \A n \in wire' : n.number = sends' => n.id = x.id
      BY <1>2, <1>3, <1>6, <1>7
    <3> QED BY <1>1, <1>2, <1>3, <1>4, <1>5, <3>1 DEF StageOK, Taken, serverVars
  <2>3. ConfirmOK(s)'
    <3>1. CASE x.op = "retry"
      BY <1>4, <3>1 DEF ConfirmOK
    <3>2. CASE x.op = "confirm"
      <4>1. tab.pending /\ ~tab.retry /\ Alone(s) /\ x.id = tab.preview /\ Unsent(x.id)
        BY <1>1, <1>5, <3>2 DEF CallOK, ConfirmOK
      <4>2. \A n \in wire' : n.id = x.id => n.number = sends'
        BY <1>3, <1>6, <4>1 DEF Unsent
      <4>3. Alone(s)'
        BY <1>4, <4>1 DEF Alone
      <4> QED BY <1>3, <1>4, <4>1, <4>2, <4>3 DEF ConfirmOK, Unsent, serverVars
    <3> QED BY <1>5, <3>1, <3>2
  <2> QED BY <1>4, <2>1, <2>2, <2>3 DEF CallOK, ReadbackOK
<1>14. calls'[s].at # "quote" /\ calls'[s].op # "restore"
  BY <1>4, <1>5
<1> QED BY <1>1, <1>3, <1>4, <1>8, <1>9, <1>10, <1>11, <1>12, <1>13, <1>14, BusyStep DEF PageTypes, HandlerInv

(* confirmPreview was refused before its command was admitted, and unlocks *)
(* the page: the command is gone and nothing else runs.                    *)
LEMMA UnlockKeeps ==
  ASSUME HandlerInv, Quiet, NEW s \in Slot,
         calls[s].op = "confirm", calls[s].at = "sent", calls[s].got = "denied", tab.receipt = Nobody,
         Finish(s, [tab EXCEPT !.submitted = FALSE])
  PROVE  HandlerInv'
<1>1. tab \in TabRow /\ CallOK(s) /\ calls \in [Slot -> CallRow]
  BY Running DEF HandlerInv, PageTypes
<1>2. tab.pending /\ ~tab.retry /\ Alone(s) /\ calls[s].id = tab.preview /\ Unsent(tab.preview)
  BY <1>1 DEF CallOK, ConfirmOK
<1> DEFINE u == [tab EXCEPT !.submitted = FALSE]
<1>3. /\ u \in TabRow /\ u.tenant = tab.tenant /\ u.preview = tab.preview /\ u.receipt = Nobody
      /\ u.frozen = tab.frozen /\ u.recovery = tab.recovery /\ ~u.submitted /\ ~u.retry
      /\ u.verification = tab.verification
  BY <1>1, <1>2 DEF TabRow
<1>4. tab' = [u EXCEPT !.pending = FALSE] /\ calls' = [calls EXCEPT ![s] = Idle]
  BY DEF Finish
<1> HIDE DEF u
<1>5. /\ tab' \in TabRow /\ tab'.tenant = tab.tenant /\ tab'.preview = tab.preview /\ tab'.receipt = Nobody
      /\ tab'.frozen = tab.frozen /\ tab'.recovery = tab.recovery /\ ~tab'.submitted /\ ~tab'.retry
      /\ tab'.verification = tab.verification
  BY <1>3, <1>4 DEF TabRow
<1>6. calls' \in [Slot -> CallRow] /\ \A r \in Slot : calls'[r] = Idle
  <2>1. Idle \in CallRow
    BY DEF Idle, CallRow, Change
  <2> QED BY <1>1, <1>2, <1>4, <2>1 DEF Alone
<1>7. PageStep /\ ServerTypes' /\ ServerInv' /\ Traffic' <= MaxTraffic
  BY QuietStep
<1>8. TabInv'
  BY <1>5 DEF HandlerInv, TabInv, Quiet, serverVars
<1>9. tab'.verification # "verified"
  BY <1>5 DEF HandlerInv, VerifiedTruly
<1>10. UnlockedUnsent'
  BY <1>2, <1>5, <1>6 DEF UnlockedUnsent, Unsent, Quiet, serverVars, networkVars, Idle
<1>11. \A c \in letGo' : tab'.preview = c => Barred(c)'
  BY <1>5 DEF Quiet, HandlerInv, LetGoInv, Barred, serverVars
<1> QED BY <1>5, <1>6, <1>7, <1>8, <1>9, <1>10, <1>11, FreePage DEF PageTypes

(* What an await brings is the answer in hand, or an error. *)
LEMMA Arrived ==
  ASSUME NEW x, NEW got \in Arrives(x),
         x.at \in Reads \cup {"sent", "subscription"}
  PROVE  got = "error" \/ (got = x.got /\ got # "none")
<1> QED BY DEF Arrives, Reads

(* The tab that shows the receipt a call has got. *)
LEMMA ShowsAnswer ==
  ASSUME HandlerInv, NEW s \in Slot, calls[s].at \notin {"none", "quote"}, calls[s].got \in Known
  PROVE  LET t == Show(tab, calls[s].id, calls[s].got) IN
         /\ t \in TabRow /\ Settled(t) /\ ShowsOwn(t) /\ t.pending = tab.pending /\ t.retry = tab.retry
         /\ t.verification = tab.verification /\ t.receipt = calls[s].id /\ t.reading = Nobody
         /\ t.receipt \in Activation /\ Found(t.receipt)
<1>1. tab \in TabRow /\ CallOK(s) /\ calls[s].id \in Activation
  BY Running
<1>2. Found(calls[s].id)
  BY <1>1 DEF CallOK, AnswerOK
<1> DEFINE t == Show(tab, calls[s].id, calls[s].got)
<1>3. /\ t \in TabRow /\ t.receipt = calls[s].id /\ t.reading = Nobody
      /\ t.tenant = tab.tenant /\ t.preview = tab.preview
      /\ t.recovery = tab.recovery /\ t.frozen = tab.frozen
      /\ t.submitted = tab.submitted /\ t.retry = tab.retry
      /\ t.pending = tab.pending /\ t.verification = tab.verification
  <2>1. calls[s].id \in Change /\ calls[s].got \in {"none"} \cup Known
    BY <1>1 DEF Change
  <2> DEFINE c == calls[s].id
             got == calls[s].got
  <2> HIDE DEF c, got
  <2>2. t = Show(tab, c, got) /\ c \in Change /\ got \in {"none"} \cup Known
    BY <2>1 DEF c, got
  <2> HIDE DEF t
  <2>3. /\ t \in TabRow /\ t.receipt = c /\ t.reading = Nobody
        /\ t.tenant = tab.tenant /\ t.preview = tab.preview
        /\ t.recovery = tab.recovery /\ t.frozen = tab.frozen
        /\ t.submitted = tab.submitted /\ t.retry = tab.retry
        /\ t.pending = tab.pending /\ t.verification = tab.verification
    BY <1>1, <2>2, Shown
  <2> QED BY <2>3 DEF c
<1> HIDE DEF t
<1>4. Settled(t) /\ ShowsOwn(t)
  BY <1>1, <1>2, <1>3 DEF Settled, ShowsOwn
<1> QED BY <1>1, <1>2, <1>3, <1>4 DEF t

(* readResult for the change the page is about. *)
LEMMA ReadResultKeeps ==
  ASSUME HandlerInv, Quiet, NEW s \in Slot, calls[s].at \notin {"none", "quote"}, NEW t \in TabRow,
         Settled(t), t.pending = tab.pending, t.retry = tab.retry, ShowsOwn(t),
         t.verification = tab.verification, calls[s].op \notin {"retry", "restore"}, ReadResult(s, t)
  PROVE  HandlerInv'
<1>1. PICK c : /\ Ask(s, "read", c, t)
               /\ c = IF t.preview # Nobody THEN t.preview ELSE t.recovery
  BY DEF ReadResult
<1>2. tab \in TabRow /\ tab.recovery \in Activation /\ proposed[tab.recovery] \in Tenant
  BY Running
<1>3. c \in Activation /\ proposed[c] \in Tenant
  BY <1>1, <1>2 DEF HandlerInv, TabInv, TabRow, Change, Settled
<1> QED BY <1>1, <1>3, AskKeeps

LEMMA ConfirmedKeeps ==
  ASSUME HandlerInv, NEW s \in Slot, NEW got \in Arrives(calls[s]), Confirmed(s, got)
  PROVE  HandlerInv'
<1> DEFINE x == calls[s]
           t == Show(tab, x.id, got)
<1>1. x.at = "sent" /\ Quiet
  BY StillQuiet DEF Confirmed
<1>2. /\ tab \in TabRow /\ CallOK(s) /\ x \in CallRow /\ x.id \in Activation
      /\ tab.recovery \in Activation /\ proposed[tab.recovery] \in Tenant
  BY <1>1, Running
<1>3. x.op \in {"confirm", "resent"} /\ proposed[x.id] = tab.tenant /\ (x.id = tab.preview \/ Taken)
  BY <1>1, <1>2 DEF CallOK, StageOK
<1>4. got = "error" \/ (got = x.got /\ got \in Known \cup {"refused", "denied"})
  <2>1. got = "error" \/ (got = x.got /\ got # "none")
    BY <1>1, Arrived
  <2> QED BY <1>1, <1>2, <2>1 DEF CallOK, AnswerOK, CallRow
<1>5. Settled(tab) /\ ShowsOwn(tab)
  BY DEF Settled, ShowsOwn
<1>6. got \in Known =>
        /\ t \in TabRow /\ Settled(t) /\ ShowsOwn(t) /\ t.pending = tab.pending /\ t.retry = tab.retry
        /\ t.verification = tab.verification /\ t.receipt = x.id /\ t.reading = Nobody /\ Found(x.id)
  BY <1>1, <1>4, ShowsAnswer DEF Known
<1>7. CASE got = "refused"
  <2>1. RecoverConcurrentActivation(s)
    BY <1>7 DEF Confirmed, Rejected, Fault, Known
  <2>2. CASE tab.preview = Nobody
    BY <1>1, <1>2, <1>5, <2>1, <2>2, FinishKeeps DEF RecoverConcurrentActivation
  <2>3. CASE tab.preview # Nobody
    <3> DEFINE others == IF UnderWay(tab.preview) THEN "others" ELSE "alone"
               y == [Idle EXCEPT !.op = x.op, !.at = "reconcile", !.id = tab.preview, !.found = others]
    <3>1. tab.preview \in Activation /\ proposed[tab.preview] = tab.tenant
      BY <1>2, <2>3 DEF TabRow, Change, HandlerInv, TabInv
    <3>2. tab' = tab /\ calls' = [calls EXCEPT ![s] = y]
      BY <2>1, <2>3 DEF RecoverConcurrentActivation
    <3>3. others \in {"alone", "others"} /\ (others = "alone" => ~UnderWay(tab.preview))
      OBVIOUS
    <3>4. Idle \in CallRow /\ Idle.got = "none" /\ x.op \in {"confirm", "resent"}
      BY <1>3 DEF Idle, CallRow, Change
    <3> HIDE DEF x, others
    <3>5. /\ y \in CallRow /\ y.op = x.op /\ y.at = "reconcile" /\ y.id = tab.preview /\ y.found = others
          /\ y.got = "none"
      BY <3>1, <3>3, <3>4 DEF CallRow, Change, Reads
    <3> HIDE DEF y
    <3>6. y.found = "alone" => Taken \/ ~UnderWay(y.id)
      BY <3>3, <3>5
    <3> QED BY <1>1, <3>1, <3>2, <3>4, <3>5, <3>6, ReconcileKeeps DEF x
  <2> QED BY <2>2, <2>3
<1>8. CASE got \in Fault
  <2>1. CASE x.op = "confirm" /\ tab.receipt = Nobody /\ got = "denied"
    <3>1. Finish(s, [tab EXCEPT !.submitted = FALSE]) /\ x.got = "denied"
      BY <1>4, <2>1 DEF Confirmed, Rejected, Fault, Unlocked, Known
    <3> QED BY <1>1, <2>1, <3>1, UnlockKeeps
  <2>2. CASE ~(x.op = "confirm" /\ tab.receipt = Nobody /\ got = "denied")
    <3>1. Finish(s, tab)
      BY <1>3, <1>8, <2>2 DEF Confirmed, Rejected, Fault, Unlocked, Known
    <3> QED BY <1>1, <1>2, <1>5, <3>1, FinishKeeps
  <2> QED BY <2>1, <2>2
<1>9. CASE got \in Known /\ x.op = "resent"
  <2>1. ReadResult(s, t)
    BY <1>9 DEF Confirmed, Rejected, Fault, Known
  <2> HIDE DEF t
  <2> QED BY <1>1, <1>6, <1>9, <2>1, ReadResultKeeps
<1>10. CASE got = "APPLIED" /\ x.op = "confirm"
  <2>1. VerifyReadback(s, t)
    BY <1>10 DEF Confirmed, Rejected, Fault
  <2>2. confirmed[x.id].status = "APPLIED"
    BY <1>2, <1>4, <1>10 DEF CallOK, AnswerOK
  <2> HIDE DEF t
  <2> QED BY <1>1, <1>2, <1>6, <1>10, <2>1, <2>2, VerifyKeeps DEF Known
<1>11. CASE got = "PROVISIONING" /\ x.op = "confirm"
  <2> DEFINE u == [t EXCEPT !.verification = "pending"]
  <2>1. Ask(s, "prepared", x.id, u)
    BY <1>11 DEF Confirmed, Rejected, Fault, Await
  <2> HIDE DEF t
  <2>2. /\ u \in TabRow /\ u.tenant = t.tenant /\ u.preview = t.preview /\ u.recovery = t.recovery
        /\ u.frozen = t.frozen /\ u.submitted = t.submitted /\ u.pending = tab.pending /\ u.retry = tab.retry
        /\ u.verification = "pending" /\ u.receipt = x.id /\ u.reading = Nobody
    BY <1>6, <1>11 DEF TabRow, Known
  <2>3. Settled(t) /\ Found(x.id)
    BY <1>6, <1>11 DEF Known
  <2> HIDE DEF u
  <2>4. Settled(u) /\ ShowsOwn(u)
    BY <1>2, <2>2, <2>3 DEF Settled, ShowsOwn
  <2>5. proposed[x.id] \in Tenant /\ u.receipt # Nobody
    BY <1>2, <1>3, <2>2 DEF TabRow
  <2> QED BY <1>1, <1>2, <1>11, <2>1, <2>2, <2>3, <2>4, <2>5, AskKeeps
<1> QED BY <1>3, <1>4, <1>7, <1>8, <1>9, <1>10, <1>11 DEF Known, Fault

LEMMA RememberKeeps ==
  ASSUME HandlerInv, NEW s \in Slot, Remember(s)
  PROVE  HandlerInv'
<1>1. calls[s].at = "remember" /\ UNCHANGED <<serverVars, requests, letGo>>
  BY DEF Remember
<1>2. tab \in TabRow /\ CallOK(s) /\ calls[s].id \in Activation
  BY <1>1, Running
<1>3. calls[s].request \in Nat /\ calls[s].request <= requests
  BY <1>1, <1>2 DEF CallOK, StageOK, HandlerInv, ServerTypes
<1>4. CASE Send(s, tab) /\ journal' \in {journal, [journal EXCEPT ![calls[s].id] = calls[s].request]}
  <2>1. journal \in [Activation -> Nat] /\ \A c \in Activation : journal[c] <= requests
    BY DEF HandlerInv, ServerTypes
  <2>2. journal' \in [Activation -> Nat] /\ \A c \in Activation : journal'[c] <= requests
    BY <1>2, <1>3, <1>4, <2>1
  <2> QED BY <1>1, <1>4, <2>2, SendKeeps
<1>5. CASE Finish(s, tab) /\ UNCHANGED <<journal, networkVars>>
  <2>1. Quiet /\ Settled(tab) /\ ShowsOwn(tab)
    BY <1>1, <1>5, StillQuiet DEF Settled, ShowsOwn
  <2> QED BY <1>1, <1>2, <1>5, <2>1, FinishKeeps
<1> QED BY <1>4, <1>5 DEF Remember

LEMMA PreparedKeeps ==
  ASSUME HandlerInv, NEW s \in Slot, NEW got, Prepared(s, got)
  PROVE  HandlerInv'
<1>1. calls[s].at = "prepared" /\ Quiet /\ Settled(tab) /\ ShowsOwn(tab)
  BY StillQuiet DEF Prepared, Settled, ShowsOwn
<1>2. tab \in TabRow /\ CallOK(s)
  BY <1>1, Running
<1>3. tab.receipt # Nobody
  BY <1>1, <1>2 DEF CallOK, StageOK, ConfirmOK
<1>4. Finish(s, tab)
  BY <1>3 DEF Prepared, Unlocked
<1> QED BY <1>1, <1>2, <1>4, FinishKeeps

LEMMA ResumedKeeps ==
  ASSUME HandlerInv, NEW s \in Slot, NEW got, Resumed(s, got)
  PROVE  HandlerInv'
<1>1. calls[s].at = "resume" /\ Quiet /\ Settled(tab) /\ ShowsOwn(tab)
  BY StillQuiet DEF Resumed, Settled, ShowsOwn
<1>2. tab \in TabRow /\ calls[s].op \notin {"retry", "restore"}
  BY <1>1, Running DEF CallOK, StageOK
<1>3. CASE got = "refused"
  BY <1>1, <1>2, <1>3, ReadResultKeeps DEF Resumed
<1>4. CASE got # "refused"
  BY <1>1, <1>2, <1>4, FinishKeeps DEF Resumed
<1> QED BY <1>3, <1>4

LEMMA TaskReadKeeps ==
  ASSUME HandlerInv, NEW s \in Slot, NEW got, TaskRead(s, got)
  PROVE  HandlerInv'
<1>1. calls[s].at = "task" /\ Quiet /\ Settled(tab) /\ ShowsOwn(tab)
  BY StillQuiet DEF TaskRead, Settled, ShowsOwn
<1>2. /\ tab \in TabRow /\ calls[s].id \in Activation /\ proposed[calls[s].id] \in Tenant
      /\ Found(calls[s].id)
  BY <1>1, Running DEF CallOK, StageOK
<1>3. CASE got = "applied"
  <2>1. Ask(s, "reread", calls[s].id, tab)
    BY <1>3 DEF TaskRead, Await
  <2> QED BY <1>1, <1>2, <2>1, AskKeeps DEF Reads
<1>4. CASE got # "applied"
  BY <1>1, <1>2, <1>4, FinishKeeps DEF TaskRead
<1> QED BY <1>3, <1>4

LEMMA ReadBackKeeps ==
  ASSUME HandlerInv, NEW s \in Slot, NEW got \in Arrives(calls[s]), ReadBack(s, got)
  PROVE  HandlerInv'
<1> DEFINE x == calls[s]
<1>1. x.at = "readback" /\ UNCHANGED <<serverVars, networkVars, requests, letGo>>
  BY DEF ReadBack
<1>2. tab \in TabRow /\ CallOK(s) /\ x.id \in Activation
  BY <1>1, Running
<1>3. CASE Current(s) /\ got = "matches"
  <2> DEFINE t == [tab EXCEPT !.verification = "verified"]
  <2>1. Finish(s, t) /\ journal' \in {journal, [journal EXCEPT ![x.id] = 0]}
    BY <1>3 DEF ReadBack
  <2>2. x.found = "own" /\ base[tab.tenant] = x.id
    BY <1>1, <1>3 DEF Arrives, ReadbackMatches
  <2>3. x.id = tab.receipt /\ confirmed[x.id].status = "APPLIED" /\ tab.preview \in {Nobody, tab.receipt}
    BY <1>1, <1>2, <1>3, <2>2 DEF Current, CallOK, ReadbackOK
  <2>4. Quiet
    <3>1. journal \in [Activation -> Nat] /\ \A c \in Activation : journal[c] <= requests
          /\ requests \in Nat
      BY DEF HandlerInv, ServerTypes
    <3>2. journal' \in [Activation -> Nat] /\ \A c \in Activation : journal'[c] <= requests
      BY <1>2, <2>1, <3>1
    <3> QED BY <1>1, <3>2 DEF Quiet
  <2>5. /\ t \in TabRow /\ t.tenant = tab.tenant /\ t.preview = tab.preview /\ t.recovery = tab.recovery
        /\ t.frozen = tab.frozen /\ t.submitted = tab.submitted
        /\ t.receipt = tab.receipt /\ t.reading = tab.reading
    BY <1>2 DEF TabRow
  <2> HIDE DEF t
  <2>6. Settled(t) /\ ShowsOwn(t)
    BY <2>5 DEF Settled, ShowsOwn
  <2>7. t.receipt # Nobody
    BY <1>2, <2>3, <2>5
  <2> QED BY <1>1, <2>1, <2>2, <2>3, <2>4, <2>5, <2>6, <2>7, FinishKeeps
<1>4. CASE Current(s) /\ got # "matches"
  <2> DEFINE t == [tab EXCEPT !.verification = "failed"]
  <2>1. Finish(s, t) /\ Quiet
    BY <1>1, <1>4, StillQuiet DEF ReadBack
  <2>2. /\ t \in TabRow /\ t.tenant = tab.tenant /\ t.preview = tab.preview /\ t.recovery = tab.recovery
        /\ t.frozen = tab.frozen /\ t.submitted = tab.submitted
        /\ t.receipt = tab.receipt /\ t.reading = tab.reading /\ t.verification # "verified"
    BY <1>2 DEF TabRow
  <2> HIDE DEF t
  <2>3. Settled(t) /\ ShowsOwn(t)
    BY <2>2 DEF Settled, ShowsOwn
  <2> QED BY <1>1, <2>1, <2>2, <2>3, FinishKeeps
<1>5. CASE ~Current(s)
  <2>1. Finish(s, tab) /\ Quiet /\ Settled(tab) /\ ShowsOwn(tab)
    BY <1>1, <1>5, StillQuiet DEF ReadBack, Settled, ShowsOwn
  <2> QED BY <1>1, <1>2, <2>1, FinishKeeps
<1> QED BY <1>3, <1>4, <1>5

LEMMA ReadKeeps ==
  ASSUME HandlerInv, NEW s \in Slot, NEW got \in Arrives(calls[s]), Read(s, got)
  PROVE  HandlerInv'
<1> DEFINE x == calls[s]
           t == Show(tab, x.id, got)
<1>1. x.at \in {"read", "reread"} /\ UNCHANGED <<serverVars, journal, requests, letGo>>
  BY DEF Read
<1>2. /\ tab \in TabRow /\ CallOK(s) /\ x \in CallRow /\ x.id \in Activation
      /\ proposed[x.id] \in Tenant
  BY <1>1, Running
<1>3. got = "error" \/ (got = x.got /\ got \in Known \cup {"absent"})
  <2>1. got = "error" \/ (got = x.got /\ got # "none")
    BY <1>1, Arrived DEF Reads
  <2> QED BY <1>1, <1>2, <2>1 DEF CallOK, AnswerOK, CallRow, Reads
<1>4. got \in Known =>
        /\ t \in TabRow /\ Settled(t) /\ ShowsOwn(t) /\ t.pending = tab.pending /\ t.retry = tab.retry
        /\ t.verification = tab.verification /\ t.receipt = x.id /\ t.reading = Nobody /\ Found(x.id)
  BY <1>1, <1>3, ShowsAnswer DEF Known
<1>5. CASE got = "APPLIED"
  <2>1. VerifyReadback(s, t) /\ Quiet
    BY <1>1, <1>5, StillQuiet DEF Read, Fault
  <2>2. confirmed[x.id].status = "APPLIED"
    BY <1>2, <1>3, <1>5 DEF CallOK, AnswerOK
  <2> HIDE DEF t
  <2> QED BY <1>1, <1>2, <1>4, <1>5, <2>1, <2>2, VerifyKeeps DEF Known
<1>6. CASE got = "PROVISIONING" /\ x.at = "read"
  <2> DEFINE u == [t EXCEPT !.verification = "pending"]
  <2>1. Ask(s, "task", x.id, u) /\ Quiet
    BY <1>1, <1>6, StillQuiet DEF Read, Fault, Await
  <2> HIDE DEF t
  <2>2. /\ u \in TabRow /\ u.tenant = t.tenant /\ u.preview = t.preview /\ u.recovery = t.recovery
        /\ u.frozen = t.frozen /\ u.submitted = t.submitted /\ u.pending = tab.pending /\ u.retry = tab.retry
        /\ u.verification = "pending" /\ u.receipt = x.id /\ u.reading = Nobody
    BY <1>4, <1>6 DEF TabRow, Known
  <2>3. Settled(t) /\ Found(x.id)
    BY <1>4, <1>6 DEF Known
  <2> HIDE DEF u
  <2>4. Settled(u) /\ ShowsOwn(u)
    BY <1>2, <2>2, <2>3 DEF Settled, ShowsOwn
  <2> QED BY <1>1, <1>2, <2>1, <2>2, <2>3, <2>4, AskKeeps
<1>7. CASE got = "PROVISIONING" /\ x.at = "reread"
  <2>1. Finish(s, t) /\ Quiet
    BY <1>1, <1>7, StillQuiet DEF Read, Fault
  <2> HIDE DEF t
  <2> QED BY <1>1, <1>4, <1>7, <2>1, FinishKeeps DEF Known
<1>8. CASE got = "absent" /\ x.op = "retry"
  <2>1. Send(s, tab)
    BY <1>1, <1>8 DEF Read, Fault
  <2>2. x.at = "read"
    BY <1>1, <1>2, <1>3, <1>8 DEF CallOK, AnswerOK, Known
  <2>3. journal' \in [Activation -> Nat] /\ \A c \in Activation : journal'[c] <= requests
    BY <1>1 DEF HandlerInv, ServerTypes
  <2> QED BY <1>1, <1>8, <2>1, <2>2, <2>3, SendKeeps
<1>9. CASE x.op = "refresh" /\ got \in Fault \cup {"absent"}
  <2> DEFINE again == got = "absent" /\ tab.frozen.id # Nobody
             u == [tab EXCEPT !.retry = again]
  <2>1. Finish(s, u) /\ Quiet
    BY <1>1, <1>9, StillQuiet DEF Read, Fault
  <2>2. again \in BOOLEAN
    OBVIOUS
  <2> HIDE DEF again
  <2>3. /\ u \in TabRow /\ u.tenant = tab.tenant /\ u.preview = tab.preview /\ u.recovery = tab.recovery
        /\ u.frozen = tab.frozen /\ u.submitted = tab.submitted
        /\ u.receipt = tab.receipt /\ u.reading = tab.reading /\ u.verification = tab.verification
    BY <1>2, <2>2 DEF TabRow
  <2> HIDE DEF u
  <2>4. Settled(u) /\ ShowsOwn(u)
    BY <2>3 DEF Settled, ShowsOwn
  <2> QED BY <1>1, <2>1, <2>3, <2>4, FinishKeeps
<1>10. CASE got \notin Known /\ ~(got = "absent" /\ x.op = "retry")
            /\ ~(x.op = "refresh" /\ got \in Fault \cup {"absent"})
  <2>1. Finish(s, tab) /\ Quiet /\ Settled(tab) /\ ShowsOwn(tab)
    BY <1>1, <1>10, StillQuiet DEF Read, Known, Settled, ShowsOwn
  <2> QED BY <1>1, <1>2, <2>1, FinishKeeps
<1> QED BY <1>1, <1>5, <1>6, <1>7, <1>8, <1>9, <1>10 DEF Known

LEMMA ReconciledKeeps ==
  ASSUME HandlerInv, NEW s \in Slot, NEW got \in Arrives(calls[s]), Reconciled(s, got)
  PROVE  HandlerInv'
<1> DEFINE x == calls[s]
           t == Show(tab, x.id, got)
<1>1. x.at \in {"reconcile", "subscription"} /\ UNCHANGED <<serverVars, networkVars, journal, requests>>
  BY DEF Reconciled
<1>2. /\ tab \in TabRow /\ CallOK(s) /\ x.id \in Activation
      /\ proposed[x.id] = tab.tenant /\ proposed[x.id] \in Tenant /\ x \in CallRow
      /\ x.op \in {"confirm", "resent"}
      /\ x.found = "alone" => Taken \/ ~UnderWay(x.id)
  BY <1>1, Running DEF CallOK, StageOK
<1>3. got = "error" \/ (got = x.got /\ got # "none")
  BY <1>1, Arrived DEF Reads
<1>4. Settled(tab) /\ ShowsOwn(tab)
  BY DEF Settled, ShowsOwn
<1>5. CASE x.at = "reconcile" /\ got = "absent"
  <2> DEFINE y == [x EXCEPT !.at = "subscription", !.got = "none"]
  <2>1. tab' = tab /\ calls' = [calls EXCEPT ![s] = y] /\ Quiet
    BY <1>1, <1>5, StillQuiet DEF Reconciled, Absent, Known
  <2>2. /\ y \in CallRow /\ y.at = "subscription" /\ y.got = "none" /\ y.op = x.op /\ y.id = x.id
        /\ y.found = x.found
    <3> HIDE DEF x
    <3> QED BY <1>2 DEF CallRow
  <2> HIDE DEF y
  <2> QED BY <1>1, <1>2, <2>1, <2>2, ReconcileKeeps
<1>6. CASE x.at = "reconcile" /\ got \in Known
  <2>1. ReadResult(s, t) /\ Quiet
    BY <1>1, <1>6, StillQuiet DEF Reconciled, Absent, Known
  <2>2. /\ t \in TabRow /\ Settled(t) /\ ShowsOwn(t) /\ t.pending = tab.pending /\ t.retry = tab.retry
        /\ t.verification = tab.verification
    BY <1>1, <1>3, <1>6, ShowsAnswer DEF Known
  <2> HIDE DEF t
  <2> QED BY <1>1, <1>2, <2>1, <2>2, ReadResultKeeps
<1>7. CASE x.at = "subscription" /\ got = "absent"
  <2> DEFINE c == ClearFlow(tab, FALSE)
  <2>1. /\ tab' = [c EXCEPT !.recovery = Nobody] /\ calls' = AllDropped
        /\ letGo' = IF x.found = "alone" THEN letGo \cup {x.id} ELSE letGo
    BY <1>7 DEF Reconciled, Absent, Known
  <2>2. /\ c \in TabRow /\ c.preview = Nobody /\ c.receipt = Nobody /\ ~c.submitted
        /\ ~c.retry /\ c.frozen.id = Nobody /\ c.verification = "idle"
    BY <1>2, ClearFlowRow
  <2> HIDE DEF c
  <2>3. /\ tab' \in TabRow /\ tab'.preview = Nobody /\ tab'.receipt = Nobody /\ ~tab'.submitted
        /\ ~tab'.retry /\ tab'.frozen.id = Nobody /\ tab'.recovery = Nobody /\ tab'.verification = "idle"
    BY <2>1, <2>2 DEF TabRow, Change
  <2>4. x.found = "alone" => GivenUp(x.id)
    <3>1. x.found = "alone" => confirmed[x.id] = Unconfirmed
      BY <1>2, <1>3, <1>7 DEF CallOK, StageOK
    <3> QED BY <1>2, <3>1 DEF GivenUp, Barred, Taken
  <2>5. ServerTypes' /\ ServerInv'
    <3>1. \A d \in letGo' : GivenUp(d)
      BY <2>1, <2>4 DEF HandlerInv, ServerInv
    <3>2. \A d \in letGo' : GivenUp(d)'
      BY <1>1, <3>1 DEF GivenUp, Barred, UnderWay, serverVars, networkVars
    <3>3. ServerTypes'
      BY <1>1, <1>2, <2>1 DEF HandlerInv, ServerTypes, serverVars, networkVars
    <3> QED BY <1>1, <3>2, <3>3 DEF HandlerInv, ServerInv, serverVars, networkVars
  <2>6. Traffic' <= MaxTraffic /\ proposed' = proposed
    <3>1. Traffic' = Traffic
      BY <1>1 DEF Traffic, serverVars, networkVars
    <3> QED BY <1>1, <3>1 DEF HandlerInv, serverVars
  <2> QED BY <2>1, <2>3, <2>5, <2>6, Cleared
<1>8. CASE /\ ~(x.at = "reconcile" /\ got = "absent") /\ ~(x.at = "reconcile" /\ got \in Known)
           /\ ~(x.at = "subscription" /\ got = "absent")
  <2>1. Finish(s, tab) /\ Quiet
    BY <1>1, <1>8, StillQuiet DEF Reconciled, Absent
  <2> QED BY <1>1, <1>2, <1>4, <2>1, FinishKeeps
<1> QED BY <1>5, <1>6, <1>7, <1>8

(* A read is answered from the state of the moment. *)
LEMMA ServeKeeps ==
  ASSUME HandlerInv, NEW s \in Slot, Serve(s)
  PROVE  HandlerInv'
<1> DEFINE x == calls[s]
           answer == IF x.at # "subscription" THEN ReceiptOf(x.id)
                     ELSE IF base[tab.tenant] = Nobody THEN "absent" ELSE "present"
<1>1. /\ x.at \in {"read", "reread", "original", "reconcile", "subscription"} /\ x.got = "none"
      /\ tab' = tab /\ Quiet
  BY StillQuiet DEF Serve
<1>2. /\ tab \in TabRow /\ CallOK(s) /\ x \in CallRow /\ x # Idle /\ x.id \in Activation
      /\ tab.submitted /\ (tab.pending \/ Taken)
  BY <1>1, Running
<1>3. calls' = [calls EXCEPT ![s].got = answer]
  BY DEF Serve
<1>4. /\ answer \in {"absent", "present"} \cup Known
      /\ x.at # "subscription" => answer # "present" /\ (answer = "absent" => ~Found(x.id))
      /\ answer \in Known => Found(x.id) /\ answer = confirmed[x.id].status
      /\ x.at = "subscription" /\ answer = "absent" => ~Taken
  <2>1. confirmed[x.id] \in ReceiptRow
    BY <1>2 DEF HandlerInv, ServerTypes
  <2>2. confirmed[x.id] # Unconfirmed => confirmed[x.id].status \in Known
    BY <2>1 DEF ReceiptRow
  <2>3. CASE x.at = "subscription"
    BY <2>3 DEF Known, Taken
  <2>4. CASE x.at # "subscription"
    BY <2>2, <2>4 DEF Known, ReceiptOf, Found
  <2> QED BY <2>3, <2>4
<1> HIDE DEF answer
<1>5. calls \in [Slot -> CallRow]
  BY DEF HandlerInv, PageTypes
<1>6. /\ calls' \in [Slot -> CallRow] /\ \A r \in Slot \ {s} : calls'[r] = calls[r]
      /\ calls'[s].got = answer /\ calls'[s].op = x.op /\ calls'[s].at = x.at /\ calls'[s].id = x.id
      /\ calls'[s].request = x.request /\ calls'[s].found = x.found
  BY <1>3, <1>4, <1>5 DEF CallRow
<1>7. PageStep /\ ServerTypes' /\ ServerInv' /\ Traffic' <= MaxTraffic
  BY <1>1, QuietStep
<1>8. TabInv' /\ VerifiedTruly'
  BY <1>1 DEF HandlerInv, TabInv, VerifiedTruly, Found, Quiet, serverVars
<1>9. UNCHANGED <<proposed, outdated, confirmed, base, requests, wire>>
  BY <1>1 DEF Quiet, serverVars, networkVars
<1>10. CallOK(s)'
  <2>1. x.at = "reread" => Found(x.id)
    BY <1>2 DEF CallOK, StageOK
  <2>2. AnswerOK(calls[s])'
    BY <1>1, <1>4, <1>6, <1>9, <2>1 DEF AnswerOK, Found, Known, Reads
  <2>3. x.at = "subscription" /\ answer = "absent" => confirmed[x.id] = Unconfirmed
    BY <1>2, <1>4 DEF CallOK, StageOK, Taken, HandlerInv, ServerInv
  <2>4. StageOK(calls[s])'
    BY <1>1, <1>2, <1>6, <1>9, <2>3 DEF CallOK, StageOK, Found, Taken, UnderWay
  <2> QED BY <1>1, <1>6, <2>2, <2>4 DEF CallOK, ConfirmOK, ReadbackOK
<1>11. calls'[s].at # "quote" /\ (calls'[s].op = "restore" => calls'[s].id \notin letGo')
  BY <1>1, <1>6 DEF HandlerInv, LetGoInv, Quiet
<1> QED BY <1>1, <1>2, <1>6, <1>7, <1>8, <1>10, <1>11, BusyStep DEF PageTypes

(* The original is in place again: only what the watchers did not clear is *)
(* left of the page, and of the other calls.                               *)
LEMMA ReinstalledRow ==
  ASSUME HandlerInv, NEW s \in Slot, calls[s] # Idle, NEW t \in Reinstalled
  PROVE  /\ t \in TabRow /\ t.tenant = tab.tenant
         /\ \/ t = tab
            \/ t.verification = "idle" /\ ~t.pending
<1>1. tab \in TabRow
  BY DEF HandlerInv, PageTypes
<1> QED BY <1>1, ClearFlowRow DEF Reinstalled

LEMMA RestoredKeeps ==
  ASSUME HandlerInv, NEW s \in Slot, NEW got \in Arrives(calls[s]), Restored(s, got)
  PROVE  HandlerInv'
<1> DEFINE x == calls[s]
           others(t) == IF t = tab THEN calls ELSE [AllDropped EXCEPT ![s] = x]
<1>1. x.at \in {"original", "plan", "proposal"} /\ Quiet
  BY StillQuiet DEF Restored
<1>2. /\ tab \in TabRow /\ CallOK(s) /\ x \in CallRow /\ x # Idle /\ x.id \in Activation
      /\ proposed[x.id] \in Tenant /\ tab.submitted /\ (tab.pending \/ Taken)
  BY <1>1, Running
<1>3. x.op = "restore" /\ x.id \notin letGo /\ x.id \notin letGo'
  <2>1. x.op = "restore"
    BY <1>1, <1>2 DEF CallOK, StageOK
  <2> QED BY <1>1, <2>1 DEF HandlerInv, LetGoInv, Quiet
<1>4. calls \in [Slot -> CallRow]
  BY DEF HandlerInv, PageTypes
<1>5. PageStep /\ ServerTypes' /\ ServerInv' /\ Traffic' <= MaxTraffic
  BY <1>1, QuietStep
<1>6. UNCHANGED <<proposed, outdated, confirmed, base, requests>>
  BY <1>1 DEF Quiet, serverVars
<1>7. Settled(tab) /\ ShowsOwn(tab)
  BY DEF Settled, ShowsOwn
<1>8. ASSUME NEW t
      PROVE  /\ others(t) \in [Slot -> CallRow]
             /\ \A r \in Slot \ {s} : others(t)[r] = calls[r] \/ others(t)[r] = Idle
  BY <1>2, <1>4, NoCalls
<1>9. CASE x.at = "original" /\ got = "absent"
  <2>1. Ask(s, "proposal", x.id, tab)
    BY <1>9 DEF Restored, Await, Known
  <2> QED BY <1>1, <1>2, <1>3, <1>7, <2>1, AskKeeps
<1>10. CASE x.at = "original" /\ got \in Known
  <2> DEFINE y == [x EXCEPT !.at = "plan", !.found = got, !.got = "none"]
  <2>1. tab' = tab /\ calls' = [calls EXCEPT ![s] = y]
    BY <1>10 DEF Restored, Known
  <2>2. y \in CallRow /\ y.op = x.op /\ y.at = "plan" /\ y.id = x.id /\ y.found = got /\ y.got = "none"
    BY <1>2, <1>10 DEF CallRow
  <2> HIDE DEF y
  <2>3. /\ calls' \in [Slot -> CallRow] /\ \A r \in Slot \ {s} : calls'[r] = calls[r]
        /\ calls'[s].op = x.op /\ calls'[s].at = "plan" /\ calls'[s].id = x.id /\ calls'[s].found = got
        /\ calls'[s].got = "none"
    BY <1>4, <2>1, <2>2
  <2>4. Found(x.id)
    <3>1. got = x.got
      BY <1>10, Arrived DEF Reads, Known
    <3> QED BY <1>2, <1>10, <3>1 DEF CallOK, AnswerOK
  <2>5. CallOK(s)'
    <3>1. AnswerOK(calls[s])'
      BY <2>3 DEF AnswerOK, Known, Reads
    <3>2. StageOK(calls[s])'
      BY <1>2, <1>3, <1>6, <1>10, <2>1, <2>3, <2>4 DEF StageOK, Found
    <3> QED BY <2>3, <3>1, <3>2 DEF CallOK, ConfirmOK, ReadbackOK
  <2>6. TabInv' /\ VerifiedTruly'
    BY <1>6, <2>1 DEF HandlerInv, TabInv, VerifiedTruly, Found
  <2>7. calls'[s].at # "quote" /\ calls'[s].id \notin letGo'
    BY <1>3, <2>3
  <2> QED BY <1>2, <1>5, <2>1, <2>3, <2>5, <2>6, <2>7, BusyStep DEF PageTypes
<1>11. CASE x.at = "plan" /\ got = "present"
  <2>1. PICK t \in Reinstalled :
          /\ tab' = [Show(t, x.id, x.found)
                       EXCEPT !.target = "readonly", !.preview = Nobody,
                              !.frozen = [id |-> Nobody, request |-> 0],
                              !.recovery = x.id, !.submitted = TRUE, !.retry = FALSE]
          /\ calls' = [others(t) EXCEPT ![s] = [x EXCEPT !.at = "read", !.found = "none", !.got = "none"]]
    BY <1>11 DEF Restored
  <2>2. Found(x.id) /\ x.found \in Known
    BY <1>2, <1>11 DEF CallOK, StageOK
  <2>3. Taken
    BY <1>2, <2>2 DEF Found, Taken, HandlerInv, ServerInv
  <2>4. t \in TabRow /\ t.tenant = tab.tenant /\ (t.verification = tab.verification \/ t.verification = "idle")
    BY <1>2, ReinstalledRow
  <2> DEFINE u == Show(t, x.id, x.found)
             f == [id |-> Nobody, request |-> 0]
  <2>5. u \in TabRow /\ u.receipt = x.id /\ u.reading = Nobody /\ u.tenant = tab.tenant
        /\ u.verification = t.verification
    <3>1. x.id \in Change /\ x.found \in {"none"} \cup Known
      BY <1>2, <2>2 DEF Change
    <3> DEFINE c == x.id
               k == x.found
    <3> HIDE DEF c, k
    <3>2. u = Show(t, c, k) /\ t \in TabRow /\ c \in Change /\ k \in {"none"} \cup Known
      BY <2>4, <3>1 DEF c, k
    <3> HIDE DEF u
    <3>3. u \in TabRow /\ u.receipt = c /\ u.reading = Nobody /\ u.tenant = t.tenant
          /\ u.verification = t.verification
      BY <3>2, Shown
    <3> QED BY <2>4, <3>3 DEF c
  <2>6. f \in [id : Change, request : Nat] /\ f.id = Nobody /\ x.id \in Change /\ Nobody \in Change
    BY <1>2 DEF Change
  <2>7. tab' = [u EXCEPT !.target = "readonly", !.preview = Nobody, !.frozen = f,
                         !.recovery = x.id, !.submitted = TRUE, !.retry = FALSE]
    BY <2>1
  <2> HIDE DEF u, f
  <2>8. /\ tab' \in TabRow /\ tab'.tenant = tab.tenant /\ tab'.preview = Nobody /\ tab'.receipt = x.id
        /\ tab'.reading = Nobody /\ tab'.frozen = f
    BY <2>5, <2>6, <2>7 DEF TabRow
  <2>9. /\ tab'.recovery = x.id /\ tab'.submitted /\ ~tab'.retry /\ tab'.verification = t.verification
    BY <2>5, <2>6, <2>7 DEF TabRow
  <2> DEFINE y == [x EXCEPT !.at = "read", !.found = "none", !.got = "none"]
  <2>10. y \in CallRow /\ y.op = x.op /\ y.at = "read" /\ y.id = x.id /\ y.got = "none"
    BY <1>2 DEF CallRow, Reads
  <2> HIDE DEF y
  <2>11. /\ calls' \in [Slot -> CallRow] /\ \A r \in Slot \ {s} : calls'[r] = calls[r] \/ calls'[r] = Idle
         /\ calls'[s].op = x.op /\ calls'[s].at = "read" /\ calls'[s].id = x.id /\ calls'[s].got = "none"
    <3>1. calls' = [others(t) EXCEPT ![s] = y]
      BY <2>1 DEF y
    <3> HIDE DEF others
    <3> QED BY <1>8, <2>10, <3>1
  <2>12. TabInv'
    BY <1>2, <1>6, <2>2, <2>6, <2>8, <2>9 DEF TabInv, Found
  <2>13. VerifiedTruly'
    BY <1>2, <1>5, <2>2, <2>4, <2>8, <2>9, <2>11, VerifiedKept DEF PageTypes
  <2>14. CallOK(s)'
    <3>1. AnswerOK(calls[s])'
      BY <2>11 DEF AnswerOK, Known, Reads
    <3>2. StageOK(calls[s])'
      BY <1>2, <1>3, <1>6, <2>11 DEF StageOK
    <3> QED BY <2>11, <3>1, <3>2 DEF CallOK, ConfirmOK, ReadbackOK
  <2>15. calls'[s].at # "quote" /\ calls'[s].id \notin letGo'
    BY <1>3, <2>11
  <2> QED BY <1>2, <1>5, <2>3, <2>8, <2>9, <2>11, <2>12, <2>13, <2>14, <2>15, BusyStep DEF PageTypes
<1>12. CASE x.at = "proposal" /\ got = "present" /\ journal[x.id] # 0
  <2>1. PICK t \in Reinstalled :
          /\ tab' = [Show(t, Nobody, "none")
                       EXCEPT !.target = "readonly", !.preview = x.id,
                              !.frozen = [id |-> x.id, request |-> journal[x.id]],
                              !.recovery = x.id, !.submitted = TRUE, !.retry = TRUE,
                              !.verification = "pending", !.pending = FALSE]
          /\ calls' = [others(t) EXCEPT ![s] = Idle]
    BY <1>12 DEF Restored
  <2>2. proposed[x.id] = tab.tenant
    BY <1>12 DEF Arrives
  <2>3. t \in TabRow /\ t.tenant = tab.tenant
    BY <1>2, ReinstalledRow
  <2> DEFINE u == Show(t, Nobody, "none")
             f == [id |-> x.id, request |-> journal[x.id]]
  <2>4. u \in TabRow /\ u.receipt = Nobody /\ u.reading = Nobody /\ u.tenant = tab.tenant
    BY <2>3, Shown DEF Change
  <2>5. journal[x.id] \in Nat /\ journal[x.id] <= requests /\ requests \in Nat
    BY <1>2 DEF HandlerInv, ServerTypes
  <2>6. f \in [id : Change, request : Nat] /\ f.request \in 1..requests /\ x.id \in Change
    BY <1>2, <1>12, <2>5 DEF Change
  <2>7. tab' = [u EXCEPT !.target = "readonly", !.preview = x.id, !.frozen = f,
                         !.recovery = x.id, !.submitted = TRUE, !.retry = TRUE,
                         !.verification = "pending", !.pending = FALSE]
    BY <2>1
  <2> HIDE DEF u, f
  <2>8. /\ tab' \in TabRow /\ tab'.tenant = tab.tenant /\ tab'.preview = x.id /\ tab'.receipt = Nobody
        /\ tab'.reading = Nobody /\ tab'.frozen = f
    BY <2>4, <2>6, <2>7 DEF TabRow
  <2>9. tab'.recovery = x.id /\ tab'.submitted /\ tab'.verification = "pending"
    BY <2>4, <2>6, <2>7 DEF TabRow
  <2>10. /\ calls' \in [Slot -> CallRow] /\ calls'[s] = Idle
         /\ \A r \in Slot \ {s} : calls'[r] = calls[r] \/ calls'[r] = Idle
    <3>1. calls' = [others(t) EXCEPT ![s] = Idle] /\ Idle \in CallRow
      BY <2>1 DEF Idle, CallRow, Change
    <3> HIDE DEF others
    <3> QED BY <1>8, <3>1
  <2>11. Taken \/ \A r \in Slot \ {s} : calls'[r] = Idle
    BY <1>2, <2>10 DEF HandlerInv, CrowdInv, Alone
  <2>12. TabInv'
    BY <1>2, <1>6, <2>2, <2>6, <2>8, <2>9 DEF TabInv
  <2>13. VerifiedTruly'
    BY <2>9 DEF VerifiedTruly
  <2>14. CallOK(s)' /\ calls'[s].at # "quote" /\ calls'[s].op # "restore"
    BY <2>10, RestingOK DEF Idle
  <2> QED BY <1>2, <1>3, <1>5, <2>8, <2>9, <2>10, <2>11, <2>12, <2>13, <2>14, BusyStep DEF PageTypes
<1>13. CASE /\ ~(x.at = "original" /\ got = "absent") /\ ~(x.at = "original" /\ got \in Known)
            /\ ~(x.at = "plan" /\ got = "present")
            /\ ~(x.at = "proposal" /\ got = "present" /\ journal[x.id] # 0)
  <2>1. Finish(s, tab)
    BY <1>13 DEF Restored
  <2> QED BY <1>1, <1>2, <1>7, <2>1, FinishKeeps
<1> QED BY <1>9, <1>10, <1>11, <1>12, <1>13

(***************************************************************************)
(* The server goes on                                                      *)
(***************************************************************************)
(* The page stays as it is; nothing that is on record is undone, and only  *)
(* a command that is taken off the wire commits a change, and only where   *)
(* the tenant has no subscription.                                         *)
Onward ==
  /\ UNCHANGED <<proposed, sends, journal, requests, tab, letGo>>
  /\ wire' \subseteq wire
  /\ \A t \in Tenant : base[t] # Nobody => base'[t] = base[t]
  /\ \A c \in Activation :
       \/ confirmed'[c] = confirmed[c]
       \/ /\ confirmed[c] # Unconfirmed
          /\ confirmed'[c] # Unconfirmed /\ confirmed'[c].status = "APPLIED"
       \/ /\ confirmed[c] = Unconfirmed /\ ~Barred(c) /\ confirmed'[c] # Unconfirmed
          /\ \E m \in wire : m.id = c /\ m \notin wire'

(* At most the answer to its command has come to a call. *)
Heard(s) ==
  \/ calls'[s] = calls[s]
  \/ /\ calls[s].at = "sent" /\ AnswerOK(calls[s])'
     /\ \E got \in {"none", "refused", "denied"} \cup Known :
          /\ calls'[s] = [calls[s] EXCEPT !.got = got]
          /\ calls[s].op = "confirm" /\ got = "denied" => Unsent(calls[s].id)'

LEMMA HeardRow ==
  ASSUME HandlerInv, NEW s \in Slot, Heard(s)
  PROVE  LET x == calls[s]
             y == calls'[s]
         IN  /\ y \in CallRow /\ y.op = x.op /\ y.at = x.at /\ y.id = x.id /\ y.request = x.request
             /\ y.sent = x.sent /\ y.found = x.found
             /\ y.got = x.got \/ (x.at = "sent" /\ (x.op = "confirm" /\ y.got = "denied" => Unsent(calls[s].id)'))
             /\ y = Idle <=> x = Idle
<1> DEFINE x == calls[s]
           y == calls'[s]
<1>1. x \in CallRow
  BY DEF HandlerInv, PageTypes
<1>2. /\ y \in CallRow /\ y.op = x.op /\ y.at = x.at /\ y.id = x.id /\ y.request = x.request
      /\ y.sent = x.sent /\ y.found = x.found
      /\ y.got = x.got \/ (x.at = "sent" /\ (x.op = "confirm" /\ y.got = "denied" => Unsent(x.id)'))
  <2>1. CASE calls'[s] # calls[s]
    <3>1. PICK got \in {"none", "refused", "denied"} \cup Known :
            y = [x EXCEPT !.got = got] /\ (x.op = "confirm" /\ got = "denied" => Unsent(calls[s].id)')
      BY <2>1 DEF Heard
    <3> HIDE DEF x, y
    <3>2. /\ y \in CallRow /\ y.op = x.op /\ y.at = x.at /\ y.id = x.id /\ y.request = x.request
          /\ y.sent = x.sent /\ y.found = x.found /\ y.got = got
      BY <1>1, <3>1 DEF CallRow
    <3>3. x.at = "sent"
      BY <2>1 DEF Heard, x
    <3> QED BY <3>1, <3>2, <3>3 DEF x, y
  <2> QED BY <1>1, <2>1
<1>3. y = Idle <=> x = Idle
  <2>1. x.at = "sent" => x # Idle /\ y # Idle
    BY <1>2 DEF Idle
  <2> QED BY <2>1 DEF Heard
<1> QED BY <1>2, <1>3

LEMMA OnwardCall ==
  ASSUME HandlerInv, Onward, \A r \in Slot : Heard(r), NEW s \in Slot
  PROVE  CallOK(s)'
<1> DEFINE x == calls[s]
           y == calls'[s]
<1>1. x \in CallRow /\ CallOK(s) /\ tab \in TabRow
  BY DEF HandlerInv, PageTypes, CallInv
<1>2. /\ y \in CallRow /\ y.op = x.op /\ y.at = x.at /\ y.id = x.id /\ y.request = x.request
      /\ y.sent = x.sent /\ y.found = x.found
      /\ y.got = x.got \/ (x.at = "sent" /\ (x.op = "confirm" /\ y.got = "denied" => Unsent(calls[s].id)'))
  BY HeardRow
<1>3. Alone(s) => Alone(s)'
  <2>1. \A r \in Slot : calls'[r] = Idle <=> calls[r] = Idle
    BY HeardRow
  <2> QED BY <2>1 DEF Alone
<1>4. UNCHANGED <<proposed, sends, requests, tab>> /\ wire' \subseteq wire
  BY DEF Onward
<1>5. ASSUME NEW c \in Activation
      PROVE  /\ Found(c) => Found(c)'
             /\ confirmed[c].status = "APPLIED" => confirmed'[c].status = "APPLIED"
             /\ Unsent(c) => Unsent(c)'
             /\ ~UnderWay(c) => ~UnderWay(c)'
             /\ confirmed[c] = Unconfirmed /\ (Barred(c) \/ ~UnderWay(c)) => confirmed'[c] = Unconfirmed
  <2>1. tab.tenant \in Tenant
    BY <1>1 DEF TabRow
  <2>2. Unconfirmed.status # "APPLIED"
    BY DEF Unconfirmed
  <2> QED BY <1>4, <2>1, <2>2 DEF Onward, Found, Unsent, UnderWay
<1>6. x.id \in Activation \/ x.at \in {"none", "quote"}
  BY <1>1 DEF CallOK, StageOK, CallRow, Change
<1>7. Taken => Taken'
  <2>1. tab.tenant \in Tenant
    BY <1>1 DEF TabRow
  <2> QED BY <2>1 DEF Onward, Taken
<1>8. AnswerOK(calls[s])'
  <2>1. CASE calls'[s] # calls[s]
    BY <2>1 DEF Heard
  <2>2. CASE calls'[s] = calls[s] /\ x.at \in {"none", "quote"}
    <3>1. x.got = "none"
      BY <1>1, <2>2 DEF CallOK, StageOK
    <3> QED BY <2>2, <3>1 DEF AnswerOK, Known, Reads
  <2>3. CASE calls'[s] = calls[s] /\ x.id \in Activation
    BY <1>1, <1>5, <2>3 DEF CallOK, AnswerOK
  <2> QED BY <1>6, <2>1, <2>2, <2>3
<1>9. StageOK(calls[s])'
  <2> HIDE DEF x, y
  <2>1. x.at = "subscription" => y.got = x.got
    BY <1>2
  <2>2. CASE x.id \in Activation
    BY <1>1, <1>2, <1>4, <1>5, <1>7, <2>1, <2>2 DEF CallOK, StageOK, Barred, Taken, x, y
  <2>3. CASE x.at \in {"none", "quote"}
    BY <1>1, <1>2, <1>4, <1>7, <2>3 DEF CallOK, StageOK, x, y
  <2> QED BY <1>6, <2>2, <2>3
<1>10. ConfirmOK(s)'
  <2> SUFFICES ASSUME y.op = "confirm", y.at \in {"remember", "sent", "prepared"}
               PROVE  ConfirmOK(s)'
    BY DEF ConfirmOK
  <2>1. /\ tab.pending /\ ~tab.retry /\ Alone(s) /\ x.id = tab.preview /\ x.id \in Activation
        /\ x.at = "prepared" => tab.receipt # Nobody
        /\ x.at = "remember" => Unsent(x.id)
        /\ x.at = "sent" =>
             /\ \A m \in wire : m.id = x.id => m.number = x.sent /\ confirmed[x.id] = Unconfirmed
             /\ x.got = "denied" => Unsent(x.id)
    BY <1>1, <1>2, <1>6 DEF CallOK, ConfirmOK
  <2>2. y.at = "remember" => Unsent(calls[s].id)'
    BY <1>2, <1>5, <2>1 DEF Unsent
  <2>3. y.at = "sent" /\ y.got = "denied" => Unsent(calls[s].id)'
    BY <1>2, <1>5, <2>1 DEF Unsent
  <2>4. ASSUME y.at = "sent", NEW m \in wire', m.id = y.id
        PROVE  m.number = y.sent /\ confirmed'[y.id] = Unconfirmed
    <3>1. m \in wire /\ m.number = x.sent /\ confirmed[x.id] = Unconfirmed
      BY <1>2, <1>4, <2>1, <2>4
    <3>2. \A n \in wire : n.id = x.id => n = m
      <4> HIDE DEF x, y
      <4>1. \A n, o \in wire : n.number = o.number => n = o
        BY DEF HandlerInv, ServerInv
      <4> QED BY <1>2, <2>1, <2>4, <3>1, <4>1
    <3>3. confirmed'[x.id] = Unconfirmed
      BY <2>1, <2>4, <3>1, <3>2 DEF Onward
    <3> QED BY <1>2, <3>1, <3>3
  <2> QED BY <1>2, <1>3, <1>4, <2>1, <2>2, <2>3, <2>4 DEF ConfirmOK
<1>11. ReadbackOK(s)'
  <2>1. x.at = "readback" => x.id \in Activation
    BY <1>6
  <2> QED BY <1>1, <1>2, <1>4, <1>5, <2>1 DEF CallOK, ReadbackOK
<1> QED BY <1>8, <1>9, <1>10, <1>11 DEF CallOK

(* A step of the server, and of the network. *)
LEMMA OnwardKeeps ==
  ASSUME HandlerInv, Onward, ServerTypes',
         \A c \in Activation : confirmed'[c] # confirmed[c] /\ confirmed[c] = Unconfirmed =>
            base'[proposed[c]] = c,
         \A s \in Slot : Heard(s), calls' \in [Slot -> CallRow]
  PROVE  HandlerInv'
<1>1. UNCHANGED <<proposed, sends, requests, tab, letGo>> /\ wire' \subseteq wire
  BY DEF Onward
<1>2. /\ tab \in TabRow /\ tab.tenant \in Tenant /\ PageTypes'
      /\ tab.preview \in Change /\ tab.receipt \in Change /\ tab.recovery \in Change
  BY <1>1 DEF HandlerInv, PageTypes, TabRow
<1>3. Traffic' <= MaxTraffic
  <2>1. Traffic' = Traffic
    BY <1>1 DEF Traffic
  <2> QED BY <2>1 DEF HandlerInv
<1>4. ServerInv'
  <2>1. ASSUME NEW c \in Activation, confirmed'[c] # Unconfirmed
        PROVE  proposed[c] \in Tenant /\ base'[proposed[c]] = c
    <3>1. CASE confirmed[c] # Unconfirmed
      BY <3>1 DEF HandlerInv, ServerInv, Onward
    <3>2. CASE confirmed[c] = Unconfirmed
      <4>1. PICK m \in wire : m.id = c
        BY <2>1, <3>2 DEF Onward
      <4> QED BY <2>1, <3>2, <4>1 DEF HandlerInv, ServerInv
    <3> QED BY <3>1, <3>2
  <2>2. \A c \in letGo : GivenUp(c)'
    BY <1>1 DEF HandlerInv, ServerInv, ServerTypes, GivenUp, Barred, UnderWay, Onward
  <2>3. /\ \A m \in wire' : proposed[m.id] \in Tenant /\ m.request \in 1..requests /\ m.number <= sends
        /\ \A m, n \in wire' : m.number = n.number => m = n
    BY <1>1 DEF HandlerInv, ServerInv
  <2> QED BY <1>1, <2>1, <2>2, <2>3 DEF ServerInv
<1>5. TabInv'
  BY <1>1, <1>2 DEF HandlerInv, TabInv, Onward, Found, Change
<1>6. CallInv'
  BY OnwardCall DEF CallInv
<1>7. \A s \in Slot : /\ calls'[s].at = calls[s].at /\ calls'[s].id = calls[s].id
                      /\ calls'[s].op = calls[s].op
                      /\ calls'[s] = Idle <=> calls[s] = Idle
  BY HeardRow
<1>8. CrowdInv'
  <2>1. Taken => Taken'
    BY <1>1, <1>2 DEF Onward, Taken
  <2>2. \A s \in Slot : Alone(s)' <=> Alone(s)
    BY <1>7 DEF Alone
  <2> QED BY <1>1, <1>7, <2>1, <2>2 DEF HandlerInv, CrowdInv
<1>9. UnlockedUnsent'
  <2> SUFFICES ASSUME tab.preview # Nobody, ~tab.submitted
               PROVE  UnlockedUnsent'
    BY <1>1 DEF UnlockedUnsent
  <2>1. /\ tab.preview \in Activation /\ confirmed[tab.preview] = Unconfirmed
        /\ \A m \in wire : m.id # tab.preview
        /\ \A s \in Slot : calls[s].at \in {"remember", "sent"} => calls[s].id # tab.preview
    BY <1>2 DEF HandlerInv, UnlockedUnsent, Change
  <2>2. confirmed'[tab.preview] = Unconfirmed
    BY <2>1 DEF Onward
  <2> QED BY <1>1, <1>7, <2>1, <2>2 DEF UnlockedUnsent
<1>10. VerifiedTruly'
  <2> SUFFICES ASSUME tab.verification = "verified"
               PROVE  VerifiedTruly'
    BY <1>1 DEF VerifiedTruly
  <2>1. /\ tab.receipt # Nobody /\ confirmed[tab.receipt].status = "APPLIED"
        /\ base[tab.tenant] = tab.receipt /\ tab.preview \in {Nobody, tab.receipt}
    BY DEF HandlerInv, VerifiedTruly
  <2>2. confirmed'[tab.receipt].status = "APPLIED"
    BY <1>2, <2>1 DEF Onward, Unconfirmed, Change
  <2>3. base'[tab.tenant] = tab.receipt
    BY <1>2, <2>1 DEF Onward
  <2> QED BY <1>1, <2>1, <2>2, <2>3 DEF VerifiedTruly
<1>11. LetGoInv'
  <2>1. \A c \in letGo : Barred(c) => Barred(c)'
    BY <1>1 DEF HandlerInv, ServerInv, GivenUp, Barred, Onward
  <2> QED BY <1>1, <1>7, <2>1 DEF HandlerInv, LetGoInv
<1> QED BY <1>2, <1>3, <1>4, <1>5, <1>6, <1>8, <1>9, <1>10, <1>11 DEF HandlerInv

(* The command m comes off the wire, and its answer, which is true, goes to *)
(* the call that sent it.                                                   *)
LEMMA AnswerHeard ==
  ASSUME HandlerInv, NEW m \in wire, NEW a \in {"refused", "denied"} \cup Known, Answer(m, a),
         wire' = wire \ {m}, tab' = tab, proposed' = proposed,
         a \in Known => confirmed'[m.id] # Unconfirmed,
         a = "APPLIED" => confirmed'[m.id].status = "APPLIED",
         a = "denied" => confirmed' = confirmed
  PROVE  (\A s \in Slot : Heard(s)) /\ calls' \in [Slot -> CallRow]
<1>1. PICK g \in {a, "none"} :
        calls' = [s \in Slot |-> IF calls[s].at = "sent" /\ calls[s].sent = m.number
                                 THEN [calls[s] EXCEPT !.got = g] ELSE calls[s]]
  BY DEF Answer
<1>2. g \in {"none", "refused", "denied"} \cup Known
  BY <1>1
<1>3. calls \in [Slot -> CallRow]
  BY DEF HandlerInv, PageTypes
<1>4. calls' \in [Slot -> CallRow]
  <2>1. \A s \in Slot : [calls[s] EXCEPT !.got = g] \in CallRow
    BY <1>2, <1>3 DEF CallRow
  <2> QED BY <1>1, <1>3, <2>1
<1>5. ASSUME NEW s \in Slot, calls[s].at = "sent", calls[s].sent = m.number
      PROVE  Heard(s)
  <2> DEFINE x == calls[s]
             y == calls'[s]
  <2>1. x \in CallRow /\ CallOK(s)
    BY <1>3 DEF HandlerInv, CallInv
  <2>2. y = [x EXCEPT !.got = g]
    BY <1>1, <1>5
  <2>3. y.at = "sent" /\ y.id = x.id /\ y.got = g
    <3> HIDE DEF x, y
    <3>1. x.at = "sent"
      BY <1>5 DEF x
    <3> QED BY <2>1, <2>2, <3>1 DEF CallRow
  <2>4. m.id = x.id /\ proposed[x.id] = tab.tenant
    BY <1>5, <2>1 DEF CallOK, StageOK
  <2>5. AnswerOK(calls[s])'
    BY <1>1, <2>3, <2>4 DEF AnswerOK, Found, Known, Reads
  <2>6. x.op = "confirm" /\ g = "denied" => Unsent(calls[s].id)'
    <3> SUFFICES ASSUME x.op = "confirm", g = "denied"
                 PROVE  Unsent(calls[s].id)'
      OBVIOUS
    <3>1. \A n \in wire : n.id = x.id => n.number = x.sent /\ confirmed[x.id] = Unconfirmed
      BY <1>5, <2>1 DEF CallOK, ConfirmOK
    <3>2. confirmed'[x.id] = Unconfirmed
      BY <1>1, <2>4, <3>1
    <3>3. \A n \in wire' : n.id # x.id
      BY <1>5, <3>1 DEF HandlerInv, ServerInv
    <3> QED BY <2>3, <3>2, <3>3 DEF Unsent
  <2> QED BY <1>2, <1>5, <2>2, <2>5, <2>6 DEF Heard
<1>6. ASSUME NEW s \in Slot, ~(calls[s].at = "sent" /\ calls[s].sent = m.number)
      PROVE  Heard(s)
  <2>1. calls'[s] = calls[s]
    BY <1>1, <1>6
  <2> QED BY <2>1 DEF Heard
<1> QED BY <1>4, <1>5, <1>6

LEMMA ConfirmKeeps ==
  ASSUME HandlerInv, NEW m \in wire, Confirm(m)
  PROVE  HandlerInv'
<1> DEFINE held == confirmed[m.id]
           t == proposed[m.id]
<1>1. /\ m.id \in Activation /\ m.request \in Nat /\ m.request # 0 /\ t \in Tenant
      /\ held \in ReceiptRow /\ requests \in Nat
  BY DEF HandlerInv, ServerTypes, ServerInv, Message
<1>2. wire' = wire \ {m} /\ UNCHANGED <<proposed, outdated, sends, journal, requests, tab, letGo>>
  BY DEF Confirm
<1>3. /\ confirmed \in [Activation -> ReceiptRow] /\ base \in [Tenant -> Change \cup {Stranger}]
      /\ ServerTypes
  BY DEF HandlerInv, ServerTypes
<1>4. ASSUME held = Unconfirmed, base[t] = Nobody, NEW status \in Known,
             confirmed' = [confirmed EXCEPT ![m.id] = [status |-> status, request |-> m.request]],
             Answer(m, status) \/ Refused(m), base' = [base EXCEPT ![t] = m.id]
      PROVE  HandlerInv'
  <2>1. /\ confirmed'[m.id].status = status /\ confirmed'[m.id] # Unconfirmed
        /\ confirmed' \in [Activation -> ReceiptRow]
        /\ \A c \in Activation \ {m.id} : confirmed'[c] = confirmed[c]
    BY <1>1, <1>3, <1>4 DEF ReceiptRow, Unconfirmed, Known
  <2>2. /\ base' \in [Tenant -> Change \cup {Stranger}] /\ base'[t] = m.id
        /\ \A u \in Tenant \ {t} : base'[u] = base[u]
    BY <1>1, <1>3, <1>4 DEF Change
  <2>3. Onward
    BY <1>1, <1>2, <1>4, <2>1, <2>2 DEF Onward, Barred
  <2>4. ServerTypes'
    BY <1>2, <1>3, <2>1, <2>2 DEF ServerTypes
  <2>5. (\A s \in Slot : Heard(s)) /\ calls' \in [Slot -> CallRow]
    <3>1. CASE Answer(m, status)
      BY <1>2, <2>1, <3>1, AnswerHeard DEF Known
    <3>2. CASE Refused(m)
      BY <1>2, <3>2, AnswerHeard DEF Refused, Known
    <3> QED BY <1>4, <3>1, <3>2
  <2>6. \A c \in Activation : confirmed'[c] # confirmed[c] /\ confirmed[c] = Unconfirmed =>
          base'[proposed[c]] = c
    BY <2>1, <2>2
  <2> QED BY <2>3, <2>4, <2>5, <2>6, OnwardKeeps
<1>5. ASSUME UNCHANGED <<confirmed, base>>,
             (held.request = m.request /\ Answer(m, held.status)) \/ Refused(m)
      PROVE  HandlerInv'
  <2>1. held = Unconfirmed \/ held.status \in Known
    BY <1>1 DEF ReceiptRow
  <2>2. held.request = m.request => held # Unconfirmed
    BY <1>1 DEF Unconfirmed
  <2>3. Onward
    BY <1>2, <1>5 DEF Onward
  <2>4. ServerTypes'
    BY <1>2, <1>3, <1>5 DEF ServerTypes
  <2>5. (\A s \in Slot : Heard(s)) /\ calls' \in [Slot -> CallRow]
    <3>1. CASE held.request = m.request /\ Answer(m, held.status)
      <4> DEFINE a == held.status
      <4>1. a \in Known /\ Answer(m, a) /\ confirmed'[m.id] # Unconfirmed /\ confirmed'[m.id].status = a
        BY <1>5, <2>1, <2>2, <3>1
      <4> HIDE DEF a
      <4> QED BY <1>2, <4>1, AnswerHeard DEF Known
    <3>2. CASE Refused(m)
      BY <1>2, <3>2, AnswerHeard DEF Refused, Known
    <3> QED BY <1>5, <3>1, <3>2
  <2> QED BY <1>5, <2>3, <2>4, <2>5, OnwardKeeps
<1> QED BY <1>4, <1>5 DEF Confirm

LEMMA UndeliveredKeeps ==
  ASSUME HandlerInv, NEW m \in wire, Undelivered(m)
  PROVE  HandlerInv'
<1>1. /\ wire' = wire \ {m} /\ Answer(m, "denied")
      /\ UNCHANGED <<proposed, outdated, confirmed, base, sends, journal, requests, tab, letGo>>
  BY DEF Undelivered, serverVars
<1>2. Onward
  BY <1>1 DEF Onward
<1>3. ServerTypes'
  BY <1>1 DEF HandlerInv, ServerTypes
<1>4. (\A s \in Slot : Heard(s)) /\ calls' \in [Slot -> CallRow]
  BY <1>1, AnswerHeard DEF Known
<1> QED BY <1>1, <1>2, <1>3, <1>4, OnwardKeeps

(* The steps of the server that answer nobody. *)
LEMMA SilentKeeps ==
  ASSUME HandlerInv,
         \/ \E c \in Activation : Outdate(c) \/ Activate(c)
         \/ \E t \in Tenant : OpenedElsewhere(t)
  PROVE  HandlerInv'
<1>1. UNCHANGED <<proposed, wire, sends, journal, requests, tab, calls, letGo>>
  BY DEF Outdate, Activate, OpenedElsewhere, networkVars
<1>2. ServerTypes /\ calls \in [Slot -> CallRow]
  BY DEF HandlerInv, PageTypes
<1>3. (\A s \in Slot : Heard(s)) /\ calls' \in [Slot -> CallRow]
  BY <1>1, <1>2 DEF Heard
<1>4. ASSUME NEW c \in Activation, Outdate(c)
      PROVE  HandlerInv'
  <2>1. outdated' = outdated \cup {c} /\ UNCHANGED <<confirmed, base>>
    BY <1>4 DEF Outdate
  <2>2. Onward /\ ServerTypes'
    BY <1>1, <1>2, <2>1 DEF Onward, ServerTypes
  <2> QED BY <1>3, <2>1, <2>2, OnwardKeeps
<1>5. ASSUME NEW c \in Activation, Activate(c)
      PROVE  HandlerInv'
  <2>1. /\ confirmed[c].status = "PROVISIONING" /\ UNCHANGED <<outdated, base>>
        /\ confirmed' = [confirmed EXCEPT ![c].status = "APPLIED"]
    BY <1>5 DEF Activate
  <2>2. confirmed \in [Activation -> ReceiptRow] /\ confirmed[c] # Unconfirmed
    BY <1>2, <2>1 DEF ServerTypes, Unconfirmed
  <2>3. /\ confirmed' \in [Activation -> ReceiptRow] /\ confirmed'[c].status = "APPLIED"
        /\ confirmed'[c] # Unconfirmed /\ \A d \in Activation \ {c} : confirmed'[d] = confirmed[d]
    <3> DEFINE r == [confirmed[c] EXCEPT !.status = "APPLIED"]
    <3>1. confirmed[c] \in [status : Known, request : Nat]
      BY <2>2 DEF ReceiptRow
    <3>2. r \in [status : Known, request : Nat] /\ r.status = "APPLIED" /\ r # Unconfirmed
      BY <3>1 DEF Known, Unconfirmed
    <3>3. confirmed' = [confirmed EXCEPT ![c] = r]
      BY <2>1
    <3> HIDE DEF r
    <3> QED BY <2>2, <3>2, <3>3 DEF ReceiptRow
  <2>4. Onward
    BY <1>1, <2>1, <2>2, <2>3 DEF Onward
  <2>5. ServerTypes'
    BY <1>1, <1>2, <2>1, <2>3 DEF ServerTypes
  <2> QED BY <1>3, <2>2, <2>3, <2>4, <2>5, OnwardKeeps
<1>6. ASSUME NEW t \in Tenant, OpenedElsewhere(t)
      PROVE  HandlerInv'
  <2>1. base[t] = Nobody /\ base' = [base EXCEPT ![t] = Stranger] /\ UNCHANGED <<outdated, confirmed>>
    BY <1>6 DEF OpenedElsewhere
  <2>2. base' \in [Tenant -> Change \cup {Stranger}] /\ \A u \in Tenant : base[u] # Nobody => base'[u] = base[u]
    BY <1>2, <2>1 DEF ServerTypes
  <2>3. Onward /\ ServerTypes'
    BY <1>1, <1>2, <2>1, <2>2 DEF Onward, ServerTypes
  <2> QED BY <1>3, <2>1, <2>3, OnwardKeeps
<1> QED BY <1>4, <1>5, <1>6

(***************************************************************************)
(* A preview                                                               *)
(***************************************************************************)
INSTANCE FiniteSetTheorems

(* A preview more is stored. *)
LEMMA OneMorePreview ==
  ASSUME ServerTypes, NEW c \in Activation, proposed[c] = Nobody, NEW t \in Tenant,
         proposed' = [proposed EXCEPT ![c] = t]
  PROVE  Cardinality({d \in Activation : proposed'[d] # Nobody})
           = Cardinality({d \in Activation : proposed[d] # Nobody}) + 1
<1> DEFINE P == {d \in Activation : proposed[d] # Nobody}
<1>1. IsFiniteSet(Activation)
  BY FS_Interval DEF Activation
<1>2. IsFiniteSet(P)
  BY <1>1, FS_Subset
<1>3. c \notin P /\ {d \in Activation : proposed'[d] # Nobody} = P \cup {c}
  BY DEF ServerTypes
<1> HIDE DEF P
<1>4. Cardinality(P \cup {c}) = Cardinality(P) + 1
  BY <1>2, <1>3, FS_AddElement
<1> QED BY <1>3, <1>4 DEF P

LEMMA QuotedKeeps ==
  ASSUME HandlerInv, NEW s \in Slot, Quoted(s)
  PROVE  HandlerInv'
<1>1. /\ tab \in TabRow /\ calls \in [Slot -> CallRow] /\ ServerTypes /\ ServerInv /\ Traffic <= MaxTraffic
      /\ tab.tenant \in Tenant
  BY DEF HandlerInv, PageTypes, TabRow
<1>2. ~tab.submitted /\ ~tab.retry /\ Alone(s) /\ tab.receipt = Nobody
  BY DEF Quoted, HandlerInv, CrowdInv, TabInv
<1>3. UNCHANGED <<outdated, confirmed, base, wire, sends, journal, requests, letGo>>
  BY DEF Quoted, networkVars
<1>4. tab.verification # "verified"
  BY <1>2 DEF HandlerInv, VerifiedTruly
<1>5. ASSUME calls' = [calls EXCEPT ![s] = Idle]
      PROVE  calls' \in [Slot -> CallRow] /\ \A r \in Slot : calls'[r] = Idle
  <2>1. Idle \in CallRow
    BY DEF Idle, CallRow, Change
  <2> QED BY <1>1, <1>2, <1>5, <2>1 DEF Alone
<1>6. CASE Finish(s, tab) /\ UNCHANGED proposed
  <2>1. calls' \in [Slot -> CallRow] /\ \A r \in Slot : calls'[r] = Idle
    BY <1>5, <1>6 DEF Finish
  <2>2. /\ tab' \in TabRow /\ tab'.tenant = tab.tenant /\ tab'.preview = tab.preview
        /\ tab'.receipt = Nobody /\ tab'.frozen = tab.frozen /\ tab'.recovery = tab.recovery
        /\ ~tab'.submitted /\ ~tab'.retry /\ tab'.verification = tab.verification
    BY <1>1, <1>2, <1>6 DEF Finish, TabRow
  <2>3. ServerTypes' /\ ServerInv' /\ Traffic' <= MaxTraffic
    BY <1>1, <1>3, <1>6 DEF ServerTypes, ServerInv, GivenUp, Barred, UnderWay, Traffic
  <2>4. TabInv'
    BY <1>3, <1>6, <2>2 DEF HandlerInv, TabInv
  <2>5. UnlockedUnsent'
    BY <1>2, <1>3, <2>1, <2>2 DEF HandlerInv, UnlockedUnsent, Idle
  <2>6. \A c \in letGo' : tab'.preview = c => Barred(c)'
    BY <1>3, <1>6, <2>2 DEF HandlerInv, LetGoInv, Barred
  <2> QED BY <1>4, <2>1, <2>2, <2>3, <2>4, <2>5, <2>6, FreePage DEF PageTypes
<1>7. ASSUME NEW c \in Activation, NEW shown \in BOOLEAN, Traffic + 1 < MaxTraffic,
             proposed[c] = Nobody, proposed' = [proposed EXCEPT ![c] = tab.tenant],
             Finish(s, IF shown THEN [tab EXCEPT !.preview = c] ELSE tab)
      PROVE  HandlerInv'
  <2>1. calls' \in [Slot -> CallRow] /\ \A r \in Slot : calls'[r] = Idle
    BY <1>5, <1>7 DEF Finish
  <2>2. /\ tab' \in TabRow /\ tab'.tenant = tab.tenant /\ tab'.preview \in {tab.preview, c}
        /\ tab'.receipt = Nobody /\ tab'.frozen = tab.frozen /\ tab'.recovery = tab.recovery
        /\ ~tab'.submitted /\ ~tab'.retry /\ tab'.verification = tab.verification
    <3> DEFINE u == IF shown THEN [tab EXCEPT !.preview = c] ELSE tab
    <3>1. /\ u \in TabRow /\ u.tenant = tab.tenant /\ u.preview \in {tab.preview, c}
          /\ u.receipt = Nobody /\ u.frozen = tab.frozen /\ u.recovery = tab.recovery
          /\ ~u.submitted /\ ~u.retry /\ u.verification = tab.verification
      BY <1>1, <1>2 DEF TabRow, Change
    <3>2. tab' = [u EXCEPT !.pending = FALSE]
      BY <1>7 DEF Finish
    <3> HIDE DEF u
    <3> QED BY <3>1, <3>2 DEF TabRow
  <2>3. /\ proposed' \in [Activation -> Tenant \cup {Nobody}] /\ proposed'[c] = tab.tenant
        /\ \A d \in Activation : proposed[d] # Nobody => proposed'[d] = proposed[d]
    BY <1>1, <1>7 DEF ServerTypes
  <2>4. Cardinality({d \in Activation : proposed'[d] # Nobody})
          = Cardinality({d \in Activation : proposed[d] # Nobody}) + 1
    BY <1>1, <1>7, OneMorePreview
  <2>5. ServerTypes' /\ Traffic' <= MaxTraffic
    <3>1. ServerTypes'
      <4> DEFINE n == Cardinality({d \in Activation : proposed'[d] # Nobody})
      <4>1. n \in Nat
        BY <1>1, <2>4 DEF ServerTypes
      <4> HIDE DEF n
      <4> QED BY <1>1, <1>3, <2>3, <4>1 DEF ServerTypes, n
    <3>2. Traffic' = Traffic + 2
      <4> DEFINE k == Cardinality({d \in Activation : proposed[d] # Nobody})
                 n == Cardinality({d \in Activation : proposed'[d] # Nobody})
      <4>1. n = k + 1 /\ k \in Nat /\ requests \in Nat /\ sends \in Nat
        BY <1>1, <2>4 DEF ServerTypes
      <4>2. Traffic = 2 * k + requests + sends /\ Traffic' = 2 * n + requests + sends
        BY <1>3 DEF Traffic
      <4> HIDE DEF k, n
      <4> QED BY <4>1, <4>2
    <3>3. Traffic \in Nat
      BY <1>1 DEF Traffic, ServerTypes
    <3> QED BY <1>7, <3>1, <3>2, <3>3
  <2>6. confirmed[c] = Unconfirmed /\ \A m \in wire : m.id # c
    BY <1>1, <1>7 DEF ServerInv
  <2>7. ServerInv'
    <3>1. \A d \in Activation : confirmed[d] # Unconfirmed =>
            proposed'[d] \in Tenant /\ base[proposed'[d]] = d
      BY <1>1, <2>3 DEF ServerInv
    <3>2. \A m \in wire : proposed'[m.id] \in Tenant
      BY <1>1, <2>3 DEF ServerInv, ServerTypes, Message
    <3>3. \A d \in letGo : GivenUp(d)'
      BY <1>1, <1>3, <2>3 DEF ServerInv, ServerTypes, GivenUp, Barred, UnderWay
    <3> QED BY <1>1, <1>3, <3>1, <3>2, <3>3 DEF ServerInv
  <2>8. TabInv'
    <3>1. \A d \in {tab.preview, tab.recovery} : d # Nobody /\ proposed[d] \in Tenant => proposed'[d] = proposed[d]
      BY <1>1, <2>3 DEF TabRow, Change
    <3> QED BY <1>1, <1>2, <1>3, <2>2, <2>3, <3>1 DEF HandlerInv, TabInv
  <2>9. UnlockedUnsent'
    BY <1>2, <1>3, <2>1, <2>2, <2>6 DEF HandlerInv, UnlockedUnsent, Idle
  <2>10. \A d \in letGo' : tab'.preview = d => Barred(d)'
    <3>1. \A d \in letGo : d \in Activation /\ proposed[d] \in Tenant /\ d # c
      BY <1>1, <1>7 DEF ServerInv, ServerTypes, GivenUp
    <3> QED BY <1>3, <2>2, <2>3, <3>1 DEF HandlerInv, LetGoInv, Barred
  <2> QED BY <1>4, <2>1, <2>2, <2>5, <2>7, <2>8, <2>9, <2>10, FreePage DEF PageTypes
<1>8. \/ Finish(s, tab) /\ UNCHANGED proposed
      \/ /\ Traffic + 1 < MaxTraffic
         /\ \E c \in Activation, shown \in BOOLEAN :
              /\ proposed[c] = Nobody /\ proposed' = [proposed EXCEPT ![c] = tab.tenant]
              /\ Finish(s, IF shown THEN [tab EXCEPT !.preview = c] ELSE tab)
  BY DEF Quoted
<1> QED BY <1>6, <1>7, <1>8

(***************************************************************************)
(* The console                                                             *)
(***************************************************************************)
LEMMA NothingYet ==
  ASSUME InitialInit
  PROVE  HandlerInv
<1>1. PICK t \in Tenant : tab = NewTab(t)
  BY DEF InitialInit
<1>2. /\ tab \in TabRow /\ tab.preview = Nobody /\ tab.receipt = Nobody /\ ~tab.submitted /\ ~tab.retry
      /\ tab.frozen.id = Nobody /\ tab.recovery = Nobody /\ tab.verification = "idle"
  BY <1>1, NewTabRow
<1>3. calls \in [Slot -> CallRow] /\ \A s \in Slot : calls[s] = Idle
  <2>1. Idle \in CallRow
    BY DEF Idle, CallRow, Change
  <2> QED BY <2>1 DEF InitialInit
<1>4. Cardinality({c \in Activation : proposed[c] # Nobody}) = 0
  <2>1. {c \in Activation : proposed[c] # Nobody} = {}
    BY DEF InitialInit
  <2> QED BY <2>1, FS_EmptySet
<1>5. ServerTypes
  BY <1>4 DEF InitialInit, ServerTypes, Change, ReceiptRow
<1>6. Traffic <= MaxTraffic
  BY <1>4 DEF InitialInit, Traffic
<1>7. ServerInv
  BY DEF InitialInit, ServerInv
<1>8. TabInv
  BY <1>2 DEF TabInv
<1>9. CrowdInv
  BY <1>2, <1>3 DEF CrowdInv, Idle
<1>10. CallInv
  <2> SUFFICES ASSUME NEW s \in Slot
               PROVE  CallOK(s)
    BY DEF CallInv
  <2>1. calls[s].at = "none" /\ calls[s].op = "idle" /\ calls[s].got = "none"
    BY <1>3 DEF Idle
  <2>2. AnswerOK(calls[s])
    BY <2>1 DEF AnswerOK, Known, Reads
  <2>3. StageOK(calls[s])
    BY <2>1 DEF StageOK
  <2> QED BY <2>1, <2>2, <2>3 DEF CallOK, ConfirmOK, ReadbackOK
<1>11. UnlockedUnsent /\ VerifiedTruly
  BY <1>2 DEF UnlockedUnsent, VerifiedTruly
<1>12. LetGoInv
  BY DEF InitialInit, LetGoInv
<1> QED BY <1>2, <1>3, <1>5, <1>6, <1>7, <1>8, <1>9, <1>10, <1>11, <1>12 DEF HandlerInv, PageTypes

LEMMA ConsoleStep ==
  ASSUME HandlerInv, InitialNext
  PROVE  HandlerInv'
<1>1. ASSUME NEW s \in Slot,
             \/ CreatePreview(s) \/ ConfirmPreview(s) \/ RefreshResult(s) \/ RetryTask(s)
             \/ RetryOriginalConfirmation(s) \/ \E c \in Activation : RestoreSubmission(s, c)
      PROVE  HandlerInv'
  BY <1>1, CreatePreviewKeeps, ConfirmPreviewKeeps, RefreshResultKeeps, RetryTaskKeeps,
     RetryOriginalKeeps, RestoreSubmissionKeeps
<1>2. ASSUME NEW s \in Slot, Serve(s) \/ Remember(s) \/ Quoted(s)
      PROVE  HandlerInv'
  BY <1>2, ServeKeeps, RememberKeeps, QuotedKeeps
<1>3. ASSUME NEW s \in Slot, NEW got \in Arrives(calls[s]),
             \/ Confirmed(s, got) \/ Prepared(s, got) \/ Resumed(s, got) \/ Read(s, got)
             \/ TaskRead(s, got) \/ ReadBack(s, got) \/ Reconciled(s, got) \/ Restored(s, got)
      PROVE  HandlerInv'
  BY <1>3, ConfirmedKeeps, PreparedKeeps, ResumedKeeps, ReadKeeps, TaskReadKeeps, ReadBackKeeps,
     ReconciledKeeps, RestoredKeeps
<1>4. ASSUME NEW m \in wire, Confirm(m) \/ Undelivered(m)
      PROVE  HandlerInv'
  BY <1>4, ConfirmKeeps, UndeliveredKeeps
<1>5. ASSUME NEW t \in Tenant, Reset(t)
      PROVE  HandlerInv'
  BY <1>5, ResetKeeps
<1> QED BY <1>1, <1>2, <1>3, <1>4, <1>5, SilentKeeps, EditTargetKeeps, LoadedTargetsKeeps,
           SelectVersionKeeps DEF InitialNext

LEMMA ConsoleStutter ==
  ASSUME HandlerInv, UNCHANGED initialVars
  PROVE  HandlerInv'
<1>1. UNCHANGED <<proposed, outdated, confirmed, base, wire, sends, journal, requests, tab, calls, letGo>>
  BY DEF initialVars, serverVars, networkVars
<1>2. ServerTypes' /\ Onward
  BY <1>1 DEF HandlerInv, ServerTypes, Onward
<1>3. (\A s \in Slot : Heard(s)) /\ calls' \in [Slot -> CallRow]
  BY <1>1 DEF Heard, HandlerInv, PageTypes
<1> QED BY <1>1, <1>2, <1>3, OnwardKeeps

(* What the invariant says of the promises that the console makes. *)
LEMMA ConsolePromises ==
  ASSUME HandlerInv
  PROVE  ConsoleInv /\ GivenUpForGood
<1>1. tab \in TabRow /\ wire \subseteq Message
  BY DEF HandlerInv, PageTypes, ServerTypes
<1>2. TabType
  BY <1>1 DEF HandlerInv, TabType, TabRow, Change, Message, ServerInv
<1>3. GivenUpForGood
  BY DEF HandlerInv, ServerInv, GivenUp, GivenUpForGood
<1> QED BY <1>2, <1>3 DEF HandlerInv, ConsoleInv

(* For any number of tenants, changes, handler calls and requests, however *)
(* they are delayed, lost or reordered and whenever the page is reloaded   *)
(* or moved to another tenant: while useInitialSubscription.ts lets the    *)
(* preview shown be confirmed under a new request id, no earlier command   *)
(* for it has committed, is on its way or is about to be sent; and the     *)
(* page says "verified" only of the applied change that is the tenant's    *)
(* subscription.                                                           *)
THEOREM ConsoleSafe == InitialSpec => []ConsoleInv
<1>1. InitialInit => HandlerInv
  BY NothingYet
<1>2. HandlerInv /\ [InitialNext]_initialVars => HandlerInv'
  BY ConsoleStep, ConsoleStutter
<1>3. HandlerInv => ConsoleInv
  BY ConsolePromises
<1> QED BY <1>1, <1>2, <1>3, PTL DEF InitialSpec

(* A 400 or 409 proves nothing of the command it answers: the transaction  *)
(* may have committed, or an earlier copy with the same key may still run. *)
(* What recoverConcurrentActivation reads after it is enough all the same: *)
(* the receipt or the subscription shows a change that has committed, and  *)
(* one that is given up takes effect later only by a copy that was under   *)
(* way when the refusal arrived, or after it is restored; and of all the   *)
(* first changes of a tenant confirm commits one at most.                  *)
THEOREM GivenUpSafe == InitialSpec => []GivenUpForGood
<1>1. InitialInit => HandlerInv
  BY NothingYet
<1>2. HandlerInv /\ [InitialNext]_initialVars => HandlerInv'
  BY ConsoleStep, ConsoleStutter
<1>3. HandlerInv => GivenUpForGood
  BY ConsolePromises
<1> QED BY <1>1, <1>2, <1>3, PTL DEF InitialSpec
=============================================================================
