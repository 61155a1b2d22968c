------------------------- MODULE EntitlementProofs --------------------------
(***************************************************************************)
(* Proofs about EntitlementResolve and EntitlementSnapshot.  The first     *)
(* part shows that moduleReason, which walks the dependencies, allows a    *)
(* module exactly when everything it needs is sound, for every registry    *)
(* without cycles.  The second shows that the answer of Resolve stands     *)
(* until the instant that NextTransition names.  The third is the          *)
(* inductive invariant of the snapshot protocol: a head and its row, where *)
(* they are stored, locked or read, are the answer for their inputs.       *)
(***************************************************************************)
EXTENDS EntitlementSnapshot, TLAPS, FiniteSetTheorems, WellFoundedInduction

(* A leaf is first tried with Zenon, briefly, and then with SMT. *)
USE ZenonT(1), SMT

(* What a module must satisfy by itself to be allowed. *)
Sound(table, live, m) ==
  /\ m \in DOMAIN table
  /\ table[m] = "ready"
  /\ \A effect \in {"deny", "safety_deny"} : ~ModuleOn(live, m, effect)
  /\ moduleGranted(live, m)

(* A module and all it needs. *)
AllSound(table, live, m) == \A n \in Needs[m] : Sound(table, live, n)

(* A module needs itself, and modules only. *)
LEMMA NeedsItself ==
  ASSUME NEW m \in Module PROVE m \in Needs[m] /\ Needs[m] \subseteq Module
BY DEF Needs

(* What a dependency needs, the module needs. *)
LEMMA NeedsOfDependency ==
  ASSUME NEW m \in Module, NEW d \in Dependencies[m]
  PROVE  d \in Module /\ Needs[d] \subseteq Needs[m]
<1>1. d \in Module
  BY RegistryAssumption
<1>2. ASSUME NEW n \in Needs[d] PROVE n \in Needs[m]
  <2>1. n \in Module /\ \A S \in SUBSET Module : d \in S /\ Closed(S) => n \in S
    BY <1>1, <1>2 DEF Needs
  <2>2. \A S \in SUBSET Module : m \in S /\ Closed(S) => d \in S
    BY DEF Closed
  <2> QED BY <2>1, <2>2 DEF Needs
<1> QED BY <1>1, <1>2

(* A module needs itself and what its dependencies need. *)
LEMMA NeedsUnfolds ==
  ASSUME NEW m \in Module
  PROVE  Needs[m] = {m} \cup UNION {Needs[d] : d \in Dependencies[m]}
<1> DEFINE U == {m} \cup UNION {Needs[d] : d \in Dependencies[m]}
<1>1. U \subseteq Needs[m]
  BY NeedsItself, NeedsOfDependency
<1>2. U \in SUBSET Module
  BY NeedsItself, NeedsOfDependency
<1>3. Closed(U)
  <2> SUFFICES ASSUME NEW n \in U, NEW e \in Dependencies[n] PROVE e \in U
    BY DEF Closed
  <2>1. n \in Module /\ e \in Module
    BY <1>2, NeedsOfDependency
  <2>2. CASE n = m
    BY <2>1, <2>2, NeedsItself
  <2>3. ASSUME NEW d \in Dependencies[m], n \in Needs[d] PROVE e \in U
    <3>1. d \in Module
      BY NeedsOfDependency
    <3>2. \A S \in SUBSET Module : d \in S /\ Closed(S) => e \in S
      BY <2>1, <2>3, <3>1 DEF Needs, Closed
    <3>3. e \in Needs[d]
      BY <2>1, <3>1, <3>2 DEF Needs
    <3> QED BY <2>3, <3>3
  <2> QED BY <2>2, <2>3
<1>4. Needs[m] \subseteq U
  <2> HIDE DEF U
  <2>1. m \in U
    BY DEF U
  <2> QED BY <1>2, <1>3, <2>1 DEF Needs
<1> QED BY <1>1, <1>4

(* Soundness of all a module needs, one dependency down. *)
LEMMA AllSoundUnfolds ==
  ASSUME NEW table, NEW live, NEW m \in Module
  PROVE  AllSound(table, live, m) <=>
           /\ Sound(table, live, m)
           /\ \A d \in Dependencies[m] : AllSound(table, live, d)
BY NeedsUnfolds DEF AllSound

(* One level of moduleReason, given the reasons of the dependencies. *)
ReasonStep(table, live, reason, m) ==
  IF m \notin DOMAIN table THEN "DEPENDENCY_UNAVAILABLE"
  ELSE IF ModuleOn(live, m, "safety_deny") THEN "SECURITY_DISABLED"
  ELSE IF table[m] # "ready" THEN "TECHNICAL_UNAVAILABLE"
  ELSE IF ModuleOn(live, m, "deny") THEN "CAPABILITY_DISABLED"
  ELSE IF ~moduleGranted(live, m) THEN "MODULE_NOT_ENTITLED"
  ELSE IF \E d \in Dependencies[m] : reason[d] # "ALLOWED" THEN "DEPENDENCY_UNAVAILABLE"
  ELSE "ALLOWED"

(* moduleReason satisfies its recursive definition. *)
LEMMA ReasonEquation ==
  ASSUME NEW table, NEW live
  PROVE  moduleReason(table, live) =
           [m \in Module |-> ReasonStep(table, live, moduleReason(table, live), m)]
<1> DEFINE S(f) == [m \in Module |-> ReasonStep(table, live, f, m)]
           g == [m \in Module |->
             ReasonStep(table, live, [d \in Module |-> IF AllSound(table, live, d) THEN "ALLOWED" ELSE ""], m)]
<1>1. ASSUME NEW m \in Module PROVE g[m] = "ALLOWED" <=> AllSound(table, live, m)
  <2>1. g[m] = "ALLOWED" <=> Sound(table, live, m) /\ \A d \in Dependencies[m] : AllSound(table, live, d)
    BY NeedsOfDependency DEF ReasonStep, Sound
  <2> QED BY <2>1, AllSoundUnfolds
<1>2. g = S(g)
  <2> SUFFICES ASSUME NEW m \in Module PROVE g[m] = ReasonStep(table, live, g, m)
    OBVIOUS
  <2>1. \A d \in Dependencies[m] : d \in Module /\ (g[d] = "ALLOWED" <=> AllSound(table, live, d))
    BY <1>1, NeedsOfDependency
  <2> QED BY <2>1 DEF ReasonStep
<1>3. \E f : f = S(f)
  BY <1>2
<1>4. moduleReason(table, live) = CHOOSE f : f = S(f)
  BY DEF moduleReason, ReasonStep
<1> QED BY <1>3, <1>4

(* moduleReason allows a module exactly when all it needs is sound: a      *)
(* wrong one of the modules would have no wrong dependency below it.       *)
LEMMA ReasonAllowed ==
  ASSUME NEW table, NEW live, NEW m \in Module
  PROVE  moduleReason(table, live)[m] = "ALLOWED" <=> AllSound(table, live, m)
<1> DEFINE f == moduleReason(table, live)
           Wrong == {n \in Module : ~(f[n] = "ALLOWED" <=> AllSound(table, live, n))}
<1> HIDE DEF f
<1>1. f = [n \in Module |-> ReasonStep(table, live, f, n)]
  BY ReasonEquation DEF f
<1>2. ASSUME NEW n \in Wrong, Dependencies[n] \cap Wrong = {} PROVE FALSE
  <2>1. \A d \in Dependencies[n] : f[d] = "ALLOWED" <=> AllSound(table, live, d)
    BY <1>2, NeedsOfDependency
  <2>2. f[n] = ReasonStep(table, live, f, n)
    BY <1>1
  <2>3. f[n] = "ALLOWED" <=> Sound(table, live, n) /\ \A d \in Dependencies[n] : AllSound(table, live, d)
    BY <2>1, <2>2 DEF ReasonStep, Sound
  <2> QED BY <2>3, AllSoundUnfolds
<1>3. Wrong = {}
  <2> HIDE DEF Wrong
  <2>1. Wrong \in SUBSET Module
    BY DEF Wrong
  <2> QED BY <1>2, <2>1, RegistryAssumption DEF Acyclic
<1> QED BY <1>3 DEF f

(* Every capability has a module that owns it. *)
LEMMA OwnerOwns ==
  ASSUME NEW c \in Code
  PROVE  Owner[c] \in Module /\ c \in Capabilities[Owner[c]]
BY DEF Owner, Code

(* No other module owns it (Registry.Validate). *)
LEMMA OwnerUnique ==
  ASSUME NEW m \in Module, NEW c \in Capabilities[m]
  PROVE  c \in Code /\ Owner[c] = m
<1>1. c \in Code
  BY DEF Code
<1> QED BY <1>1, OwnerOwns, RegistryAssumption

(* Resolve allows a capability exactly to the entitled. *)
LEMMA CapabilityAllowed ==
  ASSUME NEW at, NEW table, NEW given, NEW c \in Code, Owner[c] \in DOMAIN table
  PROVE  Resolve(at, table, given).capability[c] = "ALLOWED" <=> Entitled(at, table, given, c)
<1> DEFINE live == Live(at, given)
           o == Owner[c]
           reason == moduleReason(table, live)
<1>1. Resolve(at, table, given).capability[c] = capabilityReason(live, reason[o], o, c)
  BY DEF Resolve, Decisions
<1>2. reason[o] = "ALLOWED" <=> \A m \in Needs[o] : Sound(table, live, m)
  BY ReasonAllowed, OwnerOwns DEF AllSound
<1>3. Entitled(at, table, given, c) <=>
        Granted(live, o, c) /\ capDenial(live, o, c) = "" /\ reason[o] = "ALLOWED"
  BY <1>2 DEF Entitled, Sound
<1>4. capDenial(live, o, c) \in {"", "SECURITY_DISABLED", "CAPABILITY_DISABLED"}
  BY DEF capDenial
<1> HIDE DEF live, o, reason
<1> QED BY <1>1, <1>3, <1>4 DEF capabilityReason

(* A live safety denial of a capability or of its module is the reason     *)
(* that Resolve reports.                                                   *)
LEMMA SafetyReported ==
  ASSUME NEW at, NEW table, NEW given, NEW c \in Code, Owner[c] \in DOMAIN table,
         NEW s \in given, Active(s, at), s.effect = "safety_deny", Validate(s, table),
         DOMAIN table \subseteq Module,
         \/ s.kind = "capability" /\ s.key = c
         \/ s.kind = "module" /\ s.module = Owner[c]
  PROVE  Resolve(at, table, given).capability[c] = "SECURITY_DISABLED"
<1> DEFINE live == Live(at, given)
           o == Owner[c]
           reason == moduleReason(table, live)
<1>1. Resolve(at, table, given).capability[c] = capabilityReason(live, reason[o], o, c)
  BY DEF Resolve, Decisions
<1>2. s \in live
  BY DEF Live
<1>3. CASE s.kind = "capability" /\ s.key = c
  <2>1. s.module = o
    BY <1>3, OwnerUnique DEF Validate
  <2>2. capDenial(live, o, c) = "SECURITY_DISABLED"
    BY <1>2, <1>3, <2>1 DEF capDenial, On
  <2> HIDE DEF live, o, reason
  <2> QED BY <1>1, <2>2 DEF capabilityReason
<1>4. CASE s.kind = "module" /\ s.module = Owner[c]
  <2>1. ModuleOn(live, o, "safety_deny")
    BY <1>2, <1>4 DEF ModuleOn, On, Validate
  <2>2. reason[o] = "SECURITY_DISABLED"
    BY <2>1, ReasonEquation, OwnerOwns DEF ReasonStep
  <2> HIDE DEF live, o, reason
  <2> QED BY <1>1, <2>2 DEF capabilityReason
<1> QED BY <1>3, <1>4

-----------------------------------------------------------------------------
(* A set of natural numbers has a least element, and Min finds it: among    *)
(* the finite sets T \cap 0..k a minimal one ends at the least element.      *)
LEMMA MinLeast ==
  ASSUME NEW T \in SUBSET Nat, NEW x \in T
  PROVE  Min(T) \in T /\ Min(T) <= x
<1> DEFINE UpTo(k) == {z \in T : z <= k}
           F == {UpTo(k) : k \in T}
<1>1. F \subseteq FiniteSubsetsOf(Nat)
  <2>1. ASSUME NEW k \in T PROVE IsFiniteSet(UpTo(k)) /\ UpTo(k) \in SUBSET Nat
    <3>1. UpTo(k) \in SUBSET Nat /\ k \in Nat /\ \A y \in UpTo(k) : y <= k
      OBVIOUS
    <3> HIDE DEF UpTo
    <3> QED BY <3>1, FS_BoundedSetOfNaturals
  <2> QED BY <2>1 DEF FiniteSubsetsOf
<1>2. F # {}
  OBVIOUS
<1>3. PICK H \in F : \A G \in F : ~(<<G, H>> \in StrictSubsetOrdering(Nat))
  <2> HIDE DEF F
  <2> QED BY <1>1, <1>2, WFMin, FS_StrictSubsetOrderingWellFounded
<1>4. PICK m \in T : H = UpTo(m)
  OBVIOUS
<1>5. ASSUME NEW y \in T, ~(m <= y) PROVE FALSE
  <2>1. UpTo(y) \in SUBSET Nat /\ UpTo(m) \in SUBSET Nat
    OBVIOUS
  <2>2. UpTo(y) \subseteq UpTo(m) /\ m \in UpTo(m) /\ m \notin UpTo(y)
    <3>1. m \in Nat /\ y \in Nat /\ y < m /\ \A z \in T : z \in Nat
      BY <1>5
    <3>2. \A z \in T : z <= y => z <= m
      BY <3>1
    <3>3. m <= m /\ ~(m <= y)
      BY <3>1
    <3> QED BY <3>2, <3>3, Zenon
  <2>3. UpTo(y) \in F
    OBVIOUS
  <2> HIDE DEF UpTo, F
  <2>4. <<UpTo(y), UpTo(m)>> \in StrictSubsetOrdering(Nat)
    BY <2>1, <2>2 DEF StrictSubsetOrdering
  <2> QED BY <1>3, <1>4, <2>3, <2>4
<1>6. \A y \in T : m <= y
  BY <1>5
<1> QED BY <1>6 DEF Min

(* The instants at which a source that is not revoked may change. *)
Instants(t, S) == UNION {{s.from, s.until, s.revoked} : s \in {x \in S : State(x, t) # "revoked"}}

(* The next transition is the first instant after t at which a source that *)
(* is not revoked starts, ends or is revoked, or Never.                    *)
LEMMA NextTransitionIs ==
  ASSUME NEW S \in SUBSET Source, NEW t \in Nat
  PROVE  /\ NextTransition(t, S) \in Nat
         /\ NextTransition(t, S) = Never \/ NextTransition(t, S) \in Instants(t, S)
         /\ t < Never => t < NextTransition(t, S)
         /\ \A i \in Instants(t, S) : i > t => NextTransition(t, S) <= i
<1> DEFINE T == {i \in Instants(t, S) : i > t} \cup {Never}
<1>1. NextTransition(t, S) = Min(T)
  BY DEF NextTransition, Instants
<1>2. \A i \in Instants(t, S) : i \in Int
  BY DEF Source, Instants
<1>3. Never \in Nat
  BY SnapshotAssumption
<1>4. T \in SUBSET Nat
  BY <1>2, <1>3
<1>5. Never \in T /\ \A i \in T : i = Never \/ (i \in Instants(t, S) /\ i > t)
  OBVIOUS
<1>6. \A i \in Instants(t, S) : i > t => i \in T
  OBVIOUS
<1> HIDE DEF T
<1>7. Min(T) \in T /\ \A i \in T : Min(T) <= i
  BY <1>4, <1>5, MinLeast
<1> QED BY <1>1, <1>3, <1>4, <1>5, <1>6, <1>7

(* Before the next transition no source starts, ends or is revoked: what    *)
(* is live stays live, and nothing else becomes so (NextTransition).        *)
LEMMA StillLive ==
  ASSUME NEW S \in SUBSET Source, NEW t \in Nat, NEW u \in Nat, t <= u,
         u < NextTransition(t, S)
  PROVE  Live(u, S) = Live(t, S)
<1>1. ASSUME NEW s \in S PROVE Active(s, u) <=> Active(s, t)
  <2>1. s.from \in Int /\ s.until \in Int /\ s.revoked \in Int
    BY DEF Source
  <2>2. CASE State(s, t) = "revoked"
    BY <2>1, <2>2 DEF State, Active
  <2>3. CASE State(s, t) # "revoked"
    <3>1. \A i \in {s.from, s.until, s.revoked} : i \in Instants(t, S)
      BY <2>3 DEF Instants
    <3>2. \A i \in {s.from, s.until, s.revoked} : i > t => i > u
      BY <2>1, <3>1, NextTransitionIs
    <3> QED BY <2>1, <2>3, <3>2 DEF State, Active
  <2> QED BY <2>2, <2>3
<1> QED BY <1>1 DEF Live

(* When the next transition is past, some source has changed its state.    *)
LEMMA TransitionSeen ==
  ASSUME NEW S \in SUBSET Source, \A s \in S : s.from < s.until,
         NEW t \in Nat, NEW u \in Nat, NEW w \in Nat, w < Never,
         u < NextTransition(t, S), NextTransition(t, S) <= w
  PROVE  \E s \in S : State(s, w) # State(s, u)
<1> DEFINE i == NextTransition(t, S)
<1>1. i \in Nat /\ i \in Instants(t, S)
  BY NextTransitionIs, SnapshotAssumption
<1>2. PICK s \in S : State(s, t) # "revoked" /\ i \in {s.from, s.until, s.revoked}
  BY <1>1 DEF Instants
<1>3. s.from \in Int /\ s.until \in Int /\ s.revoked \in Int /\ s.from < s.until
  BY DEF Source
<1>4. s.revoked > t /\ s.revoked \in Instants(t, S)
  BY <1>2, <1>3 DEF State, Instants
<1>5. i <= s.revoked
  BY <1>4, NextTransitionIs
<1>6. State(s, w) # State(s, u)
  <2> HIDE DEF i
  <2>1. u < i /\ i <= w
    BY DEF i
  <2> QED BY <1>1, <1>2, <1>3, <1>5, <2>1 DEF State
<1> QED BY <1>6

(* Two sources that are active at one instant overlap.                     *)
LEMMA ActiveOverlap ==
  ASSUME NEW s \in Source, NEW x \in Source, NEW t \in Int, Active(s, t), Active(x, t)
  PROVE  Overlap(s, x)
<1>1. /\ s.from \in Int /\ s.until \in Int /\ s.revoked \in Int
      /\ x.from \in Int /\ x.until \in Int
  BY DEF Source
<1>2. s.from <= t /\ t < s.until /\ t < s.revoked /\ x.from <= t /\ t < x.until
  BY <1>1 DEF Active, State
<1>3. Min({s.until, s.revoked}) \in {s.until, s.revoked}
  <2>1. \E m \in {s.until, s.revoked} : \A y \in {s.until, s.revoked} : m <= y
    BY <1>1
  <2> QED BY <2>1 DEF Min
<1> QED BY <1>1, <1>2, <1>3 DEF Overlap

-----------------------------------------------------------------------------
(* A head is current when locked() would not see its stamps as old.        *)
Stamped(h, v, e) == h # NoRow /\ ~h.invalidated /\ h.sourceVersion = v /\ h.epoch = e

(* A head and its row: neither, or two rows of one version, not ahead of   *)
(* the authorities, whose result and end of validity are those of the      *)
(* inputs at the instant of the evaluation.                                *)
IsPair(h, l, t, v, e) ==
  \/ h = NoRow /\ l = NoRow
  \/ /\ h \in [version : Nat, sourceVersion : Nat, epoch : Nat,
                inputs : {h.inputs}, invalidated : BOOLEAN]
     /\ h.version > 0 /\ l.version = h.version
     /\ h.sourceVersion <= v /\ h.epoch <= e
     /\ h.inputs[2] \subseteq Source /\ \A s \in h.inputs[2] : s.from < s.until
     /\ l.evaluatedAt \in Nat /\ l.evaluatedAt <= t
     /\ l.validUntil = NextTransition(l.evaluatedAt, h.inputs[2])
     /\ l.result = Resolve(l.evaluatedAt, h.inputs[1], h.inputs[2])

(* The scalars and the tables. *)
TablesInv ==
  /\ now \in 0..Horizon /\ deploys \in Nat /\ epoch \in Nat /\ epoch > 0 /\ version \in Nat
  /\ epoch <= MaxMoves + 1
  /\ DOMAIN catalog \subseteq Module /\ retired \subseteq Module
  /\ draft = NoDraft \/ draft.offer \in Offer

(* The stored sources passed Source.Validate and ValidateAppend. *)
SourcesInv ==
  /\ sources \subseteq Source
  /\ \A s \in sources : s.from < s.until /\ Validate(s, catalog)
  /\ OneReplacement

(* A preflight answers for the head it saw while nothing has changed.      *)
PreparedInv(q) ==
  /\ q.at \in Nat /\ q.at <= now
  /\ q.version \in Nat /\ q.version <= version /\ q.epoch \in Nat /\ q.epoch <= epoch
  /\ q.version = version /\ q.epoch = epoch =>
       Stamped(head, version, epoch) /\ q.at < latest.validUntil

(* A writing operation holds rows made of what is there.                   *)
ExecutingInv(q, r) ==
  /\ IsPair(q.rows.head, q.rows.latest, now, version, epoch)
  /\ Stamped(q.rows.head, version, epoch) /\ q.rows.head.inputs = Inputs
  /\ q.at \in Nat /\ q.at <= now /\ ValidAt(q.rows.latest, q.at)
  /\ Allows(q.rows.latest.result, r)
  /\ \A p \in Request : request[p].pc = "prepared" => request[p].at < q.rows.latest.validUntil

(* A read view holds a head that its stamps vouch for.                     *)
ReadingInv(q) ==
  /\ IsPair(q.head, q.latest, now, version, epoch)
  /\ Stamped(q.head, q.version, q.epoch) => q.head.inputs = q.inputs
  /\ q.seen.at \in Nat /\ q.seen.at <= now
  /\ q.seen.version = q.version /\ q.seen.epoch = q.epoch =>
       Stamped(q.head, q.version, q.epoch) /\ q.seen.at < q.latest.validUntil

(* A request in hand, and the inputs of the head while one is in hand. *)
RequestInv(r) ==
  /\ request[r].pc \in {"idle", "prepared", "executing", "reading"}
  /\ request[r].pc = "prepared" => PreparedInv(request[r])
  /\ request[r].pc = "executing" => ExecutingInv(request[r], r)
  /\ request[r].pc = "reading" => ReadingInv(request[r])
  /\ request[r].pc # "idle" /\ Stamped(head, version, epoch) => head.inputs = Inputs

(* The inductive invariant. *)
IInv ==
  /\ TablesInv /\ SourcesInv
  /\ IsPair(head, latest, now, version, epoch)
  /\ DOMAIN request = Request /\ \A r \in Request : RequestInv(r)

-----------------------------------------------------------------------------
(* A pair stays one while time and the authorities move on. *)
LEMMA PairGrows ==
  ASSUME NEW h, NEW l, NEW t \in Nat, NEW v \in Nat, NEW e \in Nat,
         NEW t2 \in Nat, NEW v2 \in Nat, NEW e2 \in Nat, t <= t2, v <= v2, e <= e2,
         IsPair(h, l, t, v, e)
  PROVE  IsPair(h, l, t2, v2, e2)
BY DEF IsPair

(* While a row is valid it answers what Resolve would.                     *)
LEMMA ValidRowExact ==
  ASSUME NEW h, NEW l, NEW t \in Nat, NEW v, NEW e, NEW u \in Nat,
         IsPair(h, l, t, v, e), h # NoRow, ValidAt(l, u)
  PROVE  l.result = Resolve(u, h.inputs[1], h.inputs[2])
<1>1. /\ h.inputs[2] \in SUBSET Source
      /\ l.evaluatedAt \in Nat
      /\ l.validUntil = NextTransition(l.evaluatedAt, h.inputs[2])
      /\ l.result = Resolve(l.evaluatedAt, h.inputs[1], h.inputs[2])
  BY DEF IsPair
<1>2. Live(u, h.inputs[2]) = Live(l.evaluatedAt, h.inputs[2])
  BY <1>1, StillLive DEF ValidAt
<1> QED BY <1>1, <1>2 DEF Resolve

(* Guard.check on a result of Resolve lets through the entitled only.      *)
LEMMA AllowedEntitled ==
  ASSUME NEW r, NEW at, NEW cat, NEW srcs, Allows(Resolve(at, cat, srcs), r), NEW c \in Required[r]
  PROVE  Entitled(at, cat, srcs, c)
<1>1. /\ c \in DOMAIN Resolve(at, cat, srcs).capability
      /\ Resolve(at, cat, srcs).capability[c] = "ALLOWED"
  BY DEF Allows
<1>2. c \in Code /\ Owner[c] \in DOMAIN cat
  BY <1>1 DEF Resolve, Decisions
<1> QED BY <1>1, <1>2, CapabilityAllowed

(* The invariant holds of the first tables. *)
LEMMA InitInv == Init => IInv
<1> SUFFICES ASSUME Init PROVE IInv
  OBVIOUS
<1>1. PICK modules \in InitialCatalogs : catalog = [m \in modules |-> "ready"]
  BY DEF Init
<1>2. TablesInv
  BY <1>1, SnapshotAssumption DEF Init, TablesInv
<1>3. SourcesInv
  <2>1. sources \subseteq Source /\ \A s \in sources : s.from < s.until /\ Validate(s, catalog)
    BY <1>1, SnapshotAssumption DEF Init
  <2>2. OneReplacement
    <3> SUFFICES ASSUME NEW t \in 0..(Horizon + 1), NEW s \in sources, NEW x \in sources,
                        Replaces(s), Replaces(x), s.module = x.module,
                        Active(s, t), Active(x, t), s # x
                 PROVE  FALSE
      BY DEF OneReplacement
    <3>1. ~Overlap(s, x)
      BY SnapshotAssumption DEF Init
    <3> QED BY <2>1, <3>1, ActiveOverlap
  <2> QED BY <2>1, <2>2 DEF SourcesInv
<1>4. IsPair(head, latest, now, version, epoch)
  BY DEF Init, IsPair
<1>5. DOMAIN request = Request /\ \A r \in Request : RequestInv(r)
  BY DEF Init, RequestInv, Idle
<1> QED BY <1>2, <1>3, <1>4, <1>5 DEF IInv

(* The rows that locked() returns: current, and valid now.                 *)
LEMMA LockedIsCurrent ==
  ASSUME IInv
  PROVE  /\ IsPair(Locked.head, Locked.latest, now, version, epoch)
         /\ Stamped(Locked.head, version, epoch)
         /\ Locked.head.inputs = Inputs
         /\ ValidAt(Locked.latest, now)
<1>1. CASE HeadUsable(now)
  BY <1>1 DEF IInv, HeadUsable, Locked, Stamped
<1>2. CASE ~HeadUsable(now)
  <2>1. Locked = Fresh
    BY <1>2 DEF Locked
  <2>2. head.version \in Nat
    BY DEF IInv, IsPair, NoRow
  <2>3. now \in Nat /\ now < Never /\ version \in Nat /\ epoch \in Nat
    BY SnapshotAssumption DEF IInv, TablesInv
  <2>4. Inputs[1] = Projected /\ Inputs[2] = sources
    BY DEF Inputs
  <2>5. sources \in SUBSET Source /\ \A s \in sources : s.from < s.until
    BY DEF IInv, SourcesInv
  <2>6. now < NextTransition(now, sources)
    BY <2>3, <2>5, NextTransitionIs
  <2>7. IsPair(Fresh.head, Fresh.latest, now, version, epoch)
    BY <2>2, <2>3, <2>4, <2>5 DEF Fresh, IsPair
  <2>8. Stamped(Fresh.head, version, epoch) /\ Fresh.head.inputs = Inputs
    BY <2>2 DEF Fresh, Stamped, NoRow
  <2>9. ValidAt(Fresh.latest, now)
    BY <2>3, <2>6 DEF Fresh, ValidAt
  <2> QED BY <2>1, <2>7, <2>8, <2>9
<1> QED BY <1>1, <1>2

(* Every step keeps the tables. *)
LEMMA TablesStep ==
  ASSUME IInv, [Next]_vars
  PROVE  TablesInv'
<1> USE SnapshotAssumption DEF IInv, TablesInv
<1>1. ASSUME NEW r \in Request,
             Prepare(r) \/ RequireExecuted(r) \/ Commit(r) \/ Abort(r) \/ OpenReadView(r) \/ ReadEnds(r)
      PROVE  TablesInv'
  BY <1>1 DEF Prepare, RequireExecuted, Commit, Abort, OpenReadView, ReadEnds, readOnly, tables, rights
<1>2. ASSUME NEW o \in Offer, ReadEntitlementCatalog(o)
      PROVE  TablesInv'
  BY <1>2 DEF ReadEntitlementCatalog, tables, rights
<1>3. ASSUME NEW at \in AppTime, CreateEntitlementOverride(at)
      PROVE  TablesInv'
  BY <1>3 DEF CreateEntitlementOverride, Advance, tables
<1>4. CASE EndDraft
  BY <1>4 DEF EndDraft, tables, rights
<1>5. ASSUME NEW s \in sources, NEW at \in AppTime, RevokeEntitlementOverride(s, at)
      PROVE  TablesInv'
  BY <1>5 DEF RevokeEntitlementOverride, Advance, tables
<1>6. ASSUME NEW m \in Module, CreateModule(m)
      PROVE  TablesInv'
  BY <1>6 DEF CreateModule, transact, rights
<1>7. ASSUME NEW m \in Module, NEW status, SetTechnicalStatus(m, status)
      PROVE  TablesInv'
  BY <1>7 DEF SetTechnicalStatus, transact, rights
<1>8. ASSUME NEW m \in Module, DeleteModule(m)
      PROVE  TablesInv'
  BY <1>8 DEF DeleteModule, transact, rights
<1>9. ASSUME NEW modules \in Registry, Deploy(modules)
      PROVE  TablesInv'
  BY <1>9 DEF Deploy, tables, rights
<1>10. CASE Tick
  BY <1>10 DEF Tick, tables, rights
<1>11. CASE UNCHANGED vars
  BY <1>11 DEF vars, tables, rights
<1> QED BY <1>1, <1>2, <1>3, <1>4, <1>5, <1>6, <1>7, <1>8, <1>9, <1>10, <1>11 DEF Next

(* What the sources promise depends on the modules that there are.         *)
LEMMA SourcesStay ==
  ASSUME IInv, sources' = sources, \A s \in sources : s.module \in DOMAIN catalog'
  PROVE  SourcesInv'
BY DEF IInv, SourcesInv, OneReplacement, Validate

(* An override that starts meets no other replacement of its quota.        *)
LEMMA CreateSources ==
  ASSUME IInv, NEW at \in AppTime, CreateEntitlementOverride(at)
  PROVE  SourcesInv'
<1> DEFINE s == fromCreate(draft.offer, at)
<1>1. draft.offer \in Offer /\ at \in Int
  BY SnapshotAssumption DEF IInv, TablesInv, CreateEntitlementOverride, AppTime
<1>2. s \in Source
  BY <1>1, SnapshotAssumption DEF fromCreate, Source
<1>3. sources' = sources \cup {s} /\ catalog' = catalog
  BY ZenonT(10) DEF CreateEntitlementOverride, Insert, tables
<1>4. s.from < s.until
  BY <1>2 DEF CreateEntitlementOverride, Source
<1>5. Validate(s, catalog)
  BY DEF CreateEntitlementOverride, Insert, ValidateAppend, Validate
<1>6. OneReplacement'
  <2> SUFFICES ASSUME NEW t \in 0..(Horizon + 1), NEW x \in sources', NEW y \in sources',
                      Replaces(x), Replaces(y), x.module = y.module, Active(x, t), Active(y, t)
               PROVE  x = y
    BY DEF OneReplacement
  <2>1. sources \subseteq Source /\ OneReplacement /\ t \in Int
    BY SnapshotAssumption DEF IInv, SourcesInv
  <2>2. \A z \in sources : ~(Replaces(z) /\ Replaces(s) /\ z.module = s.module /\ Overlap(z, s))
    BY DEF CreateEntitlementOverride, ValidateAppend
  <2> HIDE DEF s
  <2>3. CASE x \in sources /\ y \in sources
    BY <2>1, <2>3 DEF OneReplacement
  <2>4. CASE x \in sources /\ y = s
    BY <1>2, <2>1, <2>2, <2>4, ActiveOverlap
  <2>5. CASE x = s /\ y \in sources
    BY <1>2, <2>1, <2>2, <2>5, ActiveOverlap
  <2> QED BY <1>3, <2>3, <2>4, <2>5
<1> HIDE DEF s
<1> QED BY <1>2, <1>3, <1>4, <1>5, <1>6 DEF IInv, SourcesInv

(* A revocation only shortens a source.                                    *)
LEMMA RevokeSources ==
  ASSUME IInv, NEW s \in sources, NEW at \in AppTime, RevokeEntitlementOverride(s, at)
  PROVE  SourcesInv'
<1> DEFINE z == [s EXCEPT !.revoked = at]
<1>1. s \in Source /\ at \in Int /\ s.revoked = Never
  BY SnapshotAssumption DEF IInv, TablesInv, SourcesInv, RevokeEntitlementOverride, AppTime
<1>2. z \in Source
  BY <1>1 DEF Source
<1>3. /\ z.module = s.module /\ z.kind = s.kind /\ z.key = s.key /\ z.effect = s.effect
      /\ z.source = s.source /\ z.from = s.from /\ z.until = s.until /\ z.revoked = at
  BY <1>1 DEF Source
<1>4. sources' = (sources \ {s}) \cup {z} /\ catalog' = catalog
  BY DEF RevokeEntitlementOverride, tables
<1> HIDE DEF z
<1>5. s.from < s.until /\ Validate(z, catalog)
  BY <1>3 DEF IInv, SourcesInv, Validate
<1>6. Replaces(z) <=> Replaces(s)
  BY <1>3 DEF Replaces
<1>7. ASSUME NEW t \in 0..(Horizon + 1), Active(z, t) PROVE Active(s, t)
  <2>1. t \in Int /\ t < Never
    BY SnapshotAssumption
  <2> QED BY <1>1, <1>3, <1>7, <2>1, SnapshotAssumption DEF Active, State, Source
<1>8. OneReplacement'
  <2> SUFFICES ASSUME NEW t \in 0..(Horizon + 1), NEW x \in sources', NEW y \in sources',
                      Replaces(x), Replaces(y), x.module = y.module, Active(x, t), Active(y, t)
               PROVE  x = y
    BY DEF OneReplacement
  <2>1. OneReplacement
    BY DEF IInv, SourcesInv
  <2>2. CASE x = z
    BY <1>3, <1>4, <1>6, <1>7, <2>1, <2>2 DEF OneReplacement
  <2>3. CASE y = z
    BY <1>3, <1>4, <1>6, <1>7, <2>1, <2>3 DEF OneReplacement
  <2>4. CASE x # z /\ y # z
    BY <1>4, <2>1, <2>4 DEF OneReplacement
  <2> QED BY <2>2, <2>3, <2>4
<1> QED BY <1>2, <1>3, <1>4, <1>5, <1>8 DEF IInv, SourcesInv

(* Every step keeps the sources. *)
LEMMA SourcesStep ==
  ASSUME IInv, [Next]_vars
  PROVE  SourcesInv'
<1>1. \A s \in sources : s.module \in DOMAIN catalog
  BY DEF IInv, SourcesInv, Validate
<1>2. ASSUME UNCHANGED <<sources, catalog>>
      PROVE  SourcesInv'
  BY <1>1, <1>2, SourcesStay
<1>3. ASSUME NEW r \in Request,
             Prepare(r) \/ RequireExecuted(r) \/ Commit(r) \/ Abort(r) \/ OpenReadView(r) \/ ReadEnds(r)
      PROVE  SourcesInv'
  BY <1>2, <1>3 DEF Prepare, RequireExecuted, Commit, Abort, OpenReadView, ReadEnds, readOnly, tables, rights
<1>4. ASSUME NEW o \in Offer, ReadEntitlementCatalog(o)
      PROVE  SourcesInv'
  BY <1>2, <1>4 DEF ReadEntitlementCatalog, tables, rights
<1>5. CASE EndDraft \/ Tick \/ \E modules \in Registry : Deploy(modules)
  BY <1>2, <1>5 DEF EndDraft, Tick, Deploy, tables, rights
<1>6. CASE \E at \in AppTime : CreateEntitlementOverride(at)
  BY <1>6, CreateSources
<1>7. CASE \E s \in sources, at \in AppTime : RevokeEntitlementOverride(s, at)
  BY <1>7, RevokeSources
<1>8. ASSUME NEW m \in Module, CreateModule(m)
      PROVE  SourcesInv'
  <2>1. DOMAIN catalog \subseteq DOMAIN catalog' /\ sources' = sources
    BY <1>8 DEF CreateModule, rights
  <2> QED BY <1>1, <2>1, SourcesStay
<1>9. ASSUME NEW m \in Module, NEW status, SetTechnicalStatus(m, status)
      PROVE  SourcesInv'
  <2>1. DOMAIN catalog' = DOMAIN catalog /\ sources' = sources
    BY <1>9 DEF SetTechnicalStatus, rights
  <2> QED BY <1>1, <2>1, SourcesStay
<1>10. ASSUME NEW m \in Module, DeleteModule(m)
       PROVE  SourcesInv'
  <2>1. sources' = sources /\ \A s \in sources : s.module \in DOMAIN catalog'
    BY <1>1, <1>10 DEF DeleteModule, rights
  <2> QED BY <2>1, SourcesStay
<1>11. CASE UNCHANGED vars
  BY <1>2, <1>11 DEF vars, tables, rights
<1> QED BY <1>3, <1>4, <1>5, <1>6, <1>7, <1>8, <1>9, <1>10, <1>11 DEF Next

(* Invalidating a head changes nothing else of it.                         *)
LEMMA Invalidated ==
  ASSUME NEW h, NEW l, NEW t, NEW v, NEW e, IsPair(h, l, t, v, e), h # NoRow
  PROVE  LET g == [h EXCEPT !.invalidated = TRUE]
         IN  IsPair(g, l, t, v, e) /\ g.invalidated
<1> DEFINE g == [h EXCEPT !.invalidated = TRUE]
<1>1. h \in [version : Nat, sourceVersion : Nat, epoch : Nat, inputs : {h.inputs}, invalidated : BOOLEAN]
  BY DEF IsPair
<1>2. g \in [version : Nat, sourceVersion : Nat, epoch : Nat, inputs : {h.inputs}, invalidated : BOOLEAN]
  BY <1>1
<1>3. /\ g.version = h.version /\ g.sourceVersion = h.sourceVersion /\ g.epoch = h.epoch
      /\ g.inputs = h.inputs /\ g.invalidated = TRUE
  BY <1>1
<1> HIDE DEF g
<1> QED BY <1>2, <1>3 DEF IsPair, g

(* Every step leaves a pair. *)
LEMMA PairStep ==
  ASSUME IInv, [Next]_vars, TablesInv'
  PROVE  IsPair(head', latest', now', version', epoch')
<1>1. /\ now \in Nat /\ version \in Nat /\ epoch \in Nat
      /\ now' \in Nat /\ version' \in Nat /\ epoch' \in Nat
  BY SnapshotAssumption DEF IInv, TablesInv
<1>2. ASSUME UNCHANGED <<head, latest>>, now <= now', version <= version', epoch <= epoch'
      PROVE  IsPair(head', latest', now', version', epoch')
  BY <1>1, <1>2, PairGrows, ZenonT(10) DEF IInv
<1>3. ASSUME NEW r \in Request, Prepare(r)
      PROVE  IsPair(head', latest', now', version', epoch')
  BY <1>3, LockedIsCurrent DEF Prepare, tables, rights
<1>4. ASSUME NEW r \in Request, Commit(r)
      PROVE  IsPair(head', latest', now', version', epoch')
  BY <1>4 DEF IInv, RequestInv, ExecutingInv, Commit, tables, rights
<1>5. ASSUME NEW r \in Request, RequireExecuted(r) \/ Abort(r) \/ OpenReadView(r) \/ ReadEnds(r)
      PROVE  IsPair(head', latest', now', version', epoch')
  BY <1>1, <1>2, <1>5 DEF RequireExecuted, Abort, OpenReadView, ReadEnds, readOnly, tables, rights
<1>6. ASSUME NEW o \in Offer, ReadEntitlementCatalog(o)
      PROVE  IsPair(head', latest', now', version', epoch')
  BY <1>1, <1>2, <1>6 DEF ReadEntitlementCatalog, tables, rights
<1>7. CASE EndDraft \/ Tick \/ \E modules \in Registry : Deploy(modules)
  BY <1>1, <1>2, <1>7 DEF EndDraft, Tick, Deploy, tables, rights
<1>8. ASSUME Advance, UNCHANGED <<now, epoch, latest>>
      PROVE  IsPair(head', latest', now', version', epoch')
  <2>1. version' \in Nat /\ version <= version' /\ epoch <= epoch' /\ now <= now'
    BY <1>1, <1>8 DEF Advance
  <2>2. IsPair(head', latest, now, version, epoch)
    BY <1>8, Invalidated DEF IInv, Advance
  <2> QED BY <1>1, <1>8, <2>1, <2>2, PairGrows
<1>9. CASE \E at \in AppTime : CreateEntitlementOverride(at)
  BY <1>8, <1>9 DEF CreateEntitlementOverride, tables
<1>10. CASE \E s \in sources, at \in AppTime : RevokeEntitlementOverride(s, at)
  BY <1>8, <1>10 DEF RevokeEntitlementOverride, tables
<1>11. ASSUME NEW m \in Module,
              \/ CreateModule(m) \/ DeleteModule(m)
              \/ \E status \in {"ready", "not_ready", "disabled"} : SetTechnicalStatus(m, status)
       PROVE  IsPair(head', latest', now', version', epoch')
  BY <1>1, <1>2, <1>11 DEF CreateModule, DeleteModule, SetTechnicalStatus, transact, rights
<1>12. CASE UNCHANGED vars
  BY <1>1, <1>2, <1>12 DEF vars, tables, rights
<1> QED BY <1>3, <1>4, <1>5, <1>6, <1>7, <1>9, <1>10, <1>11, <1>12 DEF Next

-----------------------------------------------------------------------------
(* A request that has ended promises nothing. *)
LEMMA IdleInv ==
  ASSUME NEW r \in Request, request'[r] = Idle
  PROVE  RequestInv(r)'
BY DEF RequestInv, Idle

(* A request keeps what it has while the tables do.                        *)
LEMMA RequestStays ==
  ASSUME IInv, TablesInv', now <= now',
         UNCHANGED <<implemented, tables, rights, head, latest>>,
         \A p \in Request : request'[p].pc = "prepared" => request'[p] = request[p],
         NEW r \in Request, request'[r] = request[r]
  PROVE  RequestInv(r)'
<1> DEFINE q == request[r]
<1>1. now \in Nat /\ now' \in Nat /\ version \in Nat /\ epoch \in Nat
  BY SnapshotAssumption DEF IInv, TablesInv
<1>2. Inputs' = Inputs /\ version' = version /\ epoch' = epoch
  BY DEF Inputs, Projected, tables, rights
<1>3. RequestInv(r)
  BY DEF IInv
<1>4. ASSUME PreparedInv(q) PROVE PreparedInv(q)'
  BY <1>1, <1>2, <1>4 DEF PreparedInv
<1>5. ASSUME ExecutingInv(q, r) PROVE ExecutingInv(q, r)'
  <2>1. IsPair(q.rows.head, q.rows.latest, now', version', epoch')
    BY <1>1, <1>2, <1>5, PairGrows DEF ExecutingInv
  <2> QED BY <1>1, <1>2, <1>5, <2>1 DEF ExecutingInv
<1>6. ASSUME ReadingInv(q) PROVE ReadingInv(q)'
  <2>1. IsPair(q.head, q.latest, now', version', epoch')
    BY <1>1, <1>2, <1>6, PairGrows DEF ReadingInv
  <2> QED BY <1>1, <1>2, <1>6, <2>1 DEF ReadingInv
<1> QED BY <1>2, <1>3, <1>4, <1>5, <1>6 DEF RequestInv

(* A newer head that is current serves the requests in flight too.         *)
LEMMA HeadReplaced ==
  ASSUME IInv, UNCHANGED <<now, implemented, tables, rights>>,
         Stamped(head', version, epoch), head'.inputs = Inputs,
         \A p \in Request : request[p].pc = "prepared" => request[p].at < latest'.validUntil,
         \A p \in Request : request'[p].pc = "prepared" => request'[p] = request[p] \/ LocksFree,
         NEW r \in Request, request'[r] = request[r]
  PROVE  RequestInv(r)'
<1> DEFINE q == request[r]
<1>1. Inputs' = Inputs /\ version' = version /\ epoch' = epoch
  BY DEF Inputs, Projected, tables, rights
<1>2. RequestInv(r)
  BY DEF IInv
<1>3. ASSUME q.pc = "prepared" PROVE PreparedInv(q)'
  BY <1>1, <1>2, <1>3 DEF RequestInv, PreparedInv
<1>4. ASSUME q.pc = "executing" PROVE ExecutingInv(q, r)'
  BY <1>1, <1>2, <1>4 DEF RequestInv, ExecutingInv, LocksFree
<1>5. ASSUME q.pc = "reading" PROVE ReadingInv(q)'
  BY <1>1, <1>2, <1>5 DEF RequestInv, ReadingInv
<1> QED BY <1>1, <1>2, <1>3, <1>4, <1>5 DEF RequestInv

(* A change of the sources or of the catalogue waits for the writing       *)
(* operations, and leaves no head that looks current.                      *)
LEMMA RequestOvertaken ==
  ASSUME IInv, TablesInv', LocksFree, UNCHANGED <<now, request>>,
         version <= version', epoch <= epoch', version < version' \/ epoch < epoch',
         ~Stamped(head', version', epoch'),
         NEW r \in Request
  PROVE  RequestInv(r)'
<1> DEFINE q == request[r]
<1>1. /\ now \in Nat /\ version \in Nat /\ epoch \in Nat
      /\ version' \in Nat /\ epoch' \in Nat
  BY SnapshotAssumption DEF IInv, TablesInv
<1>2. RequestInv(r) /\ q.pc # "executing"
  BY DEF IInv, LocksFree
<1>3. ASSUME PreparedInv(q) PROVE PreparedInv(q)'
  BY <1>1, <1>3 DEF PreparedInv
<1>4. ASSUME ReadingInv(q) PROVE ReadingInv(q)'
  <2>1. IsPair(q.head, q.latest, now', version', epoch')
    BY <1>1, <1>4, PairGrows DEF ReadingInv
  <2> QED BY <1>1, <1>4, <2>1 DEF ReadingInv
<1> QED BY <1>2, <1>3, <1>4 DEF RequestInv

(* Guard.Prepare answers for the head that it locked. *)
LEMMA PrepareRequests ==
  ASSUME IInv, TablesInv', NEW r \in Request, Prepare(r), NEW p \in Request
  PROVE  RequestInv(p)'
<1>1. /\ request' \in [Request -> {request'[x] : x \in Request}] /\ LocksFree
      /\ \A x \in Request : x # r => request'[x] = request[x]
      /\ head' = Locked.head /\ latest' = Locked.latest
      /\ UNCHANGED <<now, implemented, tables, rights>>
  BY DEF IInv, Prepare
<1>2. /\ Stamped(head', version, epoch) /\ head'.inputs = Inputs
      /\ now < latest'.validUntil /\ now \in Nat
      /\ IsPair(head', latest', now, version, epoch)
  BY <1>1, LockedIsCurrent, SnapshotAssumption DEF ValidAt, IInv, TablesInv
<1>3. CASE p # r
  <2>1. latest'.validUntil \in Nat
    BY <1>2, NextTransitionIs, ZenonT(10) DEF IsPair, Stamped
  <2>2. \A x \in Request : request[x].pc = "prepared" => request[x].at < latest'.validUntil
    BY <1>2, <2>1 DEF IInv, RequestInv, PreparedInv
  <2> QED BY <1>1, <1>2, <1>3, <2>2, HeadReplaced
<1>4. CASE p = r
  <2>1. \/ request'[r] = Idle
        \/ request'[r] = [pc |-> "prepared", at |-> now, version |-> version, epoch |-> epoch]
    BY DEF IInv, Prepare
  <2>2. CASE request'[r] = Idle
    BY <1>4, <2>2, IdleInv
  <2>3. CASE request'[r] = [pc |-> "prepared", at |-> now, version |-> version, epoch |-> epoch]
    <3>1. Inputs' = Inputs /\ version' = version /\ epoch' = epoch /\ now' = now
      BY <1>1 DEF Inputs, Projected, tables, rights
    <3>2. version \in Nat /\ epoch \in Nat
      BY DEF IInv, TablesInv
    <3>3. PreparedInv(request[r])'
      BY <1>2, <2>3, <3>1, <3>2 DEF PreparedInv
    <3> QED BY <1>2, <1>4, <2>3, <3>1, <3>3 DEF RequestInv
  <2> QED BY <2>1, <2>2, <2>3
<1> QED BY <1>3, <1>4

(* The executing request holds the rows it locked. *)
LEMMA ExecuteRequests ==
  ASSUME IInv, TablesInv', NEW r \in Request, RequireExecuted(r), NEW p \in Request
  PROVE  RequestInv(p)'
<1>1. /\ LocksFree /\ request[r].pc = "prepared"
      /\ \A x \in Request : x # r => request'[x] = request[x]
      /\ UNCHANGED <<now, implemented, tables, rights, head, latest>>
  BY DEF IInv, RequireExecuted
<1>2. \/ request'[r] = Idle
      \/ /\ request'[r] = [pc |-> "executing", at |-> now, rows |-> Locked]
         /\ Allows(Locked.latest.result, r)
  BY DEF IInv, RequireExecuted
<1>3. now \in Nat /\ now <= now'
  BY <1>1, SnapshotAssumption DEF IInv, TablesInv
<1>4. request'[r].pc # "prepared"
  BY <1>2 DEF Idle
<1>5. \A x \in Request : request'[x].pc = "prepared" => request'[x] = request[x]
  BY <1>1, <1>4
<1>6. CASE p # r
  BY <1>1, <1>3, <1>5, <1>6, RequestStays
<1>7. CASE p = r /\ request'[r] = Idle
  BY <1>7, IdleInv
<1>8. CASE p = r /\ request'[r] # Idle
  <2> DEFINE q == request'[r]
  <2>1. q.pc = "executing" /\ q.at = now /\ q.rows = Locked /\ Allows(Locked.latest.result, r)
    BY <1>2, <1>8
  <2>2. Inputs' = Inputs /\ version' = version /\ epoch' = epoch /\ now' = now /\ head' = head
    BY <1>1 DEF Inputs, Projected, tables, rights
  <2>3. /\ IsPair(Locked.head, Locked.latest, now, version, epoch)
        /\ Stamped(Locked.head, version, epoch) /\ Locked.head.inputs = Inputs
        /\ ValidAt(Locked.latest, now)
    BY LockedIsCurrent
  <2>4. Locked.latest.validUntil \in Nat /\ now < Locked.latest.validUntil
    BY <2>3, NextTransitionIs, ZenonT(10) DEF IsPair, Stamped, ValidAt
  <2>5. \A x \in Request : request'[x].pc = "prepared" => request'[x].at < Locked.latest.validUntil
    BY <1>3, <1>5, <2>4 DEF IInv, RequestInv, PreparedInv
  <2>6. ExecutingInv(request[r], r)'
    BY <1>3, <2>1, <2>2, <2>3, <2>5 DEF ExecutingInv, ValidAt, Allows
  <2>7. Stamped(head, version, epoch) => head.inputs = Inputs
    BY <1>1 DEF IInv, RequestInv
  <2> QED BY <1>8, <2>1, <2>2, <2>6, <2>7 DEF RequestInv
<1> QED BY <1>6, <1>7, <1>8

(* The commit stores the rows the request held. *)
LEMMA CommitRequests ==
  ASSUME IInv, TablesInv', NEW r \in Request, Commit(r), NEW p \in Request
  PROVE  RequestInv(p)'
<1>1. /\ request[r].pc = "executing" /\ request'[r] = Idle
      /\ \A x \in Request : x # r => request'[x] = request[x]
      /\ head' = request[r].rows.head /\ latest' = request[r].rows.latest
      /\ UNCHANGED <<now, implemented, tables, rights>>
  BY DEF IInv, Commit
<1>2. ExecutingInv(request[r], r)
  BY <1>1 DEF IInv, RequestInv
<1>3. \A x \in Request : request'[x].pc = "prepared" => request'[x] = request[x]
  BY <1>1 DEF Idle
<1>4. CASE p # r
  BY <1>1, <1>2, <1>3, <1>4, HeadReplaced DEF ExecutingInv
<1>5. CASE p = r
  BY <1>1, <1>5, IdleInv
<1> QED BY <1>4, <1>5

(* A read view holds what is stored when it opens. *)
LEMMA ReadRequests ==
  ASSUME IInv, TablesInv', NEW r \in Request, OpenReadView(r), NEW p \in Request
  PROVE  RequestInv(p)'
<1> DEFINE q == [pc |-> "reading", seen |-> request[r], head |-> head, latest |-> latest,
                 version |-> version, epoch |-> epoch, inputs |-> Inputs]
<1>1. /\ request[r].pc = "prepared" /\ request'[r] = q
      /\ \A x \in Request : x # r => request'[x] = request[x]
      /\ UNCHANGED <<now, implemented, tables, rights, head, latest>>
  BY DEF IInv, OpenReadView
<1>2. now \in Nat /\ now <= now'
  BY <1>1, SnapshotAssumption DEF IInv, TablesInv
<1>3. \A x \in Request : request'[x].pc = "prepared" => request'[x] = request[x]
  BY <1>1
<1>4. CASE p # r
  BY <1>1, <1>2, <1>3, <1>4, RequestStays
<1>5. CASE p = r
  <2>1. /\ PreparedInv(request[r]) /\ IsPair(head, latest, now, version, epoch)
        /\ Stamped(head, version, epoch) => head.inputs = Inputs
    BY <1>1 DEF IInv, RequestInv
  <2>2. Inputs' = Inputs /\ version' = version /\ epoch' = epoch /\ now' = now /\ head' = head
    BY <1>1 DEF Inputs, Projected, tables, rights
  <2>3. /\ request'[r].pc = "reading" /\ request'[r].seen = request[r]
        /\ request'[r].head = head /\ request'[r].latest = latest
        /\ request'[r].version = version /\ request'[r].epoch = epoch
        /\ request'[r].inputs = Inputs
    BY <1>1
  <2>4. ReadingInv(request[r])'
    BY <2>1, <2>2, <2>3, ZenonT(10) DEF ReadingInv, PreparedInv
  <2> QED BY <1>5, <2>1, <2>2, <2>3, <2>4 DEF RequestInv
<1> QED BY <1>4, <1>5

(* Every step keeps what the requests hold. *)
LEMMA RequestsStep ==
  ASSUME IInv, [Next]_vars, TablesInv'
  PROVE  DOMAIN request' = Request /\ \A p \in Request : RequestInv(p)'
<1>1. now \in Nat /\ version \in Nat /\ epoch \in Nat
  BY SnapshotAssumption DEF IInv, TablesInv
<1>2. DOMAIN request' = Request
  BY DEF IInv, Next, vars, Prepare, RequireExecuted, Commit, Abort, OpenReadView, ReadEnds, readOnly,
         ReadEntitlementCatalog, CreateEntitlementOverride, EndDraft, RevokeEntitlementOverride,
         CreateModule, SetTechnicalStatus, DeleteModule, Deploy, Tick
<1> SUFFICES ASSUME NEW p \in Request PROVE RequestInv(p)'
  BY <1>2
<1>3. CASE \E r \in Request : Prepare(r)
  BY <1>3, PrepareRequests
<1>4. CASE \E r \in Request : RequireExecuted(r)
  BY <1>4, ExecuteRequests
<1>5. CASE \E r \in Request : Commit(r)
  BY <1>5, CommitRequests
<1>6. CASE \E r \in Request : OpenReadView(r)
  BY <1>6, ReadRequests
<1>7. ASSUME NEW r \in Request, Abort(r) \/ ReadEnds(r)
      PROVE  RequestInv(p)'
  <2>1. /\ request'[r] = Idle /\ \A x \in Request : x # r => request'[x] = request[x]
        /\ UNCHANGED <<now, implemented, tables, rights, head, latest>>
    BY <1>7 DEF IInv, Abort, ReadEnds, readOnly
  <2>2. \A x \in Request : request'[x].pc = "prepared" => request'[x] = request[x]
    BY <2>1 DEF Idle
  <2> QED BY <1>1, <2>1, <2>2, RequestStays, IdleInv
<1>8. ASSUME request' = request, now <= now', UNCHANGED <<implemented, tables, rights, head, latest>>
      PROVE  RequestInv(p)'
  BY <1>8, RequestStays
<1>9. CASE EndDraft \/ Tick \/ (\E o \in Offer : ReadEntitlementCatalog(o)) \/ UNCHANGED vars
  BY <1>1, <1>8, <1>9 DEF EndDraft, Tick, ReadEntitlementCatalog, vars
<1>10. CASE \E modules \in Registry : Deploy(modules)
  BY <1>10, IdleInv DEF Deploy
<1>11. ASSUME LocksFree, Advance, UNCHANGED <<now, request, epoch>>
       PROVE  RequestInv(p)'
  <2>1. ~Stamped(head', version', epoch')
    BY <1>11, Invalidated DEF Advance, Stamped, IInv
  <2> QED BY <1>1, <1>11, <2>1, RequestOvertaken DEF Advance
<1>12. CASE \E at \in AppTime : CreateEntitlementOverride(at)
  BY <1>11, <1>12 DEF CreateEntitlementOverride, tables
<1>13. CASE \E s \in sources, at \in AppTime : RevokeEntitlementOverride(s, at)
  BY <1>11, <1>13 DEF RevokeEntitlementOverride, tables
<1>14. ASSUME NEW m \in Module,
              \/ CreateModule(m) \/ DeleteModule(m)
              \/ \E status \in {"ready", "not_ready", "disabled"} : SetTechnicalStatus(m, status)
       PROVE  RequestInv(p)'
  <2>1. LocksFree /\ epoch' = epoch + 1 /\ UNCHANGED <<now, version, request, head>>
    BY <1>14 DEF CreateModule, DeleteModule, SetTechnicalStatus, transact, rights
  <2>2. ~Stamped(head', version', epoch')
    BY <1>1, <2>1 DEF Stamped, IInv, IsPair
  <2> QED BY <1>1, <2>1, <2>2, RequestOvertaken
<1> QED BY <1>3, <1>4, <1>5, <1>6, <1>7, <1>9, <1>10, <1>12, <1>13, <1>14, ZenonT(10) DEF Next

-----------------------------------------------------------------------------
(* The tables, the head with its row and every request in flight keep the  *)
(* relations IInv states, whatever the interleaving (locked, readOnly,     *)
(* Guard, the overrides and the catalogue commands).                       *)
THEOREM SnapshotInvariance == Spec => []IInv
<1>1. IInv /\ [Next]_vars => IInv'
  BY TablesStep, SourcesStep, PairStep, RequestsStep DEF IInv
<1> QED BY <1>1, InitInv, PTL DEF Spec

(* No reachable state is one that locked() or Resolve refuses, no two      *)
(* override replacements meet, and Resolve allows exactly the entitled     *)
(* capabilities, for any catalogue, sources and dependencies.              *)
THEOREM SnapshotSafe == Spec => []SInv
<1>1. ASSUME IInv PROVE SInv
  <2> USE <1>1
  <2>1. \A s \in sources : Validate(s, Projected)
    BY DEF IInv, SourcesInv, Validate, Projected
  <2>2. ~LockedFails
    <3>1. version \in Nat /\ epoch \in Nat /\ IsPair(head, latest, now, version, epoch)
      BY DEF IInv, TablesInv
    <3>2. CASE head = NoRow /\ latest = NoRow
      BY <2>1, <3>2 DEF LockedFails, StateLost
    <3>3. CASE ~(head = NoRow /\ latest = NoRow)
      <4>1. /\ head.version > 0 /\ head.version \in Nat /\ latest.version = head.version
            /\ head.sourceVersion \in Nat /\ head.sourceVersion <= version
            /\ head.epoch \in Nat /\ head.epoch <= epoch
        BY <3>1, <3>3, ZenonT(10) DEF IsPair
      <4>2. head # NoRow /\ latest # NoRow
        BY <4>1 DEF NoRow
      <4> QED BY <2>1, <3>1, <4>1, <4>2 DEF LockedFails, StateLost
    <3> QED BY <3>2, <3>3
  <2>3. DOMAIN Projected = DOMAIN catalog /\ DOMAIN catalog \subseteq Module
    BY DEF Projected, IInv, TablesInv
  <2>4. ResolvedAsPromised
    <3> SUFFICES ASSUME NEW c \in DOMAIN Resolve(now, Projected, sources).capability
                 PROVE  /\ Resolve(now, Projected, sources).capability[c] = "ALLOWED"
                             <=> Entitled(now, Projected, sources, c)
                        /\ \A s \in sources :
                             /\ Active(s, now) /\ s.effect = "safety_deny"
                             /\ \/ s.kind = "capability" /\ s.key = c
                                \/ s.kind = "module" /\ s.module = Owner[c]
                             => Resolve(now, Projected, sources).capability[c] = "SECURITY_DISABLED"
      BY DEF ResolvedAsPromised
    <3>1. c \in Code /\ Owner[c] \in DOMAIN Projected
      BY DEF Resolve, Decisions
    <3> QED BY <2>1, <2>3, <3>1, CapabilityAllowed, SafetyReported
  <2> QED BY <2>2, <2>4, SnapshotAssumption DEF IInv, TablesInv, SourcesInv, RequestInv, SInv
<1> QED BY <1>1, SnapshotInvariance, PTL

(* A head that locked() would reuse answers what Resolve would compute now.*)
THEOREM HeadIsExact == Spec => []HeadExact
<1>1. ASSUME IInv PROVE HeadExact
  <2>1. now \in Nat /\ IsPair(head, latest, now, version, epoch)
    BY <1>1, SnapshotAssumption DEF IInv, TablesInv
  <2>2. Inputs[1] = Projected /\ Inputs[2] = sources
    BY DEF Inputs
  <2>3. HeadUsable(now) => latest.result = Resolve(now, Inputs[1], Inputs[2])
    BY <2>1, ValidRowExact DEF HeadUsable
  <2> QED BY <2>2, <2>3 DEF HeadExact
<1> QED BY <1>1, SnapshotInvariance, PTL

(* A writing operation runs on rights nothing has touched since its check  *)
(* (RequireExecuted holds its locks to the commit).                        *)
THEOREM ExecutionUnderRights == Spec => []ExecutesUnderRights
<1>1. ASSUME IInv PROVE ExecutesUnderRights
  <2> SUFFICES ASSUME NEW r \in Request, request[r].pc = "executing"
               PROVE  /\ request[r].rows.head.inputs = Inputs
                      /\ \A c \in Required[r] : Entitled(request[r].at, Projected, sources, c)
    BY DEF ExecutesUnderRights
  <2> DEFINE q == request[r]
  <2>1. ExecutingInv(q, r)
    BY <1>1 DEF IInv, RequestInv
  <2>2. /\ IsPair(q.rows.head, q.rows.latest, now, version, epoch) /\ q.rows.head # NoRow
        /\ q.rows.head.inputs = Inputs /\ q.at \in Nat /\ ValidAt(q.rows.latest, q.at)
        /\ Allows(q.rows.latest.result, r) /\ now \in Nat
    BY <1>1, <2>1, SnapshotAssumption DEF ExecutingInv, Stamped, IInv, TablesInv
  <2> HIDE DEF q
  <2>3. q.rows.latest.result = Resolve(q.at, Inputs[1], Inputs[2])
    <3> DEFINE h == q.rows.head  l == q.rows.latest  u == q.at
    <3>1. /\ now \in Nat /\ u \in Nat /\ h # NoRow
          /\ IsPair(h, l, now, version, epoch) /\ ValidAt(l, u)
      BY <2>2
    <3> HIDE DEF h, l, u
    <3>2. l.result = Resolve(u, h.inputs[1], h.inputs[2])
      BY <3>1, ValidRowExact
    <3> QED BY <2>2, <3>2 DEF h, l, u
  <2>4. Inputs[1] = Projected /\ Inputs[2] = sources
    BY DEF Inputs
  <2> QED BY <2>2, <2>3, <2>4, AllowedEntitled DEF q
<1> QED BY <1>1, SnapshotInvariance, PTL

(* A read is allowed on rights of its view only, and retried only when     *)
(* something changed (readOnly): the end of a row's validity is a change   *)
(* of state of some source.                                                *)
THEOREM ReadsUnderRights == Spec => ReadUnderRights
<1>1. ASSUME IInv, NEW r \in Request PROVE ReadsRightly(r)
  <2> DEFINE q == request[r]
  <2>1. now \in Nat /\ now < Never
    BY <1>1, SnapshotAssumption DEF IInv, TablesInv
  <2>2. ASSUME q.pc = "reading"
        PROVE  /\ IsPair(q.head, q.latest, now, version, epoch)
               /\ Stamped(q.head, q.version, q.epoch) => q.head.inputs = q.inputs
               /\ q.seen.at \in Nat
               /\ q.seen.version = q.version /\ q.seen.epoch = q.epoch =>
                    Stamped(q.head, q.version, q.epoch) /\ q.seen.at < q.latest.validUntil
    BY <1>1, <2>2 DEF IInv, RequestInv, ReadingInv
  <2>3. ASSUME readOnly(r, "allowed"), NEW c \in Required[r]
        PROVE  Entitled(now, q.inputs[1], q.inputs[2], c)
    <3>1. q.pc = "reading" /\ viewUsable(q, now) /\ Allows(q.latest.result, r)
      BY <2>3 DEF readOnly, ReadAllowed
    <3>2. q.head # NoRow /\ Stamped(q.head, q.version, q.epoch) /\ ValidAt(q.latest, now)
      BY <3>1 DEF viewUsable, Stamped
    <3> HIDE DEF q
    <3>3. q.latest.result = Resolve(now, q.inputs[1], q.inputs[2])
      <4> DEFINE h == q.head  l == q.latest
      <4>1. h # NoRow /\ IsPair(h, l, now, version, epoch) /\ ValidAt(l, now) /\ h.inputs = q.inputs
        BY <2>2, <3>1, <3>2
      <4> HIDE DEF h, l
      <4>2. l.result = Resolve(now, h.inputs[1], h.inputs[2])
        BY <2>1, <4>1, ValidRowExact
      <4> QED BY <4>1, <4>2 DEF l
    <3> QED BY <3>1, <3>3, AllowedEntitled
  <2>4. ASSUME readOnly(r, "stale"), q.version = q.seen.version, q.epoch = q.seen.epoch
        PROVE  \E s \in q.inputs[2] : State(s, now) # State(s, q.seen.at)
    <3>1. q.pc = "reading" /\ ~viewUsable(q, now)
      BY <2>4 DEF readOnly
    <3>2. /\ Stamped(q.head, q.version, q.epoch) /\ q.head.inputs = q.inputs
          /\ q.seen.at \in Nat /\ q.seen.at < q.latest.validUntil
      BY <2>2, <2>4, <3>1
    <3>3. ~ValidAt(q.latest, now)
      BY <3>1, <3>2 DEF viewUsable, Stamped
    <3>4. /\ q.inputs[2] \subseteq Source /\ \A s \in q.inputs[2] : s.from < s.until
          /\ q.latest.evaluatedAt \in Nat /\ q.latest.evaluatedAt <= now
          /\ q.latest.validUntil = NextTransition(q.latest.evaluatedAt, q.inputs[2])
      BY <2>2, <3>1, <3>2 DEF IsPair, Stamped
    <3>5. q.latest.validUntil <= now
      BY <2>1, <3>3, <3>4, NextTransitionIs DEF ValidAt
    <3> HIDE DEF q
    <3> QED BY <2>1, <3>2, <3>4, <3>5, TransitionSeen
  <2> QED BY <2>3, <2>4 DEF ReadsRightly
<1>2. IInv => \A r \in Request : ReadsRightly(r)
  BY <1>1
<1> QED BY <1>2, SnapshotInvariance, PTL DEF ReadUnderRights

=============================================================================
