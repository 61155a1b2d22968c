------------------------- MODULE EntitlementResolve -------------------------
(***************************************************************************)
(* What a tenant may use: the entitlement sources of the tenant (plan      *)
(* grants, add-ons and overrides) resolved against the module catalogue at *)
(* one instant.  Resolve is pure; it is the only place where the precedence *)
(* of refusals and the arithmetic of quotas are decided.                   *)
(*                                                                         *)
(* A module has its capabilities, one quota key and one (field, action)    *)
(* pair: the code treats every further key of a kind in the same way.      *)
(* Explanations, actors and reasons given by people are left out.          *)
(***************************************************************************)
EXTENDS Integers, FiniteSets, FiniteSetsExt

CONSTANTS
  Module,        \* module codes of the registry
  Capabilities,  \* [Module -> set of capability codes], owned by one module each
  Dependencies,  \* [Module -> set of modules]
  MaxLimit,      \* math.MaxInt64
  Never          \* an instant after every other: no end, no revocation

(* Registry.Validate refuses a dependency that is missing or goes round.   *)
Acyclic(needs) ==
  \A S \in SUBSET Module : S # {} => \E m \in S : needs[m] \cap S = {}

ASSUME RegistryAssumption ==
  /\ Capabilities \in [Module -> SUBSET UNION {Capabilities[m] : m \in Module}]
  /\ \A m, n \in Module : m # n => Capabilities[m] \cap Capabilities[n] = {}
  /\ Dependencies \in [Module -> SUBSET Module] /\ Acyclic(Dependencies)

Unlimited == -1

Code == UNION {Capabilities[m] : m \in Module}

Owner == [c \in Code |-> CHOOSE m \in Module : c \in Capabilities[m]]

-----------------------------------------------------------------------------
(* Source.State *)
State(s, at) ==
  IF at >= s.revoked THEN "revoked"
  ELSE IF at < s.from THEN "scheduled"
  ELSE IF at >= s.until THEN "expired"
  ELSE "active"

Active(s, at) == State(s, at) = "active"

(* Source.Validate: the source is well-formed, the catalogue has the module *)
(* and the module the key.                                                 *)
Validate(s, catalog) ==
  /\ s.kind = "module" => s.key = s.module
  /\ s.module \in DOMAIN catalog
  /\ s.kind = "capability" => s.key \in Capabilities[s.module]

(* The faulty variant keeps only ends, as if a source could not start.     *)
EndsOnly(at, sources) ==
  LET instants == UNION {{s.until, s.revoked} : s \in {x \in sources : State(x, at) # "revoked"}}
  IN  Min({t \in instants : t > at} \cup {Never})

(* The next instant at which a source that is not revoked starts, ends or  *)
(* is revoked: the result is valid until then.                             *)
NextTransition(at, sources) ==
  LET instants == UNION {{s.from, s.until, s.revoked} : s \in {x \in sources : State(x, at) # "revoked"}}
  IN  Min({t \in instants : t > at} \cup {Never})

(* The sources that count; what follows takes them as live. *)
Live(at, sources) == {s \in sources : Active(s, at)}

(* active() of Resolve *)
On(live, m, kind, key, effect) ==
  \E s \in live : s.module = m /\ s.kind = kind /\ s.key = key /\ s.effect = effect

ModuleOn(live, m, effect) == On(live, m, "module", m, effect)

capDenial(live, m, c) ==
  IF On(live, m, "capability", c, "safety_deny") THEN "SECURITY_DISABLED"
  ELSE IF On(live, m, "capability", c, "deny") THEN "CAPABILITY_DISABLED"
  ELSE ""

Granted(live, m, c) ==
  ModuleOn(live, m, "grant") \/ On(live, m, "capability", c, "grant")

(* A module counts as granted when one of its capabilities is granted and  *)
(* not denied; a module without capabilities, when it is itself granted.   *)
moduleGranted(live, m) ==
  IF Capabilities[m] = {} THEN ModuleOn(live, m, "grant")
  ELSE \E c \in Capabilities[m] :
          capDenial(live, m, c) = "" /\ Granted(live, m, c)

(* The faulty variant does not look at the modules a module depends on.    *)
reasonAlone(catalog, live) ==
  [m \in Module |->
    IF m \notin DOMAIN catalog THEN "DEPENDENCY_UNAVAILABLE"
    ELSE IF ModuleOn(live, m, "safety_deny") THEN "SECURITY_DISABLED"
    ELSE IF catalog[m] # "ready" THEN "TECHNICAL_UNAVAILABLE"
    ELSE IF ModuleOn(live, m, "deny") THEN "CAPABILITY_DISABLED"
    ELSE IF ~moduleGranted(live, m) THEN "MODULE_NOT_ENTITLED"
    ELSE "ALLOWED"]

moduleReason(catalog, live) ==
  LET reason[m \in Module] ==
        IF m \notin DOMAIN catalog THEN "DEPENDENCY_UNAVAILABLE"
        ELSE IF ModuleOn(live, m, "safety_deny") THEN "SECURITY_DISABLED"
        ELSE IF catalog[m] # "ready" THEN "TECHNICAL_UNAVAILABLE"
        ELSE IF ModuleOn(live, m, "deny") THEN "CAPABILITY_DISABLED"
        ELSE IF ~moduleGranted(live, m) THEN "MODULE_NOT_ENTITLED"
        ELSE IF \E d \in Dependencies[m] : reason[d] # "ALLOWED" THEN "DEPENDENCY_UNAVAILABLE"
        ELSE "ALLOWED"
  IN  reason

capabilityReason(live, r, m, c) ==
  LET denied == capDenial(live, m, c)
  IN  IF "SECURITY_DISABLED" \in {r, denied} THEN "SECURITY_DISABLED"
      ELSE IF r = "TECHNICAL_UNAVAILABLE" THEN r
      ELSE IF denied # "" THEN denied
      ELSE IF r = "ALLOWED" /\ ~Granted(live, m, c) THEN "MODULE_NOT_ENTITLED"
      ELSE r

fieldDecision(live, r, m) ==
  LET on(effect) == On(live, m, "field", m, effect)
  IN  [masked |-> on("safety_mask"),
       reason |-> IF r = "SECURITY_DISABLED" \/ on("safety_deny") THEN "SECURITY_DISABLED"
                  ELSE IF r = "TECHNICAL_UNAVAILABLE" THEN r
                  ELSE IF on("deny") THEN "FIELD_DISABLED"
                  ELSE IF r = "ALLOWED" /\ ~on("grant") THEN "FIELD_NOT_ENTITLED"
                  ELSE r]

(* One override replacement sets the total; otherwise the base of the plan *)
(* plus every addition.  A sum past MaxLimit is refused, never wrapped.    *)
quotaDecision(live, r, m) ==
  LET here == {s \in live : s.kind = "quota" /\ s.module = m}
      additions == {s \in here : s.effect = "quota_add"}
      replacements == {s \in here \ additions : s.source = "override"}
      base == here \ (additions \cup replacements)
      start == IF base = {} THEN 0 ELSE (CHOOSE s \in base : TRUE).limit
      total == start + MapThenSumSet(LAMBDA s : s.limit, additions)
      refuse(reason) == [allowed |-> FALSE, reason |-> reason, limit |-> 0]
      answer(limit) == [allowed |-> r = "ALLOWED", limit |-> limit,
                        reason |-> IF r = "ALLOWED" /\ limit = 0 THEN "ZERO_QUOTA" ELSE r]
  IN  IF Cardinality(replacements) > 1 \/ (replacements = {} /\ Cardinality(base) > 1)
      THEN refuse("QUOTA_CONFIGURATION_CONFLICT")
      ELSE IF replacements # {} THEN answer((CHOOSE s \in replacements : TRUE).limit)
      ELSE IF start = Unlimited THEN answer(Unlimited)
      ELSE IF total > MaxLimit THEN refuse("QUOTA_OVERFLOW")
      ELSE answer(total)

(* Resolve answers for every module of the catalogue; the instant counts   *)
(* only for which sources are live.                                        *)
Decisions(live, catalog) ==
  LET reason == moduleReason(catalog, live)
  IN  [capability |-> [c \in {x \in Code : Owner[x] \in DOMAIN catalog} |->
                         capabilityReason(live, reason[Owner[c]], Owner[c], c)],
       quota |-> [m \in DOMAIN catalog |-> quotaDecision(live, reason[m], m)],
       field |-> [m \in DOMAIN catalog |-> fieldDecision(live, reason[m], m)]]

Resolve(at, catalog, sources) == Decisions(Live(at, sources), catalog)

-----------------------------------------------------------------------------
(* ValidateAppend *)

(* Whether the periods of two replacements of one quota meet; a revocation *)
(* cuts the period of the older one, and may leave it empty.               *)
Overlap(s, incoming) ==
  LET end == Min({s.until, s.revoked})
  IN  /\ end > s.from
      /\ incoming.from < end
      /\ s.from < incoming.until

Replaces(s) == s.kind = "quota" /\ s.effect = "quota_replace" /\ s.source = "override"

ValidateAppend(sources, incoming, catalog) ==
  /\ Validate(incoming, catalog)
  /\ \A s \in sources :
       ~ (Replaces(s) /\ Replaces(incoming) /\ s.module = incoming.module /\ Overlap(s, incoming))

-----------------------------------------------------------------------------
(* Reference: what the documents promise, without the code's recursion and *)
(* without its order of tests.                                             *)

(* Nothing in S needs a module outside of S. *)
Closed(S) == \A n \in S : Dependencies[n] \subseteq S

(* The modules m needs, itself included: the least closed set it is in.    *)
Needs ==
  [m \in Module |->
    {n \in Module : \A S \in SUBSET Module : m \in S /\ Closed(S) => n \in S}]

(* A tenant may use a capability iff it is granted and not denied, and its *)
(* module and every module that one needs, however indirectly, is in the   *)
(* catalogue, ready, not denied and granted in some part.                  *)
Entitled(at, catalog, sources, c) ==
  LET live == Live(at, sources)
  IN  /\ Granted(live, Owner[c], c)
      /\ capDenial(live, Owner[c], c) = ""
      /\ \A m \in Needs[Owner[c]] :
           /\ m \in DOMAIN catalog
           /\ catalog[m] = "ready"
           /\ \A effect \in {"deny", "safety_deny"} : ~ModuleOn(live, m, effect)
           /\ moduleGranted(live, m)
=============================================================================
