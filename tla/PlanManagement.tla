--------------------------- MODULE PlanManagement ---------------------------
(***************************************************************************)
(* What may be sold: the module catalogue with its sales status and        *)
(* runtime verifications, the commercial features, and the versions of one *)
(* plan, from which tenants subscribe.                                     *)
(*                                                                         *)
(* A command on modules holds the catalogue row exclusively, a command on  *)
(* the plan holds it shared and the plan's head exclusively, both to the   *)
(* commit.  Features are read and written outside both locks, on           *)
(* connections of their own.  A plan command is two steps: what it reads   *)
(* and decides, and its commit; a repeated request is answered from its    *)
(* receipt under the head's lock and changes nothing, and so does one that *)
(* names an old version.                                                   *)
(*                                                                         *)
(* Capabilities, quotas and fields of the terms are checked against        *)
(* definitions that do not change; they are left out, like names, prices   *)
(* and validity.                                                           *)
(***************************************************************************)
EXTENDS Naturals, Sequences, FiniteSetsExt

CONSTANTS
  Module,      \* codes of modules
  Dependencies,\* [Module -> modules it needs]
  Feature,     \* codes of commercial features
  Uses,        \* [Feature -> modules it refers to]
  Terms,       \* what a draft may say: [modules, features, scope]
  SalesScope,  \* what a module's sales scope may be; the empty one is any
  Listed,      \* modules in the catalogue, verified and on sale, at first
  MaxCommands  \* bound on the platform's commands

ASSUME OfferAssumption ==
  /\ Dependencies \in [Module -> SUBSET Module]
  /\ Uses \in [Feature -> SUBSET Module]
  /\ \A t \in Terms : t.modules \subseteq Module /\ t.features \subseteq Feature /\ t.scope # {}
  /\ \A m \in Listed : Dependencies[m] \subseteq Listed

VARIABLES
  module,      \* biz_commercial_modules and the retired codes
  verified,    \* biz_commercial_module_runtime_verifications
  feature,     \* biz_commercial_features
  call,        \* what the feature command in flight has found out
  plan,        \* biz_commercial_plans
  offer,       \* biz_commercial_plan_versions
  tx,          \* the plan command in flight
  subscribed,  \* plan version of the tenant's subscription, 0 before it
  commands

featureVars == <<feature, call>>
moduleVars == <<module, verified>>
planVars == <<plan, offer, tx>>
offerVars == <<moduleVars, featureVars, planVars, subscribed, commands>>

NoModule == [row |-> "none", tech |-> "ready", sales |-> "retired", version |-> 0, scope |-> {}]
NewModule(scope) == [row |-> "live", tech |-> "ready", sales |-> "retired", version |-> 1, scope |-> scope]
NoFeature == [product |-> "none", sales |-> "STOP_SELL", runtime |-> "CONTINUING", migration |-> "NONE"]
NoTx == [number |-> 0]

OfferInit ==
  /\ module = [m \in Module |->
       IF m \in Listed THEN [NewModule({}) EXCEPT !.sales = "sellable"] ELSE NoModule]
  /\ verified = {<<m, 1>> : m \in Listed}
  /\ feature = [f \in Feature |-> NoFeature]
  /\ call = [f \in Feature |-> "none"]
  /\ plan = [revision |-> 0, latest |-> 0]
  /\ offer = <<>>
  /\ tx = NoTx
  /\ subscribed = 0
  /\ commands = 0

Command == commands < MaxCommands /\ commands' = commands + 1

-----------------------------------------------------------------------------
(* Modules *)

(* The faulty variant does not wait for a plan command that has read the   *)
(* catalogue.                                                              *)
CatalogUnlocked == TRUE

(* LockCatalog, exclusively *)
CatalogLocked == tx = NoTx

Changes(m, row) ==
  /\ CatalogLocked /\ Command
  /\ module' = [module EXCEPT ![m] = row]
  /\ UNCHANGED <<featureVars, planVars, subscribed>>

Create(m) ==
  /\ module[m].row = "none"
  /\ \A d \in Dependencies[m] : module[d].row = "live"
  /\ \E scope \in SalesScope : Changes(m, NewModule(scope))
  /\ UNCHANGED verified

(* Update and SetTechnicalStatus: a new version, which is not on sale. *)
Revised(m, row) ==
  /\ module[m].row = "live"
  /\ Changes(m, [[row EXCEPT !.version = @ + 1] EXCEPT !.sales = "retired"])
  /\ UNCHANGED verified

Update(m) == \E scope \in SalesScope : Revised(m, [module[m] EXCEPT !.scope = scope])
SetTechnical(m) == \E tech \in {"ready", "disabled"} : Revised(m, [module[m] EXCEPT !.tech = tech])

SetSalesStatus(m) ==
  /\ module[m].row = "live"
  /\ \E sales \in {"sellable", "retired"} :
       /\ sales = "sellable" => <<m, module[m].version>> \in verified
       /\ Changes(m, [module[m] EXCEPT !.sales = sales])
  /\ UNCHANGED verified

RecordRuntimeVerification(m) ==
  /\ module[m].row = "live"
  /\ verified' = verified \cup {<<m, module[m].version>>}
  /\ Changes(m, module[m])

(* The faulty variant looks at dependent modules and features only. *)
UsedByCatalog(m) ==
  \/ \E n \in Module : module[n].row = "live" /\ m \in Dependencies[n]
  \/ \E f \in Feature : feature[f].product # "none" /\ m \in Uses[f]

(* Dependent modules, features and plan versions, for which there is also  *)
(* a foreign key, and runtime verifications, for which there is only one.  *)
(* The sources of entitlements count too: the plan's are of modules of its *)
(* versions, and without the others more is deleted here than there.       *)
Referenced(m) ==
  \/ \E n \in Module : module[n].row = "live" /\ m \in Dependencies[n]
  \/ \E f \in Feature : feature[f].product # "none" /\ m \in Uses[f]
  \/ \E n \in DOMAIN offer : m \in offer[n].terms.modules
  \/ \E v \in verified : v[1] = m

Delete(m) ==
  /\ module[m].row = "live"
  /\ ~Referenced(m)
  /\ Changes(m, [module[m] EXCEPT !.row = "deleted"])
  /\ UNCHANGED verified

-----------------------------------------------------------------------------
(* Features *)

FeatureMoves(f, row) ==
  /\ Command
  /\ feature' = [feature EXCEPT ![f] = row]
  /\ call' = [call EXCEPT ![f] = "none"]
  /\ UNCHANGED <<moduleVars, planVars, subscribed>>

Finds(f, found) ==
  /\ call' = [call EXCEPT ![f] = found]
  /\ UNCHANGED <<moduleVars, feature, planVars, subscribed, commands>>

(* validateFeatureReferences, before the transaction of Create or Publish *)
validateFeatureReferences(f) ==
  /\ call[f] = "none" /\ feature[f].product \in {"none", "DRAFT"}
  /\ \A m \in Uses[f] : module[m].row = "live" /\ module[m].tech = "ready" /\ module[m].sales = "sellable"
  /\ Finds(f, "validated")

CreateCommercialFeature(f) ==
  /\ call[f] = "validated" /\ feature[f].product = "none"
  /\ FeatureMoves(f, [feature[f] EXCEPT !.product = "DRAFT"])

PublishCommercialFeature(f) ==
  /\ call[f] = "validated" /\ feature[f].product = "DRAFT"
  /\ FeatureMoves(f, [feature[f] EXCEPT !.product = "PUBLISHED", !.sales = "SELLABLE"])

StopSell(f) ==
  /\ call[f] = "none" /\ feature[f].product \in {"PUBLISHED", "DEPRECATED"}
  /\ FeatureMoves(f, [feature[f] EXCEPT !.sales = "STOP_SELL"])

(* The replacement is another feature that exists. *)
PlanSunset(f) ==
  /\ call[f] = "none" /\ feature[f].product \in {"PUBLISHED", "DEPRECATED"}
  /\ feature[f].sales = "STOP_SELL"
  /\ \E g \in Feature \ {f} : feature[g].product # "none"
  /\ FeatureMoves(f, [feature[f] EXCEPT !.product = "DEPRECATED", !.migration = "REQUIRED"])

CompleteMigration(f) ==
  /\ call[f] = "none" /\ feature[f].product = "DEPRECATED" /\ feature[f].migration = "REQUIRED"
  /\ FeatureMoves(f, [feature[f] EXCEPT !.migration = "COMPLETE"])

Takes(n, f) == f \in offer[n].terms.features

(* Retire locks the feature and counts the references on another           *)
(* connection, before it writes.                                           *)
ReferenceImpact(f) ==
  /\ call[f] = "none"
  /\ feature[f].product = "DEPRECATED" /\ feature[f].migration = "COMPLETE"
  /\ \A n \in DOMAIN offer : Takes(n, f) => offer[n].state # "PUBLISHED" /\ n # subscribed
  /\ Finds(f, "unreferenced")

Retire(f) ==
  /\ call[f] = "unreferenced"
  /\ FeatureMoves(f, [feature[f] EXCEPT !.product = "EOL", !.sales = "STOP_SELL", !.runtime = "STOPPED"])

(* The caller goes away, or the transaction fails. *)
GivesUp(f) == call[f] # "none" /\ Finds(f, "none")

-----------------------------------------------------------------------------
(* Plan versions *)

allowedScope(scopes, target) == scopes = {} \/ "*" \in scopes \/ target \in scopes

(* A module as ListPlanCatalogInScope shows it. *)
Sellable(m) ==
  /\ module[m].row = "live" /\ module[m].tech = "ready" /\ module[m].sales = "sellable"
  /\ <<m, module[m].version>> \in verified

(* Terms.Validate *)
ValidTerms(t) ==
  \A m \in t.modules :
    /\ Sellable(m)
    /\ \A s \in t.scope : allowedScope(module[m].scope, s)
    /\ Dependencies[m] \subseteq t.modules

(* validatePlanFeatures *)
FeaturesOffered(t) ==
  \A f \in t.features : feature[f].product = "PUBLISHED" /\ feature[f].sales = "SELLABLE"

(* mutate, up to Save *)
mutate(operation, n, v) ==
  /\ tx = NoTx /\ Command
  /\ operation # "retire" => ValidTerms(v.terms)
  /\ FeaturesOffered(v.terms)
  /\ tx' = [number |-> n, version |-> [v EXCEPT !.planRevision = plan.revision + 1]]
  /\ UNCHANGED <<moduleVars, featureVars, plan, offer, subscribed>>

Draft(t) == [state |-> "DRAFT", revision |-> 1, planRevision |-> 0, terms |-> t]
Edited(n) == [offer[n] EXCEPT !.revision = @ + 1]

CreatePlanDraft(t) ==
  /\ plan.latest = 0
  /\ mutate("create", 1, Draft(t))

CreatePlanVersion(n) ==
  /\ offer[n].state # "DRAFT"
  /\ mutate("clone", plan.latest + 1, Draft(offer[n].terms))

UpdatePlanDraft(n, t) ==
  /\ offer[n].state = "DRAFT"
  /\ mutate("update", n, [Edited(n) EXCEPT !.terms = t])

PublishPlanVersion(n) ==
  /\ offer[n].state = "DRAFT"
  /\ mutate("publish", n, [Edited(n) EXCEPT !.state = "PUBLISHED"])

RetirePlanVersion(n) ==
  /\ offer[n].state = "PUBLISHED"
  /\ mutate("retire", n, [Edited(n) EXCEPT !.state = "RETIRED"])

Save ==
  /\ tx # NoTx
  /\ LET n == tx.number IN
     /\ offer' = IF n > Len(offer) THEN Append(offer, tx.version) ELSE [offer EXCEPT ![n] = tx.version]
     /\ plan' = [revision |-> plan.revision + 1, latest |-> Max({plan.latest, n})]
  /\ tx' = NoTx
  /\ UNCHANGED <<moduleVars, featureVars, subscribed, commands>>

Rollback ==
  /\ tx # NoTx
  /\ tx' = NoTx
  /\ UNCHANGED <<moduleVars, featureVars, plan, offer, subscribed, commands>>

(* Version.Eligibility *)
Eligible(n, scope) ==
  /\ offer[n].state = "PUBLISHED"
  /\ allowedScope(offer[n].terms.scope, scope)
  /\ ValidTerms(offer[n].terms)

(* A new or changed subscription: the check holds both locks, shared, to   *)
(* the commit of the root that asked.                                      *)
CheckPlanEligibility(n) ==
  /\ tx = NoTx
  /\ Eligible(n, "home") /\ n # subscribed
  /\ subscribed' = n
  /\ UNCHANGED <<moduleVars, featureVars, planVars, commands>>

OfferNext ==
  \/ \E m \in Module : \/ Create(m) \/ Update(m) \/ SetTechnical(m) \/ SetSalesStatus(m)
                       \/ RecordRuntimeVerification(m) \/ Delete(m)
  \/ \E f \in Feature : \/ validateFeatureReferences(f) \/ CreateCommercialFeature(f)
                        \/ PublishCommercialFeature(f) \/ StopSell(f) \/ PlanSunset(f)
                        \/ CompleteMigration(f) \/ ReferenceImpact(f) \/ Retire(f) \/ GivesUp(f)
  \/ \E t \in Terms : CreatePlanDraft(t)
  \/ \E n \in DOMAIN offer, t \in Terms : UpdatePlanDraft(n, t)
  \/ \E n \in DOMAIN offer : \/ CreatePlanVersion(n) \/ PublishPlanVersion(n) \/ RetirePlanVersion(n)
                             \/ CheckPlanEligibility(n)
  \/ Save \/ Rollback

OfferSpec == OfferInit /\ [][OfferNext]_offerVars

-----------------------------------------------------------------------------
(* Properties *)

(* Nothing is on sale that was not verified as it stands: a module that    *)
(* was verified and put on sale leaves it with its next version, until     *)
(* that one is verified too (mutate of the module catalogue).              *)
SellableVerified ==
  \A m \in Module :
    module[m].row = "live" /\ module[m].sales = "sellable" => <<m, module[m].version>> \in verified

(* A module that a plan version names stays in the catalogue, drafts and   *)
(* retired versions included, although the command that names it and the   *)
(* one that deletes it are decided before they are committed (Delete,      *)
(* LockCatalog).                                                           *)
OfferedModulesExist ==
  \A n \in DOMAIN offer : \A m \in offer[n].terms.modules : module[m].row = "live"

(* What Get relies on: the revisions of the plan that the versions carry   *)
(* are all different and none is ahead of the head (Get calls that         *)
(* corrupt).                                                               *)
RevisionsDiffer ==
  \A n \in DOMAIN offer :
    /\ offer[n].planRevision \in 1 .. plan.revision
    /\ \A k \in DOMAIN offer \ {n} : offer[n].planRevision # offer[k].planRevision

(* Types; the catalogue and the offers fit, as stated above.               *)
OfferRows ==
  /\ \A m \in Module : module[m].row \in {"none", "live", "deleted"}
  /\ \A f \in Feature : call[f] \in {"none", "validated", "unreferenced"}
  /\ plan.latest = Len(offer)
  /\ RevisionsDiffer /\ SellableVerified /\ OfferedModulesExist
  /\ subscribed \in DOMAIN offer \cup {0}

(* The rows fit and, as the clone's expected revision relies on, the head  *)
(* has counted every change of every version.                              *)
OfferInv ==
  /\ OfferRows
  /\ plan.revision = MapThenSumSet(LAMBDA n : offer[n].revision, DOMAIN offer)

(* No stale image publishes an offer: when a version becomes PUBLISHED its *)
(* modules are ready, verified, on sale in its scope and complete, at the  *)
(* commit and not only when they were read (ListPlanCatalogInScope).  What *)
(* was published stays as it was: terms never change again, and a version  *)
(* is retired once and for good (mutate of the plan, Save).                *)
OfferMoves ==
  [][\A n \in DOMAIN offer :
       /\ offer[n].state = "DRAFT" /\ offer'[n].state = "PUBLISHED" => ValidTerms(offer'[n].terms)
       /\ offer[n].state # "DRAFT" /\ offer'[n] # offer[n] =>
            /\ offer'[n].terms = offer[n].terms
            /\ offer[n].state = "PUBLISHED" /\ offer'[n].state = "RETIRED"]_offerVars
=============================================================================
