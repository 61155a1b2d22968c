------------------------- MODULE MCSubscriptionSales -------------------------
(***************************************************************************)
(* Instances of SubscriptionLifecycle and PlanManagement for TLC: a        *)
(* behaviour is one of the part that its initial state names, and the      *)
(* other part stays where it begins.  Module b needs module a; one plan    *)
(* may sell a with a feature, or both modules.                             *)
(***************************************************************************)
EXTENDS MCSubscriptionLifecycle, PlanManagement

CONSTANTS first, second

VARIABLE part

MCModule == {"a", "b"}
MCDependencies == [m \in MCModule |-> IF m = "a" THEN {} ELSE {"a"}]
MCFeature == {first, second}
MCUses == [f \in MCFeature |-> {"a"}]
MCTerms ==
  { [modules |-> {"a"}, features |-> {first}, scope |-> {"home"}],
    [modules |-> {"a", "b"}, features |-> {}, scope |-> {"*"}] }
MCSalesScope == {{}, {"home"}}
MCListed == {"a"}

SalesInit == part \in {"subscription", "offers"} /\ Init /\ OfferInit

SalesNext ==
  \/ part = "subscription" /\ Next /\ UNCHANGED <<part, offerVars>>
  \/ part = "offers" /\ OfferNext /\ UNCHANGED <<part, vars>>

SalesSpec == SalesInit /\ [][SalesNext]_<<part, vars, offerVars>>
=============================================================================
