---------------------------- MODULE MCEntitlement ----------------------------
(* An instance of EntitlementSnapshot for TLC: module b needs module a; a  *)
(* starts granted, b may be granted in parts.                              *)
EXTENDS EntitlementSnapshot

CONSTANTS write, read

MCRequest == {write, read}
MCReadRequest == {read}
MCModule == {"a", "b"}
MCCapabilities == [m \in MCModule |-> IF m = "a" THEN {"a.use"} ELSE {"b.use", "b.plan"}]
MCDependencies == [m \in MCModule |-> IF m = "a" THEN {} ELSE {"a"}]
MCRequired == [r \in MCRequest |-> {"b.use"}]
MCRegistry == {{"a", "b"}, {"b"}}
MCNever == 9
MCInitialCatalogs == {{"a"}, {"a", "b"}}
MCClockOffset == {0, 1}

Held(id, source, m, kind, key, effect, limit, from, until) ==
  [module |-> m, kind |-> kind, key |-> key, effect |-> effect, limit |-> limit,
   source |-> source, id |-> id, from |-> from, until |-> until, revoked |-> MCNever]

(* A plan that grants module a for two days with a quota of two, an add-on *)
(* to the quota and an override that will replace it.                      *)
MCInitialSources ==
  { Held("p1", "plan", "a", "module", "a", "grant", 0, 0, 2),
    Held("p2", "plan", "a", "quota", "a", "quota_replace", 2, 0, MCNever),
    Held("p3", "plan", "a", "field", "a", "grant", 0, 0, MCNever),
    Held("p4", "addon", "a", "quota", "a", "quota_add", 1, 0, 2),
    Held("o0", "override", "a", "quota", "a", "quota_replace", 1, 1, MCNever) }

Wish(id, m, kind, key, effect, limit, from, until) ==
  [id |-> id, module |-> m, kind |-> kind, key |-> key, effect |-> effect, limit |-> limit,
   from |-> from, until |-> until]

(* From MCNever: the override starts when it is created. *)
MCOffer ==
  { Wish("o1", "b", "capability", "b.use", "grant", 0, 1, MCNever),
    Wish("o2", "b", "capability", "b.use", "safety_deny", 0, MCNever, 2),
    Wish("o3", "a", "quota", "a", "quota_replace", 3, MCNever, 2) }
=============================================================================
