------------------------ MODULE NotificationRouting ------------------------
(***************************************************************************)
(* Business events are routed by a tenant's configuration to in-app        *)
(* messages and external tasks, and the notification runtime does both     *)
(* (internal/notification: router.go, routing.go, configuration.go;        *)
(* internal/bizruntime: notification_runtime.go).  Composes routing with   *)
(* the delivery of the tasks.                                              *)
(*                                                                         *)
(* The router asks one authority after the other, each in a transaction of *)
(* its own, and the configuration itself in three reads.  One tenant, one  *)
(* point and level; the sms channel stands for every external one.         *)
(***************************************************************************)
EXTENDS ExternalDelivery

CONSTANTS
  Contents,   \* what a configuration may say: [primary, extra, channels]
  RouteLease  \* the router's lease

ASSUME RoutingAssumption ==
  /\ RouteLease \in Nat \ {0}
  /\ Contents \subseteq [primary : User, extra : SUBSET User, channels : SUBSET {"in_app", "sms"}]
  /\ \A c \in Contents : c.primary \notin c.extra /\ c.channels # {}

VARIABLES
  config,    \* the configuration row and its relations, with its id
  event,     \* biz_notification_events
  outcomes,  \* biz_notification_route_outcomes, by event
  inbox      \* in-app messages, by event and user

routingVars == <<config, event, outcomes, inbox>>
directoryVars == <<tenantActive, standing, changes>>
vars == <<job, directoryVars, consent, faults, deliveryVars, routingVars>>

Nothing == [primary |-> "nobody", extra |-> {}, channels |-> {}]
NoConfig(id) == [id |-> id, says |-> Nothing]
NoEvent == [state |-> "none", owner |-> "none", left |-> 0]

Init ==
  /\ DirectoryInit /\ DeliveryInit
  /\ config \in {[id |-> 1, says |-> c] : c \in Contents}
  /\ event = [e \in Event |-> NoEvent]
  /\ outcomes = [e \in Event |-> {}]
  /\ inbox = {}

Routing(w) == job[w].pc \in {"find", "channels", "extra", "resolve", "preferences", "complete"}

-----------------------------------------------------------------------------
(* CreateMany, Replace and Delete: one root transaction each.  Routers     *)
(* remember, as history, what was in force since they began.               *)
ConfigurationMoves ==
  /\ \/ \E c \in Contents \ {config.says} :
          config' = [id |-> IF config.says = Nothing THEN config.id + 1 ELSE config.id, says |-> c]
     \/ config.says # Nothing /\ config' = NoConfig(config.id)
  /\ changes < MaxChanges /\ changes' = changes + 1
  /\ job' = [w \in Worker |-> IF Routing(w) THEN [job[w] EXCEPT !.seen = @ \cup {config'.says}] ELSE job[w]]
  /\ UNCHANGED <<tenantActive, standing, consent, faults, deliveryVars, event, outcomes, inbox>>

(* AppendBusinessEvent *)
AppendBusinessEvent(e) ==
  /\ event[e].state = "none"
  /\ event' = [event EXCEPT ![e].state = "PENDING"]
  /\ UNCHANGED <<job, directoryVars, consent, faults, deliveryVars, config, outcomes, inbox>>

-----------------------------------------------------------------------------
(* RouteOnce *)

EventDue(e) ==
  \/ event[e].state = "PENDING"
  \/ event[e].state = "LEASED" /\ event[e].left = 0

(* ClaimNextBusinessEvent *)
ClaimNextBusinessEvent(w, e) ==
  /\ job[w] = Idle /\ EventDue(e)
  /\ event' = [event EXCEPT ![e] = [state |-> "LEASED", owner |-> w, left |-> RouteLease]]
  /\ job' = [job EXCEPT ![w] = [pc |-> "find", event |-> e, seen |-> {config.says}]]

(* Continue with what is known so far. *)
Knows(w, known) == job' = [job EXCEPT ![w] = known] /\ UNCHANGED consent

Decision(u, channel, outcome) == [user |-> u, channel |-> channel, outcome |-> outcome]
ToNobody(outcome) == {Decision("nobody", "none", outcome)}
Planned(w, plan) == [pc |-> "complete", event |-> job[w].event, seen |-> job[w].seen, plan |-> plan]

(* The type is unknown or the point is gone, or there is no configuration: *)
(* the event is routed to nobody.  Otherwise FindRoutingConfiguration      *)
(* starts with the row.                                                    *)
FindConfiguration(w) ==
  /\ job[w].pc = "find"
  /\ \/ Knows(w, Planned(w, ToNobody("UNAVAILABLE")))
     \/ /\ config.says = Nothing
        /\ Knows(w, Planned(w, ToNobody("NO_CONFIGURATION")))
     \/ /\ config.says # Nothing
        /\ Knows(w, [pc |-> "channels", event |-> job[w].event, seen |-> job[w].seen,
                     id |-> config.id, primary |-> config.says.primary])

Relation(w, field) ==
  IF config.id = job[w].id THEN config.says[field] ELSE {}
Chosen(w, channels) == [pc |-> "extra", event |-> job[w].event, seen |-> job[w].seen,
                        id |-> job[w].id, primary |-> job[w].primary, channels |-> channels]

(* Faulty variant: every channel the system has. *)
EveryChannel(w) ==
  /\ job[w].pc = "channels"
  /\ Knows(w, Chosen(w, {"in_app", "sms"}))

FindChannels(w) ==
  /\ job[w].pc = "channels"
  /\ Knows(w, Chosen(w, Relation(w, "channels")))

(* The last read, and Validate of what the three make up. *)
FindRecipients(w) ==
  LET extra == Relation(w, "extra") IN
  /\ job[w].pc = "extra"
  /\ IF job[w].channels = {} \/ job[w].primary \in extra THEN Done(w)
     ELSE Knows(w, [pc |-> "resolve", event |-> job[w].event, seen |-> job[w].seen,
                    users |-> extra \cup {job[w].primary}, channels |-> job[w].channels])

Asking(w, plan, ask) ==
  [pc |-> "preferences", event |-> job[w].event, seen |-> job[w].seen, plan |-> plan, ask |-> ask]

(* ResolveNotificationRouteRecipients refuses a tenant that is not active. *)
(* A channel the process was started without an adapter for is recorded as *)
(* unavailable; the others are asked for consent or need none.             *)
Sorted(w, active, unavailable) ==
  LET channels == job[w].channels IN
     {Decision(u, c, "RECIPIENT_INACTIVE") : u \in job[w].users \ active, c \in channels}
  \cup {Decision(u, c, "CHANNEL_UNAVAILABLE") : u \in active, c \in channels \cap unavailable}
  \cup {Decision(u, c, "IN_APP_CREATED") : u \in active, c \in channels \cap {"in_app"}}

ResolveRecipients(w) ==
  LET active == {u \in job[w].users : standing[u] # "inactive"} IN
  /\ job[w].pc = "resolve"
  /\ IF ~tenantActive THEN Done(w)
     ELSE \E unavailable \in SUBSET {"sms"} :
            LET ask == IF "sms" \in job[w].channels \ unavailable THEN active ELSE {} IN
            Knows(w, Asking(w, Sorted(w, active, unavailable), ask))

(* ReadNotificationPreference, recipient by recipient *)
ReadPreference(w) ==
  /\ job[w].pc = "preferences"
  /\ \/ job[w].ask = {} /\ Knows(w, Planned(w, job[w].plan))
     \/ \E u \in job[w].ask :
          IF ~Reachable(u) THEN Done(w)
          ELSE LET outcome == IF standing[u] = "denied" THEN "PREFERENCE_DENIED" ELSE "EXTERNAL_TASK" IN
               Knows(w, Asking(w, job[w].plan \cup {Decision(u, "sms", outcome)}, job[w].ask \ {u}))

(* Faulty variant: whoever gets there completes. *)
AnyClaim(w) == event[job[w].event].state # "none"

(* lockedEvent, for an event that is not routed *)
CurrentRoute(w) ==
  LET row == event[job[w].event] IN row.state = "LEASED" /\ row.owner = w /\ row.left > 0

(* CompleteBusinessEventRoute: outcomes, messages, tasks and the event in  *)
(* one transaction; rows that exist already are left alone.                *)
CompleteBusinessEventRoute(w) ==
  LET e == job[w].event
      chosen(outcome) == {<<e, d.user>> : d \in {d \in job[w].plan : d.outcome = outcome}}
  IN
  /\ job[w].pc = "complete"
  /\ IF CurrentRoute(w)
     THEN /\ outcomes' = [outcomes EXCEPT ![e] = @ \cup job[w].plan]
          /\ inbox' = inbox \cup chosen("IN_APP_CREATED")
          /\ task' = [t \in Task |-> IF t \in chosen("EXTERNAL_TASK") /\ task[t] = NoTask THEN NewTask ELSE task[t]]
          /\ event' = [event EXCEPT ![e] = [NoEvent EXCEPT !.state = "ROUTED"]]
     ELSE UNCHANGED <<outcomes, inbox, task, event>>
  /\ Done(w)

RouteStep(w) ==
  \/ /\ FindConfiguration(w) \/ FindChannels(w) \/ FindRecipients(w) \/ ResolveRecipients(w) \/ ReadPreference(w)
     /\ UNCHANGED <<event, outcomes, inbox, task>>
  \/ CompleteBusinessEventRoute(w)

ClaimEvent(w) ==
  /\ \E e \in Event : ClaimNextBusinessEvent(w, e)
  /\ UNCHANGED <<directoryVars, consent, faults, deliveryVars, config, outcomes, inbox>>
Route(w) ==
  /\ RouteStep(w)
  /\ UNCHANGED <<directoryVars, faults, idempotent, providerVars, config>>
Deliver(w) ==
  /\ DeliveryStep(w)
  /\ UNCHANGED <<directoryVars, faults, idempotent, routingVars>>

(* A shutdown, a crash or an error of the infrastructure *)
AbandonRoute(w) ==
  /\ Routing(w) /\ Done(w)
  /\ faults < MaxFaults /\ faults' = faults + 1

Abandon(w) ==
  /\ \/ AbandonRoute(w)
     \/ AbandonTask(w) /\ UNCHANGED faults
  /\ UNCHANGED <<directoryVars, deliveryVars, routingVars>>

(* Time passes.  A router that outlives its lease counts as a fault.       *)
Down(row) == IF row.left > 0 THEN [row EXCEPT !.left = @ - 1] ELSE row
Tick ==
  LET late == {w \in Worker : Routing(w) /\ CurrentRoute(w) /\ event[job[w].event].left = 1} IN
  /\ (\E t \in Task : task[t].left > 0) \/ (\E e \in Event : event[e].left > 0)
  /\ late # {} => faults < MaxFaults
  /\ faults' = IF late = {} THEN faults ELSE faults + 1
  /\ task' = [t \in Task |-> Down(task[t])]
  /\ event' = [e \in Event |-> Down(event[e])]
  /\ UNCHANGED <<job, directoryVars, consent, idempotent, providerVars, config, outcomes, inbox>>

(* What a replica of the runtime does in its ticks. *)
Work == \E w \in Worker : ClaimEvent(w) \/ Route(w) \/ Deliver(w)

Next ==
  \/ DirectoryMoves /\ UNCHANGED <<deliveryVars, routingVars>>
  \/ ConfigurationMoves
  \/ \E e \in Event : AppendBusinessEvent(e)
  \/ Work
  \/ \E w \in Worker : Abandon(w)
  \/ \E t \in Task :
       ApplyExternalProviderCallback(t) /\ UNCHANGED <<directoryVars, faults, idempotent, routingVars>>
  \/ Tick

Spec == Init /\ [][Next]_vars

(* Time passes and the workers that live go on: it is enough that one of   *)
(* them does.                                                              *)
Fairness == WF_vars(Tick) /\ WF_vars(Work)
FairSpec == Spec /\ Fairness

-----------------------------------------------------------------------------
(* Properties *)

(* An event is routed once: one outcome for a recipient and channel, and   *)
(* a message or a task exactly where an outcome says so, however many      *)
(* routers claimed the event (lockedEvent, CompleteBusinessEventRoute).    *)
RoutedOnce ==
  \A e \in Event :
    /\ \A d1, d2 \in outcomes[e] : d1.user = d2.user /\ d1.channel = d2.channel => d1 = d2
    /\ \A u \in User :
         /\ <<e, u>> \in inbox <=> Decision(u, "in_app", "IN_APP_CREATED") \in outcomes[e]
         /\ task[<<e, u>>] # NoTask <=> Decision(u, "sms", "EXTERNAL_TASK") \in outcomes[e]

(* Shapes of the rows; a lease names its worker, nothing else does; and an *)
(* event is routed once, as stated above.                                  *)
NInv ==
  /\ \A t \in Task :
       /\ task[t].state \in TaskState /\ task[t].attempts \in 0 .. MaxAttempts
       /\ task[t].owner # "none" <=> task[t].state = "LEASED"
       /\ task[t].left > 0 => task[t].state \in {"LEASED", "RETRY_WAIT"}
  /\ \A e \in Event :
       /\ event[e].state \in {"none", "PENDING", "LEASED", "ROUTED"}
       /\ event[e].owner # "none" <=> event[e].state = "LEASED"
  /\ inbox \subseteq Task
  /\ RoutedOnce

(* Nobody is notified by a configuration that had been replaced or deleted *)
(* before the router began, nor on a channel only such a one had; and an   *)
(* event is dropped for want of a configuration only if there was none     *)
(* (FindRoutingConfiguration after the claim).                             *)
RoutedFresh ==
  [][\A w \in Worker : job[w].pc = "complete" /\ outcomes' # outcomes /\ job'[w] = Idle =>
       \A d \in outcomes'[job[w].event] \ outcomes[job[w].event] :
         LET said == job[w].seen \ {Nothing} IN
         IF d.user = "nobody" THEN d.outcome = "NO_CONFIGURATION" => Nothing \in job[w].seen ELSE
         /\ \E c \in said : d.user \in c.extra \cup {c.primary}
         /\ \E c \in said : d.channel \in c.channels]_vars

(* Every event is routed, unless its tenant is not active: then the        *)
(* recipients are refused and the event is tried again for ever            *)
(* (RouteOnce, ResolveNotificationRouteRecipients).                        *)
EventRouted == \A e \in Event : event[e].state # "none" ~> (event[e].state = "ROUTED" \/ ~tenantActive)

(* Nothing gets stuck on the way from an event to its outcome. *)
NotificationsSettle == EventRouted /\ TaskSettles
=============================================================================
