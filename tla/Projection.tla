----------------------------- MODULE Projection -----------------------------
(***************************************************************************)
(* What the event delivery promises to the consumer of subscription        *)
(* events: every published version of the aggregate is received once or    *)
(* given up, in any order, and the projection always shows the newest      *)
(* version received.  Outbox is shown to implement this.                   *)
(***************************************************************************)
EXTENDS Naturals

CONSTANT Version

VARIABLES
  published,   \* versions whose event was committed
  received,    \* versions the consumer has taken in
  abandoned,   \* versions given up after the last attempt
  latest       \* version shown by the projection, 0 before the first

vars == <<published, received, abandoned, latest>>

Init == published = {} /\ received = {} /\ abandoned = {} /\ latest = 0

Open(v) == v \in published /\ v \notin received /\ v \notin abandoned

Publish(v) ==
  /\ \A u \in published : u < v
  /\ published' = published \cup {v}
  /\ UNCHANGED <<received, abandoned, latest>>

Receive(v) ==
  /\ Open(v)
  /\ received' = received \cup {v}
  /\ latest' = IF v > latest THEN v ELSE latest
  /\ UNCHANGED <<published, abandoned>>

Abandon(v) ==
  /\ Open(v)
  /\ abandoned' = abandoned \cup {v}
  /\ UNCHANGED <<published, received, latest>>

Next == \E v \in Version : Publish(v) \/ Receive(v) \/ Abandon(v)

(* Each open version is settled sooner or later. *)
SafeSpec == Init /\ [][Next]_vars
Spec == SafeSpec /\ \A v \in Version : WF_vars(Receive(v) \/ Abandon(v))
=============================================================================
