------------------------- MODULE SubscriptionProofs -------------------------
(***************************************************************************)
(* The theorems about SubscriptionLifecycle, for any number of changes and *)
(* workers, any set of inputs, and any time.  First the facts about its    *)
(* operators; then, action by action, that its inductive invariant LInv is *)
(* kept; then the theorems, with the period of the subscription and the    *)
(* previews by invariants of their own.  At the end the theorems about     *)
(* PlanManagement, which offers what is subscribed to.                     *)
(***************************************************************************)
EXTENDS SubscriptionLifecycle, PlanManagement, TLAPS

(* A leaf is first tried with Zenon, briefly, and then with SMT. *)
USE ZenonT(1), SMT

(* Period gives a type-correct answer, and a scheduled change lies in the  *)
(* future (Period).                                                        *)
LEMMA PeriodTypes ==
  ASSUME RowType, NEW i \in Input
  PROVE  /\ End(i) \in Nat /\ EffectiveAt(i) \in Nat /\ Mode(i) \in {"IMMEDIATE", "SCHEDULED"}
         /\ PeriodDefined(i) /\ Mode(i) = "SCHEDULED" => EffectiveAt(i) > now
<1>1. i \in [action : {"INITIAL", "UPGRADE", "DOWNGRADE", "RENEW", "STOP_RENEWAL"},
             at : Nat, fixed : BOOLEAN, prep : BOOLEAN] /\ Days \in Nat
  BY LifecycleAssumption
<1>2. i.at \in Nat /\ i.action \in {"INITIAL", "UPGRADE", "DOWNGRADE", "RENEW", "STOP_RENEWAL"}
  BY <1>1
<1>3. Mode(i) \in {"IMMEDIATE", "SCHEDULED"} /\ EffectiveAt(i) \in Nat
  BY <1>2 DEF RowType, Mode, EffectiveAt
<1>4. Later(EffectiveAt(i), periodEnd) \in Nat
  BY <1>3 DEF RowType, Later
<1>5. End(i) \in Nat
  BY <1>1, <1>2, <1>3, <1>4 DEF RowType, End
<1>6. PeriodDefined(i) /\ Mode(i) = "SCHEDULED" => EffectiveAt(i) > now
  BY <1>2 DEF RowType, PeriodDefined, Mode, EffectiveAt
<1> QED
  BY <1>3, <1>5, <1>6

(* The transitions the code inserts are well formed (NewInTimezone).       *)
LEMMA TransitionTypes ==
  ASSUME NEW v \in Nat \ {0}, NEW d \in Nat
  PROVE  /\ BoundaryOf(v, d) \subseteq Transition
         /\ d # 0 => Boundary(v, d) \in Transition
         /\ d # 0 => \A c \in Change : ScheduledChange(c, v, d) \in Transition
BY DEF BoundaryOf, Boundary, ScheduledChange, Transition, BaseId

(* With no reservation nothing waits for anything, and every fence is in   *)
(* the past.                                                               *)
LEMMA Idle ==
  ASSUME LInv, pending = NoChange
  PROVE  /\ \A d \in Change : phase[d] # "SCHEDULED" /\ task[d] # "open"
         /\ state # "PROVISIONING" /\ ~(srcCut > now)
<1>1. \A d \in Change : d # NoChange
  BY LifecycleAssumption
<1> QED
  BY <1>1 DEF LInv, ReservationBacked, FirstActivation, FenceSet

(* Only the reserving change is scheduled or being prepared.               *)
LEMMA Reserved ==
  ASSUME LInv, NEW c \in Change, pending = c
  PROVE  /\ \A d \in Change \ {c} : phase[d] # "SCHEDULED" /\ task[d] # "open"
         /\ c # NoChange
<1>1. c # NoChange
  BY LifecycleAssumption
<1> QED
  BY <1>1 DEF LInv, ReservationBacked

(* A confirmation starts from an idle subscription and a known input.      *)
LEMMA ConfirmFacts ==
  ASSUME LInv, NEW c \in Change, Confirmable(c)
  PROVE  /\ input[c] \in Input /\ pending = NoChange /\ c # NoChange
         /\ input[c].action # "INITIAL" => SourcesMatch
         /\ End(input[c]) \in Nat /\ EffectiveAt(input[c]) \in Nat
         /\ mode[c] = "SCHEDULED" => EffectiveAt(input[c]) > now
<1>1. input[c] \in Input
  BY DEF LInv, InputKnown, Confirmable
<1>2. pending = NoChange
  BY DEF LInv, FirstActivation, Confirmable
<1>3. RowType
  BY DEF LInv, TypeOK
<1>4. PeriodDefined(input[c]) /\ Mode(input[c]) = mode[c]
  BY DEF Confirmable
<1>5. input[c].action # "INITIAL" => SourcesMatch
  BY DEF Confirmable
<1>6. c # NoChange
  BY LifecycleAssumption
<1> QED
  BY <1>1, <1>2, <1>3, <1>4, <1>5, <1>6, PeriodTypes

(* A transition of a scheduled change that stands is that of the           *)
(* reservation, and it is due.                                             *)
LEMMA StandsFacts ==
  ASSUME LInv, NEW w \in Worker, holds[w] # NoTransition, ScheduleStands(holds[w])
  PROVE  /\ holds[w].id \in Change /\ pending = holds[w].id
         /\ phase[holds[w].id] = "SCHEDULED" /\ task[holds[w].id] # "open"
         /\ effAt[holds[w].id] <= now /\ ~(srcCut > now)
<1>1. holds[w] \in Transition /\ holds[w] \in running
  BY DEF LInv, TypeOK, TransitionType, LeasedIsDue
<1>2. holds[w].id \in Change \cup {BaseId} /\ holds[w].due \in Nat
  BY <1>1 DEF Transition
<1>3. pending \in Change \cup {NoChange} /\ BaseId \notin Change /\ BaseId # NoChange
  BY LifecycleAssumption DEF LInv, TypeOK, RowType, BaseId, NoChange
<1>4. pending = holds[w].id /\ phase[holds[w].id] = "SCHEDULED" /\ effAt[holds[w].id] = holds[w].due
  BY DEF ScheduleStands
<1>5. holds[w].id \in Change
  BY <1>2, <1>3, <1>4
<1>6. holds[w].due <= now
  BY <1>1 DEF LInv, LeasedIsDue
<1>7. task[holds[w].id] # "open"
  BY <1>4, <1>5 DEF LInv, ReservationBacked
<1>8. ~(srcCut > now)
  <2>1. srcCut = 0 \/ srcCut <= effAt[holds[w].id]
    BY <1>4, <1>5 DEF LInv, FenceSet
  <2>2. srcCut \in Nat /\ now \in Nat
    BY DEF LInv, TypeOK, RowType
  <2> QED
    BY <1>2, <1>4, <1>6, <2>1, <2>2
<1> QED
  BY <1>4, <1>5, <1>6, <1>7, <1>8

(* The preset trial's first row keeps the invariant (BootstrapPreset).     *)
LEMMA BootstrapStep ==
  ASSUME LInv, Bootstrap
  PROVE  LInv'
<1>a. pending = NoChange
  BY DEF LInv, FirstActivation, Bootstrap
<1>b. /\ \A d \in Change : phase[d] # "SCHEDULED" /\ task[d] # "open"
      /\ state # "PROVISIONING" /\ ~(srcCut > now)
  BY <1>a, Idle
<1>d. Days \in Nat
  BY LifecycleAssumption
<1> USE DEF LInv, TypeOK, Bootstrap, BoundaryOf, Boundary, previewVars, receiptTimes, taskVars
<1>1. RowType'
  BY <1>d DEF RowType, State
<1>2. ChangeType'
  BY DEF ChangeType
<1>3. TaskType'
  BY DEF TaskType
<1>4. TransitionType'
  BY <1>d, TransitionTypes DEF TransitionType, RowType
<1>5. ReservationBacked'
  BY <1>a, <1>b DEF ReservationBacked
<1>6. InputKnown'
  BY DEF InputKnown
<1>7. LeasedIsDue'
  BY DEF LeasedIsDue
<1>8. FenceSet'
  BY <1>a, <1>b DEF FenceSet
<1>9. FirstActivation'
  BY DEF FirstActivation
<1>10. SourcesEnd'
  BY <1>d DEF SourcesEnd, RowType
<1> QED
  BY <1>1, <1>2, <1>3, <1>4, <1>5, <1>6, <1>7, <1>8, <1>9, <1>10

(* A preview touches its own row only (Preview).                           *)
LEMMA PreviewStep ==
  ASSUME LInv, NEW c \in Change, NEW i \in Input, Preview(c, i)
  PROVE  LInv'
<1>a. /\ End(i) \in Nat /\ EffectiveAt(i) \in Nat /\ Mode(i) \in {"IMMEDIATE", "SCHEDULED"}
  BY PeriodTypes DEF LInv, TypeOK
<1>b. task[c] # "open" /\ pending # c
  BY LifecycleAssumption DEF LInv, ReservationBacked, Preview
<1> USE DEF LInv, TypeOK, Preview, rowVars, sourceVars, taskVars, transitionVars
<1>1. RowType'
  BY DEF RowType
<1>2. ChangeType'
  BY <1>a DEF ChangeType, RowType, Phase
<1>3. TaskType'
  BY DEF TaskType
<1>4. TransitionType'
  BY DEF TransitionType
<1>5. ReservationBacked'
  BY <1>b DEF ReservationBacked, ChangeType
<1>6. InputKnown'
  BY DEF InputKnown, ChangeType
<1>7. LeasedIsDue'
  BY DEF LeasedIsDue
<1>8. FenceSet'
  BY <1>b DEF FenceSet, ChangeType, ReservationBacked
<1>9. FirstActivation'
  BY <1>b DEF FirstActivation, ChangeType
<1>10. SourcesEnd'
  BY DEF SourcesEnd
<1> QED
  BY <1>1, <1>2, <1>3, <1>4, <1>5, <1>6, <1>7, <1>8, <1>9, <1>10

(* A confirmation that needs preparation reserves the subscription and     *)
(* opens its provisioning task (confirm, saveProvisioning).                *)
LEMMA ConfirmPrepareStep ==
  ASSUME LInv, NEW c \in Change, ConfirmPrepare(c)
  PROVE  LInv'
<1>a. /\ input[c] \in Input /\ pending = NoChange /\ c # NoChange
      /\ input[c].action # "INITIAL" => SourcesMatch
      /\ End(input[c]) \in Nat /\ EffectiveAt(input[c]) \in Nat
      /\ mode[c] = "SCHEDULED" => EffectiveAt(input[c]) > now
  BY ConfirmFacts DEF ConfirmPrepare
<1>b. /\ \A d \in Change : phase[d] # "SCHEDULED" /\ task[d] # "open"
      /\ state # "PROVISIONING" /\ ~(srcCut > now)
  BY <1>a, Idle
<1>n. revision + 1 \in Nat \ {0} /\ revision \in Nat
  BY DEF LInv, TypeOK, RowType
<1> USE DEF LInv, TypeOK, ConfirmPrepare, Receipt, OpenTask, sourceVars, previewVars
<1>1. RowType'
  BY <1>a, <1>n DEF RowType, State
<1>t. BoundaryOf(revision + 1, periodEnd') \subseteq Transition
  BY <1>n, <1>1, TransitionTypes DEF RowType
<1>2. ChangeType'
  BY <1>a DEF ChangeType, Phase
<1>3. TaskType'
  BY <1>n DEF TaskType
<1>4. TransitionType'
  BY <1>t DEF TransitionType
<1>5. ReservationBacked'
  BY <1>a, <1>b DEF ReservationBacked, ChangeType, TaskType
<1>6. InputKnown'
  BY <1>a DEF InputKnown, ChangeType
<1>7. LeasedIsDue'
  BY DEF LeasedIsDue
<1>8. FenceSet'
  BY <1>a, <1>b DEF FenceSet, ChangeType, TaskType, RowType
<1>9. FirstActivation'
  BY <1>a, <1>b DEF FirstActivation, ChangeType
<1>10. SourcesEnd'
  BY <1>a, <1>b DEF SourcesEnd, RowType, SourcesMatch
<1> QED
  BY <1>1, <1>2, <1>3, <1>4, <1>5, <1>6, <1>7, <1>8, <1>9, <1>10

(* A scheduled confirmation reserves the subscription, inserts its         *)
(* transition and fences the current sources (confirm, installTimeFence).  *)
LEMMA ConfirmScheduleStep ==
  ASSUME LInv, NEW c \in Change, ConfirmSchedule(c)
  PROVE  LInv'
<1>a. /\ input[c] \in Input /\ pending = NoChange /\ c # NoChange
      /\ input[c].action # "INITIAL" => SourcesMatch
      /\ End(input[c]) \in Nat /\ EffectiveAt(input[c]) \in Nat
      /\ mode[c] = "SCHEDULED" => EffectiveAt(input[c]) > now
  BY ConfirmFacts DEF ConfirmSchedule
<1>b. /\ \A d \in Change : phase[d] # "SCHEDULED" /\ task[d] # "open"
      /\ state # "PROVISIONING" /\ ~(srcCut > now)
  BY <1>a, Idle
<1>n. revision + 1 \in Nat \ {0} /\ revision \in Nat
  BY DEF LInv, TypeOK, RowType
<1>t. ScheduledChange(c, revision + 1, EffectiveAt(input[c])) \in Transition
  <2>1. now \in Nat /\ mode[c] = "SCHEDULED"
    BY DEF LInv, TypeOK, RowType, ConfirmSchedule
  <2> QED
    BY <1>a, <1>n, <2>1, TransitionTypes
<1>s. SourcesMatch
  BY <1>a, LifecycleAssumption DEF ConfirmSchedule, Confirmable, Mode
<1> USE DEF LInv, TypeOK, ConfirmSchedule, Receipt, Fence, previewVars, taskVars
<1>1. RowType'
  BY <1>a, <1>n DEF RowType, State
<1>2. ChangeType'
  BY <1>a DEF ChangeType, Phase
<1>3. TaskType'
  BY <1>n DEF TaskType
<1>4. TransitionType'
  BY <1>t DEF TransitionType
<1>5. ReservationBacked'
  BY <1>a, <1>b DEF ReservationBacked, ChangeType, TaskType
<1>6. InputKnown'
  BY <1>a DEF InputKnown, ChangeType
<1>7. LeasedIsDue'
  BY DEF LeasedIsDue
<1>8. FenceSet'
  BY <1>a, <1>b DEF FenceSet, ChangeType, TaskType, RowType
<1>9. FirstActivation'
  BY <1>a, <1>b DEF FirstActivation, ChangeType
<1>10. SourcesEnd'
  BY <1>s DEF SourcesEnd, RowType, SourcesMatch
<1> QED
  BY <1>1, <1>2, <1>3, <1>4, <1>5, <1>6, <1>7, <1>8, <1>9, <1>10

(* Stopping renewal makes a new revision with the same end (confirm).      *)
LEMMA ConfirmStopStep ==
  ASSUME LInv, NEW c \in Change, ConfirmStop(c)
  PROVE  LInv'
<1>a. /\ input[c] \in Input /\ pending = NoChange /\ c # NoChange
      /\ input[c].action # "INITIAL" => SourcesMatch
      /\ End(input[c]) \in Nat /\ EffectiveAt(input[c]) \in Nat
      /\ mode[c] = "SCHEDULED" => EffectiveAt(input[c]) > now
  BY ConfirmFacts DEF ConfirmStop
<1>b. /\ \A d \in Change : phase[d] # "SCHEDULED" /\ task[d] # "open"
      /\ state # "PROVISIONING" /\ ~(srcCut > now)
  BY <1>a, Idle
<1>n. revision + 1 \in Nat \ {0} /\ revision \in Nat
  BY DEF LInv, TypeOK, RowType
<1>t. BoundaryOf(revision + 1, periodEnd) \subseteq Transition
  BY <1>n, TransitionTypes DEF LInv, TypeOK, RowType
<1>s. state # "NONE"
  BY DEF LInv, InputKnown, ConfirmStop, Confirmable
<1> USE DEF LInv, TypeOK, ConfirmStop, Receipt, sourceVars, previewVars, taskVars
<1>1. RowType'
  BY <1>a, <1>n DEF RowType, State
<1>2. ChangeType'
  BY <1>a DEF ChangeType, Phase
<1>3. TaskType'
  BY <1>n DEF TaskType
<1>4. TransitionType'
  BY <1>t DEF TransitionType
<1>5. ReservationBacked'
  BY <1>a, <1>b DEF ReservationBacked, ChangeType, TaskType
<1>6. InputKnown'
  BY <1>a, <1>s DEF InputKnown, ChangeType
<1>7. LeasedIsDue'
  BY DEF LeasedIsDue
<1>8. FenceSet'
  BY <1>a, <1>b DEF FenceSet, ChangeType, TaskType, RowType
<1>9. FirstActivation'
  BY <1>a, <1>b, <1>s DEF FirstActivation, ChangeType
<1>10. SourcesEnd'
  BY <1>a, <1>b DEF SourcesEnd, RowType, SourcesMatch
<1> QED
  BY <1>1, <1>2, <1>3, <1>4, <1>5, <1>6, <1>7, <1>8, <1>9, <1>10

(* An immediate change replaces sources and period in the confirming       *)
(* transaction (confirm).                                                  *)
LEMMA ConfirmApplyStep ==
  ASSUME LInv, NEW c \in Change, ConfirmApply(c)
  PROVE  LInv'
<1>a. /\ input[c] \in Input /\ pending = NoChange /\ c # NoChange
      /\ input[c].action # "INITIAL" => SourcesMatch
      /\ End(input[c]) \in Nat /\ EffectiveAt(input[c]) \in Nat
      /\ mode[c] = "SCHEDULED" => EffectiveAt(input[c]) > now
  BY ConfirmFacts DEF ConfirmApply
<1>b. /\ \A d \in Change : phase[d] # "SCHEDULED" /\ task[d] # "open"
      /\ state # "PROVISIONING" /\ ~(srcCut > now)
  BY <1>a, Idle
<1>n. revision + 1 \in Nat \ {0} /\ revision \in Nat
  BY DEF LInv, TypeOK, RowType
<1>t. BoundaryOf(revision + 1, End(input[c])) \subseteq Transition
  BY <1>a, <1>n, TransitionTypes
<1> USE DEF LInv, TypeOK, ConfirmApply, Receipt, ApplySources, previewVars, taskVars
<1>1. RowType'
  BY <1>a, <1>n DEF RowType, State
<1>2. ChangeType'
  BY <1>a DEF ChangeType, Phase
<1>3. TaskType'
  BY <1>n DEF TaskType
<1>4. TransitionType'
  BY <1>t DEF TransitionType
<1>5. ReservationBacked'
  BY <1>a, <1>b DEF ReservationBacked, ChangeType, TaskType
<1>6. InputKnown'
  BY <1>a DEF InputKnown, ChangeType
<1>7. LeasedIsDue'
  BY DEF LeasedIsDue
<1>8. FenceSet'
  BY <1>a, <1>b DEF FenceSet, ChangeType, TaskType, RowType
<1>9. FirstActivation'
  BY <1>a, <1>b DEF FirstActivation, ChangeType
<1>10. SourcesEnd'
  BY <1>a, <1>b DEF SourcesEnd, RowType, SourcesMatch
<1> QED
  BY <1>1, <1>2, <1>3, <1>4, <1>5, <1>6, <1>7, <1>8, <1>9, <1>10

-----------------------------------------------------------------------------
(* A step that leaves the tables and the time alone keeps every part of    *)
(* the invariant that speaks of nothing else.                              *)
LEMMA TablesKept ==
  ASSUME LInv, UNCHANGED <<now, rowVars, sourceVars, changeVars, taskVars>>
  PROVE  /\ RowType' /\ ChangeType' /\ TaskType'
         /\ InputKnown' /\ FenceSet' /\ FirstActivation' /\ SourcesEnd'
<1> USE DEF LInv, rowVars, sourceVars, changeVars, previewVars, receiptTimes, taskVars
<1>1. RowType' /\ ChangeType' /\ TaskType'
  BY DEF TypeOK, RowType, ChangeType, TaskType
<1>2. InputKnown' /\ FenceSet'
  BY DEF InputKnown, FenceSet
<1>3. FirstActivation' /\ SourcesEnd'
  BY DEF FirstActivation, SourcesEnd
<1> QED
  BY <1>1, <1>2, <1>3

(* A verified preparation is activated and releases the reservation        *)
(* (CompletePrepared).                                                     *)
LEMMA ActivateStep ==
  ASSUME LInv, NEW c \in Change, Activate(c)
  PROVE  LInv'
<1>b. (\A d \in Change \ {c} : phase[d] # "SCHEDULED" /\ task[d] # "open") /\ c # NoChange
  BY Reserved DEF Activate
<1>p. End(input[c]) \in Nat /\ input[c] \in Input
  BY PeriodTypes DEF LInv, TypeOK, InputKnown, Activate
<1>n. revision + 1 \in Nat \ {0} /\ revision \in Nat
  BY DEF LInv, TypeOK, RowType
<1>e. (IF mode[c] = "IMMEDIATE" THEN End(input[c]) ELSE endAt[c]) \in Nat
  BY <1>p DEF LInv, TypeOK, ChangeType
<1>t. BoundaryOf(revision + 1, (IF mode[c] = "IMMEDIATE" THEN End(input[c]) ELSE endAt[c]))
   \subseteq Transition
  BY <1>n, <1>e, TransitionTypes
<1>z. \A d \in Change : d # NoChange
  BY LifecycleAssumption
<1>h. pending' = NoChange /\ \A d \in Change : phase'[d] # "SCHEDULED" /\ task'[d] # "open"
  BY <1>b DEF LInv, TypeOK, ChangeType, TaskType, Activate, ApplySources, taskVars
<1> USE DEF LInv, TypeOK, Activate, ApplySources, previewVars, receiptTimes
<1>1. RowType'
  BY <1>e, <1>n DEF RowType, State
<1>q. srcEnd' = periodEnd' /\ periodEnd' \in Nat
  BY <1>1 DEF RowType, Activate, ApplySources, sourceVars
<1>r. effAt' \in [Change -> Nat] /\ endAt' \in [Change -> Nat]
  <2>1. now \in Nat /\ effAt \in [Change -> Nat] /\ endAt \in [Change -> Nat]
    BY DEF RowType, ChangeType
  <2> QED BY <1>e, <2>1
<1>2. ChangeType'
  BY <1>r DEF ChangeType, Phase
<1>3. TaskType'
  BY DEF TaskType
<1>4. TransitionType'
  BY <1>t DEF TransitionType
<1>5. ReservationBacked'
  BY <1>z, <1>h DEF ReservationBacked
<1>6. InputKnown'
  BY DEF InputKnown, ChangeType
<1>7. LeasedIsDue'
  BY DEF LeasedIsDue
<1>8. FenceSet'
  BY <1>h DEF FenceSet, RowType
<1>9. FirstActivation'
  BY DEF FirstActivation
<1>10. SourcesEnd'
  BY <1>q DEF SourcesEnd
<1> QED
  BY <1>1, <1>2, <1>3, <1>4, <1>5, <1>6, <1>7, <1>8, <1>9, <1>10

(* A preparation that is given up leaves the row alone.                    *)
LEMMA GiveUpStep ==
  ASSUME LInv, NEW c \in Change, GiveUp(c)
  PROVE  LInv'
<1> USE DEF LInv, TypeOK, GiveUp, rowVars, sourceVars, changeVars, transitionVars,
   previewVars, receiptTimes
<1>1. RowType'
  BY DEF RowType
<1>2. ChangeType'
  BY DEF ChangeType
<1>3. TaskType'
  BY DEF TaskType
<1>4. TransitionType'
  BY DEF TransitionType
<1>5. ReservationBacked'
  BY DEF ReservationBacked
<1>6. InputKnown'
  BY DEF InputKnown
<1>7. LeasedIsDue'
  BY DEF LeasedIsDue
<1>8. FenceSet'
  BY DEF FenceSet
<1>9. FirstActivation'
  BY DEF FirstActivation
<1>10. SourcesEnd'
  BY DEF SourcesEnd
<1> QED
  BY <1>1, <1>2, <1>3, <1>4, <1>5, <1>6, <1>7, <1>8, <1>9, <1>10

(* A cancellation puts the previous status back and releases the           *)
(* reservation (CancelPrepared).                                           *)
LEMMA CancelPreparedStep ==
  ASSUME LInv, NEW c \in Change, CancelPrepared(c)
  PROVE  LInv'
<1>b. (\A d \in Change \ {c} : phase[d] # "SCHEDULED" /\ task[d] # "open") /\ c # NoChange
  BY Reserved DEF CancelPrepared
<1>n. revision + 1 \in Nat \ {0} /\ revision \in Nat
  BY DEF LInv, TypeOK, RowType
<1>f. input[c].action # "INITIAL" /\ pending = c
  BY DEF CancelPrepared
<1>g. phase[c] = "PROVISIONING"
  BY DEF LInv, ReservationBacked, CancelPrepared
<1>z. \A d \in Change : d # NoChange
  BY LifecycleAssumption
<1>h. pending' = NoChange /\ \A d \in Change : phase'[d] # "SCHEDULED" /\ task'[d] # "open"
  BY <1>b, <1>g DEF LInv, TypeOK, ChangeType, TaskType, CancelPrepared, taskVars
<1> USE DEF LInv, TypeOK, CancelPrepared, sourceVars, previewVars, receiptTimes, transitionVars
<1>1. RowType'
  BY <1>n DEF RowType
<1>2. ChangeType'
  BY DEF ChangeType
<1>3. TaskType'
  BY DEF TaskType
<1>4. TransitionType'
  BY DEF TransitionType
<1>5. ReservationBacked'
  BY <1>z, <1>h DEF ReservationBacked
<1>6. InputKnown'
  BY DEF InputKnown
<1>7. LeasedIsDue'
  BY DEF LeasedIsDue
<1>8. FenceSet'
  BY <1>h DEF FenceSet, RowType
<1>9. FirstActivation'
  BY <1>b, <1>f DEF FirstActivation
<1>10. SourcesEnd'
  BY DEF SourcesEnd
<1> QED
  BY <1>1, <1>2, <1>3, <1>4, <1>5, <1>6, <1>7, <1>8, <1>9, <1>10

(* A claim leases due transitions only, each to one worker (Claim).        *)
LEMMA ClaimStep ==
  ASSUME LInv, NEW w \in Worker, Claim(w)
  PROVE  LInv'
<1>1. /\ RowType' /\ ChangeType' /\ TaskType'
      /\ InputKnown' /\ FenceSet' /\ FirstActivation' /\ SourcesEnd'
  BY TablesKept DEF Claim
<1>2. TransitionType'
  BY DEF LInv, TypeOK, TransitionType, Claim
<1>3. ReservationBacked'
  BY DEF LInv, TypeOK, ReservationBacked, Claim, rowVars, sourceVars, changeVars, taskVars,
     previewVars, receiptTimes
<1>4. LeasedIsDue'
  BY DEF LInv, TypeOK, LeasedIsDue, TransitionType, Claim
<1> QED
  BY <1>1, <1>2, <1>3, <1>4 DEF LInv, TypeOK

(* A lost lease puts the transition back to be claimed again.              *)
LEMMA LoseLeaseStep ==
  ASSUME LInv, NEW w \in Worker, LoseLease(w)
  PROVE  LInv'
<1>1. /\ RowType' /\ ChangeType' /\ TaskType'
      /\ InputKnown' /\ FenceSet' /\ FirstActivation' /\ SourcesEnd'
  BY TablesKept DEF LoseLease
<1>2. TransitionType'
  BY DEF LInv, TypeOK, TransitionType, LoseLease
<1>3. ReservationBacked'
  BY DEF LInv, TypeOK, ReservationBacked, LoseLease, rowVars, sourceVars, changeVars,
     taskVars, previewVars, receiptTimes
<1>4. LeasedIsDue'
  BY DEF LInv, TypeOK, LeasedIsDue, TransitionType, LoseLease
<1> QED
  BY <1>1, <1>2, <1>3, <1>4 DEF LInv, TypeOK

(* A transition of an earlier revision is finished with no other effect    *)
(* (completeSubscriptionBoundary, completeScheduledChange).                *)
LEMMA TransitionPassesStep ==
  ASSUME LInv, NEW w \in Worker, TransitionPasses(w)
  PROVE  LInv'
<1>1. /\ RowType' /\ ChangeType' /\ TaskType'
      /\ InputKnown' /\ FenceSet' /\ FirstActivation' /\ SourcesEnd'
  BY TablesKept DEF TransitionPasses
<1>2. TransitionType'
  BY DEF LInv, TypeOK, TransitionType, TransitionPasses, Finish
<1>3. ReservationBacked'
  BY DEF LInv, TypeOK, ReservationBacked, ScheduleStands, ScheduledChange, TransitionPasses,
     Finish, rowVars, sourceVars, changeVars, taskVars, previewVars, receiptTimes
<1>4. LeasedIsDue'
  BY DEF LInv, TypeOK, LeasedIsDue, TransitionType, TransitionPasses, Finish
<1> QED
  BY <1>1, <1>2, <1>3, <1>4 DEF LInv, TypeOK

(* The period's end moves the status on and, into grace, sets the next     *)
(* boundary (completeSubscriptionBoundary).                                *)
LEMMA BoundaryAppliesStep ==
  ASSUME LInv, NEW w \in Worker, BoundaryApplies(w)
  PROVE  LInv'
<1>a. pending = NoChange
  BY DEF BoundaryApplies
<1>b. /\ \A d \in Change : phase[d] # "SCHEDULED" /\ task[d] # "open"
      /\ state # "PROVISIONING" /\ ~(srcCut > now)
  BY <1>a, Idle
<1>n. revision + 1 \in Nat \ {0} /\ revision \in Nat
  BY DEF LInv, TypeOK, RowType
<1>g. GraceEnd(holds[w]) \in Nat \ {0} /\ holds[w].due \in Nat \ {0}
  BY LifecycleAssumption DEF LInv, TypeOK, TransitionType, Transition, BoundaryApplies, GraceEnd
<1>t. Boundary(revision + 1, GraceEnd(holds[w])) \in Transition
  BY <1>n, <1>g, TransitionTypes
<1>r. state # "NONE"
  BY DEF LInv, TypeOK, TransitionType, Transition, FirstActivation, BoundaryApplies,
     BoundaryStands
<1>v. GraceEnd(holds[w]) >= periodEnd
  BY <1>g, LifecycleAssumption DEF BoundaryApplies, BoundaryStands, GraceEnd
<1>x. periodEnd \in Nat \ {0} /\ srcEnd' = srcEnd
  BY <1>g DEF BoundaryApplies, BoundaryStands, sourceVars
<1>y. periodEnd' = GraceEnd(holds[w]) \/ periodEnd' = periodEnd
  BY DEF BoundaryApplies
<1>u. periodEnd' \in Nat \ {0} /\ periodEnd' >= periodEnd
  BY <1>g, <1>v, <1>x, <1>y
<1> USE DEF LInv, TypeOK, BoundaryApplies, Finish, sourceVars, previewVars, receiptTimes,
   taskVars
<1>1. RowType'
  BY <1>g, <1>n DEF RowType, State
<1>2. ChangeType'
  BY DEF ChangeType
<1>3. TaskType'
  BY DEF TaskType
<1>4. TransitionType'
  BY <1>t DEF TransitionType
<1>5. ReservationBacked'
  BY <1>a, <1>b DEF ReservationBacked
<1>6. InputKnown'
  BY DEF InputKnown
<1>7. LeasedIsDue'
  BY DEF LeasedIsDue, TransitionType
<1>8. FenceSet'
  BY <1>a, <1>b DEF FenceSet
<1>9. FirstActivation'
  BY <1>a, <1>b DEF FirstActivation
<1>10. SourcesEnd'
  BY <1>b, <1>r, <1>u, <1>x DEF SourcesEnd, RowType
<1> QED
  BY <1>1, <1>2, <1>3, <1>4, <1>5, <1>6, <1>7, <1>8, <1>9, <1>10

(* A change of the catalogue's authority touches no subscription row.      *)
LEMMA AuthorityMovesStep ==
  ASSUME LInv, AuthorityMoves
  PROVE  LInv'
<1> USE DEF LInv, TypeOK, AuthorityMoves, rowVars, sourceVars, previewVars, receiptTimes,
   transitionVars
<1>1. RowType'
  BY DEF RowType
<1>2. ChangeType'
  BY DEF ChangeType
<1>3. TaskType'
  BY DEF TaskType
<1>4. TransitionType'
  BY DEF TransitionType
<1>5. ReservationBacked'
  BY DEF ReservationBacked
<1>6. InputKnown'
  BY DEF InputKnown
<1>7. LeasedIsDue'
  BY DEF LeasedIsDue
<1>8. FenceSet'
  BY DEF FenceSet
<1>9. FirstActivation'
  BY DEF FirstActivation
<1>10. SourcesEnd'
  BY DEF SourcesEnd
<1> QED
  BY <1>1, <1>2, <1>3, <1>4, <1>5, <1>6, <1>7, <1>8, <1>9, <1>10

(* The passing of time keeps leases due and fences closed.                 *)
LEMMA TickStep ==
  ASSUME LInv, Tick
  PROVE  LInv'
<1> USE DEF LInv, TypeOK, Tick, rowVars, sourceVars, previewVars, receiptTimes, transitionVars
<1>1. RowType'
  BY DEF RowType
<1>2. ChangeType'
  BY DEF ChangeType
<1>3. TaskType'
  BY DEF TaskType
<1>4. TransitionType'
  BY DEF TransitionType
<1>5. ReservationBacked'
  BY DEF ReservationBacked
<1>6. InputKnown'
  BY DEF InputKnown
<1>7. LeasedIsDue'
  BY DEF LeasedIsDue, RowType, TransitionType, Transition
<1>8. FenceSet'
  BY DEF FenceSet, RowType
<1>9. FirstActivation'
  BY DEF FirstActivation
<1>10. SourcesEnd'
  BY DEF SourcesEnd
<1> QED
  BY <1>1, <1>2, <1>3, <1>4, <1>5, <1>6, <1>7, <1>8, <1>9, <1>10

(* A step that changes nothing keeps the invariant.                        *)
LEMMA StutterStep ==
  ASSUME LInv, UNCHANGED vars
  PROVE  LInv'
<1>1. /\ RowType' /\ ChangeType' /\ TaskType'
      /\ InputKnown' /\ FenceSet' /\ FirstActivation' /\ SourcesEnd'
  BY TablesKept DEF vars
<1>2. TransitionType' /\ LeasedIsDue'
  BY DEF LInv, TypeOK, TransitionType, LeasedIsDue, vars, transitionVars
<1>3. ReservationBacked'
  BY DEF LInv, ReservationBacked, vars, rowVars, changeVars, receiptTimes, taskVars, transitionVars
<1> QED
  BY <1>1, <1>2, <1>3 DEF LInv, TypeOK

-----------------------------------------------------------------------------
(* A scheduled change that no longer validates fails and releases the      *)
(* reservation (failScheduledTransition).                                  *)
LEMMA ScheduleFailsStep ==
  ASSUME LInv, NEW w \in Worker, ScheduleFails(w)
  PROVE  LInv'
<1>a. /\ holds[w].id \in Change /\ pending = holds[w].id
      /\ phase[holds[w].id] = "SCHEDULED" /\ task[holds[w].id] # "open"
      /\ effAt[holds[w].id] <= now /\ ~(srcCut > now)
  BY StandsFacts DEF ScheduleFails
<1>b. /\ \A d \in Change \ {holds[w].id} : phase[d] # "SCHEDULED" /\ task[d] # "open"
      /\ holds[w].id # NoChange
  BY <1>a, Reserved
<1>n. revision + 1 \in Nat \ {0} /\ revision \in Nat
  BY DEF LInv, TypeOK, RowType
<1>z. \A d \in Change : d # NoChange
  BY LifecycleAssumption
<1>h. pending' = NoChange /\ \A d \in Change : phase'[d] # "SCHEDULED" /\ task'[d] # "open"
  BY <1>a, <1>b DEF LInv, TypeOK, ChangeType, TaskType, ScheduleFails, taskVars
<1> USE DEF LInv, TypeOK, ScheduleFails, Finish, sourceVars, previewVars, receiptTimes, taskVars
<1>1. RowType'
  BY <1>a, <1>n DEF RowType, State
<1>2. ChangeType'
  BY <1>a DEF ChangeType, Phase
<1>3. TaskType'
  BY <1>a, <1>n DEF TaskType
<1>4. TransitionType'
  BY DEF TransitionType
<1>5. ReservationBacked'
  BY <1>z, <1>h DEF ReservationBacked
<1>6. InputKnown'
  BY <1>a DEF InputKnown, ChangeType
<1>7. LeasedIsDue'
  BY DEF LeasedIsDue, TransitionType
<1>8. FenceSet'
  BY <1>a, <1>h DEF FenceSet, RowType
<1>9. FirstActivation'
  BY <1>a, <1>b DEF FirstActivation, ChangeType
<1>10. SourcesEnd'
  BY <1>a DEF SourcesEnd, RowType, SourcesMatch
<1> QED
  BY <1>1, <1>2, <1>3, <1>4, <1>5, <1>6, <1>7, <1>8, <1>9, <1>10

(* A due scheduled change that needs preparation opens its task            *)
(* (completeScheduledChange).                                              *)
LEMMA SchedulePreparesStep ==
  ASSUME LInv, NEW w \in Worker, SchedulePrepares(w)
  PROVE  LInv'
<1>a. /\ holds[w].id \in Change /\ pending = holds[w].id
      /\ phase[holds[w].id] = "SCHEDULED" /\ task[holds[w].id] # "open"
      /\ effAt[holds[w].id] <= now /\ ~(srcCut > now)
  BY StandsFacts DEF SchedulePrepares
<1>b. /\ \A d \in Change \ {holds[w].id} : phase[d] # "SCHEDULED" /\ task[d] # "open"
      /\ holds[w].id # NoChange
  BY <1>a, Reserved
<1>n. revision + 1 \in Nat \ {0} /\ revision \in Nat
  BY DEF LInv, TypeOK, RowType
<1> USE DEF LInv, TypeOK, SchedulePrepares, Finish, OpenTask, sourceVars, previewVars,
   receiptTimes
<1>1. RowType'
  BY <1>a, <1>n DEF RowType, State
<1>q. srcEnd' = periodEnd' /\ periodEnd' \in Nat
  BY <1>1 DEF RowType, SchedulePrepares, SourcesMatch, sourceVars
<1>2. ChangeType'
  BY <1>a DEF ChangeType, Phase
<1>3. TaskType'
  BY <1>a, <1>n DEF TaskType
<1>4. TransitionType'
  BY DEF TransitionType
<1>5. ReservationBacked'
  BY <1>a, <1>b, ZenonT(10) DEF ReservationBacked, ChangeType, TaskType
<1>6. InputKnown'
  BY <1>a DEF InputKnown, ChangeType
<1>7. LeasedIsDue'
  BY DEF LeasedIsDue, TransitionType
<1>8. FenceSet'
  BY <1>a, <1>b DEF FenceSet, ChangeType, TaskType, RowType
<1>9. FirstActivation'
  BY <1>a, <1>b DEF FirstActivation, ChangeType
<1>10. SourcesEnd'
  <2> HIDE DEF LInv, TypeOK, SchedulePrepares, Finish, OpenTask, sourceVars, previewVars,
     receiptTimes
  <2> QED
    BY <1>q DEF SourcesEnd
<1> QED
  BY <1>1, <1>2, <1>3, <1>4, <1>5, <1>6, <1>7, <1>8, <1>9, <1>10

(* A due scheduled change replaces sources and period                      *)
(* (completeScheduledChange).                                              *)
LEMMA ScheduleAppliesStep ==
  ASSUME LInv, NEW w \in Worker, ScheduleApplies(w)
  PROVE  LInv'
<1>a. /\ holds[w].id \in Change /\ pending = holds[w].id
      /\ phase[holds[w].id] = "SCHEDULED" /\ task[holds[w].id] # "open"
      /\ effAt[holds[w].id] <= now /\ ~(srcCut > now)
  BY StandsFacts DEF ScheduleApplies
<1>b. /\ \A d \in Change \ {holds[w].id} : phase[d] # "SCHEDULED" /\ task[d] # "open"
      /\ holds[w].id # NoChange
  BY <1>a, Reserved
<1>n. revision + 1 \in Nat \ {0} /\ revision \in Nat
  BY DEF LInv, TypeOK, RowType
<1>z. \A d \in Change : d # NoChange
  BY LifecycleAssumption
<1>h. pending' = NoChange /\ \A d \in Change : phase'[d] # "SCHEDULED" /\ task'[d] # "open"
  BY <1>a, <1>b DEF LInv, TypeOK, ChangeType, TaskType, ScheduleApplies, ApplySources, taskVars
<1> USE DEF LInv, TypeOK, ScheduleApplies, Finish, ApplySources, previewVars, receiptTimes,
   taskVars
<1>1. RowType'
  BY <1>a, <1>n DEF RowType, State, ChangeType
<1>q. srcEnd' = periodEnd' /\ periodEnd' \in Nat
  BY <1>1 DEF RowType, ScheduleApplies, ApplySources, sourceVars
<1>2. ChangeType'
  BY <1>a DEF ChangeType, Phase
<1>3. TaskType'
  BY <1>a, <1>n DEF TaskType
<1>4. TransitionType'
  BY DEF TransitionType
<1>5. ReservationBacked'
  BY <1>z, <1>h DEF ReservationBacked
<1>6. InputKnown'
  BY <1>a DEF InputKnown, ChangeType
<1>7. LeasedIsDue'
  BY DEF LeasedIsDue, TransitionType
<1>8. FenceSet'
  BY <1>h DEF FenceSet, RowType
<1>9. FirstActivation'
  BY <1>a, <1>b DEF FirstActivation, ChangeType
<1>10. SourcesEnd'
  <2> HIDE DEF LInv, TypeOK, ScheduleApplies, Finish, ApplySources, previewVars, receiptTimes,
     taskVars
  <2> QED
    BY <1>q DEF SourcesEnd
<1> QED
  BY <1>1, <1>2, <1>3, <1>4, <1>5, <1>6, <1>7, <1>8, <1>9, <1>10

(* Every step is one of the actions. *)
LEMMA NextCases ==
  ASSUME Next
  PROVE  \/ Bootstrap \/ AuthorityMoves \/ Tick
         \/ \E c \in Change :
              \/ \E i \in Input : Preview(c, i)
              \/ ConfirmPrepare(c) \/ ConfirmSchedule(c) \/ ConfirmStop(c) \/ ConfirmApply(c)
              \/ Activate(c) \/ GiveUp(c) \/ CancelPrepared(c)
         \/ \E w \in Worker :
              \/ Claim(w) \/ LoseLease(w) \/ TransitionPasses(w) \/ BoundaryApplies(w)
              \/ ScheduleFails(w) \/ SchedulePrepares(w) \/ ScheduleApplies(w)
BY DEF Next, Operator, CompleteTransition

(* A new tenant's empty state satisfies the invariant.                     *)
LEMMA InitLInv ==
  ASSUME Init
  PROVE  LInv
<1>0. \A c \in Change : c # NoChange
  BY LifecycleAssumption
<1>1. RowType /\ ChangeType
  BY DEF Init, RowType, ChangeType, State, Phase
<1>2. TaskType /\ TransitionType
  BY DEF Init, TaskType, TransitionType
<1>3. ReservationBacked
  BY <1>0 DEF Init, ReservationBacked
<1>4. InputKnown /\ LeasedIsDue /\ FirstActivation /\ SourcesEnd
  BY DEF Init, InputKnown, LeasedIsDue, FirstActivation, SourcesEnd
<1>5. FenceSet
  BY DEF Init, FenceSet
<1> QED
  BY <1>1, <1>2, <1>3, <1>4, <1>5 DEF LInv, TypeOK

(* The inductive invariant holds in every reachable state, for any changes *)
(* and workers and any time.                                               *)
THEOREM LifecycleInvariance == Spec => []LInv
<1>1. Init => LInv
  BY InitLInv
<1>2. LInv /\ [Next]_vars => LInv'
  <2> SUFFICES ASSUME LInv, [Next]_vars
               PROVE  LInv'
    OBVIOUS
  <2>1. CASE Next
    <3>1. CASE Bootstrap \/ AuthorityMoves \/ Tick
      BY <3>1, BootstrapStep, AuthorityMovesStep, TickStep
    <3>2. ASSUME NEW c \in Change,
                 \/ \E i \in Input : Preview(c, i)
                 \/ ConfirmPrepare(c) \/ ConfirmSchedule(c) \/ ConfirmStop(c) \/ ConfirmApply(c)
                 \/ Activate(c) \/ GiveUp(c) \/ CancelPrepared(c)
          PROVE  LInv'
      BY <3>2, PreviewStep, ConfirmPrepareStep, ConfirmScheduleStep, ConfirmStopStep,
         ConfirmApplyStep, ActivateStep, GiveUpStep, CancelPreparedStep
    <3>3. ASSUME NEW w \in Worker,
                 \/ Claim(w) \/ LoseLease(w) \/ TransitionPasses(w) \/ BoundaryApplies(w)
                 \/ ScheduleFails(w) \/ SchedulePrepares(w) \/ ScheduleApplies(w)
          PROVE  LInv'
      BY <3>3, ClaimStep, LoseLeaseStep, TransitionPassesStep, BoundaryAppliesStep,
         ScheduleFailsStep, SchedulePreparesStep, ScheduleAppliesStep
    <3> QED
      BY <2>1, <3>1, <3>2, <3>3, NextCases
  <2>2. CASE UNCHANGED vars
    BY <2>2, StutterStep
  <2> QED
    BY <2>1, <2>2
<1> QED
  BY <1>1, <1>2, PTL DEF Spec

(* A reservation is never lost: the pending change has its transition      *)
(* still to come, or is being prepared under the approved revision         *)
(* (confirm, completeScheduledChange, CompletePrepared).                   *)
THEOREM ReservationSafe == Spec => []ReservationBacked
<1>1. LInv => ReservationBacked
  BY DEF LInv
<1> QED
  BY <1>1, LifecycleInvariance, PTL

(* The fence, or the sources' own end, lies at or before the time of the   *)
(* switch: once that is past the rights are over (installTimeFence).       *)
LEMMA FenceFromInvariant ==
  ASSUME LInv
  PROVE  FenceCloses
<1> SUFFICES ASSUME NEW c \in Change, mode[c] = "SCHEDULED", effAt[c] <= now,
                    phase[c] = "SCHEDULED" \/ task[c] = "open"
             PROVE  ~RightsOn
  BY DEF FenceCloses
<1>1. now \in Nat /\ srcEnd \in Nat /\ srcCut \in Nat /\ effAt[c] \in Nat
  BY DEF LInv, TypeOK, RowType, ChangeType
<1>2. \/ srcCut # 0 /\ srcCut <= effAt[c]
      \/ srcEnd # 0 /\ srcEnd <= effAt[c]
  BY DEF LInv, FenceSet
<1> QED
  BY <1>1, <1>2 DEF RightsOn

(* Once a scheduled switch is due, the old plan's rights are over, however *)
(* late the worker comes (installTimeFence).                               *)
THEOREM FenceSafe == Spec => []FenceCloses
<1>1. LInv => FenceCloses
  BY FenceFromInvariant
<1> QED
  BY <1>1, LifecycleInvariance, PTL

(* Only a boundary that stands and a due switch take the status down, and  *)
(* both find the rights over (completeSubscriptionBoundary,                *)
(* completeScheduledChange).                                               *)
LEMMA DegradeStep ==
  ASSUME LInv, Next, state' \in {"GRACE", "RESTRICTED", "ENDED"}, state' # state
  PROVE  ~RightsOn
<1>0. now \in Nat /\ srcEnd \in Nat /\ srcCut \in Nat /\ periodEnd \in Nat
  BY DEF LInv, TypeOK, RowType
<1>1. CASE Bootstrap \/ AuthorityMoves \/ Tick
  BY <1>1 DEF Bootstrap, AuthorityMoves, Tick, rowVars
<1>2. ASSUME NEW c \in Change,
             \/ \E i \in Input : Preview(c, i)
             \/ ConfirmPrepare(c) \/ ConfirmSchedule(c) \/ ConfirmStop(c) \/ ConfirmApply(c)
             \/ Activate(c) \/ GiveUp(c) \/ CancelPrepared(c)
      PROVE  FALSE
  <2>1. CASE (\E i \in Input : Preview(c, i)) \/ GiveUp(c) \/ CancelPrepared(c) \/ ConfirmStop(c)
    BY <2>1 DEF Preview, GiveUp, CancelPrepared, ConfirmStop, rowVars
  <2>2. CASE ConfirmPrepare(c) \/ ConfirmSchedule(c) \/ ConfirmApply(c) \/ Activate(c)
    BY <2>2 DEF ConfirmPrepare, ConfirmSchedule, ConfirmApply, Activate, ApplySources
  <2> QED
    BY <1>2, <2>1, <2>2
<1>3. ASSUME NEW w \in Worker, Claim(w) \/ LoseLease(w) \/ TransitionPasses(w) \/ ScheduleFails(w)
                               \/ ScheduleApplies(w)
      PROVE  FALSE
  BY <1>3 DEF Claim, LoseLease, TransitionPasses, ScheduleFails, ScheduleApplies, ApplySources,
              rowVars
<1>4. ASSUME NEW w \in Worker, BoundaryApplies(w)
      PROVE  ~RightsOn
  <2>1. /\ holds[w] \in running /\ holds[w] \in Transition
        /\ pending = NoChange /\ BoundaryStands(holds[w])
    BY <1>4 DEF LInv, TypeOK, TransitionType, LeasedIsDue, BoundaryApplies
  <2>2. periodEnd # 0 /\ periodEnd <= now
    BY <2>1 DEF LInv, LeasedIsDue, Transition, BoundaryStands
  <2>3. state \notin {"NONE", "PROVISIONING"} => srcEnd # 0 /\ srcEnd <= periodEnd
    BY <2>2 DEF LInv, SourcesEnd
  <2> QED
    BY <1>0, <2>2, <2>3 DEF RightsOn
<1>5. ASSUME NEW w \in Worker, SchedulePrepares(w)
      PROVE  ~RightsOn
  <2>1. /\ holds[w].id \in Change /\ phase[holds[w].id] = "SCHEDULED" /\ effAt[holds[w].id] <= now
    BY <1>5, StandsFacts DEF SchedulePrepares
  <2>2. effAt[holds[w].id] \in Nat
    BY <2>1 DEF LInv, TypeOK, ChangeType
  <2>3. \/ srcCut # 0 /\ srcCut <= effAt[holds[w].id]
        \/ srcEnd # 0 /\ srcEnd <= effAt[holds[w].id]
    BY <2>1 DEF LInv, FenceSet
  <2> QED
    BY <1>0, <2>1, <2>2, <2>3 DEF RightsOn
<1> QED
  BY <1>1, <1>2, <1>3, <1>4, <1>5, NextCases

(* The status is never taken down while the plan's rights are in force: no *)
(* boundary of an earlier revision undoes a renewal                        *)
(* (completeSubscriptionBoundary, completeScheduledChange).                *)
THEOREM DegradeSafe == Spec => NeverDegradedEarly
<1>1. LInv /\ [Next]_vars =>
        [state' \in {"GRACE", "RESTRICTED", "ENDED"} /\ state' # state => ~RightsOn]_vars
  BY DegradeStep
<1> QED
  BY <1>1, LifecycleInvariance, PTL DEF Spec, NeverDegradedEarly

(* Only a step that applies a change puts rights back: the others leave the *)
(* sources alone or cut them shorter, and no one leaves PROVISIONING.      *)
LEMMA RightsStep ==
  ASSUME LInv, Next, ~RightsOn, RightsOn', state # "NONE"
  PROVE  \E c \in Change : phase[c] # "APPLIED" /\ phase'[c] = "APPLIED"
<1>0. now \in Nat /\ srcEnd \in Nat /\ srcCut \in Nat
  BY DEF LInv, TypeOK, RowType
<1>a. \A c \in Change : phase \in [Change -> Phase]
  BY DEF LInv, TypeOK, ChangeType
<1>1. CASE Bootstrap \/ AuthorityMoves \/ Tick
  <2>1. CASE Bootstrap
    BY <2>1 DEF Bootstrap
  <2>2. CASE AuthorityMoves
    BY <2>2 DEF AuthorityMoves, RightsOn, rowVars, sourceVars
  <2>3. CASE Tick
    BY <1>0, <2>3 DEF Tick, RightsOn, rowVars, sourceVars
  <2> QED
    BY <1>1, <2>1, <2>2, <2>3
<1>2. ASSUME NEW c \in Change, NEW i \in Input, Preview(c, i)
      PROVE  FALSE
  BY <1>2 DEF Preview, RightsOn, rowVars, sourceVars
<1>3. ASSUME NEW c \in Change, ConfirmPrepare(c) \/ ConfirmSchedule(c)
      PROVE  FALSE
  <2>1. pending = NoChange /\ EffectiveAt(input[c]) \in Nat
    BY <1>3, ConfirmFacts DEF ConfirmPrepare, ConfirmSchedule
  <2>2. state # "PROVISIONING"
    BY <2>1, Idle
  <2>3. CASE ConfirmPrepare(c)
    BY <2>2, <2>3 DEF ConfirmPrepare, Receipt, RightsOn, sourceVars
  <2>4. CASE ConfirmSchedule(c)
    BY <1>0, <2>1, <2>2, <2>4 DEF ConfirmSchedule, Receipt, Fence, RightsOn
  <2> QED
    BY <1>3, <2>3, <2>4
<1>4. ASSUME NEW c \in Change, ConfirmStop(c) \/ GiveUp(c) \/ CancelPrepared(c)
      PROVE  FALSE
  BY <1>4 DEF ConfirmStop, GiveUp, CancelPrepared, Receipt, RightsOn, rowVars, sourceVars
<1>5. ASSUME NEW c \in Change, ConfirmApply(c) \/ Activate(c)
      PROVE  phase[c] # "APPLIED" /\ phase'[c] = "APPLIED"
  BY <1>a, <1>5 DEF ConfirmApply, Confirmable, Receipt, Activate
<1>6. ASSUME NEW w \in Worker, Claim(w) \/ LoseLease(w) \/ TransitionPasses(w) \/ ScheduleFails(w)
      PROVE  FALSE
  BY <1>6 DEF Claim, LoseLease, TransitionPasses, ScheduleFails, RightsOn, rowVars, sourceVars
<1>7. ASSUME NEW w \in Worker, BoundaryApplies(w)
      PROVE  FALSE
  <2>1. state # "PROVISIONING"
    BY <1>7, Idle DEF BoundaryApplies
  <2> QED
    BY <1>7, <2>1 DEF BoundaryApplies, RightsOn, sourceVars
<1>8. ASSUME NEW w \in Worker, SchedulePrepares(w)
      PROVE  FALSE
  <2>1. pending = holds[w].id /\ phase[holds[w].id] = "SCHEDULED"
    BY <1>8, StandsFacts DEF SchedulePrepares
  <2>2. state # "PROVISIONING"
    BY <2>1 DEF LInv, FirstActivation
  <2> QED
    BY <1>8, <2>2 DEF SchedulePrepares, RightsOn, sourceVars
<1>9. ASSUME NEW w \in Worker, ScheduleApplies(w)
      PROVE  \E c \in Change : phase[c] # "APPLIED" /\ phase'[c] = "APPLIED"
  <2>1. holds[w].id \in Change /\ phase[holds[w].id] = "SCHEDULED"
    BY <1>9, StandsFacts DEF ScheduleApplies
  <2>2. phase'[holds[w].id] = "APPLIED"
    BY <1>9, <1>a, <2>1 DEF ScheduleApplies
  <2> QED
    BY <2>1, <2>2
<1> QED
  BY <1>1, <1>2, <1>3, <1>4, <1>5, <1>6, <1>7, <1>8, <1>9, NextCases

(* Rights that have lapsed come back through an applied change only        *)
(* (confirm, CompletePrepared, completeScheduledChange).                   *)
THEOREM RightsSafe == Spec => RightsComeFromChanges
<1>1. LInv /\ [Next]_vars =>
        [~RightsOn /\ RightsOn' /\ state # "NONE"
           => \E c \in Change : phase[c] # "APPLIED" /\ phase'[c] = "APPLIED"]_vars
  BY RightsStep
<1> QED
  BY <1>1, LifecycleInvariance, PTL DEF Spec, RightsComeFromChanges

-----------------------------------------------------------------------------
(* The period and its boundary *)

(* No transition is ahead of the subscription's row.                       *)
VersionsPast == \A t \in queued \cup running : t.version <= revision

(* The period ends with the sources.  Only grace puts it off, and once the *)
(* grace is over nothing in the queue belongs to the period any more.      *)
PeriodAnchored ==
  state \notin {"NONE", "PROVISIONING"} =>
    \/ state # "GRACE" /\ periodEnd = srcEnd
    \/ state = "GRACE" /\ periodEnd = srcEnd + Grace
    \/ /\ state \in {"RESTRICTED", "ENDED"} /\ pending = NoChange
       /\ \A t \in queued \cup running : t.kind = "SUBSCRIPTION_BOUNDARY" => t.version < revision

(* Only a scheduled change waits, and only one with requirements is        *)
(* prepared.                                                               *)
WaitsAsAsked ==
  \A c \in Change :
    /\ phase[c] = "SCHEDULED" => mode[c] = "SCHEDULED"
    /\ phase[c] = "PROVISIONING" => input[c].prep

(* The inductive invariant of the period, beside LInv.                     *)
PInv == VersionsPast /\ PeriodAnchored /\ WaitsAsAsked /\ DirectBoundaryCovered

(* Period, as it would have been computed at time t.                       *)
EffectiveThen(i, t) ==
  IF i.at # 0 THEN i.at ELSE IF i.action = "DOWNGRADE" /\ periodEnd > t THEN periodEnd ELSE t
EndThen(i, t) ==
  IF i.action = "STOP_RENEWAL" THEN periodEnd
  ELSE IF i.action = "RENEW" THEN Later(EffectiveThen(i, t), periodEnd) + Days
  ELSE IF i.fixed THEN EffectiveThen(i, t) + Days ELSE 0

(* A preview that is current shows the row as it is, and the end that was  *)
(* computed when it was made.                                              *)
FreshAsSeen ==
  \A c \in fresh :
    /\ createdAt[c] <= now /\ beforeState[c] = state
    /\ input[c] \in Input /\ endAt[c] = EndThen(input[c], createdAt[c])

(* A step that leaves row and sources alone and queues nothing keeps the   *)
(* period where it is.                                                     *)
LEMMA PeriodFrame ==
  ASSUME VersionsPast, PeriodAnchored, UNCHANGED <<rowVars, sourceVars>>,
         queued' \cup running' \subseteq queued \cup running
  PROVE  VersionsPast' /\ PeriodAnchored'
BY DEF VersionsPast, PeriodAnchored, rowVars, sourceVars

(* A new revision queues transitions of that revision only.                *)
LEMMA VersionsGrow ==
  ASSUME LInv, VersionsPast, revision' = revision + 1,
         \A t \in queued' \cup running' : t \in queued \cup running \/ t.version = revision + 1
  PROVE  /\ VersionsPast'
         /\ \A t \in queued \cup running : t.version < revision'
<1>1. revision \in Nat /\ \A t \in queued \cup running : t.version \in Nat
  BY DEF LInv, TypeOK, RowType, TransitionType, Transition
<1> QED BY <1>1 DEF VersionsPast

(* The boundary that ScheduleSubscriptionBoundary inserts has the version  *)
(* it is given.                                                            *)
LEMMA BoundaryIs ==
  ASSUME NEW v, NEW d
  PROVE  /\ \A t \in BoundaryOf(v, d) : t.version = v
         /\ d # 0 => Boundary(v, d) \in BoundaryOf(v, d)
BY DEF BoundaryOf, Boundary

(* Bootstrapped and confirmed changes: saveConfirmed queues the boundary   *)
(* of the period it stores, unless a reservation holds the subscription.   *)
LEMMA ConfirmPeriod ==
  ASSUME LInv, PInv, NEW c \in Change,
         ConfirmPrepare(c) \/ ConfirmSchedule(c) \/ ConfirmStop(c) \/ ConfirmApply(c)
  PROVE  PInv'
<1>1. /\ Confirmable(c) /\ input[c] \in Input /\ pending = NoChange /\ c # NoChange
      /\ input[c].action # "INITIAL" => periodEnd = srcEnd
      /\ revision' = revision + 1 /\ running' = running /\ UNCHANGED <<input, mode>>
  BY ConfirmFacts DEF ConfirmPrepare, ConfirmSchedule, ConfirmStop, ConfirmApply, Confirmable, Receipt,
                      SourcesMatch, previewVars
<1>2. VersionsPast'
  <2>1. \A t \in queued' : t \in queued \/ t.version = revision + 1
    <3>1. CASE ConfirmSchedule(c)
      BY <3>1 DEF ConfirmSchedule, ScheduledChange
    <3>2. CASE ConfirmPrepare(c)
      BY <3>2, BoundaryIs DEF ConfirmPrepare
    <3>3. CASE ConfirmStop(c)
      BY <3>3, BoundaryIs DEF ConfirmStop
    <3>4. CASE ConfirmApply(c)
      BY <3>4, BoundaryIs DEF ConfirmApply
    <3> QED BY <3>1, <3>2, <3>3, <3>4
  <2> QED BY <1>1, <2>1, VersionsGrow DEF PInv
<1>3. mode[c] = "SCHEDULED" => input[c].action # "INITIAL"
  BY <1>1, LifecycleAssumption DEF Confirmable, Mode
<1>4. PeriodAnchored'
  <2>1. CASE ConfirmPrepare(c)
    BY <1>1, <2>1 DEF ConfirmPrepare, PeriodAnchored, sourceVars
  <2>2. CASE ConfirmSchedule(c)
    BY <1>1, <1>3, <2>2 DEF ConfirmSchedule, Fence, PeriodAnchored
  <2>3. CASE ConfirmStop(c)
    BY <1>1, <2>3 DEF ConfirmStop, PInv, PeriodAnchored, sourceVars
  <2>4. CASE ConfirmApply(c)
    BY <2>4 DEF ConfirmApply, ApplySources, PeriodAnchored
  <2> QED BY <2>1, <2>2, <2>3, <2>4
<1>5. WaitsAsAsked'
  BY <1>1 DEF PInv, WaitsAsAsked, ConfirmPrepare, ConfirmSchedule, ConfirmStop, ConfirmApply, Receipt,
              LInv, TypeOK, ChangeType
<1>6. DirectBoundaryCovered'
  <2>1. CASE ConfirmPrepare(c) \/ ConfirmSchedule(c)
    BY <1>1, <2>1 DEF ConfirmPrepare, ConfirmSchedule, DirectBoundaryCovered, BoundaryCovered
  <2>2. CASE ConfirmStop(c) \/ ConfirmApply(c)
    <3>1. queued' = queued \cup BoundaryOf(revision', periodEnd')
      BY <1>1, <2>2 DEF ConfirmStop, ConfirmApply, ApplySources
    <3> QED BY <3>1, BoundaryIs DEF DirectBoundaryCovered, BoundaryCovered
  <2> QED BY <2>1, <2>2
<1> QED BY <1>2, <1>4, <1>5, <1>6 DEF PInv

(* The end of a preparation: activation queues the new period's boundary;  *)
(* a cancelled change was not a direct one (CompletePrepared,              *)
(* CancelPrepared).                                                        *)
LEMMA TaskEndPeriod ==
  ASSUME LInv, PInv, NEW c \in Change, Activate(c) \/ CancelPrepared(c)
  PROVE  PInv'
<1>1. /\ pending = c /\ c # NoChange /\ phase[c] = "PROVISIONING"
      /\ revision' = revision + 1 /\ running' = running /\ UNCHANGED <<input, mode>>
  BY LifecycleAssumption DEF Activate, CancelPrepared, LInv, ReservationBacked, previewVars,
                             transitionVars
<1>2. VersionsPast'
  <2>1. \A t \in queued' : t \in queued \/ t.version = revision + 1
    BY BoundaryIs, ZenonT(10) DEF Activate, CancelPrepared, transitionVars
  <2> QED BY <1>1, <2>1, VersionsGrow DEF PInv
<1>3. PeriodAnchored'
  BY <1>1 DEF Activate, ApplySources, CancelPrepared, PInv, PeriodAnchored, sourceVars
<1>4. WaitsAsAsked'
  BY <1>1 DEF PInv, WaitsAsAsked, Activate, CancelPrepared, LInv, TypeOK, ChangeType
<1>5. DirectBoundaryCovered'
  <2>1. CASE Activate(c)
    <3>1. queued' = queued \cup BoundaryOf(revision', periodEnd')
      BY <2>1 DEF Activate, ApplySources
    <3> QED BY <3>1, BoundaryIs DEF DirectBoundaryCovered, BoundaryCovered
  <2>2. CASE CancelPrepared(c)
    BY <1>1, <2>2 DEF CancelPrepared, PInv, WaitsAsAsked, DirectBoundaryCovered
  <2> QED BY <2>1, <2>2
<1> QED BY <1>2, <1>3, <1>4, <1>5 DEF PInv

(* A scheduled change that comes due was not a direct one                  *)
(* (completeScheduledChange, failScheduledTransition).                     *)
LEMMA SchedulePeriod ==
  ASSUME LInv, PInv, NEW w \in Worker, ScheduleFails(w) \/ SchedulePrepares(w) \/ ScheduleApplies(w)
  PROVE  PInv'
<1> DEFINE c == holds[w].id
<1>1. /\ c \in Change /\ pending = c /\ c # NoChange /\ phase[c] = "SCHEDULED" /\ mode[c] = "SCHEDULED"
      /\ revision' = revision + 1 /\ UNCHANGED <<input, mode>>
      /\ queued' = queued /\ running' \subseteq running
  BY StandsFacts, LifecycleAssumption
     DEF ScheduleFails, SchedulePrepares, ScheduleApplies, PInv, WaitsAsAsked, Finish, previewVars
<1>2. VersionsPast'
  BY <1>1, VersionsGrow DEF PInv
<1>3. PeriodAnchored'
  BY <1>1 DEF ScheduleFails, SchedulePrepares, SourcesMatch, ScheduleApplies, ApplySources, PInv,
              PeriodAnchored, sourceVars
<1>4. WaitsAsAsked'
  BY <1>1 DEF PInv, WaitsAsAsked, ScheduleFails, SchedulePrepares, ScheduleApplies, LInv, TypeOK,
              ChangeType
<1>5. phase'[c] # "NONE" /\ mode'[c] = "SCHEDULED"
  BY <1>1 DEF ScheduleFails, SchedulePrepares, ScheduleApplies, LInv, TypeOK, ChangeType
<1>6. DirectBoundaryCovered'
  BY <1>1, <1>5 DEF DirectBoundaryCovered
<1> QED BY <1>2, <1>3, <1>4, <1>6 DEF PInv

(* A boundary that applies finds the sources' end at its date, or the      *)
(* grace that was counted from it (completeSubscriptionBoundary).          *)
LEMMA BoundaryPeriod ==
  ASSUME LInv, PInv, NEW w \in Worker, BoundaryApplies(w)
  PROVE  PInv'
<1> DEFINE t == holds[w]
<1>1. /\ t \in running /\ t.kind = "SUBSCRIPTION_BOUNDARY" /\ t.version = revision /\ periodEnd = t.due
      /\ pending = NoChange /\ t.version \in Nat \ {0} /\ t.due \in Nat \ {0}
  BY DEF BoundaryApplies, BoundaryStands, LInv, LeasedIsDue, TypeOK, TransitionType, Transition
<1>2. state \notin {"NONE", "PROVISIONING"}
  BY <1>1, Idle DEF LInv, FirstActivation
<1>3. (state # "GRACE" /\ periodEnd = srcEnd) \/ (state = "GRACE" /\ periodEnd = srcEnd + Grace)
  BY <1>1, <1>2 DEF PInv, PeriodAnchored
<1>4. /\ revision' = revision + 1 /\ running' \subseteq running
      /\ pending' = NoChange /\ srcEnd' = srcEnd /\ UNCHANGED <<phase, input, mode>>
  BY <1>1 DEF BoundaryApplies, Finish, sourceVars, previewVars
<1>5. \/ /\ state' = "GRACE" /\ state # "GRACE" /\ periodEnd' = periodEnd + Grace
         /\ queued' = queued \cup {Boundary(revision', periodEnd')}
      \/ state' \in {"RESTRICTED", "ENDED"} /\ periodEnd' = periodEnd /\ queued' = queued
  BY <1>1 DEF BoundaryApplies, Finish, GraceEnd
<1>6. \A x \in queued' \cup running' : x \in queued \cup running \/ x.version = revision + 1
  BY <1>4, <1>5 DEF Boundary
<1>7. VersionsPast' /\ \A x \in queued \cup running : x.version < revision'
  BY <1>4, <1>6, VersionsGrow DEF PInv
<1>8. PeriodAnchored'
  BY <1>3, <1>4, <1>5, <1>7 DEF PeriodAnchored
<1>9. DirectBoundaryCovered'
  BY <1>5 DEF DirectBoundaryCovered, BoundaryCovered
<1> QED BY <1>4, <1>7, <1>8, <1>9 DEF PInv, WaitsAsAsked

(* A transition that is passed over was not the boundary of the period, or *)
(* a reservation holds the subscription.                                   *)
LEMMA PassPeriod ==
  ASSUME LInv, PInv, NEW w \in Worker, Claim(w) \/ LoseLease(w) \/ TransitionPasses(w)
  PROVE  PInv'
<1>1. UNCHANGED <<rowVars, sourceVars, phase, input, mode>> /\ queued' \cup running' \subseteq queued \cup running
  BY DEF Claim, LoseLease, TransitionPasses, Finish, changeVars, previewVars
<1>2. VersionsPast' /\ PeriodAnchored' /\ WaitsAsAsked'
  BY <1>1, PeriodFrame DEF PInv, WaitsAsAsked
<1>3. DirectBoundaryCovered'
  <2> SUFFICES ASSUME pending = NoChange, Boundary(revision, periodEnd) \in queued \cup running
               PROVE  Boundary(revision, periodEnd) \in queued' \cup running'
    BY <1>1 DEF PInv, DirectBoundaryCovered, BoundaryCovered, rowVars
  <2>1. CASE Claim(w) \/ LoseLease(w)
    BY <2>1 DEF Claim, LoseLease
  <2>2. CASE TransitionPasses(w)
    <3>1. holds[w] # Boundary(revision, periodEnd)
      BY <2>2 DEF TransitionPasses, BoundaryStands, Boundary
    <3> QED BY <2>2, <3>1 DEF TransitionPasses, Finish
  <2> QED BY <2>1, <2>2
<1> QED BY <1>2, <1>3 DEF PInv

(* Bootstrap, previews and the rest of the steps.                          *)
LEMMA OtherPeriod ==
  ASSUME LInv, PInv,
         \/ Bootstrap \/ AuthorityMoves \/ Tick \/ UNCHANGED vars
         \/ \E c \in Change : GiveUp(c) \/ \E i \in Input : Preview(c, i)
  PROVE  PInv'
<1>1. CASE Bootstrap
  <2>1. state = "NONE" /\ revision = 0 /\ revision' = 1 /\ revision' = revision + 1
    BY <1>1 DEF Bootstrap, LInv, FirstActivation
  <2>2. queued' = queued \cup BoundaryOf(revision', periodEnd') /\ running' = running
    BY <1>1 DEF Bootstrap
  <2>3. VersionsPast'
    BY <2>1, <2>2, BoundaryIs, VersionsGrow DEF PInv
  <2>4. PeriodAnchored'
    BY <1>1 DEF Bootstrap, PeriodAnchored
  <2>5. WaitsAsAsked'
    BY <1>1 DEF Bootstrap, PInv, WaitsAsAsked, previewVars
  <2>6. DirectBoundaryCovered'
    BY <2>2, BoundaryIs DEF DirectBoundaryCovered, BoundaryCovered
  <2> QED BY <2>3, <2>4, <2>5, <2>6 DEF PInv
<1>2. ASSUME UNCHANGED <<rowVars, sourceVars, phase, input, mode, queued, running>>
      PROVE  PInv'
  <2>1. VersionsPast' /\ PeriodAnchored' /\ WaitsAsAsked'
    BY <1>2, PeriodFrame DEF PInv, WaitsAsAsked
  <2> QED BY <1>2, <2>1 DEF PInv, DirectBoundaryCovered, BoundaryCovered, rowVars
<1>3. CASE AuthorityMoves \/ Tick \/ UNCHANGED vars \/ \E c \in Change : GiveUp(c)
  BY <1>2, <1>3 DEF AuthorityMoves, Tick, GiveUp, vars, changeVars, previewVars, transitionVars
<1>4. ASSUME NEW c \in Change, NEW i \in Input, Preview(c, i)
      PROVE  PInv'
  <2>1. /\ UNCHANGED <<rowVars, sourceVars, queued, running>>
        /\ phase' = [phase EXCEPT ![c] = "PREVIEWED"] /\ phase[c] = "NONE"
        /\ \A d \in Change \ {c} : input'[d] = input[d] /\ mode'[d] = mode[d]
    BY <1>4, ZenonT(10) DEF Preview, transitionVars, LInv, TypeOK, ChangeType
  <2>2. VersionsPast' /\ PeriodAnchored'
    BY <2>1, PeriodFrame DEF PInv
  <2>3. WaitsAsAsked'
    BY <2>1 DEF PInv, WaitsAsAsked, LInv, TypeOK, ChangeType
  <2>4. DirectBoundaryCovered'
    BY <2>1 DEF PInv, DirectBoundaryCovered, BoundaryCovered, rowVars, LInv, TypeOK, ChangeType
  <2> QED BY <2>2, <2>3, <2>4 DEF PInv
<1> QED BY <1>1, <1>3, <1>4

(* PeriodInv for every set of inputs and any time: grace is counted from   *)
(* the end of the sources however late a worker comes, and while changes   *)
(* are direct no period is without a transition                            *)
(* (completeSubscriptionBoundary, ScheduleSubscriptionBoundary).           *)
THEOREM PeriodSafe == Spec => []PeriodInv
<1>1. Init => PInv
  BY DEF Init, PInv, VersionsPast, PeriodAnchored, WaitsAsAsked, DirectBoundaryCovered, BoundaryCovered
<1>2. LInv /\ PInv /\ [Next]_vars => PInv'
  BY NextCases, ConfirmPeriod, TaskEndPeriod, SchedulePeriod, BoundaryPeriod, PassPeriod, OtherPeriod
<1>3. LInv /\ PInv => PeriodInv
  <2> SUFFICES ASSUME LInv, PInv, state = "GRACE" PROVE periodEnd = srcEnd + Grace
    BY DEF PInv, PeriodInv, GraceAnchored
  <2> QED BY DEF PInv, PeriodAnchored
<1> QED BY <1>1, <1>2, <1>3, LifecycleInvariance, PTL DEF Spec

-----------------------------------------------------------------------------
(* What is confirmed is what was previewed *)

(* Recomputing the end of a change later moves it by the time that passed  *)
(* at most (Period).                                                       *)
LEMMA EndMoves ==
  ASSUME RowType, NEW i \in Input, NEW t \in Nat, t <= now
  PROVE  EndThen(i, t) \in Nat /\ End(i) <= EndThen(i, t) + (now - t)
<1>1. i.at \in Nat /\ Days \in Nat /\ now \in Nat /\ periodEnd \in Nat
  BY LifecycleAssumption DEF RowType
<1>2. /\ EffectiveThen(i, t) \in Nat /\ EffectiveAt(i) \in Nat
      /\ EffectiveAt(i) <= EffectiveThen(i, t) + (now - t)
  BY <1>1 DEF EffectiveThen, EffectiveAt, Mode
<1>3. Later(EffectiveAt(i), periodEnd) <= Later(EffectiveThen(i, t), periodEnd) + (now - t)
  BY <1>1, <1>2 DEF Later
<1>4. Later(EffectiveThen(i, t), periodEnd) \in Nat /\ Later(EffectiveAt(i), periodEnd) \in Nat
  BY <1>1, <1>2 DEF Later
<1> QED BY <1>1, <1>2, <1>3, <1>4 DEF End, EndThen

(* What Period computes now is what it would have computed now.            *)
LEMMA EndIsEndThen == ASSUME RowType, NEW i \in Input PROVE End(i) = EndThen(i, now)
<1>1. EffectiveAt(i) = EffectiveThen(i, now)
  BY DEF EffectiveAt, EffectiveThen, Mode
<1> QED BY <1>1 DEF End, EndThen

(* A preview is current only while the row is as it was shown.             *)
LEMMA FreshStep ==
  ASSUME LInv, FreshAsSeen, [Next]_vars
  PROVE  FreshAsSeen'
<1>1. now \in Nat /\ \A c \in Change : createdAt[c] \in Nat
  BY DEF LInv, TypeOK, RowType, ChangeType
<1>2. ASSUME fresh' \subseteq fresh, UNCHANGED <<rowVars, previewVars, endAt>>,
             now' = now \/ now' = now + 1
      PROVE  FreshAsSeen'
  BY <1>1, <1>2 DEF FreshAsSeen, EndThen, EffectiveThen, Later, rowVars, previewVars,
                    LInv, TypeOK, ChangeType
<1>3. ASSUME fresh' = {} PROVE FreshAsSeen'
  BY <1>3 DEF FreshAsSeen
<1>4. CASE Bootstrap \/ AuthorityMoves
  BY <1>3, <1>4 DEF Bootstrap, AuthorityMoves
<1>5. CASE Tick \/ UNCHANGED vars
  BY <1>2, <1>5 DEF Tick, vars, changeVars, receiptTimes
<1>6. ASSUME NEW c \in Change, GiveUp(c) PROVE FreshAsSeen'
  BY <1>2, <1>6 DEF GiveUp, changeVars, receiptTimes
<1>7. ASSUME NEW c \in Change,
             \/ ConfirmPrepare(c) \/ ConfirmSchedule(c) \/ ConfirmStop(c) \/ ConfirmApply(c)
             \/ Activate(c) \/ CancelPrepared(c)
      PROVE  FreshAsSeen'
  BY <1>3, <1>7 DEF ConfirmPrepare, ConfirmSchedule, ConfirmStop, ConfirmApply, Receipt, Activate,
                    CancelPrepared
<1>8. ASSUME NEW w \in Worker, Claim(w) \/ LoseLease(w) \/ TransitionPasses(w) PROVE FreshAsSeen'
  BY <1>2, <1>8 DEF Claim, LoseLease, TransitionPasses, changeVars, receiptTimes
<1>9. ASSUME NEW w \in Worker,
             BoundaryApplies(w) \/ ScheduleFails(w) \/ SchedulePrepares(w) \/ ScheduleApplies(w)
      PROVE  FreshAsSeen'
  BY <1>3, <1>9 DEF BoundaryApplies, ScheduleFails, SchedulePrepares, ScheduleApplies
<1>10. ASSUME NEW c \in Change, NEW i \in Input, Preview(c, i) PROVE FreshAsSeen'
  <2> SUFFICES ASSUME NEW d \in fresh'
               PROVE  /\ createdAt'[d] <= now' /\ beforeState'[d] = state'
                      /\ input'[d] \in Input /\ endAt'[d] = EndThen(input[d], createdAt[d])'
    BY DEF FreshAsSeen
  <2>1. UNCHANGED <<now, state, periodEnd>> /\ d \in fresh \cup {c} /\ d \in Change
    BY <1>10 DEF Preview, rowVars, LInv, TypeOK, ChangeType
  <2>2. EndThen(input[d], createdAt[d])' = EndThen(input'[d], createdAt'[d])
    BY <2>1 DEF EndThen, EffectiveThen, Later
  <2>3. CASE d = c
    <3>1. /\ input'[d] = i /\ createdAt'[d] = now /\ beforeState'[d] = state /\ endAt'[d] = End(i)
      BY <1>10, <2>3 DEF Preview, LInv, TypeOK, ChangeType
    <3>2. End(i) = EndThen(i, now)
      BY EndIsEndThen DEF LInv, TypeOK
    <3>3. endAt'[d] = EndThen(input'[d], createdAt'[d])
      BY <3>1, <3>2, Zenon
    <3>4. createdAt'[d] <= now'
      BY <1>1, <2>1, <3>1
    <3> QED BY <2>1, <2>2, <3>1, <3>3, <3>4, Zenon
  <2>4. CASE d # c
    <3>1. /\ input'[d] = input[d] /\ createdAt'[d] = createdAt[d] /\ beforeState'[d] = beforeState[d]
          /\ endAt'[d] = endAt[d] /\ d \in fresh
      BY <1>10, <2>1, <2>4 DEF Preview, LInv, TypeOK, ChangeType
    <3> QED BY <2>1, <2>2, <3>1 DEF FreshAsSeen
  <2> QED BY <2>3, <2>4
<1> QED BY <1>4, <1>5, <1>6, <1>7, <1>8, <1>9, <1>10, NextCases

(* Only a confirmation ends a preview, and it finds the preview current.   *)
LEMMA ConfirmStep ==
  ASSUME LInv, FreshAsSeen, Next, NEW c \in Change, phase[c] = "PREVIEWED", phase'[c] # "PREVIEWED"
  PROVE  state = beforeState[c] /\ endAt'[c] <= endAt[c] + (now - createdAt[c])
<1>0. phase \in [Change -> Phase] /\ endAt \in [Change -> Nat] /\ createdAt[c] \in Nat /\ RowType
  BY DEF LInv, TypeOK, ChangeType
<1>1. CASE Bootstrap \/ AuthorityMoves \/ Tick
  BY <1>1 DEF Bootstrap, AuthorityMoves, Tick
<1>2. ASSUME NEW d \in Change,
             (\E i \in Input : Preview(d, i)) \/ Activate(d) \/ GiveUp(d) \/ CancelPrepared(d)
      PROVE  FALSE
  BY <1>0, <1>2 DEF Preview, Activate, GiveUp, CancelPrepared, changeVars
<1>3. ASSUME NEW w \in Worker,
             \/ Claim(w) \/ LoseLease(w) \/ TransitionPasses(w) \/ BoundaryApplies(w)
      PROVE  FALSE
  BY <1>3 DEF Claim, LoseLease, TransitionPasses, BoundaryApplies, changeVars
<1>4. ASSUME NEW w \in Worker, ScheduleFails(w) \/ SchedulePrepares(w) \/ ScheduleApplies(w)
      PROVE  FALSE
  <2>1. holds[w].id \in Change /\ phase[holds[w].id] = "SCHEDULED"
    BY <1>4, StandsFacts DEF ScheduleFails, SchedulePrepares, ScheduleApplies
  <2> QED BY <1>0, <1>4, <2>1 DEF ScheduleFails, SchedulePrepares, ScheduleApplies
<1>5. ASSUME NEW d \in Change,
             ConfirmPrepare(d) \/ ConfirmSchedule(d) \/ ConfirmStop(d) \/ ConfirmApply(d)
      PROVE  state = beforeState[c] /\ endAt'[c] <= endAt[c] + (now - createdAt[c])
  <2>1. d = c
    BY <1>0, <1>5 DEF ConfirmPrepare, ConfirmSchedule, ConfirmStop, ConfirmApply, Receipt
  <2>2. c \in fresh /\ endAt'[c] = End(input[c])
    BY <1>0, <1>5, <2>1 DEF ConfirmPrepare, ConfirmSchedule, ConfirmStop, ConfirmApply, Receipt, Confirmable
  <2>3. /\ createdAt[c] <= now /\ beforeState[c] = state
        /\ input[c] \in Input /\ endAt[c] = EndThen(input[c], createdAt[c])
    BY <2>2 DEF FreshAsSeen
  <2> QED BY <1>0, <2>2, <2>3, EndMoves
<1> QED BY <1>1, <1>2, <1>3, <1>4, <1>5, NextCases

(* What is confirmed is what was previewed, for every set of inputs: the   *)
(* row is the one the preview was made of, and the end of the change moves *)
(* by the time that passed since at most (confirm).                        *)
THEOREM PreviewKept == Spec => ConfirmedAsPreviewed
<1>1. Init => FreshAsSeen
  BY DEF Init, FreshAsSeen
<1>2. LInv /\ FreshAsSeen /\ [Next]_vars => FreshAsSeen'
  BY FreshStep
<1>3. LInv /\ FreshAsSeen /\ [Next]_vars =>
        [\A c \in Change : phase[c] = "PREVIEWED" /\ phase'[c] # "PREVIEWED"
           => state = beforeState[c] /\ endAt'[c] <= endAt[c] + (now - createdAt[c])]_vars
  BY ConfirmStep
<1> QED BY <1>1, <1>2, <1>3, LifecycleInvariance, PTL DEF Spec, ConfirmedAsPreviewed

(***************************************************************************)
(* The catalogue and the plan versions, for any modules, features and      *)
(* terms: they fit, and no stale image publishes an offer.  That the head  *)
(* counts every change is a sum over the versions, and stays with TLC.     *)
(***************************************************************************)
USE OfferAssumption

(* The rows of the catalogue and of a plan version. *)
ModuleRow ==
  [row : {"none", "live", "deleted"}, tech : {"ready", "disabled"},
   sales : {"sellable", "retired"}, version : Nat, scope : SalesScope \cup {{}}]
VersionRow ==
  [state : {"DRAFT", "PUBLISHED", "RETIRED"}, revision : Nat, planRevision : Nat, terms : Terms]

PlanTypes ==
  /\ module \in [Module -> ModuleRow]
  /\ call \in [Feature -> {"none", "validated", "unreferenced"}]
  /\ plan \in [revision : Nat, latest : Nat]
  /\ offer \in Seq(VersionRow)

(* What the command in flight will save: a new draft after the last        *)
(* version, or a version as its command may change it, whose terms are     *)
(* valid now, because it shares the catalogue's lock.                      *)
Saves(n, v) ==
  \/ n = Len(offer) + 1 /\ v.state = "DRAFT" /\ ValidTerms(v.terms)
  \/ /\ n \in DOMAIN offer /\ offer[n].state = "DRAFT"
     /\ v.state = "DRAFT" \/ v.state = "PUBLISHED"
     /\ ValidTerms(v.terms)
  \/ /\ n \in DOMAIN offer /\ offer[n].state = "PUBLISHED"
     /\ v.state = "RETIRED" /\ v.terms = offer[n].terms

InFlight ==
  tx # NoTx =>
    /\ tx.number \in Nat /\ tx.version \in VersionRow
    /\ tx.version.planRevision = plan.revision + 1
    /\ Saves(tx.number, tx.version)

(* The inductive invariant. *)
PlanInv == PlanTypes /\ OfferRows /\ InFlight

(* Of two numbers the larger. *)
LEMMA MaxOfTwo ==
  ASSUME NEW a \in Nat, NEW b \in Nat
  PROVE  Max({a, b}) = IF b > a THEN b ELSE a
<1> DEFINE m == IF b > a THEN b ELSE a
<1>1. m \in {a, b} /\ \A y \in {a, b} : m >= y
  OBVIOUS
<1>2. \A x \in {a, b} : (\A y \in {a, b} : x >= y) => x = m
  OBVIOUS
<1> HIDE DEF m
<1>3. Max({a, b}) = m
  BY <1>1, <1>2 DEF Max
<1> QED BY <1>3 DEF m

-----------------------------------------------------------------------------
(* The catalogue                                                           *)

(* A change of the catalogue waits for the plan command in flight. *)
LEMMA ModuleChanges ==
  ASSUME PlanInv, NEW m \in Module, NEW row \in ModuleRow, Changes(m, row),
         verified \subseteq verified',
         (row.row = "live" /\ row.sales = "sellable") => <<m, row.version>> \in verified',
         row.row = "live" \/ ~Referenced(m)
  PROVE  PlanInv'
<1>1. /\ tx = NoTx /\ tx' = NoTx /\ module' = [module EXCEPT ![m] = row]
      /\ call' = call /\ plan' = plan /\ offer' = offer /\ subscribed' = subscribed
  BY DEF Changes, CatalogLocked, featureVars, planVars
<1>2. PlanTypes'
  BY <1>1 DEF PlanInv, PlanTypes
<1>3. SellableVerified'
  <2> SUFFICES ASSUME NEW n \in Module, module'[n].row = "live", module'[n].sales = "sellable"
               PROVE  <<n, module'[n].version>> \in verified'
    BY DEF SellableVerified
  <2>1. CASE n = m
    BY <1>1, <2>1 DEF PlanInv, PlanTypes
  <2>2. CASE n # m
    BY <1>1, <2>2 DEF PlanInv, PlanTypes, OfferRows, SellableVerified
  <2> QED BY <2>1, <2>2
<1>4. OfferedModulesExist'
  BY <1>1 DEF PlanInv, PlanTypes, OfferRows, OfferedModulesExist, Referenced
<1>5. OfferRows'
  BY <1>1, <1>2, <1>3, <1>4 DEF PlanInv, PlanTypes, OfferRows, ModuleRow, RevisionsDiffer
<1> QED BY <1>1, <1>2, <1>5 DEF PlanInv, InFlight

(* Every command of the module catalogue. *)
LEMMA CatalogKeeps ==
  ASSUME PlanInv, NEW m \in Module,
         \/ Create(m) \/ Update(m) \/ SetTechnical(m) \/ SetSalesStatus(m)
         \/ RecordRuntimeVerification(m) \/ Delete(m)
  PROVE  PlanInv'
<1>0. module[m] \in ModuleRow /\ SellableVerified
  BY DEF PlanInv, PlanTypes, OfferRows
<1>1. CASE Create(m)
  <2>1. PICK scope \in SalesScope : Changes(m, NewModule(scope))
    BY <1>1 DEF Create
  <2>2. /\ NewModule(scope) \in ModuleRow
        /\ NewModule(scope).row = "live" /\ NewModule(scope).sales = "retired"
    BY DEF ModuleRow, NewModule
  <2> QED BY <1>1, <2>1, <2>2, ModuleChanges DEF Create
<1>2. CASE Update(m) \/ SetTechnical(m)
  <2>1. PICK row \in ModuleRow : Revised(m, row) /\ row.row = module[m].row
    <3>1. CASE Update(m)
      <4>1. PICK scope \in SalesScope : Revised(m, [module[m] EXCEPT !.scope = scope])
        BY <3>1 DEF Update
      <4>2. /\ [module[m] EXCEPT !.scope = scope] \in ModuleRow
            /\ [module[m] EXCEPT !.scope = scope].row = module[m].row
        BY <1>0 DEF ModuleRow
      <4> QED BY <4>1, <4>2
    <3>2. CASE SetTechnical(m)
      <4>1. PICK tech \in {"ready", "disabled"} : Revised(m, [module[m] EXCEPT !.tech = tech])
        BY <3>2 DEF SetTechnical
      <4>2. /\ [module[m] EXCEPT !.tech = tech] \in ModuleRow
            /\ [module[m] EXCEPT !.tech = tech].row = module[m].row
        BY <1>0 DEF ModuleRow
      <4> QED BY <4>1, <4>2
    <3> QED BY <1>2, <3>1, <3>2
  <2> DEFINE next == [row EXCEPT !.version = @ + 1]
             new == [next EXCEPT !.sales = "retired"]
  <2>2. new \in ModuleRow /\ new.row = row.row /\ new.sales = "retired"
    <3>1. next \in ModuleRow /\ next.row = row.row
      BY DEF ModuleRow
    <3> HIDE DEF next
    <3> QED BY <3>1 DEF ModuleRow
  <2>3. Changes(m, new) /\ module[m].row = "live" /\ verified' = verified
    BY <2>1 DEF Revised
  <2> HIDE DEF new
  <2> QED BY <2>1, <2>2, <2>3, ModuleChanges
<1>3. CASE SetSalesStatus(m)
  <2>1. PICK sales \in {"sellable", "retired"} :
          /\ sales = "sellable" => <<m, module[m].version>> \in verified
          /\ Changes(m, [module[m] EXCEPT !.sales = sales])
    BY <1>3 DEF SetSalesStatus
  <2> DEFINE row == [module[m] EXCEPT !.sales = sales]
  <2>2. row \in ModuleRow /\ row.row = module[m].row /\ row.sales = sales /\ row.version = module[m].version
    BY <1>0 DEF ModuleRow
  <2>3. Changes(m, row) /\ module[m].row = "live" /\ verified' = verified
    BY <1>3, <2>1 DEF SetSalesStatus
  <2> HIDE DEF row
  <2> QED BY <2>1, <2>2, <2>3, ModuleChanges
<1>4. CASE RecordRuntimeVerification(m)
  <2>1. /\ module[m].row = "live" /\ verified' = verified \cup {<<m, module[m].version>>}
        /\ Changes(m, module[m])
    BY <1>4 DEF RecordRuntimeVerification
  <2> QED BY <1>0, <2>1, ModuleChanges
<1>5. CASE Delete(m)
  <2> DEFINE row == [module[m] EXCEPT !.row = "deleted"]
  <2>1. row \in ModuleRow /\ row.row = "deleted"
    BY <1>0 DEF ModuleRow
  <2>2. Changes(m, row) /\ ~Referenced(m) /\ verified' = verified
    BY <1>5 DEF Delete
  <2> HIDE DEF row
  <2> QED BY <2>1, <2>2, ModuleChanges
<1> QED BY <1>1, <1>2, <1>3, <1>4, <1>5

-----------------------------------------------------------------------------
(* Features move beside both locks                                         *)

(* Nothing that the invariant is about depends on the features. *)
LEMMA Beside ==
  ASSUME PlanInv, call' \in [Feature -> {"none", "validated", "unreferenced"}],
         module' = module, verified' = verified, plan' = plan, offer' = offer, tx' = tx,
         subscribed' \in DOMAIN offer \cup {0}
  PROVE  PlanInv'
<1>1. PlanTypes'
  BY DEF PlanInv, PlanTypes
<1>2. OfferRows'
  BY DEF PlanInv, PlanTypes, OfferRows, RevisionsDiffer, SellableVerified, OfferedModulesExist
<1>3. InFlight'
  BY DEF PlanInv, InFlight, Saves, ValidTerms, Sellable
<1> QED BY <1>1, <1>2, <1>3 DEF PlanInv

(* Every command on a feature, and each of its checks. *)
LEMMA FeaturesKeep ==
  ASSUME PlanInv, NEW f \in Feature,
         \/ validateFeatureReferences(f) \/ CreateCommercialFeature(f)
         \/ PublishCommercialFeature(f) \/ StopSell(f) \/ PlanSunset(f)
         \/ CompleteMigration(f) \/ ReferenceImpact(f) \/ Retire(f) \/ GivesUp(f)
  PROVE  PlanInv'
<1>1. \E found \in {"none", "validated", "unreferenced"} :
        (\E row : FeatureMoves(f, row)) \/ Finds(f, found)
  BY DEF validateFeatureReferences, CreateCommercialFeature, PublishCommercialFeature, StopSell,
         PlanSunset, CompleteMigration, ReferenceImpact, Retire, GivesUp
<1>2. /\ \E found \in {"none", "validated", "unreferenced"} : call' = [call EXCEPT ![f] = found]
      /\ module' = module /\ verified' = verified /\ plan' = plan /\ offer' = offer /\ tx' = tx
      /\ subscribed' = subscribed
  BY <1>1 DEF FeatureMoves, Finds, moduleVars, planVars
<1>3. /\ call' \in [Feature -> {"none", "validated", "unreferenced"}]
      /\ subscribed' \in DOMAIN offer \cup {0}
  BY <1>2 DEF PlanInv, PlanTypes, OfferRows
<1> QED BY <1>2, <1>3, Beside

-----------------------------------------------------------------------------
(* Plan versions                                                           *)

(* A plan command that has read and decided. *)
LEMMA Decided ==
  ASSUME PlanInv, NEW o, NEW n \in Nat \ {0}, NEW v \in VersionRow, mutate(o, n, v), Saves(n, v)
  PROVE  PlanInv'
<1>1. PICK w \in VersionRow :
        /\ w = [v EXCEPT !.planRevision = plan.revision + 1]
        /\ w.planRevision = plan.revision + 1 /\ w.state = v.state /\ w.terms = v.terms
  <2>1. plan.revision + 1 \in Nat
    BY DEF PlanInv, PlanTypes
  <2>2. /\ [v EXCEPT !.planRevision = plan.revision + 1] \in VersionRow
        /\ [v EXCEPT !.planRevision = plan.revision + 1].planRevision = plan.revision + 1
        /\ [v EXCEPT !.planRevision = plan.revision + 1].state = v.state
        /\ [v EXCEPT !.planRevision = plan.revision + 1].terms = v.terms
    BY <2>1 DEF VersionRow
  <2> QED BY <2>2
<1>2. /\ tx' = [number |-> n, version |-> w] /\ module' = module /\ verified' = verified
      /\ call' = call /\ plan' = plan /\ offer' = offer /\ subscribed' = subscribed
  BY <1>1 DEF mutate, moduleVars, featureVars
<1>3. PlanTypes' /\ OfferRows'
  BY <1>2 DEF PlanInv, PlanTypes, OfferRows, RevisionsDiffer, SellableVerified, OfferedModulesExist
<1>4. tx'.number = n /\ tx'.version = w
  BY <1>2
<1>5. Saves(n, w)'
  BY <1>1, <1>2 DEF Saves, ValidTerms, Sellable
<1>6. InFlight'
  BY <1>1, <1>2, <1>4, <1>5 DEF InFlight
<1> QED BY <1>3, <1>6 DEF PlanInv

(* The draft, the next version and the edits of a version. *)
LEMMA PlanCommandsKeep ==
  ASSUME PlanInv,
         \/ \E t \in Terms : CreatePlanDraft(t)
         \/ \E n \in DOMAIN offer, t \in Terms : UpdatePlanDraft(n, t)
         \/ \E n \in DOMAIN offer :
              CreatePlanVersion(n) \/ PublishPlanVersion(n) \/ RetirePlanVersion(n)
  PROVE  PlanInv'
<1>0. /\ plan.latest = Len(offer) /\ Len(offer) \in Nat /\ DOMAIN offer = 1 .. Len(offer)
      /\ \A n \in DOMAIN offer : n \in Nat \ {0} /\ offer[n] \in VersionRow
  BY DEF PlanInv, PlanTypes, OfferRows
<1>1. \A t \in Terms : Draft(t) \in VersionRow /\ Draft(t).state = "DRAFT" /\ Draft(t).terms = t
  BY DEF Draft, VersionRow
<1>2. \A n \in DOMAIN offer : /\ Edited(n) \in VersionRow
                              /\ Edited(n).state = offer[n].state /\ Edited(n).terms = offer[n].terms
  BY <1>0 DEF Edited, VersionRow
<1>3. ASSUME NEW t \in Terms, CreatePlanDraft(t)
      PROVE  PlanInv'
  <2>1. mutate("create", 1, Draft(t)) /\ ValidTerms(t) /\ Len(offer) = 0
    BY <1>0, <1>1, <1>3 DEF CreatePlanDraft, mutate
  <2>2. Saves(1, Draft(t))
    BY <1>1, <2>1 DEF Saves
  <2> QED BY <1>1, <2>1, <2>2, Decided
<1>4. ASSUME NEW n \in DOMAIN offer, CreatePlanVersion(n)
      PROVE  PlanInv'
  <2>1. offer[n].terms \in Terms
    BY <1>0 DEF VersionRow
  <2>2. mutate("clone", Len(offer) + 1, Draft(offer[n].terms)) /\ ValidTerms(offer[n].terms)
    BY <1>0, <1>1, <1>4, <2>1 DEF CreatePlanVersion, mutate
  <2>3. Saves(Len(offer) + 1, Draft(offer[n].terms))
    BY <1>1, <2>1, <2>2 DEF Saves
  <2>4. Len(offer) + 1 \in Nat \ {0}
    BY <1>0
  <2> QED BY <1>1, <2>1, <2>2, <2>3, <2>4, Decided
<1>5. ASSUME NEW n \in DOMAIN offer, NEW t \in Terms, UpdatePlanDraft(n, t)
      PROVE  PlanInv'
  <2> DEFINE v == [Edited(n) EXCEPT !.terms = t]
  <2>1. v \in VersionRow /\ v.state = offer[n].state /\ v.terms = t
    BY <1>2 DEF VersionRow
  <2>2. mutate("update", n, v) /\ offer[n].state = "DRAFT"
    BY <1>5 DEF UpdatePlanDraft
  <2> HIDE DEF v
  <2>3. Saves(n, v)
    BY <2>1, <2>2 DEF Saves, mutate
  <2> QED BY <1>0, <2>1, <2>2, <2>3, Decided
<1>6. ASSUME NEW n \in DOMAIN offer, PublishPlanVersion(n)
      PROVE  PlanInv'
  <2> DEFINE v == [Edited(n) EXCEPT !.state = "PUBLISHED"]
  <2>1. v \in VersionRow /\ v.state = "PUBLISHED"
    BY <1>2 DEF VersionRow
  <2>2. mutate("publish", n, v) /\ offer[n].state = "DRAFT"
    BY <1>6 DEF PublishPlanVersion
  <2> HIDE DEF v
  <2>3. Saves(n, v)
    BY <2>1, <2>2 DEF Saves, mutate
  <2> QED BY <1>0, <2>1, <2>2, <2>3, Decided
<1>7. ASSUME NEW n \in DOMAIN offer, RetirePlanVersion(n)
      PROVE  PlanInv'
  <2> DEFINE v == [Edited(n) EXCEPT !.state = "RETIRED"]
  <2>1. v \in VersionRow /\ v.state = "RETIRED" /\ v.terms = offer[n].terms
    BY <1>2 DEF VersionRow
  <2>2. mutate("retire", n, v) /\ offer[n].state = "PUBLISHED"
    BY <1>7 DEF RetirePlanVersion
  <2> HIDE DEF v
  <2>3. Saves(n, v)
    BY <2>1, <2>2 DEF Saves
  <2> QED BY <1>0, <2>1, <2>2, <2>3, Decided
<1> QED BY <1>3, <1>4, <1>5, <1>6, <1>7

(* What Save writes: one version, at its place or after the last. *)
LEMMA Saved ==
  ASSUME PlanInv, Save
  PROVE  /\ DOMAIN offer \subseteq DOMAIN offer' /\ tx.number \in DOMAIN offer'
         /\ offer'[tx.number] = tx.version
         /\ \A n \in DOMAIN offer' : n # tx.number => n \in DOMAIN offer /\ offer'[n] = offer[n]
         /\ offer' \in Seq(VersionRow) /\ plan'.latest = Len(offer')
         /\ plan' \in [revision : Nat, latest : Nat] /\ plan'.revision = plan.revision + 1
<1> DEFINE n == tx.number
           v == tx.version
<1>1. /\ n \in 1 .. Len(offer) + 1 /\ v \in VersionRow /\ offer \in Seq(VersionRow)
      /\ plan.latest = Len(offer) /\ plan.revision \in Nat /\ Len(offer) \in Nat
  BY DEF PlanInv, PlanTypes, InFlight, Save, Saves, OfferRows
<1>2. /\ offer' = IF n > Len(offer) THEN Append(offer, v) ELSE [offer EXCEPT ![n] = v]
      /\ plan' = [revision |-> plan.revision + 1, latest |-> Max({plan.latest, n})]
  BY DEF Save
<1> HIDE DEF n, v
<1>3. Max({plan.latest, n}) = IF n > Len(offer) THEN n ELSE Len(offer)
  BY <1>1, MaxOfTwo
<1>4. CASE n > Len(offer)
  <2>1. n = Len(offer) + 1 /\ offer' = Append(offer, v)
    BY <1>1, <1>2, <1>4
  <2> QED BY <1>1, <1>2, <1>3, <2>1 DEF n, v
<1>5. CASE n <= Len(offer)
  <2>1. n \in 1 .. Len(offer) /\ offer' = [offer EXCEPT ![n] = v]
    BY <1>1, <1>2, <1>5
  <2>2. offer' \in Seq(VersionRow) /\ Len(offer') = Len(offer) /\ DOMAIN offer' = DOMAIN offer
    BY <1>1, <2>1
  <2> QED BY <1>1, <1>2, <1>3, <1>5, <2>1, <2>2 DEF n, v
<1> QED BY <1>1, <1>4, <1>5

(* A plan command's commit. *)
LEMMA SaveKeeps ==
  ASSUME PlanInv, Save
  PROVE  PlanInv'
<1>1. /\ module' = module /\ verified' = verified /\ call' = call /\ subscribed' = subscribed
      /\ tx # NoTx /\ tx' = NoTx
  BY DEF Save, moduleVars, featureVars
<1>2. PlanTypes'
  BY <1>1, Saved DEF PlanInv, PlanTypes
<1>3. /\ tx.version.planRevision = plan.revision + 1 /\ plan.revision \in Nat
      /\ Saves(tx.number, tx.version)
  BY <1>1 DEF PlanInv, InFlight, PlanTypes
<1>4. RevisionsDiffer'
  <2>1. ASSUME NEW k \in DOMAIN offer', k # tx.number
        PROVE  offer'[k] = offer[k] /\ k \in DOMAIN offer /\ offer[k].planRevision \in 1 .. plan.revision
    BY <2>1, Saved DEF PlanInv, OfferRows, RevisionsDiffer
  <2>2. offer'[tx.number].planRevision = plan.revision + 1 /\ plan'.revision = plan.revision + 1
    BY <1>3, Saved
  <2> QED BY <1>3, <2>1, <2>2 DEF PlanInv, OfferRows, RevisionsDiffer
<1>5. OfferedModulesExist'
  <2>1. \A m \in tx.version.terms.modules : module[m].row = "live"
    BY <1>3 DEF Saves, ValidTerms, Sellable, PlanInv, OfferRows, OfferedModulesExist
  <2> QED BY <1>1, <2>1, Saved DEF PlanInv, OfferRows, OfferedModulesExist
<1>6. SellableVerified' /\ subscribed' \in DOMAIN offer' \cup {0}
  BY <1>1, Saved DEF PlanInv, OfferRows, SellableVerified
<1>7. OfferRows'
  BY <1>1, <1>4, <1>5, <1>6, Saved DEF PlanInv, OfferRows
<1> QED BY <1>1, <1>2, <1>7 DEF PlanInv, InFlight

(* A catalogue with its first modules on sale, and no plan yet. *)
LEMMA InitPlanInv == OfferInit => PlanInv
<1> SUFFICES ASSUME OfferInit PROVE PlanInv
  OBVIOUS
<1>1. /\ NoModule \in ModuleRow /\ NoModule.row = "none"
      /\ [NewModule({}) EXCEPT !.sales = "sellable"] \in ModuleRow
      /\ [NewModule({}) EXCEPT !.sales = "sellable"].version = 1
  BY DEF NoModule, NewModule, ModuleRow
<1>2. \A m \in Module : module[m] = IF m \in Listed THEN [NewModule({}) EXCEPT !.sales = "sellable"] ELSE NoModule
  BY DEF OfferInit
<1>3. PlanTypes
  <2>1. module \in [Module -> ModuleRow]
    BY <1>1 DEF OfferInit
  <2>2. /\ call \in [Feature -> {"none", "validated", "unreferenced"}]
        /\ plan \in [revision : Nat, latest : Nat] /\ offer \in Seq(VersionRow)
    BY DEF OfferInit
  <2> QED BY <2>1, <2>2 DEF PlanTypes
<1>4. SellableVerified
  BY <1>1, <1>2 DEF SellableVerified, OfferInit
<1>5. RevisionsDiffer /\ OfferedModulesExist /\ plan.latest = Len(offer) /\ subscribed = 0 /\ tx = NoTx
  BY DEF OfferInit, RevisionsDiffer, OfferedModulesExist
<1>6. OfferRows
  BY <1>3, <1>4, <1>5 DEF OfferRows, PlanTypes, ModuleRow
<1> QED BY <1>3, <1>5, <1>6 DEF PlanInv, InFlight

(* Every step keeps the invariant. *)
LEMMA NextPlanInv == PlanInv /\ [OfferNext]_offerVars => PlanInv'
<1> SUFFICES ASSUME PlanInv, [OfferNext]_offerVars PROVE PlanInv'
  OBVIOUS
<1>0. /\ call \in [Feature -> {"none", "validated", "unreferenced"}]
      /\ subscribed \in DOMAIN offer \cup {0}
  BY DEF PlanInv, PlanTypes, OfferRows
<1>1. CASE UNCHANGED offerVars
  BY <1>0, <1>1, Beside DEF offerVars, moduleVars, featureVars, planVars
<1>2. CASE Rollback
  <2>1. /\ tx' = NoTx /\ module' = module /\ verified' = verified /\ call' = call
        /\ plan' = plan /\ offer' = offer /\ subscribed' = subscribed
    BY <1>2 DEF Rollback, moduleVars, featureVars
  <2> QED BY <2>1 DEF PlanInv, PlanTypes, OfferRows, InFlight, RevisionsDiffer, SellableVerified,
                      OfferedModulesExist
<1>3. ASSUME NEW n \in DOMAIN offer, CheckPlanEligibility(n)
      PROVE  PlanInv'
  <2>1. /\ tx' = tx /\ module' = module /\ verified' = verified /\ call' = call
        /\ plan' = plan /\ offer' = offer /\ subscribed' = n
    BY <1>3 DEF CheckPlanEligibility, moduleVars, featureVars, planVars
  <2> QED BY <1>0, <2>1, Beside
<1>4. CASE \/ \E t \in Terms : CreatePlanDraft(t)
           \/ \E n \in DOMAIN offer, t \in Terms : UpdatePlanDraft(n, t)
           \/ \E n \in DOMAIN offer :
                CreatePlanVersion(n) \/ PublishPlanVersion(n) \/ RetirePlanVersion(n)
  BY <1>4, PlanCommandsKeep
<1>5. CASE Save
  BY <1>5, SaveKeeps
<1> QED BY <1>1, <1>2, <1>3, <1>4, <1>5, CatalogKeeps, FeaturesKeep DEF OfferNext

-----------------------------------------------------------------------------
(* The theorems                                                            *)

(* PlanInv holds of every behaviour. *)
LEMMA PlanKept == OfferSpec => []PlanInv
<1> QED BY InitPlanInv, NextPlanInv, PTL DEF OfferSpec

(* Whatever is sold was verified as it stands, a module that any plan      *)
(* version names is never deleted, and the revisions that the versions     *)
(* carry differ and stay behind the head, for any catalogue and any number *)
(* of versions (SetSalesStatus, Delete, LockCatalog, Get).                 *)
THEOREM OffersFit == OfferSpec => []OfferRows
<1>1. PlanInv => OfferRows
  BY DEF PlanInv
<1> QED BY <1>1, PlanKept, PTL

(* One step of the versions, as OfferMoves has it. *)
Moved(n) ==
  /\ offer[n].state = "DRAFT" /\ offer'[n].state = "PUBLISHED" => ValidTerms(offer'[n].terms)
  /\ offer[n].state # "DRAFT" /\ offer'[n] # offer[n] =>
       /\ offer'[n].terms = offer[n].terms
       /\ offer[n].state = "PUBLISHED" /\ offer'[n].state = "RETIRED"

(* Only Save moves a version, and to what the command in flight decided.   *)
LEMMA NextMoved ==
  ASSUME PlanInv, OfferNext, NEW n \in DOMAIN offer
  PROVE  Moved(n)
<1>1. CASE offer' = offer
  BY <1>1 DEF Moved
<1>2. CASE Save
  <2>1. tx # NoTx
    BY <1>2 DEF Save
  <2>2. CASE n = tx.number
    <3>1. offer'[n] = tx.version /\ Saves(n, tx.version) /\ n # Len(offer) + 1
      BY <1>2, <2>1, <2>2, Saved DEF PlanInv, InFlight, PlanTypes
    <3> QED BY <3>1 DEF Moved, Saves
  <2>3. CASE n # tx.number
    BY <1>2, <2>3, Saved DEF Moved
  <2> QED BY <2>2, <2>3
<1>3. ~Save => offer' = offer
  <2>1. ASSUME NEW m \in Module,
               \/ Create(m) \/ Update(m) \/ SetTechnical(m) \/ SetSalesStatus(m)
               \/ RecordRuntimeVerification(m) \/ Delete(m)
        PROVE  offer' = offer
    BY <2>1 DEF Create, Update, SetTechnical, Revised, SetSalesStatus, RecordRuntimeVerification,
                Delete, Changes, planVars
  <2>2. ASSUME NEW f \in Feature,
               \/ validateFeatureReferences(f) \/ CreateCommercialFeature(f)
               \/ PublishCommercialFeature(f) \/ StopSell(f) \/ PlanSunset(f)
               \/ CompleteMigration(f) \/ ReferenceImpact(f) \/ Retire(f) \/ GivesUp(f)
        PROVE  offer' = offer
    BY <2>2 DEF validateFeatureReferences, CreateCommercialFeature, PublishCommercialFeature, StopSell,
         PlanSunset, CompleteMigration, ReferenceImpact, Retire, GivesUp, FeatureMoves, Finds, planVars
  <2>3. ASSUME NEW k, NEW t,
               \/ CreatePlanDraft(t) \/ UpdatePlanDraft(k, t) \/ CreatePlanVersion(k)
               \/ PublishPlanVersion(k) \/ RetirePlanVersion(k) \/ CheckPlanEligibility(k) \/ Rollback
        PROVE  offer' = offer
    BY <2>3 DEF CreatePlanDraft, UpdatePlanDraft, CreatePlanVersion, PublishPlanVersion,
         RetirePlanVersion, CheckPlanEligibility, Rollback, mutate, planVars
  <2> QED BY <2>1, <2>2, <2>3 DEF OfferNext
<1> QED BY <1>1, <1>2, <1>3

(* A version is published only with terms that are valid at the commit,    *)
(* and what was published keeps its terms and is retired once, for any     *)
(* catalogue (ListPlanCatalogInScope under LockCatalog, Save).             *)
THEOREM PublishedAsValidated == OfferSpec => OfferMoves
<1>1. PlanInv /\ [OfferNext]_offerVars => [\A n \in DOMAIN offer : Moved(n)]_offerVars
  BY NextMoved
<1>2. [\A n \in DOMAIN offer : Moved(n)]_offerVars =>
      [\A n \in DOMAIN offer :
       /\ offer[n].state = "DRAFT" /\ offer'[n].state = "PUBLISHED" => ValidTerms(offer'[n].terms)
       /\ offer[n].state # "DRAFT" /\ offer'[n] # offer[n] =>
            /\ offer'[n].terms = offer[n].terms
            /\ offer[n].state = "PUBLISHED" /\ offer'[n].state = "RETIRED"]_offerVars
  BY DEF Moved
<1> QED BY <1>1, <1>2, PlanKept, PTL DEF OfferSpec, OfferMoves
=============================================================================
