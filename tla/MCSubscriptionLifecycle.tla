---------------------- MODULE MCSubscriptionLifecycle ----------------------
(* Instances of SubscriptionLifecycle for TLC. *)
EXTENDS SubscriptionLifecycle, TLC

CONSTANTS c1, c2, w1, w2

MCChange == {c1, c2}
OneWorker == {w1}
TwoWorkers == {w1, w2}

Wish(action, at, fixed, prep) == [action |-> action, at |-> at, fixed |-> fixed, prep |-> prep]

(* Every action, at once or at a wished date (4), with and without         *)
(* preparation, to fixed and to unlimited plans.                           *)
AllInputs ==
  { Wish("INITIAL", 0, TRUE, FALSE), Wish("INITIAL", 0, TRUE, TRUE),
    Wish("UPGRADE", 0, FALSE, FALSE), Wish("UPGRADE", 0, TRUE, TRUE),
    Wish("UPGRADE", 4, TRUE, FALSE), Wish("DOWNGRADE", 0, TRUE, TRUE),
    Wish("DOWNGRADE", 0, FALSE, FALSE), Wish("RENEW", 0, TRUE, FALSE),
    Wish("RENEW", 0, TRUE, TRUE), Wish("RENEW", 4, TRUE, TRUE),
    Wish("STOP_RENEWAL", 0, TRUE, FALSE) }

(* Changes that take effect at their confirmation. *)
DirectInputs ==
  {i \in AllInputs : i.at = 0 /\ ~i.prep /\ i.action # "DOWNGRADE"} \cup {Wish("UPGRADE", 0, TRUE, FALSE)}

(* Changes that wait for a date, beside direct ones. *)
ScheduledInputs ==
  { Wish("UPGRADE", 3, TRUE, FALSE), Wish("DOWNGRADE", 0, TRUE, TRUE), Wish("RENEW", 0, TRUE, FALSE),
    Wish("STOP_RENEWAL", 0, TRUE, FALSE) }

ChangeSymmetry == Permutations(MCChange)
=============================================================================
