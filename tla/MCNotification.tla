--------------------------- MODULE MCNotification ---------------------------
(* Instances of NotificationRouting for TLC. *)
EXTENDS NotificationRouting

CONSTANTS w1, w2, u1, u2, e1

MCWorker == {w1, w2}
MCUser == {u1, u2}
MCEvent == {e1}

(* One recipient, then another with the first as an extra one and on one   *)
(* channel only.                                                           *)
MCContents ==
  { [primary |-> u1, extra |-> {}, channels |-> {"in_app", "sms"}],
    [primary |-> u2, extra |-> {u1}, channels |-> {"in_app"}] }
MCBackoff == [attempt \in {1} |-> 1]
=============================================================================
