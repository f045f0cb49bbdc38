---------------------------- MODULE MCAlertStream ----------------------------
(* Instances of AlertStream for TLC. *)
EXTENDS AlertStream

CONSTANTS c1, c2, a1, a2, a3

\* Price 2 reaches a1 and a3, price 1 reaches a2 and a3; a3 is on another contract in
\* the instances with two.
OnOne == [a \in Alerts |-> c1]
OnTwo == [a \in Alerts |-> IF a = a3 THEN c2 ELSE c1]
Directions == [a \in Alerts |-> IF a = a2 THEN "below" ELSE "above"]
Thresholds == [a \in Alerts |-> IF a = a1 THEN 2 ELSE 1]
=============================================================================
