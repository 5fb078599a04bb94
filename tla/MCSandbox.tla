------------------------------ MODULE MCSandbox ------------------------------
(* Instances of Sandbox for TLC. *)
EXTENDS Sandbox, TLC

CONSTANTS e1, e2

\* A request of size zero, and one larger than the whole budget.
Mixed == [e \in Execs |-> IF e = e1 THEN 0 ELSE 5]
\* Two that run side by side.
Small == [e \in Execs |-> IF e = e1 THEN 0 ELSE 1]
\* In one instance the first execution's timeouts may come too soon.
AllSettings == {[need |-> Mixed, late |-> {e1}], [need |-> Small, late |-> {}]}
OneSetting == {[need |-> Mixed, late |-> {}]}
\* The small one writes what fits in its pipe, the large one blocks on it.
Outputs == [e \in Execs |-> IF e = e1 THEN 1 ELSE 2]
Chatty == [e \in Execs |-> 3]
=============================================================================
