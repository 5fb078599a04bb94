----------------------------- MODULE MCResultBus -----------------------------
(* Instances of ResultBus for TLC. *)
EXTENDS ResultBus, TLC

CONSTANTS p1, p2, s1, j1

\* Everybody asks for the same job.
SharedJob == [x \in Posts \cup Readers |-> j1]
=============================================================================
