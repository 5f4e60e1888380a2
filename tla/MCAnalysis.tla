----------------------------- MODULE MCAnalysis -----------------------------
(* Curves of up to four levels on either side of the doubling threshold and *)
(* of its band, with levels of too few successes.                           *)
EXTENDS Analysis

MCObservations == {[successful |-> 1, p95 |-> 30]} \cup [successful : {2}, p95 : {10, 18, 22, 30}]
MCSlo == [p95 |-> 20, resolution |-> 60, cost |-> 2]
=============================================================================
