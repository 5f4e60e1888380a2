------------------------------ MODULE MCCliRun ------------------------------
(* Two invocations within one second: plain, calibrated and judged, with a  *)
(* cap of zero, with a cap, and two that must be rejected.                   *)
EXTENDS CliRun, TLC

Option(cap, priced, rated, judge, faultLog, old) ==
  [cap |-> cap, priced |-> priced, rated |-> rated, judge |-> judge,
   faultLog |-> faultLog, old |-> old]

MCOptions ==
  {Option(NoCap, TRUE, TRUE, TRUE, TRUE, TRUE),
   Option(0, TRUE, TRUE, FALSE, FALSE, FALSE),
   Option(1, TRUE, TRUE, FALSE, FALSE, FALSE),
   Option(1, FALSE, TRUE, FALSE, FALSE, FALSE),
   Option(1, TRUE, FALSE, TRUE, FALSE, FALSE)}

Invocations == Permutations(Runs)
=============================================================================
