---------------------------- MODULE MCCappedRun ----------------------------
(***************************************************************************)
(* An instance of CappedRun for TLC.                                       *)
(***************************************************************************)
EXTENDS CappedRun, TLC

MCTokens == {1}
MCCaps == {0, 2, 4, 7}
WorkerSymmetry == Permutations(Workers)
=============================================================================
