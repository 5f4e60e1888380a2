-------------------------- MODULE MCLoadGenerator --------------------------
(***************************************************************************)
(* Instances of LoadGenerator for TLC.                                     *)
(***************************************************************************)
EXTENDS LoadGenerator, TLC

\* Workers are interchangeable: sound for the runs without liveness.
WorkerSymmetry == Permutations(Workers)
=============================================================================
