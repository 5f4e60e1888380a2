------------------------- MODULE MCSpendController -------------------------
(***************************************************************************)
(* An instance of SpendController for TLC.                                 *)
(***************************************************************************)
EXTENDS SpendController, TLC

MCCaps == {NoCap, 0, 3, 4}
MCTokens == {-1, 0, 1, 2}
KeySymmetry == Permutations(Key)
=============================================================================
