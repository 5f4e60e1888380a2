----------------------------- MODULE MCFaultLog -----------------------------
(* A call of a session's turn, one of another session's and one without the *)
(* header, against a fresh or a used log.                                   *)
EXTENDS FaultLog

CONSTANTS c1, c2, c3, s1, s2

MCSessionOf == [c \in Calls |-> CASE c = c3 -> NoHeader [] c = c2 -> OtherRun [] OTHER -> s1]
=============================================================================
