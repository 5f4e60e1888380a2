----------------------------- MODULE MCRunTurn -----------------------------
(* One request against a server that streams, refuses or asks to come back. *)
EXTENDS RunTurn

MCStatuses == {200, 401, 429}
=============================================================================
