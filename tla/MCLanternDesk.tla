--------------------------- MODULE MCLanternDesk ---------------------------
(* Three requests for two model slots and one search worker, fetches every   *)
(* second tick.                                                             *)
EXTENDS LanternDesk

CONSTANTS r1, r2, r3
=============================================================================
