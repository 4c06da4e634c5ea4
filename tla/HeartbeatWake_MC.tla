--------------------------- MODULE HeartbeatWake_MC ---------------------------
(* Two targets, and requests of the interval and of an action. *)
EXTENDS HeartbeatWake

CONSTANTS main, other
MCPriorities == {1, 3}
=============================================================================
