-------------------------- MODULE GatewayRestart_MC --------------------------
(* One message with two replies and two callbacks that outlast it, two     *)
(* deferrals at once, and a cooldown as long as a delay.                   *)
EXTENDS GatewayRestart

CONSTANT m1

MCMsgs   == {m1}
MCDelays == {0, 1}
MCBoth   == {TRUE, FALSE}
=============================================================================
