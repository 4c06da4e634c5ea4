-------------------------- MODULE CommandQueue_MC --------------------------
(* The command queue on two lanes: two calls compete for "main", one uses
   "cron" and shows that a reset and the waiter span lanes. *)
EXTENDS CommandQueue

CONSTANTS t1, t2, t4, main, cron

MCLanes  == {main, cron}
MCLaneOf == [t \in Tasks |-> IF t = t4 THEN cron ELSE main]
MCLimits == {0, 2}
=============================================================================
