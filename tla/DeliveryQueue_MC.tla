-------------------------- MODULE DeliveryQueue_MC --------------------------
(* Two deliveries, one or two recoveries, a crash and a fault of the store. *)
EXTENDS DeliveryQueue

CONSTANTS r1, r2

MCOne  == {1}
MCTwo  == {1, 2}
=============================================================================
