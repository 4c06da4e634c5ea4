-------------------------------- MODULE Cron_MC --------------------------------
(* A recurring job of the store and a one-shot job that is added later. *)
EXTENDS Cron

CONSTANTS daily, once
=============================================================================
