--------------------------- MODULE ChannelManager_MC ---------------------------
(* One account of each kind in turn, restarted once or twice. *)
EXTENDS ChannelManager
=============================================================================
