SPECIFICATION FairRestartSpec
CONSTANTS
  m1 = m1
  Msgs <- MCMsgs
  Delays <- MCDelays
  Cooldown = 1
  MaxWait = 1
  Respawns <- MCBoth
  External = TRUE
  MaxDeferrals = 2
  MaxReplies = 2
  MaxLate = 2
INVARIANTS
  RestartTypeOK
PROPERTIES
  IdleMeansIdle
  RestartComes
CHECK_DEADLOCK FALSE
