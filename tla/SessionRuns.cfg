SPECIFICATION FairSpec
CONSTANTS
  a1 = a1
  a2 = a2
  a3 = a3
  b1 = b1
  sessionA = sessionA
  sessionB = sessionB
  main = main
  nested = nested
  Tasks <- MCRuns
  SessionOf <- MCSessionOf
  GlobalOf <- MCGlobalOf
  Limits <- MCLimits
  MaxRestarts = 1
  NoRun = NoRun
  Outlasts = TRUE
INVARIANTS
  TypeOK
  OneRunPerGeneration
  BeginInOrder
PROPERTIES
  EveryRunEnds
CHECK_DEADLOCK FALSE
