SPECIFICATION FairSpec
CONSTANTS
  r1 = r1
  r2 = r2
  Ids <- MCOne
  Recoverers = {r1, r2}
  Backend = "vault"
  BestEffort = {1}
  Reported = {1}
  MaxRetries = 3
  Budget = 60
  SendTimes = {0, 60}
  MaxCrashes = 1
  MaxFaults = 1
INVARIANTS
  GivesUpAfterRetries
PROPERTIES
  EntriesLeave
CHECK_DEADLOCK FALSE
