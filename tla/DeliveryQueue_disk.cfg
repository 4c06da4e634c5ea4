SPECIFICATION Spec
CONSTANTS
  r1 = r1
  r2 = r2
  Ids <- MCTwo
  Recoverers = {r1}
  Backend = "disk"
  BestEffort = {}
  Reported = {}
  MaxRetries = 2
  Budget = 200
  SendTimes = {0}
  MaxCrashes = 1
  MaxFaults = 1
INVARIANTS
  TypeOK
  NothingLost
CHECK_DEADLOCK FALSE
