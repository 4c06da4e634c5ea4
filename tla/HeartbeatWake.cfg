SPECIFICATION FairSpec
CHECK_DEADLOCK FALSE
CONSTANTS
  main = main  other = other
  Targets = {main, other}
  Priorities <- MCPriorities
  DEFAULT_COALESCE = 1
  DEFAULT_RETRY = 2
  MaxRequests = 2
  MaxRegistrations = 2
INVARIANTS TypeOK NothingLost
PROPERTIES CooldownKept WakeHandedOver
