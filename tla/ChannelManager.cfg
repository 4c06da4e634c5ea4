SPECIFICATION FairSpec
CHECK_DEADLOCK FALSE
CONSTANTS
  MAX_RESTART_ATTEMPTS = 2
  MaxRequests = 4
INVARIANTS TypeOK OneRunPerAccount StoppedStaysStopped
PROPERTY Recovers
