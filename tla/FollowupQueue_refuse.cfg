SPECIFICATION FairSpec
CONSTANTS
  m1 = m1
  m2 = m2
  m3 = m3
  m4 = m4
  chatA = chatA
  chatB = chatB
  mixed = mixed
  Msgs <- MCMsgs
  RouteOf <- MCRoutes
  Unroutable = mixed
  Settings <- MCRefuse
  MaxFailures = 2
  MaxClears = 0
  Foreign = TRUE
INVARIANTS
  TypeOK
  NothingLost
  RoutesNotMixed
PROPERTIES
  DrainServes
