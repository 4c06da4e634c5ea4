SPECIFICATION Spec
CONSTANTS
  m1 = m1
  m2 = m2
  m3 = m3
  m4 = m4
  chatA = chatA
  chatB = chatB
  mixed = mixed
  Msgs <- MCMsgs
  RouteOf <- MCUnroutable
  Unroutable = mixed
  Settings <- MCAll
  MaxFailures = 1
  MaxClears = 1
  Foreign = TRUE
INVARIANTS
  RunOnce
PROPERTIES
  ServedInTurn
