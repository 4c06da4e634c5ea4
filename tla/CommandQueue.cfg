SPECIFICATION FairSpec
CONSTANTS
  t1 = t1
  t2 = t2
  t4 = t4
  main = main
  cron = cron
  Tasks = {t1, t2, t4}
  Lanes <- MCLanes
  LaneOf <- MCLaneOf
  Limits <- MCLimits
  MaxGeneration = 2
INVARIANTS
  TypeOK
  LanesAreExact
  WorkConserving
  DrainedMeansOver
PROPERTIES
  ContractSpec
  EventuallyServed
