SPECIFICATION CronSpec
CONSTANTS
  daily = daily  once = once  NoJob = NoJob
  Jobs = {daily, once}
  OneShots = {once}
  DeleteAfterRun = {once}
  Stored = {daily}
  RetryTime = 1
  BackoffTime = 2
  STUCK_RUN_TIME = 0
  MaxTime = 2
  Ends = {"ok", "retry"}
  MaxEvents = 2
PROPERTY NothingSkipped
