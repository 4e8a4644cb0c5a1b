\* The same task with one failing record and no reviewer at work.
SPECIFICATION Spec
CONSTANTS
  Records = {r1, r2}
  Versions = {1, 2}
  FlushInterval = 3
  AnalyticsInterval = 0
  MaxItems = 3
  MaxFaults = 1
INVARIANTS
  ReviewOutdated
CHECK_DEADLOCK FALSE
