\* Requests, socket and view of one tab.
SPECIFICATION Spec
CONSTANTS
  MaxEvents = 1
  MaxPending = 2
  Sockets = {s1, s2, s3}
  MaxCuts = 3
  MaxMounts = 3
  MaxLosses = 2
  MaxCommits = 1
  MaxRevokes = 1
INVARIANTS
  OneConnection
  CacheFollows
PROPERTIES
  RenewableStays
  FailureNoticed
  RefreshEnds
  ConnectionReturns
  BannerClears
CHECK_DEADLOCK FALSE
