\* Two records of two versions, a flush every third record, a rebuild every
\* second, one fault.
SPECIFICATION Spec
CONSTANTS
  Records = {r1, r2}
  Versions = {1, 2}
  FlushInterval = 3
  AnalyticsInterval = 2
  MaxItems = 4
  MaxFaults = 1
INVARIANTS
  TypeOK
  MetaHasBytes
  BytesHaveMeta
  ReviewsFollowBytes
  ProcessedIsFresh
  NothingDropped
CHECK_DEADLOCK FALSE
