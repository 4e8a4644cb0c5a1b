\* Two tasks of any types, one of them revocable, one crash or lost message.
SPECIFICATION FairSpec
CONSTANTS
  Tasks = {t1, t2}
  Revocable = {t1}
  MaxFaults = 1
INVARIANTS
  TypeOK
  OneSyncAtATime
  LockHasUser
  StartedIsRunning
PROPERTIES
  FinalChangesOnlyByRevoke
  TaskProgresses
  RevokeStops
CHECK_DEADLOCK FALSE
