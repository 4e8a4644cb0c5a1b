\* Two syncs of one base: the second is refused the lock.
SPECIFICATION Spec
CONSTANTS
  Tasks = {t1, t2}
  Revocable = {}
  MaxFaults = 0
INVARIANTS
  SuccessMeansRan
CHECK_DEADLOCK FALSE
