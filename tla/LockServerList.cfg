\* No faults at all: the list of held locks is wrong nevertheless.
SPECIFICATION Spec
CONSTANTS
  Procs = {p1, p2}
  Names = {sync}
  Timeout = 3
  BlockingTimeout = 2
  MaxFaults = 0
  Nobody = Nobody
  Dead = Dead
INVARIANTS
  HeldLockListed
