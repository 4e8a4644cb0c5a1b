\* No faults at all: a body outlives the TTL of its lock and another begins.
SPECIFICATION Spec
CONSTANTS
  Procs = {p1, p2}
  Names = {sync}
  Timeout = 3
  BlockingTimeout = 2
  MaxFaults = 0
  Nobody = Nobody
  Dead = Dead
INVARIANTS
  BodiesExclude
