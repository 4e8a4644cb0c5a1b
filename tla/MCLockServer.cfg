\* Two processes, one lock, every order of calls, failed renewals, releases and
\* sweeps, with up to two kills, in bodies shorter and longer than the TTL.
SPECIFICATION FairSpec
CONSTANTS
  Procs = {p1, p2}
  Names = {sync}
  Timeout = 4
  BlockingTimeout = 2
  MaxFaults = 2
  Nobody = Nobody
  Dead = Dead
INVARIANTS
  TypeOK
  LeaseOwnsKey
PROPERTIES
  OneInstance
  OnlyOwnerFrees
  DeadLockExpires
  CallAnswered
  StaleNameSwept
