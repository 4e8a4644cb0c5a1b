\* One writer and one reader, no failure, no concurrent writers.
SPECIFICATION MCSpec
CONSTANTS
  Records = {0, 1, 2}
  SectorSize = 2
  Versions = {1, 2}
  Starts <- SomeStarts
  Puts <- SomePuts
  Writers = {w1}
  Readers = {q}
INVARIANTS
  CacheIsFresh
CHECK_DEADLOCK FALSE
