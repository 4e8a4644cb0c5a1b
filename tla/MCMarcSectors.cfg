\* Two writers in any order of their statements, on two sectors without the
\* cache, or on one with the cache and a reader.
SPECIFICATION MCSpec
CONSTANTS
  Records = {0, 1, 2}
  SectorSize = 2
  Versions = {1, 2}
  Starts <- SomeStarts
  Puts <- SomePuts
  Writers = {w1, w2}
  Readers = {q}
INVARIANTS
  SectorSound
  CacheSound
PROPERTIES
  TableSessionsEnd
CHECK_DEADLOCK FALSE
