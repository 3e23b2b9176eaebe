\* A ring of two slots with two consumers; a pool of four tasks, caches of two
\* and three tags for two threads; sizes of eight bits; up to eight workers;
\* two blocks in 26 addresses.
SPECIFICATION StructuresSpec
CONSTANTS
  Consumers = {worker, thief}
  Capacity = 2
  MaxItems = 5
  Threads = {app, w1}
  PoolCapacity = 4
  CacheCapacity = 2
  EvictCount = 2
  TagMod = 3
  Width = 8
  MaxCores = 8
  MaxDraws = 100
  MaxAddress = 26
  PtrSize = 2
  Alignments = {4, 8}
  AllocSizes = {0, 5}
  MaxAllocs = 2
SYMMETRY ThreadSymmetry
CHECK_DEADLOCK FALSE
INVARIANTS
  OnePlace
  SeenIsCurrent
  HeldIsOldest
  RoundsUp
  EveryVictimDrawn
  HeaderSurvives
PROPERTIES
  NullOnlyWhenHoarded
  ImplementsPool
  RefusalsJustified
  ImplementsFifo
