\* All ranges of up to seven elements, batches of three, chunks of up to four,
\* a pool that may run dry twice and a deque that may reject at any point.
CONSTANTS
  SizeMod = 64
  BatchSize = 3
  DefaultChunk = 2
  MaxIndex = 7
  MaxChunk = 4
  MaxDry = 2
SPECIFICATION Spec
INVARIANTS
  NothingTwice
  LocksMatchChildren
  CoveredUnlessDry
\* The behaviour ends when the call and its children are finished.
CHECK_DEADLOCK FALSE
