\* The deque rejects children; the pool never runs dry.
CONSTANTS
  SizeMod = 64
  BatchSize = 3
  DefaultChunk = 2
  MaxIndex = 7
  MaxChunk = 4
  MaxDry = 0
SPECIFICATION Spec
INVARIANT ContinuationKept
\* The behaviour ends when the call and its children are finished.
CHECK_DEADLOCK FALSE
