\* Any chunk size up to the largest size_t, a pool that never runs dry.
CONSTANTS
  SizeMod = 16
  BatchSize = 3
  DefaultChunk = 2
  MaxIndex = 7
  MaxChunk = 15
  MaxDry = 0
SPECIFICATION Spec
INVARIANT Covered
\* The behaviour ends when the call and its children are finished.
CHECK_DEADLOCK FALSE
