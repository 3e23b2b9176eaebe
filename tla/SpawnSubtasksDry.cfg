\* The pool runs dry once in the middle of a batch.
CONSTANTS
  SizeMod = 64
  BatchSize = 3
  DefaultChunk = 2
  MaxIndex = 7
  MaxChunk = 4
  MaxDry = 1
SPECIFICATION Spec
INVARIANT Covered
\* The behaviour ends when the call and its children are finished.
CHECK_DEADLOCK FALSE
