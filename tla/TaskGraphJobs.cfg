\* One worker and three jobs on a ring and a deque of two entries:
\* submissions are rejected, repeated and interleaved with running jobs.
CONSTANTS
  NWorkers = 1
  Tasks = {t1, t2, t3, t4, t5, t6}
  Jobs = {j1, j2, j3}
  None = None
  DequeCapacity = 2
  RingCapacity = 2
  BatchSize = 3
  MaxCalls = 1
SPECIFICATION Spec
SYMMETRY TaskSymmetry
INVARIANTS
  NothingStuck
\* Workers spin when every job is done: the model has nothing left to do.
CHECK_DEADLOCK FALSE
