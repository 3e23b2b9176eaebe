\* Three workers, one job, batches of up to three children on deques of two.
CONSTANTS
  NWorkers = 3
  Tasks = {t1, t2, t3, t4, t5}
  Jobs = {j1}
  None = None
  DequeCapacity = 2
  RingCapacity = 2
  BatchSize = 3
  MaxCalls = 4
SPECIFICATION Spec
SYMMETRY TaskSymmetry
INVARIANTS
  TypeOK
  DepsExact
  OneHolder
  ParentLive
  Callable
  NoEarlyCompletion
  NothingStuck
PROPERTIES
  ContinuationLast
  ImplementsForkJoin
\* Workers spin when every job is done: the model has nothing left to do.
CHECK_DEADLOCK FALSE
