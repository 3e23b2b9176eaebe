\* Two workers, one job: every accepted job and every continuation is finished.
CONSTANTS
  NWorkers = 2
  Tasks = {t1, t2, t3, t4, t5}
  Jobs = {j1}
  None = None
  DequeCapacity = 2
  RingCapacity = 2
  BatchSize = 3
  MaxCalls = 2
SPECIFICATION FairSpec
PROPERTIES
  JobCompletes
  
\* Workers spin when every job is done: the model has nothing left to do.
CHECK_DEADLOCK FALSE
