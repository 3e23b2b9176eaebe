\* A job struct used for four jobs by three workers and three waiting threads;
\* three jobs to submit, or to wait inside of, with as many sleepers as JobsComplete
\* allows.
SPECIFICATION RuntimeSpec
CONSTANTS
  Waiters = {a1, a2, a3}
  Finishers = {w1, w2, w3}
  MaxJobs = 4
  Names = {j1, j2, j3}
  Cores = 2
  PoolTasks = 5
  Slots = 1
  Boots = 2
  ThreadsFail = TRUE
  Crew = 3
  Tickets = 3
  Blocked = 2
CHECK_DEADLOCK FALSE
INVARIANTS
  MemorySafe
  TasksApart
  NoStuckWait
PROPERTIES
  AcceptedRuns
  StopReturns
  JobsComplete
  NoEarlyReturn
  WaitReturns
