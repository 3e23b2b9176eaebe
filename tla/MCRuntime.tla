------------------------------- MODULE MCRuntime -------------------------------
(***************************************************************************)
(* What threads do to each other around the execution of tasks: waiting    *)
(* for a job, waiting inside of jobs, and boot, submission and stop.  In   *)
(* every behaviour one of them runs and the variables of the others keep   *)
(* their initial values.                                                   *)
(***************************************************************************)
EXTENDS JobLatch, Integers

CONSTANTS
  Cores, Slots, PoolTasks, Boots, ThreadsFail,  \* of Lifecycle, where they
  Names,                                        \* have other names: jobs
  Crew, Tickets, Blocked      \* of BlockingWait: workers, jobs, waiting chunks

VARIABLES
  part,  \* what runs
  app, boots, allocated, free, appCache, ring, rr, flag, thread, hand, job,
  waits, jobRing, deque, todo, jobRr, pending

lifeVars  == <<app, boots, allocated, free, appCache, ring, rr, flag, thread, hand, job>>
blockVars == <<waits, jobRing, deque, todo, jobRr, pending>>

\* Jobs inside of which chunks wait.
B == INSTANCE BlockingWait
       WITH Count <- Crew, MaxJobs <- Tickets, MaxWaiting <- Blocked,
            ring <- jobRing, rr <- jobRr

\* Threads that cannot be created, submissions refused by the ring and by the
\* pool, jobs submitted again, one boot after another.
L == INSTANCE Lifecycle
       WITH Count <- Cores, Capacity <- PoolTasks, RingCapacity <- Slots,
            Jobs <- Names, MaxBoots <- Boots

ASSUME RuntimeAssumption == B!BlockingAssumption /\ L!LifecycleAssumption

\* Bound: there is no further boot with tasks in the cache of the application
\* thread, which are tasks of an array that was freed (LifecycleStaleCache).
LifeBoot == L!Boot /\ (boots' # boots => appCache = <<>>)

LifeNext == L!Next /\ (boots' # boots => appCache = <<>>)

RuntimeInit ==
  /\ part \in {"latch", "blocking", "life"}
  /\ Init /\ L!Init /\ B!Init
  /\ part = "blocking" \/ waits = [c \in B!Chunks |-> 0]

RuntimeNext ==
  \/ /\ part = "latch" /\ Next
     /\ UNCHANGED <<part, lifeVars, blockVars>>
  \/ /\ part = "blocking" /\ B!Next
     /\ UNCHANGED <<part, vars, lifeVars>>
  \/ /\ part = "life" /\ LifeNext
     /\ UNCHANGED <<part, vars, blockVars>>

everything == <<part, vars, lifeVars, blockVars>>

\* Whoever the thief is, v is the victim.
StealFrom(v) ==
  \/ /\ part = "blocking" /\ v \in B!Workers /\ \E w \in B!Workers : B!Steal(w, v)
     /\ UNCHANGED lifeVars
  \/ /\ part = "life" /\ v \in L!Workers /\ \E w \in L!Workers : L!Steal(w, v)
     /\ UNCHANGED blockVars

\* The fairness of the parts, each as its module explains it.
RuntimeFairness ==
  /\ \A a \in Waiters : WF_vars(part = "latch" /\ Wait(a))
  /\ \A w \in Finishers : WF_vars(part = "latch" /\ Finish(w))
  /\ WF_blockVars(part = "blocking" /\ \E j \in B!Jobs : B!Submit(j))
  /\ \A w \in B!Workers : WF_blockVars(part = "blocking" /\ B!Work(w))
  /\ WF_lifeVars(part = "life" /\ LifeBoot) /\ WF_lifeVars(part = "life" /\ L!Stop)
  /\ \A w \in L!Workers : WF_lifeVars(part = "life" /\ L!Work(w))
  /\ \A v \in B!Workers \cup L!Workers : SF_<<lifeVars, blockVars>>(StealFrom(v))

RuntimeSpec == RuntimeInit /\ [][RuntimeNext]_everything /\ RuntimeFairness

-----------------------------------------------------------------------------
(* The properties of the parts, explained in their modules.                 *)

\* What a running worker may touch is allocated, and what it executes is of the
\* current boot (sk_scheduler.c:33, 62-63, 208-226, 380-405).
MemorySafe == L!TypeOK /\ L!MemorySafe /\ L!ExecutesCurrent

\* No task is given to two jobs, no job is lost or done twice
\* (sk_scheduler.c:262-283).
TasksApart == L!TasksApart /\ L!JobHeldOnce

\* No wait is stuck: who sleeps for a job will be woken, and waiting inside of
\* tasks leaves somebody who can go on (sk_scheduler.c:409-436).
NoStuckWait == NoLostWakeup /\ B!NeverStuck

\* Jobs that were accepted are executed unless stop is called, although a
\* thread is missing (sk_scheduler.c:221-224, 275-277).
AcceptedRuns == part = "life" => L!AcceptedRuns

\* scheduler_stop_workers returns (sk_scheduler.c:372-407).
StopReturns == part = "life" => L!StopReturns

\* Waiting inside of tasks does not stop the scheduler
\* (sk_scheduler.c:409-436).
JobsComplete == part = "blocking" => B!JobsComplete
=============================================================================
