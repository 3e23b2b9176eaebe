------------------------------ MODULE TaskGraph ------------------------------
(***************************************************************************)
(* The dependency protocol of the scheduler: how a worker runs a task, how *)
(* the task forks children, how the last decrement of a counter resumes a  *)
(* parent, and how the root task of a job reports the job as done          *)
(* (worker_main_loop, internal_macro_job_splitter,                         *)
(* scheduler_spawn_subtasks, scheduler_set_continuation,                   *)
(* scheduler_submit_job, hooked_job_finish_task).                          *)
(*                                                                         *)
(* One step is one access to a shared counter, queue or job word; what a   *)
(* worker does to a task it owns alone is folded into the neighbouring     *)
(* step.  The deques and rings are sets of tasks (ChaseLevDeque is their   *)
(* detailed model), the pool is the set `free`, and a task function is any *)
(* finite sequence of calls of the library: the splitter is one of them,   *)
(* and a task executed inline by its parent runs in the parent's frame,    *)
(* with the parent as tl_current_task.                                     *)
(***************************************************************************)
EXTENDS Integers, FiniteSets

CONSTANTS
  NWorkers,       \* global_worker_count; the workers are 0 .. NWorkers-1
  Tasks,          \* the elements of global_task_array
  Jobs,           \* sc_job structs of the application
  None,           \* the NULL pointer
  DequeCapacity,  \* capacity_mask + 1 of a Chase-Lev deque
  RingCapacity,   \* rb_capacity_mask + 1 of an injection ring
  BatchSize,      \* BATCH_SIZE
  MaxCalls        \* bound: library calls all task functions make in a behaviour

\* What task_fn can point to: the function of a task (the splitter included), a
\* continuation, and hooked_job_finish_task.
Fns == {"work", "cont", "hook"}

ASSUME TaskGraphAssumption ==
  /\ NWorkers \in Nat \ {0}
  /\ IsFiniteSet(Tasks)
  /\ None \notin Tasks \cup Fns
  /\ DequeCapacity \in Nat \ {0, 1}
  /\ RingCapacity \in Nat \ {0, 1}
  /\ BatchSize \in Nat \ {0}
  /\ MaxCalls \in Nat

Workers == 0 .. NWorkers - 1

VARIABLES
  free,       \* tasks in the pool (global list or some thread's cache)
  fn,         \* task_fn: what the task runs next, None once taken
  deps,       \* unfinished_dependencies
  parent,     \* parent_task
  jobOf,      \* history: the job a task works for (for the root: its payload)
  deque,      \* contents of the worker's Chase-Lev deque
  ring,       \* contents of the worker's injection ring
  rr,         \* rr_worker_index modulo the number of workers
  pc,         \* where the worker is in worker_main_loop
  cur,        \* tl_current_task, or `parent` while the worker climbs
  staged,     \* children counted in deps[cur] and not pushed yet
  bounced,    \* children the deque rejected, still counted in deps[cur]
  rejected,   \* rejected children being executed inline, no longer counted
  submitted,  \* jobs scheduler_submit_job accepted
  done,       \* jobs whose state is JOB_STATE_DONE
  calls       \* library calls the task functions may still make

vars == <<free, fn, deps, parent, jobOf, deque, ring, rr, pc, cur,
          staged, bounced, rejected, submitted, done, calls>>

taskFields == <<fn, deps, parent, jobOf>>
queues     == <<deque, ring, rr>>
hands      == <<staged, bounced, rejected>>
jobs       == <<submitted, done>>

PCs == {"idle", "run", "runUp", "hook", "hooked", "owned", "walk", "resume"}

Init ==
  /\ free = Tasks
  /\ fn = [t \in Tasks |-> None]
  /\ deps = [t \in Tasks |-> 0]
  /\ parent = [t \in Tasks |-> None]
  /\ jobOf = [t \in Tasks |-> None]
  /\ deque = [w \in Workers |-> {}]
  /\ ring = [w \in Workers |-> {}]
  /\ rr = 0
  /\ pc = [w \in Workers |-> "idle"]
  /\ cur = [w \in Workers |-> None]
  /\ staged = [w \in Workers |-> {}]
  /\ bounced = [w \in Workers |-> {}]
  /\ rejected = [w \in Workers |-> {}]
  /\ submitted = {}
  /\ done = {}
  /\ calls = MaxCalls

-----------------------------------------------------------------------------
(* The application thread: scheduler_submit_job.                            *)

\* Root and splitter task are acquired and linked, and the splitter is pushed
\* into the ring of the next worker in round-robin order.
SubmitAccepted(j, root, child) ==
  /\ j \notin submitted
  /\ {root, child} \subseteq free /\ root # child
  /\ Cardinality(ring[rr]) < RingCapacity
  /\ free' = free \ {root, child}
  /\ fn' = [fn EXCEPT ![root] = "hook", ![child] = "work"]
  /\ deps' = [deps EXCEPT ![root] = 1, ![child] = 1]
  /\ parent' = [parent EXCEPT ![root] = None, ![child] = root]
  /\ jobOf' = [jobOf EXCEPT ![root] = j, ![child] = j]
  /\ ring' = [ring EXCEPT ![rr] = @ \cup {child}]
  /\ rr' = (rr + 1) % NWorkers
  /\ submitted' = submitted \cup {j}
  /\ UNCHANGED <<deque, pc, cur, hands, done, calls>>

\* The ring is full: both tasks go back to the pool and the call returns
\* false; only the round-robin index has moved.
SubmitRejected(j) ==
  /\ j \notin submitted
  /\ \E root, child \in free : root # child
  /\ Cardinality(ring[rr]) >= RingCapacity
  /\ rr' = (rr + 1) % NWorkers
  /\ UNCHANGED <<free, taskFields, deque, ring, pc, cur, hands, jobs, calls>>

-----------------------------------------------------------------------------
(* Finding a task.                                                          *)

\* task_fn is read and cleared before the function is called.
Begin(w, t) ==
  /\ cur' = [cur EXCEPT ![w] = t]
  /\ pc' = [pc EXCEPT ![w] = "run"]
  /\ fn' = [fn EXCEPT ![t] = None]
  /\ UNCHANGED <<free, deps, parent, jobOf, rr, hands, jobs, calls>>

PopDeque(w, t) ==
  /\ pc[w] = "idle" /\ t \in deque[w]
  /\ deque' = [deque EXCEPT ![w] = @ \ {t}]
  /\ UNCHANGED ring
  /\ Begin(w, t)

PopRing(w, t) ==
  /\ pc[w] = "idle" /\ deque[w] = {} /\ t \in ring[w]
  /\ ring' = [ring EXCEPT ![w] = @ \ {t}]
  /\ UNCHANGED deque
  /\ Begin(w, t)

\* A lost race in the own ring or in the victim's deque makes the worker go
\* on to the next source, so neither has to be empty.
Steal(w, v, t) ==
  /\ pc[w] = "idle" /\ deque[w] = {} /\ v # w
  /\ \/ /\ t \in deque[v]
        /\ deque' = [deque EXCEPT ![v] = @ \ {t}]
        /\ UNCHANGED ring
     \/ /\ t \in ring[v]
        /\ ring' = [ring EXCEPT ![v] = @ \ {t}]
        /\ UNCHANGED deque
  /\ Begin(w, t)

-----------------------------------------------------------------------------
(* Inside a task function.                                                  *)

\* The worker executes code of a task function, outside any library call.
InFunction(w) ==
  /\ pc[w] \in {"run", "runUp"}
  /\ staged[w] = {} /\ bounced[w] = {}

\* scheduler_set_continuation
SetContinuation(w) ==
  /\ InFunction(w)
  /\ calls > 0
  /\ fn' = [fn EXCEPT ![cur[w]] = "cont"]
  /\ calls' = calls - 1
  /\ UNCHANGED <<free, deps, parent, jobOf, queues, pc, cur, hands, jobs>>

\* Faulty variant: the first child of a batch is not counted.
BatchLocksFaulty(K) == Cardinality(K) - 1
\* How many locks a batch of children puts on its parent.
BatchLocks(K) == Cardinality(K)

\* A batch K of children is acquired, its counters locked, and the parent's
\* counter raised by the size of the batch, before any child is visible.
Spawn(w, K) ==
  /\ InFunction(w)
  /\ calls > 0
  /\ K # {} /\ Cardinality(K) <= BatchSize
  /\ free' = free \ K
  /\ fn' = [t \in Tasks |-> IF t \in K THEN "work" ELSE fn[t]]
  /\ parent' = [t \in Tasks |-> IF t \in K THEN cur[w] ELSE parent[t]]
  /\ jobOf' = [t \in Tasks |-> IF t \in K THEN jobOf[cur[w]] ELSE jobOf[t]]
  /\ deps' = [t \in Tasks |-> IF t \in K THEN 1
                              ELSE IF t = cur[w] THEN deps[t] + BatchLocks(K)
                              ELSE deps[t]]
  /\ staged' = [staged EXCEPT ![w] = K]
  /\ calls' = calls - 1
  /\ UNCHANGED <<queues, pc, cur, bounced, rejected, jobs>>

\* One store of bottom publishes the part A of the batch that fits.
PushBatch(w, A) ==
  /\ staged[w] # {}
  /\ Cardinality(deque[w]) + Cardinality(A) <= DequeCapacity
  /\ A = staged[w] \/ Cardinality(deque[w]) + Cardinality(A) = DequeCapacity
  /\ deque' = [deque EXCEPT ![w] = @ \cup A]
  /\ bounced' = [bounced EXCEPT ![w] = staged[w] \ A]
  /\ staged' = [staged EXCEPT ![w] = {}]
  /\ UNCHANGED <<free, taskFields, ring, rr, pc, cur, rejected, jobs, calls>>

\* Faulty variant: the counter of the parent is not rolled back.
UnlockFaulty(K) == 0
\* How many locks rejected children take back from their parent.
Unlock(K) == Cardinality(K)

\* The rejected children leave the parent's counter; they are then executed
\* inline, in the frame of the parent.
Rollback(w) ==
  /\ bounced[w] # {}
  /\ deps' = [deps EXCEPT ![cur[w]] = @ - Unlock(bounced[w])]
  /\ rejected' = [rejected EXCEPT ![w] = @ \cup bounced[w]]
  /\ bounced' = [bounced EXCEPT ![w] = {}]
  /\ UNCHANGED <<free, fn, parent, jobOf, queues, pc, cur, staged, jobs, calls>>

ReleaseRejected(w, t) ==
  /\ InFunction(w)
  /\ t \in rejected[w]
  /\ free' = free \cup {t}
  /\ rejected' = [rejected EXCEPT ![w] = @ \ {t}]
  /\ UNCHANGED <<taskFields, queues, pc, cur, staged, bounced, jobs, calls>>

-----------------------------------------------------------------------------
(* After a task function: dropping the virtual lock and climbing the DAG.   *)

\* Faulty variant: the test is made on the value before the last child's.
LastOneFaulty(n) == n <= 2
\* fetch_sub returned n: was this the last unfinished dependency?
LastOne(n) == n = 1

\* fetch_sub on a counter; the worker that takes it from 1 to 0 owns the task
\* and goes on at `last`, any other worker goes back for another task.
Decrement(w, t, last) ==
  /\ deps' = [deps EXCEPT ![t] = @ - 1]
  /\ pc' = [pc EXCEPT ![w] = IF LastOne(deps[t]) THEN last ELSE "idle"]
  /\ cur' = [cur EXCEPT ![w] = IF LastOne(deps[t]) THEN t ELSE None]

Return(w) ==
  /\ \/ InFunction(w) /\ rejected[w] = {}
     \/ pc[w] = "hooked"
  /\ Decrement(w, cur[w], IF pc[w] = "run" THEN "owned" ELSE "resume")
  /\ UNCHANGED <<free, fn, parent, jobOf, queues, hands, jobs, calls>>

\* task_fn != NULL: a continuation is registered (or the hook of a root).
HasFunction(t) == fn[t] # None

\* All children finished while the function ran: its continuation runs now.
RunContinuation(w) ==
  /\ pc[w] = "owned" /\ HasFunction(cur[w])
  /\ fn' = [fn EXCEPT ![cur[w]] = None]
  /\ deps' = [deps EXCEPT ![cur[w]] = 1]
  /\ pc' = [pc EXCEPT ![w] = "run"]
  /\ UNCHANGED <<free, parent, jobOf, queues, cur, hands, jobs, calls>>

\* Nothing is left to run: the task is recycled and its parent is next.
Retire(w) ==
  LET p == parent[cur[w]] IN
  /\ pc[w] \in {"owned", "resume"} /\ ~HasFunction(cur[w])
  /\ free' = free \cup {cur[w]}
  /\ cur' = [cur EXCEPT ![w] = p]
  /\ pc' = [pc EXCEPT ![w] = IF p = None THEN "idle" ELSE "walk"]
  /\ UNCHANGED <<taskFields, queues, hands, jobs, calls>>

Climb(w) ==
  /\ pc[w] = "walk"
  /\ Decrement(w, cur[w], "resume")
  /\ UNCHANGED <<free, fn, parent, jobOf, queues, hands, jobs, calls>>

\* The continuation of a parent is pushed on the worker's own deque.
Requeue(w) ==
  /\ pc[w] = "resume" /\ HasFunction(cur[w])
  /\ parent[cur[w]] # None
  /\ Cardinality(deque[w]) < DequeCapacity
  /\ deps' = [deps EXCEPT ![cur[w]] = 1]
  /\ deque' = [deque EXCEPT ![w] = @ \cup {cur[w]}]
  /\ pc' = [pc EXCEPT ![w] = "idle"]
  /\ cur' = [cur EXCEPT ![w] = None]
  /\ UNCHANGED <<free, fn, parent, jobOf, ring, rr, hands, jobs, calls>>

\* A root is never pushed, and a full deque rejects the push: the continuation
\* of the parent runs inline.
RunInline(w) ==
  /\ pc[w] = "resume" /\ HasFunction(cur[w])
  /\ parent[cur[w]] = None \/ Cardinality(deque[w]) >= DequeCapacity
  /\ fn' = [fn EXCEPT ![cur[w]] = None]
  /\ deps' = [deps EXCEPT ![cur[w]] = 1]
  /\ pc' = [pc EXCEPT ![w] = IF fn[cur[w]] = "hook" THEN "hook" ELSE "runUp"]
  /\ UNCHANGED <<free, parent, jobOf, queues, cur, hands, jobs, calls>>

\* hooked_job_finish_task, the function of every root (the wake-up of a
\* sleeping application thread is not part of this module).
FinishJob(w) ==
  /\ pc[w] = "hook"
  /\ done' = done \cup {jobOf[cur[w]]}
  /\ pc' = [pc EXCEPT ![w] = "hooked"]
  /\ UNCHANGED <<free, taskFields, queues, cur, hands, submitted, calls>>

-----------------------------------------------------------------------------
Submit ==
  \/ \E j \in Jobs, root, child \in Tasks : SubmitAccepted(j, root, child)
  \/ \E j \in Jobs : SubmitRejected(j)

\* What a worker does on its own queues and tasks.
Work(w) ==
  \/ \E t \in Tasks : PopDeque(w, t) \/ PopRing(w, t) \/ ReleaseRejected(w, t)
  \/ SetContinuation(w)
  \/ \E K \in SUBSET free : Spawn(w, K)
  \/ \E A \in SUBSET staged[w] : PushBatch(w, A)
  \/ Rollback(w) \/ Return(w) \/ RunContinuation(w) \/ Retire(w)
  \/ Climb(w) \/ Requeue(w) \/ RunInline(w) \/ FinishJob(w)

Next ==
  \/ Submit
  \/ \E w \in Workers : Work(w)
  \/ \E w, v \in Workers, t \in Tasks : Steal(w, v, t)

\* Every worker thread keeps running; that a thief ever finds a victim with
\* work is not assumed.
Fairness == \A w \in Workers : WF_vars(Work(w))

Spec == Init /\ [][Next]_vars
FairSpec == Spec /\ Fairness

-----------------------------------------------------------------------------
(* Properties.                                                              *)

TypeOK ==
  /\ free \subseteq Tasks
  /\ fn \in [Tasks -> Fns \cup {None}]
  /\ deps \in [Tasks -> Nat]
  /\ parent \in [Tasks -> Tasks \cup {None}]
  /\ jobOf \in [Tasks -> Jobs \cup {None}]
  /\ deque \in [Workers -> SUBSET Tasks]
  /\ ring \in [Workers -> SUBSET Tasks]
  /\ rr \in Workers
  /\ pc \in [Workers -> PCs]
  /\ cur \in [Workers -> Tasks \cup {None}]
  /\ \A w \in Workers : pc[w] # "idle" => cur[w] \in Tasks
  /\ staged \in [Workers -> SUBSET Tasks]
  /\ bounced \in [Workers -> SUBSET Tasks]
  /\ rejected \in [Workers -> SUBSET Tasks]
  /\ submitted \subseteq Jobs
  /\ done \subseteq Jobs
  /\ calls \in 0 .. MaxCalls

Live == Tasks \ free

\* The worker is inside the function of cur[w], whose virtual lock it holds.
Running == {"run", "runUp", "hook", "hooked"}

\* The worker has cur[w] to itself, its counter is zero.
Owning == {"owned", "resume"}

\* Where a live task can be.  A task that is nowhere is suspended: it waits
\* for its children.
Held ==
  [deque    |-> deque,
   ring     |-> ring,
   staged   |-> staged,
   bounced  |-> bounced,
   rejected |-> rejected,
   running  |-> [w \in Workers |-> IF pc[w] \in Running THEN {cur[w]} ELSE {}],
   owned    |-> [w \in Workers |-> IF pc[w] \in Owning THEN {cur[w]} ELSE {}]]

Places == DOMAIN Held

\* A task has its virtual lock from its creation until its function returned.
VirtualLock(t) ==
  \E p \in Places \ {"owned"} : \E w \in Workers : t \in Held[p][w]

Children(t) == {c \in Live : parent[c] = t}

CountedChildren(t) == {c \in Children(t) : \A w \in Workers : c \notin rejected[w]}

Climbers(t) == {w \in Workers : pc[w] = "walk" /\ cur[w] = t}

\* unfinished_dependencies of a live task is exactly its own virtual lock, its
\* live children that were not rolled back, and the finished children whose
\* worker has not decremented the counter yet.  A counter off by one resumes
\* the parent too early or never (sk_worker.c:181, 215; sk_scheduler.c:338).
DepsExact ==
  \A t \in Live :
    deps[t] = (IF VirtualLock(t) THEN 1 ELSE 0)
              + Cardinality(CountedChildren(t)) + Cardinality(Climbers(t))

\* A task is held by at most one queue or worker, a suspended task has an
\* unfinished child that will resume it, and a task in the pool is held by
\* nobody: no task runs twice and none is recycled while in use
\* (sk_worker.c:211, 229, 262).
OneHolder ==
  \A t \in Tasks :
    LET holders == {h \in Places \X Workers : t \in Held[h[1]][h[2]]}
    IN  IF t \in free THEN holders = {} /\ Climbers(t) = {}
        ELSE \/ Cardinality(holders) = 1
             \/ holders = {} /\ Children(t) \cup Climbers(t) # {}

\* The parent pointer of a live task never dangles, and neither does the one
\* a climbing worker has taken from a recycled child (sk_worker.c:210, 261).
ParentLive ==
  /\ \A t \in Live : parent[t] # None => parent[t] \in Live
  /\ \A w \in Workers : pc[w] = "walk" => cur[w] \in Live

\* A task in a queue has a function: the worker that finds it calls the
\* function without a test, and takes it out of the task before the call
\* (sk_worker.c:174-178, 226-229).
Callable == \A w \in Workers : \A t \in deque[w] \cup ring[w] : fn[t] # None

\* When a job is reported done, its root is the only task of the job left:
\* "only when all tasks are complete will the job be marked as completed"
\* (the documentation of a job; sk_worker.c:278).
NoEarlyCompletion ==
  \A j \in done : \A t \in Live : jobOf[t] = j => parent[t] = None

\* When no worker has anything to do, every accepted job is done and every
\* task is back in the pool: no task is suspended for ever and none leaks,
\* whatever was rejected on the way (sk_scheduler.c:343-361).
NothingStuck ==
  (\A w \in Workers : pc[w] = "idle" /\ deque[w] = {} /\ ring[w] = {})
    => free = Tasks /\ done = submitted

\* A continuation starts only when no child of its task is left, not even a
\* rejected one ("after all child sub tasks finish", sk_scheduler.h:109).
ContinuationLast ==
  [][\A t \in Tasks : fn[t] = "cont" /\ fn'[t] = None => Children(t) = {}]_vars

\* Every accepted job completes, if task functions return and workers run.
JobCompletes == \A j \in Jobs : j \in submitted ~> j \in done


\* The job side of the scheduler is a fork-join: the live tasks below the root
\* are the work items, and the counters decide exactly when the last joined.
FJ == INSTANCE ForkJoin WITH
        Items  <- Tasks,
        status <- [j \in Jobs |-> IF j \in done THEN "done"
                                  ELSE IF j \in submitted THEN "running"
                                  ELSE "new"],
        work   <- [j \in Jobs |-> {t \in Live : jobOf[t] = j /\ parent[t] # None}]

\* Every step of the scheduler is a step of the fork-join or invisible in it.
ImplementsForkJoin == FJ!Spec
=============================================================================
