------------------------------- MODULE Lifecycle -------------------------------
(***************************************************************************)
(* scheduler_boot and scheduler_stop_workers (sk_scheduler.c:172-228,      *)
(* 372-407) around the submission of jobs (240-290) and the loop of the    *)
(* workers (sk_worker.c:143-172), once or several times in one process.    *)
(*                                                                         *)
(* A job is its root task and one task in a ring; what the workers do with *)
(* it is the subject of TaskGraph.  Deques are left out: they are freed    *)
(* and searched with the rings.  The free list and the caches of the       *)
(* workers are one set, the cache of the application thread is its own.    *)
(***************************************************************************)
EXTENDS Integers, Sequences, FiniteSets, SequencesExt

CONSTANTS
  Count,         \* global_worker_count
  Capacity,      \* global_task_capacity
  RingCapacity,  \* rounded spsc_queue_size
  Jobs,          \* jobs of the application, each done at most once
  MaxBoots,      \* bound: calls of scheduler_boot
  ThreadsFail    \* whether pthread_create may fail

LifecycleAssumption ==
  /\ Count \in Nat \ {0} /\ Capacity \in Nat \ {0}
  /\ RingCapacity \in Nat \ {0} /\ MaxBoots \in Nat
  /\ ThreadsFail \in BOOLEAN

VARIABLES
  app,        \* where the application thread is in boot or stop, with its index
  boots,      \* calls of scheduler_boot, tells one task array from another
  allocated,  \* the memory blocks that are allocated
  free,       \* tasks the list and the workers' caches hold
  appCache,   \* task_cache of the application thread
  ring,       \* ring of each worker: [job, root, child]
  rr,         \* rr_worker_index, modulo the number of workers
  flag,       \* termination_flag
  thread,     \* where each worker thread is
  hand,       \* what a busy worker executes
  job         \* history: "new", "accepted", "done" or "dropped"

vars == <<app, boots, allocated, free, appCache, ring, rr, flag, thread, hand, job>>
memory == <<boots, allocated>>
queues == <<free, appCache, ring, rr, job>>

Workers == 1 .. Count
\* A task is a pointer into the array of one boot.
Tasks(boot) == {<<boot, i>> : i \in 1 .. Capacity}
\* The blocks: the task array, worker_pool and the ring buffer of each worker.
Buffer(w) == <<"buffer", w>>
Blocks == {<<"tasks">>, <<"pool">>} \cup {Buffer(w) : w \in Workers}
Nothing == [job |-> "none", root |-> <<0, 0>>, child |-> <<0, 0>>]

Init ==
  /\ app = [pc |-> "out", k |-> 1]
  /\ boots = 0 /\ allocated = {}
  /\ free = {} /\ appCache = <<>>
  /\ ring = [w \in Workers |-> <<>>]
  /\ rr = 0
  /\ flag = [w \in Workers |-> FALSE]
  /\ thread = [w \in Workers |-> "none"]
  /\ hand = [w \in Workers |-> Nothing]
  /\ job = [j \in Jobs |-> "new"]

Booted == <<"pool">> \in allocated

Goto(place) == app' = [pc |-> place, k |-> 1]

\* The next round of a loop over the workers; `after` follows the last one.
Round(after) ==
  app' = IF app.k = Count THEN [pc |-> after, k |-> 1] ELSE [app EXCEPT !.k = @ + 1]

-----------------------------------------------------------------------------
(* scheduler_boot                                                           *)

\* The task array and its free list.
BootTasks ==
  /\ app.pc = "out" /\ ~Booted /\ boots < MaxBoots
  /\ allocated' = allocated \cup {<<"tasks">>}
  /\ boots' = boots + 1
  /\ free' = Tasks(boots')
  /\ Goto("pool")
  /\ UNCHANGED <<appCache, ring, rr, flag, thread, hand, job>>

EmptyRings == [w \in Workers |-> <<>>]

\* allocate_worker_pool
BootPool ==
  /\ app.pc = "pool"
  /\ allocated' = Blocks
  /\ ring' = EmptyRings
  /\ flag' = [w \in Workers |-> FALSE]
  /\ Goto("create")
  /\ UNCHANGED <<boots, free, appCache, rr, thread, hand, job>>

\* pthread_create; a failure is printed and otherwise ignored.
BootThread ==
  /\ app.pc = "create"
  /\ \E result \in {"top"} \cup IF ThreadsFail THEN {"failed"} ELSE {} :
       thread' = [thread EXCEPT ![app.k] = result]
  /\ Round("out")
  /\ UNCHANGED <<memory, queues, flag, hand>>

-----------------------------------------------------------------------------
(* scheduler_submit_job                                                     *)

\* What memory_pool_acquire returns to the application thread: the youngest
\* task of its cache, otherwise a free one, whichever is first in the list;
\* the set is empty for NULL.
Acquire(p) ==
  IF p.cache # <<>>
  THEN {[task |-> Last(p.cache), cache |-> Front(p.cache), free |-> p.free]}
  ELSE {[task |-> t, cache |-> <<>>, free |-> p.free \ {t}] :
          t \in {u \in p.free : \A v \in p.free : u[2] <= v[2]}}

Pool == [cache |-> appCache, free |-> free]

Target == 1 + rr

\* With worker_pool NULL the call returns false at once.
Submittable(j) == app.pc = "out" /\ Booted /\ job[j] \in {"new", "dropped"}

HasSlot(r) == Len(r) < RingCapacity

\* Faulty variant: the root is released twice, the child not at all.
GiveBackFaulty(root, child) == child.cache \o <<root.task, root.task>>
\* The cache after both tasks were released.
GiveBack(root, child) == child.cache \o <<root.task, child.task>>

\* Root and splitter are acquired, one after the other, and the splitter goes
\* into the ring whose turn it is.  If the ring is full both go to the cache.
SubmitPush(j) ==
  /\ Submittable(j)
  /\ \E root \in Acquire(Pool) : \E child \in Acquire(root) :
       /\ free' = child.free
       /\ IF HasSlot(ring[Target])
          THEN /\ ring' = [ring EXCEPT ![Target] =
                    Append(@, [job |-> j, root |-> root.task, child |-> child.task])]
               /\ job' = [job EXCEPT ![j] = "accepted"]
               /\ appCache' = child.cache
          ELSE /\ appCache' = GiveBack(root, child)
               /\ UNCHANGED <<ring, job>>
  /\ rr' = (rr + 1) % Count
  /\ UNCHANGED <<app, memory, flag, thread, hand>>

\* No task is left for the splitter: the root goes to the cache.
SubmitDry(j) ==
  /\ Submittable(j)
  /\ \E root \in Acquire(Pool) :
       /\ Acquire(root) = {}
       /\ appCache' = Append(root.cache, root.task)
       /\ free' = root.free
  /\ UNCHANGED <<app, memory, ring, rr, flag, thread, hand, job>>

-----------------------------------------------------------------------------
(* worker_main_loop                                                         *)

WorkerTop(w) ==
  /\ thread[w] = "top"
  /\ thread' = [thread EXCEPT ![w] = IF flag[w] THEN "ended" ELSE "look"]
  /\ UNCHANGED <<app, memory, queues, flag, hand>>

\* Taking the oldest task out of the ring of v.
Take(w, v) ==
  /\ thread[w] = "look" /\ ring[v] # <<>>
  /\ ring' = [ring EXCEPT ![v] = Tail(@)]
  /\ hand' = [hand EXCEPT ![w] = Head(ring[v])]
  /\ thread' = [thread EXCEPT ![w] = "busy"]
  /\ UNCHANGED <<app, memory, free, appCache, rr, flag, job>>

TakeOwn(w) == Take(w, w)

\* Faulty variant: workers keep to their own rings.
MayStealFaulty(w, v) == FALSE
\* The own ring was empty; any other worker may be the victim.
MaySteal(w, v) == v # w /\ ring[w] = <<>>

Steal(w, v) == MaySteal(w, v) /\ Take(w, v)

\* Neither the own ring nor the victim's has a task.
FindNothing(w) ==
  /\ thread[w] = "look" /\ ring[w] = <<>>
  /\ Count = 1 \/ \E v \in Workers \ {w} : ring[v] = <<>>
  /\ thread' = [thread EXCEPT ![w] = "top"]
  /\ UNCHANGED <<app, memory, queues, flag, hand>>

\* The task runs, the job is done, its two tasks go back to the pool.
FinishJob(w) ==
  /\ thread[w] = "busy"
  /\ job' = [job EXCEPT ![hand[w].job] = "done"]
  /\ free' = free \cup {hand[w].root, hand[w].child}
  /\ hand' = [hand EXCEPT ![w] = Nothing]
  /\ thread' = [thread EXCEPT ![w] = "top"]
  /\ UNCHANGED <<app, memory, appCache, ring, rr, flag>>

-----------------------------------------------------------------------------
(* scheduler_stop_workers                                                   *)

StopCall ==
  /\ app.pc = "out" /\ Booted
  /\ Goto("flags")
  /\ UNCHANGED <<memory, queues, flag, thread, hand>>

\* Faulty variant: the last worker is forgotten.
FlaggedFaulty(k) == IF k = Count THEN flag ELSE [flag EXCEPT ![k] = TRUE]
Flagged(k) == [flag EXCEPT ![k] = TRUE]

StopFlag ==
  /\ app.pc = "flags"
  /\ flag' = Flagged(app.k)
  /\ Round("join")
  /\ UNCHANGED <<memory, queues, thread, hand>>

\* Faulty variant: threads are not waited for.
JoinableFaulty(w) == TRUE
\* pthread_join returns when the thread has ended.
Joinable(w) == thread[w] = "ended"

StopJoin ==
  /\ app.pc = "join" /\ Joinable(app.k)
  /\ Round("buffers")
  /\ UNCHANGED <<memory, queues, flag, thread, hand>>

\* Joining a thread that was never created is undefined: thread_handler was
\* never written.  The call returns an error, or the process ends here.
StopJoinFailed ==
  /\ app.pc = "join" /\ thread[app.k] = "failed"
  /\ Round("buffers") \/ Goto("crashed")
  /\ UNCHANGED <<memory, queues, flag, thread, hand>>

StopBuffers ==
  /\ app.pc = "buffers"
  /\ allocated' = allocated \ {Buffer(app.k)}
  /\ Round("tasks")
  /\ UNCHANGED <<boots, queues, flag, thread, hand>>

\* Tasks that are still queued or listed are gone; the cache of the calling
\* thread is not touched.
StopTasks ==
  /\ app.pc = "tasks"
  /\ allocated' = allocated \ {<<"tasks">>}
  /\ free' = {}
  /\ job' = [j \in Jobs |-> IF job[j] = "accepted" THEN "dropped" ELSE job[j]]
  /\ Goto("free")
  /\ UNCHANGED <<boots, appCache, ring, rr, flag, thread, hand>>

StopPool ==
  /\ app.pc = "free"
  /\ allocated' = allocated \ {<<"pool">>}
  /\ thread' = [w \in Workers |-> "none"]
  /\ Goto("out")
  /\ UNCHANGED <<boots, queues, flag, hand>>

-----------------------------------------------------------------------------
Boot == BootTasks \/ BootPool \/ BootThread

Submit == \E j \in Jobs : SubmitPush(j) \/ SubmitDry(j)

Stop == StopFlag \/ StopJoin \/ StopJoinFailed \/ StopBuffers \/ StopTasks \/ StopPool

Work(w) == WorkerTop(w) \/ TakeOwn(w) \/ FindNothing(w) \/ FinishJob(w)

Next ==
  \/ Boot \/ Submit \/ StopCall \/ Stop
  \/ \E w \in Workers : Work(w) \/ \E v \in Workers : Steal(w, v)

Spec == Init /\ [][Next]_vars

\* Threads keep running.  A worker that finds nothing draws another victim:
\* no other worker is missed for ever (VictimChoice!EveryVictimDrawn).
FairSpec ==
  /\ Spec
  /\ WF_vars(Boot) /\ WF_vars(Stop)
  /\ \A w \in Workers : WF_vars(Work(w))
  /\ \A w \in Workers, v \in Workers : SF_vars(Steal(w, v))

-----------------------------------------------------------------------------
(* Properties.                                                              *)

Alive(w) == thread[w] \in {"top", "look", "busy"}

TypeOK ==
  /\ app \in [pc : {"out", "pool", "create", "flags", "join", "buffers", "tasks",
                    "free", "crashed"}, k : Workers]
  /\ boots \in 0 .. MaxBoots /\ allocated \subseteq Blocks
  /\ free \subseteq Tasks(boots)
  /\ \A w \in Workers : Len(ring[w]) <= RingCapacity
  /\ rr \in 0 .. Count - 1
  /\ flag \in [Workers -> BOOLEAN]
  /\ thread \in [Workers -> {"none", "failed", "top", "look", "busy", "ended"}]
  /\ job \in [Jobs -> {"new", "accepted", "done", "dropped"}]

\* While a worker thread has not ended, everything it may touch is allocated
\* and initialised, the queues of its victims included: threads start after
\* the last allocation and memory is freed after the last join
\* (sk_scheduler.c:208-226, 380-405).
MemorySafe == (\E w \in Workers : Alive(w)) => allocated = Blocks

\* A worker executes only tasks of the array of the current boot
\* (sk_scheduler.c:33, 62-63, 399-402).
ExecutesCurrent ==
  \A w \in Workers : thread[w] = "busy" =>
    {hand[w].root, hand[w].child} \subseteq Tasks(boots)

\* Where a job has its tasks: at one of the places of a ring, or, as place 0, in
\* the hand of a busy worker.
Uses ==
  {u \in Workers \X (0 .. RingCapacity) :
     IF u[2] = 0 THEN thread[u[1]] = "busy" ELSE u[2] <= Len(ring[u[1]])}

Entry(u) == IF u[2] = 0 THEN hand[u[1]] ELSE ring[u[1]][u[2]]
TasksOf(u) == <<Entry(u).root, Entry(u).child>>
JobOf(u) == Entry(u).job

\* No task is given to two jobs at a time, or twice to one, whatever failed
\* submissions put into the cache of the application thread
\* (sk_scheduler.c:262-283).
TasksApart ==
  <<"tasks">> \in allocated /\ <<"pool">> \in allocated =>
    \A u \in Uses :
      /\ TasksOf(u)[1] # TasksOf(u)[2]
      /\ Range(TasksOf(u)) \cap (free \cup Range(appCache)) = {}
      /\ \A v \in Uses \ {u} : Range(TasksOf(u)) \cap Range(TasksOf(v)) = {}

\* An accepted job is queued or in a hand, and at one place only: no job gets
\* lost before stop drops it, none is executed twice or after it was refused,
\* and a job that was refused or dropped may be submitted again
\* (sk_scheduler.c:240-290, sk_worker.c:134-172).
JobHeldOnce ==
  <<"tasks">> \in allocated /\ <<"pool">> \in allocated =>
    /\ {j \in Jobs : job[j] = "accepted"} = {JobOf(u) : u \in Uses}
    /\ \A u, v \in Uses : JobOf(u) = JobOf(v) => u = v

\* A job that was accepted is executed unless stop was called, also when its
\* ring belongs to a worker whose thread could not be created, as long as one
\* could (sk_scheduler.c:221-224, 275-277).
AcceptedRuns ==
  \A j \in Jobs :
    job[j] = "accepted" /\ (\E w \in Workers : Alive(w))
      ~> job[j] = "done" \/ app.pc # "out"

\* A thread that is joined was told to stop, and its creation was tried: a join
\* waits for a worker that will see its flag, or fails (sk_scheduler.c:374-388).
JoinsTold == app.pc = "join" => \A w \in Workers : flag[w] /\ thread[w] # "none"

\* scheduler_stop_workers returns, unless it dies of a thread that was never
\* created: every worker sees its flag, with work in the queues or without.
StopReturns == app.pc = "flags" ~> app.pc \in {"out", "crashed"}
=============================================================================
