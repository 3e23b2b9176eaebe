# Verification of the C job scheduler

TLA+ specifications, TLC model checks and TLAPS proofs for the lock-free
work-stealing job scheduler in `src/` (`src/src/sk_scheduler.c`,
`src/src/sk_worker.c`, `src/include/*.h`). Line numbers below refer to these
files; `src/release/sk_scheduler.h`, the header that applications include, is
their concatenation, line for line (`sk_worker.c` from 434 on, `sk_scheduler.c`
from 757 on). The source map refers to the separate files for actions and to the
header for the next-state relations.

## 1. Inventory

| Component | State | Operations | Where |
|---|---|---|---|
| Task dependency protocol | `sc_task` (function, counter, parent, range), `tl_current_task` | run a task, `scheduler_set_continuation`, spawn, drop the virtual lock, climb the DAG, finish a job | `sk_worker.c:130-333`, `sk_scheduler.c:291-370`, `sk_task.h` |
| Job splitter | `sc_job` payload and chunk size | halve a range, push or execute the right half | `sk_worker.c:287-333` |
| `scheduler_spawn_subtasks` | local batch, parent's counter | allocate, lock, push, roll back, execute inline | `sk_scheduler.c:291-366` |
| Work-stealing deque | `top`, `bottom`, `top_cache`, buffer | push, push_batch, pop (owner), steal (thief) | `sk_cl_deque.h` |
| Job submission | `sc_job`, `rr_worker_index` | init, submit, is_complete | `sk_scheduler.c:231-290` |
| Injection ring | `rb_head`, `rb_tail`, `rb_head_cache`, buffer | producer push, consumer pop | `sk_scheduler.c:152-166`, `sk_worker.c:44-63` |
| Task pool | tagged list head, `next_free_idx`, a cache per thread | acquire, release | `sk_scheduler.c:26-136` |
| Waiting for a job | `sc_job.state` | wait, finish, futex wait and wake | `sk_scheduler.c:409-436`, `sk_worker.c:272-284`, `sk_scheduler.h:20-61` |
| Boot and stop | `worker_pool`, `termination_flag`, threads | boot, stop | `sk_scheduler.c:172-228, 372-407`, `sk_worker.c:95-126` |
| Memory utilities | none | aligned allocation, rounding to a power of two | `sk_memory_utils.h` |
| Victim choice, pinning | random state of a worker | xorshift, choice of a victim, pinning | `sk_worker.c:34-40, 64-93, 157-160` |

How they interact. The application thread initialises a job and submits it: a
*root* task (the hook that marks the job done) and a *splitter* task are taken
from the pool, the root waits for the splitter, and the splitter goes into the
ring of one worker. A worker looks for a task in its own deque, its own ring,
and the deque and ring of one random victim. It takes the function out of the
task and calls it. Task functions call back into the library: they spawn
children (pushed on the worker's own deque, counted in the parent) and register
a continuation (the parent's new function). After the function has returned the
worker drops the task's virtual lock; whoever takes a counter from one to zero
owns the task: it runs the continuation, or recycles the task and decrements
the parent. The root is the last one; its function marks the job done and wakes
the application.

What is hard: every hand-over of a task between workers is one atomic
decrement; a task may be resumed, pushed, stolen, run and recycled by others the
moment it is visible; each queue and the pool may be full or empty at any point
of a call, and the remedy is always inline execution, in a frame that belongs to
somebody else; the deque works with a single fence and a cached index; job
structs and tasks are reused.

What makes each component correct:

* protocol: counters are exact, a task runs on one worker at a time, parents
  outlive children, continuations follow all children, jobs are done when and
  only when their tasks are, everything accepted completes;
* splitter and spawning: every element of the range is given to the function
  exactly once, whatever pool and deque do;
* deque: linearizable to a bounded double-ended queue;
* ring: linearizable to a bounded FIFO with one producer; pool: linearizable to
  a set of free tasks; latch: no lost wake-up and no access to a finished job;
  lifecycle: nothing runs after stop, nothing accepted is lost.

## 2. Plan

Order of work, the most important behaviour first. All of it is modelled and
checked; what is left is proofs.

1. `TaskGraph` with the abstract `ForkJoin`; proofs in `TaskGraphProofs` and
   `JobProofs`.
2. `ChaseLevDeque` with the abstract `AbstractDeque`; proofs in
   `ChaseLevDequeProofs`.
3. `JobSplitter`; proofs in `JobSplitterProofs`.
4. `SpawnSubtasks`; proofs in `SpawnSubtasksProofs`.
5. `TaskPool` with the abstract `AbstractPool`; proofs in `StructuresProofs`.
6. `SpmcRing` with the abstract `AbstractFifo`; proofs in `SpmcRingProofs`.
7. `JobLatch` and `BlockingWait`: waiting, outside and inside of a job; proofs
   in `RuntimeProofs`.
8. `Lifecycle`: boot, submit, stop, boot again; proofs in `RuntimeProofs`.
9. `Capacity`, `AlignedAlloc`, `VictimChoice`: pure functions; proofs in
   `StructuresProofs`.

How the modules fit together. `TaskGraph` takes pool, rings and deques as atomic
sets; `TaskPool`, `SpmcRing` and `ChaseLevDeque` show that each is linearizable
to such a thing. `JobLatch` takes from `TaskGraph` that an accepted job
finishes; `BlockingWait` and `Lifecycle` take from `JobLatch` that a wait
returns, and from `VictimChoice` that no victim is missed for ever.
`MCStructures` and `MCRuntime` put the modules of items 5 to 9 side by side for
TLC.

Every safety property of a passing run is proved but one half of
`EveryVictimDrawn` (see the end of section 5). Liveness stays with TLC.

## 3. Modules

### TaskGraph

A step is one access to a shared counter, queue or job word.

| TLA+ | code |
|---|---|
| `free` | pool and caches together |
| `fn`, `deps`, `parent` | `task_fn`, `unfinished_dependencies`, `parent_task` |
| `deque`, `ring`, `rr` | queues of a worker as sets, round-robin index |
| `pc[w]`, `cur[w]` | place in `worker_main_loop`, `tl_current_task` or the `parent` variable of the climb |
| `staged[w]`, `bounced[w]`, `rejected[w]` | the children of a batch: counted and not pushed; refused by the deque; rolled back and being executed inline |
| `jobOf` | history: the job of a task |
| `SubmitAccepted`, `SubmitRejected` | `scheduler_submit_job` |
| `PopDeque`, `PopRing`, `Steal` | 145-178, task_fn taken out |
| `SetContinuation`, `Spawn`, `PushBatch`, `Rollback`, `ReleaseRejected` | library calls of a task function; the splitter (301-324) spawns batches of one in the same way |
| `Return` | the `fetch_sub` after a function, at 181, 199 and 245 |
| `RunContinuation` | 192-197 |
| `Retire` | `memory_pool_release` at 211 and 262 |
| `Climb` | 215 |
| `Requeue`, `RunInline` | 229, 235-243 |
| `FinishJob` | the exchange in `hooked_job_finish_task` |

`pc` values: `run` a function called by the loop or by 197, `runUp` a
continuation called in the climb (239), `hook`/`hooked` the root's function
before and after the exchange, `owned`/`resume` the counter was just taken to
zero after a function of the loop / in the climb, `walk` about to decrement the
parent.

A task function is any finite sequence of library calls; `MaxCalls` bounds their
number in a behaviour. A task that is executed inline has no steps of its own:
its library calls are calls of the parent's frame, as in the code. What a task
function computes does not appear. The pool may be empty for a spawn at any
time: `Spawn` takes any non-empty set of free tasks.

`ForkJoin` states what this amounts to: a job is a set of work items that only
existing items enlarge, and it is done exactly after the last has joined.
`TaskGraph` implements it under the refinement mapping `FJ`.

### ChaseLevDeque

One step per access to `top`, `bottom` or a slot that another thread can see.
The owner's stores go through a FIFO store buffer (`stores`), its loads see its
own stores (`myBottom`, `mySlot`), the fence and the compare-and-swap wait for
the buffer to drain. This is the x86 memory model, the one of the documented
builds; weaker machines (the relaxed store of `bottom` at 109 and 130, for
instance) are not covered. Slots start with an arbitrary value, 0. `push` is
`push_batch` with one task: they differ only in the shape of the room test.
`AbstractDeque` is the bounded sequence; the mapping `AD` takes the tasks
between `top` and the end of the deque as the owner sees it, a pop keeping its
task until it has decided.

### JobSplitter

A frame is a range that a splitter task still has to handle. All frames form one
set, because who owns a frame does not matter for the ranges; allocation failure
and full deque lead to the same inline execution (`RunRight`). `ChunkSize` is the
rule of `scheduler_submit_job`.

### SpawnSubtasks

One call with its batches, in the code's order: acquire until the pool is empty,
raise the counter, push, roll back, execute the rejected children and the rest
inline. `size_t` has `SizeMod` values. Children run at any time after the push.
`cont` says whose continuation the parent's `task_fn` holds.

### TaskPool

One step per access to `global_pool_head` or a `next_free_idx`. `head` is the
packed word (`PackNext` is `pack_aba` with the next tag), `cache` the
thread-local `task_cache`, `seen`, `nextIdx`, `task` and `linked` the local
variables of a call. `Chain` is what a release returns: the upper part of the
cache and the released task, linked one by one (`ReleaseLink`) before the load
of the head. The compare-and-swaps are weak ones and may fail at any time.

The tag has three values. A thread that sleeps while the tag comes round would
be fooled, in the code after 2^32 operations; the model excludes it by
`TagStaysAhead`, a bound on how long a thread stays between load and
compare-and-swap, and the only assumption of the module on behaviours. Everything else an ABA
needs happens: three tags are enough for the head to carry the same index again
with another tag. `AbstractPool` is the pool with the whole release as one step.

### SpmcRing

`tail` and `slot` are written by the producer, `head` by compare-and-swap. A
consumer loads the head, loads the tail, reads the slot and exchanges the head
in four steps. Store order and load order are those of x86: the producer's
stores become visible in order, so a buffered store is a step that happens
later. `AbstractFifo` is a bounded queue.

### JobLatch

| TLA+ | code |
|---|---|
| `state` | `sc_job.state` |
| `waiter[a]` | place in `scheduler_wait_for_job`: `spin` 411-416, `load` 418/434, `cas` 421, `futex` 432, `asleep` in the kernel |
| `running`, `waking` | the worker that will call `hooked_job_finish_task`; workers between 278 and 282 |
| `StartJob` | `scheduler_init_job` and an accepted submit |

The struct is used again as soon as the job is done and nobody waits, which
says nothing about the worker that finished it. `FutexWait` compares and sleeps
in one step, as the kernel does; `SpuriousWakeup` also stands for the
`sched_yield` of the fallback, which never sleeps for long.

### BlockingWait

Jobs of two chunks, and any acyclic choice of which chunk waits for which job
(`NoCycle`).
A worker that waits has its chunks in `todo` and does nothing else; what lies in
its deque and ring has to be stolen. A chunk may also be stuck behind another
one that is executed inline by the same splitter. Only the application submits.
`NeverStuck` says that until all jobs are done one can be submitted, a worker can
finish a chunk, or one in its loop finds a task (`CanTake`, the guards of its own
queues and of stealing).

### Lifecycle

| TLA+ | code |
|---|---|
| `app` | place of the application thread in boot or stop, with the index of its loop |
| `allocated` | task array, `worker_pool`, ring buffers |
| `free`, `appCache` | free list and workers' caches; `task_cache` of the application thread |
| `ring`, `rr`, `flag` | rings, `rr_worker_index`, `termination_flag` |
| `thread`, `hand` | place of each worker in its loop, what it executes |
| `BootTasks`, `BootPool`, `BootThread` | 180-204, `allocate_worker_pool`, 214-226 |
| `SubmitPush`, `SubmitDry` | `scheduler_submit_job` with its two acquires, the push and what is given back |
| `StopFlag` ... `StopPool` | the loops of `scheduler_stop_workers` |

A job is one root and one queued task here. Tasks carry the number of the boot
that allocated them, so that a pointer into an old array is recognised. A thread
that could not be created (`failed`) is still joined: `StopJoinFailed` lets the
process die there, or go on, because the handle was never written.
`JobHeldOnce` relates the jobs to the rings and hands: what is there are the
accepted jobs, each at one place.

### Capacity, VictimChoice, AlignedAlloc

Words are sets of one bits. `Capacity` runs the smearing of `next_power_of_two`
step by step on a `size_t` of `Width` bits, for every input; the width is 2, 4,
8, 16, 32 or 64, because the shifts double up to its half. `VictimChoice` uses 32
bits and the constants of the code, with every number of workers up to eight.
`AlignedAlloc` has a memory of 26 addresses and pointers of two: `malloc` may
return any free, suitable address, and owners overwrite all they were given.

### MCStructures, MCRuntime

Both are sums: `part`, chosen initially, says which component runs; the others
keep the variables of one initial state. One run then checks what would be a run
for each component, with the component's own specification and properties, and
the state spaces add up instead of multiplying. A property of a component is
trivially true where another one runs. `MCRuntime` states the fairness of each
part for the behaviours in which it runs, and has one bound of its own: there is
no further boot while the cache of the application thread holds tasks of an array
that was freed (`LifeBoot`). What happens then is the subject of
`LifecycleStaleCache`. Three of its properties join several: `MemorySafe` (types,
what is allocated, and that a worker executes tasks of the current boot),
`TasksApart` (no task has two users, and no job two places) and `NoStuckWait`
(`NoLostWakeup` outside of jobs, `NeverStuck` inside).

## 4. Runs

| Run | Question | Bounds | Result |
|---|---|---|---|
| `TaskGraphSafety` | counters, holders, parents, completion, continuations, refinement | 3 workers, 5 tasks, 1 job, deque 2, batches of up to 3, 4 calls | holds, 57,679 states |
| `TaskGraphJobs` | several jobs, full ring, reuse of tasks | 1 worker, 6 tasks, 3 jobs, ring 2, deque 2, 1 call | holds, 4,807 states |
| `TaskGraphLive` | completion of jobs and continuations | 2 workers, 5 tasks, 1 job, 2 calls | holds, 137,161 states |
| `ChaseLevDeque` | linearizability, stale slots, cached top, fence | 2 thieves, 2 slots, 5 tasks | holds, 48,188 states |
| `JobSplitter` | exactly once, progress | payload up to 9, requested chunk 0 to 10, default 4 | holds, 2,936 states |
| `SpawnSubtasks` | exactly once unless the pool is empty, rollback | indices up to 7, chunks up to 4, batches of 3, pool empty up to twice | holds, 10,504 states |
| `SpawnSubtasksDry` | is everything executed, as `sk_scheduler.h:105` says? | pool empty once | violated |
| `SpawnSubtasksWide` | the same for every chunk size | 4-bit `size_t` | violated |
| `SpawnSubtasksContinuation` | does a continuation stay with its task, `sk_scheduler.h:109`? | full deque | violated |
| `Structures`, pool | no task lost or doubled, ABA, exhaustion, refinement | 2 threads, 4 tasks, caches of 2, batches of 2 + 1, 3 tags | holds, 452,628 states (threads symmetric) |
| `Structures`, ring | linearizability, stale slots, cached head, refusals | 2 consumers, 2 slots, 5 tasks | holds, 3,280 states |
| `Structures`, helpers | rounding; draws; alignment, header, free | all sizes of 8 bits; up to 8 workers, 100 draws each; 26 addresses, pointers of 2, alignments 4 and 8, sizes 0 and 5, 2 blocks | holds, 1,015 + 3,535 + 39,986 states |
| `Runtime`, latch | lost wake-ups, late wake-ups, reuse of the job | 3 waiting threads, 3 workers, 4 jobs | holds, 14,569 states |
| `Runtime`, blocking | waiting inside tasks | 3 workers, 3 jobs of 2 chunks, 2 waiting chunks | holds, 58,800 states |
| `Runtime`, life | failed submissions, threads that do not start, freeing, stopping, boot after stop | 2 workers, 5 tasks, ring 1, 3 jobs, 2 boots | holds, 50,130 states |
| `LifecycleStaleCache` | does stop clean up everything, `sk_scheduler.h:112`? | 1 worker, 6 tasks, ring 2, 3 jobs, 2 boots | violated |

Why the bounds are enough. Three workers are the smallest number with an owner,
a thief and a third party that finishes another child of the same parent. Five
tasks are a root, a splitter, and three descendants: a child with a child of its
own, or a batch larger than the deque, so that part of it is pushed and part is
rejected. Two slots in the deque make indices wrap twice with five tasks, and
allow a thief to sleep across a reuse of its slot. Capacities of the code are
powers of two, at least two (`next_power_of_two`). Payloads of up to nine and
chunks of one to nine give several levels of halving with aligned and unaligned
middles, and ranges the default chunk size does not divide. In the pool two
threads, four tasks and caches of two let one thread sleep with a head that the
other one takes, hands round and returns, let a release meet a changed head, and
let both exhaust the list; the safety of the tag does not depend on more threads,
because only one other has to rebuild the list. In the ring five tasks on two
slots wrap the indices twice under a sleeping consumer. Four jobs let a late
wake-up of one job meet waits for the next. The second boot finds the counters,
hands and flags the first one left, and jobs that a stop dropped are submitted
again; three jobs with rings of one and five tasks let a submission be refused by
the ring and, between its two acquires, by the pool. Tasks, jobs and
thieves are symmetric in the safety runs; the liveness runs use no symmetry.

`CHECK_DEADLOCK FALSE` is set where the modelled behaviour ends: in the code
workers go on spinning, which changes nothing. `NothingStuck` says what must
hold in such a state.

Fairness. `TaskGraphLive` assumes weak fairness of each worker's own work
(`Work(w)`: its own queues, the function it is in, its climb). Each worker is an
operating-system thread that never blocks, so this is what preemptive scheduling
gives; that task functions return is built into the bound on their calls. Steals
are not fair: a thief may always choose an empty victim. `JobSplitter` needs
that some worker goes on with some frame. `ChaseLevDeque` and `TaskPool` have no
fairness, nor has `SpmcRing`: they are checked for safety only (a lock-free
loop may lose every race). In `JobLatch` a waiting
thread runs unless it sleeps, a worker finishes the accepted job and wakes;
spurious wake-ups are possible and not relied on. `Lifecycle` and `BlockingWait`
also need strong fairness of steals: what is queued at a missing or sleeping
worker is found only by a thief that draws this victim while the task is there.
`VictimChoice` is the reason: xorshift is a permutation of the non-zero words, so
a worker that goes on searching comes back to its seed and draws every other
worker again and again. That a draw always meets the task on its own would need
an argument about time; strong fairness asks for it only if the task is there
again and again.

### Disagreements found

* `SpawnSubtasksDry`: `sk_scheduler.c:364` adds the number of chunks the pass
  wanted, not the number it allocated. If the pool runs dry in the middle of a
  batch and the deque takes what was allocated, the missing chunks are skipped.
* `SpawnSubtasksWide`: `sk_scheduler.c:297` overflows for very large chunk
  sizes and the call does nothing.
* `SpawnSubtasksContinuation`: inline children (334, 352, 359) share
  `tl_current_task` with their parent, and their continuation replaces the
  parent's. The recursive merge sort of the examples has this shape
  (`merge_sort_comparison_ex.c:86-91`): a half that the deque rejects is sorted
  inline, registers its merge at the parent and is never merged itself.
* `LifecycleStaleCache`: `scheduler_stop_workers` frees the task array and not
  the cache of the thread that calls it. Submissions that were refused leave
  tasks there (`sk_scheduler.c:262-283`); after the next boot the first
  submission takes one, a pointer into freed memory (62-64).

Two observations that no document contradicts. Jobs may block for ever if as
many chunks wait for other jobs inside their functions as there are workers:
`BlockingWait` needs one worker more (`NeverStuck` is proved for that case; with
`MaxWaiting = Count` TLC finds a state from which nobody goes on). And the
queues' capacity of a request above the largest power of two is 0 (`RoundsUp`),
which makes the mask all ones.

## 5. Proofs

All theorems hold for every value of the constants under the assumptions named
in the modules: `TaskGraphAssumption`, `SplitterAssumption`, `SpawnAssumption`,
`DequeAssumption`, `RingAssumption`, `LatchAssumption`, `StructuresAssumption`
and `RuntimeAssumption`. These say that capacities and bounds are natural numbers
(a deque has two slots at least, an eviction is not larger than a cache, there
are two tags, alignments are multiples of a pointer's size), that the pool has
finitely many threads, that the name for "nobody" is no worker's, that a `size_t`
has one of the six widths above, and that a worker which draws victims is one of
at most a thousand. Nothing else is assumed about the number of workers, thieves,
consumers, tasks or operations, but that `Lifecycle` has a worker, a task and a
slot, and `BlockingWait` a worker.
Two statements need more than their module's assumption; both are marked below
(`Fits`, `TagStaysAhead`).

Every safety property of these modules is inductive only together with others.
Each proof module states the invariant it needs as a conjunction of named parts,
proves it initially and for every action, and derives the properties.

### The task graph

`TaskGraphProofs` proves `TypeOK`, `DepsExact`, `OneHolder`, `ParentLive`,
`Callable` and `ContinuationLast` of `TaskGraph`. None of them is inductive. The
inductive invariant `IInv` says that there are functions `spot` and `at` that
give every task one kind of place and one worker, such that

* `Located`: queues, hands, running and owned tasks are what the functions say
  (that they are functions is what makes a task be in one place only);
* `Counted`: the counter of a live task is its lock, read off its spot, plus its
  counted children plus the workers climbing to it;
* `Waits`: a task in a queue or in hands has the counter 1, hence no children; an
  owned one 0; a suspended one more than 0, so somebody will resume it;
* `Handed`: children in hands belong to the function the worker is in;
* `Tree`: parents of live tasks and targets of climbers are live;
* `Works`: live tasks have a job, waiting tasks a function.

One lemma per action gives the new `spot` and `at` and shows the six parts; the
arithmetic is in `Counted`: a spawn adds the batch to the set of children
(`DisjointUnion`), a retirement turns a child into a climber, a climb removes a
climber, and so on. `Alone` is the key fact: counter 0, or 1 with the lock held,
means no children and no climbers, so recycling and resuming are safe.

`JobProofs` builds on `IInv` and proves `NoEarlyCompletion`, `NothingStuck` and
`ImplementsForkJoin`. Its invariant `JInv` adds two parts:

* `Families`: a task and its parent work for the same job, a job has one root,
  only submitted jobs are done, and some rank in `Nat` grows from every parent to
  its children;
* `RootsApart`: roots are never queued and never run anything but the hook, and
  the hook runs only while no task is left below its root.

The rank is what `NoEarlyCompletion` needs: that a root without children is the
last task of its job (`RootCovers`) follows by taking a task of the job that is
not a root and has the smallest rank; its parent is of the same job and neither
the root nor smaller. The rank exists because a task gets its parent once, when
it is created, and has no children then.

`NothingStuck` goes the other way. When all workers are idle and all queues
empty, `Located` leaves only suspended tasks, and by `Counted` a suspended task
whose lock is dropped and that nobody climbs to has a live child. If a task were
alive there would be a non-empty set of tasks each of which has a child in the
set; the smallest such set cannot lose the task of smallest rank, and has to
(`LastChild`). So nothing is alive, and `Unfinished` (the root of a job that is
not done still has its hook, or a worker is about to report) gives that no job is
left. That is why a wait returns once the workers have run out of work; that they
do is a liveness property and left to TLC.

With the rank every step is a step of
`ForkJoin` or invisible (`NextForks`): a submission, a batch, a retirement and a
finished job are the four visible ones.

`JobSplitterProofs` proves that every element belongs to exactly one frame until
it is executed once (`SplitterExactlyOnce`), and that a long frame is always
split into two non-empty parts (`SplitterSplitsInside`): rounding the middle up
never reaches the end of the range, the `break` at `sk_worker.c:299` is dead.

### The deque

`ChaseLevDequeProofs` proves `NoneLostNoneTwice`, `NullMeansEmpty` and
`ImplementsDeque`. `DequeInv` has five parts beside the types:

* `Order`: the cached top is never ahead of top, so the owner sees less room than
  there is; an owner that races for the last task has drained its stores;
* `Buffer`: what memory and the pending stores give together is what the owner
  reads, and pending slot stores concern tasks that are in the deque;
* `Visible`: no bottom that covers a slot becomes visible before the store to the
  slot;
* `Holders`: a thief past its look at bottom, whose top still is the top, has a
  task below it, no store to its slot is pending, and after its read it holds the
  task that stands there;
* `Tasks`: the positions from top to the end hold different tasks, and all other
  tasks were returned once.

`Visible` and `Holders` are what a single fence has to achieve. When `Fenced`
holds the buffer is empty, so every thief sees the lowered bottom or has looked before;
one that has looked before holds the task at top, and the owner takes that one
only by the same compare-and-swap. Indices less than a capacity apart are in
different slots (`SlotsApart`); full judged by a stale top is full all the more.

### Spawning

`SpawnSubtasksProofs` proves `LocksMatchChildren` for every range, chunk size and
batch size, indices that wrap included: two chunks of one call never begin at the
same index, so children can be counted by their ranges (`CallInv`).
`NothingTwice` and `CoveredUnlessDry` are proved under `Fits`: the end of the
range plus the chunk size is a `size_t`. The hypothesis is needed. Without it the
code does execute elements twice: with a 4-bit `size_t`, a call for the range
from 1 to 2 with chunks of 15 whose only child is rejected executes it, and then
`start_idx + chunks_processed * chunk_size` (356) wraps to 0, below the start of
the range. This is the overflow `SpawnSubtasksWide` shows, at another line; the
call in that run does nothing, the call here does too much. `FitInv` adds where
every element is: executed, queued, or still to come.

### The ring

`SpmcRingProofs` proves `HeldIsOldest`, `RefusalsJustified` and `ImplementsFifo`.
`RingInv` says which task is in which slot (`Filled`), what the producer may
conclude from its stale head (`Bounds`), and that what a consumer read is the
task at the head if the head has not moved (`Pops`): head only grows, so the
compare-and-swap on it cannot be fooled.

### The pool

`StructuresProofs` proves `OnePlace`, `SeenIsCurrent`, `NullOnlyWhenHoarded` and
`ImplementsPool`, with `TagStaysAhead` in the guard of a successful
compare-and-swap as the only thing assumed of behaviours. `PoolInv`:

* `Places`: functions `kind`, `owner` and `at` give every task one place; a task
  of the list is counted from the end, so that a compare-and-swap at the head
  moves no other task, and its link leads to the next lower number;
* `Calls`: what the local variables of a call are at each of its steps: a thread
  reads the list only with an empty cache, and evicts only from a full one;
* `Linked`: as far as a release has written its chain, the chain is a list, and
  after the last store it leads to the head the thread saw;
* `Current`: what acquire read is still the link of the head if the head, with its
  tag, is the same.

Links are written by releases only, into tasks of their own chain, which nobody
else can reach; a thread that sleeps with an outdated index may read them, and
what it reads is worth nothing because the tag has changed. `Walk` is a recursive
function; that it meets the tasks in order and ends (`WalkFacts`) follows from an
explicit solution of its defining equation and the least position where the two
would differ. `OnePlace` then is counting disjoint sets. For the refinement it
is enough to say what a step does to caches and callers: the list is what
remains (`Divided`).

### Waiting, boot and stop

`RuntimeProofs` proves `NoLostWakeup` and `NoEarlyReturn` for any number of
waiting threads and workers and any reuse of the job. What makes it inductive is
that state word, finishing worker and late wakers agree, in `TypeOK`, and that
somebody who waits or finishes witnesses that a job was started.

Waiting inside of jobs (`NeverStuck`, in `NoStuckWait`) is proved for any number
of workers, jobs and waiting chunks. `BlockInv` says that functions `place` and
`by` give every chunk one place and one worker: it is in a ring, with its
splitter, in a deque, in the hands of a worker, or out, and a submitted job
misses as many chunks as it has that are not out. Suppose nobody could go on.
All workers cannot wait: their first chunks are different ones (`AllWaiting`), and
there are fewer waiting chunks than workers. So somebody is in the loop and finds
all queues empty, and a chunk of the last job that is not done (`LastJob`) is in
the hands of a worker. He may have two chunks, but both of that job; it waits for
later jobs only, and those are done: he can finish the first.

`MemorySafe` and `TasksApart` are proved for any number of workers, tasks,
slots, jobs and boots, with or without threads that fail to start, under the
bound of `LifeBoot`; without it pointers into an array that was freed get into
the rings, as `LifecycleStaleCache` shows. The inductive invariant `LifeInv` has
four parts:

* `LifeTypes`: entries of rings and hands are pairs of tasks;
* `Phases`: the place of the application thread tells what is allocated and
  whether a worker may still run; in the loop of joins, that the workers before
  the index have ended;
* `PoolSound`: the cache of the application thread and the free list hold tasks
  of this boot, each once;
* `UsesSound`: the tasks in rings and hands are of this boot, and no two uses,
  nor a use and the pool, share one. It is suspended from the allocation of the
  array to that of the rings, when the freed rings still hold what the last stop
  dropped; no worker runs then (`Phases`).

A use is a place: one in a ring, or a hand. A worker that takes a task moves one
use and shifts the others of that ring (`TakenFront`), a submission begins one
with two tasks the pool held (`TaskToBack`, after two acquires, `AcquiredTwo`), a
finished job ends one (`UseEnded`); a refused submission returns both tasks to
the cache, which did not hold them (`ReturnedTwo`).

`JobInv` adds the jobs, for `JobHeldOnce`: once `worker_pool`
is allocated and until stop begins to free, the entries in rings and hands are those of the
accepted jobs, one for each, and otherwise no job is accepted; a thread that is
still to be created is not alive. Every step that moves, begins or ends a use
carries its job along. `JoinInv` is about the two loops of stop: `JoinsTold`, that
no thread is joined before all were told to terminate, and that none is joined
whose creation was never tried, also after a boot in which some failed. `JoinsTold`
is proved and not part of a run.

### Aligned memory, capacities and victims

`StructuresProofs` proves `HeaderSurvives` for every memory, alignment and
size: the header lies between the raw and the aligned address (`BlockFacts`,
which is where the room of `alignment - 1 + sizeof(void*)` is needed), an owner
writes behind its own header, and the blocks of `malloc` are disjoint.

`RoundsUp` is proved for every request and all six widths. A size above two,
decremented, lies between two powers of two, and the exponent `h` of the lower one
is its highest one bit (`HighestBit`). `CapacityInv` says that `h` stays the
highest bit of `x` and that after the shifts so far the bits from `h` down to the
present shift are ones (`TypeOK`). The last shift is half of the width, so in the
end they are ones down to 0, the value is 2^(h+1) - 1 (`OnesValue`, the one sum
over all bits), and adding one gives the power of two, or zero if `h` is the
top bit. `Pow` and the value of a word are recursive functions; that they satisfy
their equations is shown by giving a function that does (`TableExists`).

`GeneratorTheorem`: `xorshift32` maps no two words to the same and nothing but
zero to zero, because each of its three steps is undone bit by bit, from the side
the shift fills with zeros. Hence a generator that starts with a seed that is not
zero never stops, and `VictimTheorem` follows: `TypeOK` of `VictimChoice`, with a
remainder below the divisor and `PastSelf` stepping over the own number. This is
the first half of `EveryVictimDrawn`.

### What is only model-checked

* Liveness: `TaskGraphLive`, `JobSplitter`'s progress, and that of
  `Runtime` (`AcceptedRuns`, `StopReturns`, `JobsComplete`, `WaitReturns`); the prover has no rules for fairness.
* The second half of `EveryVictimDrawn`, that a hundred draws meet every worker:
  how many are enough depends on the constants of the generator. There is nothing
  to generalise.

The type invariants of `ChaseLevDeque`, `SpawnSubtasks`, `SpmcRing` and
`JobLatch` are stated for the proofs, proved there, and not part of a run.

## 6. Not modelled

* Two threads that submit at the same time, or tasks that submit jobs: the ring
  is made for one producer, and `SpmcRing` has one. No document says whether it
  is allowed.
* A tag that comes round 2^32 times while one thread is between its load and its
  compare-and-swap, and indices that reach 2^63.
* Processors with a weaker memory model than x86.
* A failed allocation: it ends the process, except that of the worker pool after
  `allocate_worker_pool` returned NULL, which it never does. A second
  `scheduler_boot` without a stop in between.
* Termination while tasks run: `Lifecycle` has one task per job; that a worker
  finishes what it has begun before it looks at its flag is the same there.
* Jobs of which the application forgets that they were refused
  (`multiple_jobs_ex.c:63-69` waits for them all the same).
* What a continuation gets as its range: a splitter task keeps the range it was
  created with, so the continuation of a job function sees that range and not
  the part the function was called with.
* The depth of the recursion when everything is executed inline.
* Pinning, printing, timing, and the Windows and macOS variants of thread
  creation; of the futex only the fallback's spurious wake-ups.
* The examples. They are clients: what they compute is theirs, the sequential
  sorts, the quick sort on raw threads and the thread pool of the Mandelbrot
  comparison do not use the scheduler.
