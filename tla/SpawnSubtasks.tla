---------------------------- MODULE SpawnSubtasks ----------------------------
(***************************************************************************)
(* One call of scheduler_spawn_subtasks, from the parent's                 *)
(* scheduler_set_continuation before it to the last child after it: which  *)
(* ranges become tasks, which are executed inline when the pool or the     *)
(* deque cannot take them, and what the parent's counter and task_fn hold  *)
(* in the meantime.  size_t has SizeMod values.                            *)
(***************************************************************************)
EXTENDS Integers, Sequences, FiniteSets

CONSTANTS
  SizeMod,       \* 2^w, the number of values of size_t
  BatchSize,     \* BATCH_SIZE
  DefaultChunk,  \* DEFAULT_CHUNK_SIZE
  MaxIndex,      \* bound: start_idx and end_idx
  MaxChunk,      \* bound: chunk_size
  MaxDry         \* bound: calls of memory_pool_acquire that return NULL

ASSUME SpawnAssumption ==
  /\ SizeMod \in Nat /\ MaxIndex < SizeMod /\ MaxChunk < SizeMod
  /\ BatchSize \in Nat \ {0}
  /\ DefaultChunk \in 1 .. SizeMod - 1
  /\ MaxIndex \in Nat /\ MaxChunk \in Nat /\ MaxDry \in Nat

VARIABLES
  lo, hi,     \* start_idx and end_idx
  chunk,      \* chunk_size, after the default has been applied
  pc,         \* where the call is
  processed,  \* chunks_processed
  batch,      \* batch_array: ranges acquired in this pass, from the first not handled
  queued,     \* ranges of children in a deque or with a worker
  locks,      \* what the children add to the parent's unfinished_dependencies
  hits,       \* how often task_fn was given an element
  cont,       \* whose continuation the parent's task_fn holds
  dry         \* how often the pool was empty

vars == <<lo, hi, chunk, pc, processed, batch, queued, locks, hits, cont, dry>>
args == <<lo, hi, chunk>>

Elements == 0 .. MaxIndex - 1
Wrap(n) == n % SizeMod
Least(m, n) == IF m < n THEN m ELSE n

\* A chunk size of zero asks for the default.
ChunkSize(requested) == IF requested = 0 THEN DefaultChunk ELSE requested

\* The parent has registered its continuation, as the examples do.
Init ==
  /\ lo \in 0 .. MaxIndex /\ hi \in 0 .. MaxIndex
  /\ \E requested \in 0 .. MaxChunk : chunk = ChunkSize(requested)
  /\ pc = "pass"
  /\ processed = 0 /\ batch = <<>> /\ queued = {} /\ locks = 0
  /\ hits = [e \in Elements |-> 0]
  /\ cont = "parent"
  /\ dry = 0

\* Faulty variant: rounded down.
TotalFaulty == IF lo >= hi THEN 0 ELSE (hi - lo) \div chunk
\* total_required_chunks
Total == IF lo >= hi THEN 0 ELSE Wrap((hi - lo) + chunk - 1) \div chunk

\* Where the n-th chunk begins.
Start(n) == Wrap(lo + n * chunk)

\* Faulty variant: the last range is not clipped.
RangeFaulty(n) == [lo |-> Start(n), hi |-> Wrap(Start(n) + chunk)]
\* The range of the n-th child.
ChunkRange(n) == [lo |-> Start(n), hi |-> Least(Wrap(Start(n) + chunk), hi)]

Execute(r) ==
  hits' = [e \in Elements |-> IF r.lo <= e /\ e < r.hi THEN hits[e] + 1 ELSE hits[e]]

\* A child that is executed inline runs with the parent as tl_current_task,
\* so a continuation it registers goes to the parent's task_fn.
Inline(r) ==
  /\ Execute(r)
  /\ cont' \in {cont, "child"}

\* memory_pool_acquire succeeds k times and then, if k is less than this pass
\* wants, returns NULL.
Acquire(k) ==
  LET wanted == Least(Total - processed, BatchSize) IN
  /\ pc = "pass" /\ processed < Total
  /\ k \in 0 .. wanted
  /\ IF k < wanted THEN dry < MaxDry /\ dry' = dry + 1 ELSE UNCHANGED dry
  /\ IF k = 0
     THEN /\ Inline([lo |-> Start(processed), hi |-> hi])
          /\ pc' = "returned"
          /\ UNCHANGED <<batch, locks>>
     ELSE /\ batch' = [i \in 1 .. k |-> ChunkRange(processed + i - 1)]
          /\ locks' = locks + k
          /\ pc' = "push"
          /\ UNCHANGED <<hits, cont>>
  /\ UNCHANGED <<args, processed, queued>>

\* The deque takes all children of the pass.
PushAll ==
  /\ pc = "push"
  /\ queued' = queued \cup {batch[i] : i \in DOMAIN batch}
  /\ batch' = <<>>
  /\ processed' = processed + Least(Total - processed, BatchSize)
  /\ pc' = "pass"
  /\ UNCHANGED <<args, locks, hits, cont, dry>>

\* Faulty variant: the children that were pushed are taken back.
RollbackFaulty(p) == p
\* rejected_count, when p children were pushed
Rollback(p) == Len(batch) - p

\* The chunks before remaining_start.
Handled == processed + Len(batch)

\* The deque takes the first p children only: the others are rolled back, and
\* what is left of the whole call will be executed inline.
PushSome(p) ==
  /\ pc = "push" /\ p < Len(batch)
  /\ queued' = queued \cup {batch[i] : i \in 1 .. p}
  /\ locks' = locks - Rollback(p)
  /\ batch' = SubSeq(batch, p + 1, Len(batch))
  /\ processed' = Handled
  /\ pc' = "inline"
  /\ UNCHANGED <<args, hits, cont, dry>>

InlineRejected ==
  /\ pc = "inline" /\ batch # <<>>
  /\ Inline(Head(batch))
  /\ batch' = Tail(batch)
  /\ UNCHANGED <<args, pc, processed, queued, locks, dry>>

InlineRest ==
  /\ pc = "inline" /\ batch = <<>>
  /\ IF Start(processed) < hi THEN Inline([lo |-> Start(processed), hi |-> hi])
                              ELSE UNCHANGED <<hits, cont>>
  /\ pc' = "returned"
  /\ UNCHANGED <<args, processed, batch, queued, locks, dry>>

AllPassesDone ==
  /\ pc = "pass" /\ processed >= Total
  /\ pc' = "returned"
  /\ UNCHANGED <<args, processed, batch, queued, locks, hits, cont, dry>>

\* Some worker executes a child and drops its lock on the parent.
ChildRuns(r) ==
  /\ r \in queued
  /\ Execute(r)
  /\ queued' = queued \ {r}
  /\ locks' = locks - 1
  /\ UNCHANGED <<args, pc, processed, batch, cont, dry>>

Call ==
  \/ \E k \in 0 .. BatchSize : Acquire(k)
  \/ PushAll
  \/ \E p \in 0 .. BatchSize : PushSome(p)
  \/ InlineRejected \/ InlineRest \/ AllPassesDone

Next == Call \/ \E r \in queued : ChildRuns(r)

Spec == Init /\ [][Next]_vars

-----------------------------------------------------------------------------
Ranges == [lo : 0 .. SizeMod - 1, hi : 0 .. SizeMod - 1]

TypeOK ==
  /\ lo \in 0 .. MaxIndex /\ hi \in 0 .. MaxIndex
  /\ chunk \in 1 .. SizeMod - 1
  /\ pc \in {"pass", "push", "inline", "returned"}
  /\ processed \in Nat /\ locks \in Nat
  /\ batch \in Seq(Ranges)
  /\ queued \subseteq Ranges
  /\ hits \in [Elements -> Nat]
  /\ cont \in {"parent", "child"}
  /\ dry \in 0 .. MaxDry

Asked == {e \in Elements : lo <= e /\ e < hi}

\* No element is given to task_fn twice and none outside the range of the
\* call at all, however children, rejected children and the inline rest
\* interleave (sk_scheduler.c:317-319, 333, 352, 356).
NothingTwice ==
  \A e \in Elements : hits[e] <= IF e \in Asked THEN 1 ELSE 0

\* The parent waits for exactly the children that are with other workers, once
\* the rollback is done: an inline execution is never waited for
\* (sk_scheduler.c:338, 347).
LocksMatchChildren ==
  locks = Cardinality(queued) + IF pc = "push" THEN Len(batch) ELSE 0

Finished == pc = "returned" /\ queued = {}

\* As long as the pool was never empty, a finished call has executed every
\* element, whatever the deque rejected (sk_scheduler.c:343-362).
CoveredUnlessDry ==
  Finished /\ dry = 0 => \A e \in Asked : hits[e] = 1

\* "any task that doesnt fit/fails to be allocated- will be executed inline"
\* (sk_scheduler.h:105): a finished call has executed every element.
Covered == Finished => \A e \in Asked : hits[e] = 1

\* The continuation "sets what the current task will do after all child sub
\* tasks finish" (sk_scheduler.h:109): when the call is over the parent's
\* task_fn still is the parent's continuation.
ContinuationKept == pc = "returned" => cont = "parent"
=============================================================================
