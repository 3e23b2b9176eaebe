------------------------------- MODULE TaskPool -------------------------------
(***************************************************************************)
(* The task pool (sk_scheduler.c:26-136): a lock-free list of free tasks   *)
(* whose head carries a tag against the ABA problem, and a cache of tasks  *)
(* per thread in front of it.  One step per access to the head or to a     *)
(* next_free_idx; a cache is seen by its own thread only.                  *)
(***************************************************************************)
EXTENDS Integers, Sequences, FiniteSets

CONSTANTS
  Threads,        \* application thread and workers
  Capacity,       \* global_task_capacity
  CacheCapacity,  \* TASK_CACHE_CAPACITY
  EvictCount,     \* TASK_EVICT_COUNT
  TagMod          \* number of tags, 2^32 in the code

PoolAssumption ==
  /\ IsFiniteSet(Threads)
  /\ Capacity \in Nat \ {0}
  /\ CacheCapacity \in Nat \ {0}
  /\ EvictCount \in 1 .. CacheCapacity
  /\ TagMod \in Nat \ {0, 1}

Tasks == 1 .. Capacity
Empty == 0              \* POOL_EMPTY_INDEX

VARIABLES
  head,    \* global_pool_head: [idx, tag]
  next,    \* next_free_idx of every task
  cache,   \* task_cache[0 .. task_cache_count-1] of every thread
  inUse,   \* history: tasks the callers hold
  pc,      \* where each thread is in acquire or release
  seen,    \* current_head of each thread
  nextIdx, \* next_idx of each thread, in acquire
  task,    \* the argument of release of each thread
  linked   \* stores of the loop at 105-116 done so far

vars == <<head, next, cache, inUse, pc, seen, nextIdx, task, linked>>

Nothing == [idx |-> Empty, tag |-> 0]

\* pack_aba(0, 0) and the list of scheduler_boot.
Init ==
  /\ head = [idx |-> 1, tag |-> 0]
  /\ next = [t \in Tasks |-> IF t = Capacity THEN Empty ELSE t + 1]
  /\ cache = [th \in Threads |-> <<>>]
  /\ inUse = {}
  /\ pc = [th \in Threads |-> "idle"]
  /\ seen = [th \in Threads |-> Nothing]
  /\ nextIdx = [th \in Threads |-> Empty]
  /\ task = [th \in Threads |-> Empty]
  /\ linked = [th \in Threads |-> 0]

Goto(th, place) == pc' = [pc EXCEPT ![th] = place]

\* The end of a call: its local variables are gone.
ReturnFrom(th) ==
  /\ Goto(th, "idle")
  /\ seen' = [seen EXCEPT ![th] = Nothing]
  /\ nextIdx' = [nextIdx EXCEPT ![th] = Empty]
  /\ task' = [task EXCEPT ![th] = Empty]
  /\ linked' = [linked EXCEPT ![th] = 0]

\* Bound, as an assumption on time: while a thread is between its load of the
\* head and its compare-and-swap the tag does not come round.
TagStaysAhead ==
  \A th \in Threads : pc[th] \in {"next", "casAcquire", "tail", "casRelease"}
    => seen[th].tag # (head.tag + 1) % TagMod

\* Faulty variant: the tag is left as it is.
PackFaulty(idx, tag) == [idx |-> idx, tag |-> tag]
\* pack_aba(idx, tag + 1)
PackNext(idx, tag) == [idx |-> idx, tag |-> (tag + 1) % TagMod]

\* atomic_compare_exchange_weak on the head.
CasSucceeds(th, idx) ==
  /\ head = seen[th]
  /\ TagStaysAhead
  /\ head' = PackNext(idx, seen[th].tag)

\* The weak form may also fail spuriously; current_head is loaded again.
CasFails(th, place) ==
  /\ seen' = [seen EXCEPT ![th] = head]
  /\ Goto(th, place)
  /\ UNCHANGED <<head, next, cache, inUse, nextIdx, task, linked>>

-----------------------------------------------------------------------------
(* memory_pool_acquire                                                      *)

AcquireCached(th) ==
  /\ pc[th] = "idle" /\ cache[th] # <<>>
  /\ inUse' = inUse \cup {cache[th][Len(cache[th])]}
  /\ cache' = [cache EXCEPT ![th] = SubSeq(@, 1, Len(@) - 1)]
  /\ UNCHANGED <<head, next, pc, seen, nextIdx, task, linked>>

AcquireShared(th) ==
  /\ pc[th] = "idle" /\ cache[th] = <<>>
  /\ Goto(th, "load")
  /\ UNCHANGED <<head, next, cache, inUse, seen, nextIdx, task, linked>>

\* Faulty variant: the list counts as empty when it has one task left.
IsEmptyFaulty(idx) == idx = Empty \/ next[idx] = Empty
IsEmpty(idx) == idx = Empty

\* An empty list ends the call with NULL.
AcquireLoad(th) ==
  /\ pc[th] = "load" /\ ~IsEmpty(head.idx)
  /\ seen' = [seen EXCEPT ![th] = head]
  /\ Goto(th, "next")
  /\ UNCHANGED <<head, next, cache, inUse, nextIdx, task, linked>>

AcquireNull(th) ==
  /\ pc[th] \in {"load", "casAcquire"} /\ IsEmpty(head.idx)
  /\ ReturnFrom(th)
  /\ UNCHANGED <<head, next, cache, inUse>>

AcquireNext(th) ==
  /\ pc[th] = "next"
  /\ nextIdx' = [nextIdx EXCEPT ![th] = next[seen[th].idx]]
  /\ Goto(th, "casAcquire")
  /\ UNCHANGED <<head, next, cache, inUse, seen, task, linked>>

AcquireCas(th) ==
  /\ pc[th] = "casAcquire"
  /\ CasSucceeds(th, nextIdx[th])
  /\ inUse' = inUse \cup {seen[th].idx}
  /\ ReturnFrom(th)
  /\ UNCHANGED <<next, cache>>

AcquireRetry(th) ==
  /\ pc[th] = "casAcquire" /\ ~IsEmpty(head.idx)
  /\ CasFails(th, "next")

-----------------------------------------------------------------------------
(* memory_pool_release, by any thread, of any task in use                   *)

HasRoom(th) == Len(cache[th]) < CacheCapacity

ReleaseCached(th) ==
  /\ pc[th] = "idle" /\ HasRoom(th)
  /\ \E t \in inUse :
       /\ inUse' = inUse \ {t}
       /\ cache' = [cache EXCEPT ![th] = Append(@, t)]
  /\ UNCHANGED <<head, next, pc, seen, nextIdx, task, linked>>

ReleaseShared(th) ==
  /\ pc[th] = "idle" /\ ~HasRoom(th)
  /\ \E t \in inUse :
       /\ inUse' = inUse \ {t}
       /\ task' = [task EXCEPT ![th] = t]
  /\ Goto(th, "link")
  /\ UNCHANGED <<head, next, cache, seen, nextIdx, linked>>

\* The tasks that go back, tail of the new chain first: the upper part of the
\* cache and the released task.
Chain(th) ==
  SubSeq(cache[th], CacheCapacity - EvictCount + 1, CacheCapacity) \o <<task[th]>>

\* Every task of the chain points to the one before it.
Link(th, k) == [next EXCEPT ![Chain(th)[k + 1]] = Chain(th)[k]]

\* One store of the loop, the last one into the released task.
ReleaseLink(th) ==
  /\ pc[th] = "link" /\ linked[th] < EvictCount
  /\ next' = Link(th, linked[th] + 1)
  /\ linked' = [linked EXCEPT ![th] = @ + 1]
  /\ UNCHANGED <<head, cache, inUse, pc, seen, nextIdx, task>>

ReleaseLoad(th) ==
  /\ pc[th] = "link" /\ linked[th] = EvictCount
  /\ seen' = [seen EXCEPT ![th] = head]
  /\ Goto(th, "tail")
  /\ UNCHANGED <<head, next, cache, inUse, nextIdx, task, linked>>

\* The tail of the chain points to the list as it was seen.
ReleaseTail(th) ==
  /\ pc[th] = "tail"
  /\ next' = [next EXCEPT ![Chain(th)[1]] = seen[th].idx]
  /\ Goto(th, "casRelease")
  /\ UNCHANGED <<head, cache, inUse, seen, nextIdx, task, linked>>

\* Faulty variant: the tail keeps the old link when the head has moved.
RetryFaulty == "casRelease"
\* Where a failed compare-and-swap of a release leads.
Retry == "tail"

\* Faulty variant: one evicted task stays in the cache.
RemainFaulty(s) == SubSeq(s, 1, CacheCapacity - EvictCount + 1)
\* task_cache_count = start_evict
Remain(s) == SubSeq(s, 1, CacheCapacity - EvictCount)

ReleaseCas(th) ==
  /\ pc[th] = "casRelease"
  /\ CasSucceeds(th, task[th])
  /\ cache' = [cache EXCEPT ![th] = Remain(@)]
  /\ ReturnFrom(th)
  /\ UNCHANGED <<next, inUse>>

ReleaseRetry(th) ==
  /\ pc[th] = "casRelease"
  /\ CasFails(th, Retry)

-----------------------------------------------------------------------------
Acquire(th) == \/ AcquireCached(th) \/ AcquireShared(th) \/ AcquireLoad(th) \/ AcquireNull(th)
               \/ AcquireNext(th) \/ AcquireCas(th) \/ AcquireRetry(th)

Release(th) == \/ ReleaseCached(th) \/ ReleaseShared(th) \/ ReleaseLink(th)
               \/ ReleaseLoad(th) \/ ReleaseTail(th) \/ ReleaseCas(th) \/ ReleaseRetry(th)

Next == \E th \in Threads : Acquire(th) \/ Release(th)

Spec == Init /\ [][Next]_vars

-----------------------------------------------------------------------------
(* Properties.                                                              *)

\* The list as a walk from the head: position 0 is the head, Empty repeats.
Walk[k \in 0 .. Capacity] ==
  IF k = 0 THEN head.idx
  ELSE IF Walk[k - 1] = Empty THEN Empty ELSE next[Walk[k - 1]]

Listed == {Walk[k] : k \in 0 .. Capacity} \ {Empty}
Cached(th) == {cache[th][k] : k \in 1 .. Len(cache[th])}
\* Tasks whose release has not taken effect yet.
Returning == {task[th] : th \in Threads} \ {Empty}

Heads == [idx : Tasks \cup {Empty}, tag : 0 .. TagMod - 1]

TypeOK ==
  /\ head \in Heads
  /\ next \in [Tasks -> Tasks \cup {Empty}]
  /\ cache \in [Threads -> Seq(Tasks)]
  /\ \A th \in Threads : Len(cache[th]) <= CacheCapacity
  /\ inUse \subseteq Tasks
  /\ pc \in [Threads -> {"idle", "load", "next", "casAcquire", "link", "tail", "casRelease"}]
  /\ seen \in [Threads -> Heads]
  /\ nextIdx \in [Threads -> Tasks \cup {Empty}]
  /\ task \in [Threads -> Tasks \cup {Empty}]
  /\ linked \in [Threads -> 0 .. EvictCount]

\* Every task is at exactly one place: in the list, which ends, in one cache,
\* once, in use by one caller, or on its way back.  Neither is a task handed
\* out twice nor does one disappear, however long a thread sleeps between its
\* load of next_free_idx and its compare-and-swap (sk_scheduler.c:77-87).
OnePlace ==
  /\ Walk[Capacity] = Empty
  /\ Listed \cup (UNION {Cached(th) : th \in Threads}) \cup inUse \cup Returning = Tasks
  /\ Cardinality(Listed) + Cardinality(inUse) + Cardinality(Returning)
       + Cardinality({c \in Threads \X (1 .. CacheCapacity) : c[2] <= Len(cache[c[1]])})
     = Capacity

\* A thread whose compare-and-swap would succeed knows the list: what it is
\* about to make the head, or has made the end of its chain, is what stands
\* behind it now, although other threads took and returned tasks in between.
\* This is what the tag is for (sk_scheduler.c:77-79, 122-129).
SeenIsCurrent ==
  \A th \in Threads : seen[th] = head =>
    /\ pc[th] = "casAcquire" => head.idx # Empty /\ nextIdx[th] = next[head.idx]
    /\ pc[th] = "casRelease" => next[Chain(th)[1]] = head.idx

\* acquire returns NULL only when no task is left that this thread could
\* reach: all but those the other threads keep in their caches, a bounded
\* number, are in use or just being returned (sk_scheduler.c:73-75, 98-99).
NullOnlyWhenHoarded ==
  [][ \A th \in Threads :
        pc[th] \in {"load", "casAcquire"} /\ pc'[th] = "idle" /\ inUse' = inUse
          => Cardinality(inUse) + Cardinality(Returning)
               >= Capacity - (Cardinality(Threads) - 1) * CacheCapacity ]_vars

AP == INSTANCE AbstractPool
        WITH shared <- Listed,
             kept <- [th \in Threads |-> Cached(th)],
             used <- inUse \cup Returning

\* The list is linearizable: acquire takes effect in its compare-and-swap,
\* release gives back the whole batch in its own, and no other step of either
\* is visible.
ImplementsPool == AP!Spec
=============================================================================
