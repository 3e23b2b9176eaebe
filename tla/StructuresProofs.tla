--------------------------- MODULE StructuresProofs ---------------------------
(***************************************************************************)
(* The task pool, for every number of threads, tasks and tags; the aligned *)
(* allocation, for every memory; the rounding of a capacity, for every     *)
(* width of a size_t; and whom a worker steals from.                       *)
(*                                                                         *)
(* Every task has one kind of place, and within it one owner and position: *)
(* the list, counted from its end, so that what happens at the head moves  *)
(* no other task; a cache; a caller; or a release that is under way.  The  *)
(* chain of a release is written while nobody else can reach its tasks, so *)
(* the list changes in compare-and-swaps only, and each of those changes   *)
(* the tag: a thread whose tag still is the current one has seen the       *)
(* current list.                                                           *)
(*                                                                         *)
(* A block keeps its header because the header lies in the block, before   *)
(* the memory its owner writes, and the blocks of malloc do not overlap.   *)
(*                                                                         *)
(* A capacity is the least power of two because its decremented size lies  *)
(* between two powers of two and the shifts turn all of its bits into      *)
(* ones.  A draw is another worker because the generator permutes the      *)
(* words: it gets to zero from zero only.                                  *)
(***************************************************************************)
EXTENDS MCStructures, FiniteSetTheorems, SequenceTheorems, WellFoundedInduction, TLAPS

\* Where a task can be.
Kinds == {"list", "cache", "used", "back"}

\* The n tasks of the list, in the positions n (the head) to 1 (the end).
Ordered(kind, at, n) ==
  /\ n \in Nat
  /\ \A t \in P!Tasks : kind[t] = "list" => at[t] \in 1 .. n
  /\ \A k \in 1 .. n : \E t \in P!Tasks : kind[t] = "list" /\ at[t] = k
  /\ \A s, t \in P!Tasks : kind[s] = "list" /\ kind[t] = "list" /\ at[s] = at[t] => s = t
  /\ n = 0 => poolHead.idx = 0
  /\ n > 0 => poolHead.idx \in P!Tasks /\ kind[poolHead.idx] = "list" /\ at[poolHead.idx] = n
  /\ \A t \in P!Tasks : kind[t] = "list" =>
       /\ at[t] = 1 => next[t] = 0
       /\ at[t] > 1 => next[t] \in P!Tasks /\ kind[next[t]] = "list" /\ at[next[t]] = at[t] - 1

\* The tasks outside of the list.
Located(kind, owner, at) ==
  /\ kind \in [P!Tasks -> Kinds] /\ at \in [P!Tasks -> Nat]
  /\ DOMAIN owner = P!Tasks
  /\ \A t \in P!Tasks : kind[t] = "used" <=> t \in inUse
  /\ \A t \in P!Tasks : kind[t] = "back" => owner[t] \in Threads /\ task[owner[t]] = t
  /\ \A th \in Threads : task[th] # 0 => kind[task[th]] = "back" /\ owner[task[th]] = th
  /\ \A t \in P!Tasks : kind[t] = "cache" =>
       owner[t] \in Threads /\ at[t] \in 1 .. Len(cache[owner[t]]) /\ cache[owner[t]][at[t]] = t
  /\ \A th \in Threads : \A k \in 1 .. Len(cache[th]) :
       kind[cache[th][k]] = "cache" /\ owner[cache[th][k]] = th /\ at[cache[th][k]] = k

Places == \E kind, owner, at, n : Ordered(kind, at, n) /\ Located(kind, owner, at)

\* Where the calls are, and what their local variables are then.
Returns(th) == poolPc[th] \in {"link", "tail", "casRelease"}
Calls ==
  \A th \in Threads :
    /\ poolPc[th] \in {"load", "next", "casAcquire"} => cache[th] = <<>>
    /\ poolPc[th] \in {"next", "casAcquire"} => seen[th].idx # 0
    /\ task[th] # 0 <=> Returns(th)
    /\ Returns(th) => Len(cache[th]) = CacheCapacity
    /\ poolPc[th] \in {"tail", "casRelease"} => linked[th] = EvictCount
    /\ ~Returns(th) => linked[th] = 0

\* As far as a chain is linked it is a list, in front of what the thread saw.
Linked ==
  \A th \in Threads : Returns(th) =>
    /\ \A k \in 1 .. linked[th] : next[P!Chain(th)[k + 1]] = P!Chain(th)[k]
    /\ poolPc[th] = "casRelease" => next[P!Chain(th)[1]] = seen[th].idx

\* What a thread in acquire read is still there if the head still is the same.
Current ==
  \A th \in Threads :
    poolPc[th] = "casAcquire" /\ seen[th] = poolHead => nextIdx[th] = next[poolHead.idx]

PoolInv == P!TypeOK /\ Calls /\ Places /\ Linked /\ Current

-----------------------------------------------------------------------------
(* The chain of a release.                                                  *)

\* An instance has operators of its own for finite sets; they are the same.
LEMMA SameSets ==
  ASSUME NEW S
  PROVE  (P!IsFiniteSet(S) <=> IsFiniteSet(S)) /\ P!Cardinality(S) = Cardinality(S)
BY DEF IsFiniteSet, Cardinality, P!IsFiniteSet, P!Cardinality

\* The constants.
LEMMA ConstantFacts ==
  /\ PoolCapacity \in Nat \ {0} /\ CacheCapacity \in Nat \ {0}
  /\ EvictCount \in Nat \ {0} /\ EvictCount <= CacheCapacity
  /\ TagMod \in Nat \ {0, 1} /\ IsFiniteSet(Threads)
  /\ P!Tasks = 1 .. PoolCapacity /\ 0 \notin P!Tasks
BY StructuresAssumption, SameSets DEF P!PoolAssumption, P!Tasks

\* The chain as a sequence: what is evicted, and the released task.
LEMMA ChainFacts ==
  ASSUME P!TypeOK, Calls, NEW th \in Threads, Returns(th)
  PROVE  /\ Len(P!Chain(th)) = EvictCount + 1
         /\ P!Chain(th) \in Seq(P!Tasks)
         /\ \A k \in 1 .. EvictCount :
              P!Chain(th)[k] = cache[th][CacheCapacity - EvictCount + k]
         /\ P!Chain(th)[EvictCount + 1] = task[th]
         /\ task[th] \in P!Tasks
<1>1. cache[th] \in Seq(P!Tasks) /\ Len(cache[th]) = CacheCapacity /\ task[th] \in P!Tasks
  BY DEF P!TypeOK, Calls, P!Empty
<1> DEFINE up == SubSeq(cache[th], CacheCapacity - EvictCount + 1, CacheCapacity)
<1>2. /\ up \in Seq(P!Tasks) /\ Len(up) = EvictCount
      /\ \A k \in 1 .. EvictCount : up[k] = cache[th][CacheCapacity - EvictCount + k]
  BY <1>1, ConstantFacts, SubSeqProperties
<1>3. P!Chain(th) = up \o <<task[th]>>
  BY DEF P!Chain
<1> HIDE DEF up
<1>4. <<task[th]>> \in Seq(P!Tasks) /\ Len(<<task[th]>>) = 1 /\ <<task[th]>>[1] = task[th]
  BY <1>1
<1>5. /\ up \o <<task[th]>> \in Seq(P!Tasks)
      /\ Len(up \o <<task[th]>>) = EvictCount + 1
      /\ \A k \in 1 .. EvictCount : (up \o <<task[th]>>)[k] = up[k]
      /\ (up \o <<task[th]>>)[EvictCount + 1] = task[th]
  BY <1>1, <1>2, <1>4, ConstantFacts, ConcatProperties
<1> QED BY <1>1, <1>2, <1>3, <1>5

\* Where the tasks of a chain are.
LEMMA ChainPlaces ==
  ASSUME P!TypeOK, Calls, NEW th \in Threads, Returns(th),
         NEW kind, NEW owner, NEW at, Located(kind, owner, at),
         NEW k \in 1 .. EvictCount + 1
  PROVE  /\ P!Chain(th)[k] \in P!Tasks
         /\ owner[P!Chain(th)[k]] = th
         /\ k <= EvictCount => /\ kind[P!Chain(th)[k]] = "cache"
                               /\ at[P!Chain(th)[k]] = CacheCapacity - EvictCount + k
         /\ k = EvictCount + 1 => kind[P!Chain(th)[k]] = "back"
<1>1. Len(cache[th]) = CacheCapacity /\ task[th] # 0
  BY DEF Calls
<1>2. P!Chain(th)[k] \in P!Tasks
  BY ChainFacts, ConstantFacts
<1>3. CASE k <= EvictCount
  <2>1. CacheCapacity - EvictCount + k \in 1 .. Len(cache[th]) /\ k \in 1 .. EvictCount
    BY <1>1, <1>3, ConstantFacts
  <2>2. P!Chain(th)[k] = cache[th][CacheCapacity - EvictCount + k]
    BY <2>1, ChainFacts
  <2>3. k # EvictCount + 1
    BY <1>3, ConstantFacts
  <2> QED BY <1>2, <2>1, <2>2, <2>3 DEF Located
<1>4. CASE k = EvictCount + 1
  <2>1. P!Chain(th)[k] = task[th] /\ ~(k <= EvictCount)
    BY <1>4, ChainFacts, ConstantFacts
  <2> QED BY <1>1, <1>2, <1>4, <2>1 DEF Located
<1> QED BY <1>3, <1>4, ConstantFacts

-----------------------------------------------------------------------------
(* Steps that read, or move a thread, and leave list and places alone.      *)

\* A thread whose cache and argument stay has the same chain.
LEMMA SameChain ==
  ASSUME NEW th \in Threads, cache'[th] = cache[th], task'[th] = task[th]
  PROVE  P!Chain(th)' = P!Chain(th)
BY DEF P!Chain

\* Where nothing is moved everything stays in its place.
LEMMA SamePlaces ==
  ASSUME Places, UNCHANGED <<poolHead, next, cache, inUse, task>>
  PROVE  Places'
<1> PICK kind, owner, at, n : Ordered(kind, at, n) /\ Located(kind, owner, at)
  BY DEF Places
<1>1. Ordered(kind, at, n)'
  BY DEF Ordered
<1>2. Located(kind, owner, at)'
  BY DEF Located
<1> QED BY <1>1, <1>2 DEF Places

\* acquire: the cache is empty, the head is loaded, the list is empty.
LEMMA AcquireBeginStep ==
  ASSUME PoolInv, NEW th \in Threads,
         P!AcquireShared(th) \/ P!AcquireLoad(th) \/ P!AcquireNull(th)
  PROVE  PoolInv'
<1> USE DEF PoolInv
<1>1. UNCHANGED <<poolHead, next, cache, inUse, task>>
  BY DEF P!AcquireShared, P!AcquireLoad, P!AcquireNull, P!ReturnFrom, P!TypeOK, Calls,
         Returns, P!Empty
<1>a. poolHead \in P!Heads /\ P!Nothing \in P!Heads /\ 0 \in 0 .. EvictCount
  BY ConstantFacts DEF P!TypeOK, P!Heads, P!Nothing, P!Empty
<1>b. /\ seen' \in [Threads -> P!Heads]
      /\ nextIdx' \in [Threads -> P!Tasks \cup {P!Empty}]
      /\ linked' \in [Threads -> 0 .. EvictCount]
      /\ poolPc' \in [Threads -> {"idle", "load", "next", "casAcquire", "link", "tail", "casRelease"}]
  <2>1. /\ seen \in [Threads -> P!Heads]
        /\ nextIdx \in [Threads -> P!Tasks \cup {P!Empty}]
        /\ linked \in [Threads -> 0 .. EvictCount]
        /\ poolPc \in [Threads -> {"idle", "load", "next", "casAcquire", "link", "tail", "casRelease"}]
    BY DEF P!TypeOK
  <2>2. CASE P!AcquireShared(th)
    BY <2>1, <2>2 DEF P!AcquireShared, P!Goto
  <2>3. CASE P!AcquireLoad(th)
    BY <1>a, <2>1, <2>3 DEF P!AcquireLoad, P!Goto
  <2>4. CASE P!AcquireNull(th)
    BY <1>a, <2>1, <2>4 DEF P!AcquireNull, P!ReturnFrom, P!Goto
  <2> QED BY <2>2, <2>3, <2>4
<1>2. P!TypeOK'
  BY <1>1, <1>b DEF P!TypeOK, P!Heads
<1>3. Calls'
  BY <1>1 DEF P!AcquireShared, P!AcquireLoad, P!AcquireNull, P!ReturnFrom, P!Goto,
         P!TypeOK, Calls, Returns, P!Empty, P!IsEmpty
<1>4. \A o \in Threads : Returns(o)' =>
        /\ Returns(o) /\ poolPc'[o] = poolPc[o] /\ linked'[o] = linked[o] /\ seen'[o] = seen[o]
        /\ P!Chain(o)' = P!Chain(o)
  BY <1>1, SameChain DEF P!AcquireShared, P!AcquireLoad, P!AcquireNull, P!ReturnFrom, P!Goto,
         P!TypeOK, Returns
<1>5. Linked'
  BY <1>1, <1>4 DEF Linked
<1>6. \A o \in Threads : poolPc'[o] = "casAcquire" =>
        poolPc[o] = "casAcquire" /\ seen'[o] = seen[o] /\ nextIdx'[o] = nextIdx[o]
  BY DEF P!AcquireShared, P!AcquireLoad, P!AcquireNull, P!ReturnFrom, P!Goto, P!TypeOK
<1>7. Current'
  BY <1>1, <1>6 DEF Current
<1> QED BY <1>1, <1>2, <1>3, <1>5, <1>7, SamePlaces

\* acquire: the next index is read, or the head again.
LEMMA AcquireReadStep ==
  ASSUME PoolInv, NEW th \in Threads, P!AcquireNext(th) \/ P!AcquireRetry(th)
  PROVE  PoolInv'
<1> USE DEF PoolInv
<1>1. UNCHANGED <<poolHead, next, cache, inUse, task>>
  BY DEF P!AcquireNext, P!AcquireRetry, P!CasFails
<1>a. poolHead \in P!Heads
  BY DEF P!TypeOK
<1>b. P!AcquireNext(th) => next[seen[th].idx] \in P!Tasks \cup {P!Empty}
  BY DEF P!AcquireNext, P!TypeOK, P!Heads, Calls, P!Empty
<1>c. nextIdx' \in [Threads -> P!Tasks \cup {P!Empty}]
  BY <1>b DEF P!AcquireNext, P!AcquireRetry, P!CasFails, P!TypeOK
<1>d. seen' \in [Threads -> P!Heads] /\ linked' \in [Threads -> 0 .. EvictCount]
  BY <1>a DEF P!AcquireNext, P!AcquireRetry, P!CasFails, P!TypeOK
<1>e. poolPc' \in [Threads -> {"idle", "load", "next", "casAcquire", "link", "tail", "casRelease"}]
  BY DEF P!AcquireNext, P!AcquireRetry, P!CasFails, P!Goto, P!TypeOK
<1>2. P!TypeOK'
  BY <1>1, <1>c, <1>d, <1>e DEF P!TypeOK, P!Heads
<1>3. Calls'
  BY <1>1 DEF P!AcquireNext, P!AcquireRetry, P!CasFails, P!Goto,
         P!TypeOK, Calls, Returns, P!Empty, P!IsEmpty
<1>4. \A o \in Threads : Returns(o)' =>
        /\ Returns(o) /\ poolPc'[o] = poolPc[o] /\ linked'[o] = linked[o] /\ seen'[o] = seen[o]
        /\ P!Chain(o)' = P!Chain(o)
  BY <1>1, SameChain DEF P!AcquireNext, P!AcquireRetry, P!CasFails, P!Goto, P!TypeOK, Returns
<1>5. Linked'
  BY <1>1, <1>4 DEF Linked
<1>6. \A o \in Threads : poolPc'[o] = "casAcquire" =>
        \/ o = th /\ seen'[o] = seen[o] /\ nextIdx'[o] = next[seen[o].idx]
        \/ poolPc[o] = "casAcquire" /\ seen'[o] = seen[o] /\ nextIdx'[o] = nextIdx[o]
  BY DEF P!AcquireNext, P!AcquireRetry, P!CasFails, P!Goto, P!TypeOK
<1>7. Current'
  BY <1>1, <1>6 DEF Current
<1> QED BY <1>1, <1>2, <1>3, <1>5, <1>7, SamePlaces

\* release: the chain is complete and the head is loaded, or loaded again.
LEMMA ReleaseReadStep ==
  ASSUME PoolInv, NEW th \in Threads, P!ReleaseLoad(th) \/ P!ReleaseRetry(th)
  PROVE  PoolInv'
<1> USE DEF PoolInv
<1>1. UNCHANGED <<poolHead, next, cache, inUse, task, linked, nextIdx>>
  BY DEF P!ReleaseLoad, P!ReleaseRetry, P!CasFails
<1>2. P!TypeOK'
  BY <1>1 DEF P!ReleaseLoad, P!ReleaseRetry, P!CasFails, P!Goto, P!TypeOK, P!Retry
<1>3. Calls'
  BY <1>1 DEF P!ReleaseLoad, P!ReleaseRetry, P!CasFails, P!Goto, P!Retry,
         P!TypeOK, Calls, Returns
<1>4. \A o \in Threads :
        /\ Returns(o)' => Returns(o)
        /\ poolPc'[o] = "casRelease" => poolPc[o] = "casRelease" /\ seen'[o] = seen[o]
        /\ P!Chain(o)' = P!Chain(o)
  BY <1>1, SameChain DEF P!ReleaseLoad, P!ReleaseRetry, P!CasFails, P!Goto, P!Retry,
         P!TypeOK, Returns
<1>5. Linked'
  BY <1>1, <1>4 DEF Linked
<1>6. \A o \in Threads : poolPc'[o] = "casAcquire" =>
        poolPc[o] = "casAcquire" /\ seen'[o] = seen[o]
  BY DEF P!ReleaseLoad, P!ReleaseRetry, P!CasFails, P!Goto, P!Retry, P!TypeOK
<1>7. Current'
  BY <1>1, <1>6 DEF Current
<1> QED BY <1>1, <1>2, <1>3, <1>5, <1>7, SamePlaces

-----------------------------------------------------------------------------
(* Steps of a thread on its own cache.                                      *)

\* The youngest task of the cache goes to the caller.
LEMMA AcquireCachedStep ==
  ASSUME PoolInv, NEW th \in Threads, P!AcquireCached(th)
  PROVE  PoolInv'
<1> USE DEF PoolInv
<1> DEFINE m == Len(cache[th])
           t == cache[th][m]
           rest == SubSeq(cache[th], 1, m - 1)
<1>1. cache[th] \in Seq(P!Tasks) /\ m \in Nat \ {0} /\ t \in P!Tasks /\ m <= CacheCapacity
  BY EmptySeq DEF P!AcquireCached, P!TypeOK
<1>2. /\ rest \in Seq(P!Tasks) /\ Len(rest) = m - 1
      /\ \A k \in 1 .. m - 1 : rest[k] = cache[th][k]
  BY <1>1, SubSeqProperties
<1>3. /\ poolPc[th] = "idle" /\ inUse' = inUse \cup {t}
      /\ cache' = [cache EXCEPT ![th] = rest]
      /\ UNCHANGED <<poolHead, next, poolPc, seen, nextIdx, task, linked>>
  BY DEF P!AcquireCached
<1> HIDE DEF m, t, rest
<1>4. cache'[th] = rest /\ \A o \in Threads : o # th => cache'[o] = cache[o]
  BY <1>3 DEF P!TypeOK
<1>5. P!TypeOK'
  <2>1. cache' \in [Threads -> Seq(P!Tasks)]
    BY <1>2, <1>3 DEF P!TypeOK
  <2>2. \A o \in Threads : Len(cache'[o]) <= CacheCapacity
    <3>1. m - 1 <= CacheCapacity
      BY <1>1, ConstantFacts
    <3> QED BY <1>2, <1>4, <3>1 DEF P!TypeOK
  <2> QED BY <1>1, <1>3, <2>1, <2>2 DEF P!TypeOK, P!Heads
<1>6. Calls'
  BY <1>3, <1>4 DEF Calls, Returns
<1>7. \A o \in Threads : Returns(o)' => Returns(o) /\ P!Chain(o)' = P!Chain(o)
  BY <1>3, <1>4, SameChain DEF Returns
<1>8. Linked' /\ Current'
  BY <1>3, <1>7 DEF Linked, Current
<1>9. Places'
  <2> PICK kind, owner, at, n : Ordered(kind, at, n) /\ Located(kind, owner, at)
    BY DEF Places
  <2> PICK kind2 : kind2 = [kind EXCEPT ![t] = "used"]
    OBVIOUS
  <2>1. kind[t] = "cache" /\ owner[t] = th /\ at[t] = m /\ m \in 1 .. Len(cache[th])
    BY <1>1 DEF Located, m, t
  <2>2. Ordered(kind2, at, n)'
    <3>1. \A u \in P!Tasks : kind2[u] = "list" <=> kind[u] = "list"
      BY <2>1 DEF Located
    <3> QED BY <1>3, <3>1 DEF Ordered
  <2>3. \A o \in Threads : \A k \in 1 .. Len(cache'[o]) :
          k \in 1 .. Len(cache[o]) /\ cache'[o][k] = cache[o][k] /\ cache[o][k] # t
    <3> TAKE o \in Threads
    <3> TAKE k \in 1 .. Len(cache'[o])
    <3>1. CASE o = th
      <4>1. k \in 1 .. m - 1 /\ k \in 1 .. Len(cache[th]) /\ k # m
        BY <1>1, <1>2, <1>4, <3>1 DEF m
      <4>2. at[cache[th][k]] = k
        BY <4>1 DEF Located
      <4> QED BY <1>2, <1>4, <2>1, <3>1, <4>1, <4>2
    <3>2. CASE o # th
      BY <1>4, <2>1, <3>2 DEF Located
    <3> QED BY <3>1, <3>2
  <2>4. \A u \in P!Tasks : kind2[u] = IF u = t THEN "used" ELSE kind[u]
    BY DEF Located
  <2>5. kind2 \in [P!Tasks -> Kinds]
    BY DEF Located, Kinds
  <2>6. \A u \in P!Tasks : kind2[u] = "cache" =>
          owner[u] \in Threads /\ at[u] \in 1 .. Len(cache'[owner[u]]) /\ cache'[owner[u]][at[u]] = u
    <3> SUFFICES ASSUME NEW u \in P!Tasks, kind2[u] = "cache"
                 PROVE owner[u] \in Threads /\ at[u] \in 1 .. Len(cache'[owner[u]])
                         /\ cache'[owner[u]][at[u]] = u
      OBVIOUS
    <3>1. u # t /\ owner[u] \in Threads /\ at[u] \in 1 .. Len(cache[owner[u]])
            /\ cache[owner[u]][at[u]] = u /\ at[u] \in Nat
      BY <2>4 DEF Located
    <3>2. CASE owner[u] = th
      <4>1. at[u] # m
        BY <3>1, <3>2 DEF t
      <4>2. at[u] \in 1 .. m - 1
        BY <1>1, <3>1, <3>2, <4>1 DEF m
      <4> QED BY <1>2, <1>4, <3>1, <3>2, <4>2
    <3>3. CASE owner[u] # th
      BY <1>4, <3>1, <3>3
    <3> QED BY <3>2, <3>3
  <2>7. \A u \in P!Tasks : kind2[u] = "used" <=> u \in inUse'
    BY <1>3, <2>4 DEF Located
  <2>8. \A u \in P!Tasks : kind2[u] = "back" => owner[u] \in Threads /\ task'[owner[u]] = u
    BY <1>3, <2>4 DEF Located
  <2>9. \A o \in Threads : task'[o] # 0 => kind2[task'[o]] = "back" /\ owner[task'[o]] = o
    <3>1. \A o \in Threads : task[o] \in P!Tasks \cup {0}
      BY DEF P!TypeOK, P!Empty
    <3> QED BY <1>3, <2>1, <2>4, <3>1 DEF Located
  <2>10. \A o \in Threads : \A k \in 1 .. Len(cache'[o]) :
          kind2[cache'[o][k]] = "cache" /\ owner[cache'[o][k]] = o /\ at[cache'[o][k]] = k
    <3>1. \A o \in Threads : \A k \in 1 .. Len(cache[o]) : cache[o][k] \in P!Tasks
      BY DEF P!TypeOK
    <3> QED BY <2>3, <2>4, <3>1 DEF Located
  <2>11. Located(kind2, owner, at)'
    <3>1. at \in [P!Tasks -> Nat] /\ DOMAIN owner = P!Tasks
      BY DEF Located
    <3> QED BY <2>5, <2>6, <2>7, <2>8, <2>9, <2>10, <3>1 DEF Located
  <2> QED BY <2>2, <2>11 DEF Places
<1> QED BY <1>5, <1>6, <1>8, <1>9

\* A released task goes into the cache.
LEMMA ReleaseCachedStep ==
  ASSUME PoolInv, NEW th \in Threads, P!ReleaseCached(th)
  PROVE  PoolInv'
<1> USE DEF PoolInv
<1>1. PICK t \in inUse : inUse' = inUse \ {t} /\ cache' = [cache EXCEPT ![th] = Append(@, t)]
  BY DEF P!ReleaseCached
<1>2. /\ poolPc[th] = "idle"
      /\ UNCHANGED <<poolHead, next, poolPc, seen, nextIdx, task, linked>>
  BY DEF P!ReleaseCached
<1> DEFINE m == Len(cache[th])
           more == Append(cache[th], t)
<1>3. t \in P!Tasks /\ cache[th] \in Seq(P!Tasks) /\ m \in Nat /\ m + 1 <= CacheCapacity
  BY ConstantFacts DEF P!ReleaseCached, P!HasRoom, P!TypeOK
<1>4. /\ more \in Seq(P!Tasks) /\ Len(more) = m + 1 /\ more[m + 1] = t
      /\ \A k \in 1 .. m : more[k] = cache[th][k]
  BY <1>3, AppendProperties
<1>5. cache' = [cache EXCEPT ![th] = more]
  BY <1>1
<1> HIDE DEF m, more
<1>6. cache'[th] = more /\ \A o \in Threads : o # th => cache'[o] = cache[o]
  BY <1>5 DEF P!TypeOK
<1>7. P!TypeOK'
  <2>1. cache' \in [Threads -> Seq(P!Tasks)]
    BY <1>4, <1>5 DEF P!TypeOK
  <2>2. \A o \in Threads : Len(cache'[o]) <= CacheCapacity
    BY <1>3, <1>4, <1>6 DEF P!TypeOK
  <2> QED BY <1>1, <1>2, <2>1, <2>2 DEF P!TypeOK, P!Heads
<1>8. Calls'
  BY <1>2, <1>6 DEF Calls, Returns
<1>9. \A o \in Threads : Returns(o)' => Returns(o) /\ P!Chain(o)' = P!Chain(o)
  BY <1>2, <1>6, SameChain DEF Returns
<1>10. Linked' /\ Current'
  BY <1>2, <1>9 DEF Linked, Current
<1>11. Places'
  <2> PICK kind, owner, at, n : Ordered(kind, at, n) /\ Located(kind, owner, at)
    BY DEF Places
  <2> PICK kind2, owner2, at2 :
        /\ kind2 = [kind EXCEPT ![t] = "cache"] /\ owner2 = [owner EXCEPT ![t] = th]
        /\ at2 = [at EXCEPT ![t] = m + 1]
    OBVIOUS
  <2>1. kind[t] = "used"
    BY <1>3 DEF Located
  <2>2. /\ kind2 \in [P!Tasks -> Kinds] /\ at2 \in [P!Tasks -> Nat] /\ DOMAIN owner2 = P!Tasks
        /\ kind2[t] = "cache" /\ owner2[t] = th /\ at2[t] = m + 1
        /\ \A u \in P!Tasks : u # t => kind2[u] = kind[u] /\ owner2[u] = owner[u] /\ at2[u] = at[u]
    BY <1>3 DEF Located, Kinds
  <2>3. Ordered(kind2, at2, n)'
    BY <1>2, <2>1, <2>2 DEF Ordered
  <2>4. \A u \in P!Tasks : kind2[u] = "used" <=> u \in inUse'
    BY <1>1, <2>2 DEF Located
  <2>5. \A u \in P!Tasks : kind2[u] = "back" => owner2[u] \in Threads /\ task'[owner2[u]] = u
    BY <1>2, <2>2 DEF Located
  <2>6. \A o \in Threads : task'[o] # 0 => kind2[task'[o]] = "back" /\ owner2[task'[o]] = o
    <3>1. \A o \in Threads : task[o] \in P!Tasks \cup {0}
      BY DEF P!TypeOK, P!Empty
    <3> QED BY <1>2, <2>1, <2>2, <3>1 DEF Located
  <2>7. \A u \in P!Tasks : kind2[u] = "cache" =>
          owner2[u] \in Threads /\ at2[u] \in 1 .. Len(cache'[owner2[u]])
            /\ cache'[owner2[u]][at2[u]] = u
    <3> SUFFICES ASSUME NEW u \in P!Tasks, kind2[u] = "cache"
                 PROVE owner2[u] \in Threads /\ at2[u] \in 1 .. Len(cache'[owner2[u]])
                         /\ cache'[owner2[u]][at2[u]] = u
      OBVIOUS
    <3>1. CASE u = t
      BY <1>3, <1>4, <1>6, <2>2, <3>1
    <3>2. CASE u # t
      <4>1. /\ owner2[u] = owner[u] /\ at2[u] = at[u] /\ owner[u] \in Threads
            /\ at[u] \in 1 .. Len(cache[owner[u]]) /\ cache[owner[u]][at[u]] = u
        BY <2>2, <3>2 DEF Located
      <4>2. CASE owner[u] = th
        BY <1>3, <1>4, <1>6, <4>1, <4>2 DEF m
      <4>3. CASE owner[u] # th
        BY <1>6, <4>1, <4>3
      <4> QED BY <4>2, <4>3
    <3> QED BY <3>1, <3>2
  <2>8. \A o \in Threads : \A k \in 1 .. Len(cache'[o]) :
          kind2[cache'[o][k]] = "cache" /\ owner2[cache'[o][k]] = o /\ at2[cache'[o][k]] = k
    <3>1. \A o \in Threads : \A k \in 1 .. Len(cache[o]) :
            cache[o][k] \in P!Tasks /\ cache[o][k] # t
      BY <2>1 DEF P!TypeOK, Located
    <3> TAKE o \in Threads
    <3> TAKE k \in 1 .. Len(cache'[o])
    <3>2. CASE o = th /\ k = m + 1
      BY <1>4, <1>6, <2>2, <3>2
    <3>3. CASE o = th /\ k # m + 1
      <4>1. k \in 1 .. m /\ k \in 1 .. Len(cache[th])
        BY <1>3, <1>4, <1>6, <3>3 DEF m
      <4>2. cache'[o][k] = cache[th][k]
        BY <1>4, <1>6, <3>3, <4>1
      <4> QED BY <2>2, <3>1, <3>3, <4>1, <4>2 DEF Located
    <3>4. CASE o # th
      <4>1. k \in 1 .. Len(cache[o]) /\ cache'[o][k] = cache[o][k]
        BY <1>6, <3>4
      <4> QED BY <2>2, <3>1, <4>1 DEF Located
    <3> QED BY <3>2, <3>3, <3>4
  <2>9. Located(kind2, owner2, at2)'
    BY <2>2, <2>4, <2>5, <2>6, <2>7, <2>8 DEF Located
  <2> QED BY <2>3, <2>9 DEF Places
<1> QED BY <1>7, <1>8, <1>10, <1>11

\* The cache is full: a released task will go back to the list with a part of it.
LEMMA ReleaseSharedStep ==
  ASSUME PoolInv, NEW th \in Threads, P!ReleaseShared(th)
  PROVE  PoolInv'
<1> USE DEF PoolInv
<1>1. PICK t \in inUse : inUse' = inUse \ {t} /\ task' = [task EXCEPT ![th] = t]
  BY DEF P!ReleaseShared
<1>2. /\ poolPc[th] = "idle" /\ poolPc' = [poolPc EXCEPT ![th] = "link"]
      /\ Len(cache[th]) = CacheCapacity /\ task[th] = 0 /\ linked[th] = 0
      /\ UNCHANGED <<poolHead, next, cache, seen, nextIdx, linked>>
  <2>1. cache[th] \in Seq(P!Tasks) /\ Len(cache[th]) \in Nat /\ Len(cache[th]) <= CacheCapacity
    BY DEF P!TypeOK
  <2>2. ~(Len(cache[th]) < CacheCapacity)
    BY DEF P!ReleaseShared, P!HasRoom
  <2>3. Len(cache[th]) = CacheCapacity
    BY <2>1, <2>2, ConstantFacts
  <2> QED BY <2>3 DEF P!ReleaseShared, P!Goto, Calls, Returns
<1>3. t \in P!Tasks /\ t # 0
  BY ConstantFacts DEF P!TypeOK
<1>4. task'[th] = t /\ \A o \in Threads : o # th => task'[o] = task[o]
  BY <1>1 DEF P!TypeOK
<1>5. poolPc'[th] = "link" /\ \A o \in Threads : o # th => poolPc'[o] = poolPc[o]
  BY <1>2 DEF P!TypeOK
<1>6. P!TypeOK'
  BY <1>1, <1>2, <1>3 DEF P!TypeOK, P!Heads
<1>7. Calls'
  BY <1>2, <1>3, <1>4, <1>5 DEF Calls, Returns
<1>8. \A o \in Threads : Returns(o)' =>
        o = th \/ (Returns(o) /\ poolPc'[o] = poolPc[o] /\ P!Chain(o)' = P!Chain(o))
  BY <1>2, <1>4, <1>5, SameChain DEF Returns
<1>9. Linked'
  <2>1. \A k \in 1 .. linked'[th] : FALSE
    BY <1>2
  <2> QED BY <1>2, <1>5, <1>8, <2>1 DEF Linked
<1>10. Current'
  BY <1>2, <1>5 DEF Current
<1>11. Places'
  <2> PICK kind, owner, at, n : Ordered(kind, at, n) /\ Located(kind, owner, at)
    BY DEF Places
  <2> PICK kind2, owner2 :
        kind2 = [kind EXCEPT ![t] = "back"] /\ owner2 = [owner EXCEPT ![t] = th]
    OBVIOUS
  <2>1. kind[t] = "used"
    BY <1>3 DEF Located
  <2>2. /\ kind2 \in [P!Tasks -> Kinds] /\ at \in [P!Tasks -> Nat] /\ DOMAIN owner2 = P!Tasks
        /\ kind2[t] = "back" /\ owner2[t] = th
        /\ \A u \in P!Tasks : u # t => kind2[u] = kind[u] /\ owner2[u] = owner[u]
    BY <1>3 DEF Located, Kinds
  <2>3. Ordered(kind2, at, n)'
    BY <1>2, <2>1, <2>2 DEF Ordered
  <2>4. \A u \in P!Tasks : kind2[u] = "used" <=> u \in inUse'
    BY <1>1, <2>2 DEF Located
  <2>5. \A u \in P!Tasks : kind2[u] = "back" => owner2[u] \in Threads /\ task'[owner2[u]] = u
    <3> SUFFICES ASSUME NEW u \in P!Tasks, kind2[u] = "back"
                 PROVE owner2[u] \in Threads /\ task'[owner2[u]] = u
      OBVIOUS
    <3>1. CASE u = t
      BY <1>4, <2>2, <3>1
    <3>2. CASE u # t
      <4>1. owner2[u] = owner[u] /\ owner[u] \in Threads /\ task[owner[u]] = u
        BY <2>2, <3>2 DEF Located
      <4>2. owner[u] # th
        BY <1>2, <4>1, ConstantFacts
      <4> QED BY <1>4, <4>1, <4>2
    <3> QED BY <3>1, <3>2
  <2>6. \A o \in Threads : task'[o] # 0 => kind2[task'[o]] = "back" /\ owner2[task'[o]] = o
    <3>1. \A o \in Threads : task[o] \in P!Tasks \cup {0}
      BY DEF P!TypeOK, P!Empty
    <3> QED BY <1>4, <2>1, <2>2, <3>1 DEF Located
  <2>7. \A u \in P!Tasks : kind2[u] = "cache" =>
          owner2[u] \in Threads /\ at[u] \in 1 .. Len(cache'[owner2[u]])
            /\ cache'[owner2[u]][at[u]] = u
    BY <1>2, <2>2 DEF Located
  <2>8. \A o \in Threads : \A k \in 1 .. Len(cache'[o]) :
          kind2[cache'[o][k]] = "cache" /\ owner2[cache'[o][k]] = o /\ at[cache'[o][k]] = k
    <3>1. \A o \in Threads : \A k \in 1 .. Len(cache[o]) :
            cache[o][k] \in P!Tasks /\ cache[o][k] # t
      BY <2>1 DEF P!TypeOK, Located
    <3> QED BY <1>2, <2>2, <3>1 DEF Located
  <2>9. Located(kind2, owner2, at)'
    BY <2>2, <2>4, <2>5, <2>6, <2>7, <2>8 DEF Located
  <2> QED BY <2>3, <2>9 DEF Places
<1> QED BY <1>6, <1>7, <1>9, <1>10, <1>11

-----------------------------------------------------------------------------
(* Steps of a release that link its chain.                                  *)

\* A store into a task of a chain disturbs neither the list nor any other task
\* of this or another chain.
LEMMA ChainWrite ==
  ASSUME PoolInv, NEW th \in Threads, Returns(th), NEW j \in 1 .. EvictCount + 1,
         \A u \in P!Tasks : u # P!Chain(th)[j] => next'[u] = next[u],
         UNCHANGED <<poolHead, cache, inUse, task>>
  PROVE  /\ Places'
         /\ \A o \in Threads : \A i \in 1 .. EvictCount + 1 :
              Returns(o) /\ (o # th \/ i # j) => next'[P!Chain(o)[i]] = next[P!Chain(o)[i]]
         /\ poolHead.idx # 0 => next'[poolHead.idx] = next[poolHead.idx]
<1> USE DEF PoolInv
<1> PICK kind, owner, at, n : Ordered(kind, at, n) /\ Located(kind, owner, at)
  BY DEF Places
<1> DEFINE c == P!Chain(th)[j]
<1>1. c \in P!Tasks /\ kind[c] # "list"
  BY ChainPlaces, ConstantFacts
<1>2. next \in [P!Tasks -> P!Tasks \cup {0}] /\ poolHead.idx \in P!Tasks \cup {0}
  BY DEF P!TypeOK, P!Empty, P!Heads
<1>3. \A u \in P!Tasks : u # c => next'[u] = next[u]
  OBVIOUS
<1>4. \A o \in Threads : \A i \in 1 .. EvictCount + 1 :
        Returns(o) /\ (o # th \/ i # j) => P!Chain(o)[i] \in P!Tasks /\ P!Chain(o)[i] # c
  <2> SUFFICES ASSUME NEW o \in Threads, NEW i \in 1 .. EvictCount + 1, Returns(o),
                      o # th \/ i # j
               PROVE  P!Chain(o)[i] \in P!Tasks /\ P!Chain(o)[i] # c
    OBVIOUS
  <2>1. /\ P!Chain(o)[i] \in P!Tasks /\ owner[P!Chain(o)[i]] = o
        /\ i <= EvictCount => /\ kind[P!Chain(o)[i]] = "cache"
                              /\ at[P!Chain(o)[i]] = CacheCapacity - EvictCount + i
        /\ i = EvictCount + 1 => kind[P!Chain(o)[i]] = "back"
    BY ChainPlaces
  <2>2. /\ owner[c] = th
        /\ j <= EvictCount => kind[c] = "cache" /\ at[c] = CacheCapacity - EvictCount + j
        /\ j = EvictCount + 1 => kind[c] = "back"
    BY ChainPlaces
  <2> HIDE DEF c
  <2>3. ASSUME P!Chain(o)[i] = c PROVE o = th /\ i = j
    BY <2>1, <2>2, <2>3, ConstantFacts
  <2> QED BY <2>1, <2>3
<1>5. n > 0 => poolHead.idx # c
  BY <1>1 DEF Ordered
<1>6. poolHead.idx # 0 => next'[poolHead.idx] = next[poolHead.idx]
  <2>1. n \in Nat /\ (n = 0 => poolHead.idx = 0)
    BY DEF Ordered
  <2> QED BY <1>2, <1>3, <1>5, <2>1
<1> HIDE DEF c
<1>7. Ordered(kind, at, n)'
  BY <1>1, <1>3 DEF Ordered
<1>8. Located(kind, owner, at)'
  BY DEF Located
<1>9. Places'
  BY <1>7, <1>8 DEF Places
<1> QED BY <1>3, <1>4, <1>6, <1>9 DEF c

\* One task of the chain is linked to the one before it.
LEMMA ReleaseLinkStep ==
  ASSUME PoolInv, NEW th \in Threads, P!ReleaseLink(th)
  PROVE  PoolInv'
<1> USE DEF PoolInv
<1> PICK k : k = linked[th] + 1
  OBVIOUS
<1>1. /\ poolPc[th] = "link" /\ linked[th] \in Nat /\ k \in 1 .. EvictCount
      /\ linked' = [linked EXCEPT ![th] = k]
      /\ next' = [next EXCEPT ![P!Chain(th)[k + 1]] = P!Chain(th)[k]]
      /\ UNCHANGED <<poolHead, cache, inUse, poolPc, seen, nextIdx, task>>
  BY ConstantFacts DEF P!ReleaseLink, P!Link, P!TypeOK
<1>2. Returns(th)
  BY <1>1 DEF Returns
<1>3. /\ k + 1 \in 1 .. EvictCount + 1 /\ k \in 1 .. EvictCount + 1
      /\ P!Chain(th)[k + 1] \in P!Tasks /\ P!Chain(th)[k] \in P!Tasks
  <2>1. k + 1 \in 1 .. EvictCount + 1 /\ k \in 1 .. EvictCount + 1
    BY <1>1, ConstantFacts
  <2>2. P!Chain(th) \in Seq(P!Tasks) /\ Len(P!Chain(th)) = EvictCount + 1
    BY <1>2, ChainFacts
  <2> QED BY <2>1, <2>2
<1>4. /\ Places' /\ next'[P!Chain(th)[k + 1]] = P!Chain(th)[k]
      /\ \A o \in Threads : \A i \in 1 .. EvictCount + 1 :
           Returns(o) /\ (o # th \/ i # k + 1) => next'[P!Chain(o)[i]] = next[P!Chain(o)[i]]
      /\ poolHead.idx # 0 => next'[poolHead.idx] = next[poolHead.idx]
  <2> PICK j \in 1 .. EvictCount + 1 : j = k + 1
    BY <1>3
  <2>1. /\ \A u \in P!Tasks : u # P!Chain(th)[j] => next'[u] = next[u]
        /\ next'[P!Chain(th)[k + 1]] = P!Chain(th)[k]
    BY <1>1, <1>3 DEF P!TypeOK
  <2>2. UNCHANGED <<poolHead, cache, inUse, task>>
    BY <1>1
  <2> QED BY <1>2, <2>1, <2>2, ChainWrite
<1>5. linked'[th] = k /\ \A o \in Threads : o # th => linked'[o] = linked[o]
  BY <1>1 DEF P!TypeOK
<1>6. P!TypeOK'
  <2>1. next' \in [P!Tasks -> P!Tasks \cup {P!Empty}]
    BY <1>1, <1>3 DEF P!TypeOK
  <2>2. linked' \in [Threads -> 0 .. EvictCount]
    BY <1>1, ConstantFacts DEF P!TypeOK
  <2> QED BY <1>1, <2>1, <2>2 DEF P!TypeOK, P!Heads
<1>7. Calls'
  BY <1>1, <1>5 DEF Calls, Returns
<1>8. \A o \in Threads : (Returns(o)' <=> Returns(o)) /\ P!Chain(o)' = P!Chain(o)
  BY <1>1, SameChain DEF Returns
<1>9. Linked'
  <2> SUFFICES ASSUME NEW o \in Threads, Returns(o)
               PROVE  /\ \A i \in 1 .. linked'[o] : next'[P!Chain(o)[i + 1]] = P!Chain(o)[i]
                      /\ poolPc[o] = "casRelease" => next'[P!Chain(o)[1]] = seen[o].idx
    BY <1>1, <1>8 DEF Linked
  <2>1. linked[o] \in Nat /\ linked[o] <= EvictCount
    BY ConstantFacts DEF P!TypeOK
  <2>2. CASE o = th
    <3>1. ASSUME NEW i \in 1 .. linked'[o] PROVE next'[P!Chain(o)[i + 1]] = P!Chain(o)[i]
      <4>1. CASE i = k
        BY <1>4, <2>2, <4>1
      <4>2. CASE i # k
        <5>1. i \in 1 .. linked[th] /\ i + 1 \in 1 .. EvictCount + 1 /\ i + 1 # k + 1
          BY <1>1, <1>5, <2>1, <2>2, <4>2, ConstantFacts
        <5>2. next[P!Chain(th)[i + 1]] = P!Chain(th)[i]
          BY <1>2, <5>1 DEF Linked
        <5> QED BY <1>2, <1>4, <2>2, <5>1, <5>2
      <4> QED BY <4>1, <4>2
    <3> QED BY <1>1, <2>2, <3>1
  <2>3. CASE o # th
    <3>1. \A i \in 1 .. linked[o] : i + 1 \in 1 .. EvictCount + 1
      BY <2>1, ConstantFacts
    <3>2. 1 \in 1 .. EvictCount + 1
      BY ConstantFacts
    <3> QED BY <1>4, <1>5, <2>3, <3>1, <3>2 DEF Linked
  <2> QED BY <2>2, <2>3
<1>10. Current'
  BY <1>1, <1>4 DEF Current, Calls
<1> QED BY <1>4, <1>6, <1>7, <1>9, <1>10

\* The end of the chain is linked to the list as the thread saw it.
LEMMA ReleaseTailStep ==
  ASSUME PoolInv, NEW th \in Threads, P!ReleaseTail(th)
  PROVE  PoolInv'
<1> USE DEF PoolInv
<1>1. /\ poolPc[th] = "tail" /\ poolPc' = [poolPc EXCEPT ![th] = "casRelease"]
      /\ next' = [next EXCEPT ![P!Chain(th)[1]] = seen[th].idx]
      /\ UNCHANGED <<poolHead, cache, inUse, seen, nextIdx, task, linked>>
  BY DEF P!ReleaseTail, P!Goto
<1>2. Returns(th)
  BY <1>1 DEF Returns
<1>3. 1 \in 1 .. EvictCount + 1 /\ P!Chain(th)[1] \in P!Tasks
  BY <1>2, ChainFacts, ConstantFacts
<1>4. /\ Places' /\ next'[P!Chain(th)[1]] = seen[th].idx
      /\ \A o \in Threads : \A i \in 1 .. EvictCount + 1 :
           Returns(o) /\ (o # th \/ i # 1) => next'[P!Chain(o)[i]] = next[P!Chain(o)[i]]
      /\ poolHead.idx # 0 => next'[poolHead.idx] = next[poolHead.idx]
  <2>1. /\ \A u \in P!Tasks : u # P!Chain(th)[1] => next'[u] = next[u]
        /\ next'[P!Chain(th)[1]] = seen[th].idx
    BY <1>1, <1>3 DEF P!TypeOK
  <2>2. UNCHANGED <<poolHead, cache, inUse, task>>
    BY <1>1
  <2> QED BY <1>2, <1>3, <2>1, <2>2, ChainWrite
<1>5. poolPc'[th] = "casRelease" /\ \A o \in Threads : o # th => poolPc'[o] = poolPc[o]
  BY <1>1 DEF P!TypeOK
<1>6. P!TypeOK'
  <2>1. next' \in [P!Tasks -> P!Tasks \cup {P!Empty}]
    BY <1>1, <1>3 DEF P!TypeOK, P!Heads
  <2>2. poolPc' \in [Threads -> {"idle", "load", "next", "casAcquire", "link", "tail", "casRelease"}]
    BY <1>1 DEF P!TypeOK
  <2> QED BY <1>1, <2>1, <2>2 DEF P!TypeOK, P!Heads
<1>7. Calls'
  BY <1>1, <1>5 DEF Calls, Returns
<1>8. \A o \in Threads : (Returns(o)' <=> Returns(o)) /\ P!Chain(o)' = P!Chain(o)
  BY <1>1, <1>5, SameChain DEF Returns
<1>9. Linked'
  <2> SUFFICES ASSUME NEW o \in Threads, Returns(o)
               PROVE  /\ \A i \in 1 .. linked[o] : next'[P!Chain(o)[i + 1]] = P!Chain(o)[i]
                      /\ poolPc'[o] = "casRelease" => next'[P!Chain(o)[1]] = seen[o].idx
    BY <1>1, <1>8 DEF Linked
  <2>1. linked[o] \in Nat /\ linked[o] <= EvictCount
    BY ConstantFacts DEF P!TypeOK
  <2>2. \A i \in 1 .. linked[o] : i + 1 \in 1 .. EvictCount + 1 /\ i + 1 # 1
    BY <2>1, ConstantFacts
  <2>3. \A i \in 1 .. linked[o] : next'[P!Chain(o)[i + 1]] = P!Chain(o)[i]
    BY <1>4, <2>2 DEF Linked
  <2>4. poolPc'[o] = "casRelease" => next'[P!Chain(o)[1]] = seen[o].idx
    BY <1>3, <1>4, <1>5 DEF Linked
  <2> QED BY <2>3, <2>4
<1>10. Current'
  BY <1>1, <1>4, <1>5 DEF Current, Calls
<1> QED BY <1>4, <1>6, <1>7, <1>9, <1>10

-----------------------------------------------------------------------------
(* The compare-and-swaps.                                                   *)

\* The new tag is none that a thread between load and compare-and-swap has.
LEMMA CasFacts ==
  ASSUME P!TypeOK, NEW th \in Threads, NEW i, P!CasSucceeds(th, i)
  PROVE  /\ poolHead = seen[th] /\ poolHead' = [idx |-> i, tag |-> (poolHead.tag + 1) % TagMod]
         /\ (poolHead.tag + 1) % TagMod \in 0 .. TagMod - 1
         /\ \A o \in Threads :
              poolPc[o] \in {"next", "casAcquire", "tail", "casRelease"} => seen[o] # poolHead'
<1>1. /\ poolHead = seen[th] /\ poolHead' = [idx |-> i, tag |-> (poolHead.tag + 1) % TagMod]
      /\ P!TagStaysAhead
  BY DEF P!CasSucceeds, P!PackNext
<1>2. poolHead.tag \in Nat
  BY ConstantFacts DEF P!TypeOK, P!Heads
<1>3. (poolHead.tag + 1) % TagMod \in 0 .. TagMod - 1
  BY <1>2, ConstantFacts
<1>4. poolHead'.tag = (poolHead.tag + 1) % TagMod
  BY <1>1
<1> QED BY <1>1, <1>3, <1>4 DEF P!TagStaysAhead

\* acquire takes the first task of the list.
LEMMA AcquireCasStep ==
  ASSUME PoolInv, NEW th \in Threads, P!AcquireCas(th)
  PROVE  PoolInv'
<1> USE DEF PoolInv
<1> PICK c : c = poolHead.idx
  OBVIOUS
<1>1. /\ poolPc[th] = "casAcquire" /\ P!CasSucceeds(th, nextIdx[th])
      /\ inUse' = inUse \cup {c} /\ P!ReturnFrom(th)
      /\ UNCHANGED <<next, cache>>
  BY DEF P!AcquireCas, P!CasSucceeds
<1>2. c \in P!Tasks /\ nextIdx[th] = next[c] /\ cache[th] = <<>> /\ task[th] = 0
  <2>1. poolHead = seen[th] /\ seen[th].idx # 0
    BY <1>1 DEF P!CasSucceeds, Calls
  <2> QED BY <1>1, <2>1 DEF Current, Calls, Returns, P!TypeOK, P!Heads, P!Empty
<1>3. poolHead' = [idx |-> next[c], tag |-> (poolHead.tag + 1) % TagMod]
  <2> PICK i : i = nextIdx[th]
    OBVIOUS
  <2> QED BY <1>1, <1>2, CasFacts
<1>4. /\ (poolHead.tag + 1) % TagMod \in 0 .. TagMod - 1
      /\ \A o \in Threads : poolPc[o] = "casAcquire" => seen[o] # poolHead'
  <2> PICK i : i = nextIdx[th]
    OBVIOUS
  <2> QED BY <1>1, CasFacts
<1>5. UNCHANGED task
  BY <1>1, <1>2 DEF P!ReturnFrom, P!TypeOK, P!Empty
<1>6. /\ poolPc' = [poolPc EXCEPT ![th] = "idle"] /\ seen' = [seen EXCEPT ![th] = P!Nothing]
      /\ nextIdx' = [nextIdx EXCEPT ![th] = 0] /\ linked' = [linked EXCEPT ![th] = 0]
  BY <1>1 DEF P!ReturnFrom, P!Goto, P!Empty
<1>7. P!TypeOK'
  <2>1. poolHead' \in P!Heads
    BY <1>2, <1>3, <1>4 DEF P!Heads, P!TypeOK
  <2>2. P!Nothing \in P!Heads /\ 0 \in 0 .. EvictCount
    BY ConstantFacts DEF P!Nothing, P!Heads, P!Empty
  <2>3. inUse' \subseteq P!Tasks
    BY <1>1, <1>2 DEF P!TypeOK
  <2>4. /\ seen' \in [Threads -> P!Heads] /\ linked' \in [Threads -> 0 .. EvictCount]
        /\ nextIdx' \in [Threads -> P!Tasks \cup {P!Empty}]
    BY <1>6, <2>2 DEF P!TypeOK, P!Empty
  <2>5. poolPc' \in [Threads -> {"idle", "load", "next", "casAcquire", "link", "tail", "casRelease"}]
    BY <1>6 DEF P!TypeOK
  <2> QED BY <1>1, <1>5, <2>1, <2>3, <2>4, <2>5 DEF P!TypeOK, P!Heads
<1>8. \A o \in Threads : o # th =>
        /\ poolPc'[o] = poolPc[o] /\ seen'[o] = seen[o] /\ linked'[o] = linked[o]
        /\ nextIdx'[o] = nextIdx[o]
  BY <1>6 DEF P!TypeOK
<1>9. poolPc'[th] = "idle" /\ linked'[th] = 0
  BY <1>6 DEF P!TypeOK
<1>10. Calls'
  BY <1>1, <1>2, <1>5, <1>8, <1>9 DEF Calls, Returns
<1>11. \A o \in Threads : Returns(o)' => o # th /\ Returns(o) /\ P!Chain(o)' = P!Chain(o)
  BY <1>1, <1>5, <1>8, <1>9, SameChain DEF Returns
<1>12. Linked'
  BY <1>1, <1>8, <1>11 DEF Linked
<1>13. Current'
  BY <1>4, <1>8, <1>9 DEF Current
<1>14. Places'
  <2> PICK kind, owner, at, n : Ordered(kind, at, n) /\ Located(kind, owner, at)
    BY DEF Places
  <2> PICK kind2 : kind2 = [kind EXCEPT ![c] = "used"]
    OBVIOUS
  <2>1. n \in Nat \ {0} /\ kind[c] = "list" /\ at[c] = n
    BY <1>2, ConstantFacts DEF Ordered
  <2>2. /\ kind2 \in [P!Tasks -> Kinds] /\ kind2[c] = "used"
        /\ \A u \in P!Tasks : u # c => kind2[u] = kind[u]
    BY <1>2 DEF Located, Kinds
  <2>3. poolHead'.idx = next[c]
    BY <1>3
  <2>4. Ordered(kind2, at, n - 1)'
    <3>1. n - 1 \in Nat
      BY <2>1
    <3>2. \A u \in P!Tasks : kind2[u] = "list" => at[u] \in 1 .. n - 1
      <4> SUFFICES ASSUME NEW u \in P!Tasks, kind2[u] = "list" PROVE at[u] \in 1 .. n - 1
        OBVIOUS
      <4>1. u # c /\ kind[u] = "list" /\ at[u] \in 1 .. n /\ at[u] # at[c]
        BY <1>2, <2>1, <2>2 DEF Ordered
      <4> QED BY <2>1, <4>1
    <3>3. \A k \in 1 .. n - 1 : \E u \in P!Tasks : kind2[u] = "list" /\ at[u] = k
      <4> TAKE k \in 1 .. n - 1
      <4>1. k \in 1 .. n /\ k # n
        BY <2>1
      <4> QED BY <2>1, <2>2, <4>1 DEF Ordered
    <3>4. \A u, v \in P!Tasks : kind2[u] = "list" /\ kind2[v] = "list" /\ at[u] = at[v] => u = v
      BY <2>1, <2>2 DEF Ordered
    <3>5. at[c] = 1 => next[c] = 0
      BY <1>2, <2>1 DEF Ordered
    <3>6. at[c] > 1 => next[c] \in P!Tasks /\ kind[next[c]] = "list" /\ at[next[c]] = at[c] - 1
      BY <1>2, <2>1 DEF Ordered
    <3>7. n - 1 = 0 => poolHead'.idx = 0
      BY <2>1, <2>3, <3>5
    <3>8. n - 1 > 0 => poolHead'.idx \in P!Tasks /\ kind2[poolHead'.idx] = "list"
                         /\ at[poolHead'.idx] = n - 1
      BY <2>1, <2>2, <2>3, <3>6
    <3>9. \A u \in P!Tasks : kind2[u] = "list" =>
            /\ at[u] = 1 => next[u] = 0
            /\ at[u] > 1 => next[u] \in P!Tasks /\ kind2[next[u]] = "list"
                              /\ at[next[u]] = at[u] - 1
      <4> SUFFICES ASSUME NEW u \in P!Tasks, kind2[u] = "list"
                   PROVE /\ at[u] = 1 => next[u] = 0
                         /\ at[u] > 1 => next[u] \in P!Tasks /\ kind2[next[u]] = "list"
                                           /\ at[next[u]] = at[u] - 1
        OBVIOUS
      <4>1. kind[u] = "list" /\ at[u] \in 1 .. n - 1
        BY <2>1, <2>2, <3>2
      <4>2. at[u] = 1 => next[u] = 0
        BY <4>1 DEF Ordered
      <4>3. at[u] > 1 => next[u] \in P!Tasks /\ kind[next[u]] = "list" /\ at[next[u]] = at[u] - 1
        BY <4>1 DEF Ordered
      <4>4. at[u] > 1 => next[u] # c
        BY <2>1, <4>1, <4>3
      <4> QED BY <2>2, <4>2, <4>3, <4>4
    <3> QED BY <1>1, <3>1, <3>2, <3>3, <3>4, <3>7, <3>8, <3>9 DEF Ordered
  <2>5. Located(kind2, owner, at)'
    <3>1. at \in [P!Tasks -> Nat] /\ DOMAIN owner = P!Tasks
      BY DEF Located
    <3>2. \A u \in P!Tasks : kind2[u] = "used" <=> u \in inUse'
      BY <1>1, <1>2, <2>2 DEF Located
    <3>3. \A u \in P!Tasks : kind2[u] = "back" => owner[u] \in Threads /\ task'[owner[u]] = u
      BY <1>5, <2>2 DEF Located
    <3>4. \A o \in Threads : task'[o] # 0 => kind2[task'[o]] = "back" /\ owner[task'[o]] = o
      <4>1. \A o \in Threads : task[o] \in P!Tasks \cup {0}
        BY DEF P!TypeOK, P!Empty
      <4> QED BY <1>5, <2>1, <2>2, <4>1 DEF Located
    <3>5. \A u \in P!Tasks : kind2[u] = "cache" =>
            owner[u] \in Threads /\ at[u] \in 1 .. Len(cache'[owner[u]])
              /\ cache'[owner[u]][at[u]] = u
      BY <1>1, <2>2 DEF Located
    <3>6. \A o \in Threads : \A k \in 1 .. Len(cache'[o]) :
            kind2[cache'[o][k]] = "cache" /\ owner[cache'[o][k]] = o /\ at[cache'[o][k]] = k
      <4>1. \A o \in Threads : \A k \in 1 .. Len(cache[o]) :
              cache[o][k] \in P!Tasks /\ cache[o][k] # c
        BY <2>1 DEF P!TypeOK, Located
      <4> QED BY <1>1, <2>2, <4>1 DEF Located
    <3> QED BY <2>2, <3>1, <3>2, <3>3, <3>4, <3>5, <3>6 DEF Located
  <2> QED BY <2>4, <2>5 DEF Places
<1> QED BY <1>7, <1>10, <1>12, <1>13, <1>14

\* Where the task u is in the chain of th, if it is.
InChain(kind, owner, at, th, u) ==
  /\ kind[u] \in {"cache", "back"} /\ owner[u] = th
  /\ kind[u] = "cache" => at[u] > CacheCapacity - EvictCount
InChainAt(kind, at, u) ==
  IF kind[u] = "back" THEN EvictCount + 1 ELSE at[u] - (CacheCapacity - EvictCount)

\* The tasks of a chain are those, in this order.
LEMMA ChainMembers ==
  ASSUME P!TypeOK, Calls, NEW th \in Threads, Returns(th),
         NEW kind, NEW owner, NEW at, Located(kind, owner, at)
  PROVE  /\ \A k \in 1 .. EvictCount + 1 :
              /\ P!Chain(th)[k] \in P!Tasks
              /\ InChain(kind, owner, at, th, P!Chain(th)[k])
              /\ InChainAt(kind, at, P!Chain(th)[k]) = k
         /\ \A u \in P!Tasks : InChain(kind, owner, at, th, u) =>
              /\ InChainAt(kind, at, u) \in 1 .. EvictCount + 1
              /\ u = P!Chain(th)[InChainAt(kind, at, u)]
<1>1. ASSUME NEW k \in 1 .. EvictCount + 1
      PROVE  /\ P!Chain(th)[k] \in P!Tasks
             /\ InChain(kind, owner, at, th, P!Chain(th)[k])
             /\ InChainAt(kind, at, P!Chain(th)[k]) = k
  <2> PICK c : c = P!Chain(th)[k]
    OBVIOUS
  <2>1. /\ c \in P!Tasks /\ owner[c] = th
        /\ k <= EvictCount => kind[c] = "cache" /\ at[c] = CacheCapacity - EvictCount + k
        /\ k = EvictCount + 1 => kind[c] = "back"
    BY ChainPlaces
  <2>2. k <= EvictCount \/ k = EvictCount + 1
    BY ConstantFacts
  <2>3. k <= EvictCount =>
          /\ at[c] > CacheCapacity - EvictCount /\ at[c] - (CacheCapacity - EvictCount) = k
    BY <2>1, ConstantFacts
  <2> QED BY <2>1, <2>2, <2>3 DEF InChain, InChainAt
<1>2. ASSUME NEW u \in P!Tasks, InChain(kind, owner, at, th, u)
      PROVE  /\ InChainAt(kind, at, u) \in 1 .. EvictCount + 1
             /\ u = P!Chain(th)[InChainAt(kind, at, u)]
  <2>1. CASE kind[u] = "back"
    <3>1. task[th] = u
      BY <1>2, <2>1 DEF InChain, Located
    <3> QED BY <2>1, <3>1, ChainFacts, ConstantFacts DEF InChainAt
  <2>2. CASE kind[u] = "cache"
    <3>1. /\ at[u] \in 1 .. Len(cache[th]) /\ cache[th][at[u]] = u
          /\ at[u] > CacheCapacity - EvictCount /\ Len(cache[th]) = CacheCapacity
      BY <1>2, <2>2 DEF InChain, Located, Calls
    <3> PICK k : k = at[u] - (CacheCapacity - EvictCount)
      OBVIOUS
    <3>2. k \in 1 .. EvictCount /\ at[u] = CacheCapacity - EvictCount + k
      BY <3>1, ConstantFacts
    <3>3. P!Chain(th)[k] = cache[th][CacheCapacity - EvictCount + k]
      BY <3>2, ChainFacts
    <3>4. InChainAt(kind, at, u) = k
      BY <2>2 DEF InChainAt
    <3>5. k \in 1 .. EvictCount + 1
      BY <3>2, ConstantFacts
    <3> QED BY <3>1, <3>2, <3>3, <3>4, <3>5
  <2> QED BY <1>2, <2>1, <2>2 DEF InChain
<1> QED BY <1>1, <1>2

\* The chain becomes the front of the list.
LEMMA ReleaseCasOrder ==
  ASSUME PoolInv, NEW th \in Threads, P!ReleaseCas(th),
         NEW kind, NEW owner, NEW at, NEW n, Ordered(kind, at, n), Located(kind, owner, at),
         NEW kind2, NEW at2,
         \A u \in P!Tasks :
           IF InChain(kind, owner, at, th, u)
           THEN kind2[u] = "list" /\ at2[u] = n + InChainAt(kind, at, u)
           ELSE kind2[u] = kind[u] /\ at2[u] = at[u]
  PROVE  Ordered(kind2, at2, n + EvictCount + 1)'
<1> USE DEF PoolInv
<1> DEFINE chain(u) == InChain(kind, owner, at, th, u)
           idx(u) == InChainAt(kind, at, u)
<1>1. /\ poolPc[th] = "casRelease" /\ poolHead = seen[th] /\ poolHead'.idx = task[th]
      /\ UNCHANGED next
  BY DEF P!ReleaseCas, P!CasSucceeds, P!PackNext
<1>2. Returns(th) /\ linked[th] = EvictCount
  BY <1>1 DEF Returns, Calls
<1>3. \A k \in 1 .. EvictCount + 1 :
        P!Chain(th)[k] \in P!Tasks /\ chain(P!Chain(th)[k]) /\ idx(P!Chain(th)[k]) = k
  BY <1>2, ChainMembers
<1>4. \A u \in P!Tasks : chain(u) =>
        idx(u) \in 1 .. EvictCount + 1 /\ u = P!Chain(th)[idx(u)]
  BY <1>2, ChainMembers
<1>5. \A u \in P!Tasks : kind[u] = "list" => ~chain(u)
  BY DEF InChain
<1> HIDE DEF chain, idx
<1>6. \A u \in P!Tasks :
        /\ chain(u) => kind2[u] = "list" /\ at2[u] = n + idx(u)
        /\ ~chain(u) => kind2[u] = kind[u] /\ at2[u] = at[u]
  BY DEF chain, idx
<1>7. n \in Nat /\ EvictCount \in Nat \ {0}
  BY ConstantFacts DEF Ordered
<1>8. \A u \in P!Tasks : kind[u] = "list" => kind2[u] = "list" /\ at2[u] = at[u] /\ at[u] \in 1 .. n
  BY <1>5, <1>6 DEF Ordered
<1>9. \A u \in P!Tasks : kind2[u] = "list" =>
        \/ chain(u) /\ at2[u] = n + idx(u) /\ idx(u) \in 1 .. EvictCount + 1
        \/ kind[u] = "list" /\ at2[u] = at[u] /\ at[u] \in 1 .. n
  BY <1>4, <1>6, <1>8
<1>10. \A u \in P!Tasks : kind2[u] = "list" => at2[u] \in 1 .. n + EvictCount + 1
  BY <1>7, <1>9
<1>11. \A k \in 1 .. n + EvictCount + 1 : \E u \in P!Tasks : kind2[u] = "list" /\ at2[u] = k
  <2> TAKE k \in 1 .. n + EvictCount + 1
  <2>1. CASE k <= n
    <3>1. k \in 1 .. n
      BY <1>7, <2>1
    <3>2. PICK u \in P!Tasks : kind[u] = "list" /\ at[u] = k
      BY <3>1 DEF Ordered
    <3> QED BY <1>8, <3>2
  <2>2. CASE k > n
    <3>1. k - n \in 1 .. EvictCount + 1 /\ n + (k - n) = k
      BY <1>7, <2>2
    <3> PICK i : i = k - n
      OBVIOUS
    <3> QED BY <1>3, <1>6, <3>1
  <2> QED BY <1>7, <2>1, <2>2
<1>12. \A u, v \in P!Tasks : kind2[u] = "list" /\ kind2[v] = "list" /\ at2[u] = at2[v] => u = v
  <2> SUFFICES ASSUME NEW u \in P!Tasks, NEW v \in P!Tasks,
                      kind2[u] = "list", kind2[v] = "list", at2[u] = at2[v]
               PROVE u = v
    OBVIOUS
  <2>1. CASE chain(u) /\ chain(v)
    <3>1. idx(u) = idx(v)
      BY <1>4, <1>6, <1>7, <2>1
    <3> QED BY <1>4, <2>1, <3>1
  <2>2. CASE kind[u] = "list" /\ kind[v] = "list"
    BY <1>8, <2>2 DEF Ordered
  <2>3. ~(at2[u] = n + idx(u) /\ idx(u) \in 1 .. EvictCount + 1 /\ at2[v] \in 1 .. n)
    BY <1>7
  <2>4. ~(at2[v] = n + idx(v) /\ idx(v) \in 1 .. EvictCount + 1 /\ at2[u] \in 1 .. n)
    BY <1>7
  <2> QED BY <1>9, <2>1, <2>2, <2>3, <2>4
<1>13. /\ poolHead'.idx \in P!Tasks /\ kind2[poolHead'.idx] = "list"
       /\ at2[poolHead'.idx] = n + EvictCount + 1
  <2>1. EvictCount + 1 \in 1 .. EvictCount + 1 /\ P!Chain(th)[EvictCount + 1] = task[th]
    BY <1>2, <1>7, ChainFacts
  <2>2. chain(task[th]) /\ idx(task[th]) = EvictCount + 1 /\ task[th] \in P!Tasks
    BY <1>3, <2>1
  <2> QED BY <1>1, <1>6, <1>7, <2>2
<1>14. ASSUME NEW u \in P!Tasks, kind2[u] = "list"
       PROVE  /\ at2[u] = 1 => next[u] = 0
              /\ at2[u] > 1 => next[u] \in P!Tasks /\ kind2[next[u]] = "list"
                                 /\ at2[next[u]] = at2[u] - 1
  <2>1. CASE kind[u] = "list"
    <3>1. at2[u] = at[u] /\ at[u] \in 1 .. n
      BY <1>8, <2>1
    <3>2. at[u] = 1 => next[u] = 0
      BY <2>1 DEF Ordered
    <3>3. at[u] > 1 => next[u] \in P!Tasks /\ kind[next[u]] = "list" /\ at[next[u]] = at[u] - 1
      BY <2>1 DEF Ordered
    <3> QED BY <1>8, <3>1, <3>2, <3>3
  <2>2. CASE chain(u)
    <3>1. idx(u) \in 1 .. EvictCount + 1 /\ u = P!Chain(th)[idx(u)] /\ at2[u] = n + idx(u)
      BY <1>4, <1>6, <2>2
    <3> PICK k : k = idx(u)
      OBVIOUS
    <3>2. CASE k = 1
      <4>1. next[u] = poolHead.idx /\ at2[u] = n + 1
        BY <1>1, <1>2, <3>1, <3>2 DEF Linked
      <4>2. n = 0 => at2[u] = 1 /\ next[u] = 0
        BY <4>1 DEF Ordered
      <4>3. n > 0 => next[u] \in P!Tasks /\ kind[next[u]] = "list" /\ at[next[u]] = n
        BY <4>1 DEF Ordered
      <4>4. n > 0 => next[u] \in P!Tasks /\ kind2[next[u]] = "list" /\ at2[next[u]] = at2[u] - 1
        BY <1>7, <1>8, <4>1, <4>3
      <4>5. n > 0 => at2[u] # 1
        BY <1>7, <4>1
      <4>6. n = 0 => ~(at2[u] > 1)
        BY <4>2
      <4> QED BY <1>7, <4>2, <4>4, <4>5, <4>6
    <3>3. CASE k # 1
      <4>1. k - 1 \in 1 .. linked[th] /\ k - 1 \in 1 .. EvictCount + 1 /\ (k - 1) + 1 = k
        BY <1>2, <1>7, <3>1, <3>3
      <4> PICK j : j = k - 1
        OBVIOUS
      <4>2. next[P!Chain(th)[j + 1]] = P!Chain(th)[j]
        BY <1>2, <4>1 DEF Linked
      <4>3. next[u] = P!Chain(th)[j]
        BY <3>1, <4>1, <4>2
      <4>4. next[u] \in P!Tasks /\ chain(next[u]) /\ idx(next[u]) = j
        BY <1>3, <4>1, <4>3
      <4>5. kind2[next[u]] = "list" /\ at2[next[u]] = n + j
        BY <1>6, <4>4
      <4>6. n + j = at2[u] - 1 /\ at2[u] # 1
        BY <1>7, <3>1, <3>3
      <4> QED BY <4>4, <4>5, <4>6
    <3> QED BY <3>2, <3>3
  <2> QED BY <1>9, <1>14, <2>1, <2>2
<1>15. n + EvictCount + 1 \in Nat /\ n + EvictCount + 1 > 0
  BY <1>7
<1> QED BY <1>1, <1>10, <1>11, <1>12, <1>13, <1>14, <1>15 DEF Ordered

\* release gives back its chain.
LEMMA ReleaseCasStep ==
  ASSUME PoolInv, NEW th \in Threads, P!ReleaseCas(th)
  PROVE  PoolInv'
<1> USE DEF PoolInv
<1> DEFINE keep == CacheCapacity - EvictCount
           rest == SubSeq(cache[th], 1, keep)
<1>1. /\ poolPc[th] = "casRelease" /\ P!CasSucceeds(th, task[th])
      /\ cache' = [cache EXCEPT ![th] = rest] /\ P!ReturnFrom(th)
      /\ UNCHANGED <<next, inUse>>
  BY DEF P!ReleaseCas, P!Remain
<1>2. Returns(th) /\ task[th] \in P!Tasks /\ task[th] # 0
  BY <1>1 DEF Calls, Returns, P!TypeOK, P!Empty
<1>3. /\ poolHead' = [idx |-> task[th], tag |-> (poolHead.tag + 1) % TagMod]
      /\ (poolHead.tag + 1) % TagMod \in 0 .. TagMod - 1
      /\ \A o \in Threads : poolPc[o] = "casAcquire" => seen[o] # poolHead'
  <2> PICK i : i = task[th]
    OBVIOUS
  <2> QED BY <1>1, CasFacts
<1>4. /\ cache[th] \in Seq(P!Tasks) /\ Len(cache[th]) = CacheCapacity
      /\ keep \in Nat /\ keep <= CacheCapacity
  BY <1>2, ConstantFacts DEF Calls, P!TypeOK
<1>5. /\ rest \in Seq(P!Tasks) /\ Len(rest) = keep
      /\ \A k \in 1 .. keep : rest[k] = cache[th][k]
  BY <1>4, ConstantFacts, SubSeqProperties
<1> HIDE DEF rest
<1>6. cache'[th] = rest /\ \A o \in Threads : o # th => cache'[o] = cache[o]
  BY <1>1 DEF P!TypeOK
<1>7. /\ poolPc' = [poolPc EXCEPT ![th] = "idle"] /\ seen' = [seen EXCEPT ![th] = P!Nothing]
      /\ nextIdx' = [nextIdx EXCEPT ![th] = 0] /\ linked' = [linked EXCEPT ![th] = 0]
      /\ task' = [task EXCEPT ![th] = 0]
  BY <1>1 DEF P!ReturnFrom, P!Goto, P!Empty
<1>8. \A o \in Threads : o # th =>
        /\ poolPc'[o] = poolPc[o] /\ seen'[o] = seen[o] /\ linked'[o] = linked[o]
        /\ nextIdx'[o] = nextIdx[o] /\ task'[o] = task[o]
  BY <1>7 DEF P!TypeOK
<1>9. poolPc'[th] = "idle" /\ linked'[th] = 0 /\ task'[th] = 0
  BY <1>7 DEF P!TypeOK
<1>10. P!TypeOK'
  <2>1. poolHead' \in P!Heads
    BY <1>2, <1>3 DEF P!Heads
  <2>2. P!Nothing \in P!Heads /\ 0 \in 0 .. EvictCount
    BY ConstantFacts DEF P!Nothing, P!Heads, P!Empty
  <2>3. /\ seen' \in [Threads -> P!Heads] /\ linked' \in [Threads -> 0 .. EvictCount]
        /\ nextIdx' \in [Threads -> P!Tasks \cup {P!Empty}]
        /\ task' \in [Threads -> P!Tasks \cup {P!Empty}]
    BY <1>7, <2>2 DEF P!TypeOK, P!Empty
  <2>4. poolPc' \in [Threads -> {"idle", "load", "next", "casAcquire", "link", "tail", "casRelease"}]
    BY <1>7 DEF P!TypeOK
  <2>5. cache' \in [Threads -> Seq(P!Tasks)]
    BY <1>1, <1>5 DEF P!TypeOK
  <2>6. \A o \in Threads : Len(cache'[o]) <= CacheCapacity
    BY <1>4, <1>5, <1>6 DEF P!TypeOK
  <2> QED BY <1>1, <2>1, <2>3, <2>4, <2>5, <2>6 DEF P!TypeOK, P!Heads
<1>11. Calls'
  BY <1>6, <1>8, <1>9 DEF Calls, Returns
<1>12. \A o \in Threads : Returns(o)' => o # th /\ Returns(o) /\ P!Chain(o)' = P!Chain(o)
  BY <1>6, <1>8, <1>9, SameChain DEF Returns
<1>13. Linked'
  BY <1>1, <1>8, <1>12 DEF Linked
<1>14. Current'
  BY <1>3, <1>8, <1>9 DEF Current
<1>15. Places'
  <2> PICK kind, owner, at, n : Ordered(kind, at, n) /\ Located(kind, owner, at)
    BY DEF Places
  <2> PICK kind2, at2 :
        /\ kind2 = [u \in P!Tasks |->
                      IF InChain(kind, owner, at, th, u) THEN "list" ELSE kind[u]]
        /\ at2 = [u \in P!Tasks |->
                    IF InChain(kind, owner, at, th, u) THEN n + InChainAt(kind, at, u) ELSE at[u]]
    OBVIOUS
  <2>1. \A u \in P!Tasks :
          IF InChain(kind, owner, at, th, u)
          THEN kind2[u] = "list" /\ at2[u] = n + InChainAt(kind, at, u)
          ELSE kind2[u] = kind[u] /\ at2[u] = at[u]
    OBVIOUS
  <2>2. Ordered(kind2, at2, n + EvictCount + 1)'
    BY <2>1, ReleaseCasOrder
  <2>3. \A u \in P!Tasks : InChain(kind, owner, at, th, u) =>
          InChainAt(kind, at, u) \in 1 .. EvictCount + 1
    BY <1>2, ChainMembers
  <2>4. n \in Nat /\ kind \in [P!Tasks -> Kinds] /\ at \in [P!Tasks -> Nat] /\ DOMAIN owner = P!Tasks
    BY DEF Ordered, Located
  <2>5. kind2 \in [P!Tasks -> Kinds]
    BY <2>4 DEF Kinds
  <2>6. at2 \in [P!Tasks -> Nat]
    <3>1. \A u \in P!Tasks : at2[u] \in Nat
      BY <2>1, <2>3, <2>4, ConstantFacts
    <3>2. at2 = [u \in P!Tasks |-> at2[u]]
      OBVIOUS
    <3> QED BY <3>1, <3>2
  <2>7. \A u \in P!Tasks : kind2[u] # "list" =>
          ~InChain(kind, owner, at, th, u) /\ kind2[u] = kind[u] /\ at2[u] = at[u]
    BY <2>1
  <2>8. \A u \in P!Tasks : kind2[u] = "used" <=> u \in inUse'
    BY <1>1, <2>1 DEF InChain, Located
  <2>9. \A u \in P!Tasks : kind2[u] = "back" => owner[u] \in Threads /\ task'[owner[u]] = u
    <3> SUFFICES ASSUME NEW u \in P!Tasks, kind2[u] = "back"
                 PROVE owner[u] \in Threads /\ task'[owner[u]] = u
      OBVIOUS
    <3>1. kind[u] = "back" /\ owner[u] # th
      BY <2>7 DEF InChain
    <3> QED BY <1>8, <3>1 DEF Located
  <2>10. \A o \in Threads : task'[o] # 0 => kind2[task'[o]] = "back" /\ owner[task'[o]] = o
    <3> SUFFICES ASSUME NEW o \in Threads, task'[o] # 0
                 PROVE kind2[task'[o]] = "back" /\ owner[task'[o]] = o
      OBVIOUS
    <3>1. o # th /\ task'[o] = task[o] /\ task[o] \in P!Tasks
      BY <1>8, <1>9 DEF P!TypeOK, P!Empty
    <3>2. kind[task[o]] = "back" /\ owner[task[o]] = o
      BY <3>1 DEF Located
    <3>3. ~InChain(kind, owner, at, th, task[o])
      BY <3>1, <3>2 DEF InChain
    <3> QED BY <2>1, <3>1, <3>2, <3>3
  <2>11. \A u \in P!Tasks : kind2[u] = "cache" =>
          owner[u] \in Threads /\ at2[u] \in 1 .. Len(cache'[owner[u]])
            /\ cache'[owner[u]][at2[u]] = u
    <3> SUFFICES ASSUME NEW u \in P!Tasks, kind2[u] = "cache"
                 PROVE owner[u] \in Threads /\ at2[u] \in 1 .. Len(cache'[owner[u]])
                         /\ cache'[owner[u]][at2[u]] = u
      OBVIOUS
    <3>1. ~InChain(kind, owner, at, th, u) /\ kind[u] = "cache" /\ at2[u] = at[u]
      BY <2>7
    <3>2. owner[u] \in Threads /\ at[u] \in 1 .. Len(cache[owner[u]]) /\ cache[owner[u]][at[u]] = u
      BY <3>1 DEF Located
    <3>3. CASE owner[u] = th
      <4>1. ~(at[u] > keep)
        BY <3>1, <3>3 DEF InChain
      <4>2. at[u] \in 1 .. keep
        BY <1>4, <3>2, <3>3, <4>1
      <4> QED BY <1>5, <1>6, <3>1, <3>2, <3>3, <4>2
    <3>4. CASE owner[u] # th
      BY <1>6, <3>1, <3>2, <3>4
    <3> QED BY <3>3, <3>4
  <2>12. \A o \in Threads : \A k \in 1 .. Len(cache'[o]) :
          kind2[cache'[o][k]] = "cache" /\ owner[cache'[o][k]] = o /\ at2[cache'[o][k]] = k
    <3> TAKE o \in Threads
    <3> TAKE k \in 1 .. Len(cache'[o])
    <3>1. /\ k \in 1 .. Len(cache[o]) /\ cache'[o][k] = cache[o][k]
          /\ o = th => k \in 1 .. keep
      <4>1. CASE o = th
        BY <1>4, <1>5, <1>6, <4>1
      <4>2. CASE o # th
        BY <1>6, <4>2
      <4> QED BY <4>1, <4>2
    <3> PICK u : u = cache[o][k]
      OBVIOUS
    <3>2. u \in P!Tasks /\ kind[u] = "cache" /\ owner[u] = o /\ at[u] = k
      BY <3>1 DEF P!TypeOK, Located
    <3>3. ~InChain(kind, owner, at, th, u)
      BY <1>4, <3>1, <3>2 DEF InChain
    <3> QED BY <2>1, <3>1, <3>2, <3>3
  <2>13. Located(kind2, owner, at2)'
    BY <2>4, <2>5, <2>6, <2>8, <2>9, <2>10, <2>11, <2>12 DEF Located
  <2>14. \E j : Ordered(kind2, at2, j)'
    BY <2>2
  <2> QED BY <2>13, <2>14 DEF Places
<1> QED BY <1>10, <1>11, <1>13, <1>14, <1>15

-----------------------------------------------------------------------------
\* PoolInv holds initially.
LEMMA PoolInitial == P!Init => PoolInv
<1> SUFFICES ASSUME P!Init PROVE PoolInv
  OBVIOUS
<1>1. /\ poolHead = [idx |-> 1, tag |-> 0] /\ inUse = {}
      /\ next = [t \in P!Tasks |-> IF t = PoolCapacity THEN 0 ELSE t + 1]
      /\ cache = [th \in Threads |-> <<>>] /\ poolPc = [th \in Threads |-> "idle"]
      /\ seen = [th \in Threads |-> P!Nothing] /\ nextIdx = [th \in Threads |-> 0]
      /\ task = [th \in Threads |-> 0] /\ linked = [th \in Threads |-> 0]
  BY DEF P!Init, P!Empty
<1>2. P!TypeOK
  <2>1. P!Nothing \in P!Heads /\ poolHead \in P!Heads /\ 0 \in 0 .. EvictCount
    BY <1>1, ConstantFacts DEF P!Nothing, P!Heads, P!Empty
  <2>2. next \in [P!Tasks -> P!Tasks \cup {0}]
    BY <1>1, ConstantFacts
  <2>3. <<>> \in Seq(P!Tasks) /\ Len(<<>>) <= CacheCapacity
    BY ConstantFacts
  <2> QED BY <1>1, <2>1, <2>2, <2>3 DEF P!TypeOK, P!Empty
<1>3. Calls /\ Linked /\ Current
  BY <1>1 DEF Calls, Linked, Current, Returns
<1>4. Places
  <2> PICK kind, owner, at :
        /\ kind = [t \in P!Tasks |-> "list"] /\ owner = [t \in P!Tasks |-> 0]
        /\ at = [t \in P!Tasks |-> PoolCapacity + 1 - t]
    OBVIOUS
  <2>1. P!Tasks = 1 .. PoolCapacity /\ PoolCapacity \in Nat \ {0}
    BY ConstantFacts
  <2>2. at \in [P!Tasks -> 1 .. PoolCapacity]
    BY <2>1
  <2>3. \A k \in 1 .. PoolCapacity : at[PoolCapacity + 1 - k] = k /\ PoolCapacity + 1 - k \in P!Tasks
    BY <2>1
  <2>4. Ordered(kind, at, PoolCapacity)
    <3>1. \A k \in 1 .. PoolCapacity : \E t \in P!Tasks : kind[t] = "list" /\ at[t] = k
      <4> TAKE k \in 1 .. PoolCapacity
      <4>1. PoolCapacity + 1 - k \in P!Tasks /\ at[PoolCapacity + 1 - k] = k
        BY <2>3
      <4> QED BY <4>1
    <3>2. \A s, t \in P!Tasks : at[s] = at[t] => s = t
      BY <2>1
    <3>3. poolHead.idx \in P!Tasks /\ at[poolHead.idx] = PoolCapacity
      BY <1>1, <2>1
    <3>4. \A t \in P!Tasks :
            /\ at[t] = 1 => next[t] = 0
            /\ at[t] > 1 => next[t] \in P!Tasks /\ at[next[t]] = at[t] - 1
      BY <1>1, <2>1
    <3> QED BY <2>1, <2>2, <3>1, <3>2, <3>3, <3>4 DEF Ordered
  <2>5. Located(kind, owner, at)
    BY <1>1, <2>1, <2>2 DEF Located, Kinds
  <2> QED BY <2>4, <2>5 DEF Places
<1> QED BY <1>2, <1>3, <1>4 DEF PoolInv

\* Every step keeps PoolInv.
LEMMA PoolStep == PoolInv /\ [P!Next]_poolVars => PoolInv'
<1> SUFFICES ASSUME PoolInv, [P!Next]_poolVars PROVE PoolInv'
  OBVIOUS
<1>1. ASSUME NEW th \in Threads, P!Acquire(th) PROVE PoolInv'
  BY <1>1, AcquireCachedStep, AcquireBeginStep, AcquireReadStep, AcquireCasStep DEF P!Acquire
<1>2. ASSUME NEW th \in Threads, P!Release(th) PROVE PoolInv'
  BY <1>2, ReleaseCachedStep, ReleaseSharedStep, ReleaseLinkStep, ReleaseReadStep,
     ReleaseTailStep, ReleaseCasStep DEF P!Release
<1>3. CASE UNCHANGED poolVars
  <2>1. UNCHANGED <<poolHead, next, cache, inUse, poolPc, seen, nextIdx, task, linked>>
    BY <1>3 DEF poolVars
  <2>2. P!TypeOK'
    BY <2>1 DEF PoolInv, P!TypeOK, P!Heads
  <2>3. \A o \in Threads : P!Chain(o)' = P!Chain(o)
    BY <2>1, SameChain
  <2>4. Calls' /\ Linked' /\ Current'
    BY <2>1, <2>3 DEF PoolInv, Calls, Linked, Current, Returns
  <2>5. Places'
    BY <2>1, SamePlaces DEF PoolInv
  <2> QED BY <2>2, <2>4, <2>5 DEF PoolInv
<1> QED BY <1>1, <1>2, <1>3 DEF P!Next

-----------------------------------------------------------------------------
(* The list as P!Walk sees it.                                              *)

\* A set of natural numbers has a least one.
LEMMA LeastNatural ==
  ASSUME NEW R, R \subseteq Nat, R # {}
  PROVE  \E m \in R : \A n \in R : ~(n < m)
<1>1. \E m \in R : \A n \in R : <<n, m>> \notin OpToRel(<, Nat)
  BY NatLessThanWellFounded, WFMin
<1>2. \A n, m \in Nat : <<n, m>> \in OpToRel(<, Nat) <=> n < m
  BY DEF OpToRel
<1> QED BY <1>1, <1>2

\* The list has no more tasks than there are.
LEMMA ListLength ==
  ASSUME NEW kind, NEW at, NEW n, Ordered(kind, at, n)
  PROVE  n \in Nat /\ n <= PoolCapacity
<1> DEFINE f == [k \in 1 .. n |-> CHOOSE t \in P!Tasks : kind[t] = "list" /\ at[t] = k]
<1>1. n \in Nat /\ \A k \in 1 .. n : f[k] \in P!Tasks /\ at[f[k]] = k
  BY DEF Ordered
<1>2. f \in Injection(1 .. n, P!Tasks)
  <2>1. f \in [1 .. n -> P!Tasks]
    BY <1>1
  <2>2. \A i, j \in 1 .. n : f[i] = f[j] => i = j
    BY <1>1
  <2> HIDE DEF f
  <2> QED BY <2>1, <2>2 DEF Injection, IsInjective
<1>3. /\ IsFiniteSet(P!Tasks) /\ Cardinality(P!Tasks) = PoolCapacity
      /\ Cardinality(1 .. n) = n
  BY <1>1, ConstantFacts, FS_Interval
<1> HIDE DEF f
<1> QED BY <1>1, <1>2, <1>3, FS_Injection

\* The walk from the head meets the tasks of the list, in their order, and ends.
LEMMA WalkFacts ==
  ASSUME NEW kind, NEW at, NEW n, Ordered(kind, at, n), NEW k \in 0 .. PoolCapacity
  PROVE  IF k < n THEN P!Walk[k] \in P!Tasks /\ kind[P!Walk[k]] = "list" /\ at[P!Walk[k]] = n - k
                  ELSE P!Walk[k] = 0
<1> DEFINE W == [i \in 0 .. PoolCapacity |->
                   IF i < n THEN CHOOSE t \in P!Tasks : kind[t] = "list" /\ at[t] = n - i ELSE 0]
           Step(w) == [i \in 0 .. PoolCapacity |->
                         IF i = 0 THEN poolHead.idx ELSE IF w[i - 1] = 0 THEN 0 ELSE next[w[i - 1]]]
<1>1. n \in Nat /\ PoolCapacity \in Nat /\ 0 \notin P!Tasks
  BY ConstantFacts DEF Ordered
<1>2. \A i \in 0 .. PoolCapacity :
        /\ i < n => W[i] \in P!Tasks /\ kind[W[i]] = "list" /\ at[W[i]] = n - i
        /\ ~(i < n) => W[i] = 0
  <2> TAKE i \in 0 .. PoolCapacity
  <2>1. i < n => n - i \in 1 .. n
    BY <1>1
  <2>2. i < n => \E t \in P!Tasks : kind[t] = "list" /\ at[t] = n - i
    BY <2>1 DEF Ordered
  <2> QED BY <2>2
<1>3. W = Step(W)
  <2>1. ASSUME NEW i \in 0 .. PoolCapacity PROVE W[i] = Step(W)[i]
    <3>1. CASE i = 0
      <4>1. n > 0 => poolHead.idx = W[0]
        BY <1>1, <1>2 DEF Ordered
      <4>2. n = 0 => poolHead.idx = 0 /\ W[0] = 0
        BY <1>1, <1>2 DEF Ordered
      <4> QED BY <1>1, <3>1, <4>1, <4>2
    <3>2. CASE i # 0
      <4> PICK j : j = i - 1
        OBVIOUS
      <4>1. j \in 0 .. PoolCapacity /\ i = j + 1
        BY <1>1, <3>2
      <4>2. Step(W)[i] = IF W[j] = 0 THEN 0 ELSE next[W[j]]
        BY <3>2
      <4> HIDE DEF Step
      <4>3. CASE ~(j < n)
        <5>1. W[j] = 0 /\ W[i] = 0
          BY <1>1, <1>2, <4>1, <4>3
        <5> QED BY <4>2, <5>1
      <4>4. CASE j < n
        <5>1. W[j] \in P!Tasks /\ kind[W[j]] = "list" /\ at[W[j]] = n - j /\ W[j] # 0
          BY <1>1, <1>2, <4>1, <4>4
        <5>2. CASE i < n
          <6>1. W[i] \in P!Tasks /\ kind[W[i]] = "list" /\ at[W[i]] = n - i
            BY <1>2, <5>2
          <6> HIDE DEF W
          <6>2. at[W[j]] > 1
            BY <1>1, <4>1, <5>1, <5>2
          <6>3. next[W[j]] \in P!Tasks /\ kind[next[W[j]]] = "list" /\ at[next[W[j]]] = at[W[j]] - 1
            BY <5>1, <6>2 DEF Ordered
          <6>4. at[next[W[j]]] = at[W[i]]
            BY <1>1, <4>1, <5>1, <6>1, <6>3
          <6> QED BY <4>2, <5>1, <6>1, <6>3, <6>4 DEF Ordered
        <5>3. CASE ~(i < n)
          <6>1. W[i] = 0
            BY <1>2, <5>3
          <6> HIDE DEF W
          <6>2. at[W[j]] = 1
            BY <1>1, <4>1, <4>4, <5>1, <5>3
          <6> QED BY <4>2, <5>1, <6>1, <6>2 DEF Ordered
        <5> QED BY <5>2, <5>3
      <4> QED BY <4>3, <4>4
    <3> QED BY <3>1, <3>2
  <2> QED BY <2>1
<1> HIDE DEF W
<1>4. P!Walk = CHOOSE w : w = Step(w)
  BY DEF P!Walk, P!Empty
<1>5. P!Walk = Step(P!Walk)
  <2> HIDE DEF Step
  <2> QED BY <1>3, <1>4
<1>6. \A i \in 0 .. PoolCapacity :
        P!Walk[i] = IF i = 0 THEN poolHead.idx
                    ELSE IF P!Walk[i - 1] = 0 THEN 0 ELSE next[P!Walk[i - 1]]
  BY <1>5
<1>7. \A i \in 0 .. PoolCapacity :
        W[i] = IF i = 0 THEN poolHead.idx ELSE IF W[i - 1] = 0 THEN 0 ELSE next[W[i - 1]]
  BY <1>3
<1> HIDE DEF Step
<1>8. \A i \in 0 .. PoolCapacity : P!Walk[i] = W[i]
  <2> DEFINE Bad == {i \in 0 .. PoolCapacity : P!Walk[i] # W[i]}
  <2> SUFFICES ASSUME Bad # {} PROVE FALSE
    OBVIOUS
  <2>1. Bad \subseteq Nat
    OBVIOUS
  <2>2. PICK m \in Bad : \A i \in Bad : ~(i < m)
    <3> HIDE DEF Bad
    <3> QED BY <2>1, LeastNatural
  <2>3. m \in 0 .. PoolCapacity /\ P!Walk[m] # W[m]
    OBVIOUS
  <2>4. m # 0
    BY <1>6, <1>7, <2>3
  <2> PICK j : j = m - 1
    OBVIOUS
  <2>5. j \in 0 .. PoolCapacity /\ j < m
    BY <1>1, <2>3, <2>4
  <2>6. P!Walk[j] = W[j]
    BY <2>2, <2>5
  <2> QED BY <1>6, <1>7, <2>3, <2>4, <2>6
<1> QED BY <1>2, <1>8

\* What is listed, in use, on its way back and cached.
LEMMA PoolSets ==
  ASSUME P!TypeOK, NEW kind, NEW owner, NEW at, NEW n,
         Ordered(kind, at, n), Located(kind, owner, at)
  PROVE  /\ P!Walk[PoolCapacity] = 0
         /\ P!Listed = {t \in P!Tasks : kind[t] = "list"}
         /\ inUse = {t \in P!Tasks : kind[t] = "used"}
         /\ P!Returning = {t \in P!Tasks : kind[t] = "back"}
         /\ \A th \in Threads : P!Cached(th) = {t \in P!Tasks : kind[t] = "cache" /\ owner[t] = th}
<1>1. n \in Nat /\ n <= PoolCapacity /\ PoolCapacity \in Nat
  BY ListLength, ConstantFacts
<1>2. P!Walk[PoolCapacity] = 0
  BY <1>1, WalkFacts
<1>3. P!Listed = {t \in P!Tasks : kind[t] = "list"}
  <2>1. ASSUME NEW t \in P!Tasks, kind[t] = "list" PROVE t \in P!Listed
    <3> PICK k : k = n - at[t]
      OBVIOUS
    <3>1. k \in 0 .. PoolCapacity /\ k < n /\ at[t] = n - k
      BY <1>1, <2>1 DEF Ordered
    <3>2. P!Walk[k] \in P!Tasks /\ kind[P!Walk[k]] = "list" /\ at[P!Walk[k]] = n - k
      BY <3>1, WalkFacts
    <3>3. P!Walk[k] = t
      BY <2>1, <3>1, <3>2 DEF Ordered
    <3>4. t # 0
      BY ConstantFacts
    <3> QED BY <3>1, <3>3, <3>4 DEF P!Listed, P!Empty
  <2>2. ASSUME NEW t \in P!Listed PROVE t \in P!Tasks /\ kind[t] = "list"
    <3>1. PICK k \in 0 .. PoolCapacity : t = P!Walk[k] /\ t # 0
      BY <2>2 DEF P!Listed, P!Empty
    <3> QED BY <3>1, WalkFacts
  <2> QED BY <2>1, <2>2
<1>4. inUse = {t \in P!Tasks : kind[t] = "used"}
  BY DEF P!TypeOK, Located
<1>5. P!Returning = {t \in P!Tasks : kind[t] = "back"}
  <2>1. \A th \in Threads : task[th] # 0 => task[th] \in P!Tasks
    BY DEF P!TypeOK, P!Empty
  <2> QED BY <2>1, ConstantFacts DEF P!Returning, P!Empty, Located
<1>6. ASSUME NEW th \in Threads
      PROVE  P!Cached(th) = {t \in P!Tasks : kind[t] = "cache" /\ owner[t] = th}
  <2>1. \A k \in 1 .. Len(cache[th]) : cache[th][k] \in P!Tasks
    BY DEF P!TypeOK
  <2> QED BY <2>1 DEF P!Cached, Located
<1> QED BY <1>2, <1>3, <1>4, <1>5, <1>6

\* Sizes of disjoint sets add up.
LEMMA DisjointSizes ==
  ASSUME NEW S, NEW T, IsFiniteSet(S), IsFiniteSet(T), S \cap T = {}
  PROVE  /\ IsFiniteSet(S \cup T) /\ Cardinality(S) \in Nat /\ Cardinality(T) \in Nat
         /\ Cardinality(S \cup T) = Cardinality(S) + Cardinality(T)
<1>1. Cardinality(S \cap T) = 0
  BY FS_EmptySet
<1>2. IsFiniteSet(S \cup T) /\ Cardinality(S \cup T) = Cardinality(S) + Cardinality(T) - 0
  BY <1>1, FS_Union
<1>3. Cardinality(S) \in Nat /\ Cardinality(T) \in Nat
  BY FS_CardinalityType
<1> QED BY <1>2, <1>3

\* The slots of the caches that are occupied.
Slotted == {c \in Threads \X (1 .. CacheCapacity) : c[2] <= Len(cache[c[1]])}

\* The four kinds of places divide the tasks.
LEMMA PoolCount ==
  ASSUME PoolInv
  PROVE  /\ P!Walk[PoolCapacity] = 0
         /\ P!Listed \cup (UNION {P!Cached(th) : th \in Threads}) \cup inUse \cup P!Returning = P!Tasks
         /\ IsFiniteSet(P!Listed) /\ IsFiniteSet(inUse) /\ IsFiniteSet(P!Returning)
         /\ IsFiniteSet(Slotted)
         /\ Cardinality(P!Listed) + Cardinality(inUse) + Cardinality(P!Returning)
              + Cardinality(Slotted) = PoolCapacity
<1> PICK kind, owner, at, n : Ordered(kind, at, n) /\ Located(kind, owner, at)
  BY DEF PoolInv, Places
<1> DEFINE Of(k) == {t \in P!Tasks : kind[t] = k}
<1>1. /\ P!Walk[PoolCapacity] = 0 /\ P!Listed = Of("list") /\ inUse = Of("used")
      /\ P!Returning = Of("back")
      /\ \A th \in Threads : P!Cached(th) = {t \in P!Tasks : kind[t] = "cache" /\ owner[t] = th}
  BY PoolSets DEF PoolInv
<1>2. UNION {P!Cached(th) : th \in Threads} = Of("cache")
  <2>1. \A t \in P!Tasks : kind[t] = "cache" => owner[t] \in Threads
    BY DEF Located
  <2> QED BY <1>1, <2>1
<1>3. \A t \in P!Tasks : kind[t] \in {"list", "cache", "used", "back"}
  BY DEF Located, Kinds
<1>4. Of("list") \cup Of("cache") \cup Of("used") \cup Of("back") = P!Tasks
  BY <1>3
<1>5. IsFiniteSet(P!Tasks) /\ Cardinality(P!Tasks) = PoolCapacity
  BY ConstantFacts, FS_Interval
<1>6. ExistsBijection(Of("cache"), Slotted)
  <2> DEFINE f == [t \in Of("cache") |-> <<owner[t], at[t]>>]
  <2>1. \A t \in Of("cache") :
          /\ owner[t] \in Threads /\ at[t] \in 1 .. Len(cache[owner[t]])
          /\ cache[owner[t]][at[t]] = t
    BY DEF Located
  <2>2. \A th \in Threads : Len(cache[th]) \in Nat /\ Len(cache[th]) <= CacheCapacity
    BY DEF PoolInv, P!TypeOK
  <2>3. \A t \in Of("cache") : f[t] \in Slotted
    <3> TAKE t \in Of("cache")
    <3>1. at[t] \in 1 .. CacheCapacity /\ at[t] <= Len(cache[owner[t]])
      BY <2>1, <2>2, ConstantFacts
    <3> QED BY <2>1, <3>1 DEF Slotted
  <2>4. \A t, u \in Of("cache") : f[t] = f[u] => t = u
    <3> TAKE t, u \in Of("cache")
    <3>1. f[t] = <<owner[t], at[t]>> /\ f[u] = <<owner[u], at[u]>>
      OBVIOUS
    <3> QED BY <2>1, <3>1
  <2>5. \A c \in Slotted : \E t \in Of("cache") : f[t] = c
    <3> SUFFICES ASSUME NEW th \in Threads, NEW k \in 1 .. CacheCapacity, k <= Len(cache[th])
                 PROVE \E t \in Of("cache") : f[t] = <<th, k>>
      <4> TAKE c \in Slotted
      <4> PICK th \in Threads, k \in 1 .. CacheCapacity : c = <<th, k>>
        BY DEF Slotted
      <4>1. k <= Len(cache[th])
        BY DEF Slotted
      <4> QED BY <4>1
    <3>1. k \in 1 .. Len(cache[th])
      BY <2>2
    <3> PICK t : t = cache[th][k]
      OBVIOUS
    <3>2. t \in P!Tasks /\ kind[t] = "cache" /\ owner[t] = th /\ at[t] = k
      BY <3>1 DEF PoolInv, P!TypeOK, Located
    <3> QED BY <3>2
  <2>6. f \in [Of("cache") -> Slotted]
    BY <2>3
  <2> HIDE DEF f
  <2>7. f \in Bijection(Of("cache"), Slotted)
    BY <2>4, <2>5, <2>6 DEF Bijection, Injection, Surjection, IsInjective
  <2> QED BY <2>7 DEF ExistsBijection
<1>7. \A k : IsFiniteSet(Of(k)) /\ Cardinality(Of(k)) \in Nat
  <2> TAKE k
  <2>1. Of(k) \in SUBSET P!Tasks
    OBVIOUS
  <2> HIDE DEF Of
  <2> QED BY <1>5, <2>1, FS_Subset, FS_CardinalityType
<1>8. /\ IsFiniteSet(Of("cache")) /\ IsFiniteSet(Slotted)
      /\ Cardinality(Slotted) = Cardinality(Of("cache"))
  <2> HIDE DEF Of
  <2> QED BY <1>6, <1>7, FS_Bijection
<1> DEFINE free == Of("list") \cup Of("cache")
           held == free \cup Of("used")
<1>9. /\ Of("list") \cap Of("cache") = {} /\ free \cap Of("used") = {} /\ held \cap Of("back") = {}
      /\ held \cup Of("back") = P!Tasks
  BY <1>4
<1>10. Cardinality(free) = Cardinality(Of("list")) + Cardinality(Of("cache")) /\ IsFiniteSet(free)
  <2> HIDE DEF Of
  <2> QED BY <1>7, <1>9, DisjointSizes
<1>11. Cardinality(held) = Cardinality(free) + Cardinality(Of("used")) /\ IsFiniteSet(held)
  <2> HIDE DEF Of, free
  <2> QED BY <1>7, <1>9, <1>10, DisjointSizes
<1>12. PoolCapacity = Cardinality(held) + Cardinality(Of("back"))
  <2> HIDE DEF Of, free, held
  <2> QED BY <1>5, <1>7, <1>9, <1>11, DisjointSizes
<1>13. Cardinality(Of("list")) + Cardinality(Of("used")) + Cardinality(Of("back"))
         + Cardinality(Slotted) = PoolCapacity
  <2> HIDE DEF Of, free, held
  <2> QED BY <1>7, <1>8, <1>10, <1>11, <1>12
<1>14. P!Listed \cup (UNION {P!Cached(th) : th \in Threads}) \cup inUse \cup P!Returning = P!Tasks
  BY <1>1, <1>2, <1>4
<1> HIDE DEF Of
<1> QED BY <1>1, <1>7, <1>8, <1>13, <1>14

\* What the runs check of the places follows.
LEMMA PoolOnePlace == ASSUME PoolInv PROVE P!TypeOK /\ P!OnePlace
<1>1. \A S : P!Cardinality(S) = Cardinality(S)
  BY SameSets
<1> QED BY <1>1, PoolCount DEF PoolInv, P!OnePlace, Slotted, P!Empty

\* And of the threads that would succeed.
LEMMA PoolSeen == ASSUME PoolInv PROVE P!SeenIsCurrent
<1> SUFFICES ASSUME NEW th \in Threads, seen[th] = poolHead
             PROVE /\ poolPc[th] = "casAcquire" =>
                        poolHead.idx # 0 /\ nextIdx[th] = next[poolHead.idx]
                   /\ poolPc[th] = "casRelease" => next[P!Chain(th)[1]] = poolHead.idx
  BY DEF P!SeenIsCurrent, P!Empty
<1>1. poolPc[th] = "casAcquire" => poolHead.idx # 0 /\ nextIdx[th] = next[poolHead.idx]
  BY DEF PoolInv, Calls, Current
<1>2. poolPc[th] = "casRelease" => next[P!Chain(th)[1]] = poolHead.idx
  BY DEF PoolInv, Linked, Returns
<1> QED BY <1>1, <1>2

\* A pool that is not the part that runs does not move.
LEMMA PoolPart ==
  /\ StructuresInit => P!Init
  /\ [StructuresNext]_<<part, vars, poolVars, capacityVars, victimVars, allocVars>>
       => [P!Next]_poolVars
<1>1. StructuresInit => P!Init
  BY DEF StructuresInit
<1>2. ASSUME [StructuresNext]_<<part, vars, poolVars, capacityVars, victimVars, allocVars>>
      PROVE [P!Next]_poolVars
  BY <1>2 DEF StructuresNext
<1> QED BY <1>1, <1>2

\* The inductive invariant of the pool holds in every state.
THEOREM PoolInvariant == StructuresSpec => []PoolInv
BY PoolPart, PoolInitial, PoolStep, PTL DEF StructuresSpec

\* Every task is in the list, in one cache, in use, or on its way back, and in
\* one of these places only (sk_scheduler.c:71-136).
THEOREM OnePlaceTheorem == StructuresSpec => []OnePlace
<1>1. PoolInv => OnePlace
  BY PoolOnePlace DEF OnePlace
<1> QED BY <1>1, PoolInvariant, PTL

\* The tag protects every compare-and-swap on the list: the index that acquire
\* makes the head, or release has linked to, is the one that stands there now
\* (sk_scheduler.c:77-87, 122-129).
THEOREM SeenTheorem == StructuresSpec => []SeenIsCurrent
<1>1. PoolInv => SeenIsCurrent
  BY PoolSeen DEF SeenIsCurrent
<1> QED BY <1>1, PoolInvariant, PTL

-----------------------------------------------------------------------------
(* acquire gives up only when nothing is left.                              *)

\* The call of memory_pool_acquire that finds the list empty has an empty cache
\* too, so all that is neither in use nor on its way back is in the caches of
\* the other threads.
LEMMA NothingListed ==
  ASSUME PoolInv, NEW th \in Threads, poolPc[th] \in {"load", "casAcquire"}, poolHead.idx = 0
  PROVE  Cardinality(inUse) + Cardinality(P!Returning)
           >= PoolCapacity - (Cardinality(Threads) - 1) * CacheCapacity
<1>1. P!Listed = {}
  <2> PICK kind, owner, at, n : Ordered(kind, at, n) /\ Located(kind, owner, at)
    BY DEF PoolInv, Places
  <2>1. n = 0
    BY ConstantFacts DEF Ordered
  <2>2. \A t \in P!Tasks : kind[t] # "list"
    BY <2>1 DEF Ordered
  <2>3. P!Listed = {t \in P!Tasks : kind[t] = "list"}
    BY PoolSets DEF PoolInv
  <2> QED BY <2>2, <2>3
<1>2. cache[th] = <<>>
  BY DEF PoolInv, Calls
<1> DEFINE others == Threads \ {th}
<1>3. Slotted \in SUBSET (others \X (1 .. CacheCapacity))
  <2> SUFFICES ASSUME NEW c \in Slotted PROVE c \in others \X (1 .. CacheCapacity)
    OBVIOUS
  <2> PICK o \in Threads, k \in 1 .. CacheCapacity : c = <<o, k>>
    BY DEF Slotted
  <2>1. k <= Len(cache[o])
    BY DEF Slotted
  <2>2. o # th
    BY <1>2, <2>1
  <2> QED BY <2>2
<1>4. IsFiniteSet(others) /\ Cardinality(others) = Cardinality(Threads) - 1
  BY ConstantFacts, FS_RemoveElement
<1>5. IsFiniteSet(1 .. CacheCapacity) /\ Cardinality(1 .. CacheCapacity) = CacheCapacity
  BY ConstantFacts, FS_Interval
<1> HIDE DEF others
<1>6. /\ IsFiniteSet(others \X (1 .. CacheCapacity))
      /\ Cardinality(others \X (1 .. CacheCapacity)) = Cardinality(others) * Cardinality(1 .. CacheCapacity)
  BY <1>4, <1>5, FS_Product
<1>7. Cardinality(Slotted) <= Cardinality(others \X (1 .. CacheCapacity))
  BY <1>3, <1>6, FS_Subset
<1> PICK most : most = (Cardinality(Threads) - 1) * CacheCapacity
  OBVIOUS
<1>8. Cardinality(others \X (1 .. CacheCapacity)) = most
  BY <1>4, <1>5, <1>6
<1>9. Cardinality(P!Listed) = 0
  BY <1>1, FS_EmptySet
<1>10. /\ Cardinality(inUse) \in Nat /\ Cardinality(P!Returning) \in Nat
       /\ Cardinality(Slotted) \in Nat /\ most \in Nat /\ PoolCapacity \in Nat
       /\ Cardinality(P!Listed) + Cardinality(inUse) + Cardinality(P!Returning)
            + Cardinality(Slotted) = PoolCapacity
  BY <1>6, <1>8, PoolCount, FS_CardinalityType, ConstantFacts
<1>11. Cardinality(inUse) + Cardinality(P!Returning) >= PoolCapacity - most
  BY <1>7, <1>8, <1>9, <1>10
<1> QED BY <1>11

\* Only AcquireNull ends a call of memory_pool_acquire without a task.
LEMMA NullStep ==
  ASSUME PoolInv, NEW o \in Threads, P!Acquire(o) \/ P!Release(o),
         NEW th \in Threads, poolPc[th] \in {"load", "casAcquire"}, poolPc'[th] = "idle",
         inUse' = inUse
  PROVE  poolHead.idx = 0
<1>1. poolPc \in [Threads -> {"idle", "load", "next", "casAcquire", "link", "tail", "casRelease"}]
  BY DEF PoolInv, P!TypeOK
<1>2. o = th
  BY <1>1 DEF P!Acquire, P!Release, P!AcquireCached, P!AcquireShared, P!AcquireLoad, P!AcquireNull,
     P!AcquireNext, P!AcquireCas, P!AcquireRetry, P!ReleaseCached, P!ReleaseShared, P!ReleaseLink,
     P!ReleaseLoad, P!ReleaseTail, P!ReleaseCas, P!ReleaseRetry, P!Goto, P!ReturnFrom, P!CasFails
<1>3. ~P!Release(th)
  BY <1>1 DEF P!Release, P!ReleaseCached, P!ReleaseShared, P!ReleaseLink, P!ReleaseLoad,
     P!ReleaseTail, P!ReleaseCas, P!ReleaseRetry
<1>4. P!AcquireNull(th) \/ P!AcquireCas(th)
  BY <1>1, <1>2, <1>3 DEF P!Acquire, P!AcquireCached, P!AcquireShared, P!AcquireLoad,
     P!AcquireNext, P!AcquireRetry, P!Goto, P!CasFails
<1>5. ~P!AcquireCas(th)
  <2> SUFFICES ASSUME P!AcquireCas(th) PROVE FALSE
    OBVIOUS
  <2>1. poolHead = seen[th] /\ poolPc[th] = "casAcquire" /\ seen[th].idx \in inUse
    BY DEF P!AcquireCas, P!CasSucceeds
  <2>2. poolHead.idx # 0
    BY <2>1 DEF PoolInv, Calls
  <2> PICK kind, owner, at, n : Ordered(kind, at, n) /\ Located(kind, owner, at)
    BY DEF PoolInv, Places
  <2>3. poolHead.idx \in P!Tasks /\ kind[poolHead.idx] = "list"
    BY <2>2 DEF Ordered
  <2> QED BY <2>1, <2>3 DEF Located
<1> QED BY <1>4, <1>5 DEF P!AcquireNull, P!IsEmpty, P!Empty

\* NULL is returned only when every task is in use, on its way back, or in the
\* cache of another thread (sk_scheduler.c:73-75, 98-99).
THEOREM NullTheorem == StructuresSpec => NullOnlyWhenHoarded
<1> DEFINE Hoarded ==
      \A th \in Threads :
        poolPc[th] \in {"load", "casAcquire"} /\ poolPc'[th] = "idle" /\ inUse' = inUse
          => P!Cardinality(inUse) + P!Cardinality(P!Returning)
               >= PoolCapacity - (P!Cardinality(Threads) - 1) * CacheCapacity
<1>1. PoolInv /\ [P!Next]_poolVars => [Hoarded]_poolVars
  <2> SUFFICES ASSUME PoolInv, P!Next, NEW th \in Threads,
                      poolPc[th] \in {"load", "casAcquire"}, poolPc'[th] = "idle", inUse' = inUse
               PROVE  P!Cardinality(inUse) + P!Cardinality(P!Returning)
                        >= PoolCapacity - (P!Cardinality(Threads) - 1) * CacheCapacity
    OBVIOUS
  <2>1. poolHead.idx = 0
    BY NullStep DEF P!Next
  <2>2. \A S : P!Cardinality(S) = Cardinality(S)
    BY SameSets
  <2> QED BY <2>1, <2>2, NothingListed
<1>2. NullOnlyWhenHoarded <=> [][Hoarded]_poolVars
  BY DEF NullOnlyWhenHoarded, P!NullOnlyWhenHoarded, P!vars, poolVars
<1> QED BY <1>1, <1>2, PoolInvariant, PoolPart, PTL DEF StructuresSpec

-----------------------------------------------------------------------------
(* The pool implements AbstractPool.                                        *)

\* What a task is not, it is shared: the places exclude each other, so what a
\* step does to the list follows from what it does to the other places.
Divided ==
  /\ P!Listed = {t \in P!Tasks : t \notin inUse /\ t \notin P!Returning
                                   /\ \A th \in Threads : t \notin P!Cached(th)}
  /\ inUse \cap P!Returning = {} /\ P!Returning \subseteq P!Tasks
  /\ \A th \in Threads :
       /\ P!Cached(th) \subseteq P!Tasks
       /\ P!Cached(th) \cap (inUse \cup P!Returning) = {}
       /\ \A o \in Threads : o # th => P!Cached(th) \cap P!Cached(o) = {}
       /\ \A j, k \in 1 .. Len(cache[th]) : cache[th][j] = cache[th][k] => j = k
       /\ \A o \in Threads : task[o] = task[th] /\ task[th] # 0 => o = th
  /\ poolHead.idx # 0 => poolHead.idx \in P!Listed

LEMMA PoolDivided == PoolInv => Divided
<1> SUFFICES ASSUME PoolInv PROVE Divided
  OBVIOUS
<1> PICK kind, owner, at, n : Ordered(kind, at, n) /\ Located(kind, owner, at)
  BY DEF PoolInv, Places
<1>1. /\ P!Listed = {t \in P!Tasks : kind[t] = "list"}
      /\ inUse = {t \in P!Tasks : kind[t] = "used"}
      /\ P!Returning = {t \in P!Tasks : kind[t] = "back"}
      /\ \A th \in Threads : P!Cached(th) = {t \in P!Tasks : kind[t] = "cache" /\ owner[t] = th}
  BY PoolSets DEF PoolInv
<1>2. \A t \in P!Tasks : kind[t] \in {"list", "cache", "used", "back"}
                          /\ (kind[t] = "cache" => owner[t] \in Threads)
  BY DEF Located, Kinds
<1>3. P!Listed = {t \in P!Tasks : t \notin inUse /\ t \notin P!Returning
                                   /\ \A th \in Threads : t \notin P!Cached(th)}
  BY <1>1, <1>2
<1>4. inUse \cap P!Returning = {} /\ P!Returning \subseteq P!Tasks
  BY <1>1
<1>5. ASSUME NEW th \in Threads
      PROVE /\ P!Cached(th) \subseteq P!Tasks
            /\ P!Cached(th) \cap (inUse \cup P!Returning) = {}
            /\ \A o \in Threads : o # th => P!Cached(th) \cap P!Cached(o) = {}
  BY <1>1
<1>6. ASSUME NEW th \in Threads
      PROVE /\ \A j, k \in 1 .. Len(cache[th]) : cache[th][j] = cache[th][k] => j = k
            /\ \A o \in Threads : task[o] = task[th] /\ task[th] # 0 => o = th
  BY DEF Located
<1>7. poolHead.idx # 0 => poolHead.idx \in P!Listed
  BY <1>1 DEF Ordered
<1> QED BY <1>3, <1>4, <1>5, <1>6, <1>7 DEF Divided

LEMMA DividedNext == PoolInv' => Divided'
BY PoolDivided, PTL

\* A stretch of a cache has as many tasks as slots.
LEMMA StretchSize ==
  ASSUME PoolInv, NEW th \in Threads, NEW a \in 1 .. Len(cache[th]) + 1
  PROVE  Cardinality({cache[th][k] : k \in a .. Len(cache[th])}) = Len(cache[th]) + 1 - a
<1> PICK s : s = cache[th]
  OBVIOUS
<1>1. s \in Seq(P!Tasks) /\ Len(s) \in Nat /\ a \in 1 .. Len(s) + 1
  BY DEF PoolInv, P!TypeOK
<1>2. \A j, k \in 1 .. Len(s) : s[j] = s[k] => j = k
  BY PoolDivided DEF Divided
<1> DEFINE D == a .. Len(s)
           R == {s[k] : k \in D}
           f == [k \in D |-> s[k]]
<1>3. D \subseteq 1 .. Len(s)
  BY <1>1
<1>4. f \in Bijection(D, R)
  <2>1. f \in [D -> R]
    OBVIOUS
  <2>2. \A j, k \in D : f[j] = f[k] => j = k
    BY <1>2, <1>3
  <2>3. \A r \in R : \E k \in D : f[k] = r
    OBVIOUS
  <2> HIDE DEF f, D, R
  <2> QED BY <2>1, <2>2, <2>3 DEF Bijection, Injection, Surjection, IsInjective
<1>5. IsFiniteSet(D) /\ Cardinality(D) = Len(s) + 1 - a
  <2>1. a \in Int /\ Len(s) \in Int
    BY <1>1
  <2>2. /\ IsFiniteSet(a .. Len(s))
        /\ Cardinality(a .. Len(s)) = IF a > Len(s) THEN 0 ELSE Len(s) - a + 1
    BY <2>1, FS_Interval
  <2> QED BY <1>1, <2>2
<1>6. Cardinality(R) = Cardinality(D)
  <2> HIDE DEF f, D, R
  <2>1. ExistsBijection(D, R)
    BY <1>4 DEF ExistsBijection
  <2> QED BY <1>5, <2>1, FS_Bijection
<1> QED BY <1>5, <1>6

\* The size of a cache.
LEMMA CachedSize ==
  ASSUME PoolInv, NEW th \in Threads
  PROVE  Cardinality(P!Cached(th)) = Len(cache[th])
<1>1. Len(cache[th]) \in Nat
  BY DEF PoolInv, P!TypeOK
<1>2. 1 \in 1 .. Len(cache[th]) + 1
  BY <1>1
<1> QED BY <1>1, <1>2, StretchSize DEF P!Cached

\* The variables of AbstractPool, as ImplementsPool maps them.
Kept == [th \in Threads |-> P!Cached(th)]
Used == inUse \cup P!Returning

\* A step that leaves caches and users alone is not visible.
LEMMA PoolStutter ==
  ASSUME Divided, Divided', Kept' = Kept, Used' = Used
  PROVE  P!Listed' = P!Listed
<1>1. \A th \in Threads : P!Cached(th)' = P!Cached(th)
  <2> TAKE th \in Threads
  <2>1. Kept'[th] = Kept[th]
    OBVIOUS
  <2> QED BY <2>1 DEF Kept
<1> QED BY <1>1 DEF Divided, Used, P!Tasks

\* The instance's own Cardinality.
LEMMA AbstractSizes == \A S : P!AP!Cardinality(S) = Cardinality(S)
BY DEF Cardinality, IsFiniteSet, P!AP!Cardinality, P!AP!IsFiniteSet

\* The actions of AbstractPool, in these terms.
LEMMA AbstractActions ==
  ASSUME NEW th \in Threads
  PROVE  /\ P!AP!TakeKept(th) <=>
              \E t \in Kept[th] :
                /\ Kept' = [Kept EXCEPT ![th] = @ \ {t}] /\ Used' = Used \cup {t}
                /\ P!Listed' = P!Listed
         /\ P!AP!TakeShared(th) <=>
              /\ Kept[th] = {}
              /\ \E t \in P!Listed : P!Listed' = P!Listed \ {t} /\ Used' = Used \cup {t}
              /\ Kept' = Kept
         /\ P!AP!Keep(th) <=>
              /\ Cardinality(Kept[th]) < CacheCapacity
              /\ \E t \in Used :
                   Used' = Used \ {t} /\ Kept' = [Kept EXCEPT ![th] = @ \cup {t}]
              /\ P!Listed' = P!Listed
         /\ P!AP!Share(th) <=>
              /\ Cardinality(Kept[th]) = CacheCapacity
              /\ \E t \in Used, batch \in SUBSET Kept[th] :
                   /\ Cardinality(batch) = EvictCount
                   /\ Used' = Used \ {t}
                   /\ Kept' = [Kept EXCEPT ![th] = @ \ batch]
                   /\ P!Listed' = P!Listed \cup batch \cup {t}
<1>1. P!AP!TakeKept(th) <=>
        \E t \in Kept[th] :
          /\ Kept' = [Kept EXCEPT ![th] = @ \ {t}] /\ Used' = Used \cup {t}
          /\ P!Listed' = P!Listed
  BY DEF P!AP!TakeKept, Kept, Used
<1>2. P!AP!TakeShared(th) <=>
        /\ Kept[th] = {}
        /\ \E t \in P!Listed : P!Listed' = P!Listed \ {t} /\ Used' = Used \cup {t}
        /\ Kept' = Kept
  BY DEF P!AP!TakeShared, Kept, Used
<1>3. P!AP!Keep(th) <=>
        /\ Cardinality(Kept[th]) < CacheCapacity
        /\ \E t \in Used : Used' = Used \ {t} /\ Kept' = [Kept EXCEPT ![th] = @ \cup {t}]
        /\ P!Listed' = P!Listed
  BY AbstractSizes DEF P!AP!Keep, Kept, Used
<1>4. P!AP!Share(th) <=>
        /\ Cardinality(Kept[th]) = CacheCapacity
        /\ \E t \in Used, batch \in SUBSET Kept[th] :
             /\ Cardinality(batch) = EvictCount
             /\ Used' = Used \ {t}
             /\ Kept' = [Kept EXCEPT ![th] = @ \ batch]
             /\ P!Listed' = P!Listed \cup batch \cup {t}
  BY AbstractSizes DEF P!AP!Share, Kept, Used
<1> QED BY <1>1, <1>2, <1>3, <1>4

\* A cache that is cut loses the tasks above the cut.
LEMMA CutCache ==
  ASSUME PoolInv, NEW th \in Threads, NEW m \in 0 .. Len(cache[th]),
         cache' = [cache EXCEPT ![th] = SubSeq(@, 1, m)]
  PROVE  Kept' = [Kept EXCEPT ![th] = @ \ {cache[th][k] : k \in m + 1 .. Len(cache[th])}]
<1> DEFINE gone == {cache[th][k] : k \in m + 1 .. Len(cache[th])}
           rest == SubSeq(cache[th], 1, m)
<1>1. cache[th] \in Seq(P!Tasks) /\ Len(cache[th]) \in Nat
  BY DEF PoolInv, P!TypeOK
<1>2. Len(rest) = m /\ \A k \in 1 .. m : rest[k] = cache[th][k]
  BY <1>1, SubSeqProperties
<1>3. cache' = [cache EXCEPT ![th] = rest]
  OBVIOUS
<1> HIDE DEF rest
<1>4. cache'[th] = rest /\ \A o \in Threads : o # th => cache'[o] = cache[o]
  BY <1>3 DEF PoolInv, P!TypeOK
<1>5. P!Cached(th)' = P!Cached(th) \ gone
  <2>1. P!Cached(th)' = {rest[k] : k \in 1 .. m}
    BY <1>2, <1>4 DEF P!Cached
  <2>2. {rest[k] : k \in 1 .. m} = {cache[th][k] : k \in 1 .. m}
    BY <1>2
  <2>3. \A j, k \in 1 .. Len(cache[th]) : cache[th][j] = cache[th][k] => j = k
    BY PoolDivided DEF Divided
  <2>4. \A k \in 1 .. Len(cache[th]) : k \in 1 .. m <=> k \notin m + 1 .. Len(cache[th])
    BY <1>1
  <2>5. 1 .. m \subseteq 1 .. Len(cache[th]) /\ m + 1 .. Len(cache[th]) \subseteq 1 .. Len(cache[th])
    BY <1>1
  <2>6. \A u : u \in {cache[th][k] : k \in 1 .. m} <=> u \in P!Cached(th) /\ u \notin gone
    <3> TAKE u
    <3>1. CASE \E k \in 1 .. Len(cache[th]) : u = cache[th][k]
      <4> PICK k \in 1 .. Len(cache[th]) : u = cache[th][k]
        BY <3>1
      <4>1. u \in {cache[th][j] : j \in 1 .. m} <=> k \in 1 .. m
        BY <2>3, <2>5
      <4>2. u \in gone <=> k \in m + 1 .. Len(cache[th])
        BY <2>3, <2>5
      <4> QED BY <2>4, <4>1, <4>2 DEF P!Cached
    <3>2. CASE ~ \E k \in 1 .. Len(cache[th]) : u = cache[th][k]
      BY <2>5, <3>2 DEF P!Cached
    <3> QED BY <3>1, <3>2
  <2> QED BY <2>1, <2>2, <2>6
<1>6. \A o \in Threads : o # th => P!Cached(o)' = P!Cached(o)
  BY <1>4 DEF P!Cached
<1> HIDE DEF gone
<1>7. Kept' = [o \in Threads |-> P!Cached(o)'] /\ Kept = [o \in Threads |-> P!Cached(o)]
  BY DEF Kept
<1>8. Kept' = [Kept EXCEPT ![th] = @ \ gone]
  BY <1>5, <1>6, <1>7
<1> QED BY <1>8 DEF gone

\* A thread that finds a task in its cache takes one it keeps.
LEMMA RefineAcquireCached ==
  ASSUME PoolInv, PoolInv', NEW th \in Threads, P!AcquireCached(th)
  PROVE  P!AP!TakeKept(th)
<1> PICK m, t : m = Len(cache[th]) /\ t = cache[th][m]
  OBVIOUS
<1>1. cache[th] \in Seq(P!Tasks) /\ m \in Nat \ {0} /\ t \in P!Tasks
  BY EmptySeq DEF PoolInv, P!AcquireCached, P!TypeOK
<1>2. /\ inUse' = inUse \cup {t} /\ cache' = [cache EXCEPT ![th] = SubSeq(@, 1, m - 1)]
      /\ task' = task
  BY DEF P!AcquireCached
<1> PICK n : n = m - 1
  OBVIOUS
<1>3. n \in 0 .. Len(cache[th]) /\ cache' = [cache EXCEPT ![th] = SubSeq(@, 1, n)]
  BY <1>1, <1>2
<1>4. {cache[th][k] : k \in n + 1 .. Len(cache[th])} = {t}
  <2>1. n + 1 .. Len(cache[th]) = {m}
    BY <1>1
  <2> QED BY <2>1
<1>5. Kept' = [Kept EXCEPT ![th] = @ \ {t}]
  BY <1>3, <1>4, CutCache
<1>6. t \in Kept[th]
  <2>1. m \in 1 .. Len(cache[th])
    BY <1>1
  <2> QED BY <2>1 DEF Kept, P!Cached
<1>7. Used' = Used \cup {t}
  BY <1>2 DEF Used, P!Returning
<1>8. P!Listed' = P!Listed
  <2>1. \A o \in Threads : P!Cached(o)' = IF o = th THEN P!Cached(o) \ {t} ELSE P!Cached(o)
    <3> TAKE o \in Threads
    <3>1. P!Cached(o)' = Kept'[o] /\ Kept[o] = P!Cached(o) /\ Kept = [p \in Threads |-> P!Cached(p)]
      BY DEF Kept
    <3> QED BY <1>5, <3>1
  <2>2. t \in P!Cached(th)
    BY <1>6 DEF Kept
  <2>3. inUse' = inUse \cup {t} /\ P!Returning' = P!Returning
    BY <1>2 DEF P!Returning
  <2>4. Divided /\ Divided'
    BY PoolDivided, DividedNext
  <2> QED BY <2>1, <2>2, <2>3, <2>4 DEF Divided, P!Tasks
<1> QED BY <1>5, <1>6, <1>7, <1>8, AbstractActions

\* A compare-and-swap of acquire takes a shared task, of a thread that keeps none.
LEMMA RefineAcquireCas ==
  ASSUME PoolInv, PoolInv', NEW th \in Threads, P!AcquireCas(th)
  PROVE  P!AP!TakeShared(th)
<1> PICK t : t = poolHead.idx
  OBVIOUS
<1>1. /\ poolPc[th] = "casAcquire" /\ poolHead = seen[th] /\ inUse' = inUse \cup {t}
      /\ cache' = cache /\ task' = [task EXCEPT ![th] = 0]
  BY DEF P!AcquireCas, P!CasSucceeds, P!ReturnFrom, P!Empty
<1>2. cache[th] = <<>> /\ t # 0 /\ task[th] = 0
  BY <1>1 DEF PoolInv, Calls, Returns
<1>3. task' = task
  BY <1>1, <1>2 DEF PoolInv, P!TypeOK
<1>4. Kept[th] = {}
  BY <1>2 DEF Kept, P!Cached
<1>5. Kept' = Kept /\ \A o \in Threads : P!Cached(o)' = P!Cached(o)
  BY <1>1 DEF Kept, P!Cached
<1>6. P!Returning' = P!Returning
  BY <1>3 DEF P!Returning
<1>7. Used' = Used \cup {t}
  BY <1>1, <1>6 DEF Used
<1>8. t \in P!Listed /\ P!Listed' = P!Listed \ {t}
  <2>1. Divided /\ Divided'
    BY PoolDivided, DividedNext
  <2> QED BY <1>1, <1>2, <1>5, <1>6, <2>1 DEF Divided, P!Tasks
<1> QED BY <1>4, <1>5, <1>7, <1>8, AbstractActions

\* A task that fits into the cache is kept.
LEMMA RefineReleaseCached ==
  ASSUME PoolInv, PoolInv', NEW th \in Threads, P!ReleaseCached(th)
  PROVE  P!AP!Keep(th)
<1>1. PICK t \in inUse :
        inUse' = inUse \ {t} /\ cache' = [cache EXCEPT ![th] = Append(@, t)]
  BY DEF P!ReleaseCached
<1> PICK m : m = Len(cache[th])
  OBVIOUS
<1>2. /\ cache[th] \in Seq(P!Tasks) /\ m \in Nat /\ t \in P!Tasks
      /\ m < CacheCapacity /\ task' = task
  BY DEF PoolInv, P!ReleaseCached, P!TypeOK, P!HasRoom
<1> PICK more : more = Append(cache[th], t)
  OBVIOUS
<1>3. Len(more) = m + 1 /\ more[m + 1] = t /\ \A k \in 1 .. m : more[k] = cache[th][k]
  BY <1>2, AppendProperties
<1>4. cache'[th] = more /\ \A o \in Threads : o # th => cache'[o] = cache[o]
  BY <1>1 DEF PoolInv, P!TypeOK
<1>5. P!Cached(th)' = P!Cached(th) \cup {t}
  <2>1. P!Cached(th)' = {more[k] : k \in 1 .. m + 1}
    BY <1>3, <1>4 DEF P!Cached
  <2>2. 1 .. m + 1 = (1 .. m) \cup {m + 1}
    BY <1>2
  <2>3. {more[k] : k \in (1 .. m) \cup {m + 1}} = {cache[th][k] : k \in 1 .. m} \cup {t}
    BY <1>3
  <2> QED BY <2>1, <2>2, <2>3 DEF P!Cached
<1>6. \A o \in Threads : o # th => P!Cached(o)' = P!Cached(o)
  BY <1>4 DEF P!Cached
<1>7. Kept' = [Kept EXCEPT ![th] = @ \cup {t}]
  <2>1. Kept' = [o \in Threads |-> P!Cached(o)'] /\ Kept = [o \in Threads |-> P!Cached(o)]
    BY DEF Kept
  <2> QED BY <1>5, <1>6, <2>1
<1>8. P!Returning' = P!Returning
  BY <1>2 DEF P!Returning
<1>9. Divided /\ Divided'
  BY PoolDivided, DividedNext
<1>10. t \in Used /\ Used' = Used \ {t}
  BY <1>1, <1>8, <1>9 DEF Used, Divided
<1>11. P!Listed' = P!Listed
  BY <1>1, <1>5, <1>6, <1>8, <1>9 DEF Divided, P!Tasks
<1>12. Cardinality(Kept[th]) < CacheCapacity
  BY <1>2, CachedSize DEF Kept
<1> QED BY <1>7, <1>10, <1>11, <1>12, AbstractActions

\* A compare-and-swap of release shares the task and what is evicted with it.
LEMMA RefineReleaseCas ==
  ASSUME PoolInv, PoolInv', NEW th \in Threads, P!ReleaseCas(th)
  PROVE  P!AP!Share(th)
<1> PICK t, m : t = task[th] /\ m = CacheCapacity - EvictCount
  OBVIOUS
<1> DEFINE batch == {cache[th][k] : k \in m + 1 .. Len(cache[th])}
<1>1. /\ poolPc[th] = "casRelease" /\ inUse' = inUse
      /\ cache' = [cache EXCEPT ![th] = SubSeq(@, 1, m)]
      /\ task' = [task EXCEPT ![th] = 0]
  BY DEF P!ReleaseCas, P!ReturnFrom, P!Remain, P!Empty
<1>2. Len(cache[th]) = CacheCapacity /\ t # 0 /\ t \in P!Tasks
  BY <1>1 DEF PoolInv, Calls, Returns, P!TypeOK, P!Empty
<1>3. m \in 0 .. Len(cache[th]) /\ m + 1 \in 1 .. Len(cache[th]) + 1 /\ m \in Nat
  BY <1>2, ConstantFacts
<1>4. Kept' = [Kept EXCEPT ![th] = @ \ batch]
  BY <1>1, <1>3, CutCache
<1>5. Cardinality(batch) = EvictCount
  <2> PICK a : a = m + 1
    OBVIOUS
  <2>1. Cardinality({cache[th][k] : k \in a .. Len(cache[th])}) = Len(cache[th]) + 1 - a
    BY <1>3, StretchSize
  <2>2. Len(cache[th]) + 1 - a = EvictCount
    BY <1>2, ConstantFacts
  <2> QED BY <2>1, <2>2
<1>6. batch \subseteq P!Cached(th)
  <2>1. m + 1 .. Len(cache[th]) \subseteq 1 .. Len(cache[th])
    BY <1>2, <1>3, ConstantFacts
  <2> QED BY <2>1 DEF P!Cached
<1>7. \A o \in Threads : P!Cached(o)' = IF o = th THEN P!Cached(o) \ batch ELSE P!Cached(o)
  <2> HIDE DEF batch
  <2> TAKE o \in Threads
  <2>1. P!Cached(o)' = Kept'[o] /\ Kept[o] = P!Cached(o) /\ Kept = [p \in Threads |-> P!Cached(p)]
    BY DEF Kept
  <2> QED BY <1>4, <2>1
<1>8. Divided /\ Divided'
  BY PoolDivided, DividedNext
<1> HIDE DEF batch
<1>9. P!Returning' = P!Returning \ {t} /\ t \in P!Returning
  <2>1. task'[th] = 0 /\ \A o \in Threads : o # th => task'[o] = task[o]
    BY <1>1 DEF PoolInv, P!TypeOK
  <2>2. \A o \in Threads : o # th => task[o] # t
    BY <1>2, <1>8 DEF Divided
  <2> QED BY <1>2, <2>1, <2>2 DEF P!Returning, P!Empty
<1>10. t \in Used /\ Used' = Used \ {t}
  BY <1>1, <1>8, <1>9 DEF Used, Divided
<1>11. P!Listed' = P!Listed \cup batch \cup {t}
  <2>1. P!Tasks' = P!Tasks
    BY DEF P!Tasks
  <2>2. \A u \in P!Tasks : u \in P!Listed' <=> u \in P!Listed \cup batch \cup {t}
    <3> TAKE u \in P!Tasks
    <3>1. u \in P!Listed' <=> u \notin inUse /\ u \notin P!Returning \ {t}
                                /\ \A o \in Threads : u \notin P!Cached(o)'
      BY <1>1, <1>8, <1>9, <2>1 DEF Divided
    <3>2. CASE u = t
      BY <1>7, <1>8, <1>9, <3>1, <3>2 DEF Divided
    <3>3. CASE u \in batch
      BY <1>6, <1>7, <1>8, <3>1, <3>3 DEF Divided
    <3>4. CASE u # t /\ u \notin batch
      BY <1>6, <1>7, <1>8, <3>1, <3>4 DEF Divided
    <3> QED BY <3>2, <3>3, <3>4
  <2>3. P!Listed' \subseteq P!Tasks /\ P!Listed \subseteq P!Tasks /\ batch \subseteq P!Tasks
    BY <1>6, <1>8, <2>1 DEF Divided
  <2> QED BY <1>2, <2>2, <2>3
<1>12. Cardinality(Kept[th]) = CacheCapacity /\ batch \in SUBSET Kept[th]
  BY <1>2, <1>6, CachedSize DEF Kept
<1> QED BY <1>4, <1>5, <1>10, <1>11, <1>12, AbstractActions

\* Every other step is invisible.
LEMMA RefineOthers ==
  ASSUME PoolInv, PoolInv', NEW th \in Threads,
         \/ P!AcquireShared(th) \/ P!AcquireLoad(th) \/ P!AcquireNull(th) \/ P!AcquireNext(th)
         \/ P!AcquireRetry(th) \/ P!ReleaseShared(th) \/ P!ReleaseLink(th) \/ P!ReleaseLoad(th)
         \/ P!ReleaseTail(th) \/ P!ReleaseRetry(th)
  PROVE  Kept' = Kept /\ Used' = Used /\ P!Listed' = P!Listed
<1>1. cache' = cache
  BY DEF P!AcquireShared, P!AcquireLoad, P!AcquireNull, P!AcquireNext, P!AcquireRetry, P!CasFails,
     P!ReleaseShared, P!ReleaseLink, P!ReleaseLoad, P!ReleaseTail, P!ReleaseRetry
<1>2. Kept' = Kept
  BY <1>1 DEF Kept, P!Cached
<1>3. ASSUME P!ReleaseShared(th) PROVE Used' = Used
  <2>1. PICK t \in inUse : inUse' = inUse \ {t} /\ task' = [task EXCEPT ![th] = t]
    BY <1>3 DEF P!ReleaseShared
  <2>2. task[th] = 0 /\ t \in P!Tasks /\ t # 0
    BY <1>3, ConstantFacts DEF PoolInv, Calls, Returns, P!ReleaseShared, P!TypeOK
  <2>3. task'[th] = t /\ \A o \in Threads : o # th => task'[o] = task[o]
    BY <2>1 DEF PoolInv, P!TypeOK
  <2>4. P!Returning' = P!Returning \cup {t}
    BY <2>2, <2>3 DEF P!Returning, P!Empty
  <2> QED BY <2>1, <2>4 DEF Used
<1>4. ASSUME ~P!ReleaseShared(th) PROVE Used' = Used
  <2>1. inUse' = inUse
    BY <1>4 DEF P!AcquireShared, P!AcquireLoad, P!AcquireNull, P!AcquireNext, P!AcquireRetry,
       P!CasFails, P!ReleaseLink, P!ReleaseLoad, P!ReleaseTail, P!ReleaseRetry
  <2>2. task' = task
    <3>1. CASE P!AcquireNull(th)
      <4>1. task[th] = 0 /\ task' = [task EXCEPT ![th] = 0]
        BY <3>1 DEF PoolInv, Calls, Returns, P!AcquireNull, P!ReturnFrom, P!Empty
      <4> QED BY <4>1 DEF PoolInv, P!TypeOK
    <3>2. CASE ~P!AcquireNull(th)
      BY <1>4, <3>2 DEF P!AcquireShared, P!AcquireLoad, P!AcquireNext, P!AcquireRetry,
         P!CasFails, P!ReleaseLink, P!ReleaseLoad, P!ReleaseTail, P!ReleaseRetry
    <3> QED BY <3>1, <3>2
  <2> QED BY <2>1, <2>2 DEF Used, P!Returning
<1>5. Used' = Used
  BY <1>3, <1>4
<1>6. Divided /\ Divided'
  BY PoolDivided, DividedNext
<1> QED BY <1>2, <1>5, <1>6, PoolStutter

\* The initial states and the steps of the pool are AbstractPool's.
LEMMA RefineInitial == P!Init => P!AP!Init
<1> SUFFICES ASSUME P!Init PROVE P!AP!Init
  OBVIOUS
<1>1. /\ inUse = {} /\ cache = [th \in Threads |-> <<>>] /\ task = [th \in Threads |-> 0]
  BY DEF P!Init, P!Empty
<1>2. P!Returning = {} /\ \A th \in Threads : P!Cached(th) = {}
  BY <1>1 DEF P!Returning, P!Cached, P!Empty
<1>3. Divided
  BY PoolInitial, PoolDivided
<1>4. P!Listed = P!Tasks
  BY <1>1, <1>2, <1>3 DEF Divided
<1> QED BY <1>1, <1>2, <1>4 DEF P!AP!Init

LEMMA RefineStep ==
  PoolInv /\ PoolInv' /\ [P!Next]_poolVars
    => P!AP!Next \/ (Kept' = Kept /\ Used' = Used /\ P!Listed' = P!Listed)
<1> SUFFICES ASSUME PoolInv, PoolInv', [P!Next]_poolVars
             PROVE P!AP!Next \/ (Kept' = Kept /\ Used' = Used /\ P!Listed' = P!Listed)
  OBVIOUS
<1>1. ASSUME NEW th \in Threads, P!Acquire(th) \/ P!Release(th)
      PROVE P!AP!Next \/ (Kept' = Kept /\ Used' = Used /\ P!Listed' = P!Listed)
  <2>1. CASE P!AcquireCached(th) \/ P!AcquireCas(th) \/ P!ReleaseCached(th) \/ P!ReleaseCas(th)
    BY <2>1, RefineAcquireCached, RefineAcquireCas, RefineReleaseCached, RefineReleaseCas
       DEF P!AP!Next
  <2>2. CASE ~(P!AcquireCached(th) \/ P!AcquireCas(th) \/ P!ReleaseCached(th) \/ P!ReleaseCas(th))
    BY <1>1, <2>2, RefineOthers DEF P!Acquire, P!Release
  <2> QED BY <2>1, <2>2
<1>2. CASE UNCHANGED poolVars
  <2>1. Kept' = Kept /\ Used' = Used
    BY <1>2 DEF poolVars, Kept, Used, P!Cached, P!Returning
  <2>2. Divided /\ Divided'
    BY PoolDivided, DividedNext
  <2> QED BY <2>1, <2>2, PoolStutter
<1> QED BY <1>1, <1>2 DEF P!Next

\* acquire and release take effect in one step each, a compare-and-swap or an
\* access to the thread's own cache, and give and take whole batches
\* (sk_scheduler.c:71-136).
THEOREM PoolTheorem == StructuresSpec => ImplementsPool
<1> DEFINE Map == <<P!Listed, Kept, Used>>
<1>1. PoolInv /\ PoolInv' /\ [P!Next]_poolVars => [P!AP!Next]_Map
  BY RefineStep
<1>2. ImplementsPool <=> P!AP!Init /\ [][P!AP!Next]_Map
  BY DEF ImplementsPool, P!ImplementsPool, P!AP!Spec, Kept, Used
<1> HIDE DEF Map
<1> QED BY <1>1, <1>2, PoolInvariant, PoolPart, RefineInitial, PTL DEF StructuresSpec

-----------------------------------------------------------------------------
(* Aligned allocation.                                                      *)

\* Multiples of a number, and what rounding down to one gives.
LEMMA Multiples ==
  ASSUME NEW p \in Nat \ {0}, NEW n \in Nat
  PROVE  (n * p) % p = 0
<1> DEFINE y == n * p
           d == y \div p
           r == y % p
<1>1. y \in Nat /\ d \in Int /\ r \in 0 .. p - 1 /\ y = p * d + r
  OBVIOUS
<1>2. p * (n - d) = r
  BY <1>1
<1> HIDE DEF y, d, r
<1>3. ~(n - d >= 1)
  BY <1>1, <1>2
<1>4. ~(n - d <= -1)
  BY <1>1, <1>2
<1>5. r = 0
  BY <1>1, <1>2, <1>3, <1>4
<1> QED BY <1>5 DEF r, y

LEMMA RoundDown ==
  ASSUME NEW p \in Nat \ {0}, NEW n \in Nat
  PROVE  /\ (n \div p) * p \in Nat /\ (n \div p) * p <= n /\ (n \div p) * p > n - p
         /\ ((n \div p) * p) % p = 0
<1> PICK q : q = n \div p
  OBVIOUS
<1>1. q \in Nat /\ n % p \in 0 .. p - 1 /\ n = p * q + (n % p)
  OBVIOUS
<1>2. q * p \in Nat /\ q * p = p * q
  BY <1>1
<1>3. q * p <= n /\ q * p > n - p
  BY <1>1, <1>2
<1> QED BY <1>1, <1>2, <1>3, Multiples

LEMMA MultiplesOfMultiples ==
  ASSUME NEW p \in Nat \ {0}, NEW a \in Nat, NEW y \in Nat, a # 0, a % p = 0, y % a = 0
  PROVE  y % p = 0
<1> PICK q, m : q = y \div a /\ m = a \div p
  OBVIOUS
<1>1. q \in Nat /\ y = a * q
  OBVIOUS
<1>2. m \in Nat /\ a = p * m
  OBVIOUS
<1>3. m * q \in Nat /\ y = (m * q) * p
  BY <1>1, <1>2
<1> QED BY <1>3, Multiples

\* A block as Alloc makes it.
Made(b) ==
  /\ b.raw \in A!WordAddresses /\ b.alignment \in Alignments /\ b.size \in Nat
  /\ b.len = b.size + A!Offset(b.alignment)
  /\ b.ptr = A!Aligned(b.raw, b.alignment)
  /\ b.raw + b.len - 1 <= MaxAddress

\* Blocks do not overlap, and every header holds the address of its block.
AllocInv ==
  /\ word \in [A!WordAddresses -> {0} \cup A!WordAddresses]
  /\ \A b \in blocks : Made(b) /\ word[b.ptr - PtrSize] = b.raw
  /\ \A b, c \in blocks : b # c => A!Range(b.raw, b.len) \cap A!Range(c.raw, c.len) = {}

LEMMA AllocConstants ==
  /\ PtrSize \in Nat \ {0} /\ MaxAddress \in Nat /\ AllocSizes \subseteq Nat
  /\ \A a \in Alignments : a \in Nat \ {0} /\ a % PtrSize = 0
BY StructuresAssumption DEF A!AllocAssumption

\* The header and the memory behind it lie in the block.
LEMMA BlockFacts ==
  ASSUME NEW b, Made(b)
  PROVE  /\ b.raw \in Nat /\ b.len \in Nat /\ b.ptr \in Nat /\ b.size \in Nat
         /\ b.raw <= b.ptr - PtrSize /\ b.ptr + b.size <= b.raw + b.len
         /\ b.ptr % b.alignment = 0
         /\ b.ptr - PtrSize \in A!WordAddresses
<1> PICK p, al, n, q : /\ p = PtrSize /\ al = b.alignment /\ n = b.raw + p + al - 1
                       /\ q = (n \div al) * al
  OBVIOUS
<1>0. /\ b.raw \in A!WordAddresses /\ b.alignment \in Alignments /\ b.size \in Nat
      /\ b.len = b.size + (al - 1 + p) /\ b.ptr = q /\ b.raw + b.len - 1 <= MaxAddress
  <2>1. /\ b.raw \in A!WordAddresses /\ b.alignment \in Alignments /\ b.size \in Nat
        /\ b.len = b.size + A!Offset(al) /\ b.ptr = A!Aligned(b.raw, al)
        /\ b.raw + b.len - 1 <= MaxAddress
    BY Zenon DEF Made
  <2>2. A!Offset(al) = al - 1 + p
    BY DEF A!Offset
  <2>3. A!Aligned(b.raw, al) = q
    BY Zenon DEF A!Aligned
  <2> QED BY <2>1, <2>2, <2>3
<1>1. /\ p \in Nat \ {0} /\ al \in Nat \ {0} /\ al % p = 0
      /\ b.raw \in Nat \ {0} /\ b.raw % p = 0 /\ b.size \in Nat /\ n \in Nat
      /\ b.len = b.size + (al - 1 + p) /\ b.ptr = q /\ b.raw + b.len - 1 <= MaxAddress
      /\ MaxAddress \in Nat
  <2>1. p \in Nat \ {0} /\ MaxAddress \in Nat /\ al \in Nat \ {0} /\ al % p = 0
    BY <1>0, AllocConstants
  <2>2. b.raw \in Nat \ {0} /\ b.raw % p = 0
    BY <1>0, <2>1 DEF A!WordAddresses, A!Addresses
  <2> QED BY <1>0, <2>1, <2>2
<1>2. q \in Nat /\ q <= n /\ q > n - al /\ q % al = 0
  <2>1. n \in Nat /\ al \in Nat \ {0}
    BY <1>1
  <2>2. PICK m : m = (n \div al) * al /\ m \in Nat /\ m <= n /\ m > n - al /\ m % al = 0
    BY <2>1, RoundDown, Zenon
  <2>3. q = m
    BY <2>2, Zenon
  <2> QED BY <2>2, <2>3
<1>3. q % p = 0
  BY <1>1, <1>2, MultiplesOfMultiples
<1>4. b.raw <= q - p /\ q + b.size <= b.raw + b.len
  BY <1>1, <1>2
<1>5. q - p \in 1 .. MaxAddress
  BY <1>1, <1>4
<1>6. (q - p) % p = 0
  <2> PICK k : k = q \div p
    OBVIOUS
  <2>1. k \in Nat /\ q = p * k
    BY <1>1, <1>2, <1>3
  <2>2. k # 0
    BY <1>5, <1>1, <2>1
  <2> PICK j : j = k - 1
    OBVIOUS
  <2>3. j \in Nat /\ q - p = j * p
    BY <1>1, <2>1, <2>2
  <2> QED BY <1>1, <2>3, Multiples
<1>7. q - p \in A!WordAddresses
  BY <1>5, <1>6 DEF A!WordAddresses, A!Addresses
<1> QED BY <1>1, <1>2, <1>4, <1>7

\* Headers of two blocks are two words, and none lies in the other's memory.
LEMMA HeadersApart ==
  ASSUME NEW b, NEW c, Made(b), Made(c), A!Range(b.raw, b.len) \cap A!Range(c.raw, c.len) = {}
  PROVE  /\ b.ptr - PtrSize # c.ptr - PtrSize
         /\ A!Range(c.ptr - PtrSize, PtrSize) \cap A!Range(b.ptr, b.size) = {}
<1>1. /\ b.raw \in Nat /\ b.len \in Nat /\ b.ptr \in Nat /\ b.size \in Nat
      /\ b.raw <= b.ptr - PtrSize /\ b.ptr + b.size <= b.raw + b.len
      /\ c.raw \in Nat /\ c.len \in Nat /\ c.ptr \in Nat /\ c.size \in Nat
      /\ c.raw <= c.ptr - PtrSize /\ c.ptr + c.size <= c.raw + c.len
      /\ PtrSize \in Nat \ {0}
  BY BlockFacts, AllocConstants
<1>2. b.ptr - PtrSize # c.ptr - PtrSize
  <2>1. b.ptr - PtrSize \in A!Range(b.raw, b.len)
    BY <1>1 DEF A!Range
  <2>2. c.ptr - PtrSize \in A!Range(c.raw, c.len)
    BY <1>1 DEF A!Range
  <2> QED BY <2>1, <2>2
<1>3. A!Range(c.ptr - PtrSize, PtrSize) \subseteq A!Range(c.raw, c.len)
  BY <1>1 DEF A!Range
<1>4. A!Range(b.ptr, b.size) \subseteq A!Range(b.raw, b.len)
  BY <1>1 DEF A!Range
<1> QED BY <1>2, <1>3, <1>4

\* malloc gives memory that is nobody's, and its header is nobody else's.
LEMMA AllocStep ==
  ASSUME AllocInv, NEW alignment \in Alignments, NEW n \in AllocSizes, A!Alloc(alignment, n)
  PROVE  AllocInv'
<1> PICK len : len = n + A!Offset(alignment)
  OBVIOUS
<1>1. PICK raw \in A!Malloc(len) :
        /\ blocks' = blocks \cup
             {[raw |-> raw, len |-> len, ptr |-> A!Aligned(raw, alignment),
               size |-> n, alignment |-> alignment]}
        /\ word' = [a \in A!WordAddresses |->
                      IF a = A!Aligned(raw, alignment) - PtrSize THEN raw ELSE word[a]]
  BY DEF A!Alloc
<1> PICK b : b = [raw |-> raw, len |-> len, ptr |-> A!Aligned(raw, alignment),
                  size |-> n, alignment |-> alignment]
  OBVIOUS
<1>2. /\ blocks' = blocks \cup {b}
      /\ word' = [a \in A!WordAddresses |-> IF a = b.ptr - PtrSize THEN raw ELSE word[a]]
  BY <1>1
<1>3. /\ raw \in A!WordAddresses /\ raw + len - 1 <= MaxAddress
      /\ \A c \in blocks : A!Range(raw, len) \cap A!Range(c.raw, c.len) = {}
  BY DEF A!Malloc
<1>4. Made(b) /\ b.raw = raw /\ b.len = len
  BY <1>3, AllocConstants DEF Made
<1>5. b.ptr - PtrSize \in A!WordAddresses
  BY <1>4, BlockFacts
<1>6. word' \in [A!WordAddresses -> {0} \cup A!WordAddresses]
  BY <1>2, <1>3 DEF AllocInv
<1>7. \A c \in blocks' : Made(c)
  BY <1>2, <1>4 DEF AllocInv
<1>8. ASSUME NEW c \in blocks' PROVE word'[c.ptr - PtrSize] = c.raw
  <2>1. CASE c = b
    BY <1>2, <1>4, <1>5, <2>1
  <2>2. CASE c # b
    <3>1. c \in blocks /\ Made(c) /\ word[c.ptr - PtrSize] = c.raw
      BY <1>2, <2>2 DEF AllocInv
    <3>2. A!Range(b.raw, b.len) \cap A!Range(c.raw, c.len) = {}
      BY <1>3, <1>4, <3>1
    <3>3. b.ptr - PtrSize # c.ptr - PtrSize
      BY <1>4, <3>1, <3>2, HeadersApart
    <3>4. c.ptr - PtrSize \in A!WordAddresses
      BY <3>1, BlockFacts
    <3> QED BY <1>2, <3>1, <3>3, <3>4
  <2> QED BY <2>1, <2>2
<1>9. ASSUME NEW c \in blocks', NEW d \in blocks', c # d
      PROVE  A!Range(c.raw, c.len) \cap A!Range(d.raw, d.len) = {}
  <2>1. CASE c \in blocks /\ d \in blocks
    BY <1>9, <2>1 DEF AllocInv
  <2>2. CASE c = b /\ d \in blocks
    BY <1>3, <1>4, <2>2
  <2>3. CASE c \in blocks /\ d = b
    BY <1>3, <1>4, <2>3
  <2> QED BY <1>2, <1>9, <2>1, <2>2, <2>3
<1> QED BY <1>6, <1>7, <1>8, <1>9 DEF AllocInv, Made, A!WordAddresses, A!Addresses, A!Range

\* An owner writes behind its own header and into nobody else's block.
LEMMA UseStep ==
  ASSUME AllocInv, NEW b \in blocks, A!Use(b)
  PROVE  AllocInv'
<1>1. /\ blocks' = blocks
      /\ word' = [a \in A!WordAddresses |->
            IF A!Range(a, PtrSize) \cap A!Range(b.ptr, b.size) # {} THEN 0 ELSE word[a]]
  BY DEF A!Use
<1>2. word' \in [A!WordAddresses -> {0} \cup A!WordAddresses]
  BY <1>1 DEF AllocInv
<1>3. ASSUME NEW c \in blocks PROVE word'[c.ptr - PtrSize] = c.raw
  <2>1. Made(b) /\ Made(c) /\ word[c.ptr - PtrSize] = c.raw
    BY DEF AllocInv
  <2>2. c.ptr - PtrSize \in A!WordAddresses
    BY <2>1, BlockFacts
  <2>3. A!Range(c.ptr - PtrSize, PtrSize) \cap A!Range(b.ptr, b.size) = {}
    <3>1. CASE c = b
      <4>1. b.ptr \in Nat /\ PtrSize \in Nat /\ b.size \in Nat
        BY <2>1, BlockFacts, AllocConstants
      <4> QED BY <3>1, <4>1 DEF A!Range
    <3>2. CASE c # b
      <4>1. A!Range(b.raw, b.len) \cap A!Range(c.raw, c.len) = {}
        BY <3>2 DEF AllocInv
      <4> QED BY <2>1, <4>1, HeadersApart
    <3> QED BY <3>1, <3>2
  <2> QED BY <1>1, <2>1, <2>2, <2>3
<1> QED BY <1>1, <1>2, <1>3 DEF AllocInv, Made, A!WordAddresses, A!Addresses, A!Range

\* An allocator that is not the part that runs does not move.
LEMMA AllocPart ==
  /\ StructuresInit => AllocInv
  /\ AllocInv /\ [StructuresNext]_<<part, vars, poolVars, capacityVars, victimVars, allocVars>>
       => AllocInv'
<1>1. StructuresInit => AllocInv
  BY DEF StructuresInit, A!Init, AllocInv
<1>2. ASSUME AllocInv,
             [StructuresNext]_<<part, vars, poolVars, capacityVars, victimVars, allocVars>>
      PROVE AllocInv'
  <2>1. ASSUME A!Next PROVE AllocInv'
    <3>1. ASSUME NEW b \in blocks, A!Free(b) PROVE AllocInv'
      BY <1>2, <3>1 DEF A!Free, AllocInv, Made, A!WordAddresses, A!Addresses, A!Range
    <3> QED BY <1>2, <2>1, <3>1, AllocStep, UseStep DEF A!Next
  <2>2. CASE UNCHANGED allocVars
    BY <1>2, <2>2 DEF allocVars, AllocInv, Made, A!WordAddresses, A!Addresses, A!Range
  <2> QED BY <1>2, <2>1, <2>2 DEF StructuresNext
<1> QED BY <1>1, <1>2

\* The header that sys_aligned_free reads is the one sys_aligned_alloc wrote,
\* however the blocks around it are filled and freed
\* (sk_memory_utils.h:7-29).
THEOREM HeaderTheorem == StructuresSpec => []HeaderSurvives
<1>1. AllocInv => HeaderSurvives
  <2> SUFFICES ASSUME AllocInv PROVE A!TypeOK /\ A!HeaderSurvives
    BY DEF HeaderSurvives
  <2>1. ASSUME NEW b \in blocks
        PROVE /\ b.ptr % b.alignment = 0
              /\ A!Range(b.ptr - PtrSize, PtrSize + b.size) \subseteq A!Range(b.raw, b.len)
    <3>1. Made(b)
      BY DEF AllocInv
    <3>2. /\ b.raw \in Nat /\ b.len \in Nat /\ b.ptr \in Nat /\ b.size \in Nat
          /\ b.raw <= b.ptr - PtrSize /\ b.ptr + b.size <= b.raw + b.len
          /\ b.ptr % b.alignment = 0 /\ PtrSize \in Nat
      BY <3>1, BlockFacts, AllocConstants
    <3> QED BY <3>2 DEF A!Range
  <2> QED BY <2>1 DEF AllocInv, A!TypeOK, A!HeaderSurvives
<1> QED BY <1>1, AllocPart, PTL DEF StructuresSpec

-----------------------------------------------------------------------------
(* Rounding a capacity: powers of two and sums of them.                     *)

\* What is defined at 0 and from each number to the next is defined up to n.
Table(f, n, S, base, step) ==
  /\ f \in [0 .. n -> S] /\ f[0] = base
  /\ \A k \in 1 .. n : f[k] = step[<<k, f[k - 1]>>]

LEMMA TableExists ==
  ASSUME NEW n \in Nat, NEW S, NEW base \in S, NEW step \in [(1 .. n) \X S -> S]
  PROVE  \E f : Table(f, n, S, base, step)
<1> DEFINE Bad == {m \in 0 .. n : ~\E f : Table(f, m, S, base, step)}
<1> SUFFICES ASSUME Bad # {} PROVE FALSE
  OBVIOUS
<1>1. Bad \subseteq Nat
  OBVIOUS
<1>2. PICK m \in Bad : \A i \in Bad : ~(i < m)
  <2> HIDE DEF Bad
  <2> QED BY <1>1, LeastNatural
<1>3. m \in 0 .. n /\ ~\E f : Table(f, m, S, base, step)
  OBVIOUS
<1>4. CASE m = 0
  <2>1. Table([k \in 0 .. 0 |-> base], 0, S, base, step)
    BY DEF Table
  <2> QED BY <1>3, <1>4, <2>1
<1>5. CASE m # 0
  <2> PICK i : i = m - 1
    OBVIOUS
  <2>1. i \in 0 .. n /\ i < m /\ m = i + 1
    BY <1>3, <1>5
  <2>2. PICK f : Table(f, i, S, base, step)
    BY <1>2, <2>1
  <2>3. m \in 1 .. n /\ f[i] \in S
    BY <2>1, <2>2 DEF Table
  <2>4. step[<<m, f[i]>>] \in S
    BY <2>3
  <2> PICK g : g = [k \in 0 .. m |-> IF k = m THEN step[<<m, f[i]>>] ELSE f[k]]
    OBVIOUS
  <2>5. \A k \in 0 .. m : k # m => k \in 0 .. i
    BY <2>1
  <2>6. g \in [0 .. m -> S]
    BY <2>2, <2>4, <2>5 DEF Table
  <2>7. g[0] = base
    BY <1>5, <2>1, <2>2 DEF Table
  <2>8. ASSUME NEW k \in 1 .. m PROVE g[k] = step[<<k, g[k - 1]>>]
    <3>1. k - 1 \in 0 .. m /\ k - 1 # m /\ k \in 0 .. m
      BY <2>1
    <3>2. g[k - 1] = f[k - 1]
      BY <3>1
    <3>3. CASE k = m
      BY <2>1, <3>1, <3>2, <3>3
    <3>4. CASE k # m
      <4>1. k \in 1 .. i
        BY <2>1, <3>4
      <4> QED BY <2>2, <3>1, <3>2, <3>4, <4>1 DEF Table
    <3> QED BY <3>3, <3>4
  <2>9. Table(g, m, S, base, step)
    BY <2>6, <2>7, <2>8 DEF Table
  <2> QED BY <1>3, <2>9
<1> QED BY <1>4, <1>5

\* The widths of the code, and the shifts up to half of them.
LEMMA Widths ==
  /\ Width \in {2, 4, 8, 16, 32, 64} /\ Width \in Nat /\ Width > 1
  /\ Width \div 2 \in Nat /\ 2 * (Width \div 2) = Width
BY StructuresAssumption DEF C!WidthAssumption

\* The powers of two are what their definition says.
LEMMA PowFacts ==
  /\ C!Pow \in [0 .. Width -> Nat \ {0}] /\ C!Pow[0] = 1
  /\ \A k \in 1 .. Width : C!Pow[k] = 2 * C!Pow[k - 1]
<1> DEFINE Step(f) == [k \in 0 .. Width |-> IF k = 0 THEN 1 ELSE 2 * f[k - 1]]
<1>1. \E f : f = Step(f)
  <2> PICK step : step = [p \in (1 .. Width) \X (Nat \ {0}) |-> 2 * p[2]]
    OBVIOUS
  <2>1. PICK S, n : S = Nat \ {0} /\ n = Width
    OBVIOUS
  <2>2. PICK f : Table(f, Width, Nat \ {0}, 1, step)
    <3>1. step \in [(1 .. n) \X S -> S] /\ n \in Nat /\ 1 \in S
      BY <2>1, Widths
    <3>2. \E f : Table(f, n, S, 1, step)
      BY <3>1, TableExists
    <3> QED BY <2>1, <3>2
  <2>3. \A k \in 0 .. Width : k # 0 => k \in 1 .. Width /\ k - 1 \in 0 .. Width
    BY Widths
  <2>4. \A k \in 1 .. Width : f[k] = 2 * f[k - 1]
    <3> SUFFICES ASSUME NEW k \in 1 .. Width PROVE f[k] = 2 * f[k - 1]
      OBVIOUS
    <3>1. f[k - 1] \in Nat \ {0}
      BY <2>2, Widths DEF Table
    <3>2. <<k, f[k - 1]>> \in (1 .. Width) \X (Nat \ {0})
      BY <3>1
    <3> QED BY <2>2, <3>2 DEF Table
  <2>5. f = [k \in 0 .. Width |-> f[k]]
    BY <2>2 DEF Table
  <2>6. \A k \in 0 .. Width : f[k] = IF k = 0 THEN 1 ELSE 2 * f[k - 1]
    BY <2>2, <2>3, <2>4 DEF Table
  <2> QED BY <2>5, <2>6
<1>2. C!Pow = CHOOSE f : f = Step(f)
  BY DEF C!Pow
<1>3. C!Pow = Step(C!Pow)
  <2> HIDE DEF Step
  <2> QED BY <1>1, <1>2
<1>4. \A k \in 0 .. Width : C!Pow[k] = IF k = 0 THEN 1 ELSE 2 * C!Pow[k - 1]
  BY <1>3
<1>5. C!Pow[0] = 1 /\ \A k \in 1 .. Width : C!Pow[k] = 2 * C!Pow[k - 1]
  BY <1>4, Widths
<1>6. DOMAIN C!Pow = 0 .. Width /\ C!Pow = [k \in 0 .. Width |-> C!Pow[k]]
  BY <1>3
<1> HIDE DEF Step
<1>7. \A k \in 0 .. Width : C!Pow[k] \in Nat \ {0}
  <2> DEFINE Bad == {k \in 0 .. Width : C!Pow[k] \notin Nat \ {0}}
  <2> SUFFICES ASSUME Bad # {} PROVE FALSE
    OBVIOUS
  <2>1. Bad \subseteq Nat
    OBVIOUS
  <2>2. PICK m \in Bad : \A i \in Bad : ~(i < m)
    <3> HIDE DEF Bad
    <3> QED BY <2>1, LeastNatural
  <2> PICK i : i = m - 1
    OBVIOUS
  <2>3. m # 0
    BY <1>5
  <2>4. m \in 1 .. Width /\ i \in 0 .. Width /\ i < m
    <3>1. m \in 0 .. Width
      OBVIOUS
    <3> HIDE DEF Bad
    <3> QED BY <2>3, <3>1, Widths
  <2>5. C!Pow[i] \in Nat \ {0}
    BY <2>2, <2>4
  <2> QED BY <1>5, <2>4, <2>5
<1> QED BY <1>5, <1>6, <1>7

\* A larger exponent at least doubles the power.
LEMMA PowGrows ==
  ASSUME NEW i \in 0 .. Width, NEW j \in 0 .. Width, i < j
  PROVE  2 * C!Pow[i] <= C!Pow[j]
<1> DEFINE Bad == {k \in 0 .. Width : i < k /\ ~(2 * C!Pow[i] <= C!Pow[k])}
<1> SUFFICES ASSUME Bad # {} PROVE FALSE
  OBVIOUS
<1>1. Bad \subseteq Nat
  OBVIOUS
<1>2. PICK m \in Bad : \A k \in Bad : ~(k < m)
  <2> HIDE DEF Bad
  <2> QED BY <1>1, LeastNatural
<1>3. m \in 0 .. Width /\ i < m /\ ~(2 * C!Pow[i] <= C!Pow[m])
  OBVIOUS
<1> PICK k : k = m - 1
  OBVIOUS
<1>4. m \in 1 .. Width /\ k \in 0 .. Width /\ k < m /\ i <= k
  BY <1>3, Widths
<1>5. i = k \/ 2 * C!Pow[i] <= C!Pow[k]
  BY <1>2, <1>4
<1>6. C!Pow[m] = 2 * C!Pow[k] /\ C!Pow[k] \in Nat /\ C!Pow[i] \in Nat
  BY <1>4, PowFacts
<1> HIDE DEF Bad
<1> QED BY <1>3, <1>5, <1>6

\* A number that is not zero lies between two powers of two.
LEMMA Highest ==
  ASSUME NEW n \in Nat \ {0}, n < C!Pow[Width]
  PROVE  \E h \in 0 .. Width - 1 : C!Pow[h] <= n /\ n < C!Pow[h + 1]
<1> DEFINE Above == {k \in 0 .. Width : n < C!Pow[k]}
<1>1. Above \subseteq Nat /\ Above # {}
  BY Widths
<1>2. PICK m \in Above : \A k \in Above : ~(k < m)
  <2> HIDE DEF Above
  <2> QED BY <1>1, LeastNatural
<1>3. m \in 0 .. Width /\ n < C!Pow[m]
  OBVIOUS
<1> PICK h : h = m - 1
  OBVIOUS
<1>4. m # 0
  BY <1>3, PowFacts
<1>5. h \in 0 .. Width - 1 /\ h \in 0 .. Width /\ h < m /\ m = h + 1
  BY <1>3, <1>4, Widths
<1>6. C!Pow[h] \in Nat
  BY <1>5, PowFacts
<1>7. ~(n < C!Pow[h])
  BY <1>2, <1>5
<1> QED BY <1>3, <1>5, <1>6, <1>7

\* Its highest one bit is the exponent of the lower one.
LEMMA HighestBit ==
  ASSUME NEW n \in Nat, NEW h \in C!Bit, C!Pow[h] <= n, n < C!Pow[h + 1]
  PROVE  h \in C!Bits(n) /\ \A b \in C!Bits(n) : b \in 0 .. h
<1>1. h \in 0 .. Width /\ h + 1 \in 1 .. Width /\ h \in Nat
  BY Widths DEF C!Bit
<1> PICK p : p = C!Pow[h]
  OBVIOUS
<1>2. p \in Nat \ {0} /\ C!Pow[h + 1] = 2 * p
  BY <1>1, PowFacts
<1>3. n \div p = 1
  BY <1>2
<1>4. h \in C!Bits(n)
  BY <1>3 DEF C!Bits
<1>5. ASSUME NEW b \in C!Bits(n) PROVE b \in 0 .. h
  <2>1. b \in C!Bit /\ b \in 0 .. Width /\ (n \div C!Pow[b]) % 2 = 1
    BY Widths DEF C!Bits, C!Bit
  <2> SUFFICES ASSUME b > h PROVE FALSE
    BY <1>1, <2>1
  <2> PICK q : q = C!Pow[b]
    OBVIOUS
  <2>2. 2 * p <= q /\ q \in Nat \ {0}
    BY <1>1, <2>1, PowGrows, PowFacts
  <2>3. n < q
    BY <1>2, <2>2
  <2>4. n \div q = 0
    BY <2>2, <2>3
  <2> QED BY <2>1, <2>4
<1> QED BY <1>4, <1>5

\* A block of ones from the lowest bit up to h is one less than a power of two.
LEMMA OnesValue ==
  ASSUME NEW h \in C!Bit
  PROVE  C!Value(0 .. h) = C!Pow[h + 1] - 1
<1> DEFINE Step(f) == [k \in 0 .. Width |->
              IF k = 0 THEN 0
              ELSE f[k - 1] + (IF k - 1 \in 0 .. h THEN C!Pow[k - 1] ELSE 0)]
<1> DEFINE Sum == CHOOSE f : f = Step(f)
<1>0. Width \in Nat /\ h \in 0 .. Width - 1
  BY Widths DEF C!Bit
<1>1. C!Value(0 .. h) = Sum[Width]
  BY DEF C!Value
<1>2. \E f : f = Step(f)
  <2>0. PICK f : f = [k \in 0 .. Width |-> IF k <= h + 1 THEN C!Pow[k] - 1 ELSE C!Pow[h + 1] - 1]
    OBVIOUS
  <2>4. \A k \in 0 .. Width : /\ k <= h + 1 => f[k] = C!Pow[k] - 1
                              /\ ~(k <= h + 1) => f[k] = C!Pow[h + 1] - 1
    BY <2>0
  <2>1. ASSUME NEW k \in 0 .. Width
        PROVE  f[k] = IF k = 0 THEN 0
                      ELSE f[k - 1] + (IF k - 1 \in 0 .. h THEN C!Pow[k - 1] ELSE 0)
    <3>1. CASE k = 0
      <4>1. f[0] = C!Pow[0] - 1
        <5>1. 0 \in 0 .. Width /\ 0 <= h + 1
          BY <1>0
        <5> QED BY <2>4, <5>1
      <4>2. f[0] = 0
        BY <4>1, PowFacts
      <4> QED BY <3>1, <4>2
    <3>2. CASE k # 0
      <4> PICK i : i = k - 1
        OBVIOUS
      <4>1. i \in 0 .. Width /\ k = i + 1 /\ k \in 1 .. Width
        BY <1>0, <3>2
      <4>2. C!Pow[k] = 2 * C!Pow[i] /\ C!Pow[i] \in Nat /\ C!Pow[h + 1] \in Nat
        BY <1>0, <4>1, PowFacts
      <4>3. CASE i <= h
        <5>1. f[k] = C!Pow[k] - 1 /\ f[i] = C!Pow[i] - 1 /\ i \in 0 .. h
          BY <1>0, <2>4, <4>1, <4>3
        <5> QED BY <3>2, <4>2, <5>1
      <4>4. CASE ~(i <= h)
        <5>1. f[k] = C!Pow[h + 1] - 1
          BY <1>0, <2>4, <4>1, <4>4
        <5>2. f[i] = C!Pow[h + 1] - 1
          <6>1. i <= h + 1 => i = h + 1
            BY <1>0, <4>1, <4>4
          <6> QED BY <2>4, <4>1, <6>1
        <5>3. i \notin 0 .. h
          BY <4>4
        <5> QED BY <3>2, <4>2, <5>1, <5>2, <5>3
      <4> QED BY <4>3, <4>4
    <3> QED BY <3>1, <3>2
  <2>2. f = [k \in 0 .. Width |-> f[k]]
    BY <2>0
  <2>3. [k \in 0 .. Width |-> f[k]] = Step(f)
    BY <2>1, Zenon
  <2> QED BY <2>2, <2>3
<1>3. Sum = Step(Sum)
  <2> HIDE DEF Step
  <2> QED BY <1>2
<1>4. Sum[0] = 0 /\ \A k \in 1 .. Width :
        Sum[k] = Sum[k - 1] + (IF k - 1 \in 0 .. h THEN C!Pow[k - 1] ELSE 0)
  <2> HIDE DEF Sum
  <2>1. \A k \in 0 .. Width :
          Sum[k] = IF k = 0 THEN 0
                   ELSE Sum[k - 1] + (IF k - 1 \in 0 .. h THEN C!Pow[k - 1] ELSE 0)
    BY <1>3
  <2>2. 0 \in 0 .. Width /\ \A k \in 1 .. Width : k \in 0 .. Width /\ k # 0
    BY <1>0
  <2> HIDE DEF Step
  <2> QED BY <2>1, <2>2
<1> HIDE DEF Sum, Step
<1> PICK s : s = Sum
  OBVIOUS
<1>5. \A k \in 0 .. Width : s[k] = IF k <= h + 1 THEN C!Pow[k] - 1 ELSE C!Pow[h + 1] - 1
  <2> DEFINE Bad == {k \in 0 .. Width :
                       s[k] # IF k <= h + 1 THEN C!Pow[k] - 1 ELSE C!Pow[h + 1] - 1}
  <2> SUFFICES ASSUME Bad # {} PROVE FALSE
    OBVIOUS
  <2>1. Bad \subseteq Nat
    OBVIOUS
  <2>2. PICK m \in Bad : \A k \in Bad : ~(k < m)
    <3> HIDE DEF Bad
    <3> QED BY <2>1, LeastNatural
  <2>3. m \in 0 .. Width /\ s[m] # IF m <= h + 1 THEN C!Pow[m] - 1 ELSE C!Pow[h + 1] - 1
    OBVIOUS
  <2> PICK i : i = m - 1
    OBVIOUS
  <2>4. m # 0
    BY <1>0, <1>4, <2>3, PowFacts
  <2>5. i \in 0 .. Width /\ i < m /\ m \in 1 .. Width /\ m = i + 1
    BY <1>0, <2>3, <2>4
  <2>6. s[i] = IF i <= h + 1 THEN C!Pow[i] - 1 ELSE C!Pow[h + 1] - 1
    BY <2>2, <2>5
  <2> HIDE DEF Bad
  <2>7. s[m] = s[i] + (IF i \in 0 .. h THEN C!Pow[i] ELSE 0)
    BY <1>4, <2>5
  <2>8. C!Pow[m] = 2 * C!Pow[i] /\ C!Pow[i] \in Nat /\ C!Pow[h + 1] \in Nat
    BY <1>0, <2>5, PowFacts
  <2>9. CASE i <= h
    <3>1. s[m] = C!Pow[m] - 1
      BY <1>0, <2>5, <2>6, <2>7, <2>8, <2>9
    <3> QED BY <1>0, <2>3, <2>5, <2>9, <3>1
  <2>10. CASE ~(i <= h)
    <3>1. s[m] = s[i] /\ s[i] = C!Pow[h + 1] - 1
      <4>1. i \notin 0 .. h /\ (i <= h + 1 => i = h + 1)
        BY <1>0, <2>5, <2>10
      <4> QED BY <2>6, <2>7, <2>8, <4>1
    <3> QED BY <1>0, <2>3, <2>5, <2>10, <3>1
  <2> QED BY <2>9, <2>10
<1>6. s[Width] = C!Pow[h + 1] - 1
  <2>1. Width \in 0 .. Width /\ (Width <= h + 1 => Width = h + 1)
    BY <1>0
  <2> QED BY <1>5, <2>1
<1> QED BY <1>1, <1>6

\* The bits of the decremented size from its highest one bit down: as many of
\* them are ones as the shifts so far can reach, and all of them at the end.
Smeared(h) ==
  /\ x \subseteq 0 .. h /\ h \in x
  /\ size > 2 => C!Pow[h] <= size - 1 /\ size - 1 < C!Pow[h + 1]
  /\ shift # 0 => size > 2 /\ \A b \in 0 .. h : b > h - shift => b \in x
  /\ shift = 0 => result = IF size > 2 THEN C!Pow[h + 1] % C!SizeMod ELSE 2

CapacityInv ==
  /\ size \in C!Sizes /\ result \in C!Sizes
  /\ shift \in {0, 1, 2, 4, 8, 16, 32} /\ shift <= Width \div 2
  /\ \E h \in C!Bit : Smeared(h)

\* Every power is below the modulus, which is at least four.
LEMMA ModulusFacts ==
  /\ C!SizeMod = C!Pow[Width] /\ C!SizeMod \in Nat /\ C!SizeMod >= 4
  /\ C!Pow[Width] = 2 * C!Pow[Width - 1] /\ C!SizeMod \div 2 = C!Pow[Width - 1]
  /\ \A k \in 0 .. Width - 1 : C!Pow[k] \in Nat /\ 2 * C!Pow[k] <= C!SizeMod
  /\ C!Pow[1] = 2
<1>1. 1 \in 1 .. Width /\ Width \in 1 .. Width /\ Width - 1 \in 0 .. Width /\ 1 \in 0 .. Width - 1
  BY Widths
<1>2. C!Pow[Width] = 2 * C!Pow[Width - 1] /\ C!Pow[Width - 1] \in Nat
  BY <1>1, PowFacts
<1>3. C!Pow[1] = 2
  <2>1. C!Pow[1] = 2 * C!Pow[1 - 1]
    BY <1>1, PowFacts
  <2> QED BY <2>1, PowFacts
<1>4. ASSUME NEW k \in 0 .. Width - 1
      PROVE C!Pow[k] \in Nat /\ 2 * C!Pow[k] <= C!Pow[Width]
  <2>1. k \in 0 .. Width /\ Width \in 0 .. Width /\ k < Width
    BY Widths
  <2> QED BY <2>1, PowGrows, PowFacts
<1>5. C!SizeMod = C!Pow[Width]
  BY DEF C!SizeMod
<1>6. 4 <= C!Pow[Width]
  BY <1>1, <1>3, <1>4
<1>7. C!Pow[Width] \div 2 = C!Pow[Width - 1]
  <2> PICK p : p = C!Pow[Width - 1]
    OBVIOUS
  <2>1. (2 * p) \div 2 = p
    BY <1>2
  <2> QED BY <1>2, <2>1
<1> QED BY <1>2, <1>3, <1>4, <1>5, <1>6, <1>7

\* The decremented size has its highest one bit where it begins.
LEMMA CapacityStarts == C!Init => CapacityInv
<1> SUFFICES ASSUME C!Init PROVE CapacityInv
  OBVIOUS
<1>1. size \in Nat /\ size < C!SizeMod
  BY ModulusFacts DEF C!Init, C!Sizes
<1>2. /\ size \in C!Sizes /\ result \in C!Sizes
      /\ shift \in {0, 1, 2, 4, 8, 16, 32} /\ shift <= Width \div 2
  <2>1. 0 \in C!Sizes /\ 2 \in C!Sizes
    BY ModulusFacts DEF C!Sizes
  <2>2. 0 <= Width \div 2 /\ 1 <= Width \div 2
    BY Widths
  <2>3. shift = 0 \/ shift = 1
    BY DEF C!Init
  <2> QED BY <2>1, <2>2, <2>3 DEF C!Init
<1>3. CASE size <= 2
  <2>1. x = C!Bits(1) /\ shift = 0 /\ result = 2
    BY <1>3 DEF C!Init
  <2>2. 0 \in C!Bit /\ C!Pow[0] <= 1 /\ 1 < C!Pow[0 + 1]
    BY Widths, PowFacts, ModulusFacts DEF C!Bit
  <2>3. 0 \in C!Bits(1) /\ \A b \in C!Bits(1) : b \in 0 .. 0
    BY <2>2, HighestBit
  <2>4. Smeared(0)
    BY <1>1, <1>3, <2>1, <2>3 DEF Smeared
  <2> QED BY <1>2, <2>2, <2>4 DEF CapacityInv
<1>4. CASE ~(size <= 2)
  <2> PICK n : n = size - 1
    OBVIOUS
  <2>1. x = C!Bits(n) /\ shift = 1
    BY <1>4 DEF C!Init, C!Start
  <2>2. n \in Nat \ {0} /\ n < C!Pow[Width] /\ size > 2
    BY <1>1, <1>4, ModulusFacts
  <2>3. PICK h \in 0 .. Width - 1 : C!Pow[h] <= n /\ n < C!Pow[h + 1]
    BY <2>2, Highest
  <2>4. h \in C!Bit /\ n \in Nat
    BY <2>2, <2>3 DEF C!Bit
  <2>5. h \in C!Bits(n) /\ \A b \in C!Bits(n) : b \in 0 .. h
    BY <2>3, <2>4, HighestBit
  <2>6. \A b \in 0 .. h : b > h - 1 => b = h
    BY <2>4 DEF C!Bit
  <2>7. Smeared(h)
    <3>1. \A b \in 0 .. h : b > h - shift => b \in x
      BY <2>1, <2>5, <2>6
    <3>2. x \subseteq 0 .. h /\ h \in x
      BY <2>1, <2>5
    <3> QED BY <2>1, <2>2, <2>3, <3>1, <3>2 DEF Smeared
  <2> QED BY <1>2, <2>4, <2>7 DEF CapacityInv
<1> QED BY <1>3, <1>4

\* A shift by k doubles the block of ones below the highest one bit.
LEMMA Smearing ==
  ASSUME NEW h \in Nat, NEW k \in Nat, NEW bits, bits \subseteq 0 .. h, h \in bits,
         \A b \in 0 .. h : b > h - k => b \in bits
  PROVE  /\ bits \cup C!ShiftRight(bits, k) \subseteq 0 .. h
         /\ h \in bits \cup C!ShiftRight(bits, k)
         /\ \A b \in 0 .. h : b > h - 2 * k => b \in bits \cup C!ShiftRight(bits, k)
<1>1. C!ShiftRight(bits, k) = {b - k : b \in {c \in bits : c >= k}}
  BY DEF C!ShiftRight
<1>2. ASSUME NEW b \in 0 .. h, b > h - 2 * k, ~(b > h - k)
      PROVE b \in C!ShiftRight(bits, k)
  <2>1. b + k \in 0 .. h /\ b + k > h - k /\ b + k >= k /\ (b + k) - k = b
    BY <1>2
  <2> QED BY <1>1, <2>1
<1>3. C!ShiftRight(bits, k) \subseteq 0 .. h
  BY <1>1
<1>4. \A b \in 0 .. h : b > h - 2 * k => b \in bits \cup C!ShiftRight(bits, k)
  BY <1>2
<1> QED BY <1>3, <1>4

\* The shift that follows another one is allowed, and the last one reaches down
\* to the lowest bit.
LEMMA SmearStep ==
  ASSUME CapacityInv, C!Smear
  PROVE  CapacityInv'
<1>1. /\ shift # 0 /\ size' = size /\ x' = x \cup C!ShiftRight(x, shift)
      /\ shift' = IF shift = Width \div 2 THEN 0 ELSE 2 * shift
      /\ result' = IF shift' = 0 THEN (C!Value(x') + 1) % C!SizeMod ELSE 0
  BY DEF C!Smear, C!LastShift, C!NextShift
<1>2. PICK h \in C!Bit : Smeared(h)
  BY DEF CapacityInv
<1>3. /\ h \in Nat /\ h < Width /\ shift \in Nat
      /\ shift \in {1, 2, 4, 8, 16, 32} /\ shift <= Width \div 2
  BY <1>1, Widths DEF CapacityInv, C!Bit
<1>4. size > 2 /\ C!Pow[h] <= size - 1 /\ size - 1 < C!Pow[h + 1]
  BY <1>1, <1>2 DEF Smeared
<1>5. /\ x' \subseteq 0 .. h /\ h \in x'
      /\ \A b \in 0 .. h : b > h - 2 * shift => b \in x'
  <2>1. x \subseteq 0 .. h /\ h \in x /\ \A b \in 0 .. h : b > h - shift => b \in x
    BY <1>1, <1>2 DEF Smeared
  <2> QED BY <1>1, <1>3, <2>1, Smearing
<1>6. CASE shift = Width \div 2
  <2>1. \A b \in 0 .. h : b > h - 2 * shift
    BY <1>3, <1>6, Widths
  <2>2. x' = 0 .. h
    BY <1>5, <2>1
  <2>3. C!Pow[h + 1] \in Nat
    <3>1. h + 1 \in 0 .. Width
      BY <1>3, Widths
    <3> QED BY <3>1, PowFacts
  <2>4. C!Value(x') = C!Pow[h + 1] - 1
    BY <2>2, OnesValue
  <2>5. shift' = 0 /\ result' = C!Pow[h + 1] % C!SizeMod
    <3>1. (C!Pow[h + 1] - 1) + 1 = C!Pow[h + 1]
      BY <2>3
    <3> QED BY <1>1, <1>6, <2>4, <3>1
  <2>6. result' \in C!Sizes
    BY <2>3, <2>5, ModulusFacts DEF C!Sizes
  <2>7. Smeared(h)'
    BY <1>1, <1>4, <1>5, <2>5 DEF Smeared
  <2>8. 0 <= Width \div 2 /\ h \in C!Bit'
    BY Widths DEF C!Bit
  <2> QED BY <1>1, <2>5, <2>6, <2>7, <2>8 DEF CapacityInv, C!Sizes, C!SizeMod
<1>7. CASE shift # Width \div 2
  <2>1. shift' = 2 * shift /\ shift' # 0 /\ result' = 0
    BY <1>1, <1>3, <1>7
  <2>2. 2 * shift \in {2, 4, 8, 16, 32} /\ 2 * shift <= Width \div 2
    BY <1>3, <1>7, Widths
  <2>3. Smeared(h)'
    BY <1>1, <1>4, <1>5, <2>1 DEF Smeared
  <2>4. 0 \in C!Sizes /\ h \in C!Bit'
    BY ModulusFacts DEF C!Sizes, C!Bit
  <2> QED BY <1>1, <2>1, <2>2, <2>3, <2>4 DEF CapacityInv, C!Sizes, C!SizeMod
<1> QED BY <1>6, <1>7

\* A capacity that is not the part that runs is not rounded.
LEMMA CapacityPart ==
  /\ StructuresInit => CapacityInv
  /\ CapacityInv /\ [StructuresNext]_<<part, vars, poolVars, capacityVars, victimVars, allocVars>>
       => CapacityInv'
<1>1. StructuresInit => CapacityInv
  BY CapacityStarts DEF StructuresInit
<1>2. ASSUME CapacityInv,
             [StructuresNext]_<<part, vars, poolVars, capacityVars, victimVars, allocVars>>
      PROVE CapacityInv'
  <2>1. CASE C!Next
    BY <1>2, <2>1, SmearStep DEF C!Next
  <2>2. CASE UNCHANGED capacityVars
    BY <1>2, <2>2 DEF capacityVars, CapacityInv, Smeared, C!Sizes, C!SizeMod, C!Bit
  <2> QED BY <1>2, <2>1, <2>2 DEF StructuresNext
<1> QED BY <1>1, <1>2

\* The highest bit is the greatest one.
LEMMA HighestIsMax ==
  ASSUME NEW h \in Nat, NEW bits, bits \subseteq 0 .. h, h \in bits
  PROVE  C!Max(bits) = h
<1>1. C!Max(bits) = CHOOSE m \in bits : \A b \in bits : m >= b
  BY DEF C!Max
<1>2. \A m \in bits : (\A b \in bits : m >= b) => m = h
  OBVIOUS
<1>3. \E m \in bits : \A b \in bits : m >= b
  OBVIOUS
<1> QED BY <1>1, <1>2, <1>3

\* What the result is when the highest one bit of the decremented size is h.
LEMMA Rounded ==
  ASSUME NEW n \in Nat, n > 2, n < C!SizeMod, NEW h \in C!Bit,
         C!Pow[h] <= n - 1, n - 1 < C!Pow[h + 1]
  PROVE  IF n > C!SizeMod \div 2 THEN C!Pow[h + 1] % C!SizeMod = 0
         ELSE /\ C!Pow[h + 1] % C!SizeMod \in {C!Pow[k] : k \in 1 .. Width - 1}
              /\ n <= C!Pow[h + 1] % C!SizeMod
              /\ 2 * n > C!Pow[h + 1] % C!SizeMod
<1>1. h \in 0 .. Width - 1 /\ h + 1 \in 1 .. Width /\ h + 1 \in 0 .. Width /\ Width \in Nat
  BY Widths DEF C!Bit
<1>2. C!Pow[h + 1] = 2 * C!Pow[h] /\ C!Pow[h] \in Nat
  BY <1>1, PowFacts
<1>3. CASE h = Width - 1
  <2>1. C!Pow[h + 1] = C!SizeMod /\ C!SizeMod \div 2 = C!Pow[h]
    BY <1>1, <1>3, ModulusFacts
  <2>2. C!SizeMod % C!SizeMod = 0
    BY ModulusFacts
  <2>3. n > C!Pow[h]
    BY <1>2
  <2> QED BY <2>1, <2>2, <2>3
<1>4. CASE h # Width - 1
  <2>1. h + 1 \in 1 .. Width - 1 /\ h + 1 \in 0 .. Width - 1
    BY <1>1, <1>4
  <2>2. 2 * C!Pow[h + 1] <= C!SizeMod /\ C!Pow[h + 1] \in Nat
    BY <2>1, ModulusFacts
  <2> PICK p : p = C!Pow[h + 1]
    OBVIOUS
  <2>3. p % C!SizeMod = p
    BY <2>2, ModulusFacts
  <2>4. n <= p /\ 2 * n > p
    BY <1>2
  <2>5. ~(n > C!SizeMod \div 2)
    <3>1. 2 * (C!SizeMod \div 2) = C!SizeMod /\ C!SizeMod \div 2 \in Nat
      BY <1>1, ModulusFacts, PowFacts
    <3> QED BY <2>2, <2>4, <3>1
  <2> QED BY <2>1, <2>3, <2>4, <2>5
<1> QED BY <1>3, <1>4

\* Every capacity is the least power of two that is no smaller than what was
\* asked for, and at least two, whatever the width of a size_t
\* (sk_memory_utils.h:32-51).
THEOREM CapacityTheorem == StructuresSpec => []RoundsUp
<1>1. ASSUME CapacityInv PROVE RoundsUp
  <2>1. PICK h \in C!Bit : Smeared(h)
    BY <1>1 DEF CapacityInv
  <2>2. h \in Nat /\ 0 .. h \subseteq C!Bit /\ x \subseteq 0 .. h /\ h \in x
    BY <2>1, Widths DEF C!Bit, Smeared
  <2>3. C!Max(x) = h
    BY <2>2, HighestIsMax
  <2>4. shift # 0 => \A b \in C!Bit : b \in x \/ b > h \/ b <= h - shift
    <3> SUFFICES ASSUME shift # 0, NEW b \in C!Bit, ~(b > h), ~(b <= h - shift)
                 PROVE b \in x
      OBVIOUS
    <3>1. shift \in Nat
      BY <1>1 DEF CapacityInv
    <3>2. b \in 0 .. h /\ b > h - shift
      BY <2>2, <3>1, Widths DEF C!Bit
    <3> QED BY <2>1, <3>2 DEF Smeared
  <2>5. C!TypeOK
    BY <1>1, <2>2, <2>3, <2>4 DEF C!TypeOK, CapacityInv
  <2>6. size \in Nat /\ size < C!SizeMod
    BY <1>1, ModulusFacts DEF CapacityInv, C!Sizes
  <2>7. ASSUME shift = 0
        PROVE IF size > C!SizeMod \div 2 THEN result = 0
              ELSE /\ result \in {C!Pow[k] : k \in 1 .. Width - 1}
                   /\ size <= result
                   /\ result = 2 \/ 2 * size > result
    <3>1. CASE size > 2
      <4>1. /\ C!Pow[h] <= size - 1 /\ size - 1 < C!Pow[h + 1]
            /\ result = C!Pow[h + 1] % C!SizeMod
        BY <2>1, <2>7, <3>1 DEF Smeared
      <4> QED BY <2>6, <3>1, <4>1, Rounded
    <3>2. CASE ~(size > 2)
      <4>1. result = 2
        BY <2>1, <2>7, <3>2 DEF Smeared
      <4>2. 2 <= C!SizeMod \div 2 /\ C!SizeMod \div 2 \in Nat
        BY ModulusFacts
      <4>3. 1 \in 1 .. Width - 1 /\ 2 = C!Pow[1]
        BY Widths, ModulusFacts
      <4> QED BY <2>6, <3>2, <4>1, <4>2, <4>3
    <3> QED BY <3>1, <3>2
  <2>8. C!RoundsUp
    BY <2>7 DEF C!RoundsUp, C!Done
  <2> QED BY <2>5, <2>8 DEF RoundsUp
<1> QED BY <1>1, CapacityPart, PTL DEF StructuresSpec

-----------------------------------------------------------------------------
(* The victims: the generator never gets stuck, and a draw is another        *)
(* worker.                                                                   *)

\* Every bit of a word is changed by lower bits only, so the lowest bit in
\* which two words differ stays different.
LEMMA LeftInjective ==
  ASSUME NEW k \in Nat \ {0}, NEW v, v \subseteq V!Bit, NEW w, w \subseteq V!Bit,
         V!Xor(v, V!ShiftLeft(v, k)) = V!Xor(w, V!ShiftLeft(w, k))
  PROVE  v = w
<1> DEFINE Differ == {b \in V!Bit : ~(b \in v <=> b \in w)}
<1> SUFFICES ASSUME Differ # {} PROVE FALSE
  OBVIOUS
<1>1. Differ \subseteq Nat
  BY DEF V!Bit
<1>2. PICK m \in Differ : \A b \in Differ : ~(b < m)
  <2> HIDE DEF Differ
  <2> QED BY <1>1, LeastNatural
<1>3. m \in V!Bit /\ ~(m \in v <=> m \in w)
  OBVIOUS
<1> PICK b : b = m - k
  OBVIOUS
<1>4. b \in V!Bit => (b \in v <=> b \in w)
  <2>1. m \in Nat /\ b < m
    BY <1>3 DEF V!Bit
  <2> QED BY <1>2, <2>1
<1> HIDE DEF Differ
<1>5. \A u : u \subseteq V!Bit => (m \in V!ShiftLeft(u, k) <=> b \in V!Bit /\ b \in u)
  BY <1>3 DEF V!ShiftLeft, V!Bit
<1>6. \A u : u \subseteq V!Bit =>
        (m \in V!Xor(u, V!ShiftLeft(u, k)) <=> ~(m \in u <=> m \in V!ShiftLeft(u, k)))
  BY DEF V!Xor
<1> QED BY <1>3, <1>4, <1>5, <1>6

\* The same for a shift to the right and the highest bit.
LEMMA RightInjective ==
  ASSUME NEW k \in Nat \ {0}, NEW v, v \subseteq V!Bit, NEW w, w \subseteq V!Bit,
         V!Xor(v, V!ShiftRight(v, k)) = V!Xor(w, V!ShiftRight(w, k))
  PROVE  v = w
<1> DEFINE Differ == {b \in V!Bit : ~(31 - b \in v <=> 31 - b \in w)}
<1>0. \A b \in V!Bit : 31 - b \in V!Bit /\ 31 - (31 - b) = b
  BY DEF V!Bit
<1> SUFFICES ASSUME Differ # {} PROVE FALSE
  <2>1. \A b \in V!Bit : b \in v <=> b \in w
    <3> SUFFICES ASSUME NEW b \in V!Bit PROVE b \in v <=> b \in w
      OBVIOUS
    <3>1. 31 - b \notin Differ
      OBVIOUS
    <3> QED BY <1>0, <3>1
  <2> QED BY <2>1
<1>1. Differ \subseteq Nat
  BY DEF V!Bit
<1>2. PICK m \in Differ : \A b \in Differ : ~(b < m)
  <2> HIDE DEF Differ
  <2> QED BY <1>1, LeastNatural
<1> PICK c, b : c = 31 - m /\ b = c + k
  OBVIOUS
<1>3. m \in V!Bit /\ ~(c \in v <=> c \in w)
  OBVIOUS
<1>4. b \in V!Bit => (b \in v <=> b \in w)
  <2> SUFFICES ASSUME b \in V!Bit PROVE b \in v <=> b \in w
    OBVIOUS
  <2>1. 31 - b \in V!Bit /\ 31 - b < m /\ 31 - (31 - b) = b
    BY <1>3 DEF V!Bit
  <2>2. 31 - b \notin Differ
    BY <1>2, <2>1
  <2> QED BY <2>1, <2>2
<1> HIDE DEF Differ
<1>5. \A u : u \subseteq V!Bit => (c \in V!ShiftRight(u, k) <=> b \in V!Bit /\ b \in u)
  BY <1>3 DEF V!ShiftRight, V!Bit
<1>6. \A u : u \subseteq V!Bit =>
        (c \in V!Xor(u, V!ShiftRight(u, k)) <=> ~(c \in u <=> c \in V!ShiftRight(u, k)))
  BY DEF V!Xor
<1> QED BY <1>3, <1>4, <1>5, <1>6

\* The shifts stay in the word.
LEMMA ShiftedWords ==
  ASSUME NEW w, w \subseteq V!Bit, NEW k
  PROVE  /\ V!Xor(w, V!ShiftLeft(w, k)) \subseteq V!Bit
         /\ V!Xor(w, V!ShiftRight(w, k)) \subseteq V!Bit
BY DEF V!Xor, V!ShiftLeft, V!ShiftRight

\* The generator is a permutation of the words (sk_worker.c:34-40): from a
\* seed that is not zero it never comes to zero, and it always comes back to
\* its seed.
THEOREM GeneratorTheorem ==
  \A v, w \in V!Words :
    /\ V!Xorshift(v) \in V!Words
    /\ V!Xorshift(v) = V!Xorshift(w) => v = w
    /\ V!Xorshift(v) = {} => v = {}
<1> DEFINE A1(w) == V!Xor(w, V!ShiftLeft(w, 13))
           A2(w) == V!Xor(w, V!ShiftRight(w, 17))
           A3(w) == V!Xor(w, V!ShiftLeft(w, 5))
<1>1. \A w : V!Xorshift(w) = A3(A2(A1(w)))
  BY DEF V!Xorshift
<1>2. \A w : w \subseteq V!Bit =>
        A1(w) \subseteq V!Bit /\ A2(w) \subseteq V!Bit /\ A3(w) \subseteq V!Bit
  BY ShiftedWords
<1>3. \A v, w : v \subseteq V!Bit /\ w \subseteq V!Bit =>
        /\ A1(v) = A1(w) => v = w
        /\ A2(v) = A2(w) => v = w
        /\ A3(v) = A3(w) => v = w
  BY LeftInjective, RightInjective
<1>4. A1({}) = {} /\ A2({}) = {} /\ A3({}) = {}
  BY DEF V!Xor, V!ShiftLeft, V!ShiftRight
<1> HIDE DEF A1, A2, A3
<1>5. ASSUME NEW v, v \subseteq V!Bit, NEW w, w \subseteq V!Bit
      PROVE V!Xorshift(v) \subseteq V!Bit /\ (V!Xorshift(v) = V!Xorshift(w) => v = w)
  <2>1. /\ A1(v) \subseteq V!Bit /\ A2(A1(v)) \subseteq V!Bit
        /\ A1(w) \subseteq V!Bit /\ A2(A1(w)) \subseteq V!Bit
        /\ A3(A2(A1(v))) \subseteq V!Bit
    BY <1>2, <1>5
  <2> QED BY <1>1, <1>3, <1>5, <2>1
<1>6. V!Xorshift({}) = {}
  BY <1>1, <1>4
<1>7. \A v : v \in V!Words <=> v \subseteq V!Bit
  BY DEF V!Words
<1>8. {} \subseteq V!Bit
  OBVIOUS
<1> QED BY <1>5, <1>6, <1>7, <1>8

\* The seed of a worker is not zero: the multiplier is odd, and the numbers of
\* the workers have their lowest one bit among the ten lowest.
LEMMA SeedNonzero ==
  ASSUME NEW id \in 0 .. 999
  PROVE  V!Seed(id) \in V!Words /\ V!Seed(id) # {}
<1> PICK n : n = id + 1
  OBVIOUS
<1>1. n \in 1 .. 1000
  OBVIOUS
<1>0. PICK low, high : /\ low = (n * 31153) % 65536
                       /\ high = (n * 40503 + (n * 31153) \div 65536) % 65536
  OBVIOUS
<1>2. V!Seed(id) = V!Word(high, low)
  BY <1>0 DEF V!Seed, V!Golden
<1> DEFINE One(b) == (low \div 2 ^ b) % 2 = 1
<1>3. \A b \in 0 .. 9 : One(b) => b \in V!Seed(id)
  BY <1>2 DEF V!Word, V!Bit
<1>4. low \in Nat /\ low % 1024 # 0
  BY <1>0, <1>1
<1>5. \/ (low \div 1) % 2 = 1 \/ (low \div 2) % 2 = 1 \/ (low \div 4) % 2 = 1
      \/ (low \div 8) % 2 = 1 \/ (low \div 16) % 2 = 1 \/ (low \div 32) % 2 = 1
      \/ (low \div 64) % 2 = 1 \/ (low \div 128) % 2 = 1 \/ (low \div 256) % 2 = 1
      \/ (low \div 512) % 2 = 1
  <2>1. \/ (low \div 1) % 2 = 1 \/ (low \div 2) % 2 = 1 \/ (low \div 4) % 2 = 1
        \/ (low \div 8) % 2 = 1 \/ (low \div 16) % 2 = 1 \/ low % 32 = 0
    BY <1>4
  <2>2. low % 32 = 0 =>
          \/ (low \div 32) % 2 = 1 \/ (low \div 64) % 2 = 1 \/ (low \div 128) % 2 = 1
          \/ (low \div 256) % 2 = 1 \/ (low \div 512) % 2 = 1 \/ low % 1024 = 0
    BY <1>4
  <2> QED BY <1>4, <2>1, <2>2
<1>6. /\ 2 ^ 0 = 1 /\ 2 ^ 1 = 2 /\ 2 ^ 2 = 4 /\ 2 ^ 3 = 8 /\ 2 ^ 4 = 16
      /\ 2 ^ 5 = 32 /\ 2 ^ 6 = 64 /\ 2 ^ 7 = 128 /\ 2 ^ 8 = 256 /\ 2 ^ 9 = 512
  OBVIOUS
<1>7. \E b \in 0 .. 9 : One(b)
  BY <1>5, <1>6
<1>8. V!Seed(id) \in V!Words
  BY <1>2 DEF V!Word, V!Words
<1> HIDE DEF One
<1> QED BY <1>3, <1>7, <1>8

\* A remainder is below its divisor.
LEMMA RemainderRange ==
  ASSUME NEW m \in Nat \ {0}, NEW w
  PROVE  V!Remainder(w, m) \in 0 .. m - 1
<1> DEFINE Step(f) == [k \in 0 .. 32 |->
              IF k = 0 THEN 0
              ELSE (2 * f[k - 1] + (IF 32 - k \in w THEN 1 ELSE 0)) % m]
<1> DEFINE Rest == CHOOSE f : f = Step(f)
<1>1. V!Remainder(w, m) = Rest[32]
  BY DEF V!Remainder
<1>2. \E f : f = Step(f)
  <2>0. PICK S, n : S = 0 .. m - 1 /\ n = 32
    OBVIOUS
  <2> DEFINE body(k, r) == (2 * r + (IF 32 - k \in w THEN 1 ELSE 0)) % m
  <2>1. \A k, r : k \in 1 .. n /\ r \in S => body(k, r) \in S
    <3>1. \A i \in Int : i % m \in 0 .. m - 1
      OBVIOUS
    <3>2. \A r \in S : r \in Int
      BY <2>0
    <3>3. ASSUME NEW k, NEW r \in S PROVE body(k, r) \in S
      <4> PICK i : i = 2 * r + (IF 32 - k \in w THEN 1 ELSE 0)
        OBVIOUS
      <4>1. i \in Int
        BY <3>2
      <4>2. i % m \in S
        BY <2>0, <3>1, <4>1
      <4> QED BY <4>2
    <3> HIDE DEF body
    <3> QED BY <3>3
  <2> HIDE DEF body
  <2>2. PICK step : step = [p \in (1 .. n) \X S |-> body(p[1], p[2])]
    OBVIOUS
  <2>3. step \in [(1 .. n) \X S -> S]
    BY <2>1, <2>2
  <2>4. PICK f : Table(f, n, S, 0, step)
    <3>1. n \in Nat /\ 0 \in S
      BY <2>0
    <3> QED BY <2>3, <3>1, TableExists
  <2>5. ASSUME NEW k \in 1 .. n PROVE f[k] = body(k, f[k - 1])
    <3>1. k - 1 \in 0 .. n
      BY <2>0
    <3>2. f[k - 1] \in S /\ f[k] = step[<<k, f[k - 1]>>]
      BY <2>4, <3>1 DEF Table
    <3> QED BY <2>2, <3>2
  <2>6. f[0] = 0 /\ f = [k \in 0 .. n |-> f[k]]
    BY <2>4 DEF Table
  <2>7. \A k \in 0 .. 32 :
          f[k] = IF k = 0 THEN 0
                 ELSE (2 * f[k - 1] + (IF 32 - k \in w THEN 1 ELSE 0)) % m
    <3>1. \A k \in 0 .. 32 : k # 0 => k \in 1 .. n
      BY <2>0
    <3>2. \A k \in 0 .. 32 : k # 0 => f[k] = body(k, f[k - 1])
      BY <2>5, <3>1
    <3> USE DEF body
    <3> QED BY <2>6, <3>2
  <2>8. f = [k \in 0 .. 32 |-> f[k]]
    BY <2>0, <2>6
  <2>9. [k \in 0 .. 32 |-> f[k]] = Step(f)
    BY <2>7, Zenon
  <2> QED BY <2>8, <2>9
<1>3. Rest = Step(Rest)
  <2> HIDE DEF Step
  <2> QED BY <1>2
<1> HIDE DEF Rest
<1>4. \A i \in 0 .. 32 : i # 0 =>
        Rest[i] = (2 * Rest[i - 1] + (IF 32 - i \in w THEN 1 ELSE 0)) % m
  BY <1>3
<1>5. Rest[0] = 0
  BY <1>3
<1> HIDE DEF Step
<1>6. \A i \in 0 .. 32 : Rest[i] \in 0 .. m - 1
  <2> DEFINE Bad == {i \in 0 .. 32 : Rest[i] \notin 0 .. m - 1}
  <2> SUFFICES ASSUME Bad # {} PROVE FALSE
    OBVIOUS
  <2>1. Bad \subseteq Nat
    OBVIOUS
  <2>2. PICK j \in Bad : \A i \in Bad : ~(i < j)
    <3> HIDE DEF Bad
    <3> QED BY <2>1, LeastNatural
  <2>3. j \in 0 .. 32 /\ Rest[j] \notin 0 .. m - 1
    OBVIOUS
  <2>4. j # 0
    BY <1>5, <2>3
  <2>5. j - 1 \in 0 .. 32 /\ j - 1 < j
    BY <2>3, <2>4
  <2>6. Rest[j - 1] \in 0 .. m - 1
    BY <2>2, <2>5
  <2> PICK r : r = 2 * Rest[j - 1] + (IF 32 - j \in w THEN 1 ELSE 0)
    OBVIOUS
  <2>7. Rest[j] = r % m
    BY <1>4, <2>3, <2>4
  <2>8. r \in Nat
    BY <2>6
  <2> QED BY <2>3, <2>7, <2>8
<1> QED BY <1>1, <1>6

\* A generator that is not the part that runs keeps its seed.
LEMMA VictimPart ==
  /\ StructuresInit => V!TypeOK
  /\ V!TypeOK /\ [StructuresNext]_<<part, vars, poolVars, capacityVars, victimVars, allocVars>>
       => V!TypeOK'
<1>0. MaxCores \in 2 .. 1000 /\ MaxDraws \in Nat
  BY StructuresAssumption DEF V!VictimAssumption
<1>1. ASSUME StructuresInit PROVE V!TypeOK
  <2>1. V!Init
    BY <1>1 DEF StructuresInit
  <2>2. core \in 0 .. 999
    BY <1>0, <2>1 DEF V!Init
  <2>3. rng = V!Seed(core)
    BY <2>1 DEF V!Init
  <2>4. rng \subseteq V!Bit /\ rng # {}
    BY <2>2, <2>3, SeedNonzero DEF V!Words
  <2> QED BY <1>0, <2>1, <2>4 DEF V!Init, V!TypeOK
<1>2. ASSUME V!TypeOK, V!Next PROVE V!TypeOK'
  <2>1. /\ draws < MaxDraws /\ draws' = draws + 1
        /\ rng' = V!Xorshift(rng)
        /\ victim' = V!PastSelf(V!Remainder(rng', cores - 1), core)
        /\ drawn' = drawn \cup {victim'}
        /\ cores' = cores /\ core' = core
    BY <1>2 DEF V!Next, V!Draw
  <2>2. /\ cores \in 2 .. MaxCores /\ core \in 0 .. cores - 1 /\ draws \in 0 .. MaxDraws
        /\ rng \in V!Words /\ rng # {} /\ drawn \subseteq V!Others
    BY <1>2 DEF V!TypeOK, V!Words
  <2>3. rng' \subseteq V!Bit /\ rng' # {}
    BY <2>1, <2>2, GeneratorTheorem DEF V!Words
  <2>4. PICK v : v = V!Remainder(rng', cores - 1)
    OBVIOUS
  <2>5. v \in 0 .. cores - 2
    <3>1. cores - 1 \in Nat \ {0} /\ (cores - 1) - 1 = cores - 2
      BY <1>0, <2>2
    <3>2. v \in 0 .. (cores - 1) - 1
      <4> PICK m : m = cores - 1
        OBVIOUS
      <4> PICK w : w = rng'
        OBVIOUS
      <4>1. V!Remainder(w, m) \in 0 .. m - 1
        BY <3>1, RemainderRange
      <4> QED BY <2>4, <4>1
    <3> QED BY <3>1, <3>2
  <2>6. victim' \in V!Others
    BY <1>0, <2>1, <2>2, <2>4, <2>5 DEF V!PastSelf, V!Others
  <2>7. V!Others' = V!Others
    BY <2>1 DEF V!Others
  <2>8. draws' \in 0 .. MaxDraws /\ draws' # 0
    BY <1>0, <2>1, <2>2
  <2> QED BY <2>1, <2>2, <2>3, <2>6, <2>7, <2>8 DEF V!TypeOK, V!Bit
<1>3. ASSUME V!TypeOK,
             [StructuresNext]_<<part, vars, poolVars, capacityVars, victimVars, allocVars>>
      PROVE V!TypeOK'
  <2>1. CASE UNCHANGED victimVars
    BY <1>3, <2>1 DEF victimVars, V!TypeOK, V!Bit, V!Others
  <2> QED BY <1>2, <1>3, <2>1 DEF StructuresNext
<1> QED BY <1>1, <1>3

\* However often a worker draws, its generator is not at zero, and the victim
\* is a worker of the pool and not itself, so that it indexes worker_pool
\* within its bounds (sk_worker.c:134, 157-160).
THEOREM VictimTheorem == StructuresSpec => []V!TypeOK
BY VictimPart, PTL DEF StructuresSpec

=============================================================================
