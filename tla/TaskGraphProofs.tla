--------------------------- MODULE TaskGraphProofs ---------------------------
(***************************************************************************)
(* The dependency counters, for every number of workers, tasks, jobs and   *)
(* library calls.                                                          *)
(*                                                                         *)
(* The invariant says where each task is: spot[t] is the kind of place     *)
(* that holds t, at[t] the worker the place belongs to.  That such a pair  *)
(* of functions exists means that no task is in two places, and the        *)
(* counter of a task is then read off the spots of the task and of its     *)
(* children.                                                               *)
(***************************************************************************)
EXTENDS TaskGraph, FiniteSetTheorems, TLAPS

Spots == {"free", "deque", "ring", "staged", "bounced", "rejected", "running",
          "owned", "suspended"}

\* Waiting for a worker or for its parent: it has never run since its counter
\* was set.
WaitingSpots == {"deque", "ring", "staged", "bounced", "rejected"}

LockSpots == WaitingSpots \cup {"running"}

Located(spot, at) ==
  \A t \in Tasks :
    /\ t \in free <=> spot[t] = "free"
    /\ \A w \in Workers :
         /\ t \in deque[w] <=> spot[t] = "deque" /\ at[t] = w
         /\ t \in ring[w] <=> spot[t] = "ring" /\ at[t] = w
         /\ t \in staged[w] <=> spot[t] = "staged" /\ at[t] = w
         /\ t \in bounced[w] <=> spot[t] = "bounced" /\ at[t] = w
         /\ t \in rejected[w] <=> spot[t] = "rejected" /\ at[t] = w
         /\ (pc[w] \in Running /\ cur[w] = t) <=> spot[t] = "running" /\ at[t] = w
         /\ (pc[w] \in Owning /\ cur[w] = t) <=> spot[t] = "owned" /\ at[t] = w

\* The children that count for t.
Kids(spot, t) == {c \in Tasks : spot[c] \notin {"free", "rejected"} /\ parent[c] = t}

Lock(spot, t) == IF spot[t] \in LockSpots THEN 1 ELSE 0

\* The counters.
Counted(spot) ==
  \A t \in Tasks : spot[t] # "free" =>
    deps[t] = Lock(spot, t) + Cardinality(Kids(spot, t)) + Cardinality(Climbers(t))

\* A task that waits to be run has nothing but its virtual lock, a task owned
\* by a worker not even that, and a suspended task has something to wait for.
Waits(spot) ==
  \A t \in Tasks :
    /\ spot[t] \in WaitingSpots => deps[t] = 1
    /\ spot[t] = "owned" => deps[t] = 0
    /\ spot[t] = "suspended" => deps[t] # 0

\* Children that are not in a queue yet belong to the function the worker is in.
Handed ==
  \A w \in Workers :
    /\ staged[w] \cup bounced[w] \cup rejected[w] # {} => pc[w] \in {"run", "runUp"}
    /\ \A c \in staged[w] \cup bounced[w] \cup rejected[w] : parent[c] = cur[w]
    /\ staged[w] # {} => bounced[w] = {}

\* Parents outlive their children.
Tree(spot) ==
  /\ \A t \in Tasks : spot[t] # "free" /\ parent[t] # None =>
       parent[t] \in Tasks /\ parent[t] # t /\ spot[parent[t]] # "free"
  /\ \A w \in Workers : pc[w] = "walk" => spot[cur[w]] # "free"

\* Every live task works for a job, and what is queued can be called.
Works(spot) ==
  \A t \in Tasks : spot[t] # "free" =>
    /\ jobOf[t] \in Jobs
    /\ spot[t] \in WaitingSpots => fn[t] # None

Inv(spot, at) ==
  /\ spot \in [Tasks -> Spots] /\ at \in [Tasks -> Workers]
  /\ Located(spot, at)
  /\ Counted(spot)
  /\ Waits(spot)
  /\ Handed
  /\ Tree(spot)
  /\ Works(spot)

IInv == TypeOK /\ \E spot, at : Inv(spot, at)

-----------------------------------------------------------------------------
(* Facts about one state.                                                   *)

LEMMA WorkersFact == IsFiniteSet(Workers) /\ Workers \subseteq Nat /\ 0 \in Workers
  BY TaskGraphAssumption, FS_Interval DEF Workers

LEMMA FiniteFacts ==
  ASSUME NEW spot, NEW t
  PROVE  /\ IsFiniteSet(Kids(spot, t)) /\ Cardinality(Kids(spot, t)) \in Nat
         /\ IsFiniteSet(Climbers(t)) /\ Cardinality(Climbers(t)) \in Nat
<1>1. Kids(spot, t) \in SUBSET Tasks /\ Climbers(t) \in SUBSET Workers
  BY DEF Kids, Climbers
<1> QED BY <1>1, WorkersFact, TaskGraphAssumption, FS_Subset, FS_CardinalityType

LEMMA DisjointUnion ==
  ASSUME NEW S, NEW T, IsFiniteSet(S), IsFiniteSet(T), S \cap T = {}
  PROVE  Cardinality(S \cup T) = Cardinality(S) + Cardinality(T)
<1>1. Cardinality(S \cup T) = Cardinality(S) + Cardinality(T) - Cardinality(S \cap T)
  BY FS_Union
<1>2. Cardinality(S \cap T) = 0
  BY FS_EmptySet
<1>3. Cardinality(S) \in Nat /\ Cardinality(T) \in Nat
  BY FS_CardinalityType
<1> QED BY <1>1, <1>2, <1>3

\* Without locks, or with the virtual lock only, there are no children.
LEMMA Alone ==
  ASSUME NEW spot, NEW at, TypeOK, Inv(spot, at), NEW t \in Tasks, spot[t] # "free",
         deps[t] = 0 \/ (deps[t] = 1 /\ spot[t] \in LockSpots)
  PROVE  Kids(spot, t) = {} /\ Climbers(t) = {}
<1>1. deps[t] = Lock(spot, t) + Cardinality(Kids(spot, t)) + Cardinality(Climbers(t))
  BY DEF Inv, Counted
<1>2. /\ IsFiniteSet(Kids(spot, t)) /\ Cardinality(Kids(spot, t)) \in Nat
      /\ IsFiniteSet(Climbers(t)) /\ Cardinality(Climbers(t)) \in Nat
  BY FiniteFacts
<1>3. Cardinality(Kids(spot, t)) = 0 /\ Cardinality(Climbers(t)) = 0
  BY <1>1, <1>2 DEF Lock
<1> QED BY <1>2, <1>3, FS_EmptySet

\* A task that is not running and has no counted child has no child at all:
\* rejected children belong to a running parent.
LEMMA Childless ==
  ASSUME NEW spot, NEW at, TypeOK, Inv(spot, at), NEW t \in Tasks,
         spot[t] # "running", Kids(spot, t) = {}
  PROVE  \A c \in Tasks : spot[c] # "free" => parent[c] # t
<1> SUFFICES ASSUME NEW c \in Tasks, spot[c] # "free", parent[c] = t PROVE FALSE
  OBVIOUS
<1>1. spot[c] = "rejected" /\ at[c] \in Workers
  BY DEF Kids, Inv
<1>2. c \in rejected[at[c]]
  BY <1>1 DEF Inv, Located
<1>3. pc[at[c]] \in {"run", "runUp"} /\ cur[at[c]] = t
  BY <1>1, <1>2 DEF Inv, Handed
<1> QED BY <1>1, <1>3 DEF Inv, Located, Running

\* A task in the pool has no child and no climber.
LEMMA FreeAlone ==
  ASSUME NEW spot, NEW at, TypeOK, Inv(spot, at), NEW t \in Tasks, spot[t] = "free"
  PROVE  /\ \A c \in Tasks : spot[c] # "free" => parent[c] # t
         /\ Kids(spot, t) = {} /\ Climbers(t) = {}
<1>1. \A c \in Tasks : spot[c] # "free" => parent[c] # t
  BY TaskGraphAssumption DEF Inv, Tree
<1>2. Climbers(t) = {}
  BY DEF Inv, Tree, Climbers
<1> QED BY <1>1, <1>2 DEF Kids

-----------------------------------------------------------------------------
(* The actions: one lemma each.                                             *)

\* A worker without a task takes one out of a deque or a ring.
LEMMA BeginInv ==
  ASSUME NEW spot, NEW at, TypeOK, Inv(spot, at),
         NEW w \in Workers, NEW t \in Tasks,
         pc[w] = "idle", Begin(w, t),
         spot[t] \in {"deque", "ring"},
         deque' \in [Workers -> SUBSET Tasks], ring' \in [Workers -> SUBSET Tasks],
         \A u \in Workers : deque'[u] = deque[u] \ {t} /\ ring'[u] = ring[u] \ {t}
  PROVE  IInv'
<1> DEFINE spot2 == [spot EXCEPT ![t] = "running"]
           at2 == [at EXCEPT ![t] = w]
<1>1. TypeOK'
  BY DEF TypeOK, Begin, hands, jobs, PCs
<1>2. spot2 \in [Tasks -> Spots] /\ at2 \in [Tasks -> Workers]
  BY DEF Inv, Spots
<1>3. Located(spot2, at2)'
  BY DEF Inv, Located, Begin, hands, TypeOK, Running, Owning
<1>4. \A x \in Tasks : Kids(spot2, x)' = Kids(spot, x) /\ Climbers(x)' = Climbers(x)
  BY DEF Inv, Kids, Climbers, Begin, TypeOK
<1>5. Counted(spot2)'
  BY <1>4 DEF Inv, Counted, Lock, LockSpots, WaitingSpots, Begin
<1>6. Waits(spot2)'
  BY DEF Inv, Waits, WaitingSpots, Begin
<1>7. Handed'
  BY DEF Inv, Handed, Begin, hands, TypeOK
<1>8. Tree(spot2)'
  BY DEF Inv, Tree, Begin, TypeOK
<1>9. Works(spot2)'
  BY DEF Inv, Works, WaitingSpots, Begin, TypeOK
<1> QED BY <1>1, <1>2, <1>3, <1>5, <1>6, <1>7, <1>8, <1>9 DEF IInv, Inv

LEMMA PopDequeInv ==
  ASSUME NEW spot, NEW at, TypeOK, Inv(spot, at),
         NEW w \in Workers, NEW t \in Tasks, PopDeque(w, t)
  PROVE  IInv'
<1>1. spot[t] = "deque" /\ at[t] = w
  BY DEF PopDeque, Inv, Located
<1>2. \A u \in Workers : deque'[u] = deque[u] \ {t} /\ ring'[u] = ring[u] \ {t}
  BY <1>1 DEF PopDeque, Inv, Located, TypeOK
<1>3. deque' \in [Workers -> SUBSET Tasks] /\ ring' \in [Workers -> SUBSET Tasks]
  BY DEF PopDeque, TypeOK
<1> QED BY <1>1, <1>2, <1>3, BeginInv DEF PopDeque

LEMMA PopRingInv ==
  ASSUME NEW spot, NEW at, TypeOK, Inv(spot, at),
         NEW w \in Workers, NEW t \in Tasks, PopRing(w, t)
  PROVE  IInv'
<1>1. spot[t] = "ring" /\ at[t] = w
  BY DEF PopRing, Inv, Located
<1>2. \A u \in Workers : deque'[u] = deque[u] \ {t} /\ ring'[u] = ring[u] \ {t}
  BY <1>1 DEF PopRing, Inv, Located, TypeOK
<1>3. deque' \in [Workers -> SUBSET Tasks] /\ ring' \in [Workers -> SUBSET Tasks]
  BY DEF PopRing, TypeOK
<1> QED BY <1>1, <1>2, <1>3, BeginInv DEF PopRing

LEMMA StealInv ==
  ASSUME NEW spot, NEW at, TypeOK, Inv(spot, at),
         NEW w \in Workers, NEW v \in Workers, NEW t \in Tasks, Steal(w, v, t)
  PROVE  IInv'
<1>1. /\ spot[t] \in {"deque", "ring"}
      /\ t \in deque[v] \/ t \in ring[v]
  BY DEF Steal, Inv, Located
<1>2. \A u \in Workers : deque'[u] = deque[u] \ {t} /\ ring'[u] = ring[u] \ {t}
  BY <1>1 DEF Steal, Inv, Located, TypeOK
<1>3. deque' \in [Workers -> SUBSET Tasks] /\ ring' \in [Workers -> SUBSET Tasks]
  BY DEF Steal, TypeOK
<1> QED BY <1>1, <1>2, <1>3, BeginInv DEF Steal

LEMMA SetContinuationInv ==
  ASSUME NEW spot, NEW at, TypeOK, Inv(spot, at),
         NEW w \in Workers, SetContinuation(w)
  PROVE  IInv'
<1>1. TypeOK'
  <2>1. calls' \in 0 .. MaxCalls
    BY TaskGraphAssumption DEF TypeOK, SetContinuation
  <2>2. fn' \in [Tasks -> Fns \cup {None}]
    BY DEF TypeOK, SetContinuation, Fns
  <2> QED BY <2>1, <2>2 DEF TypeOK, SetContinuation, queues, hands, jobs
<1>2. Located(spot, at)'
  BY DEF Inv, Located, SetContinuation, queues, hands
<1>3. \A x \in Tasks : Kids(spot, x)' = Kids(spot, x) /\ Climbers(x)' = Climbers(x)
  BY DEF Kids, Climbers, SetContinuation
<1>4. Counted(spot)' /\ Waits(spot)'
  BY <1>3 DEF Inv, Counted, Waits, Lock, SetContinuation
<1>5. Handed' /\ Tree(spot)'
  BY DEF Inv, Handed, Tree, SetContinuation, hands
<1>6. Works(spot)'
  BY TaskGraphAssumption DEF Inv, Works, SetContinuation, TypeOK, Fns
<1> QED BY <1>1, <1>2, <1>4, <1>5, <1>6 DEF IInv, Inv

LEMMA FinishJobInv ==
  ASSUME NEW spot, NEW at, TypeOK, Inv(spot, at),
         NEW w \in Workers, FinishJob(w)
  PROVE  IInv'
<1>1. cur[w] \in Tasks /\ spot[cur[w]] = "running" /\ jobOf[cur[w]] \in Jobs
  BY DEF Inv, Located, FinishJob, Running, TypeOK, Works
<1>2. TypeOK'
  BY <1>1 DEF TypeOK, FinishJob, PCs, taskFields, queues, hands
<1>3. Located(spot, at)'
  BY DEF Inv, Located, FinishJob, queues, hands, taskFields, Running, Owning, TypeOK
<1>4. \A x \in Tasks : Kids(spot, x)' = Kids(spot, x) /\ Climbers(x)' = Climbers(x)
  BY DEF Kids, Climbers, FinishJob, taskFields, TypeOK
<1>5. Counted(spot)' /\ Waits(spot)'
  BY <1>4 DEF Inv, Counted, Waits, Lock, FinishJob, taskFields
<1>6. Handed' /\ Tree(spot)' /\ Works(spot)'
  BY DEF Inv, Handed, Tree, Works, FinishJob, hands, taskFields, TypeOK
<1> QED BY <1>2, <1>3, <1>5, <1>6 DEF IInv, Inv

LEMMA SubmitRejectedInv ==
  ASSUME NEW spot, NEW at, TypeOK, Inv(spot, at), NEW j, SubmitRejected(j)
  PROVE  IInv'
<1>1. rr' \in Workers
  BY TaskGraphAssumption DEF TypeOK, SubmitRejected, Workers
<1>2. TypeOK'
  BY <1>1 DEF TypeOK, SubmitRejected, taskFields, hands, jobs
<1>3. Located(spot, at)'
  BY DEF Inv, Located, SubmitRejected, hands
<1>4. \A x \in Tasks : Kids(spot, x)' = Kids(spot, x) /\ Climbers(x)' = Climbers(x)
  BY DEF Kids, Climbers, SubmitRejected, taskFields
<1>5. Counted(spot)' /\ Waits(spot)'
  BY <1>4 DEF Inv, Counted, Waits, Lock, SubmitRejected, taskFields
<1>6. Handed' /\ Tree(spot)' /\ Works(spot)'
  BY DEF Inv, Handed, Tree, Works, SubmitRejected, hands, taskFields
<1> QED BY <1>2, <1>3, <1>5, <1>6 DEF IInv, Inv

\* The batch leaves the hands of the function: a part for the deque, the rest
\* for the rollback.
LEMMA PushBatchInv ==
  ASSUME NEW spot, NEW at, TypeOK, Inv(spot, at),
         NEW w \in Workers, NEW A \in SUBSET staged[w], PushBatch(w, A)
  PROVE  IInv'
<1> PICK spot2 : spot2 = [x \in Tasks |-> IF x \in A THEN "deque"
                                         ELSE IF x \in staged[w] THEN "bounced"
                                         ELSE spot[x]]
  OBVIOUS
<1>1. /\ staged[w] # {} /\ bounced[w] = {} /\ staged[w] \subseteq Tasks
      /\ \A x \in staged[w] : spot[x] = "staged" /\ at[x] = w
  BY DEF PushBatch, Inv, Handed, Located, TypeOK
<1>2. TypeOK'
  BY <1>1 DEF TypeOK, PushBatch, taskFields, jobs
<1>3. spot2 \in [Tasks -> Spots]
  BY DEF Inv, Spots
<1>4. Located(spot2, at)'
  <2> SUFFICES ASSUME NEW t \in Tasks, NEW u \in Workers
               PROVE  /\ (t \in free)' <=> spot2[t] = "free"
                      /\ (t \in deque[u])' <=> spot2[t] = "deque" /\ at[t] = u
                      /\ (t \in ring[u])' <=> spot2[t] = "ring" /\ at[t] = u
                      /\ (t \in staged[u])' <=> spot2[t] = "staged" /\ at[t] = u
                      /\ (t \in bounced[u])' <=> spot2[t] = "bounced" /\ at[t] = u
                      /\ (t \in rejected[u])' <=> spot2[t] = "rejected" /\ at[t] = u
                      /\ (pc[u] \in Running /\ cur[u] = t)'
                            <=> spot2[t] = "running" /\ at[t] = u
                      /\ (pc[u] \in Owning /\ cur[u] = t)'
                            <=> spot2[t] = "owned" /\ at[t] = u
    BY <1>1 DEF Located
  <2> QED BY <1>1 DEF Inv, Located, PushBatch, taskFields, TypeOK
<1>5. \A x \in Tasks : Kids(spot2, x)' = Kids(spot, x) /\ Climbers(x)' = Climbers(x)
  BY <1>1 DEF Kids, Climbers, PushBatch, taskFields
<1>6. Counted(spot2)' /\ Waits(spot2)'
  BY <1>1, <1>5 DEF Inv, Counted, Waits, Lock, LockSpots, WaitingSpots,
                    PushBatch, taskFields
<1>7. Handed' /\ Tree(spot2)' /\ Works(spot2)'
  BY <1>1 DEF Inv, Handed, Tree, Works, WaitingSpots, PushBatch, taskFields, TypeOK
<1> QED BY <1>2, <1>3, <1>4, <1>6, <1>7 DEF IInv, Inv

\* A rejected child never had children, so nothing points to it when it goes
\* back to the pool.
LEMMA ReleaseRejectedInv ==
  ASSUME NEW spot, NEW at, TypeOK, Inv(spot, at),
         NEW w \in Workers, NEW t \in Tasks, ReleaseRejected(w, t)
  PROVE  IInv'
<1> DEFINE spot2 == [spot EXCEPT ![t] = "free"]
<1>1. spot[t] = "rejected" /\ at[t] = w /\ deps[t] = 1
  BY DEF ReleaseRejected, Inv, Located, Waits, WaitingSpots
<1>2. Kids(spot, t) = {} /\ Climbers(t) = {}
  BY <1>1, Alone DEF LockSpots, WaitingSpots
<1>3. \A c \in Tasks : spot[c] # "free" => parent[c] # t
  BY <1>1, <1>2, Childless
<1>4. TypeOK'
  BY DEF TypeOK, ReleaseRejected, taskFields, queues, jobs
<1>5. spot2 \in [Tasks -> Spots]
  BY DEF Inv, Spots
<1>6. Located(spot2, at)'
  BY <1>1 DEF Inv, Located, ReleaseRejected, queues, TypeOK
<1>7. \A x \in Tasks : Kids(spot2, x)' = Kids(spot, x) /\ Climbers(x)' = Climbers(x)
  BY <1>1 DEF Inv, Kids, Climbers, ReleaseRejected, taskFields
<1>8. Counted(spot2)' /\ Waits(spot2)'
  BY <1>1, <1>7 DEF Inv, Counted, Waits, Lock, LockSpots, WaitingSpots,
                    ReleaseRejected, taskFields
<1>9. Handed'
  BY DEF Inv, Handed, ReleaseRejected, taskFields, TypeOK
<1>10. Tree(spot2)' /\ Works(spot2)'
  BY <1>1, <1>2, <1>3 DEF Inv, Tree, Works, WaitingSpots, Climbers, ReleaseRejected,
                          taskFields
<1> QED BY <1>4, <1>5, <1>6, <1>8, <1>9, <1>10 DEF IInv, Inv

\* What a worker that owns a task knows about it.
LEMMA OwnedFacts ==
  ASSUME NEW spot, NEW at, TypeOK, Inv(spot, at),
         NEW w \in Workers, pc[w] \in Owning
  PROVE  /\ cur[w] \in Tasks /\ spot[cur[w]] = "owned" /\ at[cur[w]] = w
         /\ deps[cur[w]] = 0
         /\ Kids(spot, cur[w]) = {} /\ Climbers(cur[w]) = {}
         /\ staged[w] = {} /\ bounced[w] = {} /\ rejected[w] = {}
         /\ \A c \in Tasks : spot[c] # "free" => parent[c] # cur[w]
<1>1. cur[w] \in Tasks /\ spot[cur[w]] = "owned" /\ at[cur[w]] = w
  BY DEF TypeOK, Inv, Located, Owning
<1>2. deps[cur[w]] = 0
  BY <1>1 DEF Inv, Waits
<1>3. Kids(spot, cur[w]) = {} /\ Climbers(cur[w]) = {}
  BY <1>1, <1>2, Alone
<1>4. staged[w] = {} /\ bounced[w] = {} /\ rejected[w] = {}
  BY DEF Inv, Handed, Owning
<1> QED BY <1>1, <1>2, <1>3, <1>4, Childless

\* Giving an owned task its virtual lock back keeps the counters right.
LEMMA Relock ==
  ASSUME NEW spot, NEW at, TypeOK, Inv(spot, at),
         NEW t \in Tasks, NEW s \in LockSpots, NEW spot2, spot2 = [spot EXCEPT ![t] = s],
         deps' = [deps EXCEPT ![t] = 1],
         Kids(spot, t) = {}, Climbers(t) = {},
         \A x \in Tasks : Kids(spot2, x)' = Kids(spot, x) /\ Climbers(x)' = Climbers(x)
  PROVE  Counted(spot2)'
<1> SUFFICES ASSUME NEW x \in Tasks, spot2[x] # "free"
             PROVE  deps'[x] = Lock(spot2, x) + Cardinality(Kids(spot, x))
                                              + Cardinality(Climbers(x))
  BY DEF Counted, Lock
<1>1. CASE x = t
  <2>1. deps'[x] = 1 /\ Lock(spot2, x) = 1
    BY <1>1 DEF TypeOK, Lock, Inv
  <2> QED BY <1>1, <2>1, FS_EmptySet
<1>2. CASE x # t
  <2>1. spot2[x] = spot[x] /\ deps'[x] = deps[x] /\ Lock(spot2, x) = Lock(spot, x)
    BY <1>2 DEF TypeOK, Lock, Inv
  <2> QED BY <2>1 DEF Inv, Counted
<1> QED BY <1>1, <1>2

LEMMA RunContinuationInv ==
  ASSUME NEW spot, NEW at, TypeOK, Inv(spot, at),
         NEW w \in Workers, NEW t, t = cur[w], RunContinuation(w)
  PROVE  IInv'
<1> DEFINE spot2 == [spot EXCEPT ![t] = "running"]
<1>1. /\ pc[w] \in Owning /\ t \in Tasks /\ spot[t] = "owned" /\ at[t] = w
      /\ Kids(spot, t) = {} /\ Climbers(t) = {}
      /\ staged[w] = {} /\ bounced[w] = {} /\ rejected[w] = {}
  <2>1. pc[w] \in Owning
    BY DEF RunContinuation, Owning
  <2> QED BY <2>1, OwnedFacts
<1>2. TypeOK'
  BY <1>1 DEF TypeOK, RunContinuation, PCs, queues, hands, jobs
<1>3. spot2 \in [Tasks -> Spots]
  BY DEF Inv, Spots
<1>4. Located(spot2, at)'
  BY <1>1 DEF Inv, Located, RunContinuation, queues, hands, Running, Owning, TypeOK
<1>5. \A x \in Tasks : Kids(spot2, x)' = Kids(spot, x) /\ Climbers(x)' = Climbers(x)
  BY <1>1 DEF Inv, Kids, Climbers, RunContinuation, TypeOK
<1>6. Counted(spot2)'
  BY <1>1, <1>5, Relock DEF RunContinuation, LockSpots
<1>7. Waits(spot2)'
  BY <1>1 DEF Inv, Waits, WaitingSpots, RunContinuation, TypeOK
<1>8. Handed'
  BY <1>1 DEF Inv, Handed, RunContinuation, hands, TypeOK
<1>9. Tree(spot2)' /\ Works(spot2)'
  BY <1>1 DEF Inv, Tree, Works, WaitingSpots, RunContinuation, TypeOK
<1> QED BY <1>2, <1>3, <1>4, <1>6, <1>7, <1>8, <1>9 DEF IInv, Inv

LEMMA RunInlineInv ==
  ASSUME NEW spot, NEW at, TypeOK, Inv(spot, at),
         NEW w \in Workers, NEW t, t = cur[w], RunInline(w)
  PROVE  IInv'
<1> DEFINE spot2 == [spot EXCEPT ![t] = "running"]
<1>1. /\ pc[w] \in Owning /\ t \in Tasks /\ spot[t] = "owned" /\ at[t] = w
      /\ Kids(spot, t) = {} /\ Climbers(t) = {}
      /\ staged[w] = {} /\ bounced[w] = {} /\ rejected[w] = {}
  <2>1. pc[w] \in Owning
    BY DEF RunInline, Owning
  <2> QED BY <2>1, OwnedFacts
<1>2. pc' = [pc EXCEPT ![w] = pc'[w]] /\ pc'[w] \in {"hook", "runUp"}
  BY DEF RunInline, TypeOK
<1>3. TypeOK'
  BY <1>1 DEF TypeOK, RunInline, PCs, queues, hands, jobs
<1>4. spot2 \in [Tasks -> Spots]
  BY DEF Inv, Spots
<1>5. Located(spot2, at)'
  BY <1>1, <1>2 DEF Inv, Located, RunInline, queues, hands, Running, Owning, TypeOK
<1>6. \A x \in Tasks : Kids(spot2, x)' = Kids(spot, x) /\ Climbers(x)' = Climbers(x)
  BY <1>1, <1>2 DEF Inv, Kids, Climbers, RunInline, TypeOK
<1>7. Counted(spot2)'
  BY <1>1, <1>6, Relock DEF RunInline, LockSpots
<1>8. Waits(spot2)'
  BY <1>1 DEF Inv, Waits, WaitingSpots, RunInline, TypeOK
<1>9. Handed'
  BY <1>1, <1>2 DEF Inv, Handed, RunInline, hands, TypeOK
<1>10. Tree(spot2)' /\ Works(spot2)'
  BY <1>1, <1>2 DEF Inv, Tree, Works, WaitingSpots, RunInline, TypeOK
<1> QED BY <1>3, <1>4, <1>5, <1>7, <1>8, <1>9, <1>10 DEF IInv, Inv

LEMMA RequeueInv ==
  ASSUME NEW spot, NEW at, TypeOK, Inv(spot, at),
         NEW w \in Workers, NEW t, t = cur[w], Requeue(w)
  PROVE  IInv'
<1> DEFINE spot2 == [spot EXCEPT ![t] = "deque"]
<1>1. /\ pc[w] \in Owning /\ t \in Tasks /\ spot[t] = "owned" /\ at[t] = w
      /\ Kids(spot, t) = {} /\ Climbers(t) = {}
      /\ staged[w] = {} /\ bounced[w] = {} /\ rejected[w] = {}
  <2>1. pc[w] \in Owning
    BY DEF Requeue, Owning
  <2> QED BY <2>1, OwnedFacts
<1>2. TypeOK'
  BY <1>1 DEF TypeOK, Requeue, PCs, hands, jobs
<1>3. spot2 \in [Tasks -> Spots]
  BY DEF Inv, Spots
<1>4. Located(spot2, at)'
  BY <1>1 DEF Inv, Located, Requeue, hands, Running, Owning, TypeOK
<1>5. \A x \in Tasks : Kids(spot2, x)' = Kids(spot, x) /\ Climbers(x)' = Climbers(x)
  BY <1>1 DEF Inv, Kids, Climbers, Requeue, TypeOK
<1>6. Counted(spot2)'
  BY <1>1, <1>5, Relock DEF Requeue, LockSpots, WaitingSpots
<1>7. Waits(spot2)'
  BY <1>1 DEF Inv, Waits, WaitingSpots, Requeue, TypeOK
<1>8. Handed'
  BY <1>1 DEF Inv, Handed, Requeue, hands, TypeOK
<1>9. Tree(spot2)' /\ Works(spot2)'
  BY <1>1 DEF Inv, Tree, Works, WaitingSpots, Requeue, HasFunction, TypeOK
<1> QED BY <1>2, <1>3, <1>4, <1>6, <1>7, <1>8, <1>9 DEF IInv, Inv

\* Root and splitter of a new job: the root waits for the splitter.
LEMMA SubmitAcceptedInv ==
  ASSUME NEW spot, NEW at, TypeOK, Inv(spot, at),
         NEW j \in Jobs, NEW root \in Tasks, NEW child \in Tasks,
         SubmitAccepted(j, root, child)
  PROVE  IInv'
<1> PICK r : r = rr
  OBVIOUS
<1> DEFINE spot2 == [spot EXCEPT ![root] = "suspended", ![child] = "ring"]
           at2 == [at EXCEPT ![child] = r]
<1>1. /\ r \in Workers /\ root # child
      /\ spot[root] = "free" /\ spot[child] = "free"
  BY DEF SubmitAccepted, TypeOK, Inv, Located
<1>2. /\ \A c \in Tasks : spot[c] # "free" => parent[c] # root /\ parent[c] # child
      /\ Climbers(root) = {} /\ Climbers(child) = {}
  BY <1>1, FreeAlone
<1>3. rr' \in Workers
  BY TaskGraphAssumption DEF TypeOK, SubmitAccepted, Workers
<1>4. TypeOK'
  BY <1>3 DEF TypeOK, SubmitAccepted, hands, Fns
<1>5. spot2 \in [Tasks -> Spots] /\ at2 \in [Tasks -> Workers]
  BY <1>1 DEF Inv, Spots
<1>6. Located(spot2, at2)'
  BY <1>1 DEF Inv, Located, SubmitAccepted, hands, TypeOK
<1>7. /\ \A x \in Tasks : Climbers(x)' = Climbers(x)
      /\ \A x \in Tasks \ {root, child} : Kids(spot2, x)' = Kids(spot, x)
      /\ Kids(spot2, root)' = {child}
      /\ Kids(spot2, child)' = {}
  <2>1. \A x \in Tasks : Climbers(x)' = Climbers(x)
    BY DEF Climbers, SubmitAccepted
  <2>2. /\ spot2[root] = "suspended" /\ parent'[root] = None
        /\ spot2[child] = "ring" /\ parent'[child] = root
        /\ \A x \in Tasks \ {root, child} : spot2[x] = spot[x] /\ parent'[x] = parent[x]
    BY <1>1 DEF Inv, SubmitAccepted, TypeOK
  <2>3. None \notin Tasks
    BY TaskGraphAssumption
  <2> HIDE DEF spot2
  <2>4. \A x \in Tasks \ {root, child} : Kids(spot2, x)' = Kids(spot, x)
    BY <1>1, <2>2, <2>3 DEF Kids
  <2>5. Kids(spot2, root)' = {child}
    BY <1>1, <1>2, <2>2, <2>3 DEF Kids
  <2>6. Kids(spot2, child)' = {}
    BY <1>1, <1>2, <2>2, <2>3 DEF Kids
  <2> QED BY <2>1, <2>4, <2>5, <2>6
<1>8. Counted(spot2)'
  <2>1. Cardinality({}) = 0 /\ Cardinality({child}) = 1
    BY FS_EmptySet, FS_Singleton
  <2>2. ASSUME NEW x \in Tasks \ {root, child}, spot2[x] # "free"
        PROVE  deps'[x] = Lock(spot2, x) + Cardinality(Kids(spot, x))
                                         + Cardinality(Climbers(x))
    <3>1. deps'[x] = deps[x] /\ spot2[x] = spot[x] /\ Lock(spot2, x) = Lock(spot, x)
      BY DEF SubmitAccepted, TypeOK, Inv, Lock
    <3> QED BY <2>2, <3>1 DEF Inv, Counted
  <2>3. deps'[root] = 1 /\ Lock(spot2, root) = 0
    BY <1>1 DEF SubmitAccepted, TypeOK, Inv, Lock, LockSpots, WaitingSpots
  <2>4. deps'[child] = 1 /\ Lock(spot2, child) = 1
    BY <1>1 DEF SubmitAccepted, TypeOK, Inv, Lock, LockSpots, WaitingSpots
  <2> HIDE DEF spot2
  <2> QED BY <1>2, <1>7, <2>1, <2>2, <2>3, <2>4 DEF Counted, Lock
<1>9. Waits(spot2)'
  <2>1. /\ spot2[root] = "suspended" /\ deps'[root] = 1
        /\ spot2[child] = "ring" /\ deps'[child] = 1
        /\ \A x \in Tasks \ {root, child} : spot2[x] = spot[x] /\ deps'[x] = deps[x]
    BY <1>1 DEF Inv, SubmitAccepted, TypeOK
  <2>2. Waits(spot)
    BY DEF Inv
  <2> HIDE DEF spot2
  <2> QED BY <2>1, <2>2 DEF Waits, WaitingSpots
<1>10. Handed'
  <2>1. \A w \in Workers : root \notin staged[w] \cup bounced[w] \cup rejected[w]
                           /\ child \notin staged[w] \cup bounced[w] \cup rejected[w]
    BY <1>1 DEF Inv, Located
  <2>2. /\ \A x \in Tasks \ {root, child} : parent'[x] = parent[x]
        /\ staged' = staged /\ bounced' = bounced /\ rejected' = rejected
        /\ pc' = pc /\ cur' = cur
    BY DEF SubmitAccepted, hands, TypeOK
  <2>3. \A w \in Workers : staged[w] \cup bounced[w] \cup rejected[w] \subseteq Tasks
    BY DEF TypeOK
  <2>4. Handed
    BY DEF Inv
  <2> HIDE DEF spot2
  <2> QED BY <2>1, <2>2, <2>3, <2>4 DEF Handed
<1>11. Tree(spot2)'
  <2>1. /\ spot2[root] # "free" /\ parent'[root] = None
        /\ spot2[child] # "free" /\ parent'[child] = root
        /\ \A x \in Tasks \ {root, child} : spot2[x] = spot[x] /\ parent'[x] = parent[x]
        /\ pc' = pc /\ cur' = cur
    BY <1>1 DEF Inv, SubmitAccepted, TypeOK
  <2>2. \A w \in Workers : pc[w] = "walk" => cur[w] \in Tasks /\ spot[cur[w]] # "free"
    BY DEF Inv, Tree, TypeOK
  <2>3. \A x \in Tasks : spot[x] # "free" /\ parent[x] # None =>
          parent[x] \in Tasks /\ parent[x] # x /\ spot[parent[x]] # "free"
    BY DEF Inv, Tree
  <2> HIDE DEF spot2
  <2> QED BY <1>1, <2>1, <2>2, <2>3 DEF Tree
<1>12. Works(spot2)'
  BY <1>1, TaskGraphAssumption DEF Inv, Works, WaitingSpots, SubmitAccepted, TypeOK, Fns
<1> QED BY <1>4, <1>5, <1>6, <1>8, <1>9, <1>10, <1>11, <1>12 DEF IInv, Inv

\* A batch: the new children are the only ones whose parent changes.
LEMMA SpawnInv ==
  ASSUME NEW spot, NEW at, TypeOK, Inv(spot, at),
         NEW w \in Workers, NEW K \in SUBSET free, Spawn(w, K),
         NEW t, t = cur[w]
  PROVE  IInv'
<1> DEFINE spot2 == [x \in Tasks |-> IF x \in K THEN "staged" ELSE spot[x]]
           at2 == [x \in Tasks |-> IF x \in K THEN w ELSE at[x]]
<1>1. /\ t \in Tasks /\ spot[t] = "running" /\ at[t] = w
      /\ pc[w] \in {"run", "runUp"} /\ staged[w] = {} /\ bounced[w] = {}
      /\ K \subseteq Tasks /\ t \notin K
      /\ \A x \in K : spot[x] = "free"
  BY DEF Spawn, InFunction, TypeOK, Inv, Located, Running
<1>2. /\ \A c \in Tasks : spot[c] # "free" => parent[c] \notin K
      /\ \A x \in K : Climbers(x) = {}
  BY <1>1, FreeAlone
<1>3. IsFiniteSet(K) /\ Cardinality(K) \in Nat
  BY <1>1, TaskGraphAssumption, FS_Subset, FS_CardinalityType
<1>4. TypeOK'
  <2>1. calls' \in 0 .. MaxCalls
    BY TaskGraphAssumption DEF TypeOK, Spawn
  <2>2. deps' \in [Tasks -> Nat]
    BY <1>3 DEF TypeOK, Spawn, BatchLocks
  <2>3. fn' \in [Tasks -> Fns \cup {None}] /\ parent' \in [Tasks -> Tasks \cup {None}]
    BY <1>1 DEF TypeOK, Spawn, Fns
  <2> QED BY <1>1, <2>1, <2>2, <2>3 DEF TypeOK, Spawn, queues, jobs
<1>5. spot2 \in [Tasks -> Spots] /\ at2 \in [Tasks -> Workers]
  BY DEF Inv, Spots
<1>6. Located(spot2, at2)'
  BY <1>1 DEF Inv, Located, Spawn, queues, TypeOK
<1>7. /\ \A x \in Tasks : Climbers(x)' = Climbers(x)
      /\ \A x \in Tasks : x \notin K /\ x # t => Kids(spot2, x)' = Kids(spot, x)
      /\ Kids(spot2, t)' = Kids(spot, t) \cup K
      /\ \A x \in K : Kids(spot2, x)' = {}
  BY <1>1, <1>2 DEF Inv, Kids, Climbers, Spawn, TypeOK
<1>8. Counted(spot2)'
  <2> SUFFICES ASSUME NEW x \in Tasks, spot2[x] # "free"
               PROVE  deps'[x] = Lock(spot2, x) + Cardinality(Kids(spot2, x)')
                                                + Cardinality(Climbers(x))
    BY <1>7 DEF Counted, Lock
  <2>1. CASE x \in K
    <3>1. deps'[x] = 1 /\ Lock(spot2, x) = 1
      BY <2>1 DEF Spawn, TypeOK, Lock, LockSpots, WaitingSpots
    <3> HIDE DEF spot2
    <3> QED BY <1>2, <1>7, <2>1, <3>1, FS_EmptySet
  <2>2. CASE x = t
    <3>1. deps'[x] = deps[x] + Cardinality(K) /\ Lock(spot2, x) = Lock(spot, x)
      BY <1>1, <2>2 DEF Spawn, TypeOK, Lock, BatchLocks
    <3>2. deps[x] = Lock(spot, x) + Cardinality(Kids(spot, x)) + Cardinality(Climbers(x))
      BY <1>1, <2>2 DEF Inv, Counted
    <3>3. Kids(spot, x) \cap K = {}
      BY <1>1 DEF Kids
    <3>4. Cardinality(Kids(spot, x) \cup K) = Cardinality(Kids(spot, x)) + Cardinality(K)
      BY <1>3, <3>3, FiniteFacts, DisjointUnion
    <3>5. Cardinality(Kids(spot, x)) \in Nat /\ Cardinality(Climbers(x)) \in Nat
      BY FiniteFacts
    <3>6. Lock(spot, x) \in Nat
      BY DEF Lock
    <3> HIDE DEF spot2
    <3> QED BY <1>3, <1>7, <2>2, <3>1, <3>2, <3>4, <3>5, <3>6
  <2>3. CASE x \notin K /\ x # t
    <3>1. deps'[x] = deps[x] /\ spot2[x] = spot[x] /\ Lock(spot2, x) = Lock(spot, x)
      BY <1>1, <2>3 DEF Spawn, TypeOK, Lock
    <3>2. Kids(spot2, x)' = Kids(spot, x)
      BY <1>7, <2>3
    <3> HIDE DEF spot2
    <3> QED BY <3>1, <3>2 DEF Inv, Counted
  <2> QED BY <2>1, <2>2, <2>3
<1>9. Waits(spot2)'
  BY <1>1 DEF Inv, Waits, WaitingSpots, Spawn, TypeOK
<1>10. Handed'
  BY <1>1 DEF Inv, Handed, Located, Spawn, TypeOK
<1>11. Tree(spot2)'
  BY <1>1, <1>2 DEF Inv, Tree, Spawn, TypeOK
<1>12. Works(spot2)'
  BY <1>1, TaskGraphAssumption DEF Inv, Works, WaitingSpots, Spawn, TypeOK, Fns
<1> QED BY <1>4, <1>5, <1>6, <1>8, <1>9, <1>10, <1>11, <1>12 DEF IInv, Inv

\* The rejected children stop counting and stay in the hands of the function.
LEMMA RollbackInv ==
  ASSUME NEW spot, NEW at, TypeOK, Inv(spot, at),
         NEW w \in Workers, Rollback(w),
         NEW t, t = cur[w], NEW B, B = bounced[w]
  PROVE  IInv'
<1> DEFINE spot2 == [x \in Tasks |-> IF x \in B THEN "rejected" ELSE spot[x]]
<1>1. /\ pc[w] \in {"run", "runUp"} /\ staged[w] = {}
      /\ B \subseteq Tasks /\ B # {}
      /\ \A x \in B : spot[x] = "bounced" /\ at[x] = w /\ parent[x] = t
  BY DEF Rollback, Inv, Handed, Located, TypeOK
<1>2. t \in Tasks /\ spot[t] = "running" /\ at[t] = w /\ t \notin B
  BY <1>1 DEF Inv, Located, Running, TypeOK
<1>3. IsFiniteSet(B) /\ Cardinality(B) \in Nat
  BY <1>1, TaskGraphAssumption, FS_Subset, FS_CardinalityType
<1>4. /\ \A x \in Tasks : Climbers(x)' = Climbers(x)
      /\ \A x \in Tasks : x # t => Kids(spot2, x)' = Kids(spot, x)
      /\ Kids(spot, t) = Kids(spot2, t) \cup B
      /\ Kids(spot2, t)' = Kids(spot2, t)
      /\ Kids(spot2, t) \cap B = {}
  BY <1>1, <1>2 DEF Inv, Kids, Climbers, Rollback
<1>5. /\ deps[t] = 1 + Cardinality(Kids(spot2, t)) + Cardinality(B)
                      + Cardinality(Climbers(t))
      /\ Cardinality(Kids(spot2, t)) \in Nat /\ Cardinality(Climbers(t)) \in Nat
  <2>1. Cardinality(Kids(spot, t)) = Cardinality(Kids(spot2, t)) + Cardinality(B)
    <3>1. IsFiniteSet(Kids(spot2, t))
      BY FiniteFacts
    <3> HIDE DEF spot2
    <3> QED BY <1>3, <1>4, <3>1, DisjointUnion
  <2>2. deps[t] = 1 + Cardinality(Kids(spot, t)) + Cardinality(Climbers(t))
    BY <1>2 DEF Inv, Counted, Lock, LockSpots
  <2>3. Cardinality(Kids(spot2, t)) \in Nat /\ Cardinality(Climbers(t)) \in Nat
    BY FiniteFacts
  <2> HIDE DEF spot2
  <2> QED BY <1>3, <2>1, <2>2, <2>3
<1>6. /\ deps'[t] = 1 + Cardinality(Kids(spot2, t)) + Cardinality(Climbers(t))
      /\ \A x \in Tasks : x # t => deps'[x] = deps[x]
  <2>1. /\ deps'[t] = deps[t] - Cardinality(B)
        /\ \A x \in Tasks : x # t => deps'[x] = deps[x]
    BY <1>2 DEF Rollback, Unlock, TypeOK
  <2> HIDE DEF spot2
  <2> QED BY <1>3, <1>5, <2>1
<1>7. TypeOK'
  <2>1. deps' \in [Tasks -> Nat]
    <3>1. deps'[t] \in Nat
      <4> HIDE DEF spot2
      <4> QED BY <1>5, <1>6
    <3> QED BY <1>2, <3>1 DEF Rollback, TypeOK
  <2> QED BY <2>1 DEF TypeOK, Rollback, queues, jobs
<1>8. spot2 \in [Tasks -> Spots]
  BY DEF Inv, Spots
<1>9. Located(spot2, at)'
  BY <1>1, <1>2 DEF Inv, Located, Rollback, queues, TypeOK
<1>10. Counted(spot2)'
  <2> SUFFICES ASSUME NEW x \in Tasks, spot2[x] # "free"
               PROVE  deps'[x] = Lock(spot2, x) + Cardinality(Kids(spot2, x)')
                                                + Cardinality(Climbers(x))
    BY <1>4 DEF Counted, Lock
  <2>1. CASE x = t
    <3>1. Lock(spot2, x) = 1
      BY <1>2, <2>1 DEF Lock, LockSpots
    <3> HIDE DEF spot2
    <3> QED BY <1>4, <1>6, <2>1, <3>1
  <2>2. CASE x # t
    <3>1. spot[x] # "free" /\ Lock(spot2, x) = Lock(spot, x)
      BY <1>1 DEF Lock, LockSpots, WaitingSpots
    <3>2. Kids(spot2, x)' = Kids(spot, x)
      BY <1>4, <2>2
    <3> HIDE DEF spot2
    <3> QED BY <1>6, <2>2, <3>1, <3>2 DEF Inv, Counted
  <2> QED BY <2>1, <2>2
<1>11. Waits(spot2)'
  <2>1. \A x \in Tasks : x # t => deps'[x] = deps[x]
    BY <1>6
  <2> QED BY <1>1, <1>2, <2>1 DEF Inv, Waits, WaitingSpots
<1>12. Handed'
  BY <1>1 DEF Inv, Handed, Rollback, TypeOK
<1>13. Tree(spot2)' /\ Works(spot2)'
  BY <1>1, <1>2 DEF Inv, Tree, Works, WaitingSpots, Rollback, TypeOK
<1> QED BY <1>7, <1>8, <1>9, <1>10, <1>11, <1>12, <1>13 DEF IInv, Inv

\* The function of a task returned: without unfinished children its worker
\* owns it, otherwise it is suspended.
LEMMA ReturnInv ==
  ASSUME NEW spot, NEW at, TypeOK, Inv(spot, at),
         NEW w \in Workers, Return(w), NEW t, t = cur[w]
  PROVE  IInv'
<1> PICK s : s = IF deps[t] = 1 THEN "owned" ELSE "suspended"
  OBVIOUS
<1> DEFINE spot2 == [spot EXCEPT ![t] = s]
<1>1. /\ t \in Tasks /\ spot[t] = "running" /\ at[t] = w
      /\ pc[w] \in Running
      /\ staged[w] = {} /\ bounced[w] = {} /\ rejected[w] = {}
  BY DEF Return, InFunction, Inv, Located, Handed, Running, TypeOK
<1>2. /\ deps[t] = 1 + Cardinality(Kids(spot, t)) + Cardinality(Climbers(t))
      /\ Cardinality(Kids(spot, t)) \in Nat /\ Cardinality(Climbers(t)) \in Nat
  BY <1>1, FiniteFacts DEF Inv, Counted, Lock, LockSpots
<1>3. /\ deps' = [deps EXCEPT ![t] = @ - 1]
      /\ deps[t] = 1 => pc'[w] \in Owning /\ cur'[w] = t
      /\ deps[t] # 1 => pc'[w] = "idle" /\ cur'[w] = None
      /\ pc' = [pc EXCEPT ![w] = pc'[w]] /\ cur' = [cur EXCEPT ![w] = cur'[w]]
  BY DEF Return, Decrement, LastOne, Owning, TypeOK
<1>4. deps'[t] \in Nat /\ deps'[t] = Cardinality(Kids(spot, t)) + Cardinality(Climbers(t))
  BY <1>1, <1>2, <1>3 DEF TypeOK
<1>5. TypeOK'
  <2>1. deps' \in [Tasks -> Nat]
    BY <1>1, <1>3, <1>4 DEF TypeOK
  <2>2. /\ pc' \in [Workers -> PCs] /\ cur' \in [Workers -> Tasks \cup {None}]
        /\ \A u \in Workers : pc'[u] # "idle" => cur'[u] \in Tasks
    BY <1>1, <1>3 DEF TypeOK, Owning, PCs
  <2> QED BY <2>1, <2>2 DEF TypeOK, Return, queues, hands, jobs
<1>6. spot2 \in [Tasks -> Spots]
  BY DEF Inv, Spots
<1>7. Located(spot2, at)'
  BY <1>1, <1>3, TaskGraphAssumption
     DEF Inv, Located, Return, queues, hands, TypeOK, Running, Owning
<1>8. \A x \in Tasks : Kids(spot2, x)' = Kids(spot, x) /\ Climbers(x)' = Climbers(x)
  BY <1>1, <1>3 DEF Inv, Kids, Climbers, Return, TypeOK, Running, Owning
<1>9. Counted(spot2)'
  <2> SUFFICES ASSUME NEW x \in Tasks, spot2[x] # "free"
               PROVE  deps'[x] = Lock(spot2, x) + Cardinality(Kids(spot, x))
                                                + Cardinality(Climbers(x))
    BY <1>8 DEF Counted, Lock
  <2>1. CASE x = t
    <3>1. Lock(spot2, x) = 0
      BY <1>1, <2>1 DEF Inv, Lock, LockSpots, WaitingSpots
    <3> HIDE DEF spot2
    <3> QED BY <1>2, <1>4, <2>1, <3>1
  <2>2. CASE x # t
    <3>1. deps'[x] = deps[x] /\ spot2[x] = spot[x] /\ Lock(spot2, x) = Lock(spot, x)
      BY <1>3, <2>2 DEF TypeOK, Inv, Lock
    <3> QED BY <3>1 DEF Inv, Counted
  <2> QED BY <2>1, <2>2
<1>10. Waits(spot2)'
  <2>1. deps[t] = 1 => deps'[t] = 0
    BY <1>1, <1>3 DEF TypeOK
  <2>2. deps[t] # 1 => deps'[t] # 0
    BY <1>1, <1>2, <1>3, <1>4
  <2> QED BY <1>1, <1>3, <2>1, <2>2 DEF Inv, Waits, WaitingSpots, TypeOK
<1>11. Handed'
  BY <1>1, <1>3 DEF Inv, Handed, Return, hands, TypeOK
<1>12. Tree(spot2)' /\ Works(spot2)'
  BY <1>1, <1>3 DEF Inv, Tree, Works, WaitingSpots, Owning, Return, TypeOK
<1> QED BY <1>5, <1>6, <1>7, <1>9, <1>10, <1>11, <1>12 DEF IInv, Inv

\* A finished task is recycled; its worker is from then on a climber of the
\* parent, so the counter of the parent is still right.
LEMMA RetireInv ==
  ASSUME NEW spot, NEW at, TypeOK, Inv(spot, at),
         NEW w \in Workers, Retire(w), NEW t, t = cur[w], NEW p, p = parent[t]
  PROVE  IInv'
<1> DEFINE spot2 == [spot EXCEPT ![t] = "free"]
<1>1. /\ pc[w] \in Owning /\ t \in Tasks /\ spot[t] = "owned" /\ at[t] = w
      /\ Kids(spot, t) = {} /\ Climbers(t) = {}
      /\ staged[w] = {} /\ bounced[w] = {} /\ rejected[w] = {}
      /\ \A c \in Tasks : spot[c] # "free" => parent[c] # t
  <2>1. pc[w] \in Owning
    BY DEF Retire, Owning
  <2> QED BY <2>1, OwnedFacts
<1>2. /\ p \in Tasks \cup {None}
      /\ p # None => p \in Tasks /\ p # t /\ spot[p] # "free"
  BY <1>1 DEF Inv, Tree, TypeOK
<1>3. /\ cur' = [cur EXCEPT ![w] = p]
      /\ pc' = [pc EXCEPT ![w] = IF p = None THEN "idle" ELSE "walk"]
      /\ free' = free \cup {t}
  BY DEF Retire
<1>4. TypeOK'
  BY <1>1, <1>2, <1>3 DEF TypeOK, Retire, PCs, taskFields, queues, hands, jobs
<1>5. spot2 \in [Tasks -> Spots]
  BY DEF Inv, Spots
<1>6. Located(spot2, at)'
  BY <1>1, <1>3 DEF Inv, Located, Retire, queues, hands, TypeOK, Running, Owning
<1>7. /\ \A x \in Tasks : x # p => Kids(spot2, x)' = Kids(spot, x)
                                 /\ Climbers(x)' = Climbers(x)
      /\ p # None => /\ Kids(spot2, p)' = Kids(spot, p) \ {t} /\ t \in Kids(spot, p)
                     /\ Climbers(p)' = Climbers(p) \cup {w} /\ w \notin Climbers(p)
  BY <1>1, <1>2, <1>3 DEF Inv, Kids, Climbers, Retire, taskFields, TypeOK, Owning
<1>8. Counted(spot2)'
  <2> SUFFICES ASSUME NEW x \in Tasks, spot2[x] # "free"
               PROVE  deps'[x] = Lock(spot2, x) + Cardinality(Kids(spot2, x)')
                                                + Cardinality(Climbers(x)')
    BY DEF Counted, Lock
  <2>1. /\ x # t /\ deps'[x] = deps[x] /\ Lock(spot2, x) = Lock(spot, x)
        /\ deps[x] = Lock(spot, x) + Cardinality(Kids(spot, x)) + Cardinality(Climbers(x))
    BY <1>1 DEF Inv, Counted, Lock, Retire, taskFields
  <2>2. CASE x = p
    <3>1. /\ IsFiniteSet(Kids(spot, x)) /\ Cardinality(Kids(spot, x)) \in Nat
          /\ IsFiniteSet(Climbers(x)) /\ Cardinality(Climbers(x)) \in Nat
      BY FiniteFacts
    <3>2. x # None
      BY TaskGraphAssumption
    <3>3. Cardinality(Kids(spot, x) \ {t}) = Cardinality(Kids(spot, x)) - 1
      BY <1>7, <2>2, <3>1, <3>2, FS_RemoveElement
    <3>4. Cardinality(Climbers(x) \cup {w}) = Cardinality(Climbers(x)) + 1
      BY <1>7, <2>2, <3>1, <3>2, FS_AddElement
    <3>5. Lock(spot, x) \in Nat
      BY DEF Lock
    <3>6. Kids(spot2, x)' = Kids(spot, x) \ {t} /\ Climbers(x)' = Climbers(x) \cup {w}
      BY <1>7, <2>2, <3>2
    <3> HIDE DEF spot2
    <3> QED BY <2>1, <3>1, <3>3, <3>4, <3>5, <3>6
  <2>3. CASE x # p
    <3>1. Kids(spot2, x)' = Kids(spot, x) /\ Climbers(x)' = Climbers(x)
      BY <1>7, <2>3
    <3> HIDE DEF spot2
    <3> QED BY <2>1, <3>1
  <2> QED BY <2>2, <2>3
<1>9. Waits(spot2)'
  BY <1>1 DEF Inv, Waits, WaitingSpots, Retire, taskFields
<1>10. Handed'
  BY <1>1, <1>3 DEF Inv, Handed, Retire, hands, taskFields, TypeOK
<1>11. Tree(spot2)' /\ Works(spot2)'
  BY <1>1, <1>2, <1>3 DEF Inv, Tree, Works, WaitingSpots, Climbers, Retire,
                          taskFields, TypeOK
<1> QED BY <1>4, <1>5, <1>6, <1>8, <1>9, <1>10, <1>11 DEF IInv, Inv

\* The worker of a recycled child decrements the parent: the last one owns it.
LEMMA ClimbInv ==
  ASSUME NEW spot, NEW at, TypeOK, Inv(spot, at),
         NEW w \in Workers, Climb(w), NEW t, t = cur[w]
  PROVE  IInv'
<1> PICK s : s = IF deps[t] = 1 THEN "owned" ELSE spot[t]
  OBVIOUS
<1> PICK a : a = IF deps[t] = 1 THEN w ELSE at[t]
  OBVIOUS
<1> DEFINE spot2 == [spot EXCEPT ![t] = s]
           at2 == [at EXCEPT ![t] = a]
<1>1. /\ t \in Tasks /\ spot[t] # "free" /\ w \in Climbers(t) /\ pc[w] = "walk"
      /\ staged[w] = {} /\ bounced[w] = {} /\ rejected[w] = {}
  BY DEF Climb, Inv, Tree, Handed, TypeOK, Climbers
<1>2. /\ Cardinality(Climbers(t)) \in Nat \ {0} /\ Cardinality(Kids(spot, t)) \in Nat
      /\ IsFiniteSet(Climbers(t))
  BY <1>1, FiniteFacts, FS_EmptySet
<1>3. /\ deps[t] = Lock(spot, t) + Cardinality(Kids(spot, t)) + Cardinality(Climbers(t))
      /\ Lock(spot, t) \in {0, 1}
  BY <1>1 DEF Inv, Counted, Lock
<1>4. /\ spot[t] \in {"running", "suspended"}
      /\ deps[t] = 1 => spot[t] = "suspended"
      /\ deps[t] \in Nat \ {0}
  <2>1. deps[t] # 0 /\ deps[t] \in Nat
    BY <1>2, <1>3
  <2>2. deps[t] = 1 => Lock(spot, t) = 0
    BY <1>2, <1>3
  <2>3. spot[t] \in LockSpots => deps[t] # 1
    BY <2>2 DEF Lock
  <2>4. spot[t] \notin WaitingSpots /\ spot[t] # "owned" /\ spot[t] # "free"
    BY <1>1, <2>1, <2>3 DEF Inv, Waits, LockSpots
  <2>5. spot[t] \in Spots
    BY <1>1 DEF Inv
  <2> QED BY <2>1, <2>3, <2>4, <2>5 DEF Spots, LockSpots, WaitingSpots
<1>5. /\ deps' = [deps EXCEPT ![t] = @ - 1]
      /\ deps[t] = 1 => pc'[w] \in Owning /\ cur'[w] = t
      /\ deps[t] # 1 => pc'[w] = "idle" /\ cur'[w] = None
      /\ pc' = [pc EXCEPT ![w] = pc'[w]] /\ cur' = [cur EXCEPT ![w] = cur'[w]]
  BY DEF Climb, Decrement, LastOne, Owning, TypeOK
<1>6. /\ deps'[t] = deps[t] - 1
      /\ \A x \in Tasks : x # t => deps'[x] = deps[x]
  BY <1>1, <1>5 DEF TypeOK
<1>7. TypeOK'
  <2>1. deps' \in [Tasks -> Nat]
    <3>1. deps[t] - 1 \in Nat
      BY <1>4
    <3> QED BY <1>5, <3>1 DEF TypeOK
  <2>2. /\ pc' \in [Workers -> PCs] /\ cur' \in [Workers -> Tasks \cup {None}]
        /\ \A u \in Workers : pc'[u] # "idle" => cur'[u] \in Tasks
    BY <1>1, <1>5 DEF TypeOK, Owning, PCs
  <2> QED BY <2>1, <2>2 DEF TypeOK, Climb, queues, hands, jobs
<1>8. spot2 \in [Tasks -> Spots] /\ at2 \in [Tasks -> Workers]
  BY <1>1 DEF Inv, Spots
<1>9. Located(spot2, at2)'
  <2>1. CASE deps[t] = 1
    BY <1>1, <1>4, <1>5, <2>1
       DEF Inv, Located, Climb, queues, hands, TypeOK, Running, Owning
  <2>2. CASE deps[t] # 1
    BY <1>1, <1>4, <1>5, <2>2, TaskGraphAssumption
       DEF Inv, Located, Climb, queues, hands, TypeOK, Running, Owning
  <2> QED BY <2>1, <2>2
<1>10. /\ \A x \in Tasks : Kids(spot2, x)' = Kids(spot, x)
       /\ \A x \in Tasks : x # t => Climbers(x)' = Climbers(x)
       /\ Climbers(t)' = Climbers(t) \ {w}
  BY <1>1, <1>4, <1>5 DEF Inv, Kids, Climbers, Climb, TypeOK, Owning
<1>11. Counted(spot2)'
  <2> SUFFICES ASSUME NEW x \in Tasks, spot2[x] # "free"
               PROVE  deps'[x] = Lock(spot2, x) + Cardinality(Kids(spot, x))
                                                + Cardinality(Climbers(x)')
    BY <1>10 DEF Counted, Lock
  <2>1. spot[x] # "free" /\ Lock(spot2, x) = Lock(spot, x)
    BY <1>4 DEF Inv, Lock, LockSpots, WaitingSpots
  <2>2. CASE x = t
    <3>1. Cardinality(Climbers(t) \ {w}) = Cardinality(Climbers(t)) - 1
      BY <1>1, <1>2, FS_RemoveElement
    <3>2. Cardinality(Climbers(x)') = Cardinality(Climbers(x)) - 1
      BY <1>10, <2>2, <3>1
    <3>3. deps[t] = Lock(spot2, x) + Cardinality(Kids(spot, x)) + Cardinality(Climbers(x))
      BY <1>3, <2>1, <2>2
    <3>4. Lock(spot2, x) \in {0, 1}
      BY <1>3, <2>1, <2>2
    <3>5. deps'[x] = deps[t] - 1
      BY <1>6, <2>2
    <3>6. Cardinality(Kids(spot, x)) \in Nat /\ Cardinality(Climbers(x)) \in Nat
      BY <1>2, <2>2
    <3> HIDE DEF spot2
    <3> QED BY <3>2, <3>3, <3>4, <3>5, <3>6
  <2>3. CASE x # t
    <3>1. deps'[x] = deps[x] /\ Climbers(x)' = Climbers(x)
      BY <1>6, <1>10, <2>3
    <3>2. deps[x] = Lock(spot, x) + Cardinality(Kids(spot, x)) + Cardinality(Climbers(x))
      BY <2>1 DEF Inv, Counted
    <3> HIDE DEF spot2
    <3> QED BY <2>1, <3>1, <3>2
  <2> QED BY <2>2, <2>3
<1>12. Waits(spot2)'
  <2>1. deps[t] = 1 => deps'[t] = 0
    BY <1>6
  <2>2. deps[t] # 1 => deps'[t] # 0
    BY <1>4, <1>6
  <2> QED BY <1>1, <1>4, <1>6, <2>1, <2>2 DEF Inv, Waits, WaitingSpots
<1>13. Handed'
  BY <1>1, <1>5 DEF Inv, Handed, Climb, hands, TypeOK
<1>14. Tree(spot2)' /\ Works(spot2)'
  BY <1>1, <1>4, <1>5 DEF Inv, Tree, Works, WaitingSpots, Owning, Climb, TypeOK
<1> QED BY <1>7, <1>8, <1>9, <1>11, <1>12, <1>13, <1>14 DEF IInv, Inv

LEMMA InitInv == Init => IInv
<1> SUFFICES ASSUME Init PROVE IInv
  OBVIOUS
<1> PICK spot : spot = [t \in Tasks |-> "free"]
  OBVIOUS
<1> PICK at : at = [t \in Tasks |-> 0]
  OBVIOUS
<1>1. TypeOK
  BY TaskGraphAssumption, WorkersFact DEF Init, TypeOK, PCs
<1>2. spot \in [Tasks -> Spots] /\ at \in [Tasks -> Workers]
  BY WorkersFact DEF Spots
<1>3. Located(spot, at)
  BY DEF Init, Located, Running, Owning
<1>4. Counted(spot) /\ Waits(spot) /\ Handed /\ Tree(spot) /\ Works(spot)
  BY DEF Init, Counted, Waits, WaitingSpots, Handed, Tree, Works
<1> QED BY <1>1, <1>2, <1>3, <1>4 DEF IInv, Inv

LEMMA StutterInv ==
  ASSUME NEW spot, NEW at, TypeOK, Inv(spot, at), UNCHANGED vars
  PROVE  IInv'
<1>1. TypeOK'
  BY DEF TypeOK, vars
<1>2. \A x \in Tasks : Kids(spot, x)' = Kids(spot, x) /\ Climbers(x)' = Climbers(x)
  BY DEF Kids, Climbers, vars
<1>3. Located(spot, at)' /\ Counted(spot)' /\ Waits(spot)'
  BY <1>2 DEF Inv, Located, Counted, Waits, Lock, vars
<1>4. Handed' /\ Tree(spot)' /\ Works(spot)'
  BY DEF Inv, Handed, Tree, Works, vars
<1> QED BY <1>1, <1>3, <1>4 DEF IInv, Inv

LEMMA StepInv == IInv /\ [Next]_vars => IInv'
<1> SUFFICES ASSUME IInv, [Next]_vars PROVE IInv'
  OBVIOUS
<1> PICK spot, at : Inv(spot, at)
  BY DEF IInv
<1>1. TypeOK
  BY DEF IInv
<1>2. CASE Submit
  BY <1>1, <1>2, SubmitAcceptedInv, SubmitRejectedInv DEF Submit
<1>3. ASSUME NEW w \in Workers, Work(w) PROVE IInv'
  <2>1. ASSUME NEW t \in Tasks, PopDeque(w, t) PROVE IInv'
    BY <1>1, <2>1, PopDequeInv
  <2>2. ASSUME NEW t \in Tasks, PopRing(w, t) PROVE IInv'
    BY <1>1, <2>2, PopRingInv
  <2>3. ASSUME NEW t \in Tasks, ReleaseRejected(w, t) PROVE IInv'
    BY <1>1, <2>3, ReleaseRejectedInv
  <2>4. CASE SetContinuation(w)
    BY <1>1, <2>4, SetContinuationInv
  <2>5. ASSUME NEW K \in SUBSET free, Spawn(w, K) PROVE IInv'
    BY <1>1, <2>5, SpawnInv
  <2>6. ASSUME NEW A \in SUBSET staged[w], PushBatch(w, A) PROVE IInv'
    BY <1>1, <2>6, PushBatchInv
  <2>7. CASE Rollback(w)
    BY <1>1, <2>7, RollbackInv
  <2>8. CASE Return(w)
    BY <1>1, <2>8, ReturnInv
  <2>9. CASE RunContinuation(w)
    BY <1>1, <2>9, RunContinuationInv
  <2>10. CASE Retire(w)
    BY <1>1, <2>10, RetireInv
  <2>11. CASE Climb(w)
    BY <1>1, <2>11, ClimbInv
  <2>12. CASE Requeue(w)
    BY <1>1, <2>12, RequeueInv
  <2>13. CASE RunInline(w)
    BY <1>1, <2>13, RunInlineInv
  <2>14. CASE FinishJob(w)
    BY <1>1, <2>14, FinishJobInv
  <2> QED BY <1>3, <2>1, <2>2, <2>3, <2>4, <2>5, <2>6, <2>7, <2>8, <2>9, <2>10,
             <2>11, <2>12, <2>13, <2>14 DEF Work
<1>4. ASSUME NEW w \in Workers, NEW v \in Workers, NEW t \in Tasks, Steal(w, v, t)
      PROVE  IInv'
  BY <1>1, <1>4, StealInv
<1>5. CASE UNCHANGED vars
  BY <1>1, <1>5, StutterInv
<1> QED BY <1>2, <1>3, <1>4, <1>5 DEF Next

\* The inductive invariant holds in every state of every behaviour: each task
\* has one place, and the counters of worker_main_loop can be read off it.
THEOREM Invariance == Spec => []IInv
<1>1. Init => IInv
  BY InitInv
<1>2. IInv /\ [Next]_vars => IInv'
  BY StepInv
<1> QED BY <1>1, <1>2, PTL DEF Spec

-----------------------------------------------------------------------------
(* What follows from the invariant.                                         *)

\* The places of the properties are the spots a task can be found at.
LEMMA HeldBySpot ==
  ASSUME NEW spot, NEW at, TypeOK, Inv(spot, at)
  PROVE  /\ Places = Spots \ {"free", "suspended"}
         /\ \A t \in Tasks, p \in Places, w \in Workers :
              t \in Held[p][w] <=> spot[t] = p /\ at[t] = w
<1>1. Places = Spots \ {"free", "suspended"}
  BY DEF Places, Held, Spots
<1>2. ASSUME NEW t \in Tasks, NEW w \in Workers
      PROVE  /\ t \in Held["deque"][w] <=> spot[t] = "deque" /\ at[t] = w
             /\ t \in Held["ring"][w] <=> spot[t] = "ring" /\ at[t] = w
             /\ t \in Held["staged"][w] <=> spot[t] = "staged" /\ at[t] = w
             /\ t \in Held["bounced"][w] <=> spot[t] = "bounced" /\ at[t] = w
             /\ t \in Held["rejected"][w] <=> spot[t] = "rejected" /\ at[t] = w
             /\ t \in Held["running"][w] <=> spot[t] = "running" /\ at[t] = w
             /\ t \in Held["owned"][w] <=> spot[t] = "owned" /\ at[t] = w
  BY DEF Held, Inv, Located
<1> QED BY <1>1, <1>2 DEF Spots

LEMMA InvDepsExact == IInv => DepsExact
<1> SUFFICES ASSUME TypeOK, NEW spot, NEW at, Inv(spot, at), NEW t \in Live
             PROVE  deps[t] = (IF VirtualLock(t) THEN 1 ELSE 0)
                              + Cardinality(CountedChildren(t))
                              + Cardinality(Climbers(t))
  BY DEF IInv, DepsExact
<1>1. t \in Tasks /\ spot[t] # "free" /\ spot[t] \in Spots /\ at[t] \in Workers
  BY DEF Live, Inv, Located
<1>2. VirtualLock(t) <=> spot[t] \in LockSpots
  BY <1>1, HeldBySpot DEF VirtualLock, Spots, LockSpots, WaitingSpots
<1>3. CountedChildren(t) = Kids(spot, t)
  BY DEF CountedChildren, Children, Kids, Live, Inv, Located
<1> QED BY <1>1, <1>2, <1>3 DEF Inv, Counted, Lock

LEMMA InvOneHolder == IInv => OneHolder
<1> SUFFICES ASSUME TypeOK, NEW spot, NEW at, Inv(spot, at), NEW t \in Tasks,
                    NEW holders,
                    holders = {h \in Places \X Workers : t \in Held[h[1]][h[2]]}
             PROVE  IF t \in free THEN holders = {} /\ Climbers(t) = {}
                    ELSE \/ Cardinality(holders) = 1
                         \/ holders = {} /\ Children(t) \cup Climbers(t) # {}
  BY DEF IInv, OneHolder
<1>1. holders = {h \in Places \X Workers : spot[t] = h[1] /\ at[t] = h[2]}
  BY HeldBySpot
<1>2. Places = Spots \ {"free", "suspended"} /\ spot[t] \in Spots /\ at[t] \in Workers
  BY HeldBySpot DEF Inv
<1>3. t \in free <=> spot[t] = "free"
  BY DEF Inv, Located
<1>4. CASE spot[t] = "free"
  BY <1>1, <1>2, <1>3, <1>4, FreeAlone
<1>5. CASE spot[t] = "suspended"
  <2>1. deps[t] # 0 /\ deps[t] = Cardinality(Kids(spot, t)) + Cardinality(Climbers(t))
    <3>1. Lock(spot, t) = 0
      BY <1>5 DEF Lock, LockSpots, WaitingSpots
    <3>2. Cardinality(Kids(spot, t)) \in Nat /\ Cardinality(Climbers(t)) \in Nat
      BY FiniteFacts
    <3> QED BY <1>5, <3>1, <3>2 DEF Inv, Waits, Counted
  <2>2. ~(Kids(spot, t) = {} /\ Climbers(t) = {})
    <3>1. Cardinality({}) = 0
      BY FS_EmptySet
    <3> QED BY <2>1, <3>1
  <2>3. Kids(spot, t) \subseteq Children(t)
    BY DEF Kids, Children, Live, Inv, Located
  <2>4. holders = {}
    BY <1>1, <1>2, <1>5
  <2> QED BY <1>3, <1>5, <2>2, <2>3, <2>4
<1>6. CASE spot[t] \in Places
  <2>1. holders = {<<spot[t], at[t]>>}
    BY <1>1, <1>2, <1>6
  <2>2. Cardinality(holders) = 1
    BY <2>1, FS_Singleton
  <2> QED BY <1>2, <1>3, <1>6, <2>2
<1> QED BY <1>2, <1>4, <1>5, <1>6

LEMMA InvParentLive == IInv => ParentLive
  BY DEF IInv, Inv, ParentLive, Live, Tree, Located, TypeOK

LEMMA InvCallable == IInv => Callable
  BY DEF IInv, Inv, Callable, Works, WaitingSpots, Located, TypeOK

\* What the threads and queues hold has always the type the code gives it, and
\* a worker past the search for a task has a task.
THEOREM TypeCorrect == Spec => []TypeOK
<1>1. IInv => TypeOK
  BY DEF IInv
<1> QED BY <1>1, Invariance, PTL

\* unfinished_dependencies counts exactly the virtual lock, the children and
\* the finished children still on their way up.
THEOREM CountersExact == Spec => []DepsExact
  BY InvDepsExact, Invariance, PTL

\* A live task has one holder, or waits for a child; a pooled one has none.
THEOREM HeldOnce == Spec => []OneHolder
  BY InvOneHolder, Invariance, PTL

\* No parent pointer dangles: parents are recycled after their children.
THEOREM ParentsLive == Spec => []ParentLive
  BY InvParentLive, Invariance, PTL

\* No worker ever takes a task without function out of a queue.
THEOREM QueuedCallable == Spec => []Callable
  BY InvCallable, Invariance, PTL

-----------------------------------------------------------------------------
(* The steps that take a continuation out of its task.                      *)

LEMMA StepContinuationLast ==
  ASSUME IInv, Next, NEW t \in Tasks, fn[t] = "cont", fn'[t] = None
  PROVE  Children(t) = {}
<1> PICK spot, at : Inv(spot, at)
  BY DEF IInv
<1>1. TypeOK
  BY DEF IInv
<1>2. spot[t] # "running" /\ spot[t] # "free" /\ Kids(spot, t) = {} => Children(t) = {}
  BY <1>1, Childless DEF Inv, Children, Live, Located
<1>3. ASSUME NEW w \in Workers, Begin(w, t),
             t \in deque[w] \cup ring[w] \/ \E v \in Workers : t \in deque[v] \cup ring[v]
      PROVE  Children(t) = {}
  <2>1. spot[t] \in {"deque", "ring"}
    BY <1>3 DEF Inv, Located
  <2>2. deps[t] = 1 /\ spot[t] \in LockSpots
    BY <2>1 DEF Inv, Waits, WaitingSpots, LockSpots
  <2> QED BY <1>1, <1>2, <2>1, <2>2, Alone
<1>4. ASSUME NEW w \in Workers, NEW x \in Tasks, Begin(w, x)
      PROVE  x = t
  BY <1>1, <1>4, TaskGraphAssumption DEF Begin, TypeOK, Fns
<1>5. CASE Submit
  BY <1>1, <1>5, TaskGraphAssumption
     DEF Submit, SubmitAccepted, SubmitRejected, TypeOK, taskFields, Fns
<1>6. ASSUME NEW w \in Workers, Work(w) PROVE Children(t) = {}
  <2>1. ASSUME NEW x \in Tasks, PopDeque(w, x) \/ PopRing(w, x) PROVE Children(t) = {}
    <3>1. x = t
      BY <1>4, <2>1 DEF PopDeque, PopRing
    <3> QED BY <1>3, <2>1, <3>1 DEF PopDeque, PopRing
  <2>2. ASSUME pc[w] \in Owning, fn' = [fn EXCEPT ![cur[w]] = None]
        PROVE  Children(t) = {}
    <3>1. t = cur[w]
      BY <1>1, <2>2, TaskGraphAssumption DEF TypeOK, Fns
    <3>2. spot[t] = "owned" /\ Kids(spot, t) = {}
      BY <1>1, <2>2, <3>1, OwnedFacts
    <3> QED BY <1>2, <3>2
  <2>3. CASE SetContinuation(w)
    BY <1>1, <2>3, TaskGraphAssumption DEF SetContinuation, TypeOK, Fns
  <2>4. ASSUME NEW K \in SUBSET free, Spawn(w, K) PROVE Children(t) = {}
    BY <1>1, <2>4, TaskGraphAssumption DEF Spawn, TypeOK, Fns
  <2>5. ASSUME fn' = fn PROVE Children(t) = {}
    BY <2>5, TaskGraphAssumption DEF Fns
  <2>6. RunContinuation(w) \/ RunInline(w) => Children(t) = {}
    BY <2>2 DEF RunContinuation, RunInline, Owning
  <2>7. /\ \A x \in Tasks : ReleaseRejected(w, x) => fn' = fn
        /\ \A A \in SUBSET staged[w] : PushBatch(w, A) => fn' = fn
        /\ Rollback(w) \/ Return(w) \/ Retire(w) \/ Climb(w) \/ Requeue(w)
             \/ FinishJob(w) => fn' = fn
    BY DEF ReleaseRejected, PushBatch, Rollback, Return, Retire, Climb, Requeue,
           FinishJob, taskFields
  <2> QED BY <1>6, <2>1, <2>3, <2>4, <2>5, <2>6, <2>7 DEF Work
<1>7. ASSUME NEW w \in Workers, NEW v \in Workers, NEW x \in Tasks, Steal(w, v, x)
      PROVE  Children(t) = {}
  <2>1. x = t
    BY <1>4, <1>7 DEF Steal
  <2> QED BY <1>3, <1>7, <2>1 DEF Steal
<1> QED BY <1>5, <1>6, <1>7 DEF Next

\* A continuation is taken, by either path of worker_main_loop, only when its
\* task has no child left.
THEOREM ContinuationsLast == Spec => ContinuationLast
<1>1. IInv /\ [Next]_vars =>
        [\A t \in Tasks : fn[t] = "cont" /\ fn'[t] = None => Children(t) = {}]_vars
  BY StepContinuationLast DEF vars
<1> QED BY <1>1, Invariance, PTL DEF Spec, ContinuationLast
=============================================================================
