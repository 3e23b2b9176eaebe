------------------------------ MODULE JobProofs ------------------------------
(***************************************************************************)
(* Jobs and their roots, for every number of workers, tasks and jobs: a    *)
(* job is reported done only when its root is the last task it has.        *)
(*                                                                         *)
(* The argument climbs from a task to the root of its job.  It ends        *)
(* because some rank grows from every parent to its children: a child is   *)
(* created below a task that exists, and has no children of its own then.  *)
(***************************************************************************)
EXTENDS TaskGraphProofs, WellFoundedInduction

Root(t) == parent[t] = None

\* Tasks and their jobs.
Ranked(rank) ==
  \A t \in Live : ~Root(t) => rank[parent[t]] < rank[t]

Families ==
  /\ \A t \in Live : jobOf[t] \in submitted
  /\ \A t \in Live : ~Root(t) => jobOf[parent[t]] = jobOf[t]
  /\ \A t, u \in Live : Root(t) /\ Root(u) /\ jobOf[t] = jobOf[u] => t = u
  /\ \E rank \in [Tasks -> Nat] : Ranked(rank)
  /\ done \subseteq submitted
  /\ NoEarlyCompletion

\* The root of a job is never queued; the only function it ever has is the hook,
\* and no task is left below it when the hook runs.
RootsApart ==
  /\ \A t \in Live : Root(t) => fn[t] \in {"hook", None}
  /\ \A t \in Live : ~Root(t) => fn[t] # "hook"
  /\ \A w \in Workers : \A t \in deque[w] \cup ring[w] : ~Root(t)
  /\ \A w \in Workers : pc[w] \in {"run", "runUp", "owned"} => ~Root(cur[w])
  /\ \A w \in Workers : pc[w] \in {"hook", "hooked"} =>
       Root(cur[w]) /\ \A c \in Live : parent[c] # cur[w]

JInv == IInv /\ Families /\ RootsApart

-----------------------------------------------------------------------------
\* What the dependency protocol guarantees, without the places of the tasks.
LEMMA ProtocolFacts ==
  ASSUME IInv
  PROVE  /\ TypeOK
         /\ Live \subseteq Tasks
         /\ \A w \in Workers : pc[w] \in Running \cup Owning => cur[w] \in Live
         /\ \A w \in Workers : deque[w] \cup ring[w] \cup rejected[w] \subseteq Live
         /\ \A w \in Workers : \A c \in staged[w] \cup rejected[w] :
              pc[w] \in {"run", "runUp"} /\ parent[c] = cur[w]
         /\ \A w \in Workers : pc[w] \in Owning => \A c \in Live : parent[c] # cur[w]
         /\ \A t \in Live : ~Root(t) => parent[t] \in Live /\ parent[t] # t
<1> PICK spot, at : Inv(spot, at)
  BY DEF IInv
<1>1. TypeOK /\ Live \subseteq Tasks
  BY DEF IInv, Live
<1>2. \A t \in Tasks : t \in Live <=> spot[t] # "free"
  BY DEF Inv, Located, Live
<1>3. \A w \in Workers : pc[w] \in Running \cup Owning => cur[w] \in Live
  BY <1>1, <1>2 DEF Inv, Located, TypeOK, Running, Owning
<1>4. \A w \in Workers : deque[w] \cup ring[w] \cup rejected[w] \subseteq Live
  BY <1>1, <1>2 DEF Inv, Located, TypeOK
<1>5. \A w \in Workers : \A c \in staged[w] \cup rejected[w] :
        pc[w] \in {"run", "runUp"} /\ parent[c] = cur[w]
  BY DEF Inv, Handed
<1>6. \A w \in Workers : pc[w] \in Owning => \A c \in Live : parent[c] # cur[w]
  BY <1>1, <1>2, OwnedFacts DEF Live
<1>7. \A t \in Live : ~Root(t) => parent[t] \in Live /\ parent[t] # t
  BY <1>1, <1>2 DEF Inv, Tree, Root, Live
<1> QED BY <1>1, <1>3, <1>4, <1>5, <1>6, <1>7

\* The families only depend on these variables.
LEMMA FamiliesKept ==
  ASSUME Families, UNCHANGED <<free, parent, jobOf, submitted, done>>
  PROVE  Families'
<1> PICK rank \in [Tasks -> Nat] : Ranked(rank)
  BY DEF Families
<1>1. Ranked(rank)'
  BY DEF Ranked, Live, Root
<1> QED BY <1>1 DEF Families, Live, Root, NoEarlyCompletion

\* What a step that leaves parents alone has to show.
RootsStep ==
  /\ parent' = parent /\ Live' \subseteq Live
  /\ \A t \in Live : \/ fn'[t] \in {fn[t], None}
                     \/ ~Root(t) /\ fn'[t] # "hook"
  /\ \A u \in Workers : \A t \in deque'[u] \cup ring'[u] : ~Root(t)
  /\ \A u \in Workers : pc'[u] \in {"run", "runUp", "owned"} => ~Root(cur'[u])
  /\ \A u \in Workers : pc'[u] \in {"hook", "hooked"} =>
       Root(cur'[u]) /\ \A c \in Live : parent[c] # cur'[u]

LEMMA RootsKept == RootsApart /\ RootsStep => RootsApart'
<1> SUFFICES ASSUME RootsApart, RootsStep PROVE RootsApart'
  OBVIOUS
<1>1. \A t : Root(t)' <=> Root(t)
  BY DEF Root, RootsStep
<1>2. "hook" # None
  BY TaskGraphAssumption DEF Fns
<1>3. /\ \A t \in Live' : Root(t) => fn'[t] \in {"hook", None}
      /\ \A t \in Live' : ~Root(t) => fn'[t] # "hook"
  BY <1>2 DEF RootsApart, RootsStep
<1> QED BY <1>1, <1>3 DEF RootsApart, RootsStep, Root

\* Taking a task out of a queue.
LEMMA BeginJobs ==
  ASSUME JInv, NEW w \in Workers, NEW v \in Workers, NEW t \in deque[v] \cup ring[v],
         Begin(w, t),
         \A u \in Workers : deque'[u] \cup ring'[u] \subseteq deque[u] \cup ring[u]
  PROVE  Families' /\ RootsApart'
<1>1. Families'
  BY FamiliesKept DEF JInv, Begin, jobs
<1>2. t \in Live /\ ~Root(t) /\ Live \subseteq Tasks
  BY ProtocolFacts DEF JInv, RootsApart
<1>3. RootsApart'
  <2>1. parent' = parent /\ Live' = Live
    BY DEF Begin, Live
  <2>2. \A x \in Live : fn'[x] \in {fn[x], None}
    BY <1>2, ProtocolFacts DEF JInv, Begin, TypeOK
  <2>3. \A u \in Workers : \A x \in deque'[u] \cup ring'[u] : ~Root(x)
    BY DEF JInv, RootsApart
  <2>4. /\ pc'[w] = "run" /\ cur'[w] = t
        /\ \A u \in Workers \ {w} : pc'[u] = pc[u] /\ cur'[u] = cur[u]
    BY ProtocolFacts DEF JInv, Begin, TypeOK
  <2>5. /\ \A u \in Workers : pc'[u] \in {"run", "runUp", "owned"} => ~Root(cur'[u])
        /\ \A u \in Workers : pc'[u] \in {"hook", "hooked"} =>
             Root(cur'[u]) /\ \A c \in Live : parent[c] # cur'[u]
    BY <1>2, <2>4 DEF JInv, RootsApart
  <2>9. RootsStep
    BY <2>1, <2>2, <2>3, <2>5 DEF RootsStep, JInv
  <2> QED BY <2>9, RootsKept DEF JInv
<1> QED BY <1>1, <1>3

LEMMA SetContinuationJobs ==
  ASSUME JInv, NEW w \in Workers, SetContinuation(w)
  PROVE  Families' /\ RootsApart'
<1>1. Families'
  BY FamiliesKept DEF JInv, SetContinuation, jobs
<1>2. cur[w] \in Live /\ ~Root(cur[w]) /\ Live \subseteq Tasks
  BY ProtocolFacts DEF JInv, RootsApart, SetContinuation, InFunction, Running
<1>3. RootsApart'
  <2>1. /\ parent' = parent /\ Live' = Live
        /\ UNCHANGED <<deque, ring, pc, cur>>
    BY DEF SetContinuation, Live, queues
  <2>2. \A x \in Live : fn'[x] = fn[x] \/ (~Root(x) /\ fn'[x] # "hook")
    BY <1>2, ProtocolFacts DEF JInv, SetContinuation, TypeOK
  <2>9. RootsStep
    BY <2>1, <2>2 DEF RootsStep, JInv, RootsApart
  <2> QED BY <2>9, RootsKept DEF JInv
<1> QED BY <1>1, <1>3

LEMMA PushBatchJobs ==
  ASSUME JInv, NEW w \in Workers, NEW A \in SUBSET staged[w], PushBatch(w, A)
  PROVE  Families' /\ RootsApart'
<1>1. Families'
  BY FamiliesKept DEF JInv, PushBatch, taskFields, jobs
<1>2. \A c \in A : parent[c] = cur[w] /\ cur[w] \in Live /\ Live \subseteq Tasks
  BY ProtocolFacts DEF JInv, Running
<1>3. \A c \in A : ~Root(c)
  BY <1>2, TaskGraphAssumption DEF Root
<1>4. RootsApart'
  <2>1. /\ parent' = parent /\ Live' = Live
        /\ UNCHANGED <<fn, ring, pc, cur>>
    BY DEF PushBatch, Live, taskFields
  <2>2. \A u \in Workers : deque'[u] \subseteq deque[u] \cup A
    BY ProtocolFacts DEF JInv, PushBatch, TypeOK
  <2>3. \A u \in Workers : \A x \in deque'[u] \cup ring'[u] : ~Root(x)
    BY <1>3, <2>1, <2>2 DEF JInv, RootsApart
  <2>9. RootsStep
    BY <2>1, <2>3 DEF RootsStep, JInv, RootsApart
  <2> QED BY <2>9, RootsKept DEF JInv
<1> QED BY <1>1, <1>4

LEMMA RunContinuationJobs ==
  ASSUME JInv, NEW w \in Workers, RunContinuation(w)
  PROVE  Families' /\ RootsApart'
<1>1. Families'
  BY FamiliesKept DEF JInv, RunContinuation, jobs
<1>2. RootsApart'
  <2>1. /\ parent' = parent /\ Live' = Live
        /\ UNCHANGED <<deque, ring, cur>>
    BY DEF RunContinuation, Live, queues
  <2>2. \A x \in Live : fn'[x] \in {fn[x], None}
    BY ProtocolFacts DEF JInv, RunContinuation, TypeOK
  <2>3. /\ pc[w] = "owned" /\ pc'[w] = "run"
        /\ \A u \in Workers \ {w} : pc'[u] = pc[u]
    BY ProtocolFacts DEF JInv, RunContinuation, TypeOK
  <2>9. RootsStep
    BY <2>1, <2>2, <2>3 DEF RootsStep, JInv, RootsApart
  <2> QED BY <2>9, RootsKept DEF JInv
<1> QED BY <1>1, <1>2

LEMMA RequeueJobs ==
  ASSUME JInv, NEW w \in Workers, Requeue(w)
  PROVE  Families' /\ RootsApart'
<1>1. Families'
  BY FamiliesKept DEF JInv, Requeue, jobs
<1>2. RootsApart'
  <2>1. /\ parent' = parent /\ Live' = Live
        /\ UNCHANGED <<fn, ring>>
    BY DEF Requeue, Live
  <2>2. \A u \in Workers : deque'[u] \subseteq deque[u] \cup {cur[w]}
    BY ProtocolFacts DEF JInv, Requeue, TypeOK
  <2>3. \A u \in Workers : \A x \in deque'[u] \cup ring'[u] : ~Root(x)
    BY <2>1, <2>2 DEF JInv, RootsApart, Requeue, Root
  <2>4. /\ pc'[w] = "idle"
        /\ \A u \in Workers \ {w} : pc'[u] = pc[u] /\ cur'[u] = cur[u]
    BY ProtocolFacts DEF JInv, Requeue, TypeOK
  <2>5. /\ \A u \in Workers : pc'[u] \in {"run", "runUp", "owned"} => ~Root(cur'[u])
        /\ \A u \in Workers : pc'[u] \in {"hook", "hooked"} =>
             Root(cur'[u]) /\ \A c \in Live : parent[c] # cur'[u]
    BY <2>4 DEF JInv, RootsApart
  <2>9. RootsStep
    BY <2>1, <2>3, <2>5 DEF RootsStep, JInv
  <2> QED BY <2>9, RootsKept DEF JInv
<1> QED BY <1>1, <1>2

\* A continuation runs in the climb; the hook of a root only when the root has no
\* task below it any more.
LEMMA RunInlineJobs ==
  ASSUME JInv, NEW w \in Workers, RunInline(w)
  PROVE  Families' /\ RootsApart'
<1>1. Families'
  BY FamiliesKept DEF JInv, RunInline, jobs
<1>2. /\ cur[w] \in Live /\ Live \subseteq Tasks
      /\ \A c \in Live : parent[c] # cur[w]
  BY ProtocolFacts DEF JInv, RunInline, Owning
<1>3. \/ pc'[w] = "hook" /\ Root(cur[w])
      \/ pc'[w] = "runUp" /\ ~Root(cur[w])
  <2>1. /\ fn[cur[w]] # None
        /\ pc'[w] = IF fn[cur[w]] = "hook" THEN "hook" ELSE "runUp"
    BY ProtocolFacts DEF JInv, RunInline, HasFunction, TypeOK
  <2> QED BY <1>2, <2>1 DEF JInv, RootsApart
<1>4. RootsApart'
  <2>1. /\ parent' = parent /\ Live' = Live
        /\ UNCHANGED <<deque, ring, cur>>
    BY DEF RunInline, Live, queues
  <2>2. \A x \in Live : fn'[x] \in {fn[x], None}
    BY ProtocolFacts DEF JInv, RunInline, TypeOK
  <2>3. \A u \in Workers \ {w} : pc'[u] = pc[u]
    BY ProtocolFacts DEF JInv, RunInline, TypeOK
  <2>4. /\ \A u \in Workers : pc'[u] \in {"run", "runUp", "owned"} => ~Root(cur'[u])
        /\ \A u \in Workers : pc'[u] \in {"hook", "hooked"} =>
             Root(cur'[u]) /\ \A c \in Live : parent[c] # cur'[u]
    BY <1>2, <1>3, <2>1, <2>3 DEF JInv, RootsApart
  <2>9. RootsStep
    BY <2>1, <2>2, <2>4 DEF RootsStep, JInv, RootsApart
  <2> QED BY <2>9, RootsKept DEF JInv
<1> QED BY <1>1, <1>4

\* Steps that only move a worker.
LEMMA MoveJobs ==
  ASSUME JInv, NEW w \in Workers, Rollback(w) \/ Return(w) \/ Climb(w)
  PROVE  Families' /\ RootsApart'
<1>1. Families'
  BY FamiliesKept DEF JInv, Rollback, Return, Climb, jobs
<1>2. UNCHANGED <<free, fn, parent, deque, ring>>
  BY DEF Rollback, Return, Climb, queues
<1>3. \A u \in Workers : pc'[u] \in {"run", "runUp", "owned", "hook", "hooked"} =>
        /\ cur'[u] = cur[u]
        /\ pc'[u] = pc[u] \/ (pc'[u] = "owned" /\ pc[u] = "run")
  BY ProtocolFacts DEF JInv, Rollback, Return, Climb, Decrement, InFunction, TypeOK
<1>4. RootsApart'
  <2>1. \A t : Root(t)' <=> Root(t)
    BY <1>2 DEF Root
  <2>2. Live' = Live
    BY <1>2 DEF Live
  <2> QED BY <1>2, <1>3, <2>1, <2>2 DEF JInv, RootsApart, Root
<1> QED BY <1>1, <1>4

\* Steps that give a task back.
LEMMA RecycleJobs ==
  ASSUME JInv, NEW w \in Workers, Retire(w) \/ \E t \in Tasks : ReleaseRejected(w, t)
  PROVE  Families' /\ RootsApart'
<1>1. /\ UNCHANGED <<fn, parent, jobOf, deque, ring, submitted, done>>
      /\ Live' \subseteq Live
  BY DEF Retire, ReleaseRejected, taskFields, queues, jobs, Live
<1>2. \A u \in Workers : pc'[u] \in {"run", "runUp", "owned", "hook", "hooked"} =>
        cur'[u] = cur[u] /\ pc'[u] = pc[u]
  BY ProtocolFacts DEF JInv, Retire, ReleaseRejected, TypeOK
<1>3. Families'
  <2> PICK rank \in [Tasks -> Nat] : Ranked(rank)
    BY DEF JInv, Families
  <2>1. Ranked(rank)'
    BY <1>1 DEF Ranked, Root
  <2> QED BY <1>1, <2>1 DEF JInv, Families, Root, NoEarlyCompletion
<1>4. RootsApart'
  BY <1>1, <1>2 DEF JInv, RootsApart, Root
<1> QED BY <1>3, <1>4

-----------------------------------------------------------------------------
(* The steps that create tasks or report a job.                             *)

LEMMA LeastNatural ==
  ASSUME NEW R, R \subseteq Nat, R # {}
  PROVE  \E m \in R : \A n \in R : ~(n < m)
<1>1. \E m \in R : \A n \in R : <<n, m>> \notin OpToRel(<, Nat)
  BY NatLessThanWellFounded, WFMin
<1>2. \A n, m \in Nat : <<n, m>> \in OpToRel(<, Nat) <=> n < m
  BY DEF OpToRel
<1> QED BY <1>1, <1>2

\* Going up from a task one reaches the root of its job, so below a root without
\* children the job has no task.
LEMMA RootCovers ==
  ASSUME JInv, NEW r \in Live, Root(r), \A c \in Live : parent[c] # r
  PROVE  \A t \in Live : jobOf[t] = jobOf[r] => Root(t)
<1> DEFINE S == {t \in Live : jobOf[t] = jobOf[r] /\ ~Root(t)}
<1> SUFFICES ASSUME S # {} PROVE FALSE
  OBVIOUS
<1> PICK rank \in [Tasks -> Nat] : Ranked(rank)
  BY DEF JInv, Families
<1> DEFINE R == {rank[t] : t \in S}
<1>0. S \subseteq Live /\ Live \subseteq Tasks
  BY DEF Live
<1>1. R \subseteq Nat /\ R # {}
  BY <1>0
<1>2. PICK m \in R : \A n \in R : ~(n < m)
  <2> HIDE DEF R
  <2> QED BY <1>1, LeastNatural
<1>3. PICK t \in S : m = rank[t]
  OBVIOUS
<1>4. parent[t] \in Live /\ parent[t] # r
  BY ProtocolFacts DEF JInv
<1>5. jobOf[parent[t]] = jobOf[r] /\ rank[parent[t]] < rank[t]
  BY DEF JInv, Families, Ranked
<1>6. ~Root(parent[t])
  BY <1>4, <1>5 DEF JInv, Families
<1>7. parent[t] \in S
  BY <1>4, <1>5, <1>6
<1> QED BY <1>2, <1>3, <1>5, <1>7

LEMMA FinishJobJobs ==
  ASSUME JInv, NEW w \in Workers, FinishJob(w)
  PROVE  Families' /\ RootsApart'
<1>1. /\ cur[w] \in Live /\ Root(cur[w]) /\ \A c \in Live : parent[c] # cur[w]
  BY ProtocolFacts DEF JInv, RootsApart, FinishJob, Running
<1>2. \A t \in Live : jobOf[t] = jobOf[cur[w]] => Root(t)
  BY <1>1, RootCovers
<1>3. /\ UNCHANGED <<free, fn, parent, jobOf, deque, ring, cur, submitted>>
      /\ done' = done \cup {jobOf[cur[w]]}
  BY DEF FinishJob, taskFields, queues
<1>4. Families'
  <2> PICK rank \in [Tasks -> Nat] : Ranked(rank)
    BY DEF JInv, Families
  <2>1. Ranked(rank)'
    BY <1>3 DEF Ranked, Live, Root
  <2>2. NoEarlyCompletion'
    BY <1>2, <1>3 DEF JInv, Families, NoEarlyCompletion, Live, Root
  <2>3. done' \subseteq submitted'
    BY <1>1, <1>3 DEF JInv, Families
  <2>4. /\ \A t \in Live : jobOf[t] \in submitted
        /\ \A t \in Live : ~Root(t) => jobOf[parent[t]] = jobOf[t]
        /\ \A t, u \in Live : Root(t) /\ Root(u) /\ jobOf[t] = jobOf[u] => t = u
    BY DEF JInv, Families
  <2> QED BY <1>3, <2>1, <2>2, <2>3, <2>4 DEF Families, Live, Root
<1>5. RootsApart'
  <2>1. /\ pc[w] = "hook" /\ pc'[w] = "hooked"
        /\ \A u \in Workers \ {w} : pc'[u] = pc[u]
    BY ProtocolFacts DEF JInv, FinishJob, TypeOK
  <2>2. /\ \A u \in Workers : pc'[u] \in {"run", "runUp", "owned"} => ~Root(cur[u])
        /\ \A u \in Workers : pc'[u] \in {"hook", "hooked"} =>
             Root(cur[u]) /\ \A c \in Live : parent[c] # cur[u]
    BY <2>1 DEF JInv, RootsApart
  <2>3. RootsStep
    BY <1>3, <2>2 DEF RootsStep, JInv, RootsApart, Live
  <2> QED BY <2>3, RootsKept DEF JInv
<1> QED BY <1>4, <1>5

LEMMA SubmitRejectedJobs ==
  ASSUME JInv, NEW j \in Jobs, SubmitRejected(j)
  PROVE  Families' /\ RootsApart'
<1>1. Families'
  BY FamiliesKept DEF JInv, SubmitRejected, taskFields, jobs
<1>2. RootsApart'
  BY DEF JInv, RootsApart, SubmitRejected, taskFields, Live, Root
<1> QED BY <1>1, <1>2

\* The children of a batch join the family of the worker's task, one rank below.
LEMMA SpawnJobs ==
  ASSUME JInv, NEW w \in Workers, NEW K \in SUBSET free, Spawn(w, K)
  PROVE  Families' /\ RootsApart'
<1> DEFINE p == cur[w]
<1>0. /\ TypeOK /\ Live \subseteq Tasks
      /\ p \in Live /\ ~Root(p) /\ p \notin K
      /\ K \subseteq Tasks /\ K \cap Live = {}
  BY ProtocolFacts DEF JInv, RootsApart, Spawn, InFunction, Running, TypeOK, Live
<1>1. Live' = Live \cup K
  BY <1>0 DEF Spawn, Live
<1>2. /\ \A t \in Live : fn'[t] = fn[t] /\ parent'[t] = parent[t] /\ jobOf'[t] = jobOf[t]
      /\ \A t \in K : fn'[t] = "work" /\ parent'[t] = p /\ jobOf'[t] = jobOf[p]
  BY <1>0 DEF Spawn
<1>3. /\ \A t \in Live : Root(t)' <=> Root(t)
      /\ \A t \in K : ~Root(t)'
      /\ \A t \in Live : ~Root(t) => parent[t] \in Live
  BY <1>0, <1>2, ProtocolFacts, TaskGraphAssumption DEF Root, JInv
<1>4. UNCHANGED <<deque, ring, pc, cur, submitted, done>>
  BY DEF Spawn, queues, jobs
<1> HIDE DEF p
<1>5. Families'
  <2> PICK rank \in [Tasks -> Nat] : Ranked(rank)
    BY DEF JInv, Families
  <2>1. PICK rank2 \in [Tasks -> Nat] :
          rank2 = [t \in Tasks |-> IF t \in K THEN rank[p] + 1 ELSE rank[t]]
    <3>1. \A t \in Tasks : (IF t \in K THEN rank[p] + 1 ELSE rank[t]) \in Nat
      BY <1>0
    <3>2. [t \in Tasks |-> IF t \in K THEN rank[p] + 1 ELSE rank[t]] \in [Tasks -> Nat]
      BY <3>1
    <3> QED BY <3>2
  <2>2. \A t \in Live : rank2[t] = rank[t]
    BY <1>0, <2>1
  <2>3. \A t \in K : rank2[t] = rank[p] + 1 /\ rank[p] \in Nat
    BY <1>0, <2>1
  <2>4. \A t \in Live' : ~Root(t)' => rank2[parent'[t]] < rank2[t]
    <3>1. \A t \in K : rank2[parent'[t]] < rank2[t]
      BY <1>0, <1>2, <2>2, <2>3
    <3>2. \A t \in Live : ~Root(t) => rank2[parent'[t]] < rank2[t]
      BY <1>2, <1>3, <2>2 DEF Ranked
    <3> QED BY <1>1, <1>3, <3>1, <3>2
  <2>5. Ranked(rank2)'
    BY <2>4 DEF Ranked
  <2>6. \A t \in Live' : jobOf'[t] \in submitted'
    BY <1>0, <1>1, <1>2, <1>4 DEF JInv, Families
  <2>7. \A t \in Live' : ~Root(t)' => jobOf'[parent'[t]] = jobOf'[t]
    <3>1. \A t \in K : jobOf'[parent'[t]] = jobOf'[t]
      BY <1>0, <1>2
    <3>2. \A t \in Live : ~Root(t) => jobOf'[parent'[t]] = jobOf'[t]
      BY <1>2, <1>3 DEF JInv, Families
    <3> QED BY <1>1, <1>3, <3>1, <3>2
  <2>8. \A t, u \in Live' : Root(t)' /\ Root(u)' /\ jobOf'[t] = jobOf'[u] => t = u
    BY <1>1, <1>2, <1>3 DEF JInv, Families
  <2>9. NoEarlyCompletion'
    <3>1. jobOf[p] \notin done
      BY <1>0 DEF JInv, Families, NoEarlyCompletion, Root
    <3>2. \A j \in done : \A t \in Live : jobOf[t] = j => Root(t)
      BY DEF JInv, Families, NoEarlyCompletion, Root
    <3>3. \A j \in done' : \A t \in Live' : jobOf'[t] = j => Root(t)'
      BY <1>1, <1>2, <1>3, <1>4, <3>1, <3>2
    <3> QED BY <3>3 DEF NoEarlyCompletion, Root
  <2>10. done' \subseteq submitted'
    BY <1>4 DEF JInv, Families
  <2> QED BY <2>1, <2>5, <2>6, <2>7, <2>8, <2>9, <2>10 DEF Families
<1>6. RootsApart'
  <2>1. /\ \A t \in Live' : Root(t)' => fn'[t] \in {"hook", None}
        /\ \A t \in Live' : ~Root(t)' => fn'[t] # "hook"
    BY <1>1, <1>2, <1>3 DEF JInv, RootsApart
  <2>2. \A u \in Workers : \A t \in deque'[u] \cup ring'[u] : ~Root(t)'
    BY <1>3, <1>4, ProtocolFacts DEF JInv, RootsApart
  <2>3. \A u \in Workers : pc[u] \in {"run", "runUp", "owned", "hook", "hooked"} =>
          cur[u] \in Live
    BY ProtocolFacts DEF JInv, Running, Owning
  <2>4. \A u \in Workers : pc'[u] \in {"run", "runUp", "owned"} => ~Root(cur[u])'
    BY <1>3, <1>4, <2>3 DEF JInv, RootsApart
  <2>5. \A u \in Workers : pc'[u] \in {"hook", "hooked"} =>
          Root(cur[u])' /\ \A c \in Live' : parent'[c] # cur'[u]
    <3> SUFFICES ASSUME NEW u \in Workers, pc[u] \in {"hook", "hooked"}
                 PROVE  Root(cur[u])' /\ \A c \in Live' : parent'[c] # cur[u]
      BY <1>4
    <3>1. cur[u] \in Live /\ Root(cur[u]) /\ \A c \in Live : parent[c] # cur[u]
      BY <2>3 DEF JInv, RootsApart
    <3> QED BY <1>0, <1>1, <1>2, <1>3, <1>4, <3>1
  <2> QED BY <2>1, <2>2, <2>4, <2>5 DEF RootsApart
<1> QED BY <1>5, <1>6

\* A submitted job is a new family: a root and the splitter below it.
LEMMA SubmitAcceptedJobs ==
  ASSUME JInv, NEW j \in Jobs, NEW root \in Tasks, NEW child \in Tasks,
         SubmitAccepted(j, root, child)
  PROVE  Families' /\ RootsApart'
<1>0. /\ TypeOK /\ Live \subseteq Tasks
      /\ root \notin Live /\ child \notin Live /\ root # child
      /\ j \notin submitted /\ j \notin done
      /\ None \notin Tasks
  BY ProtocolFacts, TaskGraphAssumption DEF JInv, Families, SubmitAccepted, Live
<1>1. Live' = Live \cup {root, child}
  BY <1>0 DEF SubmitAccepted, Live
<1>2. /\ \A t \in Live : fn'[t] = fn[t] /\ parent'[t] = parent[t] /\ jobOf'[t] = jobOf[t]
      /\ fn'[root] = "hook" /\ parent'[root] = None /\ jobOf'[root] = j
      /\ fn'[child] = "work" /\ parent'[child] = root /\ jobOf'[child] = j
  BY <1>0 DEF SubmitAccepted, TypeOK
<1>3. /\ \A t \in Live : Root(t)' <=> Root(t)
      /\ Root(root)' /\ ~Root(child)'
      /\ \A t \in Live : ~Root(t) => parent[t] \in Live
  BY <1>0, <1>2, ProtocolFacts DEF Root, JInv
<1>4. /\ UNCHANGED <<deque, pc, cur, done>> /\ submitted' = submitted \cup {j}
      /\ \A u \in Workers : ring'[u] \subseteq ring[u] \cup {child}
  BY <1>0 DEF SubmitAccepted, TypeOK
<1>5. Families'
  <2> PICK rank \in [Tasks -> Nat] : Ranked(rank)
    BY DEF JInv, Families
  <2>1. PICK rank2 \in [Tasks -> Nat] :
          rank2 = [rank EXCEPT ![root] = 0, ![child] = 1]
    OBVIOUS
  <2>2. \A t \in Live : rank2[t] = rank[t]
    BY <1>0, <2>1
  <2>3. rank2[root] = 0 /\ rank2[child] = 1
    BY <1>0, <2>1
  <2>4. \A t \in Live' : ~Root(t)' => rank2[parent'[t]] < rank2[t]
    <3>1. \A t \in Live : ~Root(t) => rank2[parent'[t]] < rank2[t]
      BY <1>2, <1>3, <2>2 DEF Ranked
    <3> QED BY <1>1, <1>2, <1>3, <2>3, <3>1
  <2>5. Ranked(rank2)'
    BY <2>4 DEF Ranked
  <2>6. \A t \in Live' : jobOf'[t] \in submitted'
    BY <1>1, <1>2, <1>4 DEF JInv, Families
  <2>7. \A t \in Live' : ~Root(t)' => jobOf'[parent'[t]] = jobOf'[t]
    <3>1. \A t \in Live : ~Root(t) => jobOf'[parent'[t]] = jobOf'[t]
      BY <1>2, <1>3 DEF JInv, Families
    <3> QED BY <1>1, <1>2, <1>3, <3>1
  <2>8. \A t, u \in Live' : Root(t)' /\ Root(u)' /\ jobOf'[t] = jobOf'[u] => t = u
    <3>1. \A t \in Live : jobOf'[t] # j
      BY <1>0, <1>2 DEF JInv, Families
    <3>2. \A t, u \in Live : Root(t)' /\ Root(u)' /\ jobOf'[t] = jobOf'[u] => t = u
      BY <1>2, <1>3 DEF JInv, Families
    <3> QED BY <1>1, <1>2, <1>3, <3>1, <3>2
  <2>9. NoEarlyCompletion'
    <3>1. \A i \in done : \A t \in Live : jobOf[t] = i => Root(t)
      BY DEF JInv, Families, NoEarlyCompletion, Root
    <3>2. \A i \in done' : \A t \in Live' : jobOf'[t] = i => Root(t)'
      BY <1>0, <1>1, <1>2, <1>3, <1>4, <3>1
    <3> QED BY <3>2 DEF NoEarlyCompletion, Root
  <2>10. done' \subseteq submitted'
    BY <1>4 DEF JInv, Families
  <2> QED BY <2>5, <2>6, <2>7, <2>8, <2>9, <2>10 DEF Families
<1>6. RootsApart'
  <2>1. /\ \A t \in Live' : Root(t)' => fn'[t] \in {"hook", None}
        /\ \A t \in Live' : ~Root(t)' => fn'[t] # "hook"
    BY <1>1, <1>2, <1>3 DEF JInv, RootsApart
  <2>2. \A u \in Workers : \A t \in deque'[u] \cup ring'[u] : ~Root(t)'
    BY <1>3, <1>4, ProtocolFacts DEF JInv, RootsApart
  <2>3. \A u \in Workers : pc[u] \in {"run", "runUp", "owned", "hook", "hooked"} =>
          cur[u] \in Live
    BY ProtocolFacts DEF JInv, Running, Owning
  <2>4. \A u \in Workers : pc'[u] \in {"run", "runUp", "owned"} => ~Root(cur[u])'
    BY <1>3, <1>4, <2>3 DEF JInv, RootsApart
  <2>5. \A u \in Workers : pc'[u] \in {"hook", "hooked"} =>
          Root(cur[u])' /\ \A c \in Live' : parent'[c] # cur'[u]
    <3> SUFFICES ASSUME NEW u \in Workers, pc[u] \in {"hook", "hooked"}
                 PROVE  Root(cur[u])' /\ \A c \in Live' : parent'[c] # cur[u]
      BY <1>4
    <3>1. cur[u] \in Live /\ Root(cur[u]) /\ \A c \in Live : parent[c] # cur[u]
      BY <2>3 DEF JInv, RootsApart
    <3> QED BY <1>0, <1>1, <1>2, <1>3, <1>4, <3>1
  <2> QED BY <2>1, <2>2, <2>4, <2>5 DEF RootsApart
<1> QED BY <1>5, <1>6

-----------------------------------------------------------------------------
LEMMA InitJobs == Init => Families /\ RootsApart
<1> SUFFICES ASSUME Init PROVE Families /\ RootsApart
  OBVIOUS
<1>1. Live = {} /\ done = {} /\ submitted = {}
  BY DEF Init, Live
<1>2. \A w \in Workers : pc[w] = "idle" /\ deque[w] = {} /\ ring[w] = {}
  BY DEF Init
<1>3. [t \in Tasks |-> 0] \in [Tasks -> Nat]
  OBVIOUS
<1>4. \E rank \in [Tasks -> Nat] : Ranked(rank)
  BY <1>1, <1>3 DEF Ranked
<1> QED BY <1>1, <1>2, <1>4 DEF Families, RootsApart, NoEarlyCompletion

LEMMA StutterJobs == JInv /\ UNCHANGED vars => Families' /\ RootsApart'
<1> SUFFICES ASSUME JInv, UNCHANGED vars PROVE Families' /\ RootsApart'
  OBVIOUS
<1>1. Families'
  BY FamiliesKept DEF JInv, vars
<1> QED BY <1>1 DEF vars, JInv, RootsApart, Live, Root

LEMMA NextJobs == JInv /\ Next => Families' /\ RootsApart'
<1> SUFFICES ASSUME JInv, Next PROVE Families' /\ RootsApart'
  OBVIOUS
<1>1. CASE Submit
  BY <1>1, SubmitAcceptedJobs, SubmitRejectedJobs DEF Submit
<1>2. ASSUME NEW w \in Workers, Work(w) PROVE Families' /\ RootsApart'
  <2>1. ASSUME NEW t \in Tasks, PopDeque(w, t) \/ PopRing(w, t)
        PROVE  Families' /\ RootsApart'
    <3>1. t \in deque[w] \cup ring[w] /\ Begin(w, t)
      BY <2>1 DEF PopDeque, PopRing
    <3>2. \A u \in Workers : deque'[u] \cup ring'[u] \subseteq deque[u] \cup ring[u]
      BY <2>1, ProtocolFacts DEF JInv, PopDeque, PopRing, TypeOK
    <3> QED BY <3>1, <3>2, BeginJobs
  <2>2. ASSUME NEW t \in Tasks, ReleaseRejected(w, t) PROVE Families' /\ RootsApart'
    BY <2>2, RecycleJobs
  <2>3. CASE SetContinuation(w)
    BY <2>3, SetContinuationJobs
  <2>4. ASSUME NEW K \in SUBSET free, Spawn(w, K) PROVE Families' /\ RootsApart'
    BY <2>4, SpawnJobs
  <2>5. ASSUME NEW A \in SUBSET staged[w], PushBatch(w, A) PROVE Families' /\ RootsApart'
    BY <2>5, PushBatchJobs
  <2>6. CASE Rollback(w) \/ Return(w) \/ Climb(w)
    BY <2>6, MoveJobs
  <2>7. CASE RunContinuation(w)
    BY <2>7, RunContinuationJobs
  <2>8. CASE Retire(w)
    BY <2>8, RecycleJobs
  <2>9. CASE Requeue(w)
    BY <2>9, RequeueJobs
  <2>10. CASE RunInline(w)
    BY <2>10, RunInlineJobs
  <2>11. CASE FinishJob(w)
    BY <2>11, FinishJobJobs
  <2> QED BY <1>2, <2>1, <2>2, <2>3, <2>4, <2>5, <2>6, <2>7, <2>8, <2>9, <2>10, <2>11
          DEF Work
<1>3. ASSUME NEW w \in Workers, NEW v \in Workers, NEW t \in Tasks, Steal(w, v, t)
      PROVE  Families' /\ RootsApart'
  <2>1. t \in deque[v] \cup ring[v] /\ Begin(w, t)
    BY <1>3 DEF Steal
  <2>2. \A u \in Workers : deque'[u] \cup ring'[u] \subseteq deque[u] \cup ring[u]
    BY <1>3, ProtocolFacts DEF JInv, Steal, TypeOK
  <2> QED BY <2>1, <2>2, BeginJobs
<1> QED BY <1>1, <1>2, <1>3 DEF Next

-----------------------------------------------------------------------------
\* The counters, the families and the roots, in every reachable state.
THEOREM JobInvariance == Spec => []JInv
<1>1. Init /\ IInv => JInv
  BY InitJobs DEF JInv
<1>2. JInv /\ [Next]_vars /\ IInv' => JInv'
  BY NextJobs, StutterJobs DEF JInv
<1> QED BY <1>1, <1>2, Invariance, PTL DEF Spec

\* A job is reported done only when its root is the last task it has, whatever
\* the number of workers, tasks and jobs and whatever the deques rejected.
THEOREM DoneMeansDone == Spec => []NoEarlyCompletion
<1>1. JInv => NoEarlyCompletion
  BY DEF JInv, Families
<1> QED BY <1>1, JobInvariance, PTL

-----------------------------------------------------------------------------
(* Nothing is left behind.                                                  *)

\* The root of an unfinished job still has its hook, or a worker is about to
\* report the job.
Reporting(t) ==
  \/ fn[t] = "hook"
  \/ \E w \in Workers : pc[w] = "hook" /\ cur[w] = t

Unfinished ==
  \A j \in submitted \ done : \E t \in Live : Root(t) /\ jobOf[t] = j /\ Reporting(t)

\* A root with a report to make stays as it is, until the report is made.
LEMMA ReportingKept ==
  ASSUME JInv, Next, NEW t \in Live, Root(t), Reporting(t)
  PROVE  /\ t \in Live' /\ Root(t)' /\ jobOf'[t] = jobOf[t]
         /\ Reporting(t)' \/ jobOf[t] \in done'
<1>1. /\ TypeOK /\ t \in Tasks /\ t \notin free /\ parent[t] = None /\ None # "hook"
      /\ None \notin Tasks
  BY ProtocolFacts, TaskGraphAssumption DEF JInv, Root, Live, Fns
<1>2. /\ \A w \in Workers : pc[w] \in {"run", "runUp", "owned"} => cur[w] # t
      /\ \A w \in Workers : t \notin deque[w] \cup ring[w]
      /\ \A w \in Workers : t \notin rejected[w]
  BY <1>1, ProtocolFacts DEF JInv, RootsApart, Root, TypeOK
<1>3. ASSUME NEW u \in Workers, NEW w \in Workers, pc[u] = "hook", cur[u] = t,
             pc[w] \in Owning, cur[w] = t
      PROVE  FALSE
  <2> PICK spot, at : Inv(spot, at)
    BY DEF JInv, IInv
  <2> QED BY <1>1, <1>3 DEF Inv, Located, Running, Owning
<1>4. ASSUME t \notin free', parent'[t] = parent[t], jobOf'[t] = jobOf[t], fn'[t] = fn[t],
             \A u \in Workers : pc[u] = "hook" /\ cur[u] = t =>
                                pc'[u] = "hook" /\ cur'[u] = t
      PROVE  /\ t \in Live' /\ Root(t)' /\ jobOf'[t] = jobOf[t] /\ Reporting(t)'
  BY <1>1, <1>4 DEF Live, Root, Reporting
<1>5. ASSUME NEW j \in Jobs, NEW root \in Tasks, NEW child \in Tasks,
             SubmitAccepted(j, root, child)
      PROVE  /\ t \in Live' /\ Root(t)' /\ jobOf'[t] = jobOf[t] /\ Reporting(t)'
  <2>1. root # t /\ child # t
    BY <1>1, <1>5 DEF SubmitAccepted
  <2>2. t \notin free' /\ UNCHANGED <<pc, cur>>
    BY <1>1, <1>5 DEF SubmitAccepted
  <2>3. parent'[t] = parent[t] /\ jobOf'[t] = jobOf[t] /\ fn'[t] = fn[t]
    BY <1>1, <1>5, <2>1 DEF SubmitAccepted, TypeOK
  <2> QED BY <1>4, <2>2, <2>3
<1>6. ASSUME NEW w \in Workers, NEW v \in Workers, NEW x \in deque[v] \cup ring[v],
             pc[w] = "idle", Begin(w, x)
      PROVE  /\ t \in Live' /\ Root(t)' /\ jobOf'[t] = jobOf[t] /\ Reporting(t)'
  <2>1. x # t
    BY <1>2
  <2>2. /\ UNCHANGED <<free, parent, jobOf>> /\ fn'[t] = fn[t]
        /\ \A u \in Workers \ {w} : pc'[u] = pc[u] /\ cur'[u] = cur[u]
    BY <1>1, <1>6, <2>1 DEF Begin, TypeOK
  <2> QED BY <1>1, <1>4, <1>6, <2>2
<1>7. ASSUME NEW w \in Workers, Work(w)
      PROVE  /\ t \in Live' /\ Root(t)' /\ jobOf'[t] = jobOf[t]
             /\ Reporting(t)' \/ jobOf[t] \in done'
  <2>1. ASSUME NEW x \in Tasks, PopDeque(w, x) \/ PopRing(w, x)
        PROVE  /\ t \in Live' /\ Root(t)' /\ jobOf'[t] = jobOf[t] /\ Reporting(t)'
    BY <1>6, <2>1 DEF PopDeque, PopRing
  <2>2. ASSUME NEW x \in Tasks, ReleaseRejected(w, x)
        PROVE  /\ t \in Live' /\ Root(t)' /\ jobOf'[t] = jobOf[t] /\ Reporting(t)'
    BY <1>1, <1>2, <1>4, <2>2 DEF ReleaseRejected, taskFields
  <2>3. CASE SetContinuation(w)
    <3>1. cur[w] # t
      BY <1>2, <2>3 DEF SetContinuation, InFunction
    <3>2. fn'[t] = fn[t] /\ UNCHANGED <<free, parent, jobOf, pc, cur>>
      BY <1>1, <2>3, <3>1 DEF SetContinuation, TypeOK
    <3> QED BY <1>1, <1>4, <3>2
  <2>4. ASSUME NEW K \in SUBSET free, Spawn(w, K)
        PROVE  /\ t \in Live' /\ Root(t)' /\ jobOf'[t] = jobOf[t] /\ Reporting(t)'
    <3>1. /\ t \notin K /\ t \notin free' /\ UNCHANGED <<pc, cur>>
      BY <1>1, <2>4 DEF Spawn
    <3>2. fn'[t] = fn[t] /\ parent'[t] = parent[t] /\ jobOf'[t] = jobOf[t]
      BY <1>1, <2>4, <3>1 DEF Spawn
    <3> QED BY <1>4, <3>1, <3>2
  <2>5. ASSUME (\E A \in SUBSET staged[w] : PushBatch(w, A)) \/ Rollback(w)
        PROVE  /\ t \in Live' /\ Root(t)' /\ jobOf'[t] = jobOf[t] /\ Reporting(t)'
    BY <1>1, <1>4, <2>5 DEF PushBatch, Rollback, taskFields
  <2>6. CASE Return(w) \/ Climb(w) \/ Requeue(w)
    <3>1. UNCHANGED <<free, parent, jobOf, fn>> /\ pc[w] # "hook"
      BY <2>6 DEF Return, Climb, Requeue, InFunction
    <3>2. \A u \in Workers \ {w} : pc'[u] = pc[u] /\ cur'[u] = cur[u]
      BY <1>1, <2>6 DEF Return, Climb, Requeue, Decrement, TypeOK
    <3> QED BY <1>1, <1>4, <3>1, <3>2
  <2>7. CASE RunContinuation(w)
    <3>1. cur[w] # t /\ pc[w] = "owned"
      BY <1>2, <2>7 DEF RunContinuation
    <3>2. /\ fn'[t] = fn[t] /\ UNCHANGED <<free, parent, jobOf, cur>>
          /\ \A u \in Workers \ {w} : pc'[u] = pc[u]
      BY <1>1, <2>7, <3>1 DEF RunContinuation, TypeOK
    <3> QED BY <1>1, <1>4, <3>1, <3>2
  <2>8. CASE Retire(w)
    <3>1. pc[w] \in Owning /\ fn[cur[w]] = None
      BY <2>8 DEF Retire, HasFunction, Owning
    <3>2. cur[w] # t
      BY <1>1, <1>3, <3>1 DEF Reporting
    <3>3. /\ t \notin free' /\ UNCHANGED <<fn, parent, jobOf>>
          /\ \A u \in Workers \ {w} : pc'[u] = pc[u] /\ cur'[u] = cur[u]
      BY <1>1, <2>8, <3>2 DEF Retire, taskFields, TypeOK
    <3> QED BY <1>1, <1>4, <3>1, <3>3 DEF Owning
  <2>9. CASE RunInline(w)
    <3>1. /\ pc[w] = "resume" /\ UNCHANGED <<free, parent, jobOf, cur>>
          /\ \A u \in Workers \ {w} : pc'[u] = pc[u]
          /\ pc'[w] = IF fn[cur[w]] = "hook" THEN "hook" ELSE "runUp"
          /\ \A x \in Tasks \ {cur[w]} : fn'[x] = fn[x]
      BY <1>1, <2>9 DEF RunInline, TypeOK
    <3>2. CASE cur[w] # t
      BY <1>1, <1>4, <3>1, <3>2
    <3>3. CASE cur[w] = t
      <4>1. fn[t] = "hook"
        BY <1>3, <3>1, <3>3 DEF Reporting, Owning
      <4>2. pc'[w] = "hook" /\ cur'[w] = t
        BY <3>1, <3>3, <4>1
      <4> QED BY <1>1, <3>1, <4>2 DEF Reporting, Live, Root
    <3> QED BY <3>2, <3>3
  <2>10. CASE FinishJob(w)
    <3>1. /\ UNCHANGED <<free, fn, parent, jobOf, cur>>
          /\ done' = done \cup {jobOf[cur[w]]}
          /\ \A u \in Workers \ {w} : pc'[u] = pc[u]
      BY <1>1, <2>10 DEF FinishJob, taskFields, TypeOK
    <3>2. t \in Live' /\ Root(t)' /\ jobOf'[t] = jobOf[t]
      BY <1>1, <3>1 DEF Live, Root
    <3>3. CASE cur[w] = t
      BY <3>1, <3>2, <3>3
    <3>4. CASE cur[w] # t
      <4>1. \A u \in Workers : pc[u] = "hook" /\ cur[u] = t =>
              pc'[u] = "hook" /\ cur'[u] = t
        BY <3>1, <3>4
      <4> QED BY <1>1, <1>4, <3>1, <4>1
    <3> QED BY <3>3, <3>4
  <2> QED BY <1>7, <2>1, <2>2, <2>3, <2>4, <2>5, <2>6, <2>7, <2>8, <2>9, <2>10 DEF Work
<1>8. ASSUME NEW w \in Workers, NEW v \in Workers, NEW x \in Tasks, Steal(w, v, x)
      PROVE  /\ t \in Live' /\ Root(t)' /\ jobOf'[t] = jobOf[t] /\ Reporting(t)'
  BY <1>6, <1>8 DEF Steal
<1>9. ASSUME NEW j \in Jobs, SubmitRejected(j)
      PROVE  /\ t \in Live' /\ Root(t)' /\ jobOf'[t] = jobOf[t] /\ Reporting(t)'
  BY <1>1, <1>4, <1>9 DEF SubmitRejected, taskFields
<1> QED BY <1>5, <1>7, <1>8, <1>9 DEF Next, Submit

\* Every step keeps it.
LEMMA UnfinishedStep == JInv /\ Unfinished /\ [Next]_vars => Unfinished'
<1>1. ASSUME JInv, Unfinished, Next PROVE Unfinished'
  <2>1. ASSUME NEW j \in submitted, j \notin done'
        PROVE  \E t \in Live' : Root(t)' /\ jobOf'[t] = j /\ Reporting(t)'
    <3>1. done \subseteq done'
      BY <1>1 DEF Next, Submit, SubmitAccepted, SubmitRejected, Work, PopDeque, PopRing,
         Steal, Begin, ReleaseRejected, SetContinuation, Spawn, PushBatch, Rollback,
         Return, RunContinuation, Retire, Climb, Requeue, RunInline, FinishJob, jobs
    <3>2. PICK t \in Live : Root(t) /\ jobOf[t] = j /\ Reporting(t)
      BY <1>1, <2>1, <3>1 DEF Unfinished
    <3> QED BY <1>1, <2>1, <3>2, ReportingKept
  <2>2. CASE submitted' = submitted
    BY <2>1, <2>2 DEF Unfinished
  <2>3. ASSUME NEW j \in Jobs, NEW root \in Tasks, NEW child \in Tasks,
               SubmitAccepted(j, root, child)
        PROVE  Unfinished'
    <3>1. TypeOK
      BY <1>1, ProtocolFacts DEF JInv
    <3>2. /\ submitted' = submitted \cup {j} /\ root \in Live' /\ root # child
          /\ parent'[root] = None /\ jobOf'[root] = j /\ fn'[root] = "hook"
      BY <2>3, <3>1 DEF SubmitAccepted, TypeOK, Live
    <3>3. Root(root)' /\ Reporting(root)'
      BY <3>2 DEF Root, Reporting
    <3> QED BY <2>1, <3>2, <3>3 DEF Unfinished
  <2>4. submitted' = submitted \/ \E j \in Jobs, root, child \in Tasks : SubmitAccepted(j, root, child)
    BY <1>1 DEF Next, Submit, SubmitRejected, Work, PopDeque, PopRing,
       Steal, Begin, ReleaseRejected, SetContinuation, Spawn, PushBatch, Rollback,
       Return, RunContinuation, Retire, Climb, Requeue, RunInline, FinishJob, jobs
  <2> QED BY <2>2, <2>3, <2>4
<1>2. ASSUME Unfinished, UNCHANGED vars PROVE Unfinished'
  BY <1>2 DEF Unfinished, Reporting, Live, Root, vars
<1> QED BY <1>1, <1>2

\* In a set of live tasks some task has no child in the set: going from a task to
\* a child for ever would take infinitely many tasks.
LEMMA LastChild ==
  ASSUME JInv, NEW S \in SUBSET Live, S # {}
  PROVE  \E t \in S : \A c \in S : parent[c] # t
<1> DEFINE Endless(X) == X # {} /\ \A t \in X : \E c \in X : parent[c] = t
           R == {Cardinality(X) : X \in {Y \in SUBSET Live : Endless(Y)}}
<1> SUFFICES ASSUME Endless(S) PROVE FALSE
  OBVIOUS
<1>0. Live \subseteq Tasks /\ IsFiniteSet(Live)
  BY TaskGraphAssumption, FS_Subset DEF Live
<1>1. \A X \in SUBSET Live : IsFiniteSet(X) /\ Cardinality(X) \in Nat
  BY <1>0, FS_Subset, FS_CardinalityType
<1>2. R \subseteq Nat /\ R # {}
  BY <1>1
<1>3. PICK m \in R : \A n \in R : ~(n < m)
  <2> HIDE DEF R
  <2> QED BY <1>2, LeastNatural
<1>4. PICK X \in SUBSET Live : Endless(X) /\ m = Cardinality(X)
  OBVIOUS
<1> PICK rank \in [Tasks -> Nat] : Ranked(rank)
  BY DEF JInv, Families
<1> DEFINE Q == {rank[t] : t \in X}
<1>5. Q \subseteq Nat /\ Q # {}
  BY <1>0, <1>4
<1>6. PICK q \in Q : \A n \in Q : ~(n < q)
  <2> HIDE DEF Q
  <2> QED BY <1>5, LeastNatural
<1>7. PICK x \in X : q = rank[x]
  OBVIOUS
<1>8. \A t \in X : parent[x] # t
  <2> SUFFICES ASSUME NEW t \in X, parent[x] = t PROVE FALSE
    OBVIOUS
  <2>1. ~Root(x)
    BY <1>0, <1>4, TaskGraphAssumption DEF Root
  <2>2. rank[t] < rank[x]
    BY <1>4, <2>1 DEF Ranked
  <2> QED BY <1>6, <1>7, <2>2
<1>9. Endless(X \ {x})
  <2>1. PICK c \in X : parent[c] = x
    BY <1>4
  <2>2. c # x
    BY <1>8, <2>1
  <2>3. \A t \in X \ {x} : \E d \in X \ {x} : parent[d] = t
    BY <1>4, <1>8
  <2> QED BY <2>1, <2>2, <2>3
<1>10. /\ X \ {x} \in SUBSET Live /\ Cardinality(X \ {x}) = m - 1 /\ m \in Nat
  BY <1>1, <1>4, FS_RemoveElement
<1>11. m - 1 \in R
  BY <1>9, <1>10
<1> QED BY <1>3, <1>10, <1>11

\* Without a worker at work the roots of all jobs have finished, and with them
\* the tasks of the jobs.
LEMMA InvNothingStuck == JInv /\ Unfinished => NothingStuck
<1> SUFFICES ASSUME JInv, Unfinished,
                    \A w \in Workers : pc[w] = "idle" /\ deque[w] = {} /\ ring[w] = {}
             PROVE  free = Tasks /\ done = submitted
  BY DEF NothingStuck
<1> PICK spot, at : Inv(spot, at)
  BY DEF JInv, IInv
<1>1. /\ TypeOK /\ Live \subseteq Tasks /\ \A t \in Tasks : t \in Live <=> spot[t] # "free"
  BY DEF JInv, IInv, Inv, Located, Live
<1>2. \A w \in Workers : staged[w] = {} /\ bounced[w] = {} /\ rejected[w] = {}
  BY DEF Inv, Handed
<1>3. \A t \in Live : spot[t] = "suspended"
  <2> SUFFICES ASSUME NEW t \in Live PROVE spot[t] = "suspended"
    OBVIOUS
  <2>1. t \in Tasks /\ spot[t] \in Spots /\ at[t] \in Workers /\ spot[t] # "free"
    BY <1>1 DEF Inv
  <2> QED BY <1>2, <2>1 DEF Inv, Located, Spots, Running, Owning
<1>4. \A t \in Live : \E c \in Live : parent[c] = t
  <2> SUFFICES ASSUME NEW t \in Live PROVE \E c \in Live : parent[c] = t
    OBVIOUS
  <2>1. deps[t] # 0 /\ deps[t] = Lock(spot, t) + Cardinality(Kids(spot, t)) + Cardinality(Climbers(t))
    BY <1>1, <1>3 DEF Inv, Waits, Counted
  <2>2. Climbers(t) = {} /\ Lock(spot, t) = 0
    BY <1>3 DEF Climbers, Lock, LockSpots, WaitingSpots
  <2>3. Kids(spot, t) # {}
    BY <2>1, <2>2, FS_EmptySet
  <2> QED BY <1>1, <2>3 DEF Kids
<1>5. Live = {}
  BY <1>4, LastChild
<1>6. free = Tasks
  BY <1>1, <1>5 DEF Live, TypeOK
<1>7. done = submitted
  BY <1>5 DEF Unfinished, JInv, Families
<1> QED BY <1>6, <1>7

\* When no worker has anything to do, every accepted job is done and every task is
\* back in the pool: no task is suspended for ever and none leaks, whatever the
\* deques and rings rejected (sk_scheduler.c:343-361).
THEOREM NothingIsStuck == Spec => []NothingStuck
<1>1. Init => Unfinished
  BY DEF Init, Unfinished
<1>2. JInv /\ Unfinished /\ [Next]_vars => Unfinished'
  BY UnfinishedStep
<1> QED BY <1>1, <1>2, InvNothingStuck, JobInvariance, PTL DEF Spec

-----------------------------------------------------------------------------
(* The fork-join of ForkJoin, step by step.                                 *)

\* The unfinished items of a job, and its state, as ForkJoin sees them.
ItemsOf(j) == {t \in Live : jobOf[t] = j /\ parent[t] # None}

StatusOf(j) == IF j \in done THEN "done"
               ELSE IF j \in submitted THEN "running" ELSE "new"

Visible == <<[j \in Jobs |-> StatusOf(j)], [j \in Jobs |-> ItemsOf(j)]>>

LEMMA InvisibleStep ==
  ASSUME UNCHANGED <<free, parent, jobOf, submitted, done>>
  PROVE  UNCHANGED Visible
BY DEF Visible, StatusOf, ItemsOf, Live

\* A step that changes the items of one job and the state of none, or that
\* changes the state of one job.
LEMMA PointwiseStep ==
  ASSUME NEW j \in Jobs,
         \A i \in Jobs \ {j} : StatusOf(i)' = StatusOf(i) /\ ItemsOf(i)' = ItemsOf(i)
  PROVE  /\ [i \in Jobs |-> StatusOf(i)]' = [[i \in Jobs |-> StatusOf(i)] EXCEPT ![j] = StatusOf(j)']
         /\ [i \in Jobs |-> ItemsOf(i)]' = [[i \in Jobs |-> ItemsOf(i)] EXCEPT ![j] = ItemsOf(j)']
OBVIOUS

LEMMA SubmitAcceptedForks ==
  ASSUME JInv, NEW j \in Jobs, NEW root \in Tasks, NEW child \in Tasks,
         SubmitAccepted(j, root, child)
  PROVE  FJ!Submit(j, child)
<1>1. /\ j \notin submitted /\ j \notin done /\ child \notin Live
      /\ Live' = Live \cup {root, child} /\ done' = done /\ submitted' = submitted \cup {j}
      /\ \A t \in Live : jobOf[t] # j /\ t \notin {root, child}
  BY DEF JInv, Families, SubmitAccepted, Live
<1>2. /\ \A t \in Live : parent'[t] = parent[t] /\ jobOf'[t] = jobOf[t]
      /\ parent'[root] = None /\ parent'[child] = root /\ root # None
      /\ jobOf'[root] = j /\ jobOf'[child] = j
  BY <1>1, ProtocolFacts, TaskGraphAssumption DEF JInv, SubmitAccepted, TypeOK
<1>3. \A i \in Jobs \ {j} : StatusOf(i)' = StatusOf(i) /\ ItemsOf(i)' = ItemsOf(i)
  BY <1>1, <1>2 DEF StatusOf, ItemsOf
<1>4. StatusOf(j) = "new" /\ StatusOf(j)' = "running" /\ ItemsOf(j)' = {child}
  BY <1>1, <1>2 DEF StatusOf, ItemsOf
<1>5. child \in Tasks \ UNION {[k \in Jobs |-> ItemsOf(k)][i] : i \in Jobs}
  BY <1>1 DEF ItemsOf
<1> QED BY <1>3, <1>4, <1>5, PointwiseStep DEF FJ!Submit, FJ!Unused, StatusOf, ItemsOf

LEMMA SpawnForks ==
  ASSUME JInv, NEW w \in Workers, NEW K \in SUBSET free, Spawn(w, K),
         NEW j \in Jobs, j = jobOf[cur[w]]
  PROVE  FJ!Fork(j, K)
<1> DEFINE p == cur[w]
<1>0. /\ TypeOK /\ Live \subseteq Tasks
      /\ p \in Live /\ ~Root(p) /\ p # None /\ K # {}
      /\ K \subseteq Tasks /\ K \cap Live = {}
  BY ProtocolFacts, TaskGraphAssumption
     DEF JInv, RootsApart, Spawn, InFunction, Running, TypeOK, Live
<1>1. p \in ItemsOf(j)
  BY <1>0 DEF ItemsOf, Root
<1>2. Live' = Live \cup K /\ UNCHANGED <<done, submitted>>
  BY <1>0 DEF Spawn, Live, jobs
<1>3. /\ \A t \in Live : parent'[t] = parent[t] /\ jobOf'[t] = jobOf[t]
      /\ \A t \in K : parent'[t] = p /\ jobOf'[t] = j
  BY <1>0 DEF Spawn
<1> HIDE DEF p
<1>4. /\ \A i \in Jobs \ {j} : StatusOf(i)' = StatusOf(i) /\ ItemsOf(i)' = ItemsOf(i)
      /\ StatusOf(j)' = StatusOf(j) /\ ItemsOf(j)' = ItemsOf(j) \cup K
  BY <1>0, <1>2, <1>3 DEF StatusOf, ItemsOf
<1>5. K \subseteq Tasks \ UNION {[k \in Jobs |-> ItemsOf(k)][i] : i \in Jobs}
  BY <1>0 DEF ItemsOf
<1>6. [i \in Jobs |-> ItemsOf(i)]' =
        [[i \in Jobs |-> ItemsOf(i)] EXCEPT ![j] = [i \in Jobs |-> ItemsOf(i)][j] \cup K]
  BY <1>4, PointwiseStep
<1>7. [i \in Jobs |-> ItemsOf(i)][j] # {} /\ K # {}
  BY <1>0, <1>1
<1>8. [i \in Jobs |-> StatusOf(i)]' = [i \in Jobs |-> StatusOf(i)]
  BY <1>4
<1> QED BY <1>5, <1>6, <1>7, <1>8 DEF FJ!Fork, FJ!Unused, StatusOf, ItemsOf

\* A retired task, unless it is a root, has joined its job.
LEMMA RecycleJoins ==
  ASSUME JInv, NEW t \in Live, NEW j \in Jobs, j = jobOf[t],
         free' = free \cup {t}, UNCHANGED <<parent, jobOf, submitted, done>>
  PROVE  IF Root(t) THEN UNCHANGED Visible ELSE FJ!Join(j, t)
<1>1. Live' = Live \ {t} /\ t \in Tasks
  BY DEF Live
<1>2. \A i \in Jobs : StatusOf(i)' = StatusOf(i)
  BY DEF StatusOf
<1>3. CASE Root(t)
  <2>1. \A i \in Jobs : ItemsOf(i)' = ItemsOf(i)
    BY <1>1, <1>3 DEF ItemsOf, Root
  <2> QED BY <1>2, <1>3, <2>1 DEF Visible
<1>4. CASE ~Root(t)
  <2>1. /\ \A i \in Jobs \ {j} : ItemsOf(i)' = ItemsOf(i)
        /\ ItemsOf(j)' = ItemsOf(j) \ {t} /\ t \in ItemsOf(j)
    BY <1>1, <1>4 DEF ItemsOf, Root
  <2> QED BY <1>2, <1>4, <2>1, PointwiseStep DEF FJ!Join, StatusOf, ItemsOf
<1> QED BY <1>3, <1>4

LEMMA FinishJobCompletes ==
  ASSUME JInv, NEW w \in Workers, FinishJob(w), NEW j \in Jobs, j = jobOf[cur[w]]
  PROVE  FJ!Complete(j) \/ UNCHANGED Visible
<1>1. /\ cur[w] \in Live /\ Root(cur[w]) /\ \A c \in Live : parent[c] # cur[w]
  BY ProtocolFacts DEF JInv, RootsApart, FinishJob, Running
<1>2. ItemsOf(j) = {}
  BY <1>1, RootCovers DEF ItemsOf, Root
<1>3. /\ UNCHANGED <<free, parent, jobOf, submitted>>
      /\ done' = done \cup {j} /\ j \in submitted
  BY <1>1 DEF FinishJob, taskFields, JInv, Families
<1>4. CASE j \in done
  BY <1>3, <1>4, InvisibleStep
<1>5. CASE j \notin done
  <2>1. /\ \A i \in Jobs : ItemsOf(i)' = ItemsOf(i)
        /\ \A i \in Jobs \ {j} : StatusOf(i)' = StatusOf(i)
        /\ StatusOf(j) = "running" /\ StatusOf(j)' = "done"
    BY <1>3, <1>5 DEF ItemsOf, StatusOf, Live
  <2> QED BY <1>2, <2>1, PointwiseStep DEF FJ!Complete, StatusOf, ItemsOf
<1> QED BY <1>4, <1>5

LEMMA InitForks == Init => FJ!Init
<1> SUFFICES ASSUME Init PROVE FJ!Init
  OBVIOUS
<1>1. Live = {} /\ done = {} /\ submitted = {}
  BY DEF Init, Live
<1> QED BY <1>1 DEF FJ!Init

LEMMA NextForks == JInv /\ [Next]_vars => FJ!Next \/ UNCHANGED Visible
<1> SUFFICES ASSUME JInv, [Next]_vars PROVE FJ!Next \/ UNCHANGED Visible
  OBVIOUS
<1> USE DEF JInv
<1>1. ASSUME UNCHANGED <<free, parent, jobOf, submitted, done>> PROVE UNCHANGED Visible
  BY <1>1, InvisibleStep
<1>2. ASSUME NEW t \in Live, free' = free \cup {t}, UNCHANGED <<parent, jobOf, submitted, done>>
      PROVE  FJ!Next \/ UNCHANGED Visible
  <2>1. PICK j \in Jobs : j = jobOf[t]
    BY ProtocolFacts DEF Families, TypeOK
  <2>2. t \in Tasks
    BY DEF Live
  <2> QED BY <1>2, <2>1, <2>2, RecycleJoins DEF FJ!Next
<1>3. CASE Submit
  <2>1. ASSUME NEW j \in Jobs, NEW root \in Tasks, NEW child \in Tasks,
               SubmitAccepted(j, root, child)
        PROVE  FJ!Next
    BY <2>1, SubmitAcceptedForks DEF FJ!Next
  <2>2. ASSUME NEW j \in Jobs, SubmitRejected(j) PROVE UNCHANGED Visible
    BY <1>1, <2>2 DEF SubmitRejected, taskFields, jobs
  <2> QED BY <1>3, <2>1, <2>2 DEF Submit
<1>4. ASSUME NEW w \in Workers, Work(w) PROVE FJ!Next \/ UNCHANGED Visible
  <2>0. ASSUME NEW u \in Workers, cur[u] \in Live
        PROVE  \E j \in Jobs : j = jobOf[cur[u]]
    BY <2>0, ProtocolFacts DEF Families, TypeOK
  <2>1. ASSUME NEW t \in Tasks, PopDeque(w, t) \/ PopRing(w, t) PROVE UNCHANGED Visible
    BY <1>1, <2>1 DEF PopDeque, PopRing, Begin, jobs
  <2>2. ASSUME NEW t \in Tasks, ReleaseRejected(w, t)
        PROVE  FJ!Next \/ UNCHANGED Visible
    <3>1. t \in Live
      BY <2>2, ProtocolFacts DEF ReleaseRejected
    <3> QED BY <1>2, <2>2, <3>1 DEF ReleaseRejected, taskFields, jobs
  <2>3. CASE \/ SetContinuation(w) \/ Rollback(w) \/ Return(w) \/ RunContinuation(w)
             \/ Climb(w) \/ Requeue(w) \/ RunInline(w)
             \/ \E A \in SUBSET staged[w] : PushBatch(w, A)
    BY <1>1, <2>3 DEF SetContinuation, Rollback, Return, RunContinuation, Climb, Requeue,
                      RunInline, PushBatch, taskFields, jobs
  <2>4. ASSUME NEW K \in SUBSET free, Spawn(w, K) PROVE FJ!Next
    <3>1. cur[w] \in Live /\ K \in SUBSET Tasks
      BY <2>4, ProtocolFacts DEF Spawn, InFunction, Running, TypeOK
    <3>2. PICK j \in Jobs : j = jobOf[cur[w]]
      BY <2>0, <3>1
    <3>3. FJ!Fork(j, K)
      BY <2>4, <3>2, SpawnForks
    <3> QED BY <3>1, <3>3 DEF FJ!Next
  <2>5. CASE Retire(w)
    <3>1. PICK t \in Live : t = cur[w]
      BY <2>5, ProtocolFacts DEF Retire, Owning
    <3> QED BY <1>2, <2>5, <3>1 DEF Retire, taskFields, jobs
  <2>6. CASE FinishJob(w)
    <3>1. cur[w] \in Live
      BY <2>6, ProtocolFacts DEF FinishJob, Running
    <3>2. PICK j \in Jobs : j = jobOf[cur[w]]
      BY <2>0, <3>1
    <3> QED BY <2>6, <3>2, FinishJobCompletes DEF FJ!Next
  <2> QED BY <1>4, <2>1, <2>2, <2>3, <2>4, <2>5, <2>6 DEF Work
<1>5. ASSUME NEW w \in Workers, NEW v \in Workers, NEW t \in Tasks, Steal(w, v, t)
      PROVE  UNCHANGED Visible
  BY <1>1, <1>5 DEF Steal, Begin, jobs
<1>6. CASE UNCHANGED vars
  BY <1>1, <1>6 DEF vars
<1> QED BY <1>3, <1>4, <1>5, <1>6 DEF Next

\* The scheduler implements the fork-join: whatever the workers, thieves and
\* full deques do, a job is a set of items that only its own items extend, and
\* it completes exactly when the set is empty.
THEOREM ForkJoinRefinement == Spec => ImplementsForkJoin
<1>1. JInv /\ [Next]_vars =>
        [FJ!Next]_<<[j \in Jobs |-> IF j \in done THEN "done"
                                    ELSE IF j \in submitted THEN "running" ELSE "new"],
                    [j \in Jobs |-> {t \in Live : jobOf[t] = j /\ parent[t] # None}]>>
  BY NextForks DEF Visible, StatusOf, ItemsOf
<1> QED BY <1>1, InitForks, JobInvariance, PTL DEF Spec, ImplementsForkJoin, FJ!Spec
=============================================================================
