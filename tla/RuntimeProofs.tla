---------------------------- MODULE RuntimeProofs ----------------------------
(***************************************************************************)
(* Waiting for a job, for every number of waiting threads, workers and     *)
(* jobs: no wake-up is lost and no wait returns early.  Boot, submission   *)
(* and stop, for every number of workers, tasks, slots, jobs and boots: a  *)
(* running worker finds its memory allocated, no task has two users, no    *)
(* accepted job gets lost, and a join waits for a thread that was told to  *)
(* stop.  Waiting inside of jobs: somebody can go on while fewer chunks    *)
(* wait than there are workers.                                            *)
(*                                                                         *)
(* NoLostWakeup is not inductive: a thread about to sleep on WAITING must  *)
(* know that a worker still has to finish the job.  That the state word    *)
(* tells so is in TypeOK, but only once a job was started; a thread in a   *)
(* wait, or a worker with a job to finish, witnesses that.                 *)
(*                                                                         *)
(* MemorySafe needs to know where the application thread is (Phases).      *)
(* TasksApart needs the pool to hold every task once, and the uses to be   *)
(* of tasks of this boot (PoolSound, UsesSound): a place in a ring or a    *)
(* hand is a use, and a step moves one use, begins one or ends one.  That  *)
(* the uses are those of the accepted jobs, once each, is JobInv, and what *)
(* the loop of joins relies on is JoinInv.                                 *)
(*                                                                         *)
(* NeverStuck needs to know where every chunk is (BlockPlaces): one that   *)
(* is not executed is in a queue or in the hands of a worker, behind none  *)
(* but a chunk of its own job.                                             *)
(***************************************************************************)
EXTENDS MCRuntime, FiniteSetTheorems, SequenceTheorems, TLAPS

\* A job that is waited for or that will be finished was started.
WaitsForSome ==
  /\ \A a \in Waiters : waiter[a] # "out" => jobs > 0
  /\ running # Nobody => jobs > 0

LatchInv == TypeOK /\ WaitsForSome /\ NoLostWakeup

-----------------------------------------------------------------------------
\* The state word decides where a thread goes: out with DONE, to sleep with
\* WAITING, and to the compare-and-swap with RUNNING.
LEMMA DecideFacts ==
  ASSUME TypeOK
  PROVE  /\ Decide(state) \in {"out", "cas", "futex"}
         /\ Decide(state) = "out" => state = "DONE"
BY DEF TypeOK, Decide

\* DONE is seen only while no worker has the job.
LEMMA DoneMeansFinished ==
  ASSUME TypeOK, state = "DONE"
  PROVE  running = Nobody
BY DEF TypeOK

\* A thread that has only moved, without going to sleep.
LEMMA MovedAwake ==
  ASSUME LatchInv, NEW a \in Waiters, waiter[a] # "out",
         NEW place \in {"out", "spin", "load", "cas", "futex"}, Goto(a, place),
         UNCHANGED <<state, running, waking, jobs>>
  PROVE  LatchInv'
<1>1. TypeOK'
  BY DEF LatchInv, TypeOK, Goto
<1>2. WaitsForSome'
  BY DEF LatchInv, TypeOK, WaitsForSome, Goto
<1>3. NoLostWakeup'
  BY DEF LatchInv, TypeOK, NoLostWakeup, Goto
<1> QED BY <1>1, <1>2, <1>3 DEF LatchInv

-----------------------------------------------------------------------------
\* LatchInv holds initially.
LEMMA LatchInitial == Init => LatchInv
BY LatchAssumption DEF Init, LatchInv, TypeOK, WaitsForSome, NoLostWakeup

\* The threads in scheduler_wait_for_job.
LEMMA WaitStep ==
  ASSUME LatchInv, NEW a \in Waiters,
         WaitCall(a) \/ Wait(a) \/ SpuriousWakeup(a)
  PROVE  LatchInv'
<1>1. CASE WaitCall(a)
  <2>1. TypeOK' /\ NoLostWakeup'
    BY <1>1 DEF LatchInv, TypeOK, NoLostWakeup, WaitCall, Goto
  <2>2. WaitsForSome'
    BY <1>1 DEF LatchInv, TypeOK, WaitsForSome, WaitCall, Goto
  <2> QED BY <2>1, <2>2 DEF LatchInv
<1>2. CASE Spin(a) \/ Load(a) \/ CasFails(a) \/ SpuriousWakeup(a)
  BY <1>2, MovedAwake, DecideFacts
     DEF LatchInv, Spin, Load, CasFails, SpuriousWakeup
<1>3. CASE CasWaiting(a)
  <2>1. jobs > 0 /\ state = "RUNNING" /\ state' = "WAITING"
    BY <1>3 DEF LatchInv, WaitsForSome, CasWaiting, Announce
  <2>2. running # Nobody
    BY <2>1 DEF LatchInv, TypeOK
  <2>3. TypeOK'
    BY <1>3, <2>1, <2>2 DEF LatchInv, TypeOK, CasWaiting, Goto
  <2>4. WaitsForSome' /\ NoLostWakeup'
    BY <1>3, <2>1, <2>2
       DEF LatchInv, TypeOK, WaitsForSome, NoLostWakeup, CasWaiting, Goto
  <2> QED BY <2>3, <2>4 DEF LatchInv
<1>4. CASE FutexWait(a)
  <2>1. CASE Sleeps
    <3>1. Goto(a, "asleep") /\ UNCHANGED <<state, running, waking, jobs>>
      BY <1>4, <2>1 DEF FutexWait
    <3>2. jobs > 0 /\ state = "WAITING" /\ running # Nobody
      BY <1>4, <2>1 DEF FutexWait, LatchInv, WaitsForSome, TypeOK, Sleeps
    <3> QED
      BY <3>1, <3>2 DEF LatchInv, TypeOK, WaitsForSome, NoLostWakeup, Goto
  <2>2. CASE ~Sleeps
    BY <1>4, <2>2, MovedAwake DEF FutexWait
  <2> QED BY <2>1, <2>2
<1> QED BY <1>1, <1>2, <1>3, <1>4 DEF Wait

\* The application that starts a job and the worker that finishes it.
LEMMA WorkerStep ==
  ASSUME LatchInv, NEW w \in Finishers, StartJob(w) \/ Finish(w)
  PROVE  LatchInv'
<1> USE LatchAssumption
<1>1. CASE StartJob(w)
  <2>1. TypeOK'
    BY <1>1 DEF LatchInv, TypeOK, StartJob, Fresh
  <2>2. WaitsForSome' /\ NoLostWakeup'
    BY <1>1 DEF LatchInv, TypeOK, WaitsForSome, NoLostWakeup, StartJob
  <2> QED BY <2>1, <2>2 DEF LatchInv
<1>2. CASE Exchange(w)
  <2>1. jobs > 0
    BY <1>2 DEF LatchInv, WaitsForSome, Exchange
  <2>2. TypeOK'
    BY <1>2, <2>1 DEF LatchInv, TypeOK, Exchange, MustWake
  <2>3. WaitsForSome'
    BY <1>2, <2>1 DEF LatchInv, WaitsForSome, Exchange
  <2>4. NoLostWakeup'
    BY <1>2 DEF LatchInv, NoLostWakeup, Exchange, MustWake
  <2> QED BY <2>2, <2>3, <2>4 DEF LatchInv
<1>3. CASE FutexWake(w)
  <2>1. \A a \in Waiters : waiter'[a] # "asleep"
    BY <1>3 DEF LatchInv, TypeOK, FutexWake, Woken
  <2>2. TypeOK'
    BY <1>3 DEF LatchInv, TypeOK, FutexWake, Woken
  <2>3. WaitsForSome'
    BY <1>3 DEF LatchInv, WaitsForSome, FutexWake, Woken
  <2> QED BY <2>1, <2>2, <2>3 DEF LatchInv, NoLostWakeup
<1> QED BY <1>1, <1>2, <1>3 DEF Finish

\* Every step keeps LatchInv.
LEMMA LatchStep == LatchInv /\ [Next]_vars => LatchInv'
<1> SUFFICES ASSUME LatchInv, [Next]_vars PROVE LatchInv'
  OBVIOUS
<1>1. CASE Next
  BY <1>1, WaitStep, WorkerStep DEF Next
<1>2. CASE UNCHANGED vars
  BY <1>2 DEF vars, LatchInv, TypeOK, WaitsForSome, NoLostWakeup
<1> QED BY <1>1, <1>2

\* A step that brings a thread back to its caller finds no worker with a job
\* to finish.
LEMMA ReturnStep ==
  ASSUME LatchInv, [Next]_vars, NEW a \in Waiters,
         waiter[a] # "out", waiter'[a] = "out"
  PROVE  running = Nobody
<1>1. waiter \in [Waiters -> {"out", "spin", "load", "cas", "futex", "asleep"}]
  BY DEF LatchInv, TypeOK
<1>2. CASE \E w \in Finishers : StartJob(w) \/ Finish(w)
  BY <1>1, <1>2 DEF StartJob, Finish, Exchange, FutexWake, Woken
<1>3. ASSUME NEW b \in Waiters, WaitCall(b) \/ Wait(b) \/ SpuriousWakeup(b)
      PROVE  state = "DONE"
  <2>1. b = a
    BY <1>1, <1>3 DEF WaitCall, Wait, Spin, Load, CasWaiting, CasFails, FutexWait,
         SpuriousWakeup, Goto
  <2>2. CASE Spin(a)
    BY <1>1, <2>2 DEF Spin, Goto
  <2>3. CASE Load(a) \/ CasFails(a)
    BY <1>1, <2>3, DecideFacts DEF LatchInv, Load, CasFails, Goto
  <2>4. CASE WaitCall(a) \/ CasWaiting(a) \/ FutexWait(a) \/ SpuriousWakeup(a)
    BY <1>1, <2>4 DEF WaitCall, CasWaiting, FutexWait, SpuriousWakeup, Goto
  <2> QED BY <1>3, <2>1, <2>2, <2>3, <2>4 DEF Wait
<1>4. CASE UNCHANGED vars
  BY <1>4 DEF vars
<1> QED BY <1>2, <1>3, <1>4, DoneMeansFinished DEF LatchInv, Next

-----------------------------------------------------------------------------
\* The inductive invariant holds in every state.
THEOREM LatchInvariant == Spec => []LatchInv
BY LatchInitial, LatchStep, PTL DEF Spec

\* The state word, the worker that will finish and the workers that still have
\* to wake agree with each other at every step.
THEOREM LatchTyping == Spec => []TypeOK
<1>1. LatchInv => TypeOK
  BY DEF LatchInv
<1> QED BY <1>1, LatchInvariant, PTL

\* A thread asleep in scheduler_wait_for_job is always going to be woken: its
\* job is not finished and will be by a worker that sees WAITING, or a worker
\* is on its way to sk_futex_wake (sk_scheduler.c:420-432, sk_worker.c:278-282).
THEOREM WakeupTheorem == Spec => []NoLostWakeup
<1>1. LatchInv => NoLostWakeup
  BY DEF LatchInv
<1> QED BY <1>1, LatchInvariant, PTL

\* scheduler_wait_for_job never returns while a worker still has to finish the
\* job, although the wake-up of an earlier job of the struct may come late
\* (sk_scheduler.c:419-435, sk_worker.c:282).
THEOREM ReturnTheorem == Spec => NoEarlyReturn
<1>1. LatchInv /\ [Next]_vars =>
        [ \A a \in Waiters :
            waiter[a] # "out" /\ waiter'[a] = "out" => running = Nobody ]_vars
  BY ReturnStep
<1> QED BY <1>1, LatchInvariant, PTL DEF Spec, NoEarlyReturn
-----------------------------------------------------------------------------
(* Boot, submission and stop: what the application thread holds of the pool. *)

\* No task twice.
Distinct(s) == \A i, j \in 1 .. Len(s) : s[i] = s[j] => i = j

\* The tasks of a sequence.
Within(s) == {s[i] : i \in 1 .. Len(s)}

\* Tasks of T, each once: in the cache of the application thread or listed.
PoolOf(T, p) ==
  /\ p.cache \in Seq(T) /\ p.free \subseteq T
  /\ Distinct(p.cache) /\ Within(p.cache) \cap p.free = {}

\* What the application thread can acquire, now or after others.
Holds(p) == Within(p.cache) \cup p.free

\* A task that is acquired was in the pool once and is not there any more.
AcquiredFrom(T, p, r) ==
  /\ PoolOf(T, r) /\ r.task \in Holds(p) \ Holds(r) /\ Holds(r) \subseteq Holds(p)

\* memory_pool_acquire takes a task out of the pool (sk_scheduler.c:28-50).
LEMMA Acquired ==
  ASSUME NEW T, NEW p, PoolOf(T, p), NEW r \in L!Acquire(p)
  PROVE  AcquiredFrom(T, p, r)
<1> PICK c, n, f : c = p.cache /\ n = Len(c) /\ f = p.free
  OBVIOUS
<1>0. c \in Seq(T) /\ n \in Nat /\ Distinct(c) /\ Within(c) \cap f = {} /\ f \subseteq T
  BY DEF PoolOf
<1>1. CASE c # <<>>
  <2>1. n > 0
    BY <1>0, <1>1
  <2>2. PICK s : s = SubSeq(c, 1, n - 1)
    OBVIOUS
  <2>3. r = [task |-> c[n], cache |-> s, free |-> f]
    BY <1>1, <2>2 DEF L!Acquire, L!Last, L!Front
  <2>4. s \in Seq(T) /\ Len(s) = n - 1 /\ \A i \in 1 .. n - 1 : s[i] = c[i]
    <3>1. \A i \in 1 .. n - 1 : c[i] \in T
      BY <1>0, ElementOfSeq
    <3>2. 1 \in Int /\ n - 1 \in Int
      BY <1>0
    <3>3. /\ s \in Seq(T)
          /\ Len(s) = IF 1 <= n - 1 THEN n - 1 - 1 + 1 ELSE 0
          /\ \A i \in 1 .. n - 1 - 1 + 1 : s[i] = c[1 + i - 1]
      BY <2>2, <3>1, <3>2, SubSeqProperties
    <3>4. Len(s) = n - 1 /\ n - 1 - 1 + 1 = n - 1
      BY <1>0, <2>1, <3>3
    <3>5. \A i \in 1 .. n - 1 : i \in 1 .. n - 1 - 1 + 1 /\ 1 + i - 1 = i
      BY <1>0
    <3> QED BY <3>3, <3>4, <3>5
  <2>10. \A i \in 1 .. n - 1 : i \in 1 .. n /\ i # n
    BY <1>0
  <2>5. Distinct(s)
    BY <1>0, <2>4, <2>10 DEF Distinct
  <2>6. Within(c) = Within(s) \cup {c[n]} /\ c[n] \notin Within(s)
    <3>1. n \in 1 .. n /\ \A i \in 1 .. n : i = n \/ i \in 1 .. n - 1
      BY <1>0, <2>1
    <3>2. \A i \in 1 .. n - 1 : s[i] # c[n]
      BY <1>0, <2>4, <2>10, <3>1 DEF Distinct
    <3>3. Within(c) = {c[i] : i \in 1 .. n} /\ Within(s) = {c[i] : i \in 1 .. n - 1}
      BY <2>4 DEF Within
    <3>4. Within(c) = Within(s) \cup {c[n]}
      BY <2>10, <3>1, <3>3
    <3>5. c[n] \notin Within(s)
      BY <2>4, <3>2 DEF Within
    <3> QED BY <3>4, <3>5
  <2>7. PoolOf(T, r)
    BY <1>0, <2>3, <2>4, <2>5, <2>6 DEF PoolOf
  <2>8. Holds(r) = Within(s) \cup f /\ Holds(p) = Within(c) \cup f
    BY <2>3 DEF Holds
  <2>9. c[n] \notin f
    BY <1>0, <2>6
  <2> QED BY <2>3, <2>6, <2>7, <2>8, <2>9 DEF AcquiredFrom
<1>2. CASE c = <<>>
  <2>1. PICK t \in f : r = [task |-> t, cache |-> <<>>, free |-> f \ {t}]
    BY <1>2 DEF L!Acquire
  <2>2. Within(<<>>) = {} /\ Distinct(<<>>) /\ <<>> \in Seq(T)
    BY DEF Within, Distinct
  <2>3. PoolOf(T, r)
    BY <1>0, <2>1, <2>2 DEF PoolOf
  <2>4. Holds(r) = f \ {t} /\ Holds(p) = f
    BY <1>2, <2>1, <2>2 DEF Holds
  <2> QED BY <2>1, <2>3, <2>4 DEF AcquiredFrom
<1> QED BY <1>1, <1>2

\* A task that comes back to the cache.
WithTask(p, t) == [cache |-> Append(p.cache, t), free |-> p.free]

\* A task the pool does not hold makes no duplicate in the cache.
LEMMA Returned ==
  ASSUME NEW T, NEW p, PoolOf(T, p), NEW t \in T, t \notin Holds(p)
  PROVE  PoolOf(T, WithTask(p, t)) /\ Holds(WithTask(p, t)) = Holds(p) \cup {t}
<1> PICK c, n, s, q : c = p.cache /\ n = Len(c) /\ s = Append(c, t) /\ q = WithTask(p, t)
  OBVIOUS
<1>1. c \in Seq(T) /\ n \in Nat /\ Distinct(c) /\ Within(c) \cap p.free = {}
  BY DEF PoolOf
<1>2. /\ s \in Seq(T) /\ Len(s) = n + 1 /\ s[n + 1] = t
      /\ \A i \in 1 .. n : s[i] = c[i]
  BY <1>1
<1>3. t \notin Within(c) /\ t \notin p.free
  BY DEF Holds
<1>4. Within(s) = Within(c) \cup {t}
  <2>1. \A i \in 1 .. n + 1 : i \in 1 .. n \/ i = n + 1
    BY <1>1
  <2>2. \A i \in 1 .. n : i \in 1 .. n + 1
    BY <1>1
  <2>3. n + 1 \in 1 .. n + 1
    BY <1>1
  <2> QED BY <1>2, <2>1, <2>2, <2>3 DEF Within
<1>5. Distinct(s)
  <2> SUFFICES ASSUME NEW i \in 1 .. n + 1, NEW j \in 1 .. n + 1, s[i] = s[j] PROVE i = j
    BY <1>2 DEF Distinct
  <2>1. \A k \in 1 .. n : s[k] # t
    BY <1>2, <1>3 DEF Within
  <2>2. CASE i \in 1 .. n /\ j \in 1 .. n
    BY <1>1, <1>2, <2>2 DEF Distinct
  <2>3. CASE i = n + 1 \/ j = n + 1
    BY <1>1, <1>2, <2>1, <2>3
  <2> QED BY <1>1, <2>2, <2>3
<1>6. q.cache = s /\ q.free = p.free
  BY DEF WithTask
<1>7. PoolOf(T, q)
  BY <1>1, <1>2, <1>3, <1>4, <1>5, <1>6 DEF PoolOf
<1> QED BY <1>4, <1>6, <1>7 DEF Holds

-----------------------------------------------------------------------------
(* Boot, submission and stop: who uses which task.                          *)

\* Two tasks for every use, and no task in two uses or in the set F.
Apart(U, of, F) ==
  /\ \A u \in U : of[u].root # of[u].child /\ {of[u].root, of[u].child} \cap F = {}
  /\ \A u, v \in U : u # v => {of[u].root, of[u].child} \cap {of[v].root, of[v].child} = {}

\* Uses that end, and others that have moved.
LEMMA UsesMoved ==
  ASSUME NEW U, NEW of, NEW F, Apart(U, of, F),
         NEW W, NEW with, NEW G, G \subseteq F,
         NEW from, \A u \in W : from[u] \in U /\ with[u] = of[from[u]],
         \A u, v \in W : from[u] = from[v] => u = v
  PROVE  Apart(W, with, G)
BY DEF Apart

\* One use less, its tasks are where they are free.
LEMMA UseEnded ==
  ASSUME NEW U, NEW of, NEW F, Apart(U, of, F), NEW x \in U,
         NEW W, NEW with, W \subseteq U \ {x}, \A u \in W : with[u] = of[u],
         NEW G, G \subseteq F \cup {of[x].root, of[x].child}
  PROVE  Apart(W, with, G)
BY DEF Apart

\* x is a use of two tasks of F, the other uses are old, G is left of F.
Begun(U, of, F, x, W, with, G) ==
  /\ W \subseteq U \cup {x} /\ \A u \in W \ {x} : with[u] = of[u]
  /\ with[x].root \in F /\ with[x].child \in F /\ with[x].root # with[x].child
  /\ G \subseteq F \ {with[x].root, with[x].child}

\* One use more, of two tasks that were free.
LEMMA UseBegun ==
  ASSUME NEW U, NEW of, NEW F, Apart(U, of, F),
         NEW x, NEW W, NEW with, NEW G, Begun(U, of, F, x, W, with, G)
  PROVE  Apart(W, with, G)
BY DEF Apart, Begun

-----------------------------------------------------------------------------
(* Boot, submission and stop: the inductive invariant.                      *)

\* Tasks of every boot, and what a ring or a hand can hold.
AnyTask == Nat \X Nat
AnyEntry == [job : Names \cup {"none"}, root : AnyTask, child : AnyTask]

\* L!TypeOK bounds the rings by their length only.
LifeTypes ==
  /\ L!TypeOK
  /\ ring \in [L!Workers -> Seq(AnyEntry)]
  /\ hand \in [L!Workers -> AnyEntry]

\* Where the application thread is when no worker thread runs.
Quiet ==
  \/ app.pc \in {"pool", "buffers", "tasks", "free"}
  \/ app.pc = "out" /\ ~L!Booted

\* Where it is when every block is allocated.
Complete ==
  \/ app.pc \in {"create", "flags", "join", "crashed"}
  \/ app.pc = "out" /\ L!Booted

\* Where the application thread is tells what is allocated and who runs.
Phases ==
  /\ app.pc = "pool" => ~L!Booted
  /\ Complete => allocated = L!Blocks
  /\ Quiet => \A w \in L!Workers : ~L!Alive(w)
  /\ app.pc = "join" => \A w \in 1 .. app.k - 1 : ~L!Alive(w)

\* The pool has each task of the array of this boot at most once.
PoolSound == PoolOf(L!Tasks(boots), L!Pool)

\* The entry of each use, as a function.
UseEntries == [u \in L!Uses |-> L!Entry(u)]

\* Tasks in use are of the array of this boot and apart from each other and the pool.
UsesSound ==
  /\ \A u \in L!Uses : {UseEntries[u].root, UseEntries[u].child} \subseteq L!Tasks(boots)
  /\ Apart(L!Uses, UseEntries, Holds(L!Pool))

\* Between the allocation of the array and that of the rings, what is left in the
\* freed rings belongs to the boot before.
LifeInv == LifeTypes /\ Phases /\ PoolSound /\ (app.pc # "pool" => UsesSound)

\* The assumption on the constants, under the names of MCRuntime.
LEMMA LifeConstants ==
  /\ Cores \in Nat \ {0} /\ PoolTasks \in Nat \ {0} /\ Slots \in Nat \ {0} /\ Boots \in Nat
  /\ ThreadsFail \in BOOLEAN
BY RuntimeAssumption DEF L!LifecycleAssumption

\* Uses go on or end, the pool does not get their tasks.
LEMMA UsesKept ==
  ASSUME UsesSound, UNCHANGED <<ring, hand, boots>>,
         Holds(L!Pool)' \subseteq Holds(L!Pool),
         \A w \in L!Workers : thread'[w] = "busy" => thread[w] = "busy"
  PROVE  UsesSound'
<1> PICK U, of, W, with, from :
      /\ U = L!Uses /\ of = UseEntries /\ W = L!Uses' /\ with = UseEntries'
      /\ from = [u \in W |-> u]
  OBVIOUS
<1> PICK F, G : F = Holds(L!Pool) /\ G = Holds(L!Pool)'
  OBVIOUS
<1>1. W \subseteq U
  BY DEF L!Uses, L!Workers
<1>2. \A u \in W : from[u] \in U /\ with[u] = of[from[u]]
  BY <1>1 DEF UseEntries, L!Entry
<1>3. \A u, v \in W : from[u] = from[v] => u = v
  OBVIOUS
<1>4. Apart(U, of, F)
  BY DEF UsesSound
<1>5. Apart(W, with, G)
  BY <1>2, <1>3, <1>4, UsesMoved
<1>6. \A u \in W : {with[u].root, with[u].child} \subseteq L!Tasks(boots)'
  BY <1>1, <1>2 DEF UsesSound, L!Tasks
<1> QED BY <1>5, <1>6 DEF UsesSound

\* A step that leaves rings, hands and pool alone.
LEMMA QuietStep ==
  ASSUME PoolSound, app.pc # "pool" => UsesSound, app'.pc # "pool" => app.pc # "pool",
         UNCHANGED <<boots, free, appCache, ring, hand>>,
         \A w \in L!Workers : thread'[w] = "busy" => thread[w] = "busy"
  PROVE  PoolSound' /\ (app'.pc # "pool" => UsesSound')
<1>1. L!Pool' = L!Pool
  BY DEF L!Pool
<1>2. PoolSound'
  BY <1>1 DEF PoolSound, L!Tasks
<1>3. Holds(L!Pool)' \subseteq Holds(L!Pool)
  BY <1>1 DEF Holds
<1> QED BY <1>2, <1>3, UsesKept

-----------------------------------------------------------------------------
(* Boot, submission and stop: initial states and steps.                     *)

\* Before the first boot nothing is allocated and no task exists.
LEMMA LifeInitial == L!Init => LifeInv
<1> SUFFICES ASSUME L!Init PROVE LifeInv
  OBVIOUS
<1> USE DEF L!Init
<1>1. L!TypeOK
  BY LifeConstants DEF L!TypeOK, L!Workers, L!Blocks, L!Tasks
<1>2. ring \in [L!Workers -> Seq(AnyEntry)] /\ hand \in [L!Workers -> AnyEntry]
  BY DEF L!Nothing, AnyEntry, AnyTask
<1>3. Phases
  BY DEF Phases, Quiet, Complete, L!Booted, L!Alive
<1>4. PoolSound
  BY DEF PoolSound, PoolOf, L!Pool, Distinct, Within
<1>5. UsesSound
  <2>1. L!Uses = {}
    BY LifeConstants DEF L!Uses
  <2> QED BY <2>1 DEF UsesSound, Apart
<1> QED BY <1>1, <1>2, <1>3, <1>4, <1>5 DEF LifeInv, LifeTypes

\* The new array is the whole pool: the cache has no task of an older one.
LEMMA BootTasksStep == ASSUME LifeInv, L!BootTasks, appCache = <<>> PROVE LifeInv'
<1> USE DEF L!BootTasks, L!Goto, LifeInv, LifeTypes
<1>1. LifeTypes'
  BY LifeConstants DEF L!TypeOK, L!Blocks, L!Workers
<1>2. Phases'
  BY DEF Phases, Quiet, Complete, L!Booted, L!Alive
<1>3. PoolSound'
  BY DEF PoolSound, PoolOf, L!Pool, Distinct, Within
<1>4. app'.pc = "pool"
  OBVIOUS
<1> QED BY <1>1, <1>2, <1>3, <1>4

\* allocate_worker_pool: the rings are empty, so no task is used.
LEMMA BootPoolStep == ASSUME LifeInv, L!BootPool PROVE LifeInv'
<1> USE DEF L!BootPool, L!Goto, LifeInv, LifeTypes
<1>1. LifeTypes'
  BY LifeConstants DEF L!TypeOK, L!Workers, L!EmptyRings, L!Tasks
<1>2. Phases'
  BY DEF Phases, Quiet, Complete, L!Booted, L!Alive, L!Blocks
<1>3. PoolSound'
  BY DEF PoolSound, L!Pool, L!Tasks
<1>4. UsesSound'
  <2>1. L!Uses' = {}
    BY LifeConstants DEF L!Uses, L!EmptyRings, Phases, Quiet, L!Alive
  <2> QED BY <2>1 DEF UsesSound, Apart
<1> QED BY <1>1, <1>2, <1>3, <1>4

\* The next round of a loop, or what comes after it.
LEMMA RoundFacts ==
  ASSUME L!TypeOK, NEW after, L!Round(after)
  PROVE  /\ app.k \in L!Workers /\ app.k \in Nat
         /\ \/ app.k = Cores /\ app'.pc = after /\ app'.k = 1 /\ 1 \in L!Workers
               /\ app' = [pc |-> after, k |-> 1]
            \/ app.k # Cores /\ app'.pc = app.pc /\ app'.k = app.k + 1
               /\ app.k + 1 \in L!Workers /\ app' = [pc |-> app.pc, k |-> app.k + 1]
<1> PICK k, pc2 : k = app.k /\ pc2 = app.pc
  OBVIOUS
<1>1. k \in 1 .. Cores /\ app = [pc |-> pc2, k |-> k]
  BY DEF L!TypeOK, L!Workers
<1>2. CASE k = Cores
  BY <1>1, <1>2, LifeConstants DEF L!Round, L!Workers
<1>3. CASE k # Cores
  <2>1. app' = [pc |-> pc2, k |-> k + 1]
    BY <1>1, <1>3 DEF L!Round
  <2>2. k + 1 \in 1 .. Cores /\ k \in Nat
    BY <1>1, <1>3, LifeConstants
  <2> QED BY <1>1, <1>3, <2>1, <2>2 DEF L!Workers
<1> QED BY <1>2, <1>3

\* A thread starts, or fails to, when everything is allocated.
LEMMA BootThreadStep == ASSUME LifeInv, L!BootThread PROVE LifeInv'
<1> USE DEF L!BootThread, LifeInv, LifeTypes, L!queues, L!memory
<1>1. PICK result \in {"top", "failed"} : thread' = [thread EXCEPT ![app.k] = result]
  OBVIOUS
<1>2. app.k \in L!Workers /\ app.pc = "create" /\ app' \in [pc : {"create", "out"}, k : L!Workers]
  BY RoundFacts
<1>3. LifeTypes'
  BY <1>1, <1>2 DEF L!TypeOK, L!Tasks
<1>4. Phases'
  BY <1>2 DEF Phases, Quiet, Complete, L!Booted, L!Blocks
<1>5. \A w \in L!Workers : thread'[w] = "busy" => thread[w] = "busy"
  BY <1>1 DEF L!TypeOK
<1> QED BY <1>2, <1>3, <1>4, <1>5, QuietStep

\* scheduler_stop_workers is called: everything is still allocated.
LEMMA StopCallStep == ASSUME LifeInv, L!StopCall PROVE LifeInv'
<1> USE DEF L!StopCall, L!Goto, LifeInv, LifeTypes, L!queues, L!memory
<1>1. LifeTypes'
  BY LifeConstants DEF L!TypeOK, L!Workers, L!Tasks
<1>2. Phases'
  BY DEF Phases, Quiet, Complete, L!Booted
<1>3. app'.pc = "flags" /\ app.pc = "out"
  OBVIOUS
<1> QED BY <1>1, <1>2, <1>3, QuietStep

\* The termination flags stop nobody at once.
LEMMA StopFlagStep == ASSUME LifeInv, L!StopFlag PROVE LifeInv'
<1> USE DEF L!StopFlag, LifeInv, LifeTypes, L!queues, L!memory
<1>1. /\ app.pc = "flags"
      /\ app' \in [pc : {"flags", "join"}, k : L!Workers]
      /\ app'.pc = "join" => app'.k = 1
  BY RoundFacts
<1>2. LifeTypes'
  BY <1>1 DEF L!TypeOK, L!Tasks, L!Flagged
<1>3. Phases'
  <2>1. 1 .. 1 - 1 = {}
    OBVIOUS
  <2> QED BY <1>1, <2>1 DEF Phases, Quiet, Complete
<1> QED BY <1>1, <1>2, <1>3, QuietStep

\* pthread_join: another thread is known to have ended.
LEMMA StopJoinStep ==
  ASSUME LifeInv, L!StopJoin \/ L!StopJoinFailed
  PROVE  LifeInv'
<1> USE DEF LifeInv, LifeTypes, L!queues, L!memory
<1>1. /\ app.pc = "join" /\ ~L!Alive(app.k)
      /\ L!Round("buffers") \/ app' = [pc |-> "crashed", k |-> 1]
      /\ UNCHANGED <<boots, allocated, free, appCache, ring, rr, job, flag, thread, hand>>
  BY DEF L!StopJoin, L!StopJoinFailed, L!Joinable, L!Goto, L!Alive
<1>2. \A w \in 1 .. app.k : ~L!Alive(w)
  <2>1. app.k \in Nat
    BY DEF L!TypeOK, L!Workers
  <2>2. \A w \in 1 .. app.k : w = app.k \/ w \in 1 .. app.k - 1
    BY <2>1
  <2> QED BY <1>1, <2>2 DEF Phases
<1>3. /\ app' \in [pc : {"join", "buffers", "crashed"}, k : L!Workers]
      /\ app'.pc = "buffers" => app.k = Cores
      /\ app'.pc = "join" => app'.k - 1 = app.k
  <2>1. CASE L!Round("buffers")
    <3>1. app'.k = app.k + 1 => app'.k - 1 = app.k
      BY <2>1, RoundFacts
    <3> QED BY <1>1, <2>1, <3>1, RoundFacts
  <2>2. CASE app' = [pc |-> "crashed", k |-> 1]
    BY <2>2, LifeConstants DEF L!Workers
  <2> QED BY <1>1, <2>1, <2>2
<1>4. LifeTypes'
  BY <1>1, <1>3 DEF L!TypeOK, L!Tasks
<1>5. Phases'
  <2>1. app'.pc = "buffers" => \A w \in L!Workers : ~L!Alive(w)
    BY <1>2, <1>3 DEF L!Workers
  <2>2. app'.pc = "join" => \A w \in 1 .. app'.k - 1 : ~L!Alive(w)
    BY <1>2, <1>3
  <2> QED BY <1>1, <1>3, <2>1, <2>2 DEF Phases, Quiet, Complete, L!Alive
<1> QED BY <1>1, <1>4, <1>5, <1>3, QuietStep

\* The rings are freed after the last join.
LEMMA StopBuffersStep == ASSUME LifeInv, L!StopBuffers PROVE LifeInv'
<1> USE DEF L!StopBuffers, LifeInv, LifeTypes, L!queues
<1>1. app.pc = "buffers" /\ app' \in [pc : {"buffers", "tasks"}, k : L!Workers]
  BY RoundFacts
<1>2. LifeTypes'
  BY <1>1 DEF L!TypeOK, L!Tasks
<1>3. Phases'
  BY <1>1 DEF Phases, Quiet, Complete, L!Alive
<1> QED BY <1>1, <1>2, <1>3, QuietStep

\* worker_pool is freed and its thread handles are forgotten.
LEMMA StopPoolStep == ASSUME LifeInv, L!StopPool PROVE LifeInv'
<1> USE DEF L!StopPool, L!Goto, LifeInv, LifeTypes, L!queues
<1>1. app.pc = "free" /\ app' = [pc |-> "out", k |-> 1] /\ <<"pool">> \notin allocated'
  OBVIOUS
<1>2. LifeTypes'
  BY <1>1, LifeConstants DEF L!TypeOK, L!Tasks, L!Workers
<1>3. Phases'
  BY <1>1 DEF Phases, Quiet, Complete, L!Booted, L!Alive
<1>4. \A w \in L!Workers : thread'[w] = "busy" => thread[w] = "busy"
  OBVIOUS
<1> QED BY <1>1, <1>2, <1>3, <1>4, QuietStep

\* No thread starts, and the application thread stays where it is.
LEMMA PhasesKept ==
  ASSUME L!TypeOK, Phases, UNCHANGED <<app, allocated>>,
         \A v \in L!Workers : L!Alive(v)' => L!Alive(v)
  PROVE  Phases'
<1>1. app.k \in 1 .. Cores /\ Cores \in Nat
  BY LifeConstants DEF L!TypeOK, L!Workers
<1>2. 1 .. app.k - 1 \subseteq L!Workers
  BY <1>1 DEF L!Workers
<1>3. app.pc = "join" => \A v \in 1 .. app.k - 1 : ~L!Alive(v)'
  BY <1>2 DEF Phases
<1>4. (\A v \in L!Workers : ~L!Alive(v)) => \A v \in L!Workers : ~L!Alive(v)'
  OBVIOUS
<1>5. (Quiet' <=> Quiet) /\ (Complete' <=> Complete) /\ (L!Booted' <=> L!Booted)
  BY DEF Quiet, Complete, L!Booted
<1> QED BY <1>3, <1>4, <1>5 DEF Phases

\* The loop of a worker that gets no task.
LEMMA IdleStep ==
  ASSUME LifeInv, NEW w \in L!Workers, L!WorkerTop(w) \/ L!FindNothing(w)
  PROVE  LifeInv'
<1> USE DEF LifeInv, LifeTypes, L!queues, L!memory
<1>1. thread[w] \in {"top", "look"}
  BY DEF L!WorkerTop, L!FindNothing
<1>2. PICK place \in {"top", "look", "ended"} : thread' = [thread EXCEPT ![w] = place]
  BY DEF L!WorkerTop, L!FindNothing
<1>3. UNCHANGED <<app, boots, allocated, free, appCache, ring, rr, job, flag, hand>>
  BY DEF L!WorkerTop, L!FindNothing
<1>4. LifeTypes'
  BY <1>2, <1>3 DEF L!TypeOK, L!Tasks
<1>5. \A v \in L!Workers : /\ L!Alive(v)' => L!Alive(v)
                           /\ thread'[v] = "busy" => thread[v] = "busy"
  BY <1>1, <1>2 DEF L!TypeOK, L!Alive
<1>6. Phases'
  BY <1>3, <1>5, PhasesKept
<1> QED BY <1>3, <1>4, <1>5, <1>6, QuietStep

\* The task array is freed: the list is gone, the cache still has its tasks.
LEMMA StopTasksStep == ASSUME LifeInv, L!StopTasks PROVE LifeInv'
<1> USE DEF L!StopTasks, L!Goto, LifeInv, LifeTypes
<1>1. app.pc = "tasks" /\ app' = [pc |-> "free", k |-> 1]
  OBVIOUS
<1>2. LifeTypes'
  BY <1>1, LifeConstants DEF L!TypeOK, L!Tasks, L!Workers
<1>3. Phases'
  BY <1>1 DEF Phases, Quiet, Complete, L!Alive
<1>4. L!Pool' = [cache |-> appCache, free |-> {}]
  BY DEF L!Pool
<1>5. PoolSound' /\ Holds(L!Pool)' \subseteq Holds(L!Pool)
  BY <1>4 DEF PoolSound, PoolOf, Holds, L!Pool, L!Tasks
<1>6. UsesSound'
  BY <1>1, <1>5, UsesKept
<1> QED BY <1>2, <1>3, <1>5, <1>6

-----------------------------------------------------------------------------
(* Boot, submission and stop: tasks that move.                              *)

\* The places one by one.
PlacesAre(U, of, thr, rng, hnd) ==
  /\ \A u \in U : u = <<u[1], u[2]>> /\ u[1] \in L!Workers /\ u[2] \in Nat
  /\ \A z \in L!Workers :
       /\ <<z, 0>> \in U <=> thr[z] = "busy"
       /\ <<z, 0>> \in U => of[<<z, 0>>] = hnd[z]
  /\ \A z \in L!Workers, k \in Nat \ {0} :
       /\ <<z, k>> \in U <=> k <= Len(rng[z])
       /\ <<z, k>> \in U => of[<<z, k>>] = rng[z][k]

\* The places of a state.
PlacesKnown == PlacesAre(L!Uses, UseEntries, thread, ring, hand)

\* L!Uses and L!Entry, place by place.
LEMMA PlacesOfUse == LifeTypes => PlacesKnown
<1> SUFFICES ASSUME LifeTypes PROVE PlacesKnown
  OBVIOUS
<1>1. \A z \in L!Workers, k \in Nat \ {0} : k <= Len(ring[z]) => k \in 0 .. Slots
  <2>1. \A z \in L!Workers : Len(ring[z]) \in Nat /\ Len(ring[z]) <= Slots
    BY DEF LifeTypes, L!TypeOK
  <2> QED BY <2>1, LifeConstants
<1>2. 0 \in 0 .. Slots
  BY LifeConstants
<1> QED BY <1>1, <1>2 DEF PlacesKnown, PlacesAre, L!Uses, L!Entry, UseEntries

\* The same of the next state.
LEMMA PlacesAfter == LifeTypes' => PlacesKnown'
BY PlacesOfUse, PTL

\* A pool of tasks of T holds nothing else.
LEMMA HoldsInside == ASSUME NEW T, NEW p, PoolOf(T, p) PROVE Holds(p) \subseteq T
BY DEF PoolOf, Holds, Within

\* The job in a hand is done, and its tasks go to the pool.
LEMMA FinishJobStep ==
  ASSUME LifeInv, NEW w \in L!Workers, L!FinishJob(w)
  PROVE  LifeInv'
<1> PICK x, r, c : x = <<w, 0>> /\ r = hand[w].root /\ c = hand[w].child
  OBVIOUS
<1>0. LifeTypes /\ Phases /\ PoolSound /\ (app.pc # "pool" => UsesSound)
  BY DEF LifeInv
<1>1. /\ thread[w] = "busy" /\ app.pc # "pool"
      /\ UNCHANGED <<app, boots, allocated, appCache, ring>>
      /\ free' = free \cup {r, c}
      /\ thread' = [thread EXCEPT ![w] = "top"] /\ hand' = [hand EXCEPT ![w] = L!Nothing]
  BY <1>0 DEF L!FinishJob, L!memory, Phases, Quiet, L!Alive
<1>2. x \in L!Uses /\ UseEntries[x] = hand[w]
  BY <1>0, <1>1, PlacesOfUse DEF PlacesKnown, PlacesAre
<1>3. r \in L!Tasks(boots) /\ c \in L!Tasks(boots) /\ r \notin Holds(L!Pool) /\ c \notin Holds(L!Pool)
  <2> PICK U, of, F, T : U = L!Uses /\ of = UseEntries /\ F = Holds(L!Pool) /\ T = L!Tasks(boots)
    OBVIOUS
  <2>0. UsesSound
    BY <1>0, <1>1
  <2>1. Apart(U, of, F) /\ \A u \in U : {of[u].root, of[u].child} \subseteq T
    BY <2>0, Zenon DEF UsesSound
  <2>2. x \in U /\ of[x].root = r /\ of[x].child = c
    BY <1>2
  <2>3. {of[x].root, of[x].child} \subseteq T /\ {of[x].root, of[x].child} \cap F = {}
    BY <2>1, <2>2 DEF Apart
  <2> QED BY <2>2, <2>3
<1>4. LifeTypes'
  <2>1. free' \subseteq L!Tasks(boots)
    BY <1>0, <1>1, <1>3 DEF LifeTypes, L!TypeOK
  <2>2. L!TypeOK'
    <3>1. L!Tasks(boots') = L!Tasks(boots)
      BY <1>1
    <3>2. UNCHANGED <<rr, flag>> /\ job' \in [Names -> {"new", "accepted", "done", "dropped"}]
      BY <1>0 DEF LifeTypes, L!TypeOK, L!FinishJob
    <3> QED BY <1>0, <1>1, <2>1, <3>1, <3>2 DEF LifeTypes, L!TypeOK
  <2>3. L!Nothing \in AnyEntry
    BY DEF L!Nothing, AnyEntry, AnyTask
  <2> QED BY <1>0, <1>1, <2>2, <2>3 DEF LifeTypes
<1>5. \A z \in L!Workers : thread'[z] = IF z = w THEN "top" ELSE thread[z]
  BY <1>0, <1>1 DEF LifeTypes, L!TypeOK
<1>6. Phases'
  BY <1>0, <1>1, <1>5, PhasesKept DEF L!Alive, LifeTypes
<1>7. L!Pool' = [cache |-> appCache, free |-> free \cup {r, c}]
  BY <1>1 DEF L!Pool
<1>8. PoolSound' /\ Holds(L!Pool)' = Holds(L!Pool) \cup {r, c}
  BY <1>0, <1>1, <1>3, <1>7 DEF PoolSound, PoolOf, Holds, L!Pool, L!Tasks
<1>9. UsesSound'
  <2> PICK U, of, W, with : U = L!Uses /\ of = UseEntries /\ W = L!Uses' /\ with = UseEntries'
    OBVIOUS
  <2>1. W \subseteq U \ {x}
    <3> SUFFICES ASSUME NEW u \in W PROVE u \in U /\ u # x
      OBVIOUS
    <3>1. u = <<u[1], u[2]>> /\ u[1] \in L!Workers /\ u[2] \in Nat
      BY <1>4, PlacesAfter DEF PlacesKnown, PlacesAre
    <3>2. CASE u[2] = 0
      BY <1>0, <1>4, <1>5, <3>1, <3>2, PlacesOfUse, PlacesAfter DEF PlacesKnown, PlacesAre
    <3>3. CASE u[2] # 0
      BY <1>0, <1>1, <1>4, <3>1, <3>3, PlacesOfUse, PlacesAfter DEF PlacesKnown, PlacesAre
    <3> QED BY <3>2, <3>3
  <2>2. \A u \in W : with[u] = of[u]
    <3> SUFFICES ASSUME NEW u \in W PROVE L!Entry(u)' = L!Entry(u)
      BY <2>1 DEF UseEntries
    <3>1. u = <<u[1], u[2]>> /\ u[1] \in L!Workers /\ u # <<w, 0>>
      BY <1>4, <2>1, PlacesAfter DEF PlacesKnown, PlacesAre
    <3>2. u[2] = 0 => hand'[u[1]] = hand[u[1]]
      BY <1>0, <1>1, <3>1 DEF LifeTypes
    <3> QED BY <1>1, <3>2 DEF L!Entry
  <2>3. Apart(U, of, Holds(L!Pool))
    BY <1>0, <1>1 DEF UsesSound
  <2>4. Apart(W, with, Holds(L!Pool)')
    BY <1>2, <1>8, <2>1, <2>2, <2>3, UseEnded
  <2>5. \A u \in W : {with[u].root, with[u].child} \subseteq L!Tasks(boots)'
    BY <1>0, <1>1, <2>1, <2>2 DEF UsesSound, L!Tasks
  <2> QED BY <2>4, <2>5 DEF UsesSound
<1> QED BY <1>4, <1>6, <1>8, <1>9 DEF LifeInv

\* The front of one ring goes to a hand, the others of this ring move up.
FrontGone(n, w, v, thr, rng, hnd, thr2, rng2, hnd2) ==
  /\ n \in Nat \ {0} /\ Len(rng[v]) = n /\ Len(rng2[v]) = n - 1
  /\ \A k \in 1 .. n - 1 : rng2[v][k] = rng[v][k + 1]
  /\ \A z \in L!Workers : /\ z # v => rng2[z] = rng[z]
                          /\ z # w => thr2[z] = thr[z] /\ hnd2[z] = hnd[z]
  /\ hnd2[w] = rng[v][1] /\ thr[w] # "busy" /\ thr2[w] = "busy"

\* Entries that were in places U are in places W now: each as before, none new, none lost.
Moved(U, of, W, with, from) ==
  /\ \A u \in W : from[u] \in U /\ with[u] = of[from[u]]
  /\ \A u, t \in W : from[u] = from[t] => u = t
  /\ \A t \in U : \E u \in W : from[u] = t

\* The front of a ring moves to a hand, what was behind it moves up.
LEMMA FrontMoves ==
  ASSUME NEW U, NEW of, NEW thr, NEW rng, NEW hnd, PlacesAre(U, of, thr, rng, hnd),
         NEW W, NEW with, NEW thr2, NEW rng2, NEW hnd2, PlacesAre(W, with, thr2, rng2, hnd2),
         NEW w \in L!Workers, NEW v \in L!Workers,
         NEW n, FrontGone(n, w, v, thr, rng, hnd, thr2, rng2, hnd2)
  PROVE  \E from : Moved(U, of, W, with, from)
<1> USE DEF FrontGone
<1>0. PICK from : from = [u \in W |-> IF u[2] = 0 THEN IF u[1] = w THEN <<v, 1>> ELSE u
                                      ELSE IF u[1] = v THEN <<v, u[2] + 1>> ELSE u]
  OBVIOUS
<1>1. \A u \in W : \E z \in L!Workers, k \in Nat :
        /\ u = <<z, k>>
        /\ from[u] = IF k = 0 THEN IF z = w THEN <<v, 1>> ELSE <<z, 0>>
                     ELSE IF z = v THEN <<v, k + 1>> ELSE <<z, k>>
  <2> SUFFICES ASSUME NEW u \in W
               PROVE  \E z \in L!Workers, k \in Nat :
                        /\ u = <<z, k>>
                        /\ from[u] = IF k = 0 THEN IF z = w THEN <<v, 1>> ELSE <<z, 0>>
                                     ELSE IF z = v THEN <<v, k + 1>> ELSE <<z, k>>
    OBVIOUS
  <2>1. PICK z \in L!Workers, k \in Nat : u = <<z, k>>
    BY DEF PlacesAre
  <2>2. u[1] = z /\ u[2] = k
    BY <2>1
  <2> QED BY <1>0, <2>1, <2>2
<1>2. \A u \in W : from[u] \in U /\ with[u] = of[from[u]]
  <2> SUFFICES ASSUME NEW u \in W PROVE from[u] \in U /\ with[u] = of[from[u]]
    OBVIOUS
  <2>0. PICK z \in L!Workers, k \in Nat :
          /\ u = <<z, k>>
          /\ from[u] = IF k = 0 THEN IF z = w THEN <<v, 1>> ELSE <<z, 0>>
                       ELSE IF z = v THEN <<v, k + 1>> ELSE <<z, k>>
    BY <1>1
  <2>1. CASE k = 0 /\ z = w
    <3>1. from[u] = <<v, 1>> /\ u = <<w, 0>>
      BY <2>0, <2>1
    <3>2. with[<<w, 0>>] = hnd2[w]
      BY <3>1, Zenon DEF PlacesAre
    <3>3. 1 \in Nat \ {0} /\ 1 <= Len(rng[v])
      OBVIOUS
    <3>4. <<v, 1>> \in U /\ of[<<v, 1>>] = rng[v][1]
      BY <3>3, Zenon DEF PlacesAre
    <3> QED BY <3>1, <3>2, <3>4
  <2>2. CASE k = 0 /\ z # w
    <3>1. from[u] = <<z, 0>> /\ u = <<z, 0>>
      BY <2>0, <2>2
    <3>2. thr2[z] = "busy" /\ with[<<z, 0>>] = hnd2[z]
      BY <3>1, Zenon DEF PlacesAre
    <3>3. thr[z] = "busy" /\ hnd2[z] = hnd[z]
      BY <2>2, <3>2
    <3>4. <<z, 0>> \in U
      BY <3>3, Zenon DEF PlacesAre
    <3>5. of[<<z, 0>>] = hnd[z]
      BY <3>4, Zenon DEF PlacesAre
    <3> QED BY <3>1, <3>2, <3>3, <3>4, <3>5
  <2>3. CASE k # 0 /\ z = v
    <3>1. from[u] = <<v, k + 1>> /\ u = <<v, k>> /\ k \in Nat \ {0}
      BY <2>0, <2>3
    <3>2. k <= Len(rng2[v]) /\ with[<<v, k>>] = rng2[v][k]
      BY <3>1, Zenon DEF PlacesAre
    <3>3. k + 1 \in Nat \ {0} /\ k + 1 <= Len(rng[v]) /\ rng2[v][k] = rng[v][k + 1]
      BY <3>1, <3>2
    <3>4. <<v, k + 1>> \in U /\ of[<<v, k + 1>>] = rng[v][k + 1]
      BY <3>3, Zenon DEF PlacesAre
    <3> QED BY <3>1, <3>2, <3>3, <3>4
  <2>4. CASE k # 0 /\ z # v
    <3>1. from[u] = <<z, k>> /\ u = <<z, k>> /\ k \in Nat \ {0}
      BY <2>0, <2>4
    <3>2. k <= Len(rng2[z]) /\ with[<<z, k>>] = rng2[z][k]
      BY <3>1, Zenon DEF PlacesAre
    <3>3. rng2[z] = rng[z]
      BY <2>4
    <3>4. <<z, k>> \in U /\ of[<<z, k>>] = rng[z][k]
      BY <3>1, <3>2, <3>3, Zenon DEF PlacesAre
    <3> QED BY <3>1, <3>2, <3>3, <3>4
  <2> QED BY <2>1, <2>2, <2>3, <2>4
<1>3. \A u, t \in W : from[u] = from[t] => u = t
  <2> SUFFICES ASSUME NEW u \in W, NEW t \in W, from[u] = from[t] PROVE u = t
    OBVIOUS
  <2>1. PICK z \in L!Workers, k \in Nat :
          /\ u = <<z, k>>
          /\ from[u] = IF k = 0 THEN IF z = w THEN <<v, 1>> ELSE <<z, 0>>
                       ELSE IF z = v THEN <<v, k + 1>> ELSE <<z, k>>
    BY <1>1
  <2>2. PICK y \in L!Workers, j \in Nat :
          /\ t = <<y, j>>
          /\ from[t] = IF j = 0 THEN IF y = w THEN <<v, 1>> ELSE <<y, 0>>
                       ELSE IF y = v THEN <<v, j + 1>> ELSE <<y, j>>
    BY <1>1
  <2> PICK a, b : a = from[u][1] /\ b = from[u][2]
    OBVIOUS
  <2>3. /\ a = IF k = 0 THEN IF z = w THEN v ELSE z ELSE z
        /\ b = IF k = 0 THEN IF z = w THEN 1 ELSE 0 ELSE IF z = v THEN k + 1 ELSE k
    BY <2>1
  <2>4. /\ a = IF j = 0 THEN IF y = w THEN v ELSE y ELSE y
        /\ b = IF j = 0 THEN IF y = w THEN 1 ELSE 0 ELSE IF y = v THEN j + 1 ELSE j
    BY <2>2
  <2>5. k = j /\ z = y
    BY <2>3, <2>4
  <2> QED BY <2>1, <2>2, <2>5
<1>4. ASSUME NEW t \in U PROVE \E u \in W : from[u] = t
  <2>1. PICK z \in L!Workers, k \in Nat : t = <<z, k>>
    BY DEF PlacesAre
  <2>2. CASE k = 0
    <3>1. thr[z] = "busy" /\ z # w
      BY <2>1, <2>2, Zenon DEF PlacesAre, FrontGone
    <3>2. <<z, 0>> \in W
      BY <3>1, Zenon DEF PlacesAre, FrontGone
    <3>3. from[<<z, 0>>] = <<z, 0>>
      BY <1>0, <3>1, <3>2
    <3> QED BY <2>1, <2>2, <3>2, <3>3
  <2>3. CASE k # 0 /\ z # v
    <3>1. k \in Nat \ {0} /\ k <= Len(rng[z]) /\ rng2[z] = rng[z]
      BY <2>1, <2>3 DEF PlacesAre
    <3>2. <<z, k>> \in W
      BY <3>1, Zenon DEF PlacesAre
    <3>3. from[<<z, k>>] = <<z, k>>
      BY <1>0, <2>3, <3>2
    <3> QED BY <2>1, <3>2, <3>3
  <2>4. CASE k = 1 /\ z = v
    <3>1. <<w, 0>> \in W
      BY Zenon DEF PlacesAre
    <3>2. from[<<w, 0>>] = <<v, 1>>
      BY <1>0, <3>1
    <3> QED BY <2>1, <2>4, <3>1, <3>2
  <2>5. CASE k \notin {0, 1} /\ z = v
    <3> PICK i : i = k - 1
      OBVIOUS
    <3>1. k \in Nat \ {0} /\ k <= Len(rng[v])
      BY <2>1, <2>5 DEF PlacesAre
    <3>2. i \in Nat \ {0} /\ i <= Len(rng2[v]) /\ k = i + 1
      BY <2>5, <3>1
    <3>3. <<v, i>> \in W
      BY <3>2, Zenon DEF PlacesAre
    <3>4. from[<<v, i>>] = <<v, i + 1>>
      BY <1>0, <3>2, <3>3
    <3> QED BY <2>1, <2>5, <3>2, <3>3, <3>4
  <2> QED BY <2>2, <2>3, <2>4, <2>5
<1> QED BY <1>2, <1>3, <1>4 DEF Moved

\* Every use is one of tasks of T.
Inside(U, of, T) == \A u \in U : {of[u].root, of[u].child} \subseteq T

\* Entries that move keep their tasks.
LEMMA MovedApart ==
  ASSUME NEW U, NEW of, NEW F, NEW T, Apart(U, of, F), Inside(U, of, T),
         NEW W, NEW with, NEW from, Moved(U, of, W, with, from)
  PROVE  Apart(W, with, F) /\ Inside(W, with, T)
<1>1. /\ F \subseteq F
      /\ \A u \in W : from[u] \in U /\ with[u] = of[from[u]]
      /\ \A u, t \in W : from[u] = from[t] => u = t
  BY DEF Moved
<1>2. Apart(W, with, F)
  BY <1>1, UsesMoved
<1>3. Inside(W, with, T)
  BY <1>1 DEF Inside
<1> QED BY <1>2, <1>3

\* Taking a task is such a move.
LEMMA TakenFront ==
  ASSUME LifeTypes, NEW w \in L!Workers, NEW v \in L!Workers, L!Take(w, v)
  PROVE  \E n : FrontGone(n, w, v, thread, ring, hand, thread', ring', hand')
<1>1. /\ thread[w] = "look" /\ ring[v] # <<>>
      /\ ring' = [ring EXCEPT ![v] = Tail(@)] /\ hand' = [hand EXCEPT ![w] = Head(ring[v])]
      /\ thread' = [thread EXCEPT ![w] = "busy"]
  BY DEF L!Take
<1> PICK q, n : q = ring[v] /\ n = Len(ring[v])
  OBVIOUS
<1>2. q \in Seq(AnyEntry) /\ q # <<>> /\ n = Len(q)
  BY <1>1 DEF LifeTypes
<1>3. /\ n \in Nat \ {0} /\ Head(q) = q[1] /\ Len(Tail(q)) = n - 1
      /\ \A k \in 1 .. n - 1 : Tail(q)[k] = q[k + 1]
  BY <1>2
<1>4. ring'[v] = Tail(q) /\ \A z \in L!Workers : z # v => ring'[z] = ring[z]
  BY <1>1 DEF LifeTypes
<1>5. hand'[w] = q[1] /\ \A z \in L!Workers : z # w => hand'[z] = hand[z]
  BY <1>1, <1>3 DEF LifeTypes
<1>6. thread'[w] = "busy" /\ \A z \in L!Workers : z # w => thread'[z] = thread[z]
  BY <1>1 DEF LifeTypes, L!TypeOK
<1>7. thread[w] # "busy" /\ Len(ring[v]) = n /\ Len(ring'[v]) = n - 1 /\ hand'[w] = ring[v][1]
  BY <1>1, <1>3, <1>4, <1>5
<1>8. \A k \in 1 .. n - 1 : ring'[v][k] = ring[v][k + 1]
  BY <1>3, <1>4
<1>9. FrontGone(n, w, v, thread, ring, hand, thread', ring', hand')
  BY <1>3, <1>4, <1>5, <1>6, <1>7, <1>8 DEF FrontGone
<1> QED BY <1>9

\* A task moves from the front of a ring into a hand.
LEMMA TakeStep ==
  ASSUME LifeInv, NEW w \in L!Workers, NEW v \in L!Workers, L!Take(w, v)
  PROVE  LifeInv'
<1>0. LifeTypes /\ Phases /\ PoolSound /\ (app.pc # "pool" => UsesSound)
  BY DEF LifeInv
<1>1. /\ thread[w] = "look" /\ ring[v] # <<>>
      /\ UNCHANGED <<app, boots, allocated, appCache, free>>
      /\ ring' = [ring EXCEPT ![v] = Tail(@)] /\ hand' = [hand EXCEPT ![w] = Head(ring[v])]
      /\ thread' = [thread EXCEPT ![w] = "busy"]
  BY DEF L!Take, L!memory
<1>2. app.pc # "pool" /\ UsesSound
  BY <1>0, <1>1 DEF Phases, Quiet, L!Alive
<1> PICK q, n : q = ring[v] /\ n = Len(ring[v])
  OBVIOUS
<1>3. /\ q \in Seq(AnyEntry) /\ n \in Nat \ {0} /\ n <= Slots /\ Head(q) = q[1] /\ q[1] \in AnyEntry
      /\ Tail(q) \in Seq(AnyEntry) /\ Len(Tail(q)) = n - 1
      /\ \A k \in 1 .. n - 1 : Tail(q)[k] = q[k + 1]
  <2>1. q \in Seq(AnyEntry) /\ q # <<>> /\ n = Len(q) /\ n <= Slots
    BY <1>0, <1>1 DEF LifeTypes, L!TypeOK
  <2> QED BY <2>1
<1>4. /\ \A z \in L!Workers : /\ thread'[z] = IF z = w THEN "busy" ELSE thread[z]
                              /\ ring'[z] = IF z = v THEN Tail(q) ELSE ring[z]
                              /\ hand'[z] = IF z = w THEN q[1] ELSE hand[z]
      /\ ring' \in [L!Workers -> Seq(AnyEntry)] /\ hand' \in [L!Workers -> AnyEntry]
  BY <1>0, <1>1, <1>3 DEF LifeTypes, L!TypeOK
<1>5. LifeTypes'
  <2>1. \A z \in L!Workers : Len(ring'[z]) <= Slots
    BY <1>0, <1>3, <1>4, LifeConstants DEF LifeTypes, L!TypeOK
  <2>2. UNCHANGED <<rr, flag, job>>
    BY DEF L!Take
  <2>3. L!Tasks(boots') = L!Tasks(boots)
    BY <1>1
  <2>4. L!TypeOK'
    BY <1>0, <1>1, <2>1, <2>2, <2>3 DEF LifeTypes, L!TypeOK
  <2> QED BY <1>4, <2>4 DEF LifeTypes
<1>6. Phases'
  BY <1>0, <1>1, <1>4, PhasesKept DEF L!Alive, LifeTypes
<1>7. L!Pool' = L!Pool
  BY <1>1 DEF L!Pool
<1>8. PoolSound' /\ Holds(L!Pool)' = Holds(L!Pool)
  BY <1>0, <1>1, <1>7 DEF PoolSound, Holds
<1>9. UsesSound'
  <2>1. /\ PlacesAre(L!Uses, UseEntries, thread, ring, hand)
        /\ PlacesAre(L!Uses', UseEntries', thread', ring', hand')
    BY <1>0, <1>5, PlacesOfUse, PlacesAfter DEF PlacesKnown
  <2>2. Apart(L!Uses, UseEntries, Holds(L!Pool)) /\ Inside(L!Uses, UseEntries, L!Tasks(boots))
    BY <1>2 DEF UsesSound, Inside
  <2>3. PICK m : FrontGone(m, w, v, thread, ring, hand, thread', ring', hand')
    BY <1>0, TakenFront
  <2>4. PICK from : Moved(L!Uses, UseEntries, L!Uses', UseEntries', from)
    BY <2>1, <2>3, FrontMoves
  <2>5. Apart(L!Uses', UseEntries', Holds(L!Pool)) /\ Inside(L!Uses', UseEntries', L!Tasks(boots))
    BY <2>2, <2>4, MovedApart
  <2> QED BY <1>1, <1>8, <2>5 DEF UsesSound, Inside
<1> QED BY <1>5, <1>6, <1>8, <1>9 DEF LifeInv

\* A task that was free goes to the back of a ring.
BackGrown(n, v, rng, rng2) ==
  /\ n \in Nat /\ Len(rng[v]) = n /\ Len(rng2[v]) = n + 1
  /\ \A k \in 1 .. n : rng2[v][k] = rng[v][k]
  /\ \A z \in L!Workers : z # v => rng2[z] = rng[z]

\* e is an entry of two tasks of F, which are not in G any more.
Spent(e, F, G, T) ==
  /\ {e.root, e.child} \subseteq F \cap T /\ e.root # e.child
  /\ G \subseteq F \ {e.root, e.child}

\* The new use is of two tasks that were free and are not any more.
LEMMA TaskToBack ==
  ASSUME NEW U, NEW of, NEW thr, NEW rng, NEW hnd, PlacesAre(U, of, thr, rng, hnd),
         NEW W, NEW with, NEW rng2, PlacesAre(W, with, thr, rng2, hnd),
         NEW F, NEW T, Apart(U, of, F), Inside(U, of, T),
         NEW v \in L!Workers, NEW n, BackGrown(n, v, rng, rng2),
         NEW e, rng2[v][n + 1] = e, NEW G, Spent(e, F, G, T)
  PROVE  Apart(W, with, G) /\ Inside(W, with, T)
<1> PICK x : x = <<v, n + 1>>
  OBVIOUS
<1>1. n + 1 \in Nat \ {0} /\ n + 1 <= Len(rng2[v])
  BY DEF BackGrown
<1>2. x \in W /\ with[x] = e
  <2>1. <<v, n + 1>> \in W
    BY <1>1, Zenon DEF PlacesAre
  <2>2. with[<<v, n + 1>>] = rng2[v][n + 1]
    BY <1>1, <2>1, Zenon DEF PlacesAre
  <2> QED BY <2>1, <2>2
<1>3. \A u \in W \ {x} : u \in U /\ with[u] = of[u]
  <2> SUFFICES ASSUME NEW u \in W, u # x PROVE u \in U /\ with[u] = of[u]
    OBVIOUS
  <2>1. PICK z \in L!Workers, k \in Nat : u = <<z, k>>
    BY DEF PlacesAre
  <2>2. CASE k = 0
    <3>1. <<z, 0>> \in W
      BY <2>1, <2>2
    <3>2. thr[z] = "busy" /\ with[<<z, 0>>] = hnd[z]
      BY <3>1, Zenon DEF PlacesAre
    <3>3. <<z, 0>> \in U /\ of[<<z, 0>>] = hnd[z]
      BY <3>2, Zenon DEF PlacesAre
    <3> QED BY <2>1, <2>2, <3>2, <3>3
  <2>3. CASE k # 0
    <3>1. k \in Nat \ {0} /\ <<z, k>> \in W
      BY <2>1, <2>3
    <3>2. k <= Len(rng2[z]) /\ with[<<z, k>>] = rng2[z][k]
      BY <3>1, Zenon DEF PlacesAre
    <3>3. k <= Len(rng[z]) /\ rng2[z][k] = rng[z][k]
      <4>1. CASE z # v
        BY <3>2, <4>1 DEF BackGrown
      <4>2. CASE z = v
        <5>1. k # n + 1
          BY <2>1, <4>2
        <5> QED BY <3>1, <3>2, <4>2, <5>1 DEF BackGrown
      <4> QED BY <4>1, <4>2
    <3>4. <<z, k>> \in U /\ of[<<z, k>>] = rng[z][k]
      BY <3>1, <3>3, Zenon DEF PlacesAre
    <3> QED BY <2>1, <3>2, <3>3, <3>4
  <2> QED BY <2>2, <2>3
<1>5. Apart(W, with, G)
  <2>1. W \subseteq U \cup {x} /\ \A u \in W \ {x} : with[u] = of[u]
    BY <1>3
  <2>2. Begun(U, of, F, x, W, with, G)
    BY <1>2, <2>1 DEF Begun, Spent
  <2> QED BY <2>2, UseBegun
<1>6. Inside(W, with, T)
  BY <1>2, <1>3 DEF Inside, Spent
<1> QED BY <1>5, <1>6

\* Two tasks that were acquired one after the other.
LEMMA AcquiredTwo ==
  ASSUME NEW T, NEW p, PoolOf(T, p),
         NEW root \in L!Acquire(p), NEW child \in L!Acquire(root)
  PROVE  /\ root.task \in Holds(p) /\ child.task \in Holds(p) /\ root.task # child.task
         /\ root.task \in T /\ child.task \in T
         /\ Holds(child) \subseteq Holds(p) \ {root.task, child.task}
         /\ PoolOf(T, child)
<1>1. AcquiredFrom(T, p, root)
  BY Acquired
<1>2. PoolOf(T, root)
  BY <1>1 DEF AcquiredFrom
<1>3. AcquiredFrom(T, root, child)
  BY <1>2, Acquired
<1>4. Holds(p) \subseteq T
  BY HoldsInside
<1> QED BY <1>1, <1>3, <1>4 DEF AcquiredFrom

\* q is p with two tasks more in its cache.
TwoMore(T, p, r, c, q) ==
  /\ PoolOf(T, p) /\ {r, c} \subseteq T \ Holds(p) /\ r # c
  /\ q = [cache |-> p.cache \o <<r, c>>, free |-> p.free]

\* Two tasks that go to the cache one after the other.
LEMMA ReturnedTwo ==
  ASSUME NEW T, NEW p, NEW r, NEW c, NEW q, TwoMore(T, p, r, c, q)
  PROVE  PoolOf(T, q) /\ Holds(q) = Holds(p) \cup {r, c}
<1> USE DEF TwoMore
<1> PICK m : m = WithTask(p, r)
  OBVIOUS
<1>1. PoolOf(T, m) /\ Holds(m) = Holds(p) \cup {r}
  BY Returned
<1>2. p.cache \o <<r, c>> = Append(Append(p.cache, r), c)
  <2>1. p.cache \in Seq(T)
    BY DEF PoolOf
  <2> QED BY <2>1
<1>3. q = WithTask(m, c)
  BY <1>2 DEF WithTask
<1>4. PoolOf(T, m) /\ c \in T /\ c \notin Holds(m)
  BY <1>1
<1>5. PoolOf(T, WithTask(m, c)) /\ Holds(WithTask(m, c)) = Holds(m) \cup {c}
  BY <1>4, Returned
<1>6. Holds(m) \cup {c} = Holds(p) \cup {r, c}
  BY <1>1
<1> QED BY <1>3, <1>5, <1>6

\* scheduler_submit_job with two tasks: the splitter goes into a ring, or both
\* go back to the cache.
LEMMA SubmitPushStep ==
  ASSUME LifeInv, NEW j \in Names, L!SubmitPush(j)
  PROVE  LifeInv'
<1>0. LifeTypes /\ Phases /\ PoolSound /\ (app.pc # "pool" => UsesSound)
  BY DEF LifeInv
<1>1. app.pc = "out" /\ UsesSound /\ UNCHANGED <<app, boots, allocated, flag, thread, hand>>
  BY <1>0 DEF L!SubmitPush, L!Submittable, L!memory
<1> PICK T, p, v, n : T = L!Tasks(boots) /\ p = L!Pool /\ v = L!Target /\ n = Len(ring[v])
  OBVIOUS
<1>2. PICK root \in L!Acquire(p) : \E child \in L!Acquire(root) :
        /\ free' = child.free
        /\ IF L!HasSlot(ring[v])
           THEN /\ ring' = [ring EXCEPT ![v] =
                     Append(@, [job |-> j, root |-> root.task, child |-> child.task])]
                /\ job' = [job EXCEPT ![j] = "accepted"]
                /\ appCache' = child.cache
           ELSE /\ appCache' = L!GiveBack(root, child)
                /\ UNCHANGED <<ring, job>>
  BY DEF L!SubmitPush
<1>3. PICK child \in L!Acquire(root) :
        /\ free' = child.free
        /\ IF L!HasSlot(ring[v])
           THEN /\ ring' = [ring EXCEPT ![v] =
                     Append(@, [job |-> j, root |-> root.task, child |-> child.task])]
                /\ job' = [job EXCEPT ![j] = "accepted"]
                /\ appCache' = child.cache
           ELSE /\ appCache' = L!GiveBack(root, child)
                /\ UNCHANGED <<ring, job>>
  BY <1>2
<1> PICK r, c, e : /\ r = root.task /\ c = child.task
                   /\ e = [job |-> j, root |-> root.task, child |-> child.task]
  OBVIOUS
<1>4. /\ r \in Holds(p) /\ c \in Holds(p) /\ r # c /\ r \in T /\ c \in T
      /\ Holds(child) \subseteq Holds(p) \ {r, c} /\ PoolOf(T, child)
  <2>1. PoolOf(T, p)
    BY <1>0 DEF PoolSound
  <2> QED BY <2>1, AcquiredTwo
<1>5. T \subseteq AnyTask /\ v \in L!Workers /\ rr' \in 0 .. Cores - 1
  <2>1. rr \in 0 .. Cores - 1 /\ boots \in Nat
    BY <1>0, LifeConstants DEF LifeTypes, L!TypeOK
  <2>2. rr' = (rr + 1) % Cores
    BY DEF L!SubmitPush
  <2>3. rr' \in 0 .. Cores - 1
    BY <2>1, <2>2, LifeConstants
  <2> QED BY <2>1, <2>3, LifeConstants DEF L!Target, L!Workers, L!Tasks, AnyTask
<1>6. e \in AnyEntry /\ e.root = r /\ e.child = c
  BY <1>4, <1>5 DEF AnyEntry
<1>7. ring[v] \in Seq(AnyEntry) /\ n \in Nat /\ n <= Slots
  BY <1>0, <1>5 DEF LifeTypes, L!TypeOK
<1>8. Phases'
  BY <1>0, <1>1, PhasesKept DEF LifeTypes, L!Alive
<1>9. CASE L!HasSlot(ring[v])
  <2>1. /\ free' = child.free /\ appCache' = child.cache
        /\ ring' = [ring EXCEPT ![v] = Append(@, e)] /\ job' = [job EXCEPT ![j] = "accepted"]
        /\ n < Slots
    BY <1>3, <1>9 DEF L!HasSlot
  <2>2. /\ Len(Append(ring[v], e)) = n + 1 /\ Append(ring[v], e)[n + 1] = e
        /\ \A k \in 1 .. n : Append(ring[v], e)[k] = ring[v][k]
        /\ Append(ring[v], e) \in Seq(AnyEntry)
    BY <1>6, <1>7
  <2>3. /\ \A z \in L!Workers : ring'[z] = IF z = v THEN Append(ring[v], e) ELSE ring[z]
        /\ ring' \in [L!Workers -> Seq(AnyEntry)]
    BY <1>0, <1>5, <2>1, <2>2 DEF LifeTypes
  <2>4. LifeTypes'
    <3>1. \A z \in L!Workers : Len(ring'[z]) <= Slots
      BY <1>0, <1>7, <2>1, <2>2, <2>3, LifeConstants DEF LifeTypes, L!TypeOK
    <3>2. free' \subseteq T /\ L!Tasks(boots') = T
      BY <1>1, <1>4, <2>1 DEF PoolOf
    <3>3. job' \in [Names -> {"new", "accepted", "done", "dropped"}]
      BY <1>0, <2>1 DEF LifeTypes, L!TypeOK
    <3>4. L!TypeOK'
      BY <1>0, <1>1, <1>5, <3>1, <3>2, <3>3 DEF LifeTypes, L!TypeOK
    <3> QED BY <1>0, <1>1, <2>3, <3>4 DEF LifeTypes
  <2>5. L!Pool' = [cache |-> child.cache, free |-> child.free]
    BY <2>1 DEF L!Pool
  <2>6. PoolSound' /\ Holds(L!Pool)' = Holds(child)
    BY <1>1, <1>4, <2>5 DEF PoolSound, PoolOf, Holds
  <2>7. UsesSound'
    <3>1. /\ PlacesAre(L!Uses, UseEntries, thread, ring, hand)
          /\ PlacesAre(L!Uses', UseEntries', thread, ring', hand)
      BY <1>0, <1>1, <2>4, PlacesOfUse, PlacesAfter DEF PlacesKnown
    <3>2. Apart(L!Uses, UseEntries, Holds(p)) /\ Inside(L!Uses, UseEntries, T)
      BY <1>1 DEF UsesSound, Inside
    <3>3. BackGrown(n, v, ring, ring')
      BY <1>7, <2>2, <2>3, <1>5 DEF BackGrown
    <3>4. ring'[v][n + 1] = e /\ v \in L!Workers
      BY <1>5, <2>2, <2>3
    <3>5. Spent(e, Holds(p), Holds(child), T)
      BY <1>4, <1>6 DEF Spent
    <3>6. Apart(L!Uses', UseEntries', Holds(child)) /\ Inside(L!Uses', UseEntries', T)
      <4> PICK U, of, W, with, thr, rng, hnd, rng2, F, G :
            /\ U = L!Uses /\ of = UseEntries /\ W = L!Uses' /\ with = UseEntries'
            /\ thr = thread /\ rng = ring /\ hnd = hand /\ rng2 = ring'
            /\ F = Holds(p) /\ G = Holds(child)
        OBVIOUS
      <4>1. PlacesAre(U, of, thr, rng, hnd) /\ PlacesAre(W, with, thr, rng2, hnd)
        BY <3>1
      <4>2. Apart(U, of, F) /\ Inside(U, of, T) /\ BackGrown(n, v, rng, rng2)
        BY <3>2, <3>3
      <4>3. rng2[v][n + 1] = e /\ v \in L!Workers /\ Spent(e, F, G, T)
        BY <3>4, <3>5
      <4>4. Apart(W, with, G) /\ Inside(W, with, T)
        BY <4>1, <4>2, <4>3, TaskToBack
      <4> QED BY <4>4
    <3> QED BY <1>1, <2>6, <3>6 DEF UsesSound, Inside
  <2> QED BY <1>8, <2>4, <2>6, <2>7 DEF LifeInv
<1>10. CASE ~L!HasSlot(ring[v])
  <2>1. /\ free' = child.free /\ appCache' = child.cache \o <<r, c>>
        /\ UNCHANGED <<ring, job>>
    BY <1>3, <1>10 DEF L!GiveBack
  <2>2. LifeTypes'
    <3>1. free' \subseteq T /\ L!Tasks(boots') = T
      BY <1>1, <1>4, <2>1 DEF PoolOf
    <3>2. L!TypeOK'
      BY <1>0, <1>1, <1>5, <2>1, <3>1 DEF LifeTypes, L!TypeOK
    <3> QED BY <1>0, <1>1, <2>1, <3>2 DEF LifeTypes
  <2>3. L!Pool' = [cache |-> child.cache \o <<r, c>>, free |-> child.free]
    BY <2>1 DEF L!Pool
  <2>4. PoolOf(T, L!Pool') /\ Holds(L!Pool') = Holds(child) \cup {r, c}
    <3> PICK q, m : q = L!Pool' /\ m = child
      OBVIOUS
    <3>1. TwoMore(T, m, r, c, q)
      BY <1>4, <2>3 DEF TwoMore
    <3>2. PoolOf(T, q) /\ Holds(q) = Holds(m) \cup {r, c}
      BY <3>1, ReturnedTwo
    <3> QED BY <3>2
  <2>5. PoolSound' /\ Holds(L!Pool)' \subseteq Holds(L!Pool)
    BY <1>1, <1>4, <2>4 DEF PoolSound
  <2>6. UsesSound'
    BY <1>1, <2>1, <2>5, UsesKept
  <2> QED BY <1>8, <2>2, <2>5, <2>6 DEF LifeInv
<1> QED BY <1>9, <1>10

\* Without a second task the first goes back to the cache.
LEMMA SubmitDryStep ==
  ASSUME LifeInv, NEW j \in Names, L!SubmitDry(j)
  PROVE  LifeInv'
<1>0. LifeTypes /\ Phases /\ PoolSound /\ (app.pc # "pool" => UsesSound)
  BY DEF LifeInv
<1>1. /\ app.pc = "out" /\ UsesSound
      /\ UNCHANGED <<app, boots, allocated, ring, rr, flag, thread, hand, job>>
  BY <1>0 DEF L!SubmitDry, L!Submittable, L!memory
<1> PICK T, p : T = L!Tasks(boots) /\ p = L!Pool
  OBVIOUS
<1>2. PICK root \in L!Acquire(p) :
        appCache' = Append(root.cache, root.task) /\ free' = root.free
  BY DEF L!SubmitDry
<1>3. PoolOf(T, p)
  BY <1>0 DEF PoolSound
<1>4. AcquiredFrom(T, p, root) /\ Holds(p) \subseteq T
  BY <1>3, Acquired, HoldsInside
<1>5. L!Pool' = WithTask(root, root.task)
  BY <1>2 DEF L!Pool, WithTask
<1>6. /\ PoolOf(T, root) /\ root.task \in T /\ root.task \notin Holds(root)
      /\ Holds(root) \cup {root.task} \subseteq Holds(p)
  BY <1>4 DEF AcquiredFrom
<1>7. PoolOf(T, L!Pool') /\ Holds(L!Pool') \subseteq Holds(p)
  BY <1>5, <1>6, Returned
<1>8. LifeTypes'
  <2>1. free' \subseteq T /\ L!Tasks(boots') = T
    BY <1>1, <1>2, <1>6 DEF PoolOf
  <2>2. L!TypeOK'
    BY <1>0, <1>1, <2>1 DEF LifeTypes, L!TypeOK
  <2> QED BY <1>0, <1>1, <2>2 DEF LifeTypes
<1>9. Phases'
  BY <1>0, <1>1, PhasesKept DEF LifeTypes, L!Alive
<1>10. PoolSound' /\ Holds(L!Pool)' \subseteq Holds(L!Pool)
  BY <1>1, <1>7 DEF PoolSound
<1>11. UsesSound'
  BY <1>1, <1>10, UsesKept
<1> QED BY <1>8, <1>9, <1>10, <1>11 DEF LifeInv


-----------------------------------------------------------------------------
(* Boot, submission and stop: the theorems.                                 *)

\* A step of one of the threads keeps the invariant.
LEMMA LifeStep == LifeInv /\ [LifeNext]_lifeVars => LifeInv'
<1> SUFFICES ASSUME LifeInv, [LifeNext]_lifeVars PROVE LifeInv'
  OBVIOUS
<1>1. CASE UNCHANGED lifeVars
  <2>1. LifeTypes' /\ Phases'
    BY <1>1 DEF lifeVars, LifeInv, LifeTypes, L!TypeOK, L!Tasks, Phases, Quiet, Complete,
                L!Booted, L!Alive
  <2>2. PoolSound' /\ (app'.pc # "pool" => UsesSound')
    BY <1>1, QuietStep DEF lifeVars, LifeInv
  <2> QED BY <2>1, <2>2 DEF LifeInv
<1>2. CASE LifeNext
  <2>1. ASSUME L!Boot PROVE LifeInv'
    <3>1. CASE L!BootTasks
      <4>1. boots' = boots + 1 /\ boots \in Nat
        BY <3>1, LifeConstants DEF L!BootTasks, LifeInv, LifeTypes, L!TypeOK
      <4>2. appCache = <<>>
        BY <1>2, <4>1 DEF LifeNext
      <4> QED BY <3>1, <4>2, BootTasksStep
    <3> QED BY <2>1, <3>1, BootPoolStep, BootThreadStep DEF L!Boot
  <2>2. ASSUME L!Submit PROVE LifeInv'
    BY <2>2, SubmitPushStep, SubmitDryStep DEF L!Submit
  <2>3. ASSUME L!Stop PROVE LifeInv'
    BY <2>3, StopFlagStep, StopJoinStep, StopBuffersStep, StopTasksStep, StopPoolStep DEF L!Stop
  <2>4. ASSUME NEW w \in L!Workers, L!Work(w) PROVE LifeInv'
    BY <2>4, IdleStep, TakeStep, FinishJobStep DEF L!Work, L!TakeOwn
  <2>5. ASSUME NEW w \in L!Workers, NEW v \in L!Workers, L!Steal(w, v) PROVE LifeInv'
    BY <2>5, TakeStep DEF L!Steal
  <2> QED BY <1>2, <2>1, <2>2, <2>3, <2>4, <2>5, StopCallStep DEF LifeNext, L!Next
<1> QED BY <1>1, <1>2

\* The invariant of boot, submission and stop holds whatever part runs.
THEOREM LifeInvariant == RuntimeSpec => []LifeInv
<1>1. RuntimeInit => LifeInv
  BY LifeInitial DEF RuntimeInit
<1>2. LifeInv /\ [RuntimeNext]_everything => LifeInv'
  <2>1. [RuntimeNext]_everything => [LifeNext]_lifeVars
    BY DEF RuntimeNext, everything
  <2> QED BY <2>1, LifeStep
<1> QED BY <1>1, <1>2, PTL DEF RuntimeSpec

\* While a worker thread has not ended, all it may touch is allocated, and what
\* it executes is of the current boot, for every number of workers, tasks, slots,
\* jobs and boots (sk_scheduler.c:33, 62-63, 208-226, 380-405).
THEOREM MemoryTheorem == RuntimeSpec => []MemorySafe
<1>1. LifeInv => MemorySafe
  <2> SUFFICES ASSUME LifeInv PROVE MemorySafe
    OBVIOUS
  <2>1. L!TypeOK /\ Phases
    BY DEF LifeInv, LifeTypes
  <2>2. ASSUME NEW w \in L!Workers, L!Alive(w) PROVE allocated = L!Blocks
    <3>1. ~Quiet
      BY <2>1, <2>2 DEF Phases
    <3>2. Complete
      BY <2>1, <3>1 DEF Quiet, Complete, L!TypeOK
    <3> QED BY <2>1, <3>2 DEF Phases
  <2>3. L!MemorySafe
    BY <2>2 DEF L!MemorySafe
  <2>4. ASSUME NEW w \in L!Workers, thread[w] = "busy"
        PROVE {hand[w].root, hand[w].child} \subseteq L!Tasks(boots)
    <3>1. UsesSound
      BY <2>1, <2>4 DEF LifeInv, Phases, Quiet, L!Alive
    <3>2. PlacesAre(L!Uses, UseEntries, thread, ring, hand)
      BY PlacesOfUse DEF LifeInv, PlacesKnown
    <3>3. <<w, 0>> \in L!Uses /\ UseEntries[<<w, 0>>] = hand[w]
      BY <2>4, <3>2, Zenon DEF PlacesAre
    <3> QED BY <3>1, <3>3 DEF UsesSound
  <2>5. L!ExecutesCurrent
    BY <2>4 DEF L!ExecutesCurrent
  <2> QED BY <2>1, <2>3, <2>5 DEF MemorySafe
<1> QED BY <1>1, LifeInvariant, PTL

-----------------------------------------------------------------------------
(* Boot, submission and stop: what becomes of the jobs.                     *)

\* Rings and hands count while the pool of the workers and the tasks are there.
Live == app.pc # "pool" /\ L!Booted /\ app.pc # "free"

\* The entries are those of the accepted jobs, one for each.
Held(U, of, st) ==
  /\ \A u \in U : of[u].job \in Names /\ st[of[u].job] = "accepted"
  /\ \A u, v \in U : of[u].job = of[v].job => u = v
  /\ \A j \in Names : st[j] = "accepted" => \E u \in U : of[u].job = j

\* A thread that pthread_create still has to start does not run.
Unstarted == app.pc = "create" => \A w \in app.k .. Cores : ~L!Alive(w)

\* No job is accepted while there is no ring.
JobsHeld ==
  IF Live THEN Held(L!Uses, UseEntries, job) ELSE \A j \in Names : job[j] # "accepted"

JobInv == Unstarted /\ JobsHeld /\ (app.pc = "free" => <<"tasks">> \notin allocated)

\* Entries that move keep their jobs.
LEMMA MovedHeld ==
  ASSUME NEW U, NEW of, NEW st, Held(U, of, st),
         NEW W, NEW with, NEW from, Moved(U, of, W, with, from)
  PROVE  Held(W, with, st)
BY DEF Held, Moved

\* A job that is done leaves its place.
LEMMA EntryGone ==
  ASSUME NEW U, NEW of, NEW st, Held(U, of, st), NEW x \in U,
         NEW W, NEW with, W = U \ {x}, \A u \in W : with[u] = of[u],
         NEW st2, \A j \in Names : st2[j] = IF j = of[x].job THEN "done" ELSE st[j]
  PROVE  Held(W, with, st2)
BY DEF Held

\* A job that is accepted gets a place of its own.
LEMMA EntryNew ==
  ASSUME NEW U, NEW of, NEW st, Held(U, of, st), NEW x, x \notin U,
         NEW W, NEW with, W = U \cup {x}, \A u \in U : with[u] = of[u],
         with[x].job \in Names, st[with[x].job] # "accepted",
         NEW st2,
         \A j \in Names : st2[j] = IF j = with[x].job THEN "accepted" ELSE st[j]
  PROVE  Held(W, with, st2)
BY DEF Held

\* Rings, hands and jobs stay, and no worker becomes busy or stops being it.
LEMMA HeldKept ==
  ASSUME JobsHeld, Live' <=> Live, UNCHANGED <<ring, hand, job>>,
         \A w \in L!Workers : thread'[w] = "busy" <=> thread[w] = "busy"
  PROVE  JobsHeld'
<1> PICK U, of, W, with, from :
      /\ U = L!Uses /\ of = UseEntries /\ W = L!Uses' /\ with = UseEntries'
      /\ from = [u \in W |-> u]
  OBVIOUS
<1>1. W = U
  BY DEF L!Uses, L!Workers
<1>2. \A u \in W : with[u] = of[u]
  BY <1>1 DEF UseEntries, L!Entry
<1>3. Moved(U, of, W, with, from)
  BY <1>1, <1>2 DEF Moved
<1>4. ASSUME Held(U, of, job) PROVE Held(W, with, job)
  BY <1>3, <1>4, MovedHeld
<1> QED BY <1>4 DEF JobsHeld

\* No thread starts while the application thread stays where it is.
LEMMA UnstartedKept ==
  ASSUME L!TypeOK, Unstarted, UNCHANGED app, \A v \in L!Workers : L!Alive(v)' => L!Alive(v)
  PROVE  Unstarted'
<1>1. app.k \in 1 .. Cores /\ Cores \in Nat
  BY LifeConstants DEF L!TypeOK, L!Workers
<1>2. app.k .. Cores \subseteq L!Workers
  BY <1>1 DEF L!Workers
<1> QED BY <1>2 DEF Unstarted

\* Creating threads: jobs cannot be submitted yet.
LEMMA BootJobs == ASSUME LifeInv, JobInv, L!Boot PROVE JobInv'
<1>0. L!TypeOK /\ Phases
  BY DEF LifeInv, LifeTypes
<1>1. CASE L!BootTasks
  <2>1. app'.pc = "pool" /\ app.pc = "out" /\ ~L!Booted /\ job' = job
    BY <1>1 DEF L!BootTasks, L!Goto
  <2> QED BY <2>1 DEF JobInv, JobsHeld, Live, Unstarted
<1>2. CASE L!BootPool
  <2>1. /\ app.pc = "pool" /\ app' = [pc |-> "create", k |-> 1]
        /\ ring' = L!EmptyRings /\ UNCHANGED <<thread, job>>
    BY <1>2 DEF L!BootPool, L!Goto
  <2>2. \A w \in L!Workers : ~L!Alive(w)
    BY <1>0, <2>1 DEF Phases, Quiet
  <2>3. L!Uses' = {}
    BY <2>1, <2>2, LifeConstants DEF L!Uses, L!EmptyRings, L!Alive
  <2>4. \A j \in Names : job[j] # "accepted"
    BY <2>1 DEF JobInv, JobsHeld, Live
  <2>5. Held(L!Uses', UseEntries', job')
    BY <2>1, <2>3, <2>4 DEF Held
  <2>6. Unstarted'
    BY <2>1, <2>2 DEF Unstarted, L!Alive, L!Workers
  <2> QED BY <2>1, <2>4, <2>5, <2>6 DEF JobInv, JobsHeld
<1>3. CASE L!BootThread
  <2>1. PICK result \in {"top", "failed"} : thread' = [thread EXCEPT ![app.k] = result]
    BY <1>3 DEF L!BootThread
  <2>2. /\ app.pc = "create" /\ app.k \in L!Workers /\ app.k \in Nat
        /\ UNCHANGED <<allocated, ring, hand, job>>
        /\ \/ app'.pc = "out"
           \/ app'.pc = "create" /\ app'.k = app.k + 1
    BY <1>0, <1>3, RoundFacts DEF L!BootThread, L!memory, L!queues
  <2>3. \A w \in L!Workers : thread'[w] = IF w = app.k THEN result ELSE thread[w]
    BY <1>0, <2>1 DEF L!TypeOK
  <2>4. app.k \in app.k .. Cores /\ Cores \in Nat
    BY <2>2, LifeConstants DEF L!Workers
  <2>5. ~L!Alive(app.k)
    BY <2>2, <2>4 DEF JobInv, Unstarted
  <2>6. \A w \in L!Workers : thread'[w] = "busy" <=> thread[w] = "busy"
    BY <2>3, <2>5 DEF L!Alive
  <2>7. Live /\ Live'
    BY <1>0, <2>2 DEF Live, Phases, Complete, L!Booted, L!Blocks
  <2>8. JobsHeld'
    BY <2>2, <2>6, <2>7, HeldKept DEF JobInv
  <2>9. Unstarted'
    <3> SUFFICES ASSUME app'.pc = "create", NEW w \in app'.k .. Cores PROVE ~L!Alive(w)'
      BY DEF Unstarted
    <3>1. w \in app.k .. Cores /\ w # app.k /\ w \in L!Workers
      BY <2>2, <2>4 DEF L!Workers
    <3> QED BY <2>2, <2>3, <3>1 DEF JobInv, Unstarted, L!Alive
  <2> QED BY <2>2, <2>8, <2>9 DEF JobInv
<1> QED BY <1>1, <1>2, <1>3 DEF L!Boot

\* Stop keeps the jobs until it frees their tasks; then those that are left are
\* dropped.
LEMMA StopJobs == ASSUME LifeInv, JobInv, L!StopCall \/ L!Stop PROVE JobInv'
<1>0. L!TypeOK /\ Phases
  BY DEF LifeInv, LifeTypes
<1>1. ASSUME UNCHANGED <<ring, hand, job, thread>>, app.pc \notin {"pool", "create", "free"},
             app'.pc \notin {"pool", "create", "free"}, L!Booted' <=> L!Booted
      PROVE JobInv'
  <2>1. (Live' <=> Live) /\ \A w \in L!Workers : thread'[w] = "busy" <=> thread[w] = "busy"
    BY <1>1 DEF Live
  <2>2. JobsHeld'
    BY <1>1, <2>1, HeldKept DEF JobInv
  <2> QED BY <1>1, <2>2 DEF JobInv, Unstarted
<1>2. CASE L!StopCall
  BY <1>1, <1>2 DEF L!StopCall, L!Goto, L!Booted, L!memory, L!queues
<1>3. CASE L!StopFlag
  <2>1. app.pc = "flags" /\ app'.pc \in {"flags", "join"}
    BY <1>0, <1>3, RoundFacts DEF L!StopFlag
  <2> QED BY <1>1, <1>3, <2>1 DEF L!StopFlag, L!Booted, L!memory, L!queues
<1>4. CASE L!StopJoin \/ L!StopJoinFailed
  <2>1. app.pc = "join" /\ app'.pc \in {"join", "buffers", "crashed"}
    BY <1>0, <1>4, RoundFacts DEF L!StopJoin, L!StopJoinFailed, L!Goto
  <2> QED BY <1>1, <1>4, <2>1 DEF L!StopJoin, L!StopJoinFailed, L!Booted, L!memory, L!queues
<1>5. CASE L!StopBuffers
  <2>1. app.pc = "buffers" /\ app'.pc \in {"buffers", "tasks"}
    BY <1>0, <1>5, RoundFacts DEF L!StopBuffers
  <2>2. allocated' = allocated \ {L!Buffer(app.k)} /\ L!Buffer(app.k) # <<"pool">>
    BY <1>5 DEF L!StopBuffers, L!Buffer
  <2>3. UNCHANGED <<ring, hand, job, thread>>
    BY <1>5 DEF L!StopBuffers, L!queues
  <2> QED BY <1>1, <2>1, <2>2, <2>3 DEF L!Booted
<1>6. CASE L!StopTasks
  <2>1. app'.pc = "free" /\ <<"tasks">> \notin allocated'
    BY <1>6 DEF L!StopTasks, L!Goto
  <2>2. \A j \in Names : job'[j] # "accepted"
    BY <1>6 DEF L!StopTasks
  <2> QED BY <2>1, <2>2 DEF JobInv, JobsHeld, Live, Unstarted
<1>7. CASE L!StopPool
  <2>1. app.pc = "free" /\ app'.pc = "out" /\ ~L!Booted' /\ job' = job
    BY <1>7 DEF L!StopPool, L!Goto, L!Booted, L!queues
  <2> QED BY <2>1 DEF JobInv, JobsHeld, Live, Unstarted
<1> QED BY <1>2, <1>3, <1>4, <1>5, <1>6, <1>7 DEF L!Stop

\* A refused job has no place; an accepted one was in no place before.
LEMMA SubmitJobs ==
  ASSUME LifeInv, LifeInv', JobInv, NEW j \in Names, L!SubmitPush(j) \/ L!SubmitDry(j)
  PROVE  JobInv'
<1>0. LifeTypes /\ LifeTypes'
  BY DEF LifeInv
<1>1. /\ app.pc = "out" /\ L!Booted /\ job[j] # "accepted"
      /\ UNCHANGED <<app, allocated, thread, hand>>
  BY DEF L!SubmitPush, L!SubmitDry, L!Submittable, L!memory
<1>2. Live /\ Live'
  BY <1>1 DEF Live, L!Booted
<1>3. Unstarted' /\ (app'.pc = "free" => <<"tasks">> \notin allocated')
  BY <1>1 DEF Unstarted
<1>4. ASSUME UNCHANGED <<ring, job>> PROVE JobInv'
  <2>1. \A w \in L!Workers : thread'[w] = "busy" <=> thread[w] = "busy"
    BY <1>1
  <2>2. JobsHeld'
    BY <1>1, <1>2, <1>4, <2>1, HeldKept DEF JobInv
  <2> QED BY <1>3, <2>2 DEF JobInv
<1>5. ASSUME NEW v, v = L!Target, NEW e, e.job = j,
             ring' = [ring EXCEPT ![v] = Append(@, e)], job' = [job EXCEPT ![j] = "accepted"]
      PROVE JobInv'
  <2>1. rr \in 0 .. Cores - 1
    BY <1>0 DEF LifeTypes, L!TypeOK
  <2>2. v \in L!Workers
    BY <1>5, <2>1, LifeConstants DEF L!Target, L!Workers
  <2> PICK q, n, x : q = ring[v] /\ n = Len(ring[v]) /\ x = <<v, n + 1>>
    OBVIOUS
  <2>3. q \in Seq(AnyEntry) /\ n = Len(q) /\ n \in Nat
    BY <1>0, <2>2 DEF LifeTypes
  <2>4. /\ Len(Append(q, e)) = n + 1 /\ Append(q, e)[n + 1] = e
        /\ \A k \in 1 .. n : Append(q, e)[k] = q[k]
    BY <2>3
  <2>5. \A z \in L!Workers : ring'[z] = IF z = v THEN Append(q, e) ELSE ring[z]
    BY <1>0, <1>5, <2>2 DEF LifeTypes
  <2> PICK U, of, W, with : U = L!Uses /\ of = UseEntries /\ W = L!Uses' /\ with = UseEntries'
    OBVIOUS
  <2>6. PlacesAre(U, of, thread, ring, hand) /\ PlacesAre(W, with, thread, ring', hand)
    BY <1>0, <1>1, PlacesOfUse, PlacesAfter DEF PlacesKnown
  <2>7. \A z \in L!Workers, k \in Nat \ {0} :
          /\ <<z, k>> \in W <=> <<z, k>> \in U \/ <<z, k>> = x
          /\ <<z, k>> \in U => with[<<z, k>>] = of[<<z, k>>]
    <3> SUFFICES ASSUME NEW z \in L!Workers, NEW k \in Nat \ {0}
                 PROVE  /\ <<z, k>> \in W <=> <<z, k>> \in U \/ <<z, k>> = x
                        /\ <<z, k>> \in U => with[<<z, k>>] = of[<<z, k>>]
      OBVIOUS
    <3>1. /\ <<z, k>> \in W <=> k <= Len(ring'[z])
          /\ <<z, k>> \in W => with[<<z, k>>] = ring'[z][k]
          /\ <<z, k>> \in U <=> k <= Len(ring[z])
          /\ <<z, k>> \in U => of[<<z, k>>] = ring[z][k]
      BY <2>6, Zenon DEF PlacesAre
    <3>2. CASE z = v
      <4>1. k <= n + 1 <=> k <= n \/ k = n + 1
        BY <2>3
      <4>2. k <= n => k \in 1 .. n
        BY <2>3
      <4>3. <<z, k>> = x <=> k = n + 1
        BY <3>2
      <4>4. ring'[z] = Append(q, e) /\ ring[z] = q
        BY <2>5, <3>2
      <4>5. <<z, k>> \in W <=> <<z, k>> \in U \/ <<z, k>> = x
        BY <2>3, <2>4, <3>1, <4>1, <4>3, <4>4
      <4>6. <<z, k>> \in U => ring'[z][k] = ring[z][k]
        BY <2>3, <2>4, <3>1, <4>2, <4>4
      <4> QED BY <3>1, <4>5, <4>6
    <3>3. CASE z # v
      BY <2>5, <3>1, <3>3
    <3> QED BY <3>2, <3>3
  <2>8. \A z \in L!Workers :
          /\ <<z, 0>> \in W <=> <<z, 0>> \in U
          /\ <<z, 0>> \in U => with[<<z, 0>>] = of[<<z, 0>>]
    BY <2>6, Zenon DEF PlacesAre
  <2>9. n + 1 \in Nat \ {0} /\ x \in W /\ x \notin U /\ with[x] = e
    <3>0. ring'[v] = Append(q, e)
      BY <2>2, <2>5
    <3>1. n + 1 \in Nat \ {0} /\ n + 1 <= Len(ring'[v]) /\ ~(n + 1 <= Len(ring[v]))
      BY <2>3, <2>4, <3>0
    <3>2. <<v, n + 1>> \in W /\ <<v, n + 1>> \notin U
      BY <2>2, <2>6, <3>1, Zenon DEF PlacesAre
    <3>3. with[<<v, n + 1>>] = ring'[v][n + 1]
      BY <2>2, <2>6, <3>1, <3>2, Zenon DEF PlacesAre
    <3> QED BY <2>2, <2>4, <2>5, <3>1, <3>2, <3>3
  <2>10. \A u : u \in U \/ u \in W => \E z \in L!Workers, k \in Nat : u = <<z, k>>
    BY <2>6 DEF PlacesAre
  <2>11. W = U \cup {x} /\ \A u \in U : with[u] = of[u]
    <3>1. ASSUME NEW u, u \in U \/ u \in W
          PROVE  (u \in W <=> u \in U \/ u = x) /\ (u \in U => with[u] = of[u])
      <4>1. PICK z \in L!Workers, k \in Nat : u = <<z, k>>
        BY <2>10, <3>1
      <4>2. CASE k = 0
        <5>1. u # x
          BY <2>3, <4>1, <4>2
        <5> QED BY <2>8, <4>1, <4>2, <5>1
      <4>3. CASE k # 0
        BY <2>7, <4>1, <4>3
      <4> QED BY <4>2, <4>3
    <3> QED BY <2>9, <3>1
  <2>12. Held(U, of, job)
    BY <1>2 DEF JobInv, JobsHeld
  <2>13. \A i \in Names : job'[i] = IF i = j THEN "accepted" ELSE job[i]
    BY <1>0, <1>5 DEF LifeTypes, L!TypeOK
  <2>14. Held(W, with, job')
    <3> PICK st, st2 : st = job /\ st2 = job'
      OBVIOUS
    <3>1. /\ with[x].job \in Names /\ st[with[x].job] # "accepted"
          /\ \A i \in Names : st2[i] = IF i = with[x].job THEN "accepted" ELSE st[i]
      BY <1>1, <1>5, <2>9, <2>13
    <3>2. Held(U, of, st) /\ x \notin U
      BY <2>9, <2>12
    <3>3. Held(W, with, st2)
      BY <2>11, <3>1, <3>2, EntryNew
    <3> QED BY <3>3
  <2> QED BY <1>2, <1>3, <2>14 DEF JobInv, JobsHeld
<1>6. CASE L!SubmitDry(j)
  BY <1>4, <1>6 DEF L!SubmitDry
<1>7. CASE L!SubmitPush(j)
  <2>1. PICK root, child :
          IF L!HasSlot(ring[L!Target])
          THEN /\ ring' = [ring EXCEPT ![L!Target] =
                    Append(@, [job |-> j, root |-> root.task, child |-> child.task])]
               /\ job' = [job EXCEPT ![j] = "accepted"]
          ELSE UNCHANGED <<ring, job>>
    BY <1>7 DEF L!SubmitPush
  <2> PICK e : e = [job |-> j, root |-> root.task, child |-> child.task]
    OBVIOUS
  <2>2. e.job = j
    OBVIOUS
  <2> QED BY <1>4, <1>5, <2>1, <2>2
<1> QED BY <1>6, <1>7

\* A worker takes a job to its hand, or finishes the one it has.
LEMMA WorkJobs ==
  ASSUME LifeInv, LifeInv', JobInv, NEW w \in L!Workers,
         L!Work(w) \/ \E v \in L!Workers : L!Steal(w, v)
  PROVE  JobInv'
<1>0. LifeTypes /\ LifeTypes' /\ L!TypeOK /\ Phases
  BY DEF LifeInv, LifeTypes
<1>1. UNCHANGED <<app, allocated>> /\ (Live' <=> Live)
  BY DEF L!Work, L!WorkerTop, L!FindNothing, L!TakeOwn, L!FinishJob, L!Steal, L!Take,
         L!memory, Live, L!Booted
<1>2. /\ thread[w] \in {"top", "look", "busy"}
      /\ \E place : thread' = [thread EXCEPT ![w] = place]
  BY DEF L!Work, L!WorkerTop, L!FindNothing, L!TakeOwn, L!FinishJob, L!Steal, L!Take
<1>3. \A v \in L!Workers : L!Alive(v)' => L!Alive(v)
  BY <1>0, <1>2 DEF L!Alive, L!TypeOK
<1>4. Unstarted' /\ (app'.pc = "free" => <<"tasks">> \notin allocated')
  BY <1>0, <1>1, <1>3, UnstartedKept DEF JobInv
<1>5. Live
  <2>1. Complete
    BY <1>0, <1>2 DEF Phases, Quiet, Complete, L!Alive, L!TypeOK
  <2> QED BY <1>0, <2>1 DEF Live, Phases, Complete, L!Booted, L!Blocks
<1>6. CASE L!WorkerTop(w) \/ L!FindNothing(w)
  <2>1. UNCHANGED <<ring, hand, job>>
    BY <1>6 DEF L!WorkerTop, L!FindNothing, L!queues
  <2>2. thread[w] # "busy" /\ \E place \in {"top", "look", "ended"} :
          thread' = [thread EXCEPT ![w] = place]
    BY <1>6 DEF L!WorkerTop, L!FindNothing
  <2>3. \A v \in L!Workers : thread'[v] = "busy" <=> thread[v] = "busy"
    BY <1>0, <2>2 DEF L!TypeOK
  <2>4. JobsHeld'
    BY <1>1, <2>1, <2>3, HeldKept DEF JobInv
  <2> QED BY <1>4, <2>4 DEF JobInv
<1> PICK U, of, W, with : U = L!Uses /\ of = UseEntries /\ W = L!Uses' /\ with = UseEntries'
  OBVIOUS
<1>7. /\ PlacesAre(U, of, thread, ring, hand)
      /\ PlacesAre(W, with, thread', ring', hand')
  BY <1>0, PlacesOfUse, PlacesAfter DEF PlacesKnown
<1>8. Held(U, of, job)
  BY <1>5 DEF JobInv, JobsHeld
<1>9. ASSUME NEW v \in L!Workers, L!Take(w, v) PROVE JobInv'
  <2>1. \E n : FrontGone(n, w, v, thread, ring, hand, thread', ring', hand')
    BY <1>0, <1>9, TakenFront
  <2>2. PICK from : Moved(U, of, W, with, from)
    <3> PICK thr, rng, hnd, thr2, rng2, hnd2 :
          /\ thr = thread /\ rng = ring /\ hnd = hand
          /\ thr2 = thread' /\ rng2 = ring' /\ hnd2 = hand'
      OBVIOUS
    <3>1. PICK n : FrontGone(n, w, v, thr, rng, hnd, thr2, rng2, hnd2)
      BY <2>1
    <3>2. PlacesAre(U, of, thr, rng, hnd) /\ PlacesAre(W, with, thr2, rng2, hnd2)
      BY <1>7
    <3> QED BY <3>1, <3>2, FrontMoves
  <2>3. Held(W, with, job)
    BY <1>8, <2>2, MovedHeld
  <2>4. job' = job
    BY <1>9 DEF L!Take
  <2> QED BY <1>1, <1>4, <1>5, <2>3, <2>4 DEF JobInv, JobsHeld
<1>10. CASE L!FinishJob(w)
  <2> PICK x, k : x = <<w, 0>> /\ k = hand[w].job
    OBVIOUS
  <2>1. /\ thread[w] = "busy" /\ ring' = ring
        /\ job' = [job EXCEPT ![k] = "done"]
        /\ hand' = [hand EXCEPT ![w] = L!Nothing] /\ thread' = [thread EXCEPT ![w] = "top"]
    BY <1>10 DEF L!FinishJob
  <2>2. /\ thread'[w] = "top"
        /\ \A z \in L!Workers : z # w => thread'[z] = thread[z] /\ hand'[z] = hand[z]
    BY <1>0, <2>1 DEF L!TypeOK, LifeTypes
  <2>3. x \in U /\ of[x] = hand[w] /\ x \notin W
    <3>0. thread[w] = "busy" /\ thread'[w] # "busy"
      BY <2>1, <2>2
    <3>1. <<w, 0>> \in U /\ <<w, 0>> \notin W
      BY <1>7, <3>0, Zenon DEF PlacesAre
    <3> QED BY <1>7, <3>1, Zenon DEF PlacesAre
  <2>4. \A z \in L!Workers, i \in Nat : <<z, i>> # x =>
          /\ <<z, i>> \in W <=> <<z, i>> \in U
          /\ <<z, i>> \in W => with[<<z, i>>] = of[<<z, i>>]
    <3> SUFFICES ASSUME NEW z \in L!Workers, NEW i \in Nat, <<z, i>> # x
                 PROVE  /\ <<z, i>> \in W <=> <<z, i>> \in U
                        /\ <<z, i>> \in W => with[<<z, i>>] = of[<<z, i>>]
      OBVIOUS
    <3>1. CASE i = 0
      <4>1. z # w
        BY <3>1
      <4>2. thread'[z] = thread[z] /\ hand'[z] = hand[z]
        BY <2>2, <4>1
      <4>3. /\ <<z, 0>> \in W <=> thread'[z] = "busy"
            /\ <<z, 0>> \in W => with[<<z, 0>>] = hand'[z]
            /\ <<z, 0>> \in U <=> thread[z] = "busy"
            /\ <<z, 0>> \in U => of[<<z, 0>>] = hand[z]
        BY <1>7, Zenon DEF PlacesAre
      <4> QED BY <3>1, <4>2, <4>3
    <3>2. CASE i # 0
      <4>1. i \in Nat \ {0}
        BY <3>2
      <4>2. ring'[z] = ring[z]
        BY <2>1
      <4>3. /\ <<z, i>> \in W <=> i <= Len(ring'[z])
            /\ <<z, i>> \in W => with[<<z, i>>] = ring'[z][i]
            /\ <<z, i>> \in U <=> i <= Len(ring[z])
            /\ <<z, i>> \in U => of[<<z, i>>] = ring[z][i]
        BY <1>7, <4>1, Zenon DEF PlacesAre
      <4> QED BY <4>2, <4>3
    <3> QED BY <3>1, <3>2
  <2>5. W = U \ {x} /\ \A u \in W : with[u] = of[u]
    <3>1. \A u : u \in U \/ u \in W => \E z \in L!Workers, i \in Nat : u = <<z, i>>
      BY <1>7 DEF PlacesAre
    <3> QED BY <2>3, <2>4, <3>1
  <2>6. \A j \in Names : job'[j] = IF j = of[x].job THEN "done" ELSE job[j]
    BY <1>0, <2>1, <2>3 DEF L!TypeOK
  <2>7. Held(W, with, job')
    <3> PICK st, st2 : st = job /\ st2 = job'
      OBVIOUS
    <3>1. Held(U, of, st) /\ \A j \in Names : st2[j] = IF j = of[x].job THEN "done" ELSE st[j]
      BY <1>8, <2>6
    <3>2. Held(W, with, st2)
      BY <2>3, <2>5, <3>1, EntryGone
    <3> QED BY <3>2
  <2> QED BY <1>1, <1>4, <1>5, <2>7 DEF JobInv, JobsHeld
<1> QED BY <1>6, <1>9, <1>10 DEF L!Work, L!TakeOwn, L!Steal

\* Every accepted job has one place, whatever part runs.
THEOREM JobInvariant == RuntimeSpec => []JobInv
<1>1. RuntimeInit => JobInv
  <2> SUFFICES ASSUME L!Init PROVE JobInv
    BY DEF RuntimeInit
  <2> QED BY DEF L!Init, JobInv, JobsHeld, Live, Unstarted, L!Booted
<1>2. LifeInv /\ LifeInv' /\ JobInv /\ [RuntimeNext]_everything => JobInv'
  <2> SUFFICES ASSUME LifeInv, LifeInv', JobInv, [RuntimeNext]_everything PROVE JobInv'
    OBVIOUS
  <2>1. CASE UNCHANGED lifeVars
    <3>1. UNCHANGED <<app, allocated, ring, hand, job, thread>>
      BY <2>1 DEF lifeVars
    <3>2. JobsHeld'
      BY <3>1, HeldKept DEF JobInv, Live, L!Booted
    <3> QED BY <3>1, <3>2 DEF JobInv, Unstarted, L!Alive
  <2>2. CASE L!Next
    <3>1. ASSUME L!Submit PROVE JobInv'
      BY <3>1, SubmitJobs DEF L!Submit
    <3> QED BY <2>2, <3>1, BootJobs, StopJobs, WorkJobs DEF L!Next
  <2> QED BY <2>1, <2>2 DEF RuntimeNext, LifeNext, everything
<1> QED BY <1>1, <1>2, LifeInvariant, PTL DEF RuntimeSpec

\* No task belongs to two jobs, or twice to one, or to a job and to the pool,
\* also after submissions that failed; and an accepted job is at one place of a
\* ring or in one hand, and no other job is (sk_scheduler.c:240-290).
THEOREM ApartTheorem == RuntimeSpec => []TasksApart
<1>1. ASSUME LifeInv, L!Booted PROVE L!TasksApart
  <2>1. UsesSound
    BY <1>1 DEF LifeInv, Phases
  <2>2. Holds(L!Pool) = free \cup L!Range(appCache)
    <3>1. appCache \in Seq(L!Tasks(boots))
      BY <1>1 DEF LifeInv, PoolSound, PoolOf, L!Pool
    <3>2. L!Range(appCache) = Within(appCache)
      BY <3>1 DEF L!Range, Within
    <3> QED BY <3>2 DEF Holds, L!Pool
  <2>3. \A u \in L!Uses :
          /\ L!TasksOf(u)[1] = UseEntries[u].root /\ L!TasksOf(u)[2] = UseEntries[u].child
          /\ L!Range(L!TasksOf(u)) = {UseEntries[u].root, UseEntries[u].child}
    <3> SUFFICES ASSUME NEW u \in L!Uses
                 PROVE  /\ L!TasksOf(u)[1] = UseEntries[u].root
                        /\ L!TasksOf(u)[2] = UseEntries[u].child
                        /\ L!Range(L!TasksOf(u)) = {UseEntries[u].root, UseEntries[u].child}
      OBVIOUS
    <3> PICK r, c : r = UseEntries[u].root /\ c = UseEntries[u].child
      OBVIOUS
    <3>1. L!TasksOf(u) = <<r, c>>
      BY DEF L!TasksOf, UseEntries
    <3>2. L!Range(<<r, c>>) = {r, c}
      BY DEF L!Range
    <3> QED BY <3>1, <3>2
  <2>4. Apart(L!Uses, UseEntries, free \cup L!Range(appCache))
    BY <2>1, <2>2 DEF UsesSound
  <2>5. \A u \in L!Uses :
          /\ UseEntries[u].root # UseEntries[u].child
          /\ {UseEntries[u].root, UseEntries[u].child} \cap (free \cup L!Range(appCache)) = {}
          /\ \A v \in L!Uses \ {u} :
               {UseEntries[u].root, UseEntries[u].child}
                 \cap {UseEntries[v].root, UseEntries[v].child} = {}
    <3> HIDE DEF UseEntries
    <3> QED BY <2>4 DEF Apart
  <2>6. ASSUME NEW u \in L!Uses
        PROVE  /\ L!TasksOf(u)[1] # L!TasksOf(u)[2]
               /\ L!Range(L!TasksOf(u)) \cap (free \cup L!Range(appCache)) = {}
               /\ \A v \in L!Uses \ {u} : L!Range(L!TasksOf(u)) \cap L!Range(L!TasksOf(v)) = {}
    <3> HIDE DEF UseEntries
    <3> QED BY <2>3, <2>5
  <2> QED BY <2>6 DEF L!TasksApart
<1>2. ASSUME LifeInv, JobInv, L!Booted, <<"tasks">> \in allocated PROVE L!JobHeldOnce
  <2>1. Live
    BY <1>2 DEF LifeInv, Phases, JobInv, Live
  <2>2. Held(L!Uses, UseEntries, job)
    BY <1>2, <2>1 DEF JobInv, JobsHeld
  <2>3. \A u \in L!Uses : L!JobOf(u) = UseEntries[u].job
    BY DEF L!JobOf, UseEntries
  <2>4. {j \in Names : job[j] = "accepted"} = {L!JobOf(u) : u \in L!Uses}
    BY <2>2, <2>3 DEF Held
  <2>5. \A u, v \in L!Uses : L!JobOf(u) = L!JobOf(v) => u = v
    BY <2>2, <2>3 DEF Held
  <2> QED BY <2>4, <2>5 DEF L!JobHeldOnce
<1>3. LifeInv /\ JobInv => TasksApart
  <2>1. CASE L!Booted /\ <<"tasks">> \in allocated
    BY <1>1, <1>2, <2>1 DEF TasksApart
  <2>2. CASE ~(L!Booted /\ <<"tasks">> \in allocated)
    BY <2>2 DEF TasksApart, L!TasksApart, L!JobHeldOnce, L!Booted
  <2> QED BY <2>1, <2>2
<1> QED BY <1>3, LifeInvariant, JobInvariant, PTL

-----------------------------------------------------------------------------
(* Boot, submission and stop: whom scheduler_stop_workers waits for.         *)

\* The flags are raised one by one, and the threads were created one by one.
JoinInv ==
  /\ app.pc = "flags" => \A w \in 1 .. app.k - 1 : flag[w]
  /\ app.pc = "join" => \A w \in L!Workers : flag[w]
  /\ app.pc = "create" => \A w \in 1 .. app.k - 1 : thread[w] # "none"
  /\ app.pc # "create" /\ Complete => \A w \in L!Workers : thread[w] # "none"

\* What every step but those of boot and stop keeps.
LEMMA JoinKept ==
  ASSUME L!TypeOK, JoinInv, UNCHANGED <<app, allocated, flag>>,
         \A w \in L!Workers : thread'[w] = "none" => thread[w] = "none"
  PROVE  JoinInv'
<1>1. app.k \in 1 .. Cores /\ Cores \in Nat
  BY LifeConstants DEF L!TypeOK, L!Workers
<1>2. 1 .. app.k - 1 \subseteq L!Workers
  BY <1>1 DEF L!Workers
<1>3. Complete' <=> Complete
  BY DEF Complete, L!Booted
<1> QED BY <1>2, <1>3 DEF JoinInv

\* A loop over the workers has done what it does for all of them at its end.
LEMMA RoundDone ==
  ASSUME L!TypeOK, NEW after, L!Round(after), NEW S,
         \A w \in 1 .. app.k - 1 : w \in S, app.k \in S
  PROVE  \/ /\ app'.pc = after /\ L!Workers \subseteq S
         \/ /\ app'.pc = app.pc /\ \A w \in 1 .. app'.k - 1 : w \in S
<1>1. app.k \in L!Workers /\ app.k \in Nat
  BY RoundFacts
<1>2. \A w \in 1 .. app.k : w = app.k \/ w \in 1 .. app.k - 1
  BY <1>1
<1>3. CASE app.k = Cores /\ app'.pc = after
  BY <1>2, <1>3 DEF L!Workers
<1>4. CASE app'.pc = app.pc /\ app'.k = app.k + 1
  <2>1. app'.k - 1 = app.k
    BY <1>1, <1>4
  <2> QED BY <1>2, <1>4, <2>1
<1> QED BY <1>3, <1>4, RoundFacts

\* A step of boot.
LEMMA JoinBoot == ASSUME LifeInv, JoinInv, L!Boot PROVE JoinInv'
<1>0. L!TypeOK /\ Phases
  BY DEF LifeInv, LifeTypes
<1>1. CASE L!BootTasks
  BY <1>1 DEF L!BootTasks, L!Goto, JoinInv, Complete
<1>2. CASE L!BootPool
  <2>1. app' = [pc |-> "create", k |-> 1] /\ 1 .. 1 - 1 = {}
    BY <1>2 DEF L!BootPool, L!Goto
  <2> QED BY <2>1 DEF JoinInv, Complete
<1>3. CASE L!BootThread
  <2>1. PICK result \in {"top", "failed"} : thread' = [thread EXCEPT ![app.k] = result]
    BY <1>3 DEF L!BootThread
  <2>2. app.pc = "create" /\ app.k \in L!Workers /\ L!Round("out")
    BY <1>0, <1>3, RoundFacts DEF L!BootThread
  <2> PICK S : S = {w \in L!Workers : thread'[w] # "none"}
    OBVIOUS
  <2>3. app.k \in S /\ \A w \in 1 .. app.k - 1 : w \in S
    <3>1. app.k \in 1 .. Cores /\ Cores \in Nat
      BY <2>2, LifeConstants DEF L!Workers
    <3>2. 1 .. app.k - 1 \subseteq L!Workers
      BY <3>1 DEF L!Workers
    <3>3. \A w \in 1 .. app.k - 1 : thread[w] # "none"
      BY <2>2 DEF JoinInv
    <3>4. \A w \in L!Workers : thread'[w] = IF w = app.k THEN result ELSE thread[w]
      BY <1>0, <2>1 DEF L!TypeOK
    <3> QED BY <2>2, <3>2, <3>3, <3>4
  <2>4. \/ /\ app'.pc = "out" /\ L!Workers \subseteq S
        \/ /\ app'.pc = "create" /\ \A w \in 1 .. app'.k - 1 : w \in S
    BY <1>0, <2>2, <2>3, RoundDone
  <2> QED BY <2>4 DEF JoinInv, Complete
<1> QED BY <1>1, <1>2, <1>3 DEF L!Boot

\* A step of stop.
LEMMA JoinStop == ASSUME LifeInv, JoinInv, L!StopCall \/ L!Stop PROVE JoinInv'
<1>0. L!TypeOK /\ Phases
  BY DEF LifeInv, LifeTypes
<1>1. CASE L!StopCall
  <2>1. /\ app.pc = "out" /\ L!Booted /\ app' = [pc |-> "flags", k |-> 1] /\ 1 .. 1 - 1 = {}
        /\ UNCHANGED thread
    BY <1>1 DEF L!StopCall, L!Goto
  <2> QED BY <2>1 DEF JoinInv, Complete
<1>2. CASE L!StopFlag
  <2>1. /\ app.pc = "flags" /\ app.k \in L!Workers /\ L!Round("join")
        /\ flag' = [flag EXCEPT ![app.k] = TRUE] /\ UNCHANGED thread
    BY <1>0, <1>2, RoundFacts DEF L!StopFlag, L!Flagged
  <2> PICK S : S = {w \in L!Workers : flag'[w]}
    OBVIOUS
  <2>2. app.k \in S /\ \A w \in 1 .. app.k - 1 : w \in S
    <3>1. app.k \in 1 .. Cores /\ Cores \in Nat
      BY <2>1, LifeConstants DEF L!Workers
    <3>2. 1 .. app.k - 1 \subseteq L!Workers
      BY <3>1 DEF L!Workers
    <3>3. \A w \in 1 .. app.k - 1 : flag[w]
      BY <2>1 DEF JoinInv
    <3>4. flag'[app.k] /\ \A w \in L!Workers : flag[w] => flag'[w]
      BY <1>0, <2>1 DEF L!TypeOK
    <3> QED BY <2>1, <3>2, <3>3, <3>4
  <2>3. \/ /\ app'.pc = "join" /\ L!Workers \subseteq S
        \/ /\ app'.pc = "flags" /\ \A w \in 1 .. app'.k - 1 : w \in S
    BY <1>0, <2>1, <2>2, RoundDone
  <2>4. \A w \in L!Workers : thread'[w] # "none"
    BY <2>1 DEF JoinInv, Complete
  <2> QED BY <2>3, <2>4 DEF JoinInv, Complete
<1>3. CASE L!StopJoin \/ L!StopJoinFailed
  <2>1. /\ app.pc = "join" /\ app'.pc \in {"join", "buffers", "crashed"}
        /\ UNCHANGED <<thread, flag>>
    BY <1>0, <1>3, RoundFacts DEF L!StopJoin, L!StopJoinFailed, L!Goto
  <2> QED BY <2>1 DEF JoinInv, Complete
<1>4. CASE L!StopBuffers
  <2>1. app'.pc \in {"buffers", "tasks"}
    BY <1>0, <1>4, RoundFacts DEF L!StopBuffers
  <2> QED BY <2>1 DEF JoinInv, Complete
<1>5. CASE L!StopTasks
  BY <1>5 DEF L!StopTasks, L!Goto, JoinInv, Complete
<1>6. CASE L!StopPool
  BY <1>6 DEF L!StopPool, L!Goto, L!Booted, JoinInv, Complete
<1> QED BY <1>1, <1>2, <1>3, <1>4, <1>5, <1>6 DEF L!Stop

\* scheduler_stop_workers joins only threads that it told to stop and that boot
\* tried to create, whatever the number of workers: the safety that StopReturns
\* rests on (sk_scheduler.c:374-388).
THEOREM JoinTheorem == RuntimeSpec => []L!JoinsTold
<1>1. RuntimeInit => JoinInv
  BY DEF RuntimeInit, L!Init, JoinInv, Complete, L!Booted
<1>2. LifeInv /\ JoinInv /\ [RuntimeNext]_everything => JoinInv'
  <2> SUFFICES ASSUME LifeInv, JoinInv, [RuntimeNext]_everything PROVE JoinInv'
    OBVIOUS
  <2>0. L!TypeOK
    BY DEF LifeInv, LifeTypes
  <2>1. CASE UNCHANGED lifeVars
    BY <2>0, <2>1, JoinKept DEF lifeVars
  <2>2. CASE L!Next
    <3>1. ASSUME L!Submit PROVE JoinInv'
      <4>1. UNCHANGED <<app, allocated, flag, thread>>
        BY <3>1 DEF L!Submit, L!SubmitPush, L!SubmitDry, L!memory
      <4> QED BY <2>0, <4>1, JoinKept
    <3>2. ASSUME NEW w \in L!Workers, L!Work(w) \/ \E v \in L!Workers : L!Steal(w, v)
          PROVE JoinInv'
      <4>1. /\ UNCHANGED <<app, allocated, flag>>
            /\ \E place \in {"top", "look", "busy", "ended"} :
                 thread' = [thread EXCEPT ![w] = place]
        BY <3>2 DEF L!Work, L!WorkerTop, L!FindNothing, L!TakeOwn, L!FinishJob, L!Steal,
                    L!Take, L!memory
      <4>2. \A v \in L!Workers : thread'[v] = "none" => thread[v] = "none"
        BY <2>0, <4>1 DEF L!TypeOK
      <4> QED BY <2>0, <4>1, <4>2, JoinKept
    <3> QED BY <2>2, <3>1, <3>2, JoinBoot, JoinStop DEF L!Next
  <2> QED BY <2>1, <2>2 DEF RuntimeNext, LifeNext, everything
<1>3. JoinInv => L!JoinsTold
  BY DEF JoinInv, Complete, L!JoinsTold
<1> QED BY <1>1, <1>2, <1>3, LifeInvariant, PTL DEF RuntimeSpec

-----------------------------------------------------------------------------
(* Waiting inside of jobs: what stands in the queues.                       *)

\* One more at the back of a queue.
LEMMA OneBehind ==
  ASSUME NEW S, NEW s \in Seq(S), Distinct(s), NEW t \in S, t \notin Within(s)
  PROVE  /\ Append(s, t) \in Seq(S) /\ Distinct(Append(s, t))
         /\ Within(Append(s, t)) = Within(s) \cup {t}
<1> PICK n, q : n = Len(s) /\ q = Append(s, t)
  OBVIOUS
<1>1. n \in Nat /\ q \in Seq(S) /\ Len(q) = n + 1 /\ q[n + 1] = t
  OBVIOUS
<1>2. \A i \in 1 .. n : q[i] = s[i] /\ q[i] # t
  BY DEF Within
<1>3. Distinct(q)
  <2> SUFFICES ASSUME NEW i \in 1 .. n + 1, NEW j \in 1 .. n + 1, q[i] = q[j] PROVE i = j
    BY <1>1 DEF Distinct
  <2>1. CASE i \in 1 .. n /\ j \in 1 .. n
    BY <1>2, <2>1 DEF Distinct
  <2>2. CASE i = n + 1 \/ j = n + 1
    BY <1>1, <1>2, <2>2
  <2> QED BY <1>1, <2>1, <2>2
<1>4. Within(q) = Within(s) \cup {t}
  <2>1. \A i \in 1 .. n + 1 : i \in 1 .. n \/ i = n + 1
    BY <1>1
  <2>2. n + 1 \in 1 .. n + 1 /\ \A i \in 1 .. n : i \in 1 .. n + 1
    BY <1>1
  <2> QED BY <1>1, <1>2, <2>1, <2>2 DEF Within
<1> QED BY <1>1, <1>3, <1>4

\* The first one leaves a queue.
LEMMA FirstGone ==
  ASSUME NEW S, NEW s \in Seq(S), Distinct(s), s # <<>>
  PROVE  /\ Tail(s) \in Seq(S) /\ Distinct(Tail(s)) /\ Head(s) \in S \cap Within(s)
         /\ Within(Tail(s)) = Within(s) \ {Head(s)}
<1> PICK n, q : n = Len(s) /\ q = Tail(s)
  OBVIOUS
<1>1. n \in Nat /\ n > 0 /\ q \in Seq(S) /\ Len(q) = n - 1 /\ Head(s) = s[1]
  OBVIOUS
<1>2. \A i \in 1 .. n - 1 : i + 1 \in 1 .. n /\ i + 1 # 1 /\ q[i] = s[i + 1]
  BY <1>1
<1>3. 1 \in 1 .. n /\ s[1] \in S
  BY <1>1, ElementOfSeq
<1>4. \A i \in 1 .. n - 1 : q[i] # s[1]
  BY <1>2, <1>3 DEF Distinct
<1>5. Distinct(q)
  <2> SUFFICES ASSUME NEW i \in 1 .. n - 1, NEW j \in 1 .. n - 1, q[i] = q[j] PROVE i = j
    BY <1>1 DEF Distinct
  <2>1. i + 1 \in 1 .. n /\ j + 1 \in 1 .. n /\ s[i + 1] = s[j + 1]
    BY <1>2
  <2>2. i + 1 = j + 1
    BY <2>1 DEF Distinct
  <2> QED BY <1>1, <2>2
<1>6. Within(q) = Within(s) \ {s[1]}
  <2>1. \A i \in 1 .. n : i = 1 \/ (i - 1 \in 1 .. n - 1 /\ i - 1 + 1 = i)
    BY <1>1
  <2>2. \A i \in 1 .. n : s[i] = s[1] \/ (i - 1 \in 1 .. n - 1 /\ q[i - 1] = s[i])
    BY <1>2, <2>1
  <2>3. Within(q) = {q[i] : i \in 1 .. n - 1} /\ Within(s) = {s[i] : i \in 1 .. n}
    BY <1>1 DEF Within
  <2>4. \A x \in Within(q) : x \in Within(s) /\ x # s[1]
    BY <1>2, <1>4, <2>3
  <2>5. \A k \in 1 .. n - 1 : q[k] \in Within(q)
    BY <2>3
  <2>6. \A i \in 1 .. n : s[i] = s[1] \/ s[i] \in Within(q)
    BY <2>2, <2>5
  <2>7. \A x \in Within(s) : x = s[1] \/ x \in Within(q)
    BY <2>3, <2>6
  <2>8. \A V, W, x : (\A y \in V : y \in W /\ y # x) /\ (\A y \in W : y = x \/ y \in V) => V = W \ {x}
    OBVIOUS
  <2> QED BY <2>4, <2>7, <2>8
<1>7. s[1] \in Within(s)
  BY <1>3 DEF Within
<1> QED BY <1>1, <1>3, <1>5, <1>6, <1>7

\* The last one leaves a queue.
LEMMA LastGone ==
  ASSUME NEW S, NEW s \in Seq(S), Distinct(s), s # <<>>
  PROVE  /\ SubSeq(s, 1, Len(s) - 1) \in Seq(S) /\ Distinct(SubSeq(s, 1, Len(s) - 1))
         /\ s[Len(s)] \in S \cap Within(s)
         /\ Within(SubSeq(s, 1, Len(s) - 1)) = Within(s) \ {s[Len(s)]}
<1> PICK n, q : n = Len(s) /\ q = SubSeq(s, 1, n - 1)
  OBVIOUS
<1>1. n \in Nat /\ n > 0
  OBVIOUS
<1>2. q \in Seq(S) /\ Len(q) = n - 1 /\ \A i \in 1 .. n - 1 : q[i] = s[i]
  <2>1. \A i \in 1 .. n - 1 : s[i] \in S
    BY <1>1, ElementOfSeq
  <2>2. 1 \in Int /\ n - 1 \in Int
    BY <1>1
  <2>3. /\ q \in Seq(S)
        /\ Len(q) = IF 1 <= n - 1 THEN n - 1 - 1 + 1 ELSE 0
        /\ \A i \in 1 .. n - 1 - 1 + 1 : q[i] = s[1 + i - 1]
    BY <2>1, <2>2, SubSeqProperties
  <2>4. Len(q) = n - 1 /\ n - 1 - 1 + 1 = n - 1
    BY <1>1, <2>3
  <2>5. \A i \in 1 .. n - 1 : i \in 1 .. n - 1 - 1 + 1 /\ 1 + i - 1 = i
    BY <1>1
  <2> QED BY <2>3, <2>4, <2>5
<1>3. n \in 1 .. n /\ s[n] \in S
  BY <1>1, ElementOfSeq
<1>4. \A i \in 1 .. n - 1 : i \in 1 .. n /\ i # n
  BY <1>1
<1>5. \A i \in 1 .. n - 1 : q[i] # s[n]
  BY <1>2, <1>3, <1>4 DEF Distinct
<1>6. Distinct(q)
  BY <1>2, <1>4 DEF Distinct
<1>7. Within(q) = Within(s) \ {s[n]}
  <2>1. \A i \in 1 .. n : i = n \/ i \in 1 .. n - 1
    BY <1>1
  <2>2. Within(q) = {q[i] : i \in 1 .. n - 1} /\ Within(s) = {s[i] : i \in 1 .. n}
    BY <1>2 DEF Within
  <2>3. \A x \in Within(q) : x \in Within(s) /\ x # s[n]
    BY <1>2, <1>4, <1>5, <2>2
  <2>4. \A x \in Within(s) : x = s[n] \/ x \in Within(q)
    BY <1>2, <2>1, <2>2
  <2>5. \A V, W, x : (\A y \in V : y \in W /\ y # x) /\ (\A y \in W : y = x \/ y \in V) => V = W \ {x}
    OBVIOUS
  <2> QED BY <2>3, <2>4, <2>5
<1>8. s[n] \in Within(s)
  BY <1>3 DEF Within
<1> QED BY <1>2, <1>3, <1>6, <1>7, <1>8

-----------------------------------------------------------------------------
(* Waiting inside of jobs: where every chunk is.                            *)

\* Where a chunk may be: in the ring of a worker, with its splitter, in the deque
\* of one, or in his hands; out before the submission and when it is executed.
PlacesOfChunks == {"out", "ring", "deque", "todo"}

\* What a worker has in hands: nothing, one chunk, or both of a job whose right
\* one could not be pushed.
InHands ==
  {<<>>} \cup {<<c>> : c \in B!Chunks} \cup {<<<<j, "right">>, <<j, "left">>>> : j \in B!Jobs}

BlockTypes ==
  /\ jobRing \in [B!Workers -> Seq(B!Jobs)]
  /\ deque \in [B!Workers -> Seq(B!Chunks)]
  /\ todo \in [B!Workers -> InHands]
  /\ jobRr \in 0 .. Crew - 1
  /\ pending \in [B!Jobs -> 0 .. B!NotSubmitted]

\* Who waits for whom.
BlockWaits == waits \in [B!Chunks -> 0 .. Tickets] /\ B!NoCycle(waits)

\* The chunks in every queue or hand, and those of the jobs in every ring.
ChunksIn(q) == [w \in B!Workers |-> Within(q[w])]
ChunksOf(r) == [w \in B!Workers |-> {c \in B!Chunks : c[1] \in Within(r[w])}]

\* The sets s are those of the chunks with this kind of place.
Shown(place, by, kind, s) ==
  \A w \in B!Workers, c \in B!Chunks : c \in s[w] <=> place[c] = kind /\ by[c] = w

\* Every chunk has one place; rings r, deques d and hands t are what the places
\* say.
Placed(place, by, r, d, t) ==
  /\ place \in [B!Chunks -> PlacesOfChunks] /\ by \in [B!Chunks -> B!Workers]
  /\ \A w \in B!Workers : Distinct(r[w]) /\ Distinct(d[w])
  /\ Shown(place, by, "ring", ChunksOf(r))
  /\ Shown(place, by, "deque", ChunksIn(d))
  /\ Shown(place, by, "todo", ChunksIn(t))

Open(place, c) == IF place[c] = "out" THEN 0 ELSE 1

\* pending counts the chunks of a submitted job that have a place.
Due(place, p) ==
  \A j \in B!Jobs :
    IF p[j] = B!NotSubmitted
      THEN place[<<j, "left">>] = "out" /\ place[<<j, "right">>] = "out"
      ELSE p[j] = Open(place, <<j, "left">>) + Open(place, <<j, "right">>)

BlockPlaces ==
  \E place, by : Placed(place, by, jobRing, deque, todo) /\ Due(place, pending)

BlockInv == BlockTypes /\ BlockWaits /\ BlockPlaces

\* A job has two chunks.
LEMMA ChunkFacts ==
  /\ \A c \in B!Chunks : c[1] \in B!Jobs /\ (c = <<c[1], "left">> \/ c = <<c[1], "right">>)
  /\ \A j \in B!Jobs : /\ <<j, "left">> \in B!Chunks /\ <<j, "right">> \in B!Chunks
                       /\ <<j, "left">>[1] = j /\ <<j, "right">>[1] = j
                       /\ <<j, "left">> # <<j, "right">>
BY DEF B!Chunks

\* What is in the hands of a worker.
LEMMA HandFacts ==
  /\ Within(<<>>) = {} /\ <<>> \in InHands
  /\ \A c \in B!Chunks : Within(<<c>>) = {c} /\ <<c>> \in InHands
  /\ \A j \in B!Jobs :
       /\ <<<<j, "right">>, <<j, "left">>>> \in InHands
       /\ Within(<<<<j, "right">>, <<j, "left">>>>) = {<<j, "right">>, <<j, "left">>}
<1>1. Within(<<>>) = {}
  BY DEF Within
<1>2. \A c : Within(<<c>>) = {c}
  BY DEF Within
<1>3. \A a, b : Within(<<a, b>>) = {a, b}
  <2> SUFFICES ASSUME NEW a, NEW b PROVE Within(<<a, b>>) = {a, b}
    OBVIOUS
  <2>1. Len(<<a, b>>) = 2 /\ <<a, b>>[1] = a /\ <<a, b>>[2] = b
    OBVIOUS
  <2>2. 1 .. 2 = {1, 2}
    OBVIOUS
  <2> QED BY <2>1, <2>2 DEF Within
<1> QED BY <1>1, <1>2, <1>3 DEF InHands

\* Whoever has finished the first chunk in his hands goes on with the rest.
LEMMA HandsEmptied ==
  ASSUME NEW t \in InHands, t # <<>>
  PROVE  /\ Tail(t) \in InHands /\ Head(t) \in B!Chunks \cap Within(t)
         /\ Within(Tail(t)) = Within(t) \ {Head(t)}
<1>1. CASE \E c \in B!Chunks : t = <<c>>
  <2>1. PICK c \in B!Chunks : t = <<c>>
    BY <1>1
  <2>2. Tail(t) = <<>> /\ Head(t) = c
    BY <2>1
  <2> QED BY <2>1, <2>2, HandFacts
<1>2. CASE \E j \in B!Jobs : t = <<<<j, "right">>, <<j, "left">>>>
  <2>1. PICK j \in B!Jobs : t = <<<<j, "right">>, <<j, "left">>>>
    BY <1>2
  <2>2. PICK a, b : a = <<j, "right">> /\ b = <<j, "left">>
    OBVIOUS
  <2>3. a \in B!Chunks /\ b \in B!Chunks /\ a # b
    BY <2>2, ChunkFacts
  <2>4. t = <<a, b>>
    BY <2>1, <2>2
  <2>5. Tail(t) = <<b>> /\ Head(t) = a
    BY <2>4
  <2>6. Within(t) = {a, b} /\ Within(<<b>>) = {b} /\ <<b>> \in InHands
    BY <2>1, <2>2, <2>3, HandFacts
  <2> QED BY <2>3, <2>5, <2>6
<1> QED BY <1>1, <1>2 DEF InHands

\* Sets of numbers have a least element.
LEMMA LeastNatural ==
  ASSUME NEW R, R \subseteq Nat, R # {}
  PROVE  \E m \in R : \A n \in R : ~(n < m)
<1>1. \E m \in R : \A n \in R : <<n, m>> \notin OpToRel(<, Nat)
  BY NatLessThanWellFounded, WFMin
<1>2. \A n, m \in Nat : <<n, m>> \in OpToRel(<, Nat) <=> n < m
  BY DEF OpToRel
<1> QED BY <1>1, <1>2

\* A crew has a worker.
LEMMA CrewFacts == Crew \in Nat /\ Crew > 0 /\ 1 \in B!Workers /\ Tickets \in Nat /\ Blocked \in Nat
BY RuntimeAssumption DEF B!BlockingAssumption, B!Workers

\* Initially every chunk is out.
LEMMA BlockInitial == B!Init => BlockInv
<1> SUFFICES ASSUME B!Init PROVE BlockInv
  OBVIOUS
<1>1. BlockTypes
  <2>1. B!NotSubmitted \in 0 .. B!NotSubmitted /\ 0 \in 0 .. Crew - 1
    BY CrewFacts DEF B!NotSubmitted
  <2> QED BY <2>1 DEF B!Init, BlockTypes, InHands
<1>2. BlockWaits
  BY DEF B!Init, BlockWaits
<1>3. BlockPlaces
  <2> PICK place, by : place = [c \in B!Chunks |-> "out"] /\ by = [c \in B!Chunks |-> 1]
    OBVIOUS
  <2>1. place \in [B!Chunks -> PlacesOfChunks] /\ by \in [B!Chunks -> B!Workers]
    BY CrewFacts DEF PlacesOfChunks
  <2>2. \A w \in B!Workers : jobRing[w] = <<>> /\ deque[w] = <<>> /\ todo[w] = <<>>
    BY DEF B!Init
  <2>3. Within(<<>>) = {} /\ Distinct(<<>>)
    BY DEF Within, Distinct
  <2>4. \A w \in B!Workers : /\ ChunksOf(jobRing)[w] = {}
                             /\ ChunksIn(deque)[w] = {} /\ ChunksIn(todo)[w] = {}
    BY <2>2, <2>3 DEF ChunksOf, ChunksIn
  <2>5. Placed(place, by, jobRing, deque, todo)
    BY <2>1, <2>2, <2>3, <2>4 DEF Placed, Shown
  <2>6. Due(place, pending)
    BY ChunkFacts DEF B!Init, Due
  <2> QED BY <2>5, <2>6 DEF BlockPlaces
<1> QED BY <1>1, <1>2, <1>3 DEF BlockInv

\* The module has its own name for what FiniteSets defines.
LEMMA SameCount ==
  ASSUME NEW S
  PROVE  B!Cardinality(S) = Cardinality(S)
BY DEF Cardinality, B!Cardinality

\* More chunks wait than workers exist, if all workers wait for themselves.
LEMMA AllWaiting ==
  ASSUME BlockInv, \A w \in B!Workers : ~B!Searching(w) /\ ~B!Returns(Head(todo[w]))
  PROVE  Crew <= Blocked
<1> PICK S : S = {c \in B!Chunks : waits[c] # 0}
  OBVIOUS
<1> PICK f : f = [w \in B!Workers |-> Head(todo[w])]
  OBVIOUS
<1>1. \A w \in B!Workers : Head(todo[w]) \in S /\ Head(todo[w]) \in Within(todo[w])
  <2> SUFFICES ASSUME NEW w \in B!Workers
               PROVE  Head(todo[w]) \in S /\ Head(todo[w]) \in Within(todo[w])
    OBVIOUS
  <2>1. todo[w] \in InHands /\ todo[w] # <<>>
    BY DEF BlockInv, BlockTypes, B!Searching
  <2>2. Head(todo[w]) \in B!Chunks \cap Within(todo[w])
    BY <2>1, HandsEmptied
  <2>3. waits[Head(todo[w])] # 0
    BY DEF B!Returns
  <2> QED BY <2>2, <2>3
<1>2. \A w, v \in B!Workers : f[w] = f[v] => w = v
  <2> PICK place, by : Placed(place, by, jobRing, deque, todo)
    BY DEF BlockInv, BlockPlaces
  <2>1. \A w \in B!Workers : f[w] \in B!Chunks /\ f[w] \in Within(todo[w])
    BY <1>1
  <2>2. \A w \in B!Workers : by[f[w]] = w
    BY <2>1 DEF Placed, Shown, ChunksIn
  <2> QED BY <2>2
<1>3. f \in Injection(B!Workers, S)
  BY <1>1, <1>2 DEF Injection, IsInjective
<1>4. IsFiniteSet(S)
  <2>1. IsFiniteSet(B!Jobs)
    BY CrewFacts, FS_Interval DEF B!Jobs
  <2>2. IsFiniteSet({"left", "right"})
    <3>1. IsFiniteSet({"left"})
      BY FS_Singleton
    <3>2. {"left", "right"} = {"left"} \cup {"right"}
      OBVIOUS
    <3> QED BY <3>1, <3>2, FS_AddElement
  <2>3. IsFiniteSet(B!Chunks)
    BY <2>1, <2>2, FS_Product DEF B!Chunks
  <2> QED BY <2>3, FS_Subset
<1>5. Cardinality(B!Workers) <= Cardinality(S) /\ Cardinality(S) \in Nat
  BY <1>3, <1>4, FS_Injection, FS_CardinalityType
<1>6. Cardinality(B!Workers) = Crew
  <2>1. 1 \in Int /\ Crew \in Int
    BY CrewFacts
  <2>2. Cardinality(1 .. Crew) = IF 1 > Crew THEN 0 ELSE Crew - 1 + 1
    BY <2>1, FS_Interval
  <2> QED BY <2>2, CrewFacts DEF B!Workers
<1>7. Cardinality(S) <= Blocked
  <2>1. B!NoCycle(waits)
    BY DEF BlockInv, BlockWaits
  <2>2. B!Cardinality({c \in B!Chunks : waits[c] # 0}) <= Blocked
    BY <2>1 DEF B!NoCycle
  <2>3. B!Cardinality(S) <= Blocked
    BY <2>2
  <2> QED BY <2>3, SameCount
<1> QED BY <1>5, <1>6, <1>7, CrewFacts

\* Of the jobs that are not done, the last one waits for none of them.
LEMMA LastJob ==
  ASSUME BlockInv, \E j \in B!Jobs : ~B!Done(j)
  PROVE  \E j \in B!Jobs : ~B!Done(j) /\ \A k \in B!Jobs : k > j => B!Done(k)
<1> PICK R : R = {n \in Nat : \E j \in B!Jobs : ~B!Done(j) /\ n = Tickets - j}
  OBVIOUS
<1>1. \A j \in B!Jobs : j \in Nat /\ Tickets - j \in Nat
  BY CrewFacts DEF B!Jobs
<1>2. R \subseteq Nat /\ R # {}
  BY <1>1
<1>3. PICK m \in R : \A n \in R : ~(n < m)
  BY <1>2, LeastNatural
<1>4. PICK j \in B!Jobs : ~B!Done(j) /\ m = Tickets - j
  BY <1>3
<1>5. \A k \in B!Jobs : ~B!Done(k) => ~(Tickets - k < m)
  BY <1>1, <1>3
<1>6. \A k \in B!Jobs : k > j => B!Done(k)
  BY <1>1, <1>4, <1>5, CrewFacts
<1> QED BY <1>4, <1>6

\* The invariant leaves somebody who can go on.
LEMMA BlockNeverStuck == BlockInv => B!NeverStuck
<1> SUFFICES ASSUME BlockInv, Blocked < Crew, \E j \in B!Jobs : ~B!Done(j),
                    \A j \in B!Jobs : pending[j] # B!NotSubmitted,
                    \A w \in B!Workers : B!Searching(w) \/ ~B!Returns(Head(todo[w])),
                    \A w \in B!Workers : ~B!CanTake(w)
             PROVE  FALSE
  BY DEF B!NeverStuck
<1>1. PICK w \in B!Workers : B!Searching(w)
  BY AllWaiting, CrewFacts
<1>2. \A v \in B!Workers : deque[v] = <<>> /\ jobRing[v] = <<>>
  BY <1>1 DEF B!CanTake, B!HisRing
<1>3. PICK j \in B!Jobs : ~B!Done(j) /\ \A k \in B!Jobs : k > j => B!Done(k)
  BY LastJob
<1> PICK place, by : Placed(place, by, jobRing, deque, todo) /\ Due(place, pending)
  BY DEF BlockInv, BlockPlaces
<1>4. PICK c \in B!Chunks : c[1] = j /\ place[c] # "out"
  <2>1. place[<<j, "left">>] # "out" \/ place[<<j, "right">>] # "out"
    BY <1>3 DEF Due, B!Done, Open
  <2> QED BY <2>1, ChunkFacts
<1>5. PICK v \in B!Workers : c \in Within(todo[v])
  <2>1. Within(<<>>) = {}
    BY HandFacts
  <2>2. by[c] \in B!Workers /\ place[c] \in PlacesOfChunks
    BY DEF Placed
  <2>3. place[c] # "ring" /\ place[c] # "deque"
    BY <1>2, <2>1, <2>2 DEF Placed, Shown, ChunksIn, ChunksOf
  <2> QED BY <1>4, <2>2, <2>3 DEF Placed, PlacesOfChunks, Shown, ChunksIn
<1>6. todo[v] # <<>> /\ todo[v] \in InHands
  BY <1>5, HandFacts DEF BlockInv, BlockTypes
<1>7. Head(todo[v]) \in B!Chunks /\ Head(todo[v])[1] = j
  <2>1. Head(todo[v]) \in B!Chunks
    BY <1>6, HandsEmptied
  <2>2. CASE \E d \in B!Chunks : todo[v] = <<d>>
    <3>1. PICK d \in B!Chunks : todo[v] = <<d>>
      BY <2>2
    <3>2. Head(todo[v]) = d /\ c = d
      BY <1>5, <3>1, HandFacts
    <3> QED BY <1>4, <2>1, <3>2
  <2>3. CASE \E k \in B!Jobs : todo[v] = <<<<k, "right">>, <<k, "left">>>>
    <3>1. PICK k \in B!Jobs : todo[v] = <<<<k, "right">>, <<k, "left">>>>
      BY <2>3
    <3>2. Head(todo[v]) = <<k, "right">> /\ (c = <<k, "right">> \/ c = <<k, "left">>)
      BY <1>5, <3>1, HandFacts
    <3>3. k = j
      BY <1>4, <3>2, ChunkFacts
    <3> QED BY <2>1, <3>2, <3>3, ChunkFacts
  <2> QED BY <1>6, <2>2, <2>3 DEF InHands
<1>8. B!Returns(Head(todo[v]))
  <2> PICK h : h = Head(todo[v])
    OBVIOUS
  <2>1. waits[h] \in 0 .. Tickets /\ (waits[h] = 0 \/ waits[h] > j)
    BY <1>7 DEF BlockInv, BlockWaits, B!NoCycle
  <2>2. waits[h] = 0 \/ (waits[h] \in B!Jobs /\ waits[h] > j)
    BY <2>1, CrewFacts DEF B!Jobs
  <2>3. waits[h] = 0 \/ (waits[h] \in B!Jobs /\ B!Done(waits[h]))
    BY <1>3, <2>2
  <2> QED BY <2>3 DEF B!Returns
<1> QED BY <1>6, <1>8 DEF B!Searching

\* Due is about which chunks are out.
LEMMA DueKept ==
  ASSUME NEW p, NEW place, Due(place, p), NEW place2,
         \A c \in B!Chunks : place2[c] = "out" <=> place[c] = "out"
  PROVE  Due(place2, p)
BY ChunkFacts DEF Due, Open

\* Who waits for whom does not change.
LEMMA WaitsKept ==
  ASSUME BlockWaits, UNCHANGED waits
  PROVE  BlockWaits'
BY DEF BlockWaits

\* Only the chunks of M have another place.
SameBut(M, place, by, place2, by2) ==
  \A c \in B!Chunks : c \notin M => place2[c] = place[c] /\ by2[c] = by[c]

\* The sets s have become s2: the chunks of M left them, and those of M with this
\* kind of place came.
MovedIn(M, place2, by2, kind, s, s2) ==
  \A w \in B!Workers, c \in B!Chunks :
    c \in s2[w] <=> IF c \in M THEN place2[c] = kind /\ by2[c] = w ELSE c \in s[w]

\* Then the sets are still those of the places.
LEMMA ShownAfter ==
  ASSUME NEW place, NEW by, NEW kind, NEW s, Shown(place, by, kind, s),
         NEW place2, NEW by2, NEW s2, NEW M,
         SameBut(M, place, by, place2, by2), MovedIn(M, place2, by2, kind, s, s2)
  PROVE  Shown(place2, by2, kind, s2)
BY DEF Shown, SameBut, MovedIn

\* A submission puts both chunks of the job into a ring.
LEMMA BlockSubmitStep ==
  ASSUME BlockInv, NEW j \in B!Jobs, B!Submit(j)
  PROVE  BlockInv'
<1> PICK place, by : Placed(place, by, jobRing, deque, todo) /\ Due(place, pending)
  BY DEF BlockInv, BlockPlaces
<1> PICK v, q, M : v = 1 + jobRr /\ q = jobRing[v] /\ M = {c \in B!Chunks : c[1] = j}
  OBVIOUS
<1>1. /\ pending[j] = B!NotSubmitted /\ pending' = [pending EXCEPT ![j] = 2]
      /\ jobRing' = [jobRing EXCEPT ![v] = Append(@, j)] /\ jobRr' = (jobRr + 1) % Crew
      /\ UNCHANGED <<waits, deque, todo>>
  BY DEF B!Submit
<1>2. v \in B!Workers /\ q \in Seq(B!Jobs) /\ jobRr' \in 0 .. Crew - 1
  BY <1>1, CrewFacts DEF BlockInv, BlockTypes, B!Workers
<1>3. \A c \in M : place[c] = "out"
  BY <1>1, ChunkFacts DEF Due
<1>4. j \notin Within(q)
  <2>1. PICK c \in M : c[1] = j
    BY ChunkFacts
  <2>2. c \in B!Chunks /\ c \notin ChunksOf(jobRing)[v]
    BY <1>2, <1>3 DEF Placed, Shown
  <2> QED BY <1>2, <2>1, <2>2 DEF ChunksOf
<1>5. /\ Append(q, j) \in Seq(B!Jobs) /\ Distinct(Append(q, j))
      /\ Within(Append(q, j)) = Within(q) \cup {j}
  BY <1>2, <1>4, OneBehind DEF Placed
<1>6. \A w \in B!Workers : jobRing'[w] = IF w = v THEN Append(q, j) ELSE jobRing[w]
  BY <1>1, <1>2 DEF BlockInv, BlockTypes
<1>7. BlockTypes'
  BY <1>1, <1>2, <1>5 DEF BlockInv, BlockTypes, B!NotSubmitted
<1> PICK place2, by2 :
      /\ place2 = [c \in B!Chunks |-> IF c \in M THEN "ring" ELSE place[c]]
      /\ by2 = [c \in B!Chunks |-> IF c \in M THEN v ELSE by[c]]
  OBVIOUS
<1>8. Placed(place2, by2, jobRing', deque', todo')
  <2>1. place2 \in [B!Chunks -> PlacesOfChunks] /\ by2 \in [B!Chunks -> B!Workers]
    BY <1>2 DEF Placed, PlacesOfChunks
  <2>2. \A w \in B!Workers : Distinct(jobRing'[w]) /\ Distinct(deque'[w])
    BY <1>1, <1>5, <1>6 DEF Placed
  <2>3. /\ \A c \in M : place2[c] = "ring" /\ by2[c] = v
        /\ SameBut(M, place, by, place2, by2)
    BY DEF SameBut
  <2>4. \A w \in B!Workers, c \in B!Chunks : c \in M => c \notin ChunksOf(jobRing)[w]
    BY <1>3 DEF Placed, Shown
  <2>5. MovedIn(M, place2, by2, "ring", ChunksOf(jobRing), ChunksOf(jobRing'))
    <3>1. \A w \in B!Workers, c \in B!Chunks :
            c \in ChunksOf(jobRing')[w] <=> (c \in M /\ w = v) \/ c \in ChunksOf(jobRing)[w]
      BY <1>5, <1>6 DEF ChunksOf
    <3> QED BY <2>3, <2>4, <3>1 DEF MovedIn
  <2>6. Shown(place2, by2, "ring", ChunksOf(jobRing'))
    BY <2>3, <2>5, ShownAfter DEF Placed
  <2>7. Shown(place2, by2, "deque", ChunksIn(deque')) /\ Shown(place2, by2, "todo", ChunksIn(todo'))
    BY <1>1, <1>3, <2>3 DEF Placed, Shown, SameBut
  <2> QED BY <2>1, <2>2, <2>6, <2>7 DEF Placed
<1>9. Due(place2, pending')
  <2> SUFFICES ASSUME NEW i \in B!Jobs
               PROVE  IF pending'[i] = B!NotSubmitted
                        THEN place2[<<i, "left">>] = "out" /\ place2[<<i, "right">>] = "out"
                        ELSE pending'[i] = Open(place2, <<i, "left">>) + Open(place2, <<i, "right">>)
    BY DEF Due
  <2>1. CASE i = j
    <3>1. place2[<<i, "left">>] = "ring" /\ place2[<<i, "right">>] = "ring"
      BY <2>1, ChunkFacts
    <3>2. pending'[i] = 2
      BY <1>1, <2>1 DEF BlockInv, BlockTypes
    <3> QED BY <3>1, <3>2 DEF Open, B!NotSubmitted
  <2>2. CASE i # j
    <3>1. /\ place2[<<i, "left">>] = place[<<i, "left">>]
          /\ place2[<<i, "right">>] = place[<<i, "right">>]
      BY <2>2, ChunkFacts
    <3>2. pending'[i] = pending[i]
      BY <1>1, <2>2 DEF BlockInv, BlockTypes
    <3> QED BY <3>1, <3>2 DEF Due, Open
  <2> QED BY <2>1, <2>2
<1>10. BlockWaits'
  BY <1>1, WaitsKept DEF BlockInv
<1> QED BY <1>7, <1>8, <1>9, <1>10 DEF BlockInv, BlockPlaces

\* A worker takes one chunk out of a deque.
LEMMA ChunkTakenStep ==
  ASSUME BlockInv, NEW w \in B!Workers, todo[w] = <<>>, NEW v \in B!Workers,
         NEW c \in B!Chunks, NEW q \in Seq(B!Chunks), Distinct(q),
         c \in Within(deque[v]), Within(q) = Within(deque[v]) \ {c},
         todo' = [todo EXCEPT ![w] = <<c>>], deque' = [deque EXCEPT ![v] = q],
         UNCHANGED <<waits, jobRing, jobRr, pending>>
  PROVE  BlockInv'
<1> PICK place, by : Placed(place, by, jobRing, deque, todo) /\ Due(place, pending)
  BY DEF BlockInv, BlockPlaces
<1>1. place[c] = "deque" /\ by[c] = v
  BY DEF Placed, Shown, ChunksIn
<1>2. Within(<<c>>) = {c} /\ <<c>> \in InHands /\ Within(<<>>) = {}
  BY HandFacts
<1>3. \A u \in B!Workers : /\ todo'[u] = IF u = w THEN <<c>> ELSE todo[u]
                           /\ deque'[u] = IF u = v THEN q ELSE deque[u]
  BY DEF BlockInv, BlockTypes
<1>4. BlockTypes'
  BY <1>2 DEF BlockInv, BlockTypes
<1> PICK place2, by2 : /\ place2 = [d \in B!Chunks |-> IF d = c THEN "todo" ELSE place[d]]
                       /\ by2 = [d \in B!Chunks |-> IF d = c THEN w ELSE by[d]]
  OBVIOUS
<1>5. Placed(place2, by2, jobRing', deque', todo')
  <2>1. place2 \in [B!Chunks -> PlacesOfChunks] /\ by2 \in [B!Chunks -> B!Workers]
    BY DEF Placed, PlacesOfChunks
  <2>2. \A u \in B!Workers : Distinct(jobRing'[u]) /\ Distinct(deque'[u])
    BY <1>3 DEF Placed
  <2>3. /\ place2[c] = "todo" /\ by2[c] = w
        /\ SameBut({c}, place, by, place2, by2)
    BY DEF SameBut
  <2>4. Shown(place2, by2, "ring", ChunksOf(jobRing'))
    BY <1>1, <2>3 DEF Placed, Shown, SameBut
  <2>5. Shown(place2, by2, "deque", ChunksIn(deque'))
    <3>1. MovedIn({c}, place2, by2, "deque", ChunksIn(deque), ChunksIn(deque'))
      <4> SUFFICES ASSUME NEW u \in B!Workers, NEW d \in B!Chunks
                   PROVE  d \in ChunksIn(deque')[u] <=> d # c /\ d \in ChunksIn(deque)[u]
        BY <2>3 DEF MovedIn
      <4>1. CASE u = v
        BY <1>3, <4>1 DEF ChunksIn
      <4>2. CASE u # v
        <5>1. c \notin ChunksIn(deque)[u]
          BY <1>1, <4>2 DEF Placed, Shown
        <5> QED BY <1>3, <4>2, <5>1 DEF ChunksIn
      <4> QED BY <4>1, <4>2
    <3> QED BY <2>3, <3>1, ShownAfter DEF Placed
  <2>6. Shown(place2, by2, "todo", ChunksIn(todo'))
    <3>1. MovedIn({c}, place2, by2, "todo", ChunksIn(todo), ChunksIn(todo'))
      <4> SUFFICES ASSUME NEW u \in B!Workers, NEW d \in B!Chunks
                   PROVE  d \in ChunksIn(todo')[u] <=> IF d = c THEN u = w ELSE d \in ChunksIn(todo)[u]
        BY <2>3 DEF MovedIn
      <4>1. CASE u = w
        BY <1>2, <1>3, <4>1 DEF ChunksIn
      <4>2. CASE u # w
        <5>1. c \notin ChunksIn(todo)[u]
          BY <1>1 DEF Placed, Shown
        <5> QED BY <1>3, <4>2, <5>1 DEF ChunksIn
      <4> QED BY <4>1, <4>2
    <3> QED BY <2>3, <3>1, ShownAfter DEF Placed
  <2> QED BY <2>1, <2>2, <2>4, <2>5, <2>6 DEF Placed
<1>6. Due(place2, pending')
  <2>1. \A d \in B!Chunks : place2[d] = "out" <=> place[d] = "out"
    BY <1>1
  <2> QED BY <2>1, DueKept
<1>7. BlockWaits'
  BY WaitsKept DEF BlockInv
<1> QED BY <1>4, <1>5, <1>6, <1>7 DEF BlockInv, BlockPlaces

\* The owner takes the last chunk of his deque, a thief the first one.
LEMMA BlockDequeStep ==
  ASSUME BlockInv, NEW w \in B!Workers, NEW v \in B!Workers,
         B!PopDeque(w) \/ B!StealDeque(w, v)
  PROVE  BlockInv'
<1> PICK place, by : Placed(place, by, jobRing, deque, todo)
  BY DEF BlockInv, BlockPlaces
<1>1. \A u \in B!Workers : deque[u] \in Seq(B!Chunks) /\ Distinct(deque[u])
  BY DEF Placed, BlockInv, BlockTypes
<1>2. CASE B!PopDeque(w)
  <2> PICK s, c, q : s = deque[w] /\ c = s[Len(s)] /\ q = SubSeq(s, 1, Len(s) - 1)
    OBVIOUS
  <2>1. /\ s # <<>> /\ todo[w] = <<>> /\ todo' = [todo EXCEPT ![w] = <<c>>]
        /\ deque' = [deque EXCEPT ![w] = SubSeq(@, 1, Len(@) - 1)]
        /\ UNCHANGED <<waits, jobRing, jobRr, pending>>
    BY <1>2 DEF B!PopDeque, B!Searching
  <2>2. s \in Seq(B!Chunks) /\ Distinct(s)
    BY <1>1
  <2>3. /\ q \in Seq(B!Chunks) /\ Distinct(q) /\ c \in B!Chunks /\ c \in Within(s)
        /\ Within(q) = Within(s) \ {c}
    BY <2>1, <2>2, LastGone
  <2>4. deque' = [deque EXCEPT ![w] = q]
    BY <2>1
  <2> QED BY <2>1, <2>3, <2>4, ChunkTakenStep
<1>3. CASE B!StealDeque(w, v)
  <2> PICK s, c, q : s = deque[v] /\ c = Head(s) /\ q = Tail(s)
    OBVIOUS
  <2>1. /\ s # <<>> /\ todo[w] = <<>> /\ todo' = [todo EXCEPT ![w] = <<c>>]
        /\ deque' = [deque EXCEPT ![v] = Tail(@)]
        /\ UNCHANGED <<waits, jobRing, jobRr, pending>>
    BY <1>3 DEF B!StealDeque, B!Victim, B!Searching
  <2>2. s \in Seq(B!Chunks) /\ Distinct(s)
    BY <1>1
  <2>3. /\ q \in Seq(B!Chunks) /\ Distinct(q) /\ c \in B!Chunks /\ c \in Within(s)
        /\ Within(q) = Within(s) \ {c}
    BY <2>1, <2>2, FirstGone
  <2>4. deque' = [deque EXCEPT ![v] = q]
    BY <2>1
  <2> QED BY <2>1, <2>3, <2>4, ChunkTakenStep
<1> QED BY <1>2, <1>3

\* A worker takes a splitter out of a ring: its chunks go into his deque and hands.
LEMMA BlockRingStep ==
  ASSUME BlockInv, NEW w \in B!Workers, NEW v \in B!Workers,
         todo[w] = <<>>, B!TakeRing(w, v)
  PROVE  BlockInv'
<1> PICK place, by : Placed(place, by, jobRing, deque, todo) /\ Due(place, pending)
  BY DEF BlockInv, BlockPlaces
<1> PICK s, j, q : s = jobRing[v] /\ j = Head(s) /\ q = Tail(s)
  OBVIOUS
<1>1. /\ s # <<>> /\ jobRing' = [jobRing EXCEPT ![v] = Tail(@)] /\ B!Split(w, j)
      /\ UNCHANGED <<waits, jobRr, pending>>
  BY DEF B!TakeRing
<1>2. s \in Seq(B!Jobs) /\ Distinct(s)
  BY DEF Placed, BlockInv, BlockTypes
<1>3. /\ q \in Seq(B!Jobs) /\ Distinct(q) /\ j \in B!Jobs /\ j \in Within(s)
      /\ Within(q) = Within(s) \ {j}
  BY <1>1, <1>2, FirstGone
<1> PICK left, right, M : /\ left = <<j, "left">> /\ right = <<j, "right">>
                          /\ M = {c \in B!Chunks : c[1] = j}
  OBVIOUS
<1>4. M = {left, right} /\ left \in B!Chunks /\ right \in B!Chunks /\ left # right
  BY <1>3, ChunkFacts
<1>5. \A c \in M : place[c] = "ring" /\ by[c] = v
  BY <1>3 DEF Placed, Shown, ChunksOf
<1>6. \A u \in B!Workers : jobRing'[u] = IF u = v THEN q ELSE jobRing[u]
  BY <1>1 DEF BlockInv, BlockTypes
<1>7. BlockWaits'
  BY <1>1, WaitsKept DEF BlockInv
<1>8. \A u \in B!Workers, c \in B!Chunks :
        c \in ChunksOf(jobRing')[u] <=> c \notin M /\ c \in ChunksOf(jobRing)[u]
  <2> SUFFICES ASSUME NEW u \in B!Workers, NEW c \in B!Chunks
               PROVE  c \in ChunksOf(jobRing')[u] <=> c \notin M /\ c \in ChunksOf(jobRing)[u]
    OBVIOUS
  <2>1. CASE u = v
    BY <1>3, <1>6, <2>1 DEF ChunksOf
  <2>2. CASE u # v
    <3>1. c \in M => c \notin ChunksOf(jobRing)[u]
      BY <1>5, <2>2 DEF Placed, Shown
    <3> QED BY <1>6, <2>2, <3>1 DEF ChunksOf
  <2> QED BY <2>1, <2>2
<1>9. \A u \in B!Workers, c \in B!Chunks :
        c \in M => c \notin ChunksIn(deque)[u] /\ c \notin ChunksIn(todo)[u]
  BY <1>5 DEF Placed, Shown
<1>10. Within(<<>>) = {} /\ Within(<<left>>) = {left} /\ Within(<<right, left>>) = {left, right}
  BY <1>3, <1>4, HandFacts
<1>11. ChunksIn(todo)[w] = {}
  BY <1>10 DEF ChunksIn
<1>12. <<left>> \in InHands /\ <<right, left>> \in InHands
  BY <1>3, <1>4, HandFacts
<1>13. CASE /\ deque' = [deque EXCEPT ![w] = Append(@, right)]
            /\ todo' = [todo EXCEPT ![w] = <<left>>]
  <2>1. /\ Append(deque[w], right) \in Seq(B!Chunks) /\ Distinct(Append(deque[w], right))
        /\ Within(Append(deque[w], right)) = Within(deque[w]) \cup {right}
    <3>1. PICK d : d = deque[w]
      OBVIOUS
    <3>2. d \in Seq(B!Chunks) /\ Distinct(d)
      BY <3>1 DEF Placed, BlockInv, BlockTypes
    <3>3. right \notin Within(d)
      BY <1>4, <1>9, <3>1 DEF ChunksIn
    <3>4. /\ Append(d, right) \in Seq(B!Chunks) /\ Distinct(Append(d, right))
          /\ Within(Append(d, right)) = Within(d) \cup {right}
      BY <1>4, <3>2, <3>3, OneBehind
    <3> QED BY <3>1, <3>4
  <2>2. \A u \in B!Workers :
          /\ deque'[u] = IF u = w THEN Append(deque[w], right) ELSE deque[u]
          /\ todo'[u] = IF u = w THEN <<left>> ELSE todo[u]
    BY <1>13 DEF BlockInv, BlockTypes
  <2>3. BlockTypes'
    BY <1>1, <1>3, <1>12, <1>13, <2>1 DEF BlockInv, BlockTypes
  <2> PICK place2, by2 :
        /\ place2 = [c \in B!Chunks |-> IF c = right THEN "deque"
                                        ELSE IF c = left THEN "todo" ELSE place[c]]
        /\ by2 = [c \in B!Chunks |-> IF c \in M THEN w ELSE by[c]]
    OBVIOUS
  <2>4. place2 \in [B!Chunks -> PlacesOfChunks] /\ by2 \in [B!Chunks -> B!Workers]
    BY DEF Placed, PlacesOfChunks
  <2>5. /\ place2[right] = "deque" /\ place2[left] = "todo"
        /\ by2[right] = w /\ by2[left] = w /\ SameBut(M, place, by, place2, by2)
    BY <1>4 DEF SameBut
  <2>6. MovedIn(M, place2, by2, "ring", ChunksOf(jobRing), ChunksOf(jobRing'))
    BY <1>4, <1>8, <2>5 DEF MovedIn
  <2>7. MovedIn(M, place2, by2, "deque", ChunksIn(deque), ChunksIn(deque'))
    <3>1. \A u \in B!Workers, c \in B!Chunks :
            c \in ChunksIn(deque')[u] <=> (c = right /\ u = w) \/ c \in ChunksIn(deque)[u]
      BY <2>1, <2>2 DEF ChunksIn
    <3> QED BY <1>4, <1>9, <2>5, <3>1 DEF MovedIn
  <2>8. MovedIn(M, place2, by2, "todo", ChunksIn(todo), ChunksIn(todo'))
    <3>1. \A u \in B!Workers, c \in B!Chunks :
            c \in ChunksIn(todo')[u] <=> (c = left /\ u = w) \/ c \in ChunksIn(todo)[u]
      BY <1>10, <1>11, <2>2 DEF ChunksIn
    <3> QED BY <1>4, <1>9, <2>5, <3>1 DEF MovedIn
  <2>9. /\ Shown(place2, by2, "ring", ChunksOf(jobRing'))
        /\ Shown(place2, by2, "deque", ChunksIn(deque'))
        /\ Shown(place2, by2, "todo", ChunksIn(todo'))
    BY <2>5, <2>6, <2>7, <2>8, ShownAfter DEF Placed
  <2>10. \A u \in B!Workers : Distinct(jobRing'[u]) /\ Distinct(deque'[u])
    BY <1>3, <1>6, <2>1, <2>2 DEF Placed
  <2>11. Placed(place2, by2, jobRing', deque', todo')
    BY <2>4, <2>9, <2>10 DEF Placed
  <2>12. Due(place2, pending')
    <3>1. \A c \in B!Chunks : place2[c] = "out" <=> place[c] = "out"
      BY <1>4, <1>5, <2>5 DEF SameBut
    <3> QED BY <1>1, <3>1, DueKept
  <2> QED BY <1>7, <2>3, <2>11, <2>12 DEF BlockInv, BlockPlaces
<1>14. CASE todo' = [todo EXCEPT ![w] = <<right, left>>] /\ deque' = deque
  <2>1. \A u \in B!Workers : todo'[u] = IF u = w THEN <<right, left>> ELSE todo[u]
    BY <1>14 DEF BlockInv, BlockTypes
  <2>2. BlockTypes'
    BY <1>1, <1>3, <1>12, <1>14 DEF BlockInv, BlockTypes
  <2> PICK place2, by2 :
        /\ place2 = [c \in B!Chunks |-> IF c \in M THEN "todo" ELSE place[c]]
        /\ by2 = [c \in B!Chunks |-> IF c \in M THEN w ELSE by[c]]
    OBVIOUS
  <2>3. place2 \in [B!Chunks -> PlacesOfChunks] /\ by2 \in [B!Chunks -> B!Workers]
    BY DEF Placed, PlacesOfChunks
  <2>4. /\ \A c \in M : c \in B!Chunks /\ place2[c] = "todo" /\ by2[c] = w
        /\ SameBut(M, place, by, place2, by2)
    BY DEF SameBut
  <2>5. MovedIn(M, place2, by2, "ring", ChunksOf(jobRing), ChunksOf(jobRing'))
    BY <1>8, <2>4 DEF MovedIn
  <2>6. MovedIn(M, place2, by2, "deque", ChunksIn(deque), ChunksIn(deque'))
    BY <1>9, <1>14, <2>4 DEF MovedIn
  <2>7. MovedIn(M, place2, by2, "todo", ChunksIn(todo), ChunksIn(todo'))
    <3>1. \A u \in B!Workers, c \in B!Chunks :
            c \in ChunksIn(todo')[u] <=> (c \in M /\ u = w) \/ c \in ChunksIn(todo)[u]
      BY <1>4, <1>10, <1>11, <2>1 DEF ChunksIn
    <3> QED BY <1>9, <2>4, <3>1 DEF MovedIn
  <2>8. /\ Shown(place2, by2, "ring", ChunksOf(jobRing'))
        /\ Shown(place2, by2, "deque", ChunksIn(deque'))
        /\ Shown(place2, by2, "todo", ChunksIn(todo'))
    BY <2>4, <2>5, <2>6, <2>7, ShownAfter DEF Placed
  <2>9. \A u \in B!Workers : Distinct(jobRing'[u]) /\ Distinct(deque'[u])
    BY <1>3, <1>6, <1>14 DEF Placed
  <2>10. Placed(place2, by2, jobRing', deque', todo')
    BY <2>3, <2>8, <2>9 DEF Placed
  <2>11. Due(place2, pending')
    <3>1. \A c \in B!Chunks : place2[c] = "out" <=> place[c] = "out"
      BY <1>5, <2>4 DEF SameBut
    <3> QED BY <1>1, <3>1, DueKept
  <2> QED BY <1>7, <2>2, <2>10, <2>11 DEF BlockInv, BlockPlaces
<1> QED BY <1>1, <1>13, <1>14 DEF B!Split

\* A chunk that has been executed is out, and its job misses one less.
LEMMA BlockFinishStep ==
  ASSUME BlockInv, NEW w \in B!Workers, B!FinishChunk(w)
  PROVE  BlockInv'
<1> PICK place, by : Placed(place, by, jobRing, deque, todo) /\ Due(place, pending)
  BY DEF BlockInv, BlockPlaces
<1> PICK t, c, j : t = todo[w] /\ c = Head(t) /\ j = c[1]
  OBVIOUS
<1>1. /\ t # <<>> /\ todo' = [todo EXCEPT ![w] = Tail(@)]
      /\ pending' = [pending EXCEPT ![j] = @ - 1]
      /\ UNCHANGED <<waits, jobRing, deque, jobRr>>
  BY DEF B!FinishChunk, B!Searching
<1>2. /\ Tail(t) \in InHands /\ c \in B!Chunks /\ c \in Within(t)
      /\ Within(Tail(t)) = Within(t) \ {c}
  <2>1. t \in InHands
    BY DEF BlockInv, BlockTypes
  <2> QED BY <1>1, <2>1, HandsEmptied
<1>3. place[c] = "todo" /\ by[c] = w
  BY <1>2 DEF Placed, Shown, ChunksIn
<1>4. j \in B!Jobs /\ (c = <<j, "left">> \/ c = <<j, "right">>)
  BY <1>2, ChunkFacts
<1>5. /\ pending[j] # B!NotSubmitted
      /\ pending[j] = Open(place, <<j, "left">>) + Open(place, <<j, "right">>)
  BY <1>3, <1>4 DEF Due
<1>6. pending'[j] = pending[j] - 1 /\ \A i \in B!Jobs : i # j => pending'[i] = pending[i]
  BY <1>1, <1>4 DEF BlockInv, BlockTypes
<1>7. \A d : Open(place, d) \in {0, 1}
  BY DEF Open
<1>8. pending[j] \in {1, 2}
  BY <1>3, <1>4, <1>5, <1>7 DEF Open
<1>9. BlockTypes'
  <2>1. pending' \in [B!Jobs -> 0 .. B!NotSubmitted]
    BY <1>1, <1>4, <1>8 DEF BlockInv, BlockTypes, B!NotSubmitted
  <2> QED BY <1>1, <1>2, <2>1 DEF BlockInv, BlockTypes
<1>10. BlockWaits'
  BY <1>1, WaitsKept DEF BlockInv
<1> PICK place2 : place2 = [d \in B!Chunks |-> IF d = c THEN "out" ELSE place[d]]
  OBVIOUS
<1>11. place2[c] = "out" /\ SameBut({c}, place, by, place2, by)
  BY <1>2 DEF SameBut
<1>12. Placed(place2, by, jobRing', deque', todo')
  <2>1. place2 \in [B!Chunks -> PlacesOfChunks] /\ by \in [B!Chunks -> B!Workers]
    BY DEF Placed, PlacesOfChunks
  <2>2. Shown(place2, by, "ring", ChunksOf(jobRing')) /\ Shown(place2, by, "deque", ChunksIn(deque'))
    BY <1>1, <1>3, <1>11 DEF Placed, Shown, SameBut
  <2>3. MovedIn({c}, place2, by, "todo", ChunksIn(todo), ChunksIn(todo'))
    <3> SUFFICES ASSUME NEW u \in B!Workers, NEW d \in B!Chunks
                 PROVE  d \in ChunksIn(todo')[u] <=> d # c /\ d \in ChunksIn(todo)[u]
      BY <1>11 DEF MovedIn
    <3>1. todo'[u] = IF u = w THEN Tail(t) ELSE todo[u]
      BY <1>1 DEF BlockInv, BlockTypes
    <3>2. CASE u = w
      BY <1>2, <3>1, <3>2 DEF ChunksIn
    <3>3. CASE u # w
      <4>1. c \notin ChunksIn(todo)[u]
        BY <1>2, <1>3, <3>3 DEF Placed, Shown
      <4> QED BY <3>1, <3>3, <4>1 DEF ChunksIn
    <3> QED BY <3>2, <3>3
  <2>4. Shown(place2, by, "todo", ChunksIn(todo'))
    BY <1>11, <2>3, ShownAfter DEF Placed
  <2>5. \A u \in B!Workers : Distinct(jobRing'[u]) /\ Distinct(deque'[u])
    BY <1>1 DEF Placed
  <2> QED BY <2>1, <2>2, <2>4, <2>5 DEF Placed
<1>13. Due(place2, pending')
  <2> SUFFICES ASSUME NEW i \in B!Jobs
               PROVE  IF pending'[i] = B!NotSubmitted
                        THEN place2[<<i, "left">>] = "out" /\ place2[<<i, "right">>] = "out"
                        ELSE pending'[i] = Open(place2, <<i, "left">>) + Open(place2, <<i, "right">>)
    BY DEF Due
  <2>1. CASE i = j
    <3> PICK left, right : left = <<j, "left">> /\ right = <<j, "right">>
      OBVIOUS
    <3>1. left \in B!Chunks /\ right \in B!Chunks /\ left # right
      BY <1>4, ChunkFacts
    <3>2. \/ c = left /\ Open(place2, left) = 0 /\ Open(place2, right) = Open(place, right)
          \/ c = right /\ Open(place2, right) = 0 /\ Open(place2, left) = Open(place, left)
      BY <1>4, <1>11, <3>1 DEF Open, SameBut
    <3>3. Open(place, c) = 1
      BY <1>3 DEF Open
    <3>4. pending'[j] = Open(place2, left) + Open(place2, right)
      BY <1>5, <1>6, <1>7, <3>2, <3>3
    <3>5. pending'[j] # B!NotSubmitted
      BY <1>6, <1>8 DEF B!NotSubmitted
    <3> QED BY <2>1, <3>4, <3>5
  <2>2. CASE i # j
    <3>1. /\ place2[<<i, "left">>] = place[<<i, "left">>]
          /\ place2[<<i, "right">>] = place[<<i, "right">>]
      BY <1>11, <2>2, ChunkFacts DEF SameBut
    <3> QED BY <1>6, <2>2, <3>1 DEF Due, Open
  <2> QED BY <2>1, <2>2
<1> QED BY <1>9, <1>10, <1>12, <1>13 DEF BlockInv, BlockPlaces

\* Every step of the workers and of the application keeps BlockInv.
LEMMA BlockStep == BlockInv /\ [B!Next]_blockVars => BlockInv'
<1> SUFFICES ASSUME BlockInv, [B!Next]_blockVars PROVE BlockInv'
  OBVIOUS
<1>1. ASSUME NEW j \in B!Jobs, B!Submit(j) PROVE BlockInv'
  BY <1>1, BlockSubmitStep
<1>2. ASSUME NEW w \in B!Workers, B!Work(w) PROVE BlockInv'
  <2>1. CASE B!PopDeque(w)
    BY <2>1, BlockDequeStep
  <2>2. CASE B!PopRing(w)
    BY <2>2, BlockRingStep DEF B!PopRing, B!Searching
  <2>3. CASE B!FinishChunk(w)
    BY <2>3, BlockFinishStep
  <2> QED BY <1>2, <2>1, <2>2, <2>3 DEF B!Work
<1>3. ASSUME NEW w \in B!Workers, NEW v \in B!Workers, B!Steal(w, v) PROVE BlockInv'
  <2>1. CASE B!StealDeque(w, v)
    BY <2>1, BlockDequeStep
  <2>2. CASE B!StealRing(w, v)
    BY <2>2, BlockRingStep DEF B!StealRing, B!Victim, B!Searching
  <2> QED BY <1>3, <2>1, <2>2 DEF B!Steal
<1>4. CASE UNCHANGED blockVars
  <2>1. UNCHANGED <<waits, jobRing, deque, todo, jobRr, pending>>
    BY <1>4 DEF blockVars
  <2>2. BlockTypes' /\ BlockWaits' /\ BlockPlaces'
    BY <2>1 DEF BlockInv, BlockTypes, BlockWaits, BlockPlaces
  <2> QED BY <2>2 DEF BlockInv
<1> QED BY <1>1, <1>2, <1>3, <1>4 DEF B!Next

\* Where every chunk is and how many of a job are missing is known, for every
\* number of workers, jobs and waiting chunks.
THEOREM BlockInvariant == RuntimeSpec => []BlockInv
<1>1. RuntimeInit => BlockInv
  BY BlockInitial DEF RuntimeInit
<1>2. BlockInv /\ [RuntimeNext]_everything => BlockInv'
  <2>1. [RuntimeNext]_everything => [B!Next]_blockVars
    BY DEF RuntimeNext, everything
  <2> QED BY <2>1, BlockStep
<1> QED BY <1>1, <1>2, PTL DEF RuntimeSpec

\* The behaviours of JobLatch are those of its part.
LEMMA LatchPart == RuntimeSpec => Spec
<1>1. RuntimeInit => Init
  BY DEF RuntimeInit
<1>2. [RuntimeNext]_everything => [Next]_vars
  BY DEF RuntimeNext, everything
<1> QED BY <1>1, <1>2, PTL DEF RuntimeSpec, Spec

\* No wait is stuck: who sleeps for a job will be woken, and while fewer chunks
\* wait inside of jobs than there are workers somebody can go on until all jobs
\* are done (sk_scheduler.c:409-436, sk_worker.c:145-165).
THEOREM WaitTheorem == RuntimeSpec => []NoStuckWait
<1>1. NoLostWakeup /\ BlockInv => NoStuckWait
  BY BlockNeverStuck DEF NoStuckWait
<1> QED BY <1>1, LatchPart, WakeupTheorem, BlockInvariant, PTL
=============================================================================
