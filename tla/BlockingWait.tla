----------------------------- MODULE BlockingWait -----------------------------
(***************************************************************************)
(* scheduler_wait_for_job called in the function of a job: the worker that *)
(* executes the function sleeps (sk_scheduler.c:409-436) and serves neither *)
(* its deque nor its ring, others have to (sk_worker.c:155-166).            *)
(*                                                                         *)
(* Every job is cut into two chunks by its splitter (sk_worker.c:287-333), *)
(* and each chunk may wait for another job.  That a sleeping worker wakes  *)
(* up when the job is done is the subject of JobLatch, and that a ring has *)
(* one producer stays true here: only the application thread submits.      *)
(***************************************************************************)
EXTENDS Integers, Sequences, FiniteSets

CONSTANTS
  Count,      \* global_worker_count
  MaxJobs,    \* number of jobs
  MaxWaiting  \* how many chunks wait for another job at most

BlockingAssumption ==
  Count \in Nat \ {0} /\ MaxJobs \in Nat /\ MaxWaiting \in Nat

VARIABLES
  waits,    \* the job each chunk waits for, 0 for none
  ring,     \* ring of each worker: jobs whose splitter is queued
  deque,    \* deque of each worker: chunks, the last one at the bottom
  todo,     \* chunks the worker still executes in its present frame
  rr,       \* rr_worker_index
  pending   \* chunks of a job that are not executed yet

vars == <<waits, ring, deque, todo, rr, pending>>

Workers == 1 .. Count
Jobs == 1 .. MaxJobs
Chunks == Jobs \X {"left", "right"}
NotSubmitted == 3

\* No chunk waits, over however many jobs, for its own job: the jobs are
\* numbered so that a job waits for later ones.  The order of submission is
\* free.
NoCycle(f) ==
  /\ \A c \in Chunks : f[c] = 0 \/ f[c] > c[1]
  /\ Cardinality({c \in Chunks : f[c] # 0}) <= MaxWaiting

Init ==
  /\ waits \in {f \in [Chunks -> 0 .. MaxJobs] : NoCycle(f)}
  /\ ring = [w \in Workers |-> <<>>]
  /\ deque = [w \in Workers |-> <<>>]
  /\ todo = [w \in Workers |-> <<>>]
  /\ rr = 0
  /\ pending = [j \in Jobs |-> NotSubmitted]

Done(j) == pending[j] = 0

\* scheduler_submit_job, into the ring whose turn it is.
Submit(j) ==
  /\ pending[j] = NotSubmitted
  /\ pending' = [pending EXCEPT ![j] = 2]
  /\ ring' = [ring EXCEPT ![1 + rr] = Append(@, j)]
  /\ rr' = (rr + 1) % Count
  /\ UNCHANGED <<waits, deque, todo>>

\* The splitter of j: the right chunk goes on the deque, or is executed first
\* if it cannot be pushed.
Split(w, j) ==
  \/ /\ deque' = [deque EXCEPT ![w] = Append(@, <<j, "right">>)]
     /\ todo' = [todo EXCEPT ![w] = <<<<j, "left">>>>]
  \/ /\ todo' = [todo EXCEPT ![w] = <<<<j, "right">>, <<j, "left">>>>]
     /\ UNCHANGED deque

\* The worker is in its loop.
Searching(w) == todo[w] = <<>>

PopDeque(w) ==
  /\ Searching(w) /\ deque[w] # <<>>
  /\ todo' = [todo EXCEPT ![w] = <<deque[w][Len(deque[w])]>>]
  /\ deque' = [deque EXCEPT ![w] = SubSeq(@, 1, Len(@) - 1)]
  /\ UNCHANGED <<waits, ring, rr, pending>>

\* spmc_consumer_pop on the ring of v.
TakeRing(w, v) ==
  /\ ring[v] # <<>>
  /\ ring' = [ring EXCEPT ![v] = Tail(@)]
  /\ Split(w, Head(ring[v]))
  /\ UNCHANGED <<waits, rr, pending>>

PopRing(w) == Searching(w) /\ deque[w] = <<>> /\ TakeRing(w, w)

\* The own queues are empty; v was drawn.
Victim(w, v) ==
  /\ Searching(w) /\ v # w
  /\ deque[w] = <<>> /\ ring[w] = <<>>

StealDeque(w, v) ==
  /\ Victim(w, v) /\ deque[v] # <<>>
  /\ todo' = [todo EXCEPT ![w] = <<Head(deque[v])>>]
  /\ deque' = [deque EXCEPT ![v] = Tail(@)]
  /\ UNCHANGED <<waits, ring, rr, pending>>

\* Faulty variant: the rings of others are not searched.
HisRingFaulty(v) == FALSE
\* The ring of the victim is searched when his deque is empty.
HisRing(v) == deque[v] = <<>>

StealRing(w, v) == Victim(w, v) /\ HisRing(v) /\ TakeRing(w, v)

\* scheduler_wait_for_job returns, or the chunk does not call it.
Returns(c) == waits[c] \in {0} \cup {j \in Jobs : Done(j)}

\* The chunk has been executed; the last one of its job completes it.
FinishChunk(w) ==
  /\ ~Searching(w) /\ Returns(Head(todo[w]))
  /\ todo' = [todo EXCEPT ![w] = Tail(@)]
  /\ pending' = [pending EXCEPT ![Head(todo[w])[1]] = @ - 1]
  /\ UNCHANGED <<waits, ring, deque, rr>>

Work(w) == PopDeque(w) \/ PopRing(w) \/ FinishChunk(w)

Steal(w, v) == StealDeque(w, v) \/ StealRing(w, v)

Next ==
  \/ \E j \in Jobs : Submit(j)
  \/ \E w \in Workers : Work(w) \/ \E v \in Workers : Steal(w, v)

Spec == Init /\ [][Next]_vars

\* Threads keep running, and no victim is missed for ever by all searching
\* workers (VictimChoice!EveryVictimDrawn).
FairSpec ==
  /\ Spec
  /\ WF_vars(\E j \in Jobs : Submit(j))
  /\ \A w \in Workers : WF_vars(Work(w))
  /\ \A v \in Workers : SF_vars(\E w \in Workers : Steal(w, v))

-----------------------------------------------------------------------------
(* Properties.                                                              *)

\* The worker is in its loop and finds something, at least with the right draw.
CanTake(w) ==
  /\ Searching(w)
  /\ \E v \in Workers : deque[v] # <<>> \/ ((v = w \/ HisRing(v)) /\ ring[v] # <<>>)

\* Waiting inside tasks cannot block all threads while fewer chunks wait than
\* there are workers: until all jobs are done one can be submitted, a worker can
\* finish what it executes, or one that is awake finds a task
\* (sk_worker.c:145-165, sk_scheduler.c:432).
NeverStuck ==
  MaxWaiting < Count /\ (\E j \in Jobs : ~Done(j)) =>
    \/ \E j \in Jobs : pending[j] = NotSubmitted
    \/ \E w \in Workers : ~Searching(w) /\ Returns(Head(todo[w]))
    \/ \E w \in Workers : CanTake(w)

\* Waiting inside tasks cannot stop the scheduler while fewer chunks wait than
\* there are workers: a worker that is awake takes what lies in the queues of
\* the sleeping ones, their rings included (sk_worker.c:161-165,
\* sk_scheduler.c:432).
JobsComplete ==
  MaxWaiting < Count => <>(\A j \in Jobs : Done(j))
=============================================================================
