------------------------------- MODULE JobLatch -------------------------------
(***************************************************************************)
(* Waiting for a job: the state word of an sc_job, the threads in          *)
(* scheduler_wait_for_job (sk_scheduler.c:409-436), the workers in         *)
(* hooked_job_finish_task (sk_worker.c:272-284) and the futex between      *)
(* them.  The job struct is used again for one job after another.          *)
(***************************************************************************)
EXTENDS Naturals, FiniteSets

CONSTANTS
  Waiters,    \* threads that wait for the job, at the same time or not
  Finishers,  \* the workers: one of them finishes the job
  MaxJobs     \* bound: jobs run with this struct in a behaviour

Nobody == "nobody"

ASSUME LatchAssumption == MaxJobs \in Nat /\ Nobody \notin Finishers

VARIABLES
  state,    \* sc_job.state
  waiter,   \* where each thread is in scheduler_wait_for_job
  running,  \* the worker that will finish the job, or Nobody
  waking,   \* workers between the exchange and sk_futex_wake
  jobs      \* jobs started so far

vars == <<state, waiter, running, waking, jobs>>

Init ==
  /\ state = "RUNNING"
  /\ waiter = [a \in Waiters |-> "out"]
  /\ running = Nobody
  /\ waking = {}
  /\ jobs = 0

-----------------------------------------------------------------------------
(* The application.                                                         *)

\* JOB_STATE_RUNNING of scheduler_init_job.
Fresh == "RUNNING"

\* scheduler_init_job and an accepted scheduler_submit_job.  The struct is
\* initialised again only when its job is done and nobody is in a wait, which
\* says nothing about the worker that finished it.
StartJob(w) ==
  /\ jobs < MaxJobs
  /\ running = Nobody /\ w \notin waking
  /\ \A a \in Waiters : waiter[a] = "out"
  /\ state' = IF jobs = 0 THEN state ELSE Fresh
  /\ running' = w
  /\ jobs' = jobs + 1
  /\ UNCHANGED <<waiter, waking>>

Goto(a, place) == waiter' = [waiter EXCEPT ![a] = place]

\* A wait for a job that was accepted, running still or done already.
WaitCall(a) ==
  /\ waiter[a] = "out" /\ jobs > 0
  /\ Goto(a, "spin")
  /\ UNCHANGED <<state, running, waking, jobs>>

\* Where the tests of the loop lead with a value of the state word.
Decide(s) == CASE s = "DONE"    -> "out"
               [] s = "RUNNING" -> "cas"
               [] s = "WAITING" -> "futex"

\* scheduler_is_job_complete; the thread leaves the spin after 1000 rounds at
\* the latest.
Spin(a) ==
  /\ waiter[a] = "spin"
  /\ Goto(a, IF state = "DONE" THEN "out" ELSE "load")
  /\ UNCHANGED <<state, running, waking, jobs>>

Load(a) ==
  /\ waiter[a] = "load"
  /\ Goto(a, Decide(state))
  /\ UNCHANGED <<state, running, waking, jobs>>

\* atomic_compare_exchange_weak from RUNNING.
Announce == state = "RUNNING"

\* RUNNING becomes WAITING.
CasWaiting(a) ==
  /\ waiter[a] = "cas" /\ Announce
  /\ state' = "WAITING"
  /\ Goto(a, "futex")
  /\ UNCHANGED <<running, waking, jobs>>

\* The weak form may also fail spuriously; the state is loaded again.
CasFails(a) ==
  /\ waiter[a] = "cas"
  /\ Goto(a, Decide(state))
  /\ UNCHANGED <<state, running, waking, jobs>>

\* Faulty variant: the kernel does not compare.
SleepsFaulty == TRUE
\* FUTEX_WAIT sleeps only while the word has the expected value.
Sleeps == state = "WAITING"

FutexWait(a) ==
  /\ waiter[a] = "futex"
  /\ Goto(a, IF Sleeps THEN "asleep" ELSE "load")
  /\ UNCHANGED <<state, running, waking, jobs>>

\* Signals and the sched_yield fallback end a wait at any time.
SpuriousWakeup(a) ==
  /\ waiter[a] = "asleep"
  /\ Goto(a, "load")
  /\ UNCHANGED <<state, running, waking, jobs>>

-----------------------------------------------------------------------------
(* hooked_job_finish_task                                                   *)

\* Faulty variant: a wake-up for threads that are still running only.
MustWakeFaulty(prev) == prev = "RUNNING"
MustWake(prev) == prev = "WAITING"

Exchange(w) ==
  /\ running = w
  /\ state' = "DONE"
  /\ running' = Nobody
  /\ waking' = IF MustWake(state) THEN waking \cup {w} ELSE waking
  /\ UNCHANGED <<waiter, jobs>>

\* Faulty variant: a wake-up is taken for the end of the job.
WokenFaulty == "out"
\* Where a thread goes that was woken: not back to its caller.
Woken == "load"

\* FUTEX_WAKE wakes all threads asleep on the address, whatever job they wait
\* for by now.
FutexWake(w) ==
  /\ w \in waking
  /\ waking' = waking \ {w}
  /\ waiter' = [a \in Waiters |-> IF waiter[a] = "asleep" THEN Woken ELSE waiter[a]]
  /\ UNCHANGED <<state, running, jobs>>

-----------------------------------------------------------------------------
Wait(a) == Spin(a) \/ Load(a) \/ CasWaiting(a) \/ CasFails(a) \/ FutexWait(a)

Finish(w) == Exchange(w) \/ FutexWake(w)

Next ==
  \/ \E w \in Finishers : StartJob(w) \/ Finish(w)
  \/ \E a \in Waiters : WaitCall(a) \/ Wait(a) \/ SpuriousWakeup(a)

Spec == Init /\ [][Next]_vars

\* A waiting thread runs unless it sleeps; a worker finishes an accepted job
\* (TaskGraph!JobCompletes) and then wakes.  Nothing relies on spurious wake-ups.
FairSpec ==
  /\ Spec
  /\ \A a \in Waiters : WF_vars(Wait(a))
  /\ \A w \in Finishers : WF_vars(Finish(w))

-----------------------------------------------------------------------------
(* Properties.                                                              *)

\* The word is DONE exactly while no job of the struct is unfinished.
TypeOK ==
  /\ state \in IF running = Nobody /\ jobs > 0 THEN {"DONE"} ELSE {"RUNNING", "WAITING"}
  /\ waiter \in [Waiters -> {"out", "spin", "load", "cas", "futex", "asleep"}]
  /\ running \in Finishers \cup {Nobody}
  /\ waking \subseteq Finishers
  /\ jobs \in 0 .. MaxJobs

\* A thread sleeps only while the job still has to be finished by a worker
\* that will see WAITING, or while a worker is about to wake everybody: the
\* job cannot finish between the last look at its state and the sleep
\* (sk_scheduler.c:420-432, sk_worker.c:278-282).
NoLostWakeup ==
  \A a \in Waiters : waiter[a] = "asleep" =>
    \/ state = "WAITING" /\ running # Nobody
    \/ waking # {}

\* scheduler_wait_for_job "blocks the calling thread until the job is
\* complete": no thread returns while the job it waits for runs, even if it is
\* woken by the worker that finished the previous job of the struct
\* (sk_scheduler.c:419-435, sk_worker.c:282).
NoEarlyReturn ==
  [][ \A a \in Waiters :
        waiter[a] # "out" /\ waiter'[a] = "out" => running = Nobody ]_vars

\* Every wait returns.
WaitReturns == \A a \in Waiters : waiter[a] # "out" ~> waiter[a] = "out"
=============================================================================
