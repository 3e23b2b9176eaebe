------------------------------- MODULE ForkJoin -------------------------------
(***************************************************************************)
(* What the scheduler promises about jobs, without workers, counters and   *)
(* queues: a submitted job is a growing and shrinking set of work items,   *)
(* only an existing item can fork new ones, an item belongs to one job,    *)
(* and the job is done exactly when its last item has joined.              *)
(***************************************************************************)
EXTENDS FiniteSets

CONSTANTS Jobs, Items

VARIABLES
  status,  \* "new", "running" or "done"
  work     \* the unfinished items of a job

Unused == Items \ UNION {work[j] : j \in Jobs}

Init ==
  /\ status = [j \in Jobs |-> "new"]
  /\ work = [j \in Jobs |-> {}]

Submit(j, i) ==
  /\ status[j] = "new" /\ i \in Unused
  /\ status' = [status EXCEPT ![j] = "running"]
  /\ work' = [work EXCEPT ![j] = {i}]

Fork(j, K) ==
  /\ work[j] # {} /\ K # {} /\ K \subseteq Unused
  /\ work' = [work EXCEPT ![j] = @ \cup K]
  /\ UNCHANGED status

Join(j, i) ==
  /\ i \in work[j]
  /\ work' = [work EXCEPT ![j] = @ \ {i}]
  /\ UNCHANGED status

Complete(j) ==
  /\ status[j] = "running" /\ work[j] = {}
  /\ status' = [status EXCEPT ![j] = "done"]
  /\ UNCHANGED work

Next ==
  \E j \in Jobs :
    \/ \E i \in Items : Submit(j, i) \/ Join(j, i)
    \/ \E K \in SUBSET Items : Fork(j, K)
    \/ Complete(j)

Spec == Init /\ [][Next]_<<status, work>>
=============================================================================
