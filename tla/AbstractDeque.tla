---------------------------- MODULE AbstractDeque ----------------------------
(***************************************************************************)
(* What the work-stealing deque promises its users: a bounded sequence of  *)
(* tasks; the owner appends batches and takes the youngest task, thieves   *)
(* take the oldest, and what is taken leaves the deque.                    *)
(***************************************************************************)
EXTENDS Integers, Sequences, SequencesExt

CONSTANTS
  Items,     \* the tasks ever pushed
  Capacity

VARIABLES
  queue,     \* the tasks in the deque, oldest first
  taken      \* how often a task was handed to a worker

Init ==
  /\ queue = <<>>
  /\ taken = [i \in Items |-> 0]

Push(batch) ==
  /\ Len(queue) + Len(batch) <= Capacity
  /\ queue' = queue \o batch
  /\ UNCHANGED taken

Hand(i) == taken' = [taken EXCEPT ![i] = @ + 1]

Pop ==
  /\ queue # <<>>
  /\ queue' = Front(queue)
  /\ Hand(Last(queue))

Steal ==
  /\ queue # <<>>
  /\ queue' = Tail(queue)
  /\ Hand(Head(queue))

Next ==
  \/ \E n \in 1 .. Capacity : \E batch \in [1 .. n -> Items] : Push(batch)
  \/ Pop
  \/ Steal

Spec == Init /\ [][Next]_<<queue, taken>>
=============================================================================
