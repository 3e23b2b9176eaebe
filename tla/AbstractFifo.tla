----------------------------- MODULE AbstractFifo -----------------------------
(***************************************************************************)
(* What the injection ring promises: a bounded queue that hands tasks out  *)
(* in the order they came in, each to one worker.                          *)
(***************************************************************************)
EXTENDS Integers, Sequences

CONSTANTS Items, Capacity

VARIABLES
  queue,   \* the tasks in the ring, oldest first
  taken    \* how often a task was handed to a worker

Init ==
  /\ queue = <<>>
  /\ taken = [i \in Items |-> 0]

Put ==
  /\ Len(queue) < Capacity
  /\ \E i \in Items : queue' = Append(queue, i)
  /\ UNCHANGED taken

Get ==
  /\ queue # <<>>
  /\ queue' = Tail(queue)
  /\ taken' = [taken EXCEPT ![Head(queue)] = @ + 1]

Next == Put \/ Get

Spec == Init /\ [][Next]_<<queue, taken>>
=============================================================================
