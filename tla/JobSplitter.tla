----------------------------- MODULE JobSplitter -----------------------------
(***************************************************************************)
(* How a submitted job is cut into ranges (internal_macro_job_splitter,    *)
(* with the chunk size scheduler_submit_job settles).                      *)
(*                                                                         *)
(* A frame is a range that a splitter task still has to work on; a frame   *)
(* in a deque and one a worker is in the middle of differ only in who will *)
(* take the next step, so the frames of all tasks are one set.  When the   *)
(* pool is empty or the deque full the right half is executed on the spot. *)
(***************************************************************************)
EXTENDS Integers

CONSTANTS
  MaxPayload,    \* bound: payload_size of the job
  DefaultChunk   \* DEFAULT_CHUNK_SIZE

ASSUME SplitterAssumption ==
  /\ MaxPayload \in Nat
  /\ DefaultChunk \in Nat \ {0}

VARIABLES
  payload,   \* payload_size
  chunk,     \* chunk_size of the job
  frames,    \* ranges still to be split or executed
  hits       \* how often the job function was given an element

vars == <<payload, chunk, frames, hits>>

Elements == 0 .. payload - 1
Frames == [lo : Nat, hi : Nat]
In(e, f) == f.lo <= e /\ e < f.hi

\* Faulty variant: only sizes above the payload are illegal.
ChunkSizeFaulty(requested, size) ==
  IF requested > size THEN DefaultChunk ELSE requested
\* scheduler_submit_job: an illegal size is replaced by the default.
ChunkSize(requested, size) ==
  IF requested > size \/ requested = 0 THEN DefaultChunk ELSE requested

Init ==
  /\ payload \in 0 .. MaxPayload
  /\ \E requested \in 0 .. MaxPayload + 1 : chunk = ChunkSize(requested, payload)
  /\ frames = {[lo |-> 0, hi |-> payload]}
  /\ hits = [e \in Elements |-> 0]

\* Faulty variant: rounded down.
AlignFaulty(m) == m - (m % chunk)
\* The next multiple of the chunk size.
Align(m) == IF m % chunk = 0 THEN m ELSE m + (chunk - (m % chunk))

Mid(f) == Align(f.lo + (f.hi - f.lo) \div 2)

\* The loop condition, and the break behind the computation of mid_point.
Splits(f) == f.hi - f.lo > chunk /\ Mid(f) < f.hi

\* Faulty variant: end_idx keeps its value.
LeftFaulty(f) == f
\* end_idx = mid_point
Left(f)  == [f EXCEPT !.hi = Mid(f)]
\* Faulty variant: the element at mid_point is in neither half.
RightFaulty(f) == [f EXCEPT !.lo = Mid(f) + 1]
\* The range of right_task, or of the inline call.
Right(f) == [f EXCEPT !.lo = Mid(f)]

\* The job function is called with the range of r.
Execute(r) == hits' = [e \in Elements |-> IF In(e, r) THEN hits[e] + 1 ELSE hits[e]]

\* A new task is pushed for the right half.
PushRight(f) ==
  /\ f \in frames /\ Splits(f)
  /\ frames' = (frames \ {f}) \cup {Left(f), Right(f)}
  /\ UNCHANGED <<payload, chunk, hits>>

\* No task in the pool, or no room in the deque.
RunRight(f) ==
  /\ f \in frames /\ Splits(f)
  /\ Execute(Right(f))
  /\ frames' = (frames \ {f}) \cup {Left(f)}
  /\ UNCHANGED <<payload, chunk>>

RunLeaf(f) ==
  /\ f \in frames /\ ~Splits(f)
  /\ Execute(f)
  /\ frames' = frames \ {f}
  /\ UNCHANGED <<payload, chunk>>

Next == \E f \in frames : PushRight(f) \/ RunRight(f) \/ RunLeaf(f)

Spec == Init /\ [][Next]_vars

\* Some worker goes on with some frame as long as there is one.
FairSpec == Spec /\ WF_vars(Next)

-----------------------------------------------------------------------------
TypeOK ==
  /\ payload \in 0 .. MaxPayload
  /\ chunk \in Nat \ {0}
  /\ frames \subseteq Frames
  /\ hits \in [Elements -> Nat]

\* Every element of the payload belongs to exactly one frame until the job
\* function gets it, and to none afterwards: whatever mix of pushes and inline
\* executions happens, nothing is processed twice or forgotten
\* (sk_worker.c:290-332).
ExactlyOnce ==
  \A e \in Elements :
    \/ hits[e] = 0 /\ \E f \in frames : In(e, f) /\ \A g \in frames : In(e, g) => g = f
    \/ hits[e] = 1 /\ \A f \in frames : ~In(e, f)

\* A frame longer than a chunk is always split into two non-empty parts at a
\* multiple of the chunk size: the break at sk_worker.c:299 is never taken, no
\* range longer than a chunk is left to one task because of it, and the loop
\* makes progress.
SplitsInside ==
  \A f \in frames : f.hi - f.lo > chunk => f.lo < Mid(f) /\ Mid(f) < f.hi

\* The job function is called for every element, after finitely many splits.
AllExecuted == <>(\A e \in Elements : hits[e] = 1)
=============================================================================
