----------------------------- MODULE AbstractPool -----------------------------
(***************************************************************************)
(* What the task pool promises: a task is shared, kept by one thread, or   *)
(* in use.  A thread takes what it keeps before it takes what is shared,   *)
(* and gives back tasks in whole batches, each in one atomic step.         *)
(***************************************************************************)
EXTENDS Integers, FiniteSets

CONSTANTS
  Threads,
  Tasks,
  CacheCapacity,  \* tasks a thread keeps at most
  EvictCount      \* tasks a thread shares when it keeps too many

VARIABLES shared, kept, used

Init ==
  /\ shared = Tasks
  /\ kept = [th \in Threads |-> {}]
  /\ used = {}

TakeKept(th) ==
  \E t \in kept[th] :
    /\ kept' = [kept EXCEPT ![th] = @ \ {t}]
    /\ used' = used \cup {t}
    /\ UNCHANGED shared

TakeShared(th) ==
  /\ kept[th] = {}
  /\ \E t \in shared :
       /\ shared' = shared \ {t}
       /\ used' = used \cup {t}
  /\ UNCHANGED kept

Keep(th) ==
  /\ Cardinality(kept[th]) < CacheCapacity
  /\ \E t \in used :
       /\ used' = used \ {t}
       /\ kept' = [kept EXCEPT ![th] = @ \cup {t}]
  /\ UNCHANGED shared

Share(th) ==
  /\ Cardinality(kept[th]) = CacheCapacity
  /\ \E t \in used, batch \in SUBSET kept[th] :
       /\ Cardinality(batch) = EvictCount
       /\ used' = used \ {t}
       /\ kept' = [kept EXCEPT ![th] = @ \ batch]
       /\ shared' = shared \cup batch \cup {t}

Next == \E th \in Threads : TakeKept(th) \/ TakeShared(th) \/ Keep(th) \/ Share(th)

Spec == Init /\ [][Next]_<<shared, kept, used>>
=============================================================================
