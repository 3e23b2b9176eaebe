------------------------------- MODULE SpmcRing -------------------------------
(***************************************************************************)
(* The injection ring of a worker: the application thread pushes           *)
(* (sk_scheduler.c:152-166), the worker and its thieves pop                *)
(* (sk_worker.c:44-63).  One step per access to memory another thread can  *)
(* see.  On x86 the two stores of a push reach memory in order and the     *)
(* loads of a pop are done in order, so a late store is a late step.       *)
(***************************************************************************)
EXTENDS Integers, Sequences

CONSTANTS
  Consumers,  \* the worker and its thieves
  Capacity,   \* rb_capacity_mask + 1
  MaxItems    \* bound: tasks accepted in a behaviour

ASSUME RingAssumption ==
  /\ Capacity \in Nat \ {0}
  /\ MaxItems \in Nat

VARIABLES
  head,       \* rb_head
  tail,       \* rb_tail, also current_tail of the producer
  slot,       \* rb_buffer; 0 is what an uninitialised slot holds
  headCache,  \* rb_head_cache
  pc,         \* where the producer is
  consumer,   \* where each consumer is, with its current_head and task
  taken       \* history: how often a task was returned to a worker

vars == <<head, tail, slot, headCache, pc, consumer, taken>>

Items == 1 .. MaxItems
Slots == 0 .. Capacity - 1

\* index & rb_capacity_mask
At(i) == i % Capacity

Idle == [pc |-> "idle", head |-> 0, task |-> 0]

\* allocate_worker_pool does not clear the buffer.
Init ==
  /\ head = 0 /\ tail = 0 /\ headCache = 0
  /\ slot = [s \in Slots |-> 0]
  /\ pc = "idle"
  /\ consumer = [c \in Consumers |-> Idle]
  /\ taken = [i \in Items |-> 0]

-----------------------------------------------------------------------------
(* spmc_producer_push; the n-th accepted task is task n.                    *)

PushCall ==
  /\ pc = "idle" /\ tail < MaxItems
  /\ pc' = "check"
  /\ UNCHANGED <<head, tail, slot, headCache, consumer, taken>>

\* Faulty variant: one task more than slots.
FullFaulty(h) == tail - h > Capacity
\* Faulty variant: one slot is left unused.
FullEarlyFaulty(h) == tail - h >= Capacity - 1
\* No slot is left, judged by a value of the head.
Full(h) == tail - h >= Capacity

\* The head is loaded again only when the cached one leaves no room.
PushCheck ==
  /\ pc = "check"
  /\ headCache' = IF Full(headCache) THEN head ELSE headCache
  /\ pc' = IF Full(headCache) /\ Full(head) THEN "idle" ELSE "slot"
  /\ UNCHANGED <<head, tail, slot, consumer, taken>>

PushSlot ==
  /\ pc = "slot"
  /\ slot' = [slot EXCEPT ![At(tail)] = tail + 1]
  /\ pc' = "tail"
  /\ UNCHANGED <<head, tail, headCache, consumer, taken>>

PushTail ==
  /\ pc = "tail"
  /\ tail' = tail + 1
  /\ pc' = "idle"
  /\ UNCHANGED <<head, slot, headCache, consumer, taken>>

-----------------------------------------------------------------------------
(* spmc_consumer_pop                                                        *)

PopHead(c) ==
  /\ consumer[c].pc = "idle"
  /\ consumer' = [consumer EXCEPT ![c] = [@ EXCEPT !.pc = "tail", !.head = head]]
  /\ UNCHANGED <<head, tail, slot, headCache, pc, taken>>

None(h) == h >= tail

\* With nothing to take NULL is returned.
PopTail(c) ==
  /\ consumer[c].pc = "tail"
  /\ consumer' = [consumer EXCEPT ![c] = IF None(@.head) THEN Idle
                                         ELSE [@ EXCEPT !.pc = "slot"]]
  /\ UNCHANGED <<head, tail, slot, headCache, pc, taken>>

\* The slot may be overwritten at any moment: what is read here counts only if
\* the compare-and-swap succeeds.
PopSlot(c) ==
  /\ consumer[c].pc = "slot"
  /\ consumer' = [consumer EXCEPT ![c] = [@ EXCEPT !.pc = "cas",
                                                   !.task = slot[At(consumer[c].head)]]]
  /\ UNCHANGED <<head, tail, slot, headCache, pc, taken>>

\* Faulty variant: the head is stored without comparing.
WinsFaulty(h) == TRUE
\* atomic_compare_exchange_strong on rb_head
Wins(h) == head = h

PopCas(c) ==
  /\ consumer[c].pc = "cas"
  /\ IF Wins(consumer[c].head)
     THEN /\ head' = consumer[c].head + 1
          /\ taken' = [taken EXCEPT ![consumer[c].task] = @ + 1]
     ELSE UNCHANGED <<head, taken>>
  /\ consumer' = [consumer EXCEPT ![c] = Idle]
  /\ UNCHANGED <<tail, slot, headCache, pc>>

-----------------------------------------------------------------------------
Push == PushCall \/ PushCheck \/ PushSlot \/ PushTail

Pop(c) == PopHead(c) \/ PopTail(c) \/ PopSlot(c) \/ PopCas(c)

Next == Push \/ \E c \in Consumers : Pop(c)

Spec == Init /\ [][Next]_vars

-----------------------------------------------------------------------------
(* Properties.                                                              *)

Contents == [i \in 1 .. tail - head |-> slot[At(head + i - 1)]]

TypeOK ==
  /\ head \in 0 .. MaxItems /\ tail \in head .. MaxItems
  /\ headCache \in 0 .. head
  /\ slot \in [Slots -> Items \cup {0}]
  /\ pc \in {"idle", "check", "slot", "tail"}
  /\ consumer \in [Consumers -> [pc : {"idle", "tail", "slot", "cas"},
                                 head : 0 .. head, task : Items \cup {0}]]
  /\ taken \in [Items -> 0 .. 1]

\* A consumer whose compare-and-swap would succeed holds the oldest task of
\* the ring: it never returns what the slot held before it was written or
\* after it was written again, although the head is read, the slot is read
\* and the head is exchanged in three steps (sk_worker.c:45-58).
HeldIsOldest ==
  \A c \in Consumers :
    consumer[c].pc = "cas" /\ consumer[c].head = head
      => head < tail /\ consumer[c].task = Contents[1]

\* A refused submission met a full ring, and a consumer that comes away from
\* its look at both indices without a task met an empty one: no task is
\* overlooked because head and tail are loaded one after the other
\* (sk_scheduler.c:158-160, sk_worker.c:45-50).
RefusalsJustified ==
  [][ /\ pc = "check" /\ pc' = "idle" => tail - head = Capacity
      /\ \A c \in Consumers :
           consumer[c].pc = "tail" /\ consumer'[c].pc = "idle" => head = tail ]_vars

AF == INSTANCE AbstractFifo WITH queue <- Contents

\* The ring is linearizable: a push takes effect when the tail is stored, a
\* pop when the head is exchanged, and nothing else changes the queue.
ImplementsFifo == AF!Spec

=============================================================================
