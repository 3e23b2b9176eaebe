---------------------------- MODULE ChaseLevDeque ----------------------------
(***************************************************************************)
(* The Chase-Lev deque of a worker (sk_cl_deque.h), one step per access to *)
(* memory another thread can see.                                          *)
(*                                                                         *)
(* The owner's stores are plain, relaxed or release: they wait in a store  *)
(* buffer, in program order, until the hardware writes them to memory (the *)
(* x86 build; a fence and a compare-and-swap empty the buffer first).  The *)
(* owner reads its own buffered stores, thieves read memory.  Thieves      *)
(* write nothing but `top`, by compare-and-swap.                           *)
(***************************************************************************)
EXTENDS Integers, Sequences

CONSTANTS
  Thieves,   \* the workers that may steal from this deque
  Capacity,  \* capacity_mask + 1
  MaxItems   \* bound: tasks pushed in a behaviour

ASSUME DequeAssumption ==
  /\ Capacity \in Nat \ {0, 1}
  /\ MaxItems \in Nat

VARIABLES
  top,       \* top, only written by compare-and-swap
  bottom,    \* bottom in memory, what a thief reads
  slot,      \* buffer in memory; 0 is what an uninitialised slot holds
  stores,    \* the owner's pending stores, oldest first
  myBottom,  \* bottom as the owner reads it
  mySlot,    \* buffer as the owner reads it
  topCache,  \* top_cache
  pc,        \* where the owner is in chase_lev_pop
  myTop,     \* t in chase_lev_pop
  thief,     \* where each thief is in chase_lev_steal, with its t and task
  pushed,    \* tasks pushed so far: task n is the n-th push
  taken      \* history: how often a task was returned to a worker

vars == <<top, bottom, slot, stores, myBottom, mySlot, topCache, pc, myTop,
          thief, pushed, taken>>

memory   == <<bottom, slot>>
ownView  == <<stores, myBottom, mySlot>>
ownerLoc == <<pc, myTop>>

Items == 1 .. MaxItems
Slots == 0 .. Capacity - 1

\* index & capacity_mask
At(i) == i % Capacity

Idle == [pc |-> "idle", t |-> 0, task |-> 0]

\* chase_lev_init: the buffer is not cleared.
Init ==
  /\ top = 0 /\ bottom = 0 /\ topCache = 0
  /\ slot = [s \in Slots |-> 0]
  /\ stores = <<>>
  /\ myBottom = 0
  /\ mySlot = slot
  /\ pc = "idle" /\ myTop = 0
  /\ thief = [h \in Thieves |-> Idle]
  /\ pushed = 0
  /\ taken = [i \in Items |-> 0]

-----------------------------------------------------------------------------
(* The store buffer.                                                        *)

SlotStore(i, task) == [to |-> At(i), value |-> task]
BottomStore(b)     == [to |-> -1, value |-> b]

\* The oldest pending store reaches memory.
Drain ==
  /\ stores # <<>>
  /\ LET s == Head(stores) IN
       IF s.to = -1 THEN bottom' = s.value /\ UNCHANGED slot
                    ELSE slot' = [slot EXCEPT ![s.to] = s.value] /\ UNCHANGED bottom
  /\ stores' = Tail(stores)
  /\ UNCHANGED <<top, myBottom, mySlot, topCache, ownerLoc, thief, pushed, taken>>

StoreBottom(b) ==
  /\ stores' = Append(stores, BottomStore(b))
  /\ myBottom' = b
  /\ UNCHANGED mySlot

\* Faulty variant: no fence between the store of bottom and the load of top.
FencedFaulty == TRUE
\* atomic_thread_fence(memory_order_seq_cst), or the compare-and-swap, has
\* waited for the owner's stores.
Fenced == stores = <<>>

Return(task) == taken' = [taken EXCEPT ![task] = @ + 1]

-----------------------------------------------------------------------------
(* The owner.                                                               *)

\* Faulty variant: one slot too many.
RoomFaulty(t) == Capacity - (myBottom - t) + 1
\* Free slots, judged by a value of top.
Room(t) == Capacity - (myBottom - t)

\* chase_lev_push (n = 1) and chase_lev_push_batch: top is loaded only when
\* the cached value leaves too little room; what does not fit is left to the
\* caller.  The stores are buffered, so the call is one step for the others.
Push(n) ==
  LET t == IF Room(topCache) < n THEN top ELSE topCache
      k == IF Room(t) < n THEN Room(t) ELSE n
      Task(i) == pushed + 1 + (i - myBottom)
      Written(s) == {i \in myBottom .. myBottom + k - 1 : At(i) = s}
  IN
  /\ pc = "idle"
  /\ pushed + n <= MaxItems
  /\ topCache' = t
  /\ IF k <= 0 THEN UNCHANGED <<ownView, pushed>>
     ELSE /\ stores' = stores
               \o [i \in 1 .. k |-> SlotStore(myBottom + i - 1, pushed + i)]
               \o << BottomStore(myBottom + k) >>
          /\ mySlot' = [s \in Slots |->
                          IF Written(s) = {} THEN mySlot[s]
                          ELSE Task(CHOOSE i \in Written(s) :
                                      \A j \in Written(s) : j <= i)]
          /\ myBottom' = myBottom + k
          /\ pushed' = pushed + k
  /\ UNCHANGED <<top, memory, ownerLoc, thief, taken>>

\* chase_lev_pop: with bottom <= top it returns NULL and changes nothing;
\* otherwise the youngest task is reserved before top is looked at again.
PopDecrement ==
  /\ pc = "idle" /\ myBottom > top
  /\ StoreBottom(myBottom - 1)
  /\ pc' = "fence"
  /\ UNCHANGED <<top, memory, topCache, myTop, thief, pushed, taken>>

\* The load of top after the fence decides: more than one task, none, or a
\* single one that thieves may be after.
PopMany ==
  /\ pc = "fence" /\ Fenced
  /\ myBottom > top
  /\ Return(mySlot[At(myBottom)])
  /\ pc' = "idle"
  /\ UNCHANGED <<top, memory, ownView, topCache, myTop, thief, pushed>>

PopNone ==
  /\ pc = "fence" /\ Fenced
  /\ myBottom < top
  /\ StoreBottom(top)
  /\ pc' = "idle"
  /\ UNCHANGED <<top, memory, topCache, myTop, thief, pushed, taken>>

PopLast ==
  /\ pc = "fence" /\ Fenced
  /\ myBottom = top
  /\ pc' = "cas" /\ myTop' = top
  /\ UNCHANGED <<top, memory, ownView, topCache, thief, pushed, taken>>

\* Faulty variant: top is compared with the value it is to be set to.
WinsLateFaulty(t) == top = t + 1
\* atomic_compare_exchange_strong on top.
Wins(t) == top = t

PopRace ==
  /\ pc = "cas" /\ Fenced
  /\ IF Wins(myTop) THEN top' = myTop + 1 /\ Return(mySlot[At(myBottom)])
                    ELSE UNCHANGED <<top, taken>>
  /\ StoreBottom(myTop + 1)
  /\ pc' = "idle"
  /\ UNCHANGED <<memory, topCache, myTop, thief, pushed>>

-----------------------------------------------------------------------------
(* A thief: chase_lev_steal.                                                *)

StealTop(h) ==
  /\ thief[h].pc = "idle"
  /\ thief' = [thief EXCEPT ![h] = [@ EXCEPT !.pc = "bottom", !.t = top]]
  /\ UNCHANGED <<top, memory, ownView, topCache, ownerLoc, pushed, taken>>

StealBottom(h) ==
  /\ thief[h].pc = "bottom"
  /\ thief' = [thief EXCEPT ![h] = IF bottom <= @.t THEN Idle
                                   ELSE [@ EXCEPT !.pc = "slot"]]
  /\ UNCHANGED <<top, memory, ownView, topCache, ownerLoc, pushed, taken>>

\* The slot may be overwritten at any moment: what is read here counts only if
\* the compare-and-swap succeeds.
StealSlot(h) ==
  /\ thief[h].pc = "slot"
  /\ thief' = [thief EXCEPT ![h] = [@ EXCEPT !.pc = "cas",
                                             !.task = slot[At(thief[h].t)]]]
  /\ UNCHANGED <<top, memory, ownView, topCache, ownerLoc, pushed, taken>>

StealRace(h) ==
  /\ thief[h].pc = "cas"
  /\ IF Wins(thief[h].t) THEN top' = thief[h].t + 1 /\ Return(thief[h].task)
                         ELSE UNCHANGED <<top, taken>>
  /\ thief' = [thief EXCEPT ![h] = Idle]
  /\ UNCHANGED <<memory, ownView, topCache, ownerLoc, pushed>>

-----------------------------------------------------------------------------
Owner ==
  \/ \E n \in 1 .. MaxItems : Push(n)
  \/ PopDecrement \/ PopMany \/ PopNone \/ PopLast \/ PopRace

Steal(h) == StealTop(h) \/ StealBottom(h) \/ StealSlot(h) \/ StealRace(h)

Next == Drain \/ Owner \/ \E h \in Thieves : Steal(h)

Spec == Init /\ [][Next]_vars

-----------------------------------------------------------------------------
(* Properties.                                                              *)

\* The end of the deque: a pop owns its task only once it has decided.
End == IF pc = "idle" THEN myBottom ELSE myBottom + 1

Size == IF End > top THEN End - top ELSE 0

Contents == [i \in 1 .. Size |-> mySlot[At(top + i - 1)]]

Stores == [to : {-1}, value : Int] \cup [to : Slots, value : Items]

TypeOK ==
  /\ top \in Nat /\ topCache \in Nat /\ myTop \in Nat
  /\ bottom \in Int /\ myBottom \in Int
  /\ slot \in [Slots -> Items \cup {0}]
  /\ mySlot \in [Slots -> Items \cup {0}]
  /\ stores \in Seq(Stores)
  /\ pc \in {"idle", "fence", "cas"}
  /\ thief \in [Thieves -> [pc : {"idle", "bottom", "slot", "cas"},
                            t : Nat, task : Items \cup {0}]]
  /\ pushed \in 0 .. MaxItems
  /\ taken \in [Items -> Nat]

\* Every pushed task is either still in the deque, once, or was returned to
\* exactly one worker: none is lost in a race for the last one, none is
\* handed out twice ("ensures a task is never executed twice"), whatever
\* stores are still on their way to memory (sk_cl_deque.h:102-130, 146-152).
NoneLostNoneTwice ==
  \A i \in Items :
    LET held == {k \in 1 .. Size : Contents[k] = i}
    IN  IF i > pushed THEN held = {} /\ taken[i] = 0
        ELSE \/ taken[i] = 0 /\ \E k \in held : held = {k}
             \/ taken[i] = 1 /\ held = {}

\* The owner goes looking elsewhere only when its own deque is empty: pop
\* returns NULL in no other case (sk_cl_deque.h:97, 108, 127).
NullMeansEmpty ==
  [][ /\ (pc = "fence" /\ pc' = "idle" /\ taken' = taken) => Contents' = <<>>
      /\ (pc = "cas" /\ pc' = "idle" /\ taken' = taken) => Contents' = <<>> ]_vars

AD == INSTANCE AbstractDeque WITH Items <- Items, queue <- Contents, taken <- taken

\* The deque is linearizable: every step of owner, thieves and memory is a
\* push, a pop or a steal of the abstract deque, or invisible in it.
ImplementsDeque == AD!Spec
=============================================================================
