---------------------------- MODULE SpmcRingProofs ----------------------------
(***************************************************************************)
(* The injection ring, for every number of consumers, slots and tasks.     *)
(*                                                                         *)
(* Contents, and with it the queue the ring implements, is read off the    *)
(* slots between head and tail, so the invariant says what every one of    *)
(* them holds.  The store of a task disturbs none of them because two      *)
(* indices less than Capacity apart have different slots (SlotsApart), and *)
(* a full ring judged by the stale cached head is a full ring all the more *)
(* (Bounds).  A consumer's look at a slot is only worth something while    *)
(* the head is where the consumer saw it (Pops).                           *)
(***************************************************************************)
EXTENDS SpmcRing, SequenceTheorems, TLAPS

\* What the indices of the producer allow it to do.
Bounds ==
  /\ tail - headCache <= Capacity
  /\ pc \in {"slot", "tail"} => tail - headCache < Capacity
  /\ pc # "idle" => tail < MaxItems

\* The task with the number n + 1 is in the slot of index n, from the store in
\* PushSlot until the head has passed.
Filled ==
  /\ \A n \in head .. tail - 1 : slot[At(n)] = n + 1
  /\ pc = "tail" => slot[At(tail)] = tail + 1

\* A consumer past its look at the tail saw a task at its head, and what it
\* read from the slot is that task if nobody has taken it since.
Pops ==
  \A c \in Consumers :
    /\ consumer[c].pc \in {"slot", "cas"} => consumer[c].head < tail
    /\ consumer[c].pc = "cas" /\ consumer[c].head = head
         => consumer[c].task = head + 1

\* The tasks before the head are the ones that were handed out.
HandedOut == \A i \in Items : taken[i] = IF i <= head THEN 1 ELSE 0

RingInv == TypeOK /\ Bounds /\ Filled /\ Pops /\ HandedOut

-----------------------------------------------------------------------------
(* Slots.                                                                   *)

\* Quotient and remainder.
LEMMA DivMod ==
  ASSUME NEW i \in Nat
  PROVE  /\ At(i) \in Slots
         /\ i \div Capacity \in Int
         /\ i = Capacity * (i \div Capacity) + At(i)
BY RingAssumption DEF At, Slots

\* Positions less than the capacity apart are in different slots.
LEMMA SlotsApart ==
  ASSUME NEW i \in Nat, NEW j \in Nat, i < j, j - i < Capacity
  PROVE  At(i) # At(j)
<1> SUFFICES ASSUME At(i) = At(j) PROVE FALSE
  OBVIOUS
<1> DEFINE m == j \div Capacity
           n == i \div Capacity
           r == At(i)
           d == m - n
<1>1. d \in Int /\ j - i = Capacity * d
  <2>1. /\ m \in Int /\ n \in Int /\ r \in Int
        /\ j = Capacity * m + r /\ i = Capacity * n + r
    <3>1. /\ m \in Int /\ j = Capacity * m + At(j)
          /\ n \in Int /\ i = Capacity * n + At(i)
      BY DivMod
    <3>2. r \in Int
      BY DivMod, RingAssumption DEF Slots
    <3> QED BY <3>1, <3>2
  <2> HIDE DEF m, n, r
  <2> QED BY <2>1, RingAssumption
<1> HIDE DEF d
<1>2. CASE d <= 0
  <2>1. Capacity * d <= 0
    BY <1>1, <1>2, RingAssumption
  <2> QED BY <1>1, <2>1, RingAssumption
<1>3. CASE d >= 1
  <2>1. Capacity * d >= Capacity
    BY <1>1, <1>3, RingAssumption
  <2> QED BY <1>1, <2>1, RingAssumption
<1> QED BY <1>1, <1>2, <1>3

\* A queue of n tasks with consecutive numbers.
Run(n, h) == [i \in 1 .. n |-> h + i]

AsRun == Contents = Run(tail - head, head)

\* The ring seen as a sequence holds the tasks head + 1 .. tail.
LEMMA ContentsFacts == RingInv => AsRun
<1> SUFFICES ASSUME RingInv, NEW i \in 1 .. tail - head
             PROVE  slot[At(head + i - 1)] = head + i
  BY DEF Contents, AsRun, Run
<1>1. head + i - 1 \in head .. tail - 1
  BY RingAssumption DEF RingInv, TypeOK
<1> QED BY <1>1 DEF RingInv, TypeOK, Filled

\* Between head and tail there is never more than the ring can hold, and room
\* for one more task when the producer is about to store it.
LEMMA RoomFacts ==
  ASSUME RingInv
  PROVE  /\ head \in Nat /\ tail \in Nat /\ headCache \in Nat
         /\ head <= tail /\ tail - head <= Capacity
         /\ pc \in {"slot", "tail"} => tail - head < Capacity
BY RingAssumption DEF RingInv, TypeOK, Bounds

-----------------------------------------------------------------------------
\* RingInv holds initially.
LEMMA RingInitial == Init => RingInv
BY RingAssumption DEF Init, Idle, RingInv, TypeOK, Bounds, Filled, Pops,
   HandedOut, Items

\* The producer.
LEMMA PushStep == ASSUME RingInv, Push PROVE RingInv'
<1> USE RingAssumption
<1>1. CASE PushCall
  BY <1>1 DEF PushCall, RingInv, TypeOK, Bounds, Filled, Pops, HandedOut
<1>2. CASE PushCheck
  <2>1. TypeOK'
    BY <1>2 DEF PushCheck, RingInv, TypeOK
  <2>2. Bounds'
    BY <1>2 DEF PushCheck, Full, RingInv, TypeOK, Bounds
  <2>3. Filled' /\ Pops' /\ HandedOut'
    BY <1>2 DEF PushCheck, RingInv, Filled, Pops, HandedOut
  <2> QED BY <2>1, <2>2, <2>3 DEF RingInv
<1>3. CASE PushSlot
  <2>1. /\ slot' = [slot EXCEPT ![At(tail)] = tail + 1]
        /\ pc = "slot" /\ pc' = "tail"
        /\ UNCHANGED <<head, tail, headCache, consumer, taken>>
    BY <1>3 DEF PushSlot
  <2>2. At(tail) \in Slots /\ tail + 1 \in Items
    BY <2>1, RoomFacts, DivMod DEF RingInv, TypeOK, Bounds, Items
  <2>3. TypeOK'
    BY <2>1, <2>2 DEF RingInv, TypeOK
  <2>4. Bounds'
    BY <2>1 DEF RingInv, Bounds
  <2>5. Filled'
    <3>1. slot'[At(tail)] = tail + 1
      BY <2>1, <2>2 DEF RingInv, TypeOK
    <3>2. ASSUME NEW n \in head .. tail - 1
          PROVE  slot'[At(n)] = n + 1
      <4>1. n \in Nat /\ n < tail /\ tail - n < Capacity
        BY <2>1, RoomFacts
      <4>2. At(n) # At(tail) /\ At(n) \in Slots
        BY <4>1, SlotsApart, RoomFacts, DivMod
      <4>3. slot'[At(n)] = slot[At(n)]
        BY <2>1, <4>2 DEF RingInv, TypeOK
      <4> QED BY <4>3 DEF RingInv, Filled
    <3> QED BY <2>1, <3>1, <3>2 DEF Filled
  <2>6. Pops' /\ HandedOut'
    BY <2>1 DEF RingInv, Pops, HandedOut
  <2> QED BY <2>3, <2>4, <2>5, <2>6 DEF RingInv
<1>4. CASE PushTail
  <2>1. TypeOK' /\ Bounds'
    BY <1>4 DEF PushTail, RingInv, TypeOK, Bounds
  <2>2. Filled'
    BY <1>4, RoomFacts DEF PushTail, RingInv, Filled
  <2>3. Pops' /\ HandedOut'
    BY <1>4 DEF PushTail, RingInv, TypeOK, Pops, HandedOut
  <2> QED BY <2>1, <2>2, <2>3 DEF RingInv
<1> QED BY <1>1, <1>2, <1>3, <1>4 DEF Push

\* A step of a consumer that takes nothing.
LEMMA LookStep ==
  ASSUME RingInv, NEW c \in Consumers,
         NEW k \in [pc : {"idle", "tail", "slot", "cas"},
                    head : 0 .. head, task : Items \cup {0}],
         consumer' = [consumer EXCEPT ![c] = k],
         UNCHANGED <<head, tail, slot, headCache, pc, taken>>,
         k.pc \in {"slot", "cas"} => k.head < tail,
         k.pc = "cas" /\ k.head = head => k.task = head + 1
  PROVE  RingInv'
<1>1. TypeOK'
  BY DEF RingInv, TypeOK
<1>2. Bounds' /\ Filled' /\ HandedOut'
  BY DEF RingInv, Bounds, Filled, HandedOut
<1>3. Pops'
  BY DEF RingInv, TypeOK, Pops
<1> QED BY <1>1, <1>2, <1>3 DEF RingInv

\* A compare-and-swap that succeeds takes the oldest task of the ring.
LEMMA WinFacts ==
  ASSUME RingInv, NEW c \in Consumers, consumer[c].pc = "cas", Wins(consumer[c].head)
  PROVE  /\ consumer[c].head = head /\ consumer[c].task = head + 1
         /\ head < tail /\ head + 1 \in Items
BY RingAssumption DEF RingInv, TypeOK, Pops, Wins, Items

\* A consumer takes one of its four steps.
LEMMA PopStep == ASSUME RingInv, NEW c \in Consumers, Pop(c) PROVE RingInv'
<1> USE RingAssumption
<1>0. consumer[c] \in [pc : {"idle", "tail", "slot", "cas"},
                       head : 0 .. head, task : Items \cup {0}]
  BY DEF RingInv, TypeOK
<1>1. CASE PopHead(c)
  <2>1. [consumer[c] EXCEPT !.pc = "tail", !.head = head]
          \in [pc : {"idle", "tail", "slot", "cas"},
              head : 0 .. head, task : Items \cup {0}]
    <3>1. head \in 0 .. head
      BY RoomFacts
    <3> QED BY <1>0, <3>1
  <2> QED BY <1>0, <1>1, <2>1, LookStep DEF PopHead
<1>2. CASE PopTail(c)
  <2> DEFINE k == IF None(consumer[c].head) THEN Idle
                  ELSE [consumer[c] EXCEPT !.pc = "slot"]
  <2>1. k \in [pc : {"idle", "tail", "slot", "cas"},
               head : 0 .. head, task : Items \cup {0}]
    BY <1>0, RoomFacts DEF Idle
  <2>2. k.pc \in {"idle", "slot"} /\ (k.pc = "slot" => k.head < tail)
    BY <1>0, RoomFacts DEF Idle, None
  <2>3. /\ consumer' = [consumer EXCEPT ![c] = k]
        /\ UNCHANGED <<head, tail, slot, headCache, pc, taken>>
    BY <1>2 DEF PopTail
  <2> HIDE DEF k
  <2> QED BY <2>1, <2>2, <2>3, LookStep
<1>3. CASE PopSlot(c)
  <2> DEFINE k == [consumer[c] EXCEPT !.pc = "cas",
                                      !.task = slot[At(consumer[c].head)]]
  <2>1. /\ consumer[c].pc = "slot"
        /\ consumer' = [consumer EXCEPT ![c] = k]
        /\ UNCHANGED <<head, tail, slot, headCache, pc, taken>>
    BY <1>3 DEF PopSlot
  <2>2. consumer[c].head \in Nat /\ consumer[c].head < tail
    BY <1>0, <2>1, RoomFacts DEF RingInv, Pops
  <2>3. slot[At(consumer[c].head)] \in Items \cup {0}
    BY <2>2, DivMod DEF RingInv, TypeOK
  <2>4. consumer[c].head = head => slot[At(consumer[c].head)] = head + 1
    BY <2>2, RoomFacts DEF RingInv, Filled
  <2>5. /\ k \in [pc : {"idle", "tail", "slot", "cas"},
                  head : 0 .. head, task : Items \cup {0}]
        /\ k.pc = "cas" /\ k.head = consumer[c].head
        /\ k.task = slot[At(consumer[c].head)]
    BY <1>0, <2>3
  <2> HIDE DEF k
  <2> QED BY <2>1, <2>2, <2>4, <2>5, LookStep
<1>4. CASE PopCas(c)
  <2>1. CASE Wins(consumer[c].head)
    <3>1. /\ consumer[c].pc = "cas"
          /\ consumer[c].head = head /\ consumer[c].task = head + 1
          /\ head < tail /\ head + 1 \in Items
      BY <1>4, <2>1, WinFacts DEF PopCas
    <3>2. /\ head' = head + 1
          /\ taken' = [taken EXCEPT ![head + 1] = @ + 1]
          /\ consumer' = [consumer EXCEPT ![c] = Idle]
          /\ UNCHANGED <<tail, slot, headCache, pc>>
      BY <1>4, <2>1, <3>1 DEF PopCas
    <3>3. HandedOut'
      BY <3>1, <3>2, RoomFacts DEF RingInv, TypeOK, HandedOut, Items
    <3>4. taken' \in [Items -> 0 .. 1]
      <4>1. taken' = [i \in Items |-> taken'[i]]
        BY <3>2 DEF RingInv, TypeOK
      <4>2. \A i \in Items : taken'[i] \in 0 .. 1
        BY <3>2, <3>3 DEF HandedOut, Items
      <4> QED BY <4>1, <4>2
    <3>5. consumer' \in [Consumers -> [pc : {"idle", "tail", "slot", "cas"},
                                       head : 0 .. head', task : Items \cup {0}]]
      <4>1. 0 .. head \subseteq 0 .. head'
        BY <3>2, RoomFacts
      <4>2. Idle \in [pc : {"idle", "tail", "slot", "cas"},
                      head : 0 .. head', task : Items \cup {0}]
        BY <3>2, RoomFacts DEF Idle
      <4> QED BY <3>2, <4>1, <4>2 DEF RingInv, TypeOK
    <3>6. TypeOK'
      BY <3>1, <3>2, <3>4, <3>5 DEF RingInv, TypeOK, Items
    <3>7. Bounds' /\ Filled'
      BY <3>2, RoomFacts DEF RingInv, Bounds, Filled
    <3>8. Pops'
      <4> SUFFICES ASSUME NEW d \in Consumers, consumer'[d].pc \in {"slot", "cas"}
                   PROVE  consumer'[d].head < tail' /\ consumer'[d].head # head'
        BY DEF Pops
      <4>1. d # c /\ consumer'[d] = consumer[d]
        BY <3>2 DEF RingInv, TypeOK, Idle
      <4>2. consumer[d].head \in 0 .. head /\ consumer[d].head < tail
        BY <4>1 DEF RingInv, TypeOK, Pops
      <4> QED BY <3>2, <4>1, <4>2, RoomFacts
    <3> QED BY <3>3, <3>6, <3>7, <3>8 DEF RingInv
  <2>2. CASE ~Wins(consumer[c].head)
    <3>1. /\ consumer' = [consumer EXCEPT ![c] = Idle]
          /\ UNCHANGED <<head, tail, slot, headCache, pc, taken>>
      BY <1>4, <2>2 DEF PopCas
    <3>2. /\ Idle \in [pc : {"idle", "tail", "slot", "cas"},
                       head : 0 .. head, task : Items \cup {0}]
          /\ Idle.pc = "idle"
      BY RoomFacts DEF Idle
    <3> QED BY <3>1, <3>2, LookStep
  <2> QED BY <2>1, <2>2
<1> QED BY <1>1, <1>2, <1>3, <1>4 DEF Pop

\* Every step keeps RingInv.
LEMMA RingStep == RingInv /\ [Next]_vars => RingInv'
<1> SUFFICES ASSUME RingInv, [Next]_vars PROVE RingInv'
  OBVIOUS
<1>1. CASE Next
  BY <1>1, PushStep, PopStep DEF Next
<1>2. CASE UNCHANGED vars
  BY <1>2 DEF vars, RingInv, TypeOK, Bounds, Filled, Pops, HandedOut
<1> QED BY <1>1, <1>2

-----------------------------------------------------------------------------
(* The abstract queue.                                                      *)

\* The numbers from h + 1 on, as a queue that is filled and emptied.
LEMMA RunFacts ==
  ASSUME NEW n \in Nat, NEW h \in Nat
  PROVE  /\ Run(n, h) \in Seq(Nat) /\ Len(Run(n, h)) = n
         /\ Append(Run(n, h), h + n + 1) = Run(n + 1, h)
         /\ n > 0 => /\ Run(n, h) # <<>> /\ Head(Run(n, h)) = h + 1
                     /\ Tail(Run(n, h)) = Run(n - 1, h + 1)
<1>1. Run(n, h) \in Seq(Nat) /\ Len(Run(n, h)) = n
  BY DEF Run
<1>2. Append(Run(n, h), h + n + 1) = Run(n + 1, h)
  BY <1>1 DEF Run
<1>3. ASSUME n > 0
      PROVE  /\ Run(n, h) # <<>> /\ Head(Run(n, h)) = h + 1
             /\ Tail(Run(n, h)) = Run(n - 1, h + 1)
  <2>1. Run(n, h) # <<>> /\ Head(Run(n, h)) = h + 1
    BY <1>1, <1>3 DEF Run
  <2>2. /\ Tail(Run(n, h)) \in Seq(Nat) /\ Len(Tail(Run(n, h))) = n - 1
        /\ \A i \in 1 .. n - 1 : Tail(Run(n, h))[i] = Run(n, h)[i + 1]
    BY <1>1, <2>1, HeadTailProperties
  <2>3. /\ Run(n - 1, h + 1) \in Seq(Nat) /\ Len(Run(n - 1, h + 1)) = n - 1
        /\ \A i \in 1 .. n - 1 : Run(n - 1, h + 1)[i] = Run(n, h)[i + 1]
    BY <1>3 DEF Run
  <2>4. Tail(Run(n, h)) = Run(n - 1, h + 1)
    BY <2>2, <2>3, SeqEqual
  <2> QED BY <2>1, <2>4
<1> QED BY <1>1, <1>2, <1>3

\* The ring is empty at first.
LEMMA AbstractInitial == Init => AF!Init
<1> SUFFICES ASSUME Init PROVE AF!Init
  OBVIOUS
<1>1. Contents = <<>>
  BY DEF Init, Contents
<1> QED BY <1>1 DEF Init, AF!Init

\* A push takes effect with the store of the tail, a pop with the exchange of
\* the head.
LEMMA AbstractStep ==
  ASSUME RingInv, AsRun, AsRun', [Next]_vars
  PROVE  [AF!Next]_<<Contents, taken>>
<1> DEFINE n == tail - head
<1>1. /\ head \in Nat /\ n \in Nat /\ tail = head + n
      /\ pc = "tail" => n < Capacity
  BY RoomFacts
<1>2. Contents = Run(n, head) /\ Contents' = Run(tail' - head', head')
  BY DEF AsRun
<1> HIDE DEF n
<1>3. CASE PushTail
  <2>1. head' = head /\ tail' - head' = n + 1 /\ taken' = taken
    BY <1>1, <1>3 DEF PushTail
  <2>2. head + n + 1 \in Items /\ n < Capacity
    BY <1>1, <1>3, RingAssumption DEF PushTail, RingInv, TypeOK, Bounds, Items
  <2>3. /\ Len(Run(n, head)) = n
        /\ Append(Run(n, head), head + n + 1) = Run(n + 1, head)
    BY <1>1, RunFacts
  <2>4. Contents' = Run(n + 1, head)
    BY <1>2, <2>1
  <2>5. Len(Contents) = n /\ Contents' = Append(Contents, head + n + 1)
    BY <1>2, <2>3, <2>4
  <2> QED BY <2>1, <2>2, <2>5 DEF AF!Next, AF!Put
<1>4. ASSUME NEW c \in Consumers, PopCas(c), Wins(consumer[c].head)
      PROVE  AF!Next
  <2>1. /\ head' = head + 1 /\ n > 0 /\ tail' - head' = n - 1
        /\ taken' = [taken EXCEPT ![head + 1] = @ + 1]
    BY <1>1, <1>4, WinFacts DEF PopCas
  <2>2. /\ Run(n, head) # <<>> /\ Head(Run(n, head)) = head + 1
        /\ Tail(Run(n, head)) = Run(n - 1, head + 1)
    BY <1>1, <2>1, RunFacts
  <2>3. Contents' = Run(n - 1, head + 1)
    BY <1>2, <2>1
  <2>4. Contents # <<>> /\ Head(Contents) = head + 1 /\ Contents' = Tail(Contents)
    BY <1>2, <2>2, <2>3
  <2> QED BY <2>1, <2>4 DEF AF!Next, AF!Get
<1>5. ASSUME \/ PushCall \/ PushCheck \/ PushSlot \/ UNCHANGED vars
             \/ \E c \in Consumers : PopHead(c) \/ PopTail(c) \/ PopSlot(c)
             \/ \E c \in Consumers : PopCas(c) /\ ~Wins(consumer[c].head)
      PROVE  UNCHANGED <<head, tail, taken>>
  <2>1. CASE PushCall \/ PushCheck \/ PushSlot \/ UNCHANGED vars
    BY <2>1 DEF PushCall, PushCheck, PushSlot, vars
  <2>2. CASE \E c \in Consumers : PopHead(c) \/ PopTail(c) \/ PopSlot(c)
    BY <2>2 DEF PopHead, PopTail, PopSlot
  <2>3. CASE \E c \in Consumers : PopCas(c) /\ ~Wins(consumer[c].head)
    BY <2>3 DEF PopCas
  <2> QED BY <1>5, <2>1, <2>2, <2>3
<1>6. CASE UNCHANGED <<head, tail, taken>>
  <2>1. UNCHANGED Run(tail - head, head)
    BY <1>6
  <2> QED BY <1>2, <1>6, <2>1 DEF n
<1>7. CASE \E c \in Consumers : Pop(c)
  BY <1>4, <1>5, <1>6, <1>7 DEF Pop
<1>8. CASE Push \/ UNCHANGED vars
  BY <1>3, <1>5, <1>6, <1>8 DEF Push
<1> QED BY <1>7, <1>8 DEF Next

-----------------------------------------------------------------------------
\* The inductive invariant holds in every state.
THEOREM RingInvariant == Spec => []RingInv
BY RingInitial, RingStep, PTL DEF Spec

\* The indices stay in order, and no task is handed out twice.
THEOREM RingTyping == Spec => []TypeOK
<1>1. RingInv => TypeOK
  BY DEF RingInv
<1> QED BY <1>1, RingInvariant, PTL

\* A consumer whose compare-and-swap would succeed holds the oldest task of the
\* ring, and never what the slot held before or after (sk_worker.c:45-58).
THEOREM HeldIsOldestTheorem == Spec => []HeldIsOldest
<1>1. RingInv => HeldIsOldest
  <2> SUFFICES ASSUME RingInv, NEW c \in Consumers,
                      consumer[c].pc = "cas", consumer[c].head = head
               PROVE  head < tail /\ consumer[c].task = Contents[1]
    BY DEF HeldIsOldest
  <2>1. head < tail /\ consumer[c].task = head + 1
    BY DEF RingInv, Pops
  <2>2. Contents[1] = head + 1
    BY <2>1, ContentsFacts, RoomFacts DEF AsRun, Run
  <2> QED BY <2>1, <2>2
<1> QED BY <1>1, RingInvariant, PTL

\* A push is refused only by a full ring, and a pop comes away empty from its
\* look at the tail only if the ring is empty (sk_scheduler.c:158-160,
\* sk_worker.c:45-50).
THEOREM RefusalsTheorem == Spec => RefusalsJustified
<1>1. RingInv /\ [Next]_vars =>
        [ /\ pc = "check" /\ pc' = "idle" => tail - head = Capacity
          /\ \A c \in Consumers :
               consumer[c].pc = "tail" /\ consumer'[c].pc = "idle" => head = tail ]_vars
  <2> SUFFICES ASSUME RingInv, Next
               PROVE  /\ pc = "check" /\ pc' = "idle" => tail - head = Capacity
                      /\ \A c \in Consumers :
                           consumer[c].pc = "tail" /\ consumer'[c].pc = "idle"
                             => head = tail
    BY DEF vars
  <2>1. ASSUME pc = "check", pc' = "idle" PROVE tail - head = Capacity
    <3>1. PushCheck
      BY <2>1 DEF Next, Push, PushCall, PushSlot, PushTail, Pop, PopHead, PopTail,
         PopSlot, PopCas
    <3> QED BY <2>1, <3>1, RoomFacts, RingAssumption DEF PushCheck, Full
  <2>2. ASSUME NEW c \in Consumers, consumer[c].pc = "tail", consumer'[c].pc = "idle"
        PROVE  head = tail
    <3>1. consumer \in [Consumers -> [pc : {"idle", "tail", "slot", "cas"},
                                     head : 0 .. head, task : Items \cup {0}]]
      BY DEF RingInv, TypeOK
    <3>2. PopTail(c)
      <4>1. ~Push
        BY <2>2 DEF Push, PushCall, PushCheck, PushSlot, PushTail
      <4>2. PICK d \in Consumers : Pop(d)
        BY <4>1 DEF Next
      <4>3. d = c
        BY <2>2, <3>1, <4>2 DEF Pop, PopHead, PopTail, PopSlot, PopCas
      <4> QED BY <2>2, <3>1, <4>2, <4>3 DEF Pop, PopHead, PopSlot, PopCas
    <3>3. None(consumer[c].head) /\ consumer[c].head \in 0 .. head
      BY <2>2, <3>1, <3>2 DEF PopTail
    <3> QED BY <3>3, RoomFacts DEF None
  <2> QED BY <2>1, <2>2
<1> QED BY <1>1, RingInvariant, PTL DEF Spec, RefusalsJustified

\* The ring is linearizable: it implements the bounded queue of AbstractFifo,
\* for any number of consumers.
THEOREM FifoTheorem == Spec => ImplementsFifo
<1>1. RingInv /\ AsRun /\ AsRun' /\ [Next]_vars => [AF!Next]_<<Contents, taken>>
  BY AbstractStep
<1> QED BY <1>1, ContentsFacts, AbstractInitial, RingInvariant, PTL
        DEF Spec, ImplementsFifo, AF!Spec
===============================================================================
