------------------------- MODULE ChaseLevDequeProofs -------------------------
(***************************************************************************)
(* The work-stealing deque, for every number of thieves, slots and tasks,  *)
(* with the owner's stores buffered.                                       *)
(*                                                                         *)
(* The tasks of the deque are at the positions top .. End - 1, in slots as *)
(* the owner reads them (Tasks).  A thief reads memory instead, so the     *)
(* invariant says what memory and the pending stores make of each other    *)
(* (Buffer), and that a bottom never becomes visible before the slots      *)
(* below it (Visible).  A thief that has seen a task below such a bottom   *)
(* holds the oldest task as long as nobody moves top (Holders): the fence  *)
(* of a pop and the compare-and-swap for the last task are what keeps the  *)
(* owner from taking that task without moving top.                         *)
(***************************************************************************)
EXTENDS ChaseLevDeque, SequenceTheorems, TLAPS

\* The indices.  The cached top is stale but never ahead, so that what room the
\* owner sees, there is.
Order ==
  /\ top <= End /\ topCache <= top /\ End <= topCache + Capacity
  /\ bottom <= End
  /\ pc = "cas" => myTop = myBottom /\ myTop <= top /\ stores = <<>>

\* A pending store will make memory what the owner already reads.
Buffer ==
  /\ stores = <<>> => bottom = myBottom
  /\ stores # <<>> => stores[Len(stores)] = BottomStore(myBottom)
  /\ \A k \in 1 .. Len(stores) : stores[k].to = -1 => stores[k].value <= End
  /\ \A k \in 1 .. Len(stores) : stores[k].to # -1 =>
       /\ stores[k].value = mySlot[stores[k].to]
       /\ \E p \in top .. End - 1 : stores[k].to = At(p)
  /\ \A s \in Slots : slot[s] = mySlot[s] \/ \E k \in 1 .. Len(stores) : stores[k].to = s

\* No store to a slot is pending behind a bottom that covers the slot.
Visible ==
  /\ \A j \in top .. bottom - 1 : \A k \in 1 .. Len(stores) : stores[k].to # At(j)
  /\ \A m \in 1 .. Len(stores) : stores[m].to = -1 =>
       \A j \in top .. stores[m].value - 1 :
         \A k \in m + 1 .. Len(stores) : stores[k].to # At(j)

\* A thief past its look at bottom, if its top still is the top.
Holders ==
  \A h \in Thieves :
    /\ thief[h].t <= top
    /\ thief[h].pc \in {"slot", "cas"} /\ thief[h].t = top =>
         /\ top < End
         /\ \A k \in 1 .. Len(stores) : stores[k].to # At(top)
    /\ thief[h].pc = "cas" /\ thief[h].t = top => thief[h].task = mySlot[At(top)]

\* The tasks at the positions first .. end - 1 are different ones that nobody
\* has got, and every other task pushed so far was handed out once.
TasksAt(first, end) ==
  /\ \A j \in first .. end - 1 : mySlot[At(j)] \in 1 .. pushed /\ taken[mySlot[At(j)]] = 0
  /\ \A i, j \in first .. end - 1 : mySlot[At(i)] = mySlot[At(j)] => i = j
  /\ \A i \in 1 .. pushed :
       taken[i] = 1 \/ (taken[i] = 0 /\ \E j \in first .. end - 1 : mySlot[At(j)] = i)
  /\ \A i \in pushed + 1 .. MaxItems : taken[i] = 0

Tasks == TasksAt(top, End)

DequeInv == TypeOK /\ Order /\ Buffer /\ Visible /\ Holders /\ Tasks

-----------------------------------------------------------------------------
(* Slots and stores.                                                        *)

\* Quotient and remainder.
LEMMA DivMod ==
  ASSUME NEW i \in Nat
  PROVE  /\ At(i) \in Slots
         /\ i \div Capacity \in Int
         /\ i = Capacity * (i \div Capacity) + At(i)
BY DequeAssumption DEF At, Slots

\* Positions less than Capacity apart have different slots.
LEMMA SlotsApart ==
  ASSUME NEW i \in Nat, NEW j \in Nat, i < j, j - i < Capacity
  PROVE  At(i) # At(j)
<1> SUFFICES ASSUME At(i) = At(j) PROVE FALSE
  OBVIOUS
<1> DEFINE m == j \div Capacity
           n == i \div Capacity
           d == m - n
<1>1. d \in Int /\ j - i = Capacity * d
  <2>1. /\ m \in Int /\ j = Capacity * m + At(j)
        /\ n \in Int /\ i = Capacity * n + At(i)
    BY DivMod
  <2>2. At(i) \in Int
    BY DivMod, DequeAssumption DEF Slots
  <2> HIDE DEF m, n
  <2> QED BY <2>1, <2>2, DequeAssumption
<1> HIDE DEF d
<1>2. CASE d <= 0
  <2>1. Capacity * d <= 0
    BY <1>1, <1>2, DequeAssumption
  <2> QED BY <1>1, <2>1, DequeAssumption
<1>3. CASE d >= 1
  <2>1. Capacity * d >= Capacity
    BY <1>1, <1>3, DequeAssumption
  <2> QED BY <1>1, <2>1, DequeAssumption
<1> QED BY <1>1, <1>2, <1>3

\* The indices are natural numbers, except that of bottom in a pop.
LEMMA IndexFacts ==
  ASSUME DequeInv
  PROVE  /\ top \in Nat /\ End \in Nat /\ topCache \in Nat /\ Capacity \in Nat
         /\ bottom \in Int /\ myBottom \in Int /\ Len(stores) \in Nat
         /\ top <= End /\ topCache <= top /\ End - top <= Capacity
         /\ pc = "idle" => End = myBottom
         /\ pc # "idle" => End = myBottom + 1
         /\ pushed \in Nat /\ MaxItems \in Nat /\ pushed <= MaxItems
BY DequeAssumption DEF DequeInv, TypeOK, Order, End

\* A pending store goes to bottom or puts a task into a slot.
LEMMA StoreFacts ==
  ASSUME DequeInv, NEW k \in 1 .. Len(stores)
  PROVE  /\ stores[k] \in Stores
         /\ stores[k].to = -1 => stores[k].value \in Int
         /\ stores[k].to # -1 => stores[k].to \in Slots /\ stores[k].value \in Items
<1>1. stores[k] \in Stores
  BY ElementOfSeq DEF DequeInv, TypeOK
<1> QED BY <1>1 DEF Stores, Slots

\* Two positions of the deque are in different slots.
LEMMA PositionsApart ==
  ASSUME NEW i \in Nat, NEW j \in Nat, i # j, i - j < Capacity, j - i < Capacity
  PROVE  At(i) # At(j)
BY SlotsApart, DequeAssumption

\* A position whose store is not pending is in memory what the owner reads.
LEMMA InMemory ==
  ASSUME DequeInv, NEW p \in Nat, \A k \in 1 .. Len(stores) : stores[k].to # At(p)
  PROVE  slot[At(p)] = mySlot[At(p)]
BY DivMod DEF DequeInv, Buffer

-----------------------------------------------------------------------------
\* DequeInv holds initially.
LEMMA DequeInitial == Init => DequeInv
<1> SUFFICES ASSUME Init PROVE DequeInv
  OBVIOUS
<1>1. TypeOK
  BY DequeAssumption DEF Init, TypeOK, Idle
<1>2. Order
  BY DequeAssumption DEF Init, Order, End
<1>3. Buffer /\ Visible
  BY DEF Init, Buffer, Visible
<1>4. Holders
  <2>1. top = 0 /\ \A h \in Thieves : thief[h] = Idle
    BY DEF Init
  <2>2. Idle.t = 0 /\ Idle.pc = "idle"
    BY DEF Idle
  <2>3. ASSUME NEW h \in Thieves
        PROVE  thief[h].t <= top /\ thief[h].pc \notin {"slot", "cas"}
    <3>1. thief[h] = Idle
      BY <2>1
    <3> QED BY <2>1, <2>2, <3>1
  <2> QED BY <2>3 DEF Holders
<1>5. Tasks
  BY DequeAssumption DEF Init, Tasks, TasksAt, End, Items
<1> QED BY <1>1, <1>2, <1>3, <1>4, <1>5 DEF DequeInv

\* A store reaches memory.
LEMMA DrainStep == ASSUME DequeInv, Drain PROVE DequeInv'
<1> DEFINE n == Len(stores)
           s == stores[1]
<1>1. /\ stores # <<>> /\ n \in Nat /\ n >= 1 /\ 1 \in 1 .. n
      /\ stores' \in Seq(Stores) /\ Len(stores') = n - 1
      /\ \A k \in 1 .. n - 1 : stores'[k] = stores[k + 1]
      /\ s = Head(stores)
  BY HeadTailProperties DEF Drain, DequeInv, TypeOK
<1>2. /\ UNCHANGED <<top, myBottom, mySlot, topCache, pc, myTop, thief, pushed, taken>>
      /\ s.to = -1 => bottom' = s.value /\ slot' = slot
      /\ s.to # -1 => bottom' = bottom /\ slot' = [slot EXCEPT ![s.to] = s.value]
  BY <1>1 DEF Drain, ownerLoc
<1>3. End' = End
  BY <1>2 DEF End
<1>4. /\ s.to = -1 => s.value \in Int /\ s.value <= End
      /\ s.to # -1 => s.to \in Slots /\ s.value \in Items /\ s.value = mySlot[s.to]
  BY <1>1, StoreFacts DEF DequeInv, Buffer
<1>5. \A k \in 1 .. Len(stores') : k + 1 \in 1 .. n /\ stores'[k] = stores[k + 1]
  BY <1>1
<1> HIDE DEF n, s
<1>6. TypeOK'
  BY <1>1, <1>2, <1>4 DEF DequeInv, TypeOK
<1>7. Order'
  BY <1>1, <1>2, <1>3, <1>4 DEF DequeInv, Order
<1>8. Buffer'
  <2>1. ASSUME stores' = <<>> PROVE bottom' = myBottom'
    <3>1. Len(stores') = 0
      BY <2>1
    <3>2. n = 1
      BY <1>1, <3>1
    <3>3. s = BottomStore(myBottom)
      BY <1>1, <3>2 DEF DequeInv, Buffer, n, s
    <3>4. s.to = -1 /\ s.value = myBottom
      BY <3>3 DEF BottomStore
    <3> QED BY <1>2, <3>4
  <2>2. stores' # <<>> => stores'[Len(stores')] = BottomStore(myBottom')
    BY <1>1, <1>2 DEF DequeInv, Buffer, n
  <2>3. \A k \in 1 .. Len(stores') :
          /\ stores'[k].to = -1 => stores'[k].value <= End'
          /\ stores'[k].to # -1 =>
               /\ stores'[k].value = mySlot'[stores'[k].to]
               /\ \E p \in top' .. End' - 1 : stores'[k].to = At(p)
    BY <1>2, <1>3, <1>5 DEF DequeInv, Buffer, n
  <2>4. ASSUME NEW x \in Slots
        PROVE  slot'[x] = mySlot'[x] \/ \E k \in 1 .. Len(stores') : stores'[k].to = x
    <3>1. CASE s.to = x
      <4>1. s.to # -1
        BY <3>1 DEF Slots
      <4> QED BY <1>2, <1>4, <3>1, <4>1 DEF DequeInv, TypeOK
    <3>2. CASE s.to # x
      <4>1. slot'[x] = slot[x]
        BY <1>2, <3>2 DEF DequeInv, TypeOK
      <4>2. ASSUME NEW k \in 1 .. n, stores[k].to = x
            PROVE  \E i \in 1 .. Len(stores') : stores'[i].to = x
        <5>1. k - 1 \in 1 .. Len(stores') /\ stores'[k - 1] = stores[k]
          BY <1>1, <3>2, <4>2 DEF s
        <5> QED BY <4>2, <5>1
      <4> QED BY <1>2, <4>1, <4>2 DEF DequeInv, Buffer, n
    <3> QED BY <3>1, <3>2
  <2> QED BY <2>1, <2>2, <2>3, <2>4 DEF Buffer
<1>9. Visible'
  <2>1. ASSUME NEW j \in top' .. bottom' - 1, NEW k \in 1 .. Len(stores')
        PROVE  stores'[k].to # At(j)
    <3>1. CASE s.to = -1
      <4>1. j \in top .. stores[1].value - 1 /\ k + 1 \in 1 + 1 .. Len(stores)
        BY <1>1, <1>2, <1>5, <3>1 DEF n, s
      <4> QED BY <1>1, <1>5, <3>1, <4>1 DEF DequeInv, Visible, n, s
    <3>2. CASE s.to # -1
      BY <1>2, <1>5, <3>2 DEF DequeInv, Visible, n
    <3> QED BY <3>1, <3>2
  <2>2. ASSUME NEW m \in 1 .. Len(stores'), stores'[m].to = -1,
               NEW j \in top' .. stores'[m].value - 1, NEW k \in m + 1 .. Len(stores')
        PROVE  stores'[k].to # At(j)
    <3>1. /\ m + 1 \in 1 .. Len(stores) /\ stores[m + 1].to = -1
          /\ j \in top .. stores[m + 1].value - 1
          /\ k \in 1 .. Len(stores') /\ k + 1 \in (m + 1) + 1 .. Len(stores)
      BY <1>1, <1>2, <1>5, <2>2 DEF n
    <3> QED BY <1>5, <3>1 DEF DequeInv, Visible
  <2> QED BY <2>1, <2>2 DEF Visible
<1>10. Holders'
  BY <1>2, <1>3, <1>5 DEF DequeInv, Holders, n
<1>11. Tasks'
  BY <1>2, <1>3 DEF DequeInv, Tasks, TasksAt
<1> QED BY <1>6, <1>7, <1>8, <1>9, <1>10, <1>11 DEF DequeInv

\* A step of the owner that stores a bottom and takes no task.
LEMMA AppendBottom ==
  ASSUME DequeInv, NEW b \in Int, StoreBottom(b), b <= End,
         UNCHANGED <<top, bottom, slot, topCache, thief, pushed, taken>>,
         pc' \in {"idle", "fence"}, myTop' = myTop, End' = End
  PROVE  DequeInv'
<1> DEFINE n == Len(stores)
           s == BottomStore(b)
<1>1. /\ n \in Nat /\ s \in Stores /\ s.to = -1 /\ s.value = b
      /\ stores' \in Seq(Stores) /\ Len(stores') = n + 1
      /\ \A k \in 1 .. n : stores'[k] = stores[k]
      /\ stores'[n + 1] = s
  <2>1. s \in Stores /\ s.to = -1 /\ s.value = b
    BY DEF BottomStore, Stores
  <2>2. stores \in Seq(Stores)
    BY DEF DequeInv, TypeOK
  <2>3. stores' = Append(stores, s)
    BY DEF StoreBottom
  <2> HIDE DEF s
  <2> QED BY <2>1, <2>2, <2>3, AppendProperties, LenProperties
<1>2. myBottom' = b /\ mySlot' = mySlot
  BY DEF StoreBottom
<1>3. \A k \in 1 .. Len(stores') : k \in 1 .. n \/ k = n + 1
  BY <1>1
<1>4. End \in Nat /\ top \in Nat /\ bottom \in Int
  BY IndexFacts
<1> HIDE DEF n, s
<1>5. TypeOK'
  BY <1>1, <1>2 DEF DequeInv, TypeOK
<1>6. Order'
  BY DEF DequeInv, Order
<1>7. Buffer'
  <2>1. stores' # <<>> /\ stores'[Len(stores')] = BottomStore(myBottom')
    <3>1. Len(stores') # 0
      BY <1>1
    <3> QED BY <1>1, <1>2, <3>1 DEF s
  <2>2. ASSUME NEW k \in 1 .. Len(stores')
        PROVE /\ stores'[k].to = -1 => stores'[k].value <= End'
              /\ stores'[k].to # -1 =>
                   /\ stores'[k].value = mySlot'[stores'[k].to]
                   /\ \E p \in top' .. End' - 1 : stores'[k].to = At(p)
    <3>1. CASE k \in 1 .. n
      BY <1>1, <1>2, <3>1 DEF DequeInv, Buffer, n
    <3>2. CASE k = n + 1
      BY <1>1, <3>2
    <3> QED BY <1>3, <3>1, <3>2
  <2>3. \A x \in Slots : slot'[x] = mySlot'[x] \/ \E k \in 1 .. Len(stores') : stores'[k].to = x
    <3>1. \A k \in 1 .. n : k \in 1 .. Len(stores') /\ stores'[k] = stores[k]
      BY <1>1
    <3> QED BY <1>2, <3>1 DEF DequeInv, Buffer, n
  <2> QED BY <2>1, <2>2, <2>3 DEF Buffer
<1>8. Visible'
  <2>1. ASSUME NEW j \in top' .. bottom' - 1, NEW k \in 1 .. Len(stores')
        PROVE  stores'[k].to # At(j)
    <3>1. CASE k \in 1 .. n
      BY <1>1, <3>1 DEF DequeInv, Visible, n
    <3>2. CASE k = n + 1
      <4>1. j \in Nat
        BY <1>4
      <4>2. At(j) # -1
        BY <4>1, DivMod DEF Slots
      <4> QED BY <1>1, <3>2, <4>2
    <3> QED BY <1>3, <3>1, <3>2
  <2>2. ASSUME NEW m \in 1 .. Len(stores'), stores'[m].to = -1,
               NEW j \in top' .. stores'[m].value - 1, NEW k \in m + 1 .. Len(stores')
        PROVE  stores'[k].to # At(j)
    <3>0. k \in 1 .. Len(stores')
      BY <1>1
    <3>1. CASE k \in 1 .. n
      <4>1. m \in 1 .. n /\ k \in m + 1 .. n
        BY <1>1, <2>2, <3>1
      <4> QED BY <1>1, <2>2, <3>1, <4>1 DEF DequeInv, Visible, n
    <3>2. CASE k = n + 1
      <4>1. m \in 1 .. n
        BY <1>1, <2>2, <3>2
      <4>2. stores'[m].value \in Int
        BY <1>1, <2>2, <4>1, StoreFacts DEF n
      <4>3. j \in Nat
        BY <1>4, <4>2
      <4>4. At(j) # -1
        BY <4>3, DivMod DEF Slots
      <4> QED BY <1>1, <3>2, <4>4
    <3> QED BY <1>3, <3>0, <3>1, <3>2
  <2> QED BY <2>1, <2>2 DEF Visible
<1>9. Holders'
  <2>1. ASSUME top < End, \A k \in 1 .. n : stores[k].to # At(top)
        PROVE  \A k \in 1 .. Len(stores') : stores'[k].to # At(top)
    <3>1. At(top) # -1
      BY <1>4, DivMod DEF Slots
    <3> QED BY <1>1, <1>3, <2>1, <3>1
  <2> QED BY <1>1, <1>2, <2>1 DEF DequeInv, Holders, n
<1>10. Tasks'
  BY <1>2 DEF DequeInv, Tasks, TasksAt
<1> QED BY <1>5, <1>6, <1>7, <1>8, <1>9, <1>10 DEF DequeInv

\* A pop that reserves the youngest task, and one that finds it gone.
LEMMA PopDecrementStep == ASSUME DequeInv, PopDecrement PROVE DequeInv'
<1>1. myBottom - 1 \in Int /\ myBottom - 1 <= End /\ End' = End /\ pc' = "fence"
  BY IndexFacts DEF PopDecrement, StoreBottom, End
<1> QED BY <1>1, AppendBottom DEF PopDecrement, memory

\* A pop that finds the deque empty puts bottom back.
LEMMA PopNoneStep == ASSUME DequeInv, PopNone PROVE DequeInv'
<1>1. top \in Int /\ top <= End /\ pc' = "idle"
  BY IndexFacts DEF PopNone
<1>2. End' = End
  BY IndexFacts DEF PopNone, StoreBottom, End
<1> QED BY <1>1, <1>2, AppendBottom DEF PopNone, memory

\* A single task is left: the owner goes for the compare-and-swap.
LEMMA PopLastStep == ASSUME DequeInv, PopLast PROVE DequeInv'
<1>1. End' = End /\ pc' = "cas" /\ myTop' = top /\ myBottom = top /\ stores = <<>>
      /\ UNCHANGED <<top, bottom, slot, stores, myBottom, mySlot, topCache, thief, pushed, taken>>
  BY DEF PopLast, End, memory, ownView, Fenced
<1>2. TypeOK'
  BY <1>1 DEF DequeInv, TypeOK
<1>3. Order'
  BY <1>1, IndexFacts DEF DequeInv, Order
<1>4. Buffer' /\ Visible' /\ Holders' /\ Tasks'
  BY <1>1 DEF DequeInv, Buffer, Visible, Holders, Tasks, TasksAt
<1> QED BY <1>2, <1>3, <1>4 DEF DequeInv

\* The oldest or the youngest task is handed out, and leaves the deque.
LEMMA TaskTaken ==
  ASSUME DequeInv, NEW p \in top .. End - 1,
         taken' = [taken EXCEPT ![mySlot[At(p)]] = @ + 1],
         mySlot' = mySlot, pushed' = pushed,
         \/ p = top /\ top' = top + 1 /\ End' = End
         \/ p = End - 1 /\ top' = top /\ End' = End - 1
  PROVE  taken' \in [Items -> Nat] /\ Tasks'
<1> DEFINE i == mySlot[At(p)]
<1>1. /\ top \in Nat /\ End \in Nat /\ pushed \in Nat /\ MaxItems \in Nat
      /\ pushed <= MaxItems /\ p \in Nat
      /\ \A j : j \in top' .. End' - 1 <=> j \in top .. End - 1 /\ j # p
  <2>1. /\ top \in Nat /\ End \in Nat /\ pushed \in Nat /\ MaxItems \in Nat
        /\ pushed <= MaxItems /\ p \in Nat
    BY IndexFacts
  <2>2. PICK a, e : a = top' /\ e = End'
    OBVIOUS
  <2>3. \/ a = top + 1 /\ e = End /\ p = top
        \/ a = top /\ e = End - 1 /\ p = End - 1
    BY <2>2, Zenon
  <2>4. CASE a = top + 1 /\ e = End /\ p = top
    <3>1. \A j : j \in a .. e - 1 <=> j \in top .. End - 1 /\ j # p
      BY <2>1, <2>4
    <3> QED BY <2>1, <2>2, <3>1
  <2>5. CASE a = top /\ e = End - 1 /\ p = End - 1
    <3>1. \A j : j \in a .. e - 1 <=> j \in top .. End - 1 /\ j # p
      BY <2>1, <2>5
    <3> QED BY <2>1, <2>2, <3>1
  <2> QED BY <2>3, <2>4, <2>5
<1>2. TasksAt(top, End)
  BY DEF DequeInv, Tasks
<1>3. i \in 1 .. pushed /\ i \in Items /\ taken[i] = 0
  BY <1>1, <1>2 DEF TasksAt, Items
<1>4. \A j \in top .. End - 1 : mySlot[At(j)] = i <=> j = p
  BY <1>2 DEF TasksAt
<1>5. taken \in [Items -> Nat]
  BY DEF DequeInv, TypeOK
<1> HIDE DEF i
<1>6. /\ taken' \in [Items -> Nat] /\ taken'[i] = 1
      /\ \A x \in Items : x # i => taken'[x] = taken[x]
  BY <1>3, <1>5 DEF i
<1>7. \A j \in top' .. End' - 1 :
        mySlot'[At(j)] \in 1 .. pushed' /\ taken'[mySlot'[At(j)]] = 0
  <2> SUFFICES ASSUME NEW j \in top' .. End' - 1
               PROVE  mySlot[At(j)] \in 1 .. pushed /\ taken'[mySlot[At(j)]] = 0
    OBVIOUS
  <2>1. mySlot[At(j)] \in 1 .. pushed /\ mySlot[At(j)] # i /\ taken[mySlot[At(j)]] = 0
    BY <1>1, <1>2, <1>4 DEF TasksAt
  <2> QED BY <1>1, <1>6, <2>1 DEF Items
<1>8. \A a, b \in top' .. End' - 1 : mySlot'[At(a)] = mySlot'[At(b)] => a = b
  BY <1>1, <1>2 DEF TasksAt
<1>9. ASSUME NEW x \in 1 .. pushed'
      PROVE  \/ taken'[x] = 1
             \/ taken'[x] = 0 /\ \E j \in top' .. End' - 1 : mySlot'[At(j)] = x
  <2>1. x \in 1 .. pushed /\ x \in Items
    BY <1>1 DEF Items
  <2>2. CASE x = i
    BY <1>6, <2>2
  <2>3. CASE x # i
    <3>1. taken'[x] = taken[x]
      BY <1>6, <2>1, <2>3
    <3>2. \A j \in top .. End - 1 : mySlot[At(j)] = x => j \in top' .. End' - 1
      BY <1>1, <1>4, <2>3
    <3> QED BY <1>2, <2>1, <3>1, <3>2 DEF TasksAt
  <2> QED BY <2>2, <2>3
<1>10. \A x \in pushed' + 1 .. MaxItems : taken'[x] = 0
  BY <1>1, <1>2, <1>3, <1>6 DEF TasksAt, Items
<1>11. Tasks'
  BY <1>7, <1>8, <1>9, <1>10 DEF Tasks, TasksAt
<1> QED BY <1>6, <1>11

\* A pop that leaves more than one task behind takes the youngest.
LEMMA PopManyStep == ASSUME DequeInv, PopMany PROVE DequeInv'
<1>1. /\ stores = <<>> /\ End = myBottom + 1 /\ End' = myBottom /\ pc' = "idle"
      /\ myBottom > top
      /\ UNCHANGED <<top, bottom, slot, stores, myBottom, mySlot, topCache, myTop, thief, pushed>>
  BY DEF PopMany, Fenced, End, memory, ownView
<1>2. /\ top \in Nat /\ myBottom \in Nat /\ Len(stores) = 0 /\ bottom = myBottom
      /\ myBottom \in top .. End - 1 /\ End' = End - 1
  BY <1>1, IndexFacts DEF DequeInv, Buffer
<1>3. taken' = [taken EXCEPT ![mySlot[At(myBottom)]] = @ + 1]
  BY DEF PopMany, Return
<1>4. taken' \in [Items -> Nat] /\ Tasks'
  <2>1. myBottom = End - 1 /\ top' = top
    BY <1>1, <1>2
  <2> QED BY <1>1, <1>2, <1>3, <2>1, TaskTaken
<1>5. TypeOK'
  BY <1>1, <1>4 DEF DequeInv, TypeOK
<1>6. Order'
  BY <1>1, <1>2, IndexFacts DEF DequeInv, Order
<1>7. Buffer' /\ Visible'
  BY <1>1, <1>2 DEF DequeInv, Buffer, Visible
<1>8. Holders'
  BY <1>1, <1>2 DEF DequeInv, Holders
<1> QED BY <1>4, <1>5, <1>6, <1>7, <1>8 DEF DequeInv

\* The compare-and-swap of a pop: won, the last task is the owner's; lost, the
\* deque was empty already.
LEMMA PopRaceStep == ASSUME DequeInv, PopRace PROVE DequeInv'
<1>1. /\ pc = "cas" /\ pc' = "idle" /\ stores = <<>> /\ StoreBottom(myTop + 1)
      /\ UNCHANGED <<bottom, slot, topCache, myTop, thief, pushed>>
  BY DEF PopRace, Fenced, memory
<1>2. /\ myTop = myBottom /\ myTop <= top /\ top \in Nat /\ myTop \in Nat
      /\ End = myTop + 1 /\ End' = myTop + 1 /\ top <= End /\ bottom = myBottom
  BY <1>1, IndexFacts DEF DequeInv, TypeOK, Order, Buffer, StoreBottom, End
<1>3. CASE ~ Wins(myTop)
  <2>1. top' = top /\ taken' = taken
    BY <1>3 DEF PopRace
  <2> QED BY <1>1, <1>2, <2>1, AppendBottom
<1>4. CASE Wins(myTop)
  <2>1. /\ top = myTop /\ top' = top + 1
        /\ taken' = [taken EXCEPT ![mySlot[At(top)]] = @ + 1]
    BY <1>2, <1>4 DEF PopRace, Wins, Return
  <2>2. /\ stores' = << BottomStore(top + 1) >> /\ Len(stores') = 1
        /\ myBottom' = top + 1 /\ mySlot' = mySlot
    BY <1>1, <2>1 DEF StoreBottom
  <2>3. /\ stores'[1] = BottomStore(top + 1) /\ stores'[1].to = -1
        /\ stores'[1].value = top + 1 /\ stores'[1] \in Stores
    BY <1>2, <2>2 DEF BottomStore, Stores
  <2>4. taken' \in [Items -> Nat] /\ Tasks'
    <3>1. top \in top .. End - 1 /\ End' = End
      BY <1>2, <2>1
    <3> QED BY <1>1, <2>1, <2>2, <3>1, TaskTaken
  <2>5. TypeOK'
    <3>1. stores' \in Seq(Stores)
      BY <2>2, <2>3
    <3> QED BY <1>1, <1>2, <2>1, <2>2, <2>4, <3>1 DEF DequeInv, TypeOK
  <2>6. Order'
    BY <1>1, <1>2, <2>1, IndexFacts DEF DequeInv, Order
  <2>7. Buffer'
    <3>1. \A x \in Slots : slot[x] = mySlot[x]
      BY <1>1 DEF DequeInv, Buffer
    <3>2. \A k \in 1 .. Len(stores') : k = 1
      BY <2>2
    <3>3. stores' # <<>>
      BY <2>2
    <3> QED BY <1>1, <1>2, <2>1, <2>2, <2>3, <3>1, <3>2, <3>3 DEF Buffer
  <2>8. Visible'
    BY <1>1, <1>2, <2>1, <2>2 DEF Visible
  <2>9. Holders'
    <3>1. \A h \in Thieves : thief[h].t \in Nat /\ thief[h].t <= top
      BY DEF DequeInv, TypeOK, Holders
    <3>2. \A h \in Thieves : thief'[h] = thief[h] /\ thief[h].t <= top' /\ thief[h].t # top'
      BY <1>1, <1>2, <2>1, <3>1
    <3> QED BY <3>2 DEF Holders
  <2> QED BY <2>4, <2>5, <2>6, <2>7, <2>8, <2>9 DEF DequeInv
<1> QED BY <1>3, <1>4

-----------------------------------------------------------------------------
\* A step of thief h that moves only h.
LEMMA ThiefMoved ==
  ASSUME DequeInv, NEW h \in Thieves, NEW r, thief' = [thief EXCEPT ![h] = r],
         r \in [pc : {"idle", "bottom", "slot", "cas"}, t : Nat, task : Items \cup {0}],
         UNCHANGED <<top, bottom, slot, stores, myBottom, mySlot, topCache, pc, myTop,
                     pushed, taken>>,
         r.t <= top,
         r.pc \in {"slot", "cas"} /\ r.t = top =>
           top < End /\ \A k \in 1 .. Len(stores) : stores[k].to # At(top),
         r.pc = "cas" /\ r.t = top => r.task = mySlot[At(top)]
  PROVE  DequeInv'
<1>1. End' = End
  BY DEF End
<1>2. thief'[h] = r /\ \A g \in Thieves : g # h => thief'[g] = thief[g]
  BY DEF DequeInv, TypeOK
<1>3. TypeOK'
  BY DEF DequeInv, TypeOK
<1>4. Order' /\ Buffer' /\ Visible' /\ Tasks'
  BY <1>1 DEF DequeInv, Order, Buffer, Visible, Tasks, TasksAt
<1>5. Holders'
  <2> SUFFICES ASSUME NEW g \in Thieves
               PROVE  /\ thief'[g].t <= top
                      /\ thief'[g].pc \in {"slot", "cas"} /\ thief'[g].t = top =>
                           /\ top < End
                           /\ \A k \in 1 .. Len(stores) : stores[k].to # At(top)
                      /\ thief'[g].pc = "cas" /\ thief'[g].t = top =>
                           thief'[g].task = mySlot[At(top)]
    BY <1>1 DEF Holders
  <2>1. CASE g = h
    BY <1>2, <2>1
  <2>2. CASE g # h
    BY <1>2, <2>2 DEF DequeInv, Holders
  <2> QED BY <2>1, <2>2
<1> QED BY <1>3, <1>4, <1>5 DEF DequeInv

\* A thief loads top.
LEMMA StealTopStep == ASSUME DequeInv, NEW h \in Thieves, StealTop(h) PROVE DequeInv'
<1> DEFINE r == [thief[h] EXCEPT !.pc = "bottom", !.t = top]
<1>1. thief[h] \in [pc : {"idle", "bottom", "slot", "cas"}, t : Nat, task : Items \cup {0}]
      /\ top \in Nat
  BY DEF DequeInv, TypeOK
<1>2. /\ r.pc = "bottom" /\ r.t = top
      /\ r \in [pc : {"idle", "bottom", "slot", "cas"}, t : Nat, task : Items \cup {0}]
  BY <1>1
<1>3. thief' = [thief EXCEPT ![h] = r]
      /\ UNCHANGED <<top, bottom, slot, stores, myBottom, mySlot, topCache, pc, myTop,
                     pushed, taken>>
  BY DEF StealTop, memory, ownView, ownerLoc
<1> HIDE DEF r
<1>4. r.t <= top /\ r.pc \notin {"slot", "cas"}
  BY <1>1, <1>2
<1> QED BY <1>2, <1>3, <1>4, ThiefMoved

\* A bottom beyond the thief's top: if that still is the top, the store of its
\* slot is not pending.
LEMMA StealBottomStep == ASSUME DequeInv, NEW h \in Thieves, StealBottom(h) PROVE DequeInv'
<1> DEFINE r == IF bottom <= thief[h].t THEN Idle ELSE [thief[h] EXCEPT !.pc = "slot"]
<1>1. /\ thief[h] \in [pc : {"idle", "bottom", "slot", "cas"}, t : Nat, task : Items \cup {0}]
      /\ thief[h].t \in Nat /\ thief[h].t <= top /\ top \in Nat /\ bottom \in Int
      /\ bottom <= End /\ End \in Nat
  BY IndexFacts DEF DequeInv, TypeOK, Holders, Order
<1>2. thief' = [thief EXCEPT ![h] = r]
      /\ UNCHANGED <<top, bottom, slot, stores, myBottom, mySlot, topCache, pc, myTop,
                     pushed, taken>>
  BY DEF StealBottom, memory, ownView, ownerLoc
<1>3. /\ r \in [pc : {"idle", "bottom", "slot", "cas"}, t : Nat, task : Items \cup {0}]
      /\ r.t <= top /\ r.pc # "cas"
      /\ r.pc = "slot" /\ r.t = top => top < bottom
  <2>1. CASE bottom <= thief[h].t
    <3>1. r = [pc |-> "idle", t |-> 0, task |-> 0]
      BY <2>1 DEF Idle
    <3> QED BY <1>1, <3>1
  <2>2. CASE ~ (bottom <= thief[h].t)
    <3>1. r = [thief[h] EXCEPT !.pc = "slot"]
      BY <2>2
    <3>2. r.pc = "slot" /\ r.t = thief[h].t
      BY <1>1, <3>1
    <3>3. r \in [pc : {"idle", "bottom", "slot", "cas"}, t : Nat, task : Items \cup {0}]
      BY <1>1, <3>1
    <3> HIDE DEF r
    <3> QED BY <1>1, <2>2, <3>2, <3>3
  <2> QED BY <2>1, <2>2
<1> HIDE DEF r
<1>4. r.pc \in {"slot", "cas"} /\ r.t = top =>
        top < End /\ \A k \in 1 .. Len(stores) : stores[k].to # At(top)
  <2> SUFFICES ASSUME top < bottom
               PROVE  top < End /\ \A k \in 1 .. Len(stores) : stores[k].to # At(top)
    BY <1>3
  <2>1. top \in top .. bottom - 1
    BY <1>1
  <2> QED BY <1>1, <2>1 DEF DequeInv, Visible
<1> QED BY <1>2, <1>3, <1>4, ThiefMoved

\* What the thief reads is the oldest task, if its top still is the top.
LEMMA StealSlotStep == ASSUME DequeInv, NEW h \in Thieves, StealSlot(h) PROVE DequeInv'
<1> DEFINE q == thief[h]
           v == slot[At(q.t)]
           r == [q EXCEPT !.pc = "cas", !.task = v]
<1>1. /\ q \in [pc : {"idle", "bottom", "slot", "cas"}, t : Nat, task : Items \cup {0}]
      /\ q.t \in Nat /\ q.t <= top /\ q.pc = "slot"
      /\ q.t = top => top < End /\ \A k \in 1 .. Len(stores) : stores[k].to # At(top)
  BY DEF DequeInv, TypeOK, Holders, StealSlot
<1>2. v \in Items \cup {0}
  BY <1>1, DivMod DEF DequeInv, TypeOK
<1>3. thief' = [thief EXCEPT ![h] = r]
      /\ UNCHANGED <<top, bottom, slot, stores, myBottom, mySlot, topCache, pc, myTop,
                     pushed, taken>>
  BY DEF StealSlot, memory, ownView, ownerLoc
<1>4. q.t = top => v = mySlot[At(top)]
  BY <1>1, InMemory
<1> HIDE DEF v, q
<1>5. /\ r \in [pc : {"idle", "bottom", "slot", "cas"}, t : Nat, task : Items \cup {0}]
      /\ r.t = q.t /\ r.pc = "cas" /\ r.task = v
  BY <1>1, <1>2
<1> HIDE DEF r
<1> QED BY <1>1, <1>3, <1>4, <1>5, ThiefMoved

\* The compare-and-swap of a steal: won, the thief holds the oldest task.
LEMMA StealRaceStep == ASSUME DequeInv, NEW h \in Thieves, StealRace(h) PROVE DequeInv'
<1>1. /\ thief[h].pc = "cas" /\ thief' = [thief EXCEPT ![h] = Idle]
      /\ UNCHANGED <<bottom, slot, stores, myBottom, mySlot, topCache, pc, myTop, pushed>>
  BY DEF StealRace, memory, ownView, ownerLoc
<1>2. /\ Idle.pc = "idle" /\ Idle.t = 0
      /\ Idle \in [pc : {"idle", "bottom", "slot", "cas"}, t : Nat, task : Items \cup {0}]
  BY DEF Idle
<1>3. top \in Nat /\ End' = End
  BY <1>1 DEF DequeInv, TypeOK, End
<1>4. CASE ~ Wins(thief[h].t)
  <2>1. top' = top /\ taken' = taken
    BY <1>4 DEF StealRace
  <2>2. Idle.t <= top /\ Idle.pc \notin {"slot", "cas"}
    BY <1>2, <1>3
  <2> QED BY <1>1, <1>2, <2>1, <2>2, ThiefMoved
<1>5. CASE Wins(thief[h].t)
  <2>1. /\ thief[h].t = top /\ top' = top + 1
        /\ taken' = [taken EXCEPT ![thief[h].task] = @ + 1]
    BY <1>5 DEF StealRace, Wins, Return
  <2>2. /\ top < End /\ thief[h].task = mySlot[At(top)]
        /\ \A k \in 1 .. Len(stores) : stores[k].to # At(top)
    BY <1>1, <2>1 DEF DequeInv, Holders
  <2>3. taken' \in [Items -> Nat] /\ Tasks'
    <3>1. top \in top .. End - 1
      BY <1>3, <2>2, IndexFacts
    <3> QED BY <1>1, <1>3, <2>1, <2>2, <3>1, TaskTaken
  <2>4. TypeOK'
    BY <1>1, <1>2, <1>3, <2>1, <2>3 DEF DequeInv, TypeOK
  <2>5. Order'
    <3>1. End \in Nat /\ (pc = "cas" => myTop \in Nat /\ myTop <= top) /\ topCache \in Nat
      BY IndexFacts DEF DequeInv, TypeOK, Order
    <3> QED BY <1>1, <1>3, <2>1, <2>2, <3>1 DEF DequeInv, Order
  <2>6. Buffer'
    <3>1. \A k \in 1 .. Len(stores) : \A p \in top .. End - 1 :
            stores[k].to = At(p) => p \in top' .. End' - 1
      <4> SUFFICES ASSUME NEW k \in 1 .. Len(stores), NEW p \in top .. End - 1,
                          stores[k].to = At(p)
                   PROVE  p \in top' .. End' - 1
        OBVIOUS
      <4>1. p # top
        BY <2>2
      <4>2. p \in top + 1 .. End - 1
        BY <1>3, <4>1, IndexFacts
      <4> QED BY <1>3, <2>1, <4>2
    <3>2. ASSUME NEW k \in 1 .. Len(stores), stores[k].to # -1
          PROVE  \E p \in top' .. End' - 1 : stores[k].to = At(p)
      BY <3>1, <3>2 DEF DequeInv, Buffer
    <3> QED BY <1>1, <1>3, <3>2 DEF DequeInv, Buffer
  <2>7. Visible'
    <3>1. \A b \in Int : \A j \in top' .. b - 1 : j \in top .. b - 1
      BY <1>3, <2>1
    <3>2. bottom \in Int /\ \A k \in 1 .. Len(stores) : stores[k].to = -1 => stores[k].value \in Int
      BY StoreFacts, IndexFacts
    <3>3. \A j \in top' .. bottom' - 1 : \A k \in 1 .. Len(stores') : stores'[k].to # At(j)
      BY <1>1, <3>1, <3>2 DEF DequeInv, Visible
    <3>4. \A m \in 1 .. Len(stores) : stores[m].to = -1 =>
            \A j \in top' .. stores[m].value - 1 :
              \A k \in m + 1 .. Len(stores) : stores[k].to # At(j)
      <4> SUFFICES ASSUME NEW m \in 1 .. Len(stores), stores[m].to = -1,
                          NEW j \in top' .. stores[m].value - 1,
                          NEW k \in m + 1 .. Len(stores)
                   PROVE  stores[k].to # At(j)
        OBVIOUS
      <4>1. j \in top .. stores[m].value - 1
        BY <3>1, <3>2
      <4> QED BY <4>1 DEF DequeInv, Visible
    <3> QED BY <1>1, <3>3, <3>4 DEF Visible
  <2>8. Holders'
    <3> SUFFICES ASSUME NEW g \in Thieves
                 PROVE  thief'[g].t <= top' /\ (thief'[g].pc \in {"slot", "cas"} => thief'[g].t # top')
      BY DEF Holders
    <3>1. CASE g = h
      <4>1. thief'[g] = Idle
        BY <1>1, <3>1 DEF DequeInv, TypeOK
      <4> QED BY <1>2, <1>3, <2>1, <4>1
    <3>2. CASE g # h
      <4>1. thief'[g] = thief[g] /\ thief[g].t \in Nat /\ thief[g].t <= top
        BY <1>1, <3>2 DEF DequeInv, TypeOK, Holders
      <4> QED BY <1>3, <2>1, <4>1
    <3> QED BY <3>1, <3>2
  <2> QED BY <2>3, <2>4, <2>5, <2>6, <2>7, <2>8 DEF DequeInv
<1> QED BY <1>4, <1>5

-----------------------------------------------------------------------------
\* What a push that finds room for k >= 1 tasks does.
Appended(k) ==
  /\ UNCHANGED <<top, bottom, slot, pc, myTop, thief, taken>>
  /\ topCache' \in topCache .. top /\ End + k <= topCache' + Capacity
  /\ pushed' = pushed + k /\ pushed + k <= MaxItems
  /\ pc = "idle" /\ End' = End + k /\ myBottom' = End + k
  /\ stores' \in Seq(Stores) /\ Len(stores') = Len(stores) + k + 1
  /\ \A i \in 1 .. Len(stores) : stores'[i] = stores[i]
  /\ \A i \in 1 .. k : stores'[Len(stores) + i] = SlotStore(End + i - 1, pushed + i)
  /\ stores'[Len(stores) + k + 1] = BottomStore(End + k)
  /\ mySlot' \in [Slots -> Items \cup {0}]
  /\ \A i \in 1 .. k : mySlot'[At(End + i - 1)] = pushed + i
  /\ \A s \in Slots : (\A i \in 1 .. k : s # At(End + i - 1)) => mySlot'[s] = mySlot[s]

\* The pending stores and the slots after a batch of k tasks, the first of them
\* task p + 1 at position e.
StoresAfter(old, e, k, p) ==
  old \o [i \in 1 .. k |-> SlotStore(e + i - 1, p + i)] \o << BottomStore(e + k) >>

SlotsAfter(old, e, k, p) ==
  LET Written(s) == {i \in e .. e + k - 1 : At(i) = s}
      Task(i) == p + 1 + (i - e)
  IN  [s \in Slots |-> IF Written(s) = {} THEN old[s]
                       ELSE Task(CHOOSE i \in Written(s) : \A j \in Written(s) : j <= i)]

\* The stores of a batch are in order, the store of the new bottom is the last.
StoresOf(new, old, e, k, p) ==
  /\ new \in Seq(Stores) /\ Len(new) = Len(old) + k + 1
  /\ \A i \in 1 .. Len(old) : new[i] = old[i]
  /\ \A i \in 1 .. k : new[Len(old) + i] = SlotStore(e + i - 1, p + i)
  /\ new[Len(old) + k + 1] = BottomStore(e + k)

\* What ring_write_n() issues for a batch: its stores, in order, after the old ones.
LEMMA BatchStores ==
  ASSUME NEW old \in Seq(Stores), NEW e \in Nat, NEW k \in Nat, NEW p \in Nat,
         p + k <= MaxItems
  PROVE  StoresOf(StoresAfter(old, e, k, p), old, e, k, p)
<1> DEFINE new == StoresAfter(old, e, k, p)
<1> DEFINE mid == [i \in 1 .. k |-> SlotStore(e + i - 1, p + i)]
           fin == << BottomStore(e + k) >>
<1>1. \A i \in 1 .. k : SlotStore(e + i - 1, p + i) \in Stores
  <2> SUFFICES ASSUME NEW i \in 1 .. k
               PROVE  SlotStore(e + i - 1, p + i) \in Stores
    OBVIOUS
  <2>1. e + i - 1 \in Nat /\ p + i \in Items
    BY DequeAssumption DEF Items
  <2>2. At(e + i - 1) \in Slots
    BY <2>1, DivMod
  <2> QED BY <2>1, <2>2 DEF SlotStore, Stores
<1>2. mid \in Seq(Stores) /\ Len(mid) = k
      /\ \A i \in 1 .. k : mid[i] = SlotStore(e + i - 1, p + i)
  <2>1. mid \in [1 .. k -> Stores]
    BY <1>1
  <2>3. DOMAIN mid = 1 .. k /\ \A i \in 1 .. k : mid[i] = SlotStore(e + i - 1, p + i)
    OBVIOUS
  <2> HIDE DEF mid
  <2>2. mid \in Seq(Stores)
    <3>1. mid \in UNION {[1 .. m -> Stores] : m \in Nat}
      BY <2>1
    <3> QED BY <3>1, SeqDef
  <2>4. Len(mid) \in Nat /\ DOMAIN mid = 1 .. Len(mid)
    BY <2>2, LenProperties
  <2>5. Len(mid) = k
    BY <2>3, <2>4
  <2> QED BY <2>2, <2>3, <2>5
<1>3. fin \in Seq(Stores) /\ Len(fin) = 1 /\ fin[1] = BottomStore(e + k)
  <2>1. BottomStore(e + k) \in Stores
    BY DEF BottomStore, Stores
  <2> QED BY <2>1
<1>4. new = (old \o mid) \o fin
  BY DEF StoresAfter
<1> HIDE DEF mid, fin, new
<1>5. /\ old \o mid \in Seq(Stores) /\ Len(old \o mid) = Len(old) + k
      /\ \A i \in 1 .. Len(old) : (old \o mid)[i] = old[i]
      /\ \A i \in 1 .. k : (old \o mid)[Len(old) + i] = mid[i]
  <2>1. Len(old) \in Nat
    OBVIOUS
  <2>2. \A i \in 1 .. Len(old) + k :
          (old \o mid)[i] = IF i <= Len(old) THEN old[i] ELSE mid[i - Len(old)]
    BY <1>2, ConcatProperties
  <2>3. \A i \in 1 .. k : /\ Len(old) + i \in 1 .. Len(old) + k
                         /\ ~ (Len(old) + i <= Len(old)) /\ (Len(old) + i) - Len(old) = i
    BY <2>1
  <2>4. \A i \in 1 .. Len(old) : i \in 1 .. Len(old) + k /\ i <= Len(old)
    BY <2>1
  <2>5. old \o mid \in Seq(Stores) /\ Len(old \o mid) = Len(old) + k
    BY <1>2, ConcatProperties
  <2>6. \A i \in 1 .. Len(old) : (old \o mid)[i] = old[i]
    BY <2>2, <2>4
  <2>7. \A i \in 1 .. k : (old \o mid)[Len(old) + i] = mid[i]
    BY <2>2, <2>3
  <2> QED BY <2>5, <2>6, <2>7
<1> DEFINE both == old \o mid
<1> HIDE DEF both
<1>6. /\ both \o fin \in Seq(Stores) /\ Len(both \o fin) = Len(both) + 1
      /\ \A i \in 1 .. Len(both) : (both \o fin)[i] = both[i]
      /\ (both \o fin)[Len(both) + 1] = fin[1]
  <2>1. both \in Seq(Stores) /\ Len(both) \in Nat
    BY <1>5 DEF both
  <2>2. \A i \in 1 .. Len(both) + 1 :
          (both \o fin)[i] = IF i <= Len(both) THEN both[i] ELSE fin[i - Len(both)]
    <3>1. \A i \in 1 .. Len(both) + Len(fin) :
            (both \o fin)[i] = IF i <= Len(both) THEN both[i] ELSE fin[i - Len(both)]
      BY <1>3, <2>1, ConcatProperties, Zenon
    <3> QED BY <1>3, <3>1
  <2>3. \A i \in 1 .. Len(both) : i \in 1 .. Len(both) + 1 /\ i <= Len(both)
    BY <2>1
  <2>4. /\ Len(both) + 1 \in 1 .. Len(both) + 1 /\ ~ (Len(both) + 1 <= Len(both))
        /\ (Len(both) + 1) - Len(both) = 1
    BY <2>1
  <2>5. \A i \in 1 .. Len(both) : (both \o fin)[i] = both[i]
    BY <2>2, <2>3
  <2>6. (both \o fin)[Len(both) + 1] = fin[1]
    BY <2>2, <2>4
  <2>7. both \o fin \in Seq(Stores) /\ Len(both \o fin) = Len(both) + Len(fin)
    BY <1>3, <2>1, ConcatProperties, Zenon
  <2> QED BY <1>3, <2>5, <2>6, <2>7
<1>7. new = both \o fin
  BY <1>4 DEF both
<1>8. Len(old) \in Nat /\ Len(both) = Len(old) + k
  BY <1>5 DEF both
<1>9. \A i \in 1 .. Len(old) : i \in 1 .. Len(both) /\ both[i] = old[i]
  BY <1>5, <1>8 DEF both
<1>10. \A i \in 1 .. k : Len(old) + i \in 1 .. Len(both) /\ both[Len(old) + i] = mid[i]
  BY <1>5, <1>8 DEF both
<1>11. /\ new \in Seq(Stores) /\ Len(new) = Len(old) + k + 1
       /\ \A i \in 1 .. Len(old) : new[i] = old[i]
       /\ new[Len(old) + k + 1] = BottomStore(e + k)
  BY <1>3, <1>6, <1>7, <1>8, <1>9
<1>12. \A i \in 1 .. k : new[Len(old) + i] = SlotStore(e + i - 1, p + i)
  BY <1>2, <1>6, <1>7, <1>8, <1>10
<1>13. StoresOf(new, old, e, k, p)
  BY <1>11, <1>12 DEF StoresOf
<1> QED BY <1>13 DEF new

\* The slots of a batch of at most Capacity tasks: each gets its own task, the
\* others keep theirs.
SlotsOf(new, old, e, k, p) ==
  /\ new \in [Slots -> Items \cup {0}]
  /\ \A i \in 1 .. k : new[At(e + i - 1)] = p + i
  /\ \A s \in Slots : (\A i \in 1 .. k : s # At(e + i - 1)) => new[s] = old[s]

\* What ring_write_n() leaves in the slots when a batch fits the ring.
LEMMA BatchSlots ==
  ASSUME NEW e \in Nat, NEW k \in Nat, NEW p \in Nat, k <= Capacity, p + k <= MaxItems,
         NEW old \in [Slots -> Items \cup {0}]
  PROVE  SlotsOf(SlotsAfter(old, e, k, p), old, e, k, p)
<1> DEFINE new == SlotsAfter(old, e, k, p)
<1> DEFINE W(s) == {i \in e .. e + k - 1 : At(i) = s}
           T(s) == CHOOSE i \in W(s) : \A j \in W(s) : j <= i
<1>1. new = [s \in Slots |-> IF W(s) = {} THEN old[s] ELSE p + 1 + (T(s) - e)]
  BY DEF SlotsAfter
<1> HIDE DEF new
<1>2. \A i \in 1 .. k : e + i - 1 \in e .. e + k - 1 /\ e + i - 1 \in Nat
  OBVIOUS
<1>3. ASSUME NEW i \in 1 .. k
      PROVE  At(e + i - 1) \in Slots /\ W(At(e + i - 1)) = {e + i - 1}
  <2>1. e + i - 1 \in e .. e + k - 1 /\ e + i - 1 \in Nat
    BY <1>2
  <2>2. ASSUME NEW j \in e .. e + k - 1, j # e + i - 1 PROVE At(j) # At(e + i - 1)
    <3>1. j \in Nat /\ j - (e + i - 1) < Capacity /\ (e + i - 1) - j < Capacity
      BY DequeAssumption
    <3> QED BY <2>1, <2>2, <3>1, PositionsApart
  <2>3. At(e + i - 1) \in Slots
    BY <2>1, DivMod
  <2> QED BY <2>1, <2>2, <2>3
<1>4. ASSUME NEW i \in 1 .. k
      PROVE  new[At(e + i - 1)] = p + i
  <2> DEFINE m == e + i - 1
  <2>1. W(At(m)) = {m} /\ At(m) \in Slots /\ m \in Nat
    BY <1>2, <1>3
  <2>2. T(At(m)) = m
    BY <2>1
  <2>3. new[At(m)] = p + 1 + (m - e)
    BY <1>1, <2>1, <2>2
  <2> QED BY <2>3
<1>5. ASSUME NEW s \in Slots, \A i \in 1 .. k : s # At(e + i - 1)
      PROVE  new[s] = old[s]
  <2>1. W(s) = {}
    <3> SUFFICES ASSUME NEW j \in e .. e + k - 1, At(j) = s PROVE FALSE
      OBVIOUS
    <3>1. j - e + 1 \in 1 .. k /\ e + (j - e + 1) - 1 = j
      OBVIOUS
    <3> QED BY <1>5, <3>1
  <2> QED BY <1>1, <2>1
<1>6. \A s \in Slots : new[s] \in Items \cup {0}
  <2> SUFFICES ASSUME NEW s \in Slots PROVE new[s] \in Items \cup {0}
    OBVIOUS
  <2>1. CASE \E i \in 1 .. k : s = At(e + i - 1)
    <3>1. PICK i \in 1 .. k : s = At(e + i - 1)
      BY <2>1
    <3>2. new[s] = p + i
      BY <1>4, <3>1
    <3> QED BY <3>2, DequeAssumption DEF Items
  <2>2. CASE \A i \in 1 .. k : s # At(e + i - 1)
    BY <1>5, <2>2
  <2> QED BY <2>1, <2>2
<1>7. new \in [Slots -> Items \cup {0}]
  <2>1. new = [s \in Slots |-> new[s]]
    BY <1>1
  <2> QED BY <1>6, <2>1
<1>8. SlotsOf(new, old, e, k, p)
  BY <1>4, <1>5, <1>7 DEF SlotsOf
<1> QED BY <1>8 DEF new

\* A push appends a batch, or finds no room and at most refreshes its cached top.
LEMMA PushFacts ==
  ASSUME DequeInv, NEW n \in 1 .. MaxItems, Push(n)
  PROVE  \/ \E k \in 1 .. n : Appended(k)
         \/ /\ topCache' \in topCache .. top
            /\ UNCHANGED <<top, bottom, slot, stores, myBottom, mySlot, pc, myTop, thief,
                           pushed, taken>>
<1> DEFINE t == IF Room(topCache) < n THEN top ELSE topCache
           k == IF Room(t) < n THEN Room(t) ELSE n
<1>1. /\ pc = "idle" /\ topCache' = t /\ pushed + n <= MaxItems
      /\ UNCHANGED <<top, bottom, slot, pc, myTop, thief, taken>>
      /\ k <= 0 => UNCHANGED <<stores, myBottom, mySlot, pushed>>
  BY DEF Push, ownView, memory, ownerLoc
<1>2. /\ top \in Nat /\ topCache \in Nat /\ topCache <= top /\ End \in Nat /\ top <= End
      /\ End = myBottom /\ Capacity \in Nat /\ pushed \in Nat /\ MaxItems \in Nat
  BY <1>1, IndexFacts
<1>3. t \in topCache .. top /\ t <= End
  BY <1>2
<1> HIDE DEF t
<1>4. /\ k \in Int /\ k <= n /\ k <= Capacity - (End - t)
  BY <1>2, <1>3 DEF Room
<1>5. CASE k <= 0
  BY <1>1, <1>3, <1>5
<1>6. CASE ~ (k <= 0)
  <2>1. /\ stores' = StoresAfter(stores, myBottom, k, pushed)
        /\ myBottom' = myBottom + k /\ pushed' = pushed + k
    BY <1>6 DEF Push, t, StoresAfter
  <2>2. mySlot' = SlotsAfter(mySlot, myBottom, k, pushed)
    BY <1>6 DEF Push, t, SlotsAfter
  <2> HIDE DEF k
  <2>3. /\ k \in 1 .. n /\ k \in Nat /\ k <= Capacity /\ End + k <= t + Capacity
        /\ pushed + k <= MaxItems
    BY <1>1, <1>2, <1>3, <1>4, <1>6
  <2>4. /\ stores' \in Seq(Stores) /\ Len(stores') = Len(stores) + k + 1
        /\ \A i \in 1 .. Len(stores) : stores'[i] = stores[i]
        /\ \A i \in 1 .. k : stores'[Len(stores) + i] = SlotStore(End + i - 1, pushed + i)
        /\ stores'[Len(stores) + k + 1] = BottomStore(End + k)
    <3>1. stores \in Seq(Stores)
      BY DEF DequeInv, TypeOK
    <3>2. stores' = StoresAfter(stores, End, k, pushed)
      BY <1>2, <2>1
    <3>3. End \in Nat /\ k \in Nat /\ pushed \in Nat /\ pushed + k <= MaxItems
      BY <1>2, <2>3
    <3>4. StoresOf(StoresAfter(stores, End, k, pushed), stores, End, k, pushed)
      BY <3>1, <3>3, BatchStores
    <3>5. StoresOf(stores', stores, End, k, pushed)
      BY <3>2, <3>4
    <3> QED BY <3>5 DEF StoresOf
  <2>5. /\ mySlot' \in [Slots -> Items \cup {0}]
        /\ \A i \in 1 .. k : mySlot'[At(End + i - 1)] = pushed + i
        /\ \A s \in Slots : (\A i \in 1 .. k : s # At(End + i - 1)) => mySlot'[s] = mySlot[s]
    <3>1. mySlot \in [Slots -> Items \cup {0}]
      BY DEF DequeInv, TypeOK
    <3>2. mySlot' = SlotsAfter(mySlot, End, k, pushed)
      BY <1>2, <2>2
    <3>3. End \in Nat /\ k \in Nat /\ k <= Capacity /\ pushed \in Nat /\ pushed + k <= MaxItems
      BY <1>2, <2>3
    <3>4. SlotsOf(SlotsAfter(mySlot, End, k, pushed), mySlot, End, k, pushed)
      BY <3>1, <3>3, BatchSlots
    <3>5. SlotsOf(mySlot', mySlot, End, k, pushed)
      BY <3>2, <3>4
    <3> QED BY <3>5 DEF SlotsOf
  <2>6. End' = End + k /\ myBottom' = End + k
    BY <1>1, <1>2, <2>1 DEF End
  <2>7. Appended(k)
    BY <1>1, <1>3, <2>1, <2>3, <2>4, <2>5, <2>6 DEF Appended
  <2> QED BY <2>3, <2>7
<1> QED BY <1>5, <1>6

\* The indices of a push: first and end of the deque, the cached top before and
\* after, and a bottom in memory.
LEMMA PushIndices ==
  ASSUME NEW first \in Nat, NEW end \in Nat, NEW c \in Nat, NEW d \in c .. first,
         NEW b \in Int, NEW k \in Nat, first <= end, end + k <= d + Capacity, b <= end
  PROVE  /\ d \in Nat /\ d <= first /\ first <= end + k /\ b <= end + k
         /\ \A j \in first .. end - 1 : \A i \in 1 .. k :
              /\ j \in Nat /\ end + i - 1 \in Nat
              /\ j < end + i - 1 /\ (end + i - 1) - j < Capacity
         /\ \A i \in 1 .. k : end + i - 1 \in first .. end + k - 1
         /\ first .. end - 1 \subseteq first .. end + k - 1
BY DequeAssumption

\* The new tasks are in other slots than those in the deque.
LEMMA AppendedApart ==
  ASSUME DequeInv, NEW k \in Nat, Appended(k), NEW j \in top .. End - 1, NEW i \in 1 .. k
  PROVE  At(End + i - 1) # At(j) /\ At(j) \in Slots /\ At(End + i - 1) \in Slots
<1> DEFINE d == topCache'
<1>1. /\ top \in Nat /\ End \in Nat /\ Capacity \in Nat /\ topCache \in Nat
      /\ d \in topCache .. top /\ End + k <= d + Capacity
  BY IndexFacts DEF Appended
<1> HIDE DEF d
<1>2. bottom \in Int /\ bottom <= End /\ top <= End
  BY IndexFacts DEF DequeInv, Order
<1>3. j \in Nat /\ End + i - 1 \in Nat /\ j < End + i - 1 /\ (End + i - 1) - j < Capacity
  BY <1>1, <1>2, PushIndices
<1> QED BY <1>3, SlotsApart, DivMod

\* The deque has got a batch at its end.
LEMMA AppendedKeeps == ASSUME DequeInv, NEW k \in Nat, Appended(k), k > 0 PROVE DequeInv'
<1> DEFINE n == Len(stores)
<1>1. /\ UNCHANGED <<top, bottom, slot, pc, myTop, thief, taken>>
      /\ topCache' \in topCache .. top /\ End + k <= topCache' + Capacity
      /\ pushed' = pushed + k /\ pushed + k <= MaxItems
      /\ pc = "idle" /\ End' = End + k /\ myBottom' = End + k
      /\ stores' \in Seq(Stores) /\ Len(stores') = n + k + 1
      /\ \A i \in 1 .. n : stores'[i] = stores[i]
      /\ \A i \in 1 .. k : stores'[n + i] = SlotStore(End + i - 1, pushed + i)
      /\ stores'[n + k + 1] = BottomStore(End + k)
      /\ mySlot' \in [Slots -> Items \cup {0}]
      /\ \A i \in 1 .. k : mySlot'[At(End + i - 1)] = pushed + i
      /\ \A s \in Slots : (\A i \in 1 .. k : s # At(End + i - 1)) => mySlot'[s] = mySlot[s]
  BY DEF Appended
<1>0. /\ top' = top /\ bottom' = bottom /\ End' = End + k /\ Len(stores') = n + k + 1
      /\ pushed' = pushed + k
  BY DEF Appended
<1>2. /\ top \in Nat /\ End \in Nat /\ topCache \in Nat /\ bottom \in Int /\ n \in Nat
      /\ Capacity \in Nat /\ pushed \in Nat /\ MaxItems \in Nat
      /\ top <= End /\ topCache <= top /\ bottom <= End
  BY IndexFacts DEF DequeInv, Order
<1>3. \A j \in top .. End - 1 : At(j) \in Slots /\ mySlot'[At(j)] = mySlot[At(j)]
  <2> SUFFICES ASSUME NEW j \in top .. End - 1
               PROVE  At(j) \in Slots /\ mySlot'[At(j)] = mySlot[At(j)]
    OBVIOUS
  <2>1. At(j) \in Slots
    BY <1>2, DivMod
  <2>2. \A i \in 1 .. k : At(j) # At(End + i - 1)
    BY AppendedApart
  <2> QED BY <1>1, <2>1, <2>2
<1>4. \A i \in 1 .. k : /\ stores'[n + i].to = At(End + i - 1)
                       /\ stores'[n + i].value = pushed + i
                       /\ At(End + i - 1) \in Slots /\ stores'[n + i].to # -1
  <2> SUFFICES ASSUME NEW i \in 1 .. k
               PROVE  /\ stores'[n + i].to = At(End + i - 1)
                      /\ stores'[n + i].value = pushed + i
                      /\ At(End + i - 1) \in Slots /\ stores'[n + i].to # -1
    OBVIOUS
  <2>1. At(End + i - 1) \in Slots
    BY <1>2, DivMod
  <2>2. stores'[n + i] = SlotStore(End + i - 1, pushed + i)
    BY <1>1
  <2> QED BY <2>1, <2>2 DEF SlotStore, Slots
<1>5. stores'[n + k + 1].to = -1 /\ stores'[n + k + 1].value = End + k
  BY <1>1 DEF BottomStore
<1>6. \A m \in 1 .. n + k + 1 : m \in 1 .. n \/ m = n + k + 1 \/ \E i \in 1 .. k : m = n + i
  <2> SUFFICES ASSUME NEW m \in 1 .. n + k + 1, m \notin 1 .. n, m # n + k + 1
               PROVE  \E i \in 1 .. k : m = n + i
    OBVIOUS
  <2>1. m - n \in 1 .. k /\ m = n + (m - n)
    BY <1>2
  <2> QED BY <2>1
<1>7. \A m \in n + 1 .. n + k + 1 : \A j \in top .. End - 1 : stores'[m].to # At(j)
  <2> SUFFICES ASSUME NEW m \in n + 1 .. n + k + 1, NEW j \in top .. End - 1
               PROVE  stores'[m].to # At(j)
    OBVIOUS
  <2>1. m \in 1 .. n + k + 1 /\ m \notin 1 .. n
    BY <1>2
  <2>2. CASE m = n + k + 1
    <3>1. At(j) # -1
      BY <1>3 DEF Slots
    <3> QED BY <1>5, <2>2, <3>1
  <2>3. CASE \E i \in 1 .. k : m = n + i
    BY <1>4, <2>3, AppendedApart
  <2>4. m = n + k + 1 \/ \E i \in 1 .. k : m = n + i
    BY <1>6, <2>1
  <2> QED BY <2>2, <2>3, <2>4
<1> HIDE DEF n
<1>14. /\ topCache' \in Nat /\ topCache' <= top /\ top <= End + k /\ bottom <= End + k
       /\ \A i \in 1 .. k : End + i - 1 \in top .. End + k - 1
       /\ top .. End - 1 \subseteq top .. End + k - 1
  <2> DEFINE d == topCache'
  <2>1. d \in topCache .. top /\ End + k <= d + Capacity
    BY <1>1
  <2> HIDE DEF d
  <2>2. /\ d \in Nat /\ d <= top /\ top <= End + k /\ bottom <= End + k
        /\ \A i \in 1 .. k : End + i - 1 \in top .. End + k - 1
        /\ top .. End - 1 \subseteq top .. End + k - 1
    BY <1>2, <2>1, PushIndices
  <2> QED BY <2>2 DEF d
<1>15. top' .. End' - 1 = top .. End + k - 1
  BY <1>0, <1>2
<1>8. TypeOK'
  <2>1. topCache' \in Nat /\ myBottom' \in Int /\ pushed' \in 0 .. MaxItems
    BY <1>1, <1>2, <1>14
  <2> QED BY <1>1, <2>1 DEF DequeInv, TypeOK
<1>9. Order'
  <2>1. pc' = "idle"
    BY <1>1
  <2>2. End + k <= topCache' + Capacity
    BY <1>1
  <2> QED BY <1>0, <1>14, <2>1, <2>2 DEF Order
<1>10. Buffer'
  <2>1. stores' # <<>> /\ stores'[Len(stores')] = BottomStore(myBottom')
    <3>1. Len(stores') # 0
      BY <1>1, <1>2
    <3> QED BY <1>1, <3>1
  <2>2. ASSUME NEW m \in 1 .. Len(stores')
        PROVE /\ stores'[m].to = -1 => stores'[m].value <= End'
              /\ stores'[m].to # -1 =>
                   /\ stores'[m].value = mySlot'[stores'[m].to]
                   /\ \E p \in top' .. End' - 1 : stores'[m].to = At(p)
    <3>1. CASE m \in 1 .. n
      <4>1. stores'[m] = stores[m]
        BY <1>1, <3>1
      <4>2. CASE stores[m].to = -1
        <5>1. stores[m].value <= End /\ stores[m].value \in Int
          BY <3>1, <4>2, StoreFacts DEF DequeInv, Buffer, n
        <5>2. stores[m].value <= End + k
          BY <1>2, <5>1
        <5> QED BY <1>1, <4>1, <4>2, <5>2
      <4>3. CASE stores[m].to # -1
        <5>1. stores[m].value = mySlot[stores[m].to]
          BY <3>1, <4>3 DEF DequeInv, Buffer, n
        <5>2. PICK p \in top .. End - 1 : stores[m].to = At(p)
          BY <3>1, <4>3 DEF DequeInv, Buffer, n
        <5>3. mySlot'[At(p)] = mySlot[At(p)]
          BY <1>3, <5>2
        <5>4. p \in top' .. End' - 1
          BY <1>14, <1>15, <5>2
        <5> QED BY <4>1, <4>3, <5>1, <5>2, <5>3, <5>4
      <4> QED BY <4>2, <4>3
    <3>2. CASE m = n + k + 1
      <4>1. stores'[m].to = -1 /\ stores'[m].value = End + k /\ End + k <= End + k
        BY <1>2, <1>5, <3>2
      <4> QED BY <1>1, <4>1
    <3>3. CASE \E i \in 1 .. k : m = n + i
      <4>1. PICK i \in 1 .. k : m = n + i
        BY <3>3
      <4>2. End + i - 1 \in top' .. End' - 1
        BY <1>14, <1>15
      <4>3. mySlot'[At(End + i - 1)] = pushed + i
        BY <1>1
      <4> QED BY <1>4, <4>1, <4>2, <4>3
    <3> QED BY <1>0, <1>6, <3>1, <3>2, <3>3
  <2>3. ASSUME NEW x \in Slots
        PROVE  slot'[x] = mySlot'[x] \/ \E m \in 1 .. Len(stores') : stores'[m].to = x
    <3>1. CASE \E i \in 1 .. k : x = At(End + i - 1)
      <4>1. PICK i \in 1 .. k : x = At(End + i - 1)
        BY <3>1
      <4>2. n + i \in 1 .. n + k + 1
        BY <1>2, <4>1
      <4> QED BY <1>1, <1>4, <4>1, <4>2
    <3>2. CASE \A i \in 1 .. k : x # At(End + i - 1)
      <4>1. mySlot'[x] = mySlot[x]
        BY <1>1, <3>2
      <4>2. \A m \in 1 .. n : m \in 1 .. Len(stores') /\ stores'[m] = stores[m]
        BY <1>1, <1>2
      <4> QED BY <1>1, <4>1, <4>2 DEF DequeInv, Buffer, n
    <3> QED BY <3>1, <3>2
  <2> QED BY <2>1, <2>2, <2>3 DEF Buffer
<1>11. Visible'
  <2>1. ASSUME NEW j \in top' .. bottom' - 1, NEW m \in 1 .. Len(stores')
        PROVE  stores'[m].to # At(j)
    <3>1. j \in top .. bottom - 1 /\ j \in top .. End - 1
      BY <1>1, <1>2
    <3>2. CASE m \in 1 .. n
      BY <1>1, <3>1, <3>2 DEF DequeInv, Visible, n
    <3>3. CASE m \notin 1 .. n
      <4>1. m \in n + 1 .. n + k + 1
        BY <1>1, <1>2, <3>3
      <4> QED BY <1>7, <3>1, <4>1
    <3> QED BY <3>2, <3>3
  <2>2. ASSUME NEW m \in 1 .. Len(stores'), stores'[m].to = -1,
               NEW j \in top' .. stores'[m].value - 1, NEW i \in m + 1 .. Len(stores')
        PROVE  stores'[i].to # At(j)
    <3>1. CASE m \in 1 .. n
      <4>1. stores'[m] = stores[m] /\ stores[m].to = -1 /\ j \in top .. stores[m].value - 1
        BY <1>1, <2>2, <3>1
      <4>2. stores[m].value \in Int /\ stores[m].value <= End
        BY <3>1, <4>1, StoreFacts DEF DequeInv, Buffer, n
      <4>3. j \in top .. End - 1
        BY <1>2, <4>1, <4>2
      <4>4. CASE i \in 1 .. n
        <5>1. i \in m + 1 .. n
          BY <1>2, <4>4
        <5> QED BY <1>1, <3>1, <4>1, <4>4, <5>1 DEF DequeInv, Visible, n
      <4>5. CASE i \notin 1 .. n
        <5>1. i \in n + 1 .. n + k + 1
          BY <1>1, <1>2, <4>5
        <5> QED BY <1>7, <4>3, <5>1
      <4> QED BY <4>4, <4>5
    <3>2. CASE m = n + k + 1
      BY <1>1, <1>2, <3>2
    <3>3. CASE \E a \in 1 .. k : m = n + a
      BY <1>4, <2>2, <3>3
    <3> QED BY <1>1, <1>6, <3>1, <3>2, <3>3
  <2> QED BY <2>1, <2>2 DEF Visible
<1>12. Holders'
  <2> SUFFICES ASSUME NEW h \in Thieves
               PROVE  /\ thief[h].t <= top
                      /\ thief[h].pc \in {"slot", "cas"} /\ thief[h].t = top =>
                           /\ top < End + k
                           /\ \A m \in 1 .. Len(stores') : stores'[m].to # At(top)
                      /\ thief[h].pc = "cas" /\ thief[h].t = top =>
                           thief[h].task = mySlot'[At(top)]
    BY <1>1 DEF Holders
  <2>1. thief[h].t <= top
    BY DEF DequeInv, Holders
  <2>2. ASSUME thief[h].pc \in {"slot", "cas"}, thief[h].t = top
        PROVE  /\ top < End + k
               /\ \A m \in 1 .. Len(stores') : stores'[m].to # At(top)
               /\ thief[h].pc = "cas" => thief[h].task = mySlot'[At(top)]
    <3>1. /\ top < End /\ \A m \in 1 .. n : stores[m].to # At(top)
          /\ thief[h].pc = "cas" => thief[h].task = mySlot[At(top)]
      BY <2>2 DEF DequeInv, Holders, n
    <3>2. top \in top .. End - 1 /\ top < End + k
      BY <1>2, <3>1
    <3>3. ASSUME NEW m \in 1 .. Len(stores') PROVE stores'[m].to # At(top)
      <4>1. CASE m \in 1 .. n
        BY <1>1, <3>1, <4>1
      <4>2. CASE m \notin 1 .. n
        <5>1. m \in n + 1 .. n + k + 1
          BY <1>1, <1>2, <4>2
        <5> QED BY <1>7, <3>2, <5>1
      <4> QED BY <4>1, <4>2
    <3> QED BY <1>3, <3>1, <3>2, <3>3
  <2> QED BY <2>1, <2>2
<1>13. Tasks'
  <2>0. taken' = taken
    BY <1>1
  <2>1. TasksAt(top, End) /\ Items = 1 .. MaxItems
    BY DEF DequeInv, Tasks, Items
  <2>2. \A j \in top .. End + k - 1 :
          j \in top .. End - 1 \/ \E i \in 1 .. k : j = End + i - 1
    <3> SUFFICES ASSUME NEW j \in top .. End + k - 1, j \notin top .. End - 1
                 PROVE  \E i \in 1 .. k : j = End + i - 1
      OBVIOUS
    <3>1. j - End + 1 \in 1 .. k /\ j = End + (j - End + 1) - 1
      BY <1>2
    <3> QED BY <3>1
  <2>3. \A j \in top .. End - 1 :
          /\ mySlot'[At(j)] \in 1 .. pushed /\ taken[mySlot'[At(j)]] = 0
          /\ \A i \in top .. End - 1 : mySlot'[At(i)] = mySlot'[At(j)] => i = j
    BY <1>3, <2>1 DEF TasksAt
  <2>4. \A i \in 1 .. k : /\ mySlot'[At(End + i - 1)] = pushed + i
                         /\ pushed + i \in pushed + 1 .. pushed + k
                         /\ taken[pushed + i] = 0
    BY <1>1, <1>2, <2>1 DEF TasksAt
  <2>5. \A j \in top' .. End' - 1 :
          mySlot'[At(j)] \in 1 .. pushed' /\ taken'[mySlot'[At(j)]] = 0
    <3> SUFFICES ASSUME NEW j \in top .. End + k - 1
                 PROVE  mySlot'[At(j)] \in 1 .. pushed + k /\ taken[mySlot'[At(j)]] = 0
      BY <1>0, <1>15, <2>0
    <3>1. CASE j \in top .. End - 1
      BY <1>2, <2>3, <3>1
    <3>2. CASE \E i \in 1 .. k : j = End + i - 1
      BY <1>2, <2>4, <3>2
    <3> QED BY <2>2, <3>1, <3>2
  <2>6. \A a, b \in top' .. End' - 1 : mySlot'[At(a)] = mySlot'[At(b)] => a = b
    <3> SUFFICES ASSUME NEW a \in top .. End + k - 1, NEW b \in top .. End + k - 1,
                        mySlot'[At(a)] = mySlot'[At(b)]
                 PROVE  a = b
      BY <1>15
    <3>1. CASE a \in top .. End - 1 /\ b \in top .. End - 1
      BY <2>3, <3>1
    <3>2. CASE \E i \in 1 .. k : a = End + i - 1
      <4>1. CASE b \in top .. End - 1
        BY <1>2, <2>3, <2>4, <3>2, <4>1
      <4>2. CASE \E i \in 1 .. k : b = End + i - 1
        <5>1. PICK i \in 1 .. k : a = End + i - 1
          BY <3>2
        <5>2. PICK l \in 1 .. k : b = End + l - 1
          BY <4>2
        <5>3. pushed + i = pushed + l
          BY <2>4, <5>1, <5>2
        <5> QED BY <1>2, <5>1, <5>2, <5>3
      <4> QED BY <2>2, <4>1, <4>2
    <3>3. CASE a \in top .. End - 1 /\ \E i \in 1 .. k : b = End + i - 1
      <4>1. PICK i \in 1 .. k : b = End + i - 1
        BY <3>3
      <4>2. mySlot'[At(a)] \in 1 .. pushed
        BY <2>3, <3>3
      <4>3. mySlot'[At(b)] = pushed + i /\ i > 0
        BY <2>4, <4>1
      <4> QED BY <1>2, <4>2, <4>3
    <3> QED BY <2>2, <3>1, <3>2, <3>3
  <2>7. ASSUME NEW x \in 1 .. pushed'
        PROVE  \/ taken'[x] = 1
               \/ taken'[x] = 0 /\ \E j \in top' .. End' - 1 : mySlot'[At(j)] = x
    <3>1. CASE x \in 1 .. pushed
      <4>1. ASSUME NEW j \in top .. End - 1, mySlot[At(j)] = x
            PROVE  j \in top' .. End' - 1 /\ mySlot'[At(j)] = x
        BY <1>3, <1>14, <1>15, <4>1
      <4> QED BY <2>0, <2>1, <3>1, <4>1 DEF TasksAt
    <3>2. CASE x \notin 1 .. pushed
      <4>1. x - pushed \in 1 .. k /\ x = pushed + (x - pushed)
        BY <1>1, <1>2, <3>2
      <4>2. PICK i \in 1 .. k : x = pushed + i
        BY <4>1
      <4>3. End + i - 1 \in top' .. End' - 1
        BY <1>14, <1>15, <4>2
      <4> QED BY <2>0, <2>4, <4>2, <4>3
    <3> QED BY <3>1, <3>2
  <2>8. \A x \in pushed' + 1 .. MaxItems : taken'[x] = 0
    BY <1>1, <1>2, <2>1 DEF TasksAt
  <2> QED BY <2>5, <2>6, <2>7, <2>8 DEF Tasks, TasksAt
<1> QED BY <1>8, <1>9, <1>10, <1>11, <1>12, <1>13 DEF DequeInv

\* A push with or without room.
LEMMA PushStep == ASSUME DequeInv, NEW n \in 1 .. MaxItems, Push(n) PROVE DequeInv'
<1>1. CASE \E k \in 1 .. n : Appended(k)
  BY <1>1, AppendedKeeps
<1>2. CASE /\ topCache' \in topCache .. top
           /\ UNCHANGED <<top, bottom, slot, stores, myBottom, mySlot, pc, myTop, thief,
                          pushed, taken>>
  <2>1. End' = End
    BY <1>2 DEF End
  <2>2. /\ topCache' \in Nat /\ topCache' <= top /\ topCache <= topCache'
        /\ End \in Nat /\ topCache \in Nat /\ Capacity \in Nat
        /\ End <= topCache + Capacity
    BY <1>2, IndexFacts DEF DequeInv, Order
  <2>6. End <= topCache' + Capacity
    <3> DEFINE d == topCache'
    <3>1. d \in Nat /\ topCache <= d
      BY <2>2
    <3> HIDE DEF d
    <3>2. End <= d + Capacity
      BY <2>2, <3>1
    <3> QED BY <3>2 DEF d
  <2>3. TypeOK'
    BY <1>2, <2>2 DEF DequeInv, TypeOK
  <2>4. Order'
    BY <1>2, <2>1, <2>2, <2>6 DEF DequeInv, Order
  <2>5. Buffer' /\ Visible' /\ Holders' /\ Tasks'
    BY <1>2, <2>1 DEF DequeInv, Buffer, Visible, Holders, Tasks, TasksAt
  <2> QED BY <2>3, <2>4, <2>5 DEF DequeInv
<1> QED BY <1>1, <1>2, PushFacts

\* Every step keeps DequeInv.
LEMMA DequeStep == DequeInv /\ [Next]_vars => DequeInv'
<1> SUFFICES ASSUME DequeInv, [Next]_vars PROVE DequeInv'
  OBVIOUS
<1>1. CASE Drain
  BY <1>1, DrainStep
<1>2. CASE Owner
  BY <1>2, PushStep, PopDecrementStep, PopManyStep, PopNoneStep, PopLastStep, PopRaceStep
     DEF Owner
<1>3. ASSUME NEW h \in Thieves, Steal(h) PROVE DequeInv'
  BY <1>3, StealTopStep, StealBottomStep, StealSlotStep, StealRaceStep DEF Steal
<1>4. CASE UNCHANGED vars
  <2>1. UNCHANGED <<top, bottom, slot, stores, myBottom, mySlot, topCache, pc, myTop,
                    thief, pushed, taken>>
    BY <1>4 DEF vars
  <2>2. End' = End
    BY <2>1 DEF End
  <2>3. TypeOK'
    BY <2>1 DEF DequeInv, TypeOK
  <2>4. Order' /\ Buffer'
    BY <2>1, <2>2 DEF DequeInv, Order, Buffer
  <2>5. Visible' /\ Holders'
    BY <2>1, <2>2 DEF DequeInv, Visible, Holders
  <2>6. Tasks'
    BY <2>1, <2>2 DEF DequeInv, Tasks, TasksAt
  <2> QED BY <2>3, <2>4, <2>5, <2>6 DEF DequeInv
<1> QED BY <1>1, <1>2, <1>3, <1>4 DEF Next

-----------------------------------------------------------------------------
(* The contents as a sequence, and the abstract deque.                      *)

AsQueue ==
  /\ Contents \in Seq(Items) /\ Len(Contents) = End - top /\ End - top \in Nat
  /\ \A i \in 1 .. End - top : Contents[i] = mySlot[At(top + i - 1)]

\* The invariant makes the tasks of the deque a sequence.
LEMMA ContentsFacts == DequeInv => AsQueue
<1> SUFFICES ASSUME DequeInv PROVE AsQueue
  OBVIOUS
<1> DEFINE n == End - top
<1>1. top \in Nat /\ End \in Nat /\ top <= End
  BY IndexFacts
<1>2. n \in Nat /\ Size = n
  BY <1>1 DEF Size
<1>3. \A i \in 1 .. n : mySlot[At(top + i - 1)] \in Items
  <2> SUFFICES ASSUME NEW i \in 1 .. n PROVE mySlot[At(top + i - 1)] \in Items
    OBVIOUS
  <2>1. top + i - 1 \in top .. End - 1
    BY <1>1
  <2>2. mySlot[At(top + i - 1)] \in 1 .. pushed
    <3>0. TasksAt(top, End)
      BY DEF DequeInv, Tasks
    <3>1. \A j \in top .. End - 1 : mySlot[At(j)] \in 1 .. pushed
      BY <3>0 DEF TasksAt
    <3> QED BY <2>1, <3>1
  <2> QED BY <2>2, IndexFacts DEF Items
<1> HIDE DEF n
<1>4. Contents = [i \in 1 .. n |-> mySlot[At(top + i - 1)]]
  BY <1>2 DEF Contents
<1>5. Contents \in [1 .. n -> Items]
  BY <1>3, <1>4
<1>6. Contents \in Seq(Items)
  BY <1>2, <1>5, SeqDef
<1>7. Len(Contents) = n
  BY <1>2, <1>4, <1>6, LenProperties
<1> QED BY <1>2, <1>4, <1>6, <1>7 DEF AsQueue, n

\* A sequence that is another one without an end, or with a batch appended.
LEMMA QueueShrinks ==
  ASSUME NEW S, NEW s \in Seq(S), NEW u \in Seq(S), Len(s) > 0, Len(u) = Len(s) - 1
  PROVE  /\ s # <<>>
         /\ (\A i \in 1 .. Len(u) : u[i] = s[i + 1]) => u = Tail(s)
         /\ (\A i \in 1 .. Len(u) : u[i] = s[i]) => u = SubSeq(s, 1, Len(s) - 1)
<1>1. s # <<>>
  OBVIOUS
<1>2. ASSUME \A i \in 1 .. Len(u) : u[i] = s[i + 1] PROVE u = Tail(s)
  <2>1. /\ Tail(s) \in Seq(S) /\ Len(Tail(s)) = Len(u)
        /\ \A i \in 1 .. Len(u) : Tail(s)[i] = s[i + 1]
    BY <1>1, HeadTailProperties
  <2> QED BY <1>2, <2>1, SeqEqual
<1>3. ASSUME \A i \in 1 .. Len(u) : u[i] = s[i] PROVE u = SubSeq(s, 1, Len(s) - 1)
  <2> DEFINE w == SubSeq(s, 1, Len(s) - 1)
  <2>1. Len(s) \in Nat /\ Len(s) - 1 \in 0 .. Len(s)
    OBVIOUS
  <2>2. w \in Seq(S) /\ Len(w) = Len(u) /\ \A i \in 1 .. Len(u) : w[i] = s[i]
    BY <2>1, SubSeqProperties
  <2> HIDE DEF w
  <2>3. u = w
    BY <1>3, <2>2, SeqEqual
  <2> QED BY <2>3 DEF w
<1> QED BY <1>1, <1>2, <1>3

\* A sequence that goes on with another one is their concatenation.
LEMMA QueueGrows ==
  ASSUME NEW S, NEW s \in Seq(S), NEW b \in Seq(S), NEW u \in Seq(S),
         Len(u) = Len(s) + Len(b),
         \A i \in 1 .. Len(s) : u[i] = s[i],
         \A i \in 1 .. Len(b) : u[Len(s) + i] = b[i]
  PROVE  u = s \o b
<1>1. Len(s) \in Nat /\ Len(b) \in Nat
  OBVIOUS
<1>2. /\ s \o b \in Seq(S) /\ Len(s \o b) = Len(u)
      /\ \A i \in 1 .. Len(u) : (s \o b)[i] = IF i <= Len(s) THEN s[i] ELSE b[i - Len(s)]
  BY ConcatProperties
<1>3. ASSUME NEW i \in 1 .. Len(u) PROVE u[i] = (s \o b)[i]
  <2>1. CASE i <= Len(s)
    BY <1>1, <1>2, <2>1
  <2>2. CASE ~ (i <= Len(s))
    <3>1. i - Len(s) \in 1 .. Len(b) /\ Len(s) + (i - Len(s)) = i
      BY <1>1, <2>2
    <3> QED BY <1>2, <2>2, <3>1
  <2> QED BY <2>1, <2>2
<1> QED BY <1>2, <1>3, SeqEqual

\* What a step makes of contents and history: nothing, a batch appended, or a
\* task taken at one of the ends.
Seen ==
  \/ UNCHANGED <<top, mySlot, taken>> /\ End' = End
  \/ \E k \in 1 .. MaxItems : Appended(k)
  \/ /\ taken' = [taken EXCEPT ![mySlot[At(top)]] = @ + 1]
     /\ top < End /\ top' = top + 1 /\ End' = End /\ mySlot' = mySlot
  \/ /\ taken' = [taken EXCEPT ![mySlot[At(End - 1)]] = @ + 1]
     /\ top < End /\ top' = top /\ End' = End - 1 /\ mySlot' = mySlot

\* What each step does to the sequence and to the tasks that were returned.
LEMMA StepSeen == ASSUME DequeInv, [Next]_vars PROVE Seen
<1>0. /\ top \in Nat /\ End \in Nat /\ top <= End
      /\ pc = "idle" => End = myBottom
      /\ pc # "idle" => End = myBottom + 1
      /\ myBottom \in Int
  BY IndexFacts
<1>1. ASSUME NEW n \in 1 .. MaxItems, Push(n) PROVE Seen
  <2>1. CASE \E k \in 1 .. n : Appended(k)
    <3>1. \A k \in 1 .. n : k \in 1 .. MaxItems
      BY IndexFacts
    <3> QED BY <2>1, <3>1 DEF Seen
  <2>2. CASE UNCHANGED <<top, bottom, slot, stores, myBottom, mySlot, pc, myTop, thief,
                         pushed, taken>>
    BY <2>2 DEF Seen, End
  <2> QED BY <1>1, <2>1, <2>2, PushFacts
<1>2. CASE PopDecrement
  <2>1. End' = End
    BY <1>0, <1>2 DEF PopDecrement, StoreBottom, End
  <2> QED BY <1>2, <2>1 DEF Seen, PopDecrement, StoreBottom
<1>3. CASE PopMany
  <2>1. /\ End = myBottom + 1 /\ End' = myBottom /\ top' = top /\ mySlot' = mySlot
        /\ myBottom > top /\ taken' = [taken EXCEPT ![mySlot[At(myBottom)]] = @ + 1]
    BY <1>3 DEF PopMany, End, ownView, Return
  <2>2. myBottom = End - 1 /\ End' = End - 1 /\ top < End
    BY <1>0, <2>1
  <2> QED BY <2>1, <2>2 DEF Seen
<1>4. CASE PopNone
  <2>1. End = myBottom + 1 /\ End' = top /\ myBottom < top
    BY <1>4 DEF PopNone, StoreBottom, End
  <2>2. End' = End
    BY <1>0, <2>1
  <2> QED BY <1>4, <2>2 DEF Seen, PopNone, StoreBottom
<1>5. CASE PopLast
  BY <1>5 DEF Seen, PopLast, ownView, End
<1>6. CASE PopRace
  <2>1. /\ myTop = myBottom /\ myTop <= top /\ End = myBottom + 1 /\ End' = myTop + 1
        /\ mySlot' = mySlot
    BY <1>6 DEF DequeInv, Order, PopRace, StoreBottom, End
  <2>2. CASE Wins(myTop)
    <3>1. /\ top = myTop /\ top' = top + 1
          /\ taken' = [taken EXCEPT ![mySlot[At(top)]] = @ + 1]
      BY <1>6, <2>1, <2>2 DEF PopRace, Wins, Return
    <3>2. top < End /\ End' = End
      BY <1>0, <2>1, <3>1
    <3> QED BY <2>1, <3>1, <3>2 DEF Seen
  <2>3. CASE ~ Wins(myTop)
    <3>1. top' = top /\ taken' = taken
      BY <1>6, <2>3 DEF PopRace
    <3> QED BY <2>1, <3>1 DEF Seen
  <2> QED BY <2>2, <2>3
<1>7. ASSUME NEW h \in Thieves, StealRace(h) PROVE Seen
  <2>1. End' = End /\ mySlot' = mySlot
    BY <1>7 DEF StealRace, ownView, ownerLoc, End
  <2>2. CASE Wins(thief[h].t)
    <3>1. /\ thief[h].t = top /\ thief[h].pc = "cas" /\ top' = top + 1
          /\ taken' = [taken EXCEPT ![thief[h].task] = @ + 1]
      BY <1>7, <2>2 DEF StealRace, Wins, Return
    <3>2. top < End /\ thief[h].task = mySlot[At(top)]
      BY <3>1 DEF DequeInv, Holders
    <3> QED BY <2>1, <3>1, <3>2 DEF Seen
  <2>3. CASE ~ Wins(thief[h].t)
    BY <1>7, <2>1, <2>3 DEF StealRace, Seen
  <2> QED BY <2>2, <2>3
<1>8. ASSUME NEW h \in Thieves, StealTop(h) \/ StealBottom(h) \/ StealSlot(h) PROVE Seen
  BY <1>8 DEF StealTop, StealBottom, StealSlot, ownView, ownerLoc, End, Seen
<1>9. CASE Drain
  BY <1>9 DEF Drain, ownerLoc, End, Seen
<1>10. CASE UNCHANGED vars
  BY <1>10 DEF vars, End, Seen
<1> QED BY <1>1, <1>2, <1>3, <1>4, <1>5, <1>6, <1>7, <1>8, <1>9, <1>10
        DEF Next, Owner, Steal

\* The deque is empty at first.
LEMMA AbstractInitial == Init => AD!Init
<1> SUFFICES ASSUME Init PROVE AD!Init
  OBVIOUS
<1>1. Size = 0
  BY DEF Init, Size, End
<1>2. Contents = <<>>
  BY <1>1 DEF Contents
<1> QED BY <1>2 DEF Init, AD!Init

\* Every step is one of AbstractDeque or is not seen there.
LEMMA AbstractStep ==
  ASSUME DequeInv, AsQueue, AsQueue', [Next]_vars
  PROVE  [AD!Next]_<<Contents, taken>>
<1> DEFINE c == Contents
           d == Contents'
           n == Len(c)
<1>0. /\ top \in Nat /\ End \in Nat /\ top <= End /\ n = End - top /\ n \in Nat
      /\ c \in Seq(Items) /\ \A i \in 1 .. n : c[i] = mySlot[At(top + i - 1)]
  BY IndexFacts DEF AsQueue
<1>1. d \in Seq(Items) /\ Len(d) = End' - top'
  BY DEF AsQueue
<1>2. \A i \in 1 .. Len(d) : d[i] = mySlot'[At(top' + i - 1)]
  BY DEF AsQueue
<1>3. CASE UNCHANGED <<top, mySlot, taken>> /\ End' = End
  <2>1. d = c
    BY <1>3 DEF Contents, Size
  <2> QED BY <1>3, <2>1
<1>4. ASSUME NEW k \in 1 .. MaxItems, Appended(k) PROVE AD!Next
  <2> DEFINE batch == [i \in 1 .. k |-> pushed + i]
  <2>1. /\ top' = top /\ End' = End + k /\ taken' = taken /\ k \in Nat
        /\ pushed \in Nat /\ pushed + k <= MaxItems /\ MaxItems \in Nat
    BY <1>4, IndexFacts DEF Appended
  <2>2. batch \in [1 .. k -> Items] /\ batch \in Seq(Items) /\ Len(batch) = k
    <3>1. batch \in [1 .. k -> Items]
      BY <2>1 DEF Items
    <3>2. batch \in Seq(Items)
      BY <2>1, <3>1, SeqDef
    <3> QED BY <2>1, <3>1, <3>2, LenProperties
  <2>3. n + k <= Capacity /\ k \in 1 .. Capacity
    <3> DEFINE e == topCache'
    <3>1. e \in topCache .. top /\ End + k <= e + Capacity /\ topCache \in Nat
      BY <1>4, IndexFacts DEF Appended
    <3> HIDE DEF e, n
    <3> QED BY <1>0, <2>1, <3>1, DequeAssumption
  <2>4. Len(d) = n + k
    BY <1>0, <1>1, <2>1
  <2>5. \A i \in 1 .. n : d[i] = c[i]
    <3> SUFFICES ASSUME NEW i \in 1 .. n PROVE d[i] = c[i]
      OBVIOUS
    <3>1. top + i - 1 \in top .. End - 1 /\ i \in 1 .. Len(d)
      BY <1>0, <2>1, <2>4
    <3>2. mySlot'[At(top + i - 1)] = mySlot[At(top + i - 1)]
      <4>1. At(top + i - 1) \in Slots
        BY <1>0, <3>1, DivMod
      <4>2. \A j \in 1 .. k : At(top + i - 1) # At(End + j - 1)
        BY <1>4, <2>1, <3>1, AppendedApart
      <4> QED BY <1>4, <4>1, <4>2 DEF Appended
    <3> QED BY <1>0, <1>2, <2>1, <3>1, <3>2
  <2>6. \A i \in 1 .. k : d[n + i] = batch[i]
    <3> SUFFICES ASSUME NEW i \in 1 .. k PROVE d[n + i] = pushed + i
      OBVIOUS
    <3>1. n + i \in 1 .. Len(d) /\ top + (n + i) - 1 = End + i - 1
      BY <1>0, <2>1, <2>4
    <3>2. mySlot'[At(End + i - 1)] = pushed + i
      BY <1>4 DEF Appended
    <3> QED BY <1>2, <2>1, <3>1, <3>2
  <2> HIDE DEF batch, c, d
  <2>7. d = c \o batch
    BY <1>0, <1>1, <2>2, <2>4, <2>5, <2>6, QueueGrows
  <2>8. AD!Push(batch)
    BY <2>1, <2>2, <2>3, <2>7 DEF AD!Push, c, d
  <2> QED BY <2>2, <2>3, <2>8 DEF AD!Next
<1>5. ASSUME taken' = [taken EXCEPT ![mySlot[At(top)]] = @ + 1],
             top < End, top' = top + 1, End' = End, mySlot' = mySlot
      PROVE  AD!Next
  <2>1. n > 0 /\ Len(d) = n - 1
    BY <1>0, <1>1, <1>5
  <2>2. \A i \in 1 .. Len(d) : d[i] = c[i + 1]
    <3> SUFFICES ASSUME NEW i \in 1 .. Len(d) PROVE d[i] = c[i + 1]
      OBVIOUS
    <3>1. i + 1 \in 1 .. n /\ (top + 1) + i - 1 = top + (i + 1) - 1
      BY <1>0, <2>1
    <3> QED BY <1>0, <1>2, <1>5, <3>1
  <2>3. Head(c) = mySlot[At(top)]
    <3>1. 1 \in 1 .. n /\ top + 1 - 1 = top
      BY <1>0, <2>1
    <3> QED BY <1>0, <2>1, <3>1
  <2> HIDE DEF c, d
  <2>4. c # <<>> /\ d = Tail(c)
    BY <1>0, <1>1, <2>1, <2>2, QueueShrinks
  <2> QED BY <1>5, <2>3, <2>4 DEF AD!Next, AD!Steal, AD!Hand, c, d
<1>6. ASSUME taken' = [taken EXCEPT ![mySlot[At(End - 1)]] = @ + 1],
             top < End, top' = top, End' = End - 1, mySlot' = mySlot
      PROVE  AD!Next
  <2>1. n > 0 /\ Len(d) = n - 1
    BY <1>0, <1>1, <1>6
  <2>2. \A i \in 1 .. Len(d) : d[i] = c[i]
    BY <1>0, <1>2, <1>6, <2>1
  <2>3. c[Len(c)] = mySlot[At(End - 1)]
    <3>1. n \in 1 .. n /\ top + n - 1 = End - 1
      BY <1>0, <2>1
    <3> QED BY <1>0, <3>1
  <2> HIDE DEF c, d
  <2>4. c # <<>> /\ d = SubSeq(c, 1, Len(c) - 1)
    BY <1>0, <1>1, <2>1, <2>2, QueueShrinks
  <2> QED BY <1>6, <2>3, <2>4 DEF AD!Next, AD!Pop, AD!Hand, AD!Front, AD!Last, c, d
<1> QED BY <1>3, <1>4, <1>5, <1>6, StepSeen DEF Seen

-----------------------------------------------------------------------------
\* The inductive invariant holds in every state.
THEOREM DequeInvariant == Spec => []DequeInv
BY DequeInitial, DequeStep, PTL DEF Spec

\* Indices, slots and pending stores keep their types.
THEOREM DequeTyping == Spec => []TypeOK
<1>1. DequeInv => TypeOK
  BY DEF DequeInv
<1> QED BY <1>1, DequeInvariant, PTL

\* Every pushed task is in the deque once or was returned to exactly one worker,
\* whatever stores are still on their way to memory (sk_cl_deque.h:102-130,
\* 146-152).
THEOREM NoneLostNoneTwiceTheorem == Spec => []NoneLostNoneTwice
<1>1. DequeInv => NoneLostNoneTwice
  <2> SUFFICES ASSUME DequeInv, NEW i \in Items
               PROVE  LET held == {k \in 1 .. Size : Contents[k] = i}
                      IN  IF i > pushed THEN held = {} /\ taken[i] = 0
                          ELSE \/ taken[i] = 0 /\ \E k \in held : held = {k}
                               \/ taken[i] = 1 /\ held = {}
    BY DEF NoneLostNoneTwice
  <2> DEFINE held == {k \in 1 .. Size : Contents[k] = i}
  <2>1. /\ top \in Nat /\ End \in Nat /\ top <= End /\ Size = End - top
        /\ pushed \in Nat /\ MaxItems \in Nat
    BY IndexFacts DEF Size
  <2>2. \A k \in 1 .. Size : /\ Contents[k] = mySlot[At(top + k - 1)]
                            /\ top + k - 1 \in top .. End - 1
    BY <2>1, ContentsFacts DEF AsQueue
  <2>3. TasksAt(top, End)
    BY DEF DequeInv, Tasks
  <2>4. \A k \in 1 .. Size : Contents[k] \in 1 .. pushed /\ taken[Contents[k]] = 0
    BY <2>2, <2>3 DEF TasksAt
  <2>5. CASE i > pushed
    <3>1. held = {}
      BY <2>1, <2>4, <2>5
    <3>2. i \in pushed + 1 .. MaxItems
      BY <2>1, <2>5 DEF Items
    <3>3. taken[i] = 0
      BY <2>3, <3>2 DEF TasksAt
    <3> QED BY <2>5, <3>1, <3>3
  <2>6. CASE ~ (i > pushed)
    <3>1. i \in 1 .. pushed
      BY <2>1, <2>6 DEF Items
    <3>2. CASE taken[i] = 1
      <4>1. held = {}
        BY <2>4, <3>2
      <4> QED BY <2>6, <3>2, <4>1
    <3>3. CASE taken[i] # 1
      <4>1. taken[i] = 0
        BY <2>3, <3>1, <3>3 DEF TasksAt
      <4>2. PICK j \in top .. End - 1 : mySlot[At(j)] = i
        BY <2>3, <3>1, <3>3 DEF TasksAt
      <4>3. j - top + 1 \in 1 .. Size /\ top + (j - top + 1) - 1 = j
        BY <2>1, <4>2
      <4>4. PICK k \in 1 .. Size : top + k - 1 = j
        BY <4>3
      <4>5. k \in held
        BY <2>2, <4>2, <4>4
      <4>6. ASSUME NEW m \in held PROVE m = k
        <5>1. m \in 1 .. Size /\ mySlot[At(top + m - 1)] = i
          BY <2>2
        <5>2. top + m - 1 = j
          BY <2>2, <2>3, <4>2, <5>1 DEF TasksAt
        <5> QED BY <2>1, <4>4, <5>1, <5>2
      <4>7. held = {k}
        BY <4>5, <4>6
      <4> QED BY <2>6, <4>1, <4>5, <4>7
    <3> QED BY <3>2, <3>3
  <2> QED BY <2>5, <2>6
<1> QED BY <1>1, DequeInvariant, PTL

\* A task in the deque is one of the program's, and was not returned yet.
LEMMA HeldTasks ==
  ASSUME DequeInv
  PROVE  \A p \in top .. End - 1 : mySlot[At(p)] \in Items /\ taken[mySlot[At(p)]] = 0
<1>1. TasksAt(top, End)
  BY DEF DequeInv, Tasks
<1>2. \A p \in top .. End - 1 : mySlot[At(p)] \in 1 .. pushed /\ taken[mySlot[At(p)]] = 0
  BY <1>1 DEF TasksAt
<1>3. 1 .. pushed \subseteq Items
  BY IndexFacts DEF Items
<1> QED BY <1>2, <1>3

\* Pop returns NULL only when the deque is empty (sk_cl_deque.h:97, 108, 127).
THEOREM NullMeansEmptyTheorem == Spec => NullMeansEmpty
<1>1. DequeInv /\ [Next]_vars =>
        [ /\ (pc = "fence" /\ pc' = "idle" /\ taken' = taken) => Contents' = <<>>
          /\ (pc = "cas" /\ pc' = "idle" /\ taken' = taken) => Contents' = <<>> ]_vars
  <2> SUFFICES ASSUME DequeInv, Next, pc \in {"fence", "cas"}, pc' = "idle", taken' = taken
               PROVE  Contents' = <<>>
    BY DEF vars
  <2>1. \A p \in top .. End - 1 :
          taken' # [taken EXCEPT ![mySlot[At(p)]] = @ + 1]
    <3> SUFFICES ASSUME NEW p \in top .. End - 1
                 PROVE  taken # [taken EXCEPT ![mySlot[At(p)]] = @ + 1]
      OBVIOUS
    <3>1. mySlot[At(p)] \in Items /\ taken[mySlot[At(p)]] = 0
      BY HeldTasks
    <3>2. taken \in [Items -> Nat]
      BY DEF DequeInv, TypeOK
    <3> DEFINE i == mySlot[At(p)]
    <3> HIDE DEF i
    <3>3. i \in Items /\ taken[i] = 0
      BY <3>1 DEF i
    <3>4. [taken EXCEPT ![i] = @ + 1][i] = 1
      BY <3>2, <3>3
    <3>5. taken # [taken EXCEPT ![i] = @ + 1]
      BY <3>3, <3>4
    <3> QED BY <3>5 DEF i
  <2>2. PopMany \/ PopNone \/ PopRace
    <3>1. ~ Drain /\ ~ PopDecrement /\ ~ PopLast
      BY DEF Drain, PopDecrement, PopLast, ownerLoc
    <3>2. \A n \in 1 .. MaxItems : ~ Push(n)
      BY DEF Push, ownerLoc
    <3>3. \A h \in Thieves : ~ Steal(h)
      BY DEF Steal, StealTop, StealBottom, StealSlot, StealRace, ownerLoc
    <3> QED BY <3>1, <3>2, <3>3 DEF Next, Owner
  <2>3. /\ top \in Nat /\ End \in Nat /\ top <= End /\ myBottom \in Int
        /\ End = myBottom + 1
    BY IndexFacts
  <2>4. ~ PopMany
    <3> SUFFICES ASSUME PopMany PROVE FALSE
      OBVIOUS
    <3>1. taken' = [taken EXCEPT ![mySlot[At(myBottom)]] = @ + 1] /\ myBottom > top
      BY DEF PopMany, Return
    <3>2. myBottom \in top .. End - 1
      BY <2>3, <3>1
    <3> QED BY <2>1, <3>1, <3>2
  <2>5. Size' = 0
    <3>1. CASE PopNone
      BY <2>3, <3>1 DEF PopNone, StoreBottom, Size, End
    <3>2. CASE PopRace
      <4>1. /\ pc = "cas" /\ myTop = myBottom /\ myTop <= top /\ myTop \in Nat
            /\ End' = myTop + 1
        BY <3>2 DEF DequeInv, TypeOK, Order, PopRace, StoreBottom, End
      <4>2. ~ Wins(myTop)
        <5> SUFFICES ASSUME Wins(myTop) PROVE FALSE
          OBVIOUS
        <5>1. taken' = [taken EXCEPT ![mySlot[At(myBottom)]] = @ + 1]
          BY <3>2 DEF PopRace, Return
        <5>2. myBottom \in top .. End - 1
          BY <2>3, <4>1 DEF Wins
        <5> QED BY <2>1, <5>1, <5>2
      <4>3. top' = top /\ myTop # top
        BY <3>2, <4>2 DEF PopRace, Wins
      <4>4. ~ (myTop + 1 > top)
        BY <2>3, <4>1, <4>3
      <4> QED BY <4>1, <4>3, <4>4 DEF Size
    <3> QED BY <2>2, <2>4, <3>1, <3>2
  <2> QED BY <2>5 DEF Contents
<1> QED BY <1>1, DequeInvariant, PTL DEF Spec, NullMeansEmpty

\* The deque is linearizable: it implements the sequence of AbstractDeque, for
\* any number of thieves.
THEOREM DequeTheorem == Spec => ImplementsDeque
<1>1. DequeInv /\ AsQueue /\ AsQueue' /\ [Next]_vars => [AD!Next]_<<Contents, taken>>
  BY AbstractStep
<1> QED BY <1>1, ContentsFacts, AbstractInitial, DequeInvariant, PTL
        DEF Spec, ImplementsDeque, AD!Spec
===============================================================================
