-------------------------- MODULE SpawnSubtasksProofs --------------------------
(***************************************************************************)
(* scheduler_spawn_subtasks, for every range, chunk size and batch size.   *)
(*                                                                         *)
(* Every chunk is in one of three places: before First, where it is queued *)
(* or was executed; in batch; or still to come.  Chunks of a call begin at *)
(* different indices, so the children in the deque can be counted, whether *)
(* or not indices wrap (CallInv).  Where they do not, the chunks cover the *)
(* range without overlaps, and hits can be read off the places (FitInv).   *)
(***************************************************************************)
EXTENDS SpawnSubtasks, SequenceTheorems, FunctionTheorems, FiniteSetTheorems,
        TLAPS

\* start_idx + n * chunk_size as integers, and the chunk n that begins there.
Begin(n) == lo + n * chunk

\* The first chunk that was neither queued nor executed.
First == IF pc = "inline" THEN processed - Len(batch) ELSE processed

\* Which chunks are where.
Places ==
  /\ processed \in 0 .. Total
  /\ pc = "pass" => batch = <<>>
  /\ pc = "push" => /\ Len(batch) \in 1 .. BatchSize
                    /\ processed + Len(batch) <= Total
  /\ pc = "inline" => Len(batch) <= processed
  /\ \A i \in 1 .. Len(batch) : batch[i] = ChunkRange(First + i - 1)
  /\ \A r \in queued : \E n \in 0 .. First - 1 : r = ChunkRange(n)

Counted == IsFiniteSet(queued) /\ LocksMatchChildren

CallInv == TypeOK /\ Places /\ Counted

\* No index of the call wraps.
Fits == hi + chunk <= SizeMod

\* Elements of a range.
Within(r) == {e \in Elements : r.lo <= e /\ e < r.hi}

\* What is queued, and what the call has still to handle, was not executed.
Intact ==
  /\ pc # "returned" => \A e \in Elements : e >= Begin(First) => hits[e] = 0
  /\ \A r \in queued : \A e \in Within(r) : hits[e] = 0
  /\ NothingTwice

\* Every element was executed, is queued, or will be handled by the call.
Kept ==
  dry = 0 =>
    /\ pc = "push" => Len(batch) = Least(Total - processed, BatchSize)
    /\ \A e \in Asked : \/ hits[e] = 1
                        \/ \E r \in queued : e \in Within(r)
                        \/ pc # "returned" /\ e >= Begin(First)

FitInv == CallInv /\ Fits /\ Intact /\ Kept

-----------------------------------------------------------------------------
(* Arithmetic of chunks.                                                    *)

\* A bound on indices is kept by a larger one.
LEMMA Below ==
  ASSUME NEW a \in Nat, NEW b \in Nat, a <= b, NEW n \in 0 .. a - 1
  PROVE  n \in 0 .. b - 1 /\ n \in Nat /\ n < b
OBVIOUS

\* Reduction to size_t, and the number of chunks.
LEMMA WrapFacts ==
  ASSUME NEW n \in Nat
  PROVE  /\ Wrap(n) \in 0 .. SizeMod - 1 /\ Wrap(n) <= n
         /\ n < SizeMod => Wrap(n) = n
<1> DEFINE q == n \div SizeMod
<1>0. SizeMod \in Nat \ {0}
  BY SpawnAssumption
<1>1. q \in Nat /\ n = SizeMod * q + Wrap(n) /\ Wrap(n) \in 0 .. SizeMod - 1
  BY <1>0 DEF Wrap
<1> HIDE DEF q
<1>2. SizeMod * q >= 0 /\ (q >= 1 => SizeMod * q >= SizeMod)
  BY <1>0, <1>1
<1>3. q = 0 => SizeMod * q = 0
  BY <1>0
<1> QED BY <1>0, <1>1, <1>2, <1>3

\* Division by the chunk size.
LEMMA DivFacts ==
  ASSUME NEW a \in Nat, NEW c \in Nat \ {0}
  PROVE  /\ a \div c \in Nat
         /\ (a \div c) * c <= a /\ a < (a \div c) * c + c
OBVIOUS

\* What scheduler_spawn_subtasks was called with.
Called ==
  /\ lo \in 0 .. MaxIndex /\ hi \in 0 .. MaxIndex
  /\ chunk \in 1 .. SizeMod - 1

\* The arguments of a call are words of size_t.
LEMMA CalledFacts ==
  ASSUME Called
  PROVE  /\ lo \in Nat /\ hi \in Nat /\ chunk \in Nat \ {0}
         /\ lo < SizeMod /\ hi < SizeMod
BY SpawnAssumption DEF Called

\* Chunks begin one after the other, a chunk size apart.
LEMMA BeginFacts ==
  ASSUME Called, NEW n \in Nat
  PROVE  /\ Begin(n) \in Nat /\ Begin(n) >= lo
         /\ Begin(n + 1) = Begin(n) + chunk
         /\ \A m \in 0 .. n - 1 : Begin(m) + chunk <= Begin(n)
<1>1. n * chunk \in Nat /\ (n + 1) * chunk = n * chunk + chunk
  BY CalledFacts
<1>2. ASSUME NEW m \in 0 .. n - 1
      PROVE  m * chunk + chunk <= n * chunk
  <2> DEFINE d == n - m - 1
  <2>1. d \in Nat /\ n = (m + 1) + d
    OBVIOUS
  <2> HIDE DEF d
  <2>2. n * chunk = (m + 1) * chunk + d * chunk
    BY <2>1, CalledFacts
  <2>3. d * chunk >= 0 /\ (m + 1) * chunk = m * chunk + chunk
    BY <2>1, CalledFacts
  <2> QED BY <2>1, <2>2, <2>3, CalledFacts
<1>3. \A m \in 0 .. n - 1 : m * chunk \in Nat
  BY CalledFacts
<1> QED BY <1>1, <1>2, <1>3, CalledFacts DEF Begin

\* The chunks of a call begin before its end.
LEMMA TotalFacts ==
  ASSUME Called
  PROVE  /\ Total \in Nat
         /\ Total > 0 => Begin(Total) < hi + chunk
<1>1. CASE lo >= hi
  BY <1>1, CalledFacts DEF Total
<1>2. CASE lo < hi
  <2> DEFINE a == Wrap((hi - lo) + chunk - 1)
  <2>1. a \in Nat /\ a <= (hi - lo) + chunk - 1
    <3>1. (hi - lo) + chunk - 1 \in Nat
      BY <1>2, CalledFacts
    <3> QED BY <3>1, WrapFacts, SpawnAssumption
  <2>2. Total = a \div chunk
    BY <1>2, CalledFacts DEF Total
  <2> HIDE DEF a
  <2>3. Total \in Nat /\ Total * chunk <= a
    BY <2>1, <2>2, CalledFacts, DivFacts
  <2>4. Total * chunk \in Nat
    BY <2>3, CalledFacts
  <2> QED BY <2>1, <2>3, <2>4, CalledFacts DEF Begin
<1> QED BY <1>1, <1>2, CalledFacts

\* A chunk of the call begins inside of its range, and ends there or where the
\* next one begins at the latest: nothing wraps before the end of the chunk.
LEMMA RangeFacts ==
  ASSUME Called, NEW n \in Nat, n < Total
  PROVE  /\ Start(n) = Begin(n) /\ lo <= Begin(n) /\ Begin(n) < hi
         /\ ChunkRange(n) \in Ranges /\ ChunkRange(n).lo = Begin(n)
         /\ ChunkRange(n).hi <= hi /\ ChunkRange(n).hi <= Begin(n + 1)
<1>1. Begin(n) \in Nat /\ lo <= Begin(n) /\ Begin(n) < hi
  <2>1. Begin(n) + chunk <= Begin(Total)
    BY TotalFacts, BeginFacts
  <2>2. Begin(Total) < hi + chunk /\ Begin(Total) \in Nat
    BY TotalFacts, BeginFacts
  <2>3. Begin(n) \in Nat /\ lo <= Begin(n)
    BY BeginFacts
  <2> QED BY <2>1, <2>2, <2>3, CalledFacts
<1>2. Start(n) = Begin(n)
  <2>1. Wrap(Begin(n)) = Begin(n)
    BY <1>1, WrapFacts, CalledFacts, SpawnAssumption
  <2> QED BY <2>1 DEF Start, Begin
<1>3. Begin(n) + chunk \in Nat /\ Begin(n + 1) = Begin(n) + chunk
  BY <1>1, BeginFacts, CalledFacts
<1>4. Wrap(Begin(n) + chunk) \in 0 .. SizeMod - 1 /\ Wrap(Begin(n) + chunk) <= Begin(n + 1)
  BY <1>3, WrapFacts
<1>5. ChunkRange(n) = [lo |-> Begin(n), hi |-> Least(Wrap(Begin(n) + chunk), hi)]
  BY <1>2 DEF ChunkRange
<1>6. Begin(n) \in 0 .. SizeMod - 1 /\ hi \in 0 .. SizeMod - 1
  BY <1>1, CalledFacts, SpawnAssumption
<1>7. /\ Least(Wrap(Begin(n) + chunk), hi) \in 0 .. SizeMod - 1
      /\ Least(Wrap(Begin(n) + chunk), hi) <= hi
      /\ Least(Wrap(Begin(n) + chunk), hi) <= Begin(n + 1)
  BY <1>1, <1>3, <1>4, <1>6, CalledFacts DEF Least
<1> QED BY <1>1, <1>2, <1>5, <1>6, <1>7 DEF Ranges

\* Different chunks have different ranges.
LEMMA RangesApart ==
  ASSUME Called, NEW m \in Nat, NEW n \in Nat, m < n, n < Total
  PROVE  ChunkRange(m) # ChunkRange(n)
<1>1. Begin(m) + chunk <= Begin(n) /\ Begin(m) \in Nat /\ Begin(n) \in Nat
  BY BeginFacts
<1>2. m < Total
  BY TotalFacts
<1>3. ChunkRange(m).lo = Begin(m) /\ ChunkRange(n).lo = Begin(n)
  BY <1>2, RangeFacts
<1> QED BY <1>1, <1>3, CalledFacts

-----------------------------------------------------------------------------
(* Steps.                                                                   *)

\* The chunks of the batch, as far as they were not pushed, are among those of the
\* range.
LEMMA PlaceFacts ==
  ASSUME CallInv
  PROVE  /\ Called /\ Total \in Nat /\ Len(batch) \in Nat
         /\ processed \in Nat /\ processed <= Total
         /\ First \in Nat /\ First <= processed
         /\ BatchSize \in Nat \ {0}
         /\ pc = "push" => First = processed /\ processed + Len(batch) <= Total
<1>1. Called
  BY DEF CallInv, TypeOK, Called
<1>2. Total \in Nat
  BY <1>1, TotalFacts
<1>3. Len(batch) \in Nat
  BY DEF CallInv, TypeOK
<1>4. processed \in Nat /\ processed <= Total /\ First \in Nat /\ First <= processed
  BY <1>2, <1>3 DEF CallInv, Places, First
<1> QED BY <1>1, <1>2, <1>3, <1>4, SpawnAssumption DEF CallInv, Places, First

\* What the entries of a batch are.
LEMMA BatchFacts ==
  ASSUME CallInv, pc \in {"push", "inline"}, NEW i \in 1 .. Len(batch)
  PROVE  /\ i \in Nat /\ First + i - 1 \in Nat /\ First + i - 1 < Total
         /\ batch[i] = ChunkRange(First + i - 1)
<1>1. First + Len(batch) <= Total
  BY PlaceFacts DEF CallInv, Places, First
<1>2. batch[i] = ChunkRange(First + i - 1)
  BY DEF CallInv, Places
<1> QED BY <1>1, <1>2, PlaceFacts

\* What a step has to show of the places, in terms of the chunks of the call.
Placed(first) ==
  /\ processed' \in 0 .. Total
  /\ pc' = "pass" => batch' = <<>>
  /\ pc' = "push" => /\ Len(batch') \in 1 .. BatchSize
                     /\ processed' + Len(batch') <= Total
  /\ pc' = "inline" => Len(batch') <= processed'
  /\ \A i \in 1 .. Len(batch') : batch'[i] = ChunkRange(first + i - 1)
  /\ \A r \in queued' : \E n \in 0 .. first - 1 : r = ChunkRange(n)

\* CallInv in the next state, given what is new in it: the place of the batch,
\* the queued children and their number.
LEMMA CallKept ==
  ASSUME CallInv, UNCHANGED args,
         pc' \in {"pass", "push", "inline", "returned"},
         batch' \in Seq(Ranges), hits' \in [Elements -> Nat],
         cont' \in {"parent", "child"}, dry' \in 0 .. MaxDry,
         NEW first \in Nat, first = First', Placed(first),
         IsFiniteSet(queued'),
         locks' = Cardinality(queued') + IF pc' = "push" THEN Len(batch') ELSE 0
  PROVE  CallInv'
<1>1. Total' = Total /\ lo' = lo /\ hi' = hi /\ chunk' = chunk
  BY DEF args, Total
<1>2. \A n : ChunkRange(n) =
        [lo |-> Wrap(lo' + n * chunk'),
         hi |-> Least(Wrap(Wrap(lo' + n * chunk') + chunk'), hi')]
  BY <1>1 DEF ChunkRange, Start
<1>3. Places'
  BY <1>1, <1>2 DEF Placed, Places, ChunkRange, Start
<1>4. first <= Total
  BY PlaceFacts DEF Placed, First
<1>5. queued' \subseteq Ranges
  <2> SUFFICES ASSUME NEW r \in queued' PROVE r \in Ranges
    OBVIOUS
  <2>1. PICK n \in 0 .. first - 1 : r = ChunkRange(n)
    BY DEF Placed
  <2>2. Total \in Nat
    BY PlaceFacts
  <2>3. n \in Nat /\ n < Total
    BY <1>4, <2>1, <2>2, Below
  <2>4. Called
    BY PlaceFacts
  <2> QED BY <2>1, <2>3, <2>4, RangeFacts
<1>6. locks' \in Nat
  BY FS_CardinalityType
<1>7. TypeOK'
  BY <1>1, <1>4, <1>5, <1>6 DEF CallInv, TypeOK, Placed
<1> QED BY <1>3, <1>7 DEF CallInv, Counted, LocksMatchChildren

\* Every child that is pushed counts: none has the range of another.
LEMMA BatchCount ==
  ASSUME CallInv, pc = "push", NEW p \in 0 .. Len(batch)
  PROVE  /\ IsFiniteSet(queued \cup {batch[i] : i \in 1 .. p})
         /\ Cardinality(queued \cup {batch[i] : i \in 1 .. p}) = Cardinality(queued) + p
<1> DEFINE S == {batch[i] : i \in 1 .. p}
           f == [i \in 1 .. p |-> batch[i]]
<1>0. p \in Nat /\ \A i \in 1 .. p : i \in 1 .. Len(batch)
  BY PlaceFacts
<1>1. ASSUME NEW i \in 1 .. p, NEW j \in 1 .. p, i < j
      PROVE  batch[i] # batch[j]
  <2>1. First + i - 1 \in Nat /\ First + j - 1 \in Nat /\ First + j - 1 < Total
    BY <1>0, BatchFacts
  <2>2. ChunkRange(First + i - 1) # ChunkRange(First + j - 1)
    BY <1>1, <2>1, PlaceFacts, RangesApart
  <2> QED BY <1>0, <2>2, BatchFacts
<1>2. \A i, j \in 1 .. p : f[i] = f[j] => i = j
  BY <1>1
<1>3. f \in Bijection(1 .. p, S)
  BY <1>2, Fun_IsBij
<1>4. IsFiniteSet(S) /\ Cardinality(S) = p
  <2>1. ExistsBijection(1 .. p, S)
    BY <1>3, Fun_ExistsBij
  <2> HIDE DEF S
  <2> QED BY <1>0, <2>1, FS_CountingElements, FS_Interval, FS_Bijection
<1>5. queued \cap S = {}
  <2> SUFFICES ASSUME NEW i \in 1 .. p, batch[i] \in queued PROVE FALSE
    OBVIOUS
  <2>1. PICK n \in 0 .. First - 1 : batch[i] = ChunkRange(n)
    BY DEF CallInv, Places
  <2>2. /\ n < First + i - 1 /\ First + i - 1 \in Nat /\ First + i - 1 < Total
        /\ batch[i] = ChunkRange(First + i - 1)
    BY <1>0, BatchFacts, PlaceFacts
  <2>3. n \in Nat
    BY PlaceFacts
  <2>4. ChunkRange(n) # ChunkRange(First + i - 1)
    BY <2>2, <2>3, PlaceFacts, RangesApart
  <2> QED BY <2>1, <2>2, <2>4
<1> HIDE DEF S, f
<1>6. IsFiniteSet(queued)
  BY DEF CallInv, Counted
<1>7. IsFiniteSet(queued \cup S) /\ Cardinality(queued \cup S) = Cardinality(queued) + p
  <2>1. /\ IsFiniteSet(queued \cup S)
        /\ Cardinality(queued \cup S)
             = Cardinality(queued) + Cardinality(S) - Cardinality(queued \cap S)
    BY <1>4, <1>6, FS_Union
  <2>2. Cardinality(queued \cap S) = 0 /\ Cardinality(queued) \in Nat /\ p \in Nat
    BY <1>0, <1>5, <1>6, FS_EmptySet, FS_CardinalityType
  <2> QED BY <1>4, <2>1, <2>2
<1> QED BY <1>7 DEF S

\* Executing a range leaves a number of executions at every element.
LEMMA ExecuteFacts ==
  ASSUME TypeOK, NEW r, Execute(r)
  PROVE  hits' \in [Elements -> Nat]
BY DEF TypeOK, Execute

\* CallInv holds initially.
LEMMA CallInitial == Init => CallInv
<1> SUFFICES ASSUME Init PROVE CallInv
  OBVIOUS
<1>1. chunk \in 1 .. SizeMod - 1
  BY SpawnAssumption DEF Init, ChunkSize
<1>2. Called
  BY <1>1 DEF Init, Called
<1>3. TypeOK
  BY <1>1, SpawnAssumption DEF Init, TypeOK
<1>4. Places
  BY <1>2, TotalFacts DEF Init, Places, First
<1>5. Counted
  BY FS_EmptySet DEF Init, Counted, LocksMatchChildren
<1> QED BY <1>3, <1>4, <1>5 DEF CallInv

\* A pass: some ranges, or none and the inline rest.
LEMMA AcquireStep ==
  ASSUME CallInv, NEW k \in 0 .. BatchSize, Acquire(k)
  PROVE  CallInv'
<1>0. /\ TypeOK /\ batch = <<>> /\ pc = "pass" /\ processed < Total
      /\ k <= Total - processed /\ dry' \in 0 .. MaxDry /\ UNCHANGED args
      /\ processed' = processed /\ queued' = queued
      /\ IsFiniteSet(queued) /\ locks = Cardinality(queued)
      /\ Cardinality(queued) \in Nat
  <2>1. /\ TypeOK /\ batch = <<>> /\ pc = "pass" /\ processed < Total /\ UNCHANGED args
        /\ processed' = processed /\ queued' = queued
    BY DEF Acquire, CallInv, Places
  <2>2. k <= Total - processed
    BY PlaceFacts, SpawnAssumption DEF Acquire, Least
  <2>3. dry' \in 0 .. MaxDry
    BY SpawnAssumption DEF Acquire, CallInv, TypeOK
  <2>4. IsFiniteSet(queued) /\ Cardinality(queued) \in Nat /\ locks \in Nat
    BY FS_CardinalityType DEF CallInv, TypeOK, Counted
  <2>5. locks = Cardinality(queued)
    BY <2>1, <2>4 DEF CallInv, Counted, LocksMatchChildren
  <2> QED BY <2>1, <2>2, <2>3, <2>4, <2>5
<1>1. First = processed /\ \A r \in queued : \E n \in 0 .. processed - 1 : r = ChunkRange(n)
  BY <1>0 DEF First, CallInv, Places
<1>2. CASE k = 0
  <2>1. /\ Execute([lo |-> Start(processed), hi |-> hi]) /\ cont' \in {cont, "child"}
        /\ pc' = "returned" /\ batch' = batch /\ locks' = locks
    BY <1>2 DEF Acquire, Inline
  <2>2. hits' \in [Elements -> Nat] /\ cont' \in {"parent", "child"}
    BY <1>0, <2>1, ExecuteFacts DEF TypeOK
  <2>3. Placed(processed) /\ First' = processed
    BY <1>0, <1>1, <2>1, PlaceFacts DEF Placed, First
  <2>4. batch' \in Seq(Ranges)
    BY <2>1, <1>0 DEF TypeOK
  <2>5. /\ IsFiniteSet(queued')
        /\ locks' = Cardinality(queued') + IF pc' = "push" THEN Len(batch') ELSE 0
    BY <1>0, <2>1
  <2> QED BY <1>0, <2>1, <2>2, <2>3, <2>4, <2>5, PlaceFacts, CallKept
<1>3. CASE k # 0
  <2>1. /\ batch' = [i \in 1 .. k |-> ChunkRange(processed + i - 1)]
        /\ locks' = locks + k /\ pc' = "push" /\ UNCHANGED <<hits, cont>>
    BY <1>3 DEF Acquire
  <2>2. \A i \in 1 .. k : ChunkRange(processed + i - 1) \in Ranges
    <3> SUFFICES ASSUME NEW i \in 1 .. k PROVE ChunkRange(processed + i - 1) \in Ranges
      OBVIOUS
    <3>1. processed + i - 1 \in Nat /\ processed + i - 1 < Total
      BY <1>0, PlaceFacts
    <3> QED BY <3>1, PlaceFacts, RangeFacts
  <2>3. batch' \in Seq(Ranges) /\ Len(batch') = k
    BY <2>1, <2>2
  <2>4. Placed(processed) /\ First' = processed
    BY <1>0, <1>1, <1>3, <2>1, <2>3, PlaceFacts DEF Placed, First
  <2>5. hits' \in [Elements -> Nat] /\ cont' \in {"parent", "child"}
    BY <1>0, <2>1 DEF TypeOK
  <2>6. /\ IsFiniteSet(queued')
        /\ locks' = Cardinality(queued') + IF pc' = "push" THEN Len(batch') ELSE 0
    BY <1>0, <2>1, <2>3
  <2> QED BY <1>0, <2>1, <2>3, <2>4, <2>5, <2>6, PlaceFacts, CallKept
<1> QED BY <1>2, <1>3

\* The first p children of a pass are pushed.
LEMMA PushedPlaces ==
  ASSUME CallInv, pc = "push", NEW p \in 0 .. Len(batch),
         queued' = queued \cup {batch[i] : i \in 1 .. p}
  PROVE  \A r \in queued' : \E n \in 0 .. (processed + p) - 1 : r = ChunkRange(n)
<1>1. ASSUME NEW i \in 1 .. p
      PROVE  \E n \in 0 .. (processed + p) - 1 : batch[i] = ChunkRange(n)
  <2>1. i \in 1 .. Len(batch) /\ processed + i - 1 \in 0 .. (processed + p) - 1
    BY PlaceFacts
  <2>2. batch[i] = ChunkRange(processed + i - 1)
    BY <2>1, BatchFacts, PlaceFacts
  <2> QED BY <2>1, <2>2
<1>2. ASSUME NEW r \in queued
      PROVE  \E n \in 0 .. (processed + p) - 1 : r = ChunkRange(n)
  <2>1. PICK n \in 0 .. First - 1 : r = ChunkRange(n)
    BY DEF CallInv, Places
  <2>2. n \in 0 .. (processed + p) - 1
    BY PlaceFacts
  <2> QED BY <2>1, <2>2
<1> QED BY <1>1, <1>2

\* The deque takes the batch.
LEMMA PushAllStep == ASSUME CallInv, PushAll PROVE CallInv'
<1> DEFINE p == Len(batch)
<1>1. /\ pc = "push" /\ pc' = "pass" /\ batch' = <<>>
      /\ queued' = queued \cup {batch[i] : i \in 1 .. p}
      /\ processed' = processed + Least(Total - processed, BatchSize)
      /\ UNCHANGED <<args, locks, hits, cont, dry>>
  BY DEF PushAll, CallInv, TypeOK
<1>2. /\ p \in Nat /\ p \in 1 .. BatchSize /\ p \in 0 .. Len(batch)
      /\ processed + p <= Total
  BY <1>1, PlaceFacts DEF CallInv, Places
<1>3. processed' \in Nat /\ processed' <= Total /\ processed + p <= processed'
  BY <1>1, <1>2, PlaceFacts DEF Least
<1>4. /\ IsFiniteSet(queued')
      /\ locks' = Cardinality(queued') + IF pc' = "push" THEN Len(batch') ELSE 0
  <2>1. IsFiniteSet(queued') /\ Cardinality(queued') = Cardinality(queued) + p
    BY <1>1, <1>2, BatchCount
  <2>2. locks = Cardinality(queued) + p
    BY <1>1 DEF CallInv, Counted, LocksMatchChildren
  <2>3. Cardinality(queued') \in Nat
    BY <2>1, FS_CardinalityType
  <2> QED BY <1>1, <2>1, <2>2, <2>3
<1>5. \A r \in queued' : \E n \in 0 .. (processed + p) - 1 : r = ChunkRange(n)
  BY <1>1, <1>2, PushedPlaces
<1>6. Placed(processed') /\ First' = processed'
  <2> HIDE DEF p
  <2>1. processed \in Nat
    BY PlaceFacts
  <2>2. \A n \in 0 .. (processed + p) - 1 : n \in 0 .. processed' - 1
    <3>1. processed + p \in Nat
      BY <1>2, <2>1
    <3> QED BY <1>3, <3>1, Below
  <2>3. \A r \in queued' : \E n \in 0 .. processed' - 1 : r = ChunkRange(n)
    BY <1>5, <2>2
  <2>4. processed' \in 0 .. Total
    BY <1>3, PlaceFacts
  <2>5. Len(batch') = 0
    BY <1>1
  <2>6. Placed(processed')
    BY <1>1, <2>3, <2>4, <2>5 DEF Placed
  <2> QED BY <1>1, <2>6 DEF First
<1>7. /\ batch' \in Seq(Ranges) /\ hits' \in [Elements -> Nat]
      /\ cont' \in {"parent", "child"} /\ dry' \in 0 .. MaxDry
  BY <1>1 DEF CallInv, TypeOK
<1> QED BY <1>1, <1>3, <1>4, <1>6, <1>7, CallKept

\* What is left of a batch of which the deque took p tasks.
LEMMA RestOfBatch ==
  ASSUME CallInv, NEW p \in Nat, p < Len(batch)
  PROVE  LET rest == SubSeq(batch, p + 1, Len(batch))
         IN  /\ rest \in Seq(Ranges) /\ Len(rest) = Len(batch) - p
             /\ \A i \in 1 .. Len(batch) - p : rest[i] = batch[p + i]
<1> PICK n, rest : n = Len(batch) /\ rest = SubSeq(batch, p + 1, Len(batch))
  OBVIOUS
<1>1. n \in Nat /\ p + 1 \in Int /\ p < n
  BY PlaceFacts
<1>2. \A i \in p + 1 .. n : batch[i] \in Ranges
  BY <1>1, ElementOfSeq DEF CallInv, TypeOK
<1>3. /\ rest \in Seq(Ranges)
      /\ Len(rest) = IF p + 1 <= n THEN n - (p + 1) + 1 ELSE 0
      /\ \A i \in 1 .. n - (p + 1) + 1 : rest[i] = batch[(p + 1) + i - 1]
  BY <1>1, <1>2, SubSeqProperties
<1>4. Len(rest) = n - p /\ \A i \in 1 .. n - p : rest[i] = batch[p + i]
  BY <1>1, <1>3
<1> QED BY <1>3, <1>4

\* The deque takes a part of the batch and the counter is rolled back.
LEMMA PushSomeStep ==
  ASSUME CallInv, NEW p \in 0 .. BatchSize, PushSome(p)
  PROVE  CallInv'
<1>1. /\ pc = "push" /\ pc' = "inline" /\ p < Len(batch) /\ p \in 0 .. Len(batch)
      /\ queued' = queued \cup {batch[i] : i \in 1 .. p}
      /\ batch' = SubSeq(batch, p + 1, Len(batch))
      /\ processed' = processed + Len(batch)
      /\ locks' = locks - (Len(batch) - p)
      /\ UNCHANGED <<args, hits, cont, dry>>
  BY PlaceFacts DEF PushSome, Rollback, Handled
<1>2. /\ batch' \in Seq(Ranges) /\ Len(batch') = Len(batch) - p
      /\ \A i \in 1 .. Len(batch) - p : batch'[i] = batch[p + i]
  BY <1>1, RestOfBatch
<1>3. /\ IsFiniteSet(queued') /\ locks' = Cardinality(queued')
  <2>1. /\ locks = Cardinality(queued) + Len(batch) /\ IsFiniteSet(queued)
    BY <1>1 DEF CallInv, Counted, LocksMatchChildren
  <2>2. IsFiniteSet(queued') /\ Cardinality(queued') = Cardinality(queued) + p
    BY <1>1, BatchCount
  <2> QED BY <1>1, <2>1, <2>2, PlaceFacts, FS_CardinalityType
<1>4. First' = processed + p
  BY <1>1, <1>2, PlaceFacts DEF First
<1>5. \A r \in queued' : \E n \in 0 .. (processed + p) - 1 : r = ChunkRange(n)
  BY <1>1, PushedPlaces
<1>6. \A i \in 1 .. Len(batch') : batch'[i] = ChunkRange(processed + p + i - 1)
  <2> SUFFICES ASSUME NEW i \in 1 .. Len(batch')
               PROVE  batch'[i] = ChunkRange(processed + p + i - 1)
    OBVIOUS
  <2>0. /\ Len(batch) \in Nat /\ processed \in Nat /\ First = processed
        /\ p \in Nat /\ p < Len(batch)
    BY <1>1, PlaceFacts
  <2>1. batch'[i] = batch[p + i] /\ p + i \in 1 .. Len(batch)
    <3>1. i \in 1 .. Len(batch) - p
      BY <1>2
    <3>2. p + i \in 1 .. Len(batch)
      BY <2>0, <3>1
    <3> QED BY <1>2, <3>1, <3>2
  <2>2. First + (p + i) - 1 = processed + p + i - 1
    BY <2>0, <2>1
  <2> QED BY <1>1, <2>1, <2>2, BatchFacts
<1>7. Placed(processed + p) /\ processed + p \in Nat
  <2>1. /\ processed' \in 0 .. Total /\ Len(batch') <= processed'
        /\ processed + p \in Nat
    BY <1>1, <1>2, PlaceFacts
  <2> QED BY <1>1, <1>5, <1>6, <2>1 DEF Placed
<1>8. hits' \in [Elements -> Nat] /\ cont' \in {"parent", "child"} /\ dry' \in 0 .. MaxDry
  BY <1>1 DEF CallInv, TypeOK
<1> QED BY <1>1, <1>2, <1>3, <1>4, <1>7, <1>8, CallKept

\* A step that neither pushes nor takes a child leaves the count as it is.
LEMMA CountKept ==
  ASSUME CallInv, queued' = queued, locks' = locks, pc # "push", pc' # "push"
  PROVE  /\ IsFiniteSet(queued')
         /\ locks' = Cardinality(queued') + IF pc' = "push" THEN Len(batch') ELSE 0
BY FS_CardinalityType DEF CallInv, Counted, LocksMatchChildren

\* A rejected child is executed by the caller.
LEMMA InlineRejectedStep == ASSUME CallInv, InlineRejected PROVE CallInv'
<1>1. /\ pc = "inline" /\ pc' = "inline" /\ batch # <<>> /\ batch' = Tail(batch)
      /\ Execute(Head(batch)) /\ cont' \in {cont, "child"}
      /\ UNCHANGED <<args, processed, queued, locks, dry>>
  BY DEF InlineRejected, Inline
<1>2. /\ batch' \in Seq(Ranges) /\ Len(batch') = Len(batch) - 1
      /\ \A i \in 1 .. Len(batch) - 1 : batch'[i] = batch[i + 1]
  BY <1>1, HeadTailProperties DEF CallInv, TypeOK
<1>3. First' = First + 1
  BY <1>1, <1>2, PlaceFacts DEF First
<1>4. \A i \in 1 .. Len(batch') : batch'[i] = ChunkRange((First + 1) + i - 1)
  <2> SUFFICES ASSUME NEW i \in 1 .. Len(batch')
               PROVE  batch'[i] = ChunkRange((First + 1) + i - 1)
    OBVIOUS
  <2>1. batch'[i] = batch[i + 1] /\ i + 1 \in 1 .. Len(batch)
    BY <1>1, <1>2, PlaceFacts
  <2>2. First + (i + 1) - 1 = (First + 1) + i - 1
    BY <1>1, <1>2, PlaceFacts
  <2> QED BY <1>1, <2>1, <2>2, BatchFacts
<1>5. \A r \in queued' : \E n \in 0 .. (First + 1) - 1 : r = ChunkRange(n)
  <2> SUFFICES ASSUME NEW r \in queued
               PROVE  \E n \in 0 .. (First + 1) - 1 : r = ChunkRange(n)
    BY <1>1
  <2>1. PICK n \in 0 .. First - 1 : r = ChunkRange(n)
    BY DEF CallInv, Places
  <2>2. First \in Nat /\ First + 1 \in Nat /\ First <= First + 1
    BY PlaceFacts
  <2>3. n \in 0 .. (First + 1) - 1
    BY <2>1, <2>2, Below
  <2> QED BY <2>1, <2>3
<1>6. Placed(First + 1) /\ First + 1 \in Nat
  <2>1. /\ processed' \in 0 .. Total /\ Len(batch') <= processed' /\ First + 1 \in Nat
    BY <1>1, <1>2, PlaceFacts DEF CallInv, Places
  <2> QED BY <1>1, <1>4, <1>5, <2>1 DEF Placed
<1>7. /\ hits' \in [Elements -> Nat] /\ cont' \in {"parent", "child"}
      /\ dry' \in 0 .. MaxDry
  BY <1>1, ExecuteFacts DEF CallInv, TypeOK
<1> QED BY <1>1, <1>2, <1>3, <1>6, <1>7, CountKept, CallKept

\* The last step of the call.
LEMMA ReturnStep ==
  ASSUME CallInv, InlineRest \/ AllPassesDone
  PROVE  CallInv'
<1>1. /\ pc \in {"inline", "pass"} /\ pc' = "returned" /\ batch = <<>>
      /\ UNCHANGED <<args, processed, batch, queued, locks, dry>>
      /\ \/ UNCHANGED <<hits, cont>>
         \/ /\ Execute([lo |-> Start(processed), hi |-> hi])
            /\ cont' \in {cont, "child"}
  BY DEF InlineRest, AllPassesDone, Inline, CallInv, Places
<1>2. First = processed /\ First' = processed
  BY <1>1, PlaceFacts DEF First
<1>3. Placed(processed)
  BY <1>1, <1>2, PlaceFacts DEF Placed, CallInv, Places
<1>4. /\ hits' \in [Elements -> Nat] /\ cont' \in {"parent", "child"}
      /\ dry' \in 0 .. MaxDry /\ batch' \in Seq(Ranges)
  BY <1>1, ExecuteFacts DEF CallInv, TypeOK
<1> QED BY <1>1, <1>2, <1>3, <1>4, PlaceFacts, CountKept, CallKept

\* A queued child runs on some worker.
LEMMA ChildStep == ASSUME CallInv, NEW r \in queued, ChildRuns(r) PROVE CallInv'
<1>1. /\ queued' = queued \ {r} /\ locks' = locks - 1 /\ Execute(r)
      /\ UNCHANGED <<args, pc, processed, batch, cont, dry>>
  BY DEF ChildRuns
<1>2. First' = First
  BY <1>1 DEF First
<1>3. Placed(First)
  BY <1>1 DEF CallInv, Places, Placed
<1>4. /\ hits' \in [Elements -> Nat] /\ cont' \in {"parent", "child"}
      /\ dry' \in 0 .. MaxDry /\ batch' \in Seq(Ranges)
      /\ pc' \in {"pass", "push", "inline", "returned"}
  BY <1>1, ExecuteFacts DEF CallInv, TypeOK
<1>5. /\ IsFiniteSet(queued') /\ Cardinality(queued') = Cardinality(queued) - 1
      /\ Cardinality(queued) \in Nat
  BY <1>1, FS_RemoveElement, FS_CardinalityType DEF CallInv, Counted
<1>6. locks' = Cardinality(queued') + IF pc' = "push" THEN Len(batch') ELSE 0
  <2>1. locks = Cardinality(queued) + IF pc = "push" THEN Len(batch) ELSE 0
    BY DEF CallInv, Counted, LocksMatchChildren
  <2> QED BY <1>1, <1>5, <2>1, PlaceFacts
<1> QED BY <1>1, <1>2, <1>3, <1>4, <1>5, <1>6, PlaceFacts, CallKept

\* Every step keeps CallInv.
LEMMA CallStep == CallInv /\ [Next]_vars => CallInv'
<1> SUFFICES ASSUME CallInv, [Next]_vars PROVE CallInv'
  OBVIOUS
<1>1. CASE Next
  BY <1>1, AcquireStep, PushAllStep, PushSomeStep, InlineRejectedStep, ReturnStep,
     ChildStep DEF Next, Call
<1>2. CASE UNCHANGED vars
  BY <1>2 DEF vars, args, CallInv, TypeOK, Places, First, Total, ChunkRange, Start,
     Counted, LocksMatchChildren
<1> QED BY <1>1, <1>2

-----------------------------------------------------------------------------
(* Where the elements are, in a call whose indices fit into size_t.         *)

\* Later chunks begin later.
LEMMA BeginOrder ==
  ASSUME Called, NEW m \in Nat, NEW n \in Nat, m <= n
  PROVE  Begin(m) <= Begin(n)
<1>1. m = n \/ m \in 0 .. n - 1
  OBVIOUS
<1>2. Begin(m) \in Nat /\ Begin(n) \in Nat
  BY BeginFacts
<1>3. m \in 0 .. n - 1 => Begin(m) + chunk <= Begin(n)
  BY BeginFacts
<1> QED BY <1>1, <1>2, <1>3, CalledFacts

\* The chunks cover the range of the call, and nothing wraps up to the end of
\* the last one.
LEMMA FitFacts ==
  ASSUME Called, Fits
  PROVE  /\ hi <= Begin(Total)
         /\ \A n \in Nat : n <= Total => Start(n) = Begin(n)
         /\ \A n \in Nat : n < Total => ChunkRange(n).hi = Least(Begin(n + 1), hi)
<1>0. Total \in Nat /\ SizeMod \in Nat
  BY TotalFacts, SpawnAssumption
<1>1. hi <= Begin(Total)
  <2>1. CASE lo >= hi
    BY <1>0, <2>1, BeginFacts, CalledFacts
  <2>2. CASE lo < hi
    <3> DEFINE a == (hi - lo) + chunk - 1
    <3>1. a \in Nat /\ a < SizeMod
      BY <1>0, <2>2, CalledFacts DEF Fits
    <3>2. Total = a \div chunk
      <4>1. Wrap(a) = a
        BY <3>1, WrapFacts
      <4> QED BY <2>2, <4>1, CalledFacts DEF Total
    <3>3. a < Total * chunk + chunk /\ Total * chunk \in Nat
      <4> HIDE DEF a
      <4> QED BY <1>0, <3>1, <3>2, CalledFacts, DivFacts
    <3> QED BY <2>2, <3>3, CalledFacts DEF Begin
  <2> QED BY <2>1, <2>2, CalledFacts
<1>2. ASSUME NEW n \in Nat, n <= Total
      PROVE  Start(n) = Begin(n)
  <2>1. Begin(n) \in Nat /\ Begin(Total) \in Nat /\ Begin(n) <= Begin(Total)
    BY <1>0, <1>2, BeginFacts, BeginOrder
  <2>2. Begin(n) < SizeMod
    <3>1. CASE Total = 0
      BY <1>2, <3>1, CalledFacts DEF Begin
    <3>2. CASE Total > 0
      BY <1>0, <2>1, <3>2, TotalFacts, CalledFacts DEF Fits
    <3> QED BY <1>0, <3>1, <3>2
  <2>3. Wrap(Begin(n)) = Begin(n)
    BY <2>1, <2>2, WrapFacts
  <2> QED BY <2>3 DEF Start, Begin
<1>3. ASSUME NEW n \in Nat, n < Total
      PROVE  ChunkRange(n).hi = Least(Begin(n + 1), hi)
  <2>1. Begin(n) \in Nat /\ Begin(n) < hi /\ Start(n) = Begin(n)
    BY <1>3, RangeFacts, BeginFacts
  <2>2. Begin(n) + chunk \in Nat /\ Begin(n) + chunk < SizeMod
    BY <1>0, <2>1, CalledFacts DEF Fits
  <2>3. Wrap(Begin(n) + chunk) = Begin(n + 1)
    BY <2>2, WrapFacts, BeginFacts
  <2> QED BY <2>1, <2>3 DEF ChunkRange
<1> QED BY <1>1, <1>2, <1>3

\* Every element of the call belongs to a chunk.
LEMMA ChunkOf ==
  ASSUME Called, Fits, NEW e \in Asked
  PROVE  \E n \in Nat : n < Total /\ e \in Within(ChunkRange(n))
                       /\ Begin(n) <= e /\ e < Begin(n + 1)
<1> DEFINE n == (e - lo) \div chunk
<1>1. e \in Elements /\ e \in Nat /\ lo <= e /\ e < hi /\ e - lo \in Nat
  BY CalledFacts DEF Asked, Elements
<1>2. n \in Nat /\ n * chunk <= e - lo /\ e - lo < n * chunk + chunk
  BY <1>1, CalledFacts, DivFacts
<1> HIDE DEF n
<1>3. n * chunk \in Nat
  BY <1>2, CalledFacts
<1>4. Begin(n) <= e /\ e < Begin(n) + chunk
  BY <1>1, <1>2, <1>3, CalledFacts DEF Begin
<1>5. e < Begin(n + 1) /\ Begin(n) \in Nat /\ Begin(n + 1) \in Nat
  BY <1>2, <1>4, BeginFacts
<1>6. n < Total
  <2> SUFFICES ASSUME Total <= n PROVE FALSE
    BY <1>2, TotalFacts
  <2>1. Begin(Total) <= Begin(n) /\ Begin(Total) \in Nat
    BY <1>2, BeginOrder, BeginFacts, TotalFacts
  <2> QED BY <1>1, <1>4, <1>5, <2>1, FitFacts, CalledFacts
<1>7. ChunkRange(n).lo = Begin(n) /\ ChunkRange(n).hi = Least(Begin(n + 1), hi)
  BY <1>2, <1>6, RangeFacts, FitFacts
<1>8. e < ChunkRange(n).hi
  BY <1>1, <1>5, <1>7, CalledFacts DEF Least
<1> QED BY <1>1, <1>2, <1>4, <1>5, <1>6, <1>7, <1>8 DEF Within

\* Chunks do not overlap.
LEMMA ChunkElements ==
  ASSUME Called, NEW n \in Nat, n < Total, NEW e \in Within(ChunkRange(n))
  PROVE  e \in Asked /\ e \in Nat /\ Begin(n) <= e /\ e < Begin(n + 1)
<1>1. e \in Elements /\ e \in Nat /\ ChunkRange(n).lo <= e /\ e < ChunkRange(n).hi
  BY DEF Within, Elements
<1>2. /\ ChunkRange(n).lo = Begin(n) /\ ChunkRange(n).hi <= hi
      /\ ChunkRange(n).hi <= Begin(n + 1) /\ lo <= Begin(n) /\ ChunkRange(n).hi \in Nat
  BY RangeFacts, SpawnAssumption DEF Ranges
<1>3. Begin(n) \in Nat /\ Begin(n + 1) \in Nat
  BY BeginFacts
<1> QED BY <1>1, <1>2, <1>3, CalledFacts DEF Asked

\* What is queued lies before what the call has still to handle.
LEMMA QueuedElements ==
  ASSUME CallInv, NEW r \in queued, NEW e \in Within(r)
  PROVE  e \in Asked /\ e \in Nat /\ e < Begin(First)
<1>1. PICK n \in 0 .. First - 1 : r = ChunkRange(n)
  BY DEF CallInv, Places
<1>2. First \in Nat /\ Total \in Nat /\ First <= Total /\ Called
  BY PlaceFacts
<1>3. n \in Nat /\ n < First /\ n < Total /\ n + 1 <= First
  BY <1>1, <1>2, Below
<1>4. e \in Asked /\ e \in Nat /\ e < Begin(n + 1)
  BY <1>1, <1>2, <1>3, ChunkElements
<1>5. Begin(n + 1) <= Begin(First) /\ Begin(n + 1) \in Nat /\ Begin(First) \in Nat
  BY <1>2, <1>3, BeginOrder, BeginFacts
<1> QED BY <1>4, <1>5

\* Two queued ranges have no element in common.
LEMMA QueuedApart ==
  ASSUME CallInv, NEW q \in queued, NEW r \in queued, q # r
  PROVE  Within(q) \cap Within(r) = {}
<1>1. PICK m \in 0 .. First - 1 : q = ChunkRange(m)
  BY DEF CallInv, Places
<1>2. PICK n \in 0 .. First - 1 : r = ChunkRange(n)
  BY DEF CallInv, Places
<1>3. First \in Nat /\ Total \in Nat /\ First <= Total /\ Called
  BY PlaceFacts
<1>4. m \in Nat /\ m < Total /\ n \in Nat /\ n < Total /\ m # n
  BY <1>1, <1>2, <1>3, Below
<1> SUFFICES ASSUME NEW e \in Within(q), e \in Within(r) PROVE FALSE
  OBVIOUS
<1>5. e \in Nat /\ Begin(m) <= e /\ e < Begin(m + 1) /\ Begin(n) <= e /\ e < Begin(n + 1)
  BY <1>1, <1>2, <1>3, <1>4, ChunkElements
<1>6. /\ Begin(m) \in Nat /\ Begin(m + 1) \in Nat
      /\ Begin(n) \in Nat /\ Begin(n + 1) \in Nat
  BY <1>3, <1>4, BeginFacts
<1>7. CASE m < n
  <2>1. Begin(m + 1) <= Begin(n)
    BY <1>3, <1>4, <1>7, BeginOrder
  <2> QED BY <1>5, <1>6, <2>1
<1>8. CASE n < m
  <2>1. Begin(n + 1) <= Begin(m)
    BY <1>3, <1>4, <1>8, BeginOrder
  <2> QED BY <1>5, <1>6, <2>1
<1> QED BY <1>4, <1>7, <1>8

-----------------------------------------------------------------------------
(* Steps of a call that fits.                                               *)

\* Intact and Kept after a step, in terms of the chunks of the call.
Holds(first) ==
  /\ pc' # "returned" => \A e \in Elements : e >= Begin(first) => hits'[e] = 0
  /\ \A r \in queued' : \A e \in Within(r) : hits'[e] = 0
  /\ \A e \in Elements : hits'[e] <= IF e \in Asked THEN 1 ELSE 0
  /\ dry' = 0 =>
       /\ pc' = "push" => Len(batch') = Least(Total - processed', BatchSize)
       /\ \A e \in Asked : \/ hits'[e] = 1
                           \/ \E r \in queued' : e \in Within(r)
                           \/ pc' # "returned" /\ e >= Begin(first)

\* FitInv in the next state, given where each element of the call is in it.
LEMMA FitKept ==
  ASSUME FitInv, CallInv', UNCHANGED args, NEW first, first = First', Holds(first)
  PROVE  FitInv'
<1>1. /\ Total' = Total /\ lo' = lo /\ hi' = hi /\ chunk' = chunk
      /\ \A n : Begin(n) = lo' + n * chunk'
      /\ Asked = {e \in Elements : lo' <= e /\ e < hi'}
  BY DEF args, Total, Begin, Asked
<1>2. Fits'
  BY <1>1 DEF FitInv, Fits
<1>3. Intact'
  BY <1>1 DEF Holds, Intact, NothingTwice, Begin, Asked
<1>4. Kept'
  BY <1>1 DEF Holds, Kept, Begin, Asked
<1> QED BY <1>2, <1>3, <1>4 DEF FitInv

\* An execution of elements that were not executed before.
LEMMA Executed ==
  ASSUME TypeOK, NothingTwice, NEW r, Execute(r),
         \A e \in Within(r) : e \in Asked /\ hits[e] = 0
  PROVE  /\ \A e \in Elements : hits'[e] = IF e \in Within(r) THEN 1 ELSE hits[e]
         /\ \A e \in Elements : hits'[e] <= IF e \in Asked THEN 1 ELSE 0
<1>1. ASSUME NEW e \in Elements
      PROVE  hits'[e] = IF e \in Within(r) THEN 1 ELSE hits[e]
  <2>1. hits'[e] = IF e \in Within(r) THEN hits[e] + 1 ELSE hits[e]
    BY DEF Execute, Within
  <2> QED BY <2>1
<1>2. ASSUME NEW e \in Elements
      PROVE  hits'[e] <= IF e \in Asked THEN 1 ELSE 0
  BY <1>1, <1>2 DEF NothingTwice
<1> QED BY <1>1, <1>2

\* Nothing was executed of what the call has still to handle.
LEMMA FirstFacts ==
  ASSUME FitInv
  PROVE  /\ Called /\ First \in Nat /\ First <= Total /\ Total \in Nat
         /\ Begin(First) \in Nat /\ lo <= Begin(First) /\ Start(First) = Begin(First)
         /\ TypeOK /\ NothingTwice
<1>1. Called /\ First \in Nat /\ First <= Total /\ Total \in Nat
  BY PlaceFacts DEF FitInv
<1>2. Begin(First) \in Nat /\ lo <= Begin(First)
  BY <1>1, BeginFacts, CalledFacts
<1>3. Start(First) = Begin(First)
  BY <1>1, FitFacts DEF FitInv
<1> QED BY <1>1, <1>2, <1>3 DEF FitInv, CallInv, Intact

\* The inline execution of the rest of the call.
LEMMA RestExecuted ==
  ASSUME FitInv, pc # "returned", NEW r, r.lo = Begin(First), r.hi = hi, Execute(r),
         queued' = queued, pc' = "returned", dry' = 0 => dry = 0, UNCHANGED args
  PROVE  Holds(First)
<1>1. \A e \in Elements : e \in Within(r) <=> Begin(First) <= e /\ e < hi
  BY DEF Within
<1>2. \A e \in Within(r) : e \in Elements /\ e \in Asked /\ hits[e] = 0
  BY <1>1, FirstFacts, CalledFacts DEF FitInv, Intact, Asked, Elements, Within
<1>3. /\ \A e \in Elements : hits'[e] = IF e \in Within(r) THEN 1 ELSE hits[e]
      /\ \A e \in Elements : hits'[e] <= IF e \in Asked THEN 1 ELSE 0
  BY <1>2, FirstFacts, Executed
<1>4. ASSUME NEW q \in queued, NEW e \in Within(q)
      PROVE  hits'[e] = 0
  <2>1. e \in Nat /\ e < Begin(First) /\ e \in Elements /\ hits[e] = 0
    BY QueuedElements DEF FitInv, Intact, Within
  <2> QED BY <1>1, <1>3, <2>1, FirstFacts
<1>5. ASSUME dry = 0, NEW e \in Asked
      PROVE  hits'[e] = 1 \/ \E q \in queued : e \in Within(q)
  <2>1. e \in Elements /\ e < hi
    BY DEF Asked
  <2>2. hits[e] = 1 \/ (\E q \in queued : e \in Within(q)) \/ e >= Begin(First)
    BY <1>5 DEF FitInv, Kept
  <2> QED BY <1>1, <1>3, <2>1, <2>2
<1> QED BY <1>3, <1>4, <1>5 DEF Holds

\* A pass that found tasks, and any push: what moves from the call to the deque
\* is what is no longer the call's to handle.
LEMMA Pushed ==
  ASSUME FitInv, pc = "push", pc' # "push", NEW p \in 0 .. Len(batch),
         queued' = queued \cup {batch[i] : i \in 1 .. p},
         NEW first \in Nat, First + p <= first,
         dry' = 0 => first = First + p,
         UNCHANGED <<args, hits, dry>>, pc' # "returned"
  PROVE  Holds(first)
<1>1. p \in Nat /\ First + p \in Nat /\ First + p <= Total
  BY PlaceFacts DEF FitInv
<1>2. Begin(First) <= Begin(first) /\ Begin(first) \in Nat
  <2>1. First <= first
    BY <1>1, FirstFacts
  <2> QED BY <2>1, FirstFacts, BeginOrder, BeginFacts
<1>3. ASSUME NEW e \in Elements, e >= Begin(first)
      PROVE  hits'[e] = 0
  <2>1. e \in Int
    BY DEF Elements
  <2>2. e >= Begin(First)
    BY <1>2, <1>3, <2>1, FirstFacts
  <2> QED BY <2>2 DEF FitInv, Intact
<1>4. ASSUME NEW i \in 1 .. p
      PROVE  /\ i \in 1 .. Len(batch) /\ First + i - 1 \in Nat /\ First + i - 1 < Total
             /\ batch[i] = ChunkRange(First + i - 1)
  BY <1>1, PlaceFacts, BatchFacts DEF FitInv
<1>5. ASSUME NEW i \in 1 .. p, NEW e \in Within(batch[i])
      PROVE  hits'[e] = 0
  <2>1. e \in Elements /\ e \in Nat /\ Begin(First + i - 1) <= e
    BY <1>4, FirstFacts, ChunkElements DEF Within
  <2>2. Begin(First) <= Begin(First + i - 1) /\ Begin(First + i - 1) \in Nat
    <3>1. First + i - 1 \in Nat /\ First <= First + i - 1
      BY <1>4, FirstFacts
    <3> QED BY <3>1, FirstFacts, BeginOrder, BeginFacts
  <2>3. Begin(First) <= e
    BY <2>1, <2>2, FirstFacts
  <2> QED BY <2>1, <2>3 DEF FitInv, Intact
<1>6. ASSUME NEW r \in queued', NEW e \in Within(r)
      PROVE  hits'[e] = 0
  BY <1>5, <1>6 DEF FitInv, Intact
<1>7. ASSUME dry' = 0, NEW e \in Asked, e >= Begin(First), e < Begin(first)
      PROVE  \E r \in queued' : e \in Within(r)
  <2>1. PICK n \in Nat : /\ n < Total /\ e \in Within(ChunkRange(n))
                         /\ Begin(n) <= e /\ e < Begin(n + 1)
    BY FirstFacts, ChunkOf DEF FitInv
  <2>2. e \in Int /\ Begin(n) \in Nat /\ Begin(n + 1) \in Nat
    <3>1. Called
      BY FirstFacts
    <3>2. e \in Int
      BY DEF Asked, Elements
    <3> QED BY <2>1, <3>1, <3>2, BeginFacts, CalledFacts
  <2>3. First <= n
    <3> SUFFICES ASSUME n + 1 <= First PROVE FALSE
      BY FirstFacts
    <3>1. Begin(n + 1) <= Begin(First)
      BY FirstFacts, BeginOrder
    <3> QED BY <1>7, <2>1, <2>2, <3>1, FirstFacts
  <2>4. n < first
    <3> SUFFICES ASSUME first <= n PROVE FALSE
      OBVIOUS
    <3>1. Begin(first) <= Begin(n)
      BY FirstFacts, BeginOrder
    <3> QED BY <1>2, <1>7, <2>1, <2>2, <3>1
  <2> DEFINE i == n - First + 1
  <2>5. i \in 1 .. p /\ First + i - 1 = n
    BY <1>1, <1>7, <2>3, <2>4, FirstFacts
  <2>6. batch[i] = ChunkRange(n)
    <3> HIDE DEF i
    <3> QED BY <1>4, <2>5
  <2> HIDE DEF i
  <2> QED BY <2>1, <2>5, <2>6
<1>8. ASSUME dry' = 0, NEW e \in Asked
      PROVE  \/ hits'[e] = 1
             \/ \E r \in queued' : e \in Within(r)
             \/ e >= Begin(first)
  <2>1. hits[e] = 1 \/ (\E r \in queued : e \in Within(r)) \/ e >= Begin(First)
    BY <1>8 DEF FitInv, Kept
  <2>2. e >= Begin(first) \/ e < Begin(first)
    BY <1>2 DEF Asked, Elements
  <2> QED BY <1>7, <1>8, <2>1, <2>2
<1> QED BY <1>3, <1>6, <1>8 DEF Holds, FitInv, Intact, NothingTwice

\* Steps that give nothing to task_fn and leave the deque alone.
LEMMA Unmoved ==
  ASSUME FitInv, pc # "returned", UNCHANGED <<args, hits, queued>>, First' = First,
         dry' = 0 =>
           /\ dry = 0
           /\ pc' = "push" => Len(batch') = Least(Total - processed', BatchSize)
           /\ pc' = "returned" => Begin(First) >= hi
  PROVE  Holds(First)
<1>1. ASSUME dry' = 0, NEW e \in Asked
      PROVE  \/ hits'[e] = 1
             \/ \E r \in queued' : e \in Within(r)
             \/ pc' # "returned" /\ e >= Begin(First)
  <2>1. e \in Int /\ e < hi
    BY DEF Asked, Elements
  <2>2. pc' = "returned" => ~(e >= Begin(First))
    BY <1>1, <2>1, FirstFacts, CalledFacts
  <2> QED BY <1>1, <2>2 DEF FitInv, Kept
<1> QED BY <1>1 DEF Holds, FitInv, Intact, NothingTwice

\* FitInv holds initially.
LEMMA FitInitial == Init /\ Fits => FitInv
<1> SUFFICES ASSUME Init, Fits PROVE FitInv
  OBVIOUS
<1>1. CallInv
  BY CallInitial
<1>2. Intact
  BY DEF Init, Intact, NothingTwice
<1>3. First = 0 /\ Begin(0) = lo
  BY <1>1, PlaceFacts, CalledFacts DEF Init, First, Begin
<1>4. Kept
  BY <1>3 DEF Init, Kept, Asked
<1> QED BY <1>1, <1>2, <1>4 DEF FitInv

\* A batch is allocated: no element moves.
LEMMA FitAcquire ==
  ASSUME FitInv, NEW k \in 0 .. BatchSize, Acquire(k), CallInv'
  PROVE  FitInv'
<1> DEFINE wanted == Least(Total - processed, BatchSize)
<1>1. /\ pc = "pass" /\ processed < Total /\ UNCHANGED <<args, processed, queued>>
      /\ k \in 0 .. wanted
      /\ IF k < wanted THEN dry' = dry + 1 ELSE dry' = dry
  BY DEF Acquire
<1>2. First = processed
  BY <1>1 DEF First
<1>3. dry' = 0 => dry = 0 /\ k = wanted
  <2>1. wanted \in Nat /\ dry \in Nat
    BY <1>1, PlaceFacts, SpawnAssumption DEF FitInv, CallInv, TypeOK, Least
  <2> HIDE DEF wanted
  <2> QED BY <1>1, <2>1
<1>4. CASE k = 0
  <2>1. /\ Execute([lo |-> Start(processed), hi |-> hi]) /\ pc' = "returned"
        /\ batch' = batch
    BY <1>4 DEF Acquire, Inline
  <2>2. Holds(First)
    <3> DEFINE r == [lo |-> Start(processed), hi |-> hi]
    <3>1. r.lo = Begin(First) /\ r.hi = hi
      BY <1>2, FirstFacts
    <3>2. Execute(r)
      BY <2>1
    <3> HIDE DEF r
    <3> QED BY <1>1, <1>3, <2>1, <3>1, <3>2, RestExecuted
  <2>3. First' = First
    BY <1>1, <1>2, <2>1 DEF First
  <2> QED BY <1>1, <2>2, <2>3, FitKept
<1>5. CASE k # 0
  <2>1. /\ batch' = [i \in 1 .. k |-> ChunkRange(processed + i - 1)]
        /\ pc' = "push" /\ UNCHANGED <<hits, cont>>
    BY <1>5 DEF Acquire
  <2>2. Len(batch') = k
    BY <2>1
  <2>3. First' = First
    BY <1>1, <1>2, <2>1 DEF First
  <2>4. Holds(First)
    BY <1>1, <1>3, <2>1, <2>2, <2>3, Unmoved
  <2> QED BY <1>1, <2>3, <2>4, FitKept
<1> QED BY <1>4, <1>5

\* Elements move from the batch to the queue, or stay to be executed inline.
LEMMA FitPush ==
  ASSUME FitInv, PushAll \/ \E p \in 0 .. BatchSize : PushSome(p), CallInv'
  PROVE  FitInv'
<1>1. pc = "push" /\ First = processed /\ Len(batch) \in 1 .. BatchSize
      /\ processed + Len(batch) <= Total
  BY PlaceFacts DEF PushAll, PushSome, FitInv, CallInv, Places
<1>2. CASE PushAll
  <2>1. /\ pc' = "pass"
        /\ queued' = queued \cup {batch[i] : i \in 1 .. Len(batch)}
        /\ processed' = processed + Least(Total - processed, BatchSize)
        /\ UNCHANGED <<args, locks, hits, cont, dry>>
    BY <1>2 DEF PushAll, FitInv, CallInv, TypeOK
  <2>2. processed' \in Nat /\ First + Len(batch) <= processed'
    BY <1>1, <2>1, PlaceFacts DEF FitInv, Least
  <2>3. dry' = 0 => processed' = First + Len(batch)
    BY <1>1, <2>1 DEF FitInv, Kept
  <2>4. Len(batch) \in 0 .. Len(batch)
    BY PlaceFacts DEF FitInv
  <2>5. Holds(processed')
    BY <1>1, <2>1, <2>2, <2>3, <2>4, Pushed
  <2>6. First' = processed'
    BY <2>1 DEF First
  <2> QED BY <2>1, <2>5, <2>6, FitKept
<1>3. ASSUME NEW p \in 0 .. BatchSize, PushSome(p)
      PROVE  FitInv'
  <2>1. /\ pc' = "inline" /\ p < Len(batch) /\ p \in 0 .. Len(batch)
        /\ queued' = queued \cup {batch[i] : i \in 1 .. p}
        /\ batch' = SubSeq(batch, p + 1, Len(batch))
        /\ processed' = processed + Len(batch)
        /\ UNCHANGED <<args, hits, cont, dry>>
    BY <1>3, PlaceFacts DEF PushSome, Handled, FitInv
  <2>2. Len(batch') = Len(batch) - p
    BY <2>1, RestOfBatch DEF FitInv
  <2>3. First' = First + p /\ First + p \in Nat
    <3>1. First' = processed' - Len(batch')
      BY <2>1 DEF First
    <3>2. processed \in Nat /\ Len(batch) \in Nat /\ p \in Nat /\ First = processed
      BY <1>1, PlaceFacts DEF FitInv
    <3> HIDE DEF First
    <3> QED BY <2>1, <2>2, <3>1, <3>2
  <2>4. Holds(First + p)
    BY <1>1, <2>1, <2>3, Pushed
  <2> QED BY <2>1, <2>3, <2>4, FitKept
<1> QED BY <1>2, <1>3

\* The elements of one rejected child are executed.
LEMMA FitInlineRejected == ASSUME FitInv, InlineRejected, CallInv' PROVE FitInv'
<1> DEFINE r == Head(batch)
<1>1. /\ pc = "inline" /\ pc' = "inline" /\ batch # <<>> /\ batch' = Tail(batch)
      /\ Execute(r) /\ UNCHANGED <<args, processed, queued, locks, dry>>
  BY DEF InlineRejected, Inline
<1>2. Len(batch') = Len(batch) - 1 /\ Len(batch) >= 1 /\ r = batch[1]
  BY <1>1, HeadTailProperties DEF FitInv, CallInv, TypeOK
<1>3. r = ChunkRange(First) /\ First < Total
  <2>1. 1 \in 1 .. Len(batch) /\ First + 1 - 1 = First
    BY <1>2, PlaceFacts DEF FitInv
  <2> QED BY <1>1, <1>2, <2>1, BatchFacts DEF FitInv
<1> HIDE DEF r
<1>4. First' = First + 1
  BY <1>1, <1>2, PlaceFacts DEF First, FitInv
<1>5. ASSUME NEW e \in Within(r)
      PROVE  /\ e \in Elements /\ e \in Asked /\ e \in Nat /\ hits[e] = 0
             /\ Begin(First) <= e /\ e < Begin(First + 1)
  <2>1. e \in Elements /\ e \in Asked /\ e \in Nat /\ Begin(First) <= e /\ e < Begin(First + 1)
    BY <1>3, FirstFacts, ChunkElements DEF Within
  <2> QED BY <1>1, <2>1, FirstFacts DEF FitInv, Intact
<1>6. /\ \A e \in Elements : hits'[e] = IF e \in Within(r) THEN 1 ELSE hits[e]
      /\ \A e \in Elements : hits'[e] <= IF e \in Asked THEN 1 ELSE 0
  BY <1>1, <1>5, FirstFacts, Executed
<1>7. Begin(First + 1) = Begin(First) + chunk /\ Begin(First + 1) \in Nat
  <2>1. Called /\ First \in Nat /\ Begin(First) \in Nat
    BY FirstFacts
  <2> QED BY <2>1, BeginFacts, CalledFacts
<1>8. ASSUME NEW e \in Elements, e >= Begin(First + 1)
      PROVE  hits'[e] = 0
  <2>1. e \in Int
    BY DEF Elements
  <2>2. e \notin Within(r) /\ e >= Begin(First)
    BY <1>5, <1>7, <1>8, <2>1, FirstFacts, CalledFacts
  <2> QED BY <1>1, <1>6, <2>2 DEF FitInv, Intact
<1>9. ASSUME NEW q \in queued, NEW e \in Within(q)
      PROVE  hits'[e] = 0
  <2>1. e \in Nat /\ e < Begin(First) /\ e \in Elements /\ hits[e] = 0
    BY QueuedElements DEF FitInv, Intact, Within
  <2>2. e \notin Within(r)
    BY <1>5, <2>1, FirstFacts
  <2> QED BY <1>6, <2>1, <2>2
<1>10. ASSUME dry = 0, NEW e \in Asked
       PROVE  \/ hits'[e] = 1
              \/ \E q \in queued : e \in Within(q)
              \/ e >= Begin(First + 1)
  <2>1. e \in Elements /\ e \in Int
    BY DEF Asked, Elements
  <2>2. hits[e] = 1 \/ (\E q \in queued : e \in Within(q)) \/ e >= Begin(First)
    BY <1>10 DEF FitInv, Kept
  <2>3. CASE e >= Begin(First) /\ e < Begin(First + 1)
    <3>1. PICK n \in Nat : /\ n < Total /\ e \in Within(ChunkRange(n))
                           /\ Begin(n) <= e /\ e < Begin(n + 1)
      BY FirstFacts, ChunkOf DEF FitInv
    <3>2. Begin(n) \in Nat /\ Begin(n + 1) \in Nat
      BY <3>1, FirstFacts, BeginFacts, CalledFacts
    <3>3. First <= n
      <4> SUFFICES ASSUME n + 1 <= First PROVE FALSE
        BY <3>1, FirstFacts
      <4>1. Begin(n + 1) <= Begin(First)
        BY <3>1, FirstFacts, BeginOrder
      <4> QED BY <2>1, <2>3, <3>1, <3>2, <4>1, FirstFacts
    <3>4. n <= First
      <4> SUFFICES ASSUME First + 1 <= n PROVE FALSE
        BY <3>1, FirstFacts
      <4>1. Begin(First + 1) <= Begin(n)
        BY <3>1, FirstFacts, BeginOrder
      <4> QED BY <1>7, <2>1, <2>3, <3>1, <3>2, <4>1
    <3>5. n = First
      BY <3>1, <3>3, <3>4, FirstFacts
    <3> QED BY <1>3, <1>6, <2>1, <3>1, <3>5
  <2>4. e >= Begin(First) => e < Begin(First + 1) \/ e >= Begin(First + 1)
    BY <1>7, <2>1
  <2> QED BY <1>6, <2>1, <2>2, <2>3, <2>4
<1>11. Holds(First + 1)
  BY <1>1, <1>6, <1>8, <1>9, <1>10 DEF Holds
<1> QED BY <1>1, <1>4, <1>11, FitKept

\* The rest is executed, or there is none.
LEMMA FitReturn ==
  ASSUME FitInv, InlineRest \/ AllPassesDone, CallInv'
  PROVE  FitInv'
<1>1. /\ pc \in {"inline", "pass"} /\ pc' = "returned" /\ batch = <<>>
      /\ UNCHANGED <<args, processed, batch, queued, locks, dry>>
  BY DEF InlineRest, AllPassesDone, FitInv, CallInv, Places
<1>2. First = processed /\ First' = First
  BY <1>1, PlaceFacts DEF First, FitInv
<1>3. CASE InlineRest /\ Start(processed) < hi
  <2> DEFINE r == [lo |-> Start(processed), hi |-> hi]
  <2>1. Execute(r) /\ r.lo = Begin(First) /\ r.hi = hi
    BY <1>2, <1>3, FirstFacts DEF InlineRest, Inline
  <2> HIDE DEF r
  <2> QED BY <1>1, <1>2, <2>1, RestExecuted, FitKept
<1>4. CASE (InlineRest /\ ~(Start(processed) < hi)) \/ AllPassesDone
  <2>1. hits' = hits
    BY <1>4 DEF InlineRest, AllPassesDone
  <2>2. Begin(First) >= hi
    <3>1. CASE AllPassesDone
      <4>1. First = Total
        BY <1>2, <3>1, FirstFacts, PlaceFacts DEF AllPassesDone, FitInv
      <4> QED BY <4>1, FirstFacts, FitFacts, CalledFacts DEF FitInv
    <3>2. CASE ~(Start(processed) < hi)
      BY <1>2, <3>2, FirstFacts, CalledFacts
    <3> QED BY <1>4, <3>1, <3>2
  <2> QED BY <1>1, <1>2, <2>1, <2>2, Unmoved, FitKept
<1> QED BY <1>3, <1>4

\* The elements of one queued child are executed.
LEMMA FitChild == ASSUME FitInv, NEW r \in queued, ChildRuns(r), CallInv' PROVE FitInv'
<1>1. /\ queued' = queued \ {r} /\ Execute(r)
      /\ UNCHANGED <<args, pc, processed, batch, cont, dry>>
  BY DEF ChildRuns
<1>2. First' = First
  BY <1>1 DEF First
<1>3. \A e \in Within(r) : e \in Asked /\ e \in Nat /\ hits[e] = 0 /\ e < Begin(First)
  BY QueuedElements DEF FitInv, Intact
<1>4. /\ \A e \in Elements : hits'[e] = IF e \in Within(r) THEN 1 ELSE hits[e]
      /\ \A e \in Elements : hits'[e] <= IF e \in Asked THEN 1 ELSE 0
  BY <1>1, <1>3, FirstFacts, Executed
<1>5. ASSUME pc # "returned", NEW e \in Elements, e >= Begin(First)
      PROVE  hits'[e] = 0
  <2>1. e \notin Within(r)
    BY <1>3, <1>5, FirstFacts
  <2> QED BY <1>4, <1>5, <2>1 DEF FitInv, Intact
<1>6. ASSUME NEW q \in queued', NEW e \in Within(q)
      PROVE  hits'[e] = 0
  <2>1. q \in queued /\ q # r /\ e \in Elements
    BY <1>1 DEF Within
  <2>2. e \notin Within(r)
    BY <2>1, QueuedApart DEF FitInv
  <2> QED BY <1>4, <2>1, <2>2 DEF FitInv, Intact
<1>7. ASSUME dry = 0, NEW e \in Asked
      PROVE  \/ hits'[e] = 1
             \/ \E q \in queued' : e \in Within(q)
             \/ pc # "returned" /\ e >= Begin(First)
  <2>1. e \in Elements
    BY DEF Asked
  <2>2. \/ hits[e] = 1 \/ e \in Within(r)
        \/ \E q \in queued' : e \in Within(q)
        \/ pc # "returned" /\ e >= Begin(First)
    BY <1>1, <1>7 DEF FitInv, Kept
  <2> QED BY <1>4, <2>1, <2>2
<1>8. Holds(First)
  BY <1>1, <1>4, <1>5, <1>6, <1>7 DEF Holds, FitInv, Kept
<1> QED BY <1>1, <1>2, <1>8, FitKept

\* Every step keeps FitInv.
LEMMA FitStep == FitInv /\ [Next]_vars => FitInv'
<1> SUFFICES ASSUME FitInv, [Next]_vars PROVE FitInv'
  OBVIOUS
<1>0. CallInv'
  BY CallStep DEF FitInv
<1>1. CASE Next
  BY <1>0, <1>1, FitAcquire, FitPush, FitInlineRejected, FitReturn, FitChild
     DEF Next, Call
<1>2. CASE UNCHANGED vars
  <2>1. First' = First /\ UNCHANGED args
    BY <1>2 DEF vars, args, First
  <2>2. Holds(First)
    BY <1>2 DEF vars, Holds, FitInv, Intact, Kept, NothingTwice
  <2> QED BY <1>0, <2>1, <2>2, FitKept
<1> QED BY <1>1, <1>2

-----------------------------------------------------------------------------
\* Chunks, queued children and the count of them agree in every state, also of
\* calls whose indices wrap.
THEOREM CallInvariant == Spec => []CallInv
BY CallInitial, CallStep, PTL DEF Spec

\* The parent's unfinished_dependencies counts exactly the children that are
\* queued, and in the middle of a pass those about to be, for any range and
\* chunk size (sk_scheduler.c:338, 347).
THEOREM LocksTheorem == Spec => []LocksMatchChildren
<1>1. CallInv => LocksMatchChildren
  BY DEF CallInv, Counted
<1> QED BY <1>1, CallInvariant, PTL

\* The inductive invariant of a call whose end and chunk size add up within
\* size_t.
THEOREM FitInvariant == Spec /\ Fits => []FitInv
BY FitInitial, FitStep, PTL DEF Spec

\* No element is given to task_fn twice and none outside of the range of the
\* call, if end_idx + chunk_size is a size_t.  Without that the remaining_start
\* after a rejected push can wrap to an index before start_idx
\* (sk_scheduler.c:317-319, 333, 352, 356).
THEOREM NothingTwiceTheorem == Spec /\ Fits => []NothingTwice
<1>1. FitInv => NothingTwice
  BY DEF FitInv, Intact
<1> QED BY <1>1, FitInvariant, PTL

\* A finished call has executed every element if the pool was never empty,
\* whatever the deque rejected (sk_scheduler.c:343-362).
THEOREM CoverageTheorem == Spec /\ Fits => []CoveredUnlessDry
<1>1. FitInv => CoveredUnlessDry
  BY DEF FitInv, Kept, CoveredUnlessDry, Finished
<1> QED BY <1>1, FitInvariant, PTL
===============================================================================
