-------------------------- MODULE JobSplitterProofs --------------------------
(***************************************************************************)
(* What the splitter guarantees for every payload and every chunk size.    *)
(*                                                                         *)
(* The argument rests on alignment: every frame begins at a multiple of    *)
(* the chunk size, so rounding the middle up to such a multiple stays      *)
(* strictly inside a frame that is longer than a chunk.                    *)
(***************************************************************************)
EXTENDS JobSplitter, TLAPS

Aligned == \A f \in frames : f.lo % chunk = 0 /\ f.lo <= f.hi /\ f.hi <= payload

IInv == TypeOK /\ Aligned /\ ExactlyOnce

-----------------------------------------------------------------------------
(* Arithmetic of mid_point.                                                 *)

\* Two multiples of c that are less than 2c apart differ by at most c.
LEMMA NextMultiple ==
  ASSUME NEW c \in Nat \ {0}, NEW a \in Nat, NEW b \in Nat,
         a % c = 0, b % c = 0, b < a + 2 * c
  PROVE  b <= a + c
<1> DEFINE q == a \div c
           r == b \div c
<1>1. q \in Nat /\ r \in Nat /\ a = c * q /\ b = c * r
  OBVIOUS
<1> HIDE DEF q, r
<1>2. c * r < c * (q + 2)
  BY <1>1
<1>3. r < q + 2
  BY <1>1, <1>2
<1>4. c * r <= c * (q + 1)
  BY <1>1, <1>3
<1> QED BY <1>1, <1>4

\* Rounding up (sk_worker.c:294-297) ends at a multiple, less than a chunk away.
LEMMA AlignUp ==
  ASSUME chunk \in Nat \ {0}, NEW m \in Nat
  PROVE  /\ Align(m) \in Nat
         /\ m <= Align(m) /\ Align(m) < m + chunk
         /\ Align(m) % chunk = 0
<1> DEFINE q == m \div chunk
           r == m % chunk
<1>1. q \in Nat /\ r \in Nat /\ r < chunk /\ m = chunk * q + r
  OBVIOUS
<1>2. CASE r = 0
  BY <1>1, <1>2 DEF Align
<1>3. CASE r # 0
  <2>1. Align(m) = chunk * (q + 1)
    BY <1>1, <1>3 DEF Align
  <2>2. (chunk * (q + 1)) % chunk = 0
    BY <1>1
  <2> QED BY <1>1, <1>3, <2>1, <2>2 DEF Align
<1> QED BY <1>2, <1>3

\* The middle of a long aligned frame is aligned and strictly inside.
LEMMA MidInside ==
  ASSUME chunk \in Nat \ {0}, NEW f \in Frames,
         f.lo % chunk = 0, f.hi - f.lo > chunk
  PROVE  /\ Mid(f) \in Nat /\ Mid(f) % chunk = 0
         /\ f.lo < Mid(f) /\ Mid(f) < f.hi
<1> DEFINE m == f.lo + (f.hi - f.lo) \div 2
<1>1. f.lo \in Nat /\ f.hi \in Nat
  BY DEF Frames
<1>2. m \in Nat /\ f.lo < m /\ 2 * m <= f.lo + f.hi
  BY <1>1
<1>3. Mid(f) = Align(m)
  BY DEF Mid
<1> HIDE DEF m
<1>4. /\ Mid(f) \in Nat /\ Mid(f) % chunk = 0
      /\ m <= Mid(f) /\ Mid(f) < m + chunk
  BY <1>2, <1>3, AlignUp
<1>5. CASE f.hi - f.lo > 2 * chunk
  BY <1>1, <1>2, <1>4, <1>5
<1>6. CASE f.hi - f.lo <= 2 * chunk
  <2>1. Mid(f) < f.lo + 2 * chunk
    BY <1>1, <1>2, <1>4, <1>6
  <2>2. Mid(f) <= f.lo + chunk
    BY <1>1, <1>4, <2>1, NextMultiple
  <2> QED BY <1>1, <1>2, <1>4, <2>2
<1> QED BY <1>1, <1>5, <1>6

\* The two halves of a frame partition it, and are aligned frames again.
LEMMA Halves ==
  ASSUME IInv, NEW f \in frames, Splits(f)
  PROVE  /\ Left(f) \in Frames /\ Right(f) \in Frames
         /\ \A g \in {Left(f), Right(f)} :
              g.lo % chunk = 0 /\ g.lo <= g.hi /\ g.hi <= payload
         /\ \A e \in Elements : In(e, f) <=> In(e, Left(f)) \/ In(e, Right(f))
         /\ \A e \in Elements : ~(In(e, Left(f)) /\ In(e, Right(f)))
<1>1. /\ f \in Frames /\ chunk \in Nat \ {0} /\ payload \in Nat
      /\ f.lo % chunk = 0 /\ f.lo <= f.hi /\ f.hi <= payload
  BY SplitterAssumption DEF IInv, TypeOK, Aligned
<1>2. /\ Mid(f) \in Nat /\ Mid(f) % chunk = 0 /\ f.lo < Mid(f) /\ Mid(f) < f.hi
  BY <1>1, MidInside DEF Splits
<1>3. /\ Left(f) = [lo |-> f.lo, hi |-> Mid(f)]
      /\ Right(f) = [lo |-> Mid(f), hi |-> f.hi]
      /\ f.lo \in Nat /\ f.hi \in Nat
  BY <1>1 DEF Left, Right, Frames
<1>4. Elements \subseteq Nat
  BY <1>1 DEF Elements
<1> QED BY <1>1, <1>2, <1>3, <1>4 DEF Frames, In

-----------------------------------------------------------------------------
(* The invariant.                                                           *)

LEMMA InitInv == Init => IInv
<1> SUFFICES ASSUME Init PROVE IInv
  OBVIOUS
<1> DEFINE f0 == [lo |-> 0, hi |-> payload]
<1>1. payload \in 0 .. MaxPayload /\ payload \in Nat /\ chunk \in Nat \ {0}
  BY SplitterAssumption DEF Init, ChunkSize
<1>2. TypeOK
  BY <1>1 DEF Init, TypeOK, Frames
<1>3. Aligned
  BY <1>1 DEF Init, Aligned
<1>4. ExactlyOnce
  <2>1. frames = {f0} /\ hits = [e \in Elements |-> 0]
    BY DEF Init
  <2>2. \A e \in Elements : In(e, f0)
    BY <1>1 DEF Elements, In
  <2> QED BY <2>1, <2>2 DEF ExactlyOnce
<1> QED BY <1>2, <1>3, <1>4 DEF IInv

\* The job function counts the elements of the range it is given.
LEMMA ExecuteHits ==
  ASSUME TypeOK, NEW r, Execute(r)
  PROVE  /\ hits' \in [Elements -> Nat]
         /\ \A e \in Elements : hits'[e] = IF In(e, r) THEN hits[e] + 1 ELSE hits[e]
BY DEF TypeOK, Execute

LEMMA PushRightInv == ASSUME IInv, NEW f \in frames, PushRight(f) PROVE IInv'
<1>1. /\ Splits(f) /\ frames' = (frames \ {f}) \cup {Left(f), Right(f)}
      /\ payload' = payload /\ chunk' = chunk /\ hits' = hits
      /\ Elements' = Elements
  BY DEF PushRight, Elements
<1>2. /\ Left(f) \in Frames /\ Right(f) \in Frames
      /\ \A g \in {Left(f), Right(f)} :
           g.lo % chunk = 0 /\ g.lo <= g.hi /\ g.hi <= payload
      /\ \A e \in Elements : In(e, f) <=> In(e, Left(f)) \/ In(e, Right(f))
      /\ \A e \in Elements : ~(In(e, Left(f)) /\ In(e, Right(f)))
  BY <1>1, Halves
<1>3. TypeOK'
  BY <1>1, <1>2 DEF IInv, TypeOK
<1>4. Aligned'
  BY <1>1, <1>2 DEF IInv, Aligned
<1>5. ExactlyOnce'
  BY <1>1, <1>2 DEF IInv, ExactlyOnce
<1> QED BY <1>3, <1>4, <1>5 DEF IInv

LEMMA RunRightInv == ASSUME IInv, NEW f \in frames, RunRight(f) PROVE IInv'
<1>1. /\ Splits(f) /\ frames' = (frames \ {f}) \cup {Left(f)}
      /\ payload' = payload /\ chunk' = chunk
      /\ Elements' = Elements
  BY DEF RunRight, Elements
<1>2. /\ Left(f) \in Frames
      /\ Left(f).lo % chunk = 0 /\ Left(f).lo <= Left(f).hi /\ Left(f).hi <= payload
      /\ \A e \in Elements : In(e, f) <=> In(e, Left(f)) \/ In(e, Right(f))
      /\ \A e \in Elements : ~(In(e, Left(f)) /\ In(e, Right(f)))
  BY <1>1, Halves
<1>3. /\ hits' \in [Elements -> Nat]
      /\ \A e \in Elements :
           hits'[e] = IF In(e, Right(f)) THEN hits[e] + 1 ELSE hits[e]
  BY ExecuteHits DEF IInv, RunRight
<1>4. TypeOK'
  BY <1>1, <1>2, <1>3 DEF IInv, TypeOK
<1>5. Aligned'
  BY <1>1, <1>2 DEF IInv, Aligned
<1>6. ExactlyOnce'
  BY <1>1, <1>2, <1>3 DEF IInv, ExactlyOnce
<1> QED BY <1>4, <1>5, <1>6 DEF IInv

LEMMA RunLeafInv == ASSUME IInv, NEW f \in frames, RunLeaf(f) PROVE IInv'
<1>1. /\ frames' = frames \ {f}
      /\ payload' = payload /\ chunk' = chunk
      /\ Elements' = Elements
  BY DEF RunLeaf, Elements
<1>2. /\ hits' \in [Elements -> Nat]
      /\ \A e \in Elements : hits'[e] = IF In(e, f) THEN hits[e] + 1 ELSE hits[e]
  BY ExecuteHits DEF IInv, RunLeaf
<1>3. TypeOK'
  BY <1>1, <1>2 DEF IInv, TypeOK
<1>4. Aligned'
  BY <1>1 DEF IInv, Aligned
<1>5. ExactlyOnce'
  BY <1>1, <1>2 DEF IInv, ExactlyOnce
<1> QED BY <1>3, <1>4, <1>5 DEF IInv

LEMMA StepInv == IInv /\ [Next]_vars => IInv'
<1> SUFFICES ASSUME IInv, [Next]_vars PROVE IInv'
  OBVIOUS
<1>1. CASE UNCHANGED vars
  BY <1>1 DEF vars, IInv, TypeOK, Aligned, ExactlyOnce, Elements
<1>2. ASSUME NEW f \in frames, PushRight(f) \/ RunRight(f) \/ RunLeaf(f) PROVE IInv'
  BY <1>2, PushRightInv, RunRightInv, RunLeafInv
<1> QED BY <1>1, <1>2 DEF Next

LEMMA Invariance == Spec => []IInv
<1> QED BY InitInv, StepInv, PTL DEF Spec

-----------------------------------------------------------------------------
(* Theorems.                                                                *)

\* The chunk size is never zero, whatever the application asked for, and every
\* range the splitter works on is a range of the payload.
THEOREM SplitterTypeOK == Spec => []TypeOK
<1>1. IInv => TypeOK
  BY DEF IInv
<1> QED BY <1>1, Invariance, PTL

\* Every element of the payload is in exactly one pending range or has been
\* given to the job function exactly once (sk_worker.c:290-332).
THEOREM SplitterExactlyOnce == Spec => []ExactlyOnce
<1>1. IInv => ExactlyOnce
  BY DEF IInv
<1> QED BY <1>1, Invariance, PTL

\* The break at sk_worker.c:299 is dead code: a range longer than a chunk
\* always has an aligned middle strictly inside.
THEOREM SplitterSplitsInside == Spec => []SplitsInside
<1>1. IInv => SplitsInside
  BY MidInside DEF IInv, TypeOK, Aligned, SplitsInside
<1> QED BY <1>1, Invariance, PTL
=============================================================================
