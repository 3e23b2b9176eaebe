------------------------------- MODULE Capacity -------------------------------
(***************************************************************************)
(* The capacity of a queue: next_power_of_two (sk_memory_utils.h:32-51)    *)
(* and what allocate_worker_pool and chase_lev_init make of its result.    *)
(* A size_t has Width bits and is handled as the set of its one bits; the  *)
(* shifts double up to half the width, 1 to 32 in the code.                *)
(***************************************************************************)
EXTENDS Integers, FiniteSets, FiniteSetsExt

CONSTANT Width

WidthAssumption == Width \in {2, 4, 8, 16, 32, 64}

VARIABLES
  size,    \* the requested number of slots
  x,       \* the variable `size` of next_power_of_two, as bits
  shift,   \* the next shift, 0 when the result is there
  result

vars == <<size, x, shift, result>>

\* The powers of two.
Pow[k \in 0 .. Width] == IF k = 0 THEN 1 ELSE 2 * Pow[k - 1]

SizeMod == Pow[Width]
Sizes == 0 .. SizeMod - 1
Bit == 0 .. Width - 1

Bits(n) == {b \in Bit : (n \div Pow[b]) % 2 = 1}

\* The value of a word, added up from the lowest bit.
Value(bits) ==
  LET sum[k \in 0 .. Width] ==
        IF k = 0 THEN 0 ELSE sum[k - 1] + (IF k - 1 \in bits THEN Pow[k - 1] ELSE 0)
  IN  sum[Width]

\* Faulty variant: the size is not decremented first.
StartFaulty(n) == Bits(n)
\* size--
Start(n) == Bits(n - 1)

\* Sizes up to two give two, all others are smeared first.
Init ==
  /\ size \in Sizes
  /\ x = IF size <= 2 THEN Bits(1) ELSE Start(size)
  /\ shift = IF size <= 2 THEN 0 ELSE 1
  /\ result = IF size <= 2 THEN 2 ELSE 0

ShiftRight(bits, k) == {b - k : b \in {c \in bits : c >= k}}

\* The shift by half the width is the last one.
LastShift(k) == k = Width \div 2

NextShift(k) == 2 * k

\* size |= size >> shift
Smear ==
  /\ shift # 0
  /\ x' = x \cup ShiftRight(x, shift)
  /\ shift' = IF LastShift(shift) THEN 0 ELSE NextShift(shift)
  /\ result' = IF shift' = 0 THEN (Value(x') + 1) % SizeMod ELSE 0
  /\ UNCHANGED size

Next == Smear

Spec == Init /\ [][Next]_vars

-----------------------------------------------------------------------------
Done == shift = 0

\* While it is smeared x is a block of ones as long as the shifts so far can
\* make it, below the highest one bit of the decremented size.
TypeOK ==
  /\ size \in Sizes /\ result \in Sizes
  /\ shift \in {0, 1, 2, 4, 8, 16, 32} /\ shift <= Width \div 2
  /\ x \subseteq Bit /\ x # {}
  /\ shift # 0 => \A b \in Bit : b \in x \/ b > Max(x) \/ b <= Max(x) - shift

\* The capacity is the least power of two that holds what was asked for, at
\* least two, for every request up to the largest power of two; above, the
\* sum wraps around to zero ("round size_t to the next power of 2",
\* sk_memory_utils.h:31-50).
RoundsUp ==
  Done => IF size > SizeMod \div 2 THEN result = 0
          ELSE /\ result \in {Pow[k] : k \in 1 .. Width - 1}
               /\ size <= result
               /\ result = 2 \/ 2 * size > result

=============================================================================
