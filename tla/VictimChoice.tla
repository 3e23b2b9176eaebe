----------------------------- MODULE VictimChoice -----------------------------
(***************************************************************************)
(* Whom a worker steals from (sk_worker.c:34-40, 134, 157-160): a 32-bit   *)
(* xorshift generator, seeded with the number of the worker, draws one of  *)
(* the other workers.  A word is the set of its one bits.                  *)
(***************************************************************************)
EXTENDS Integers

CONSTANTS
  MaxCores,  \* bound: workers
  MaxDraws   \* bound: steals a worker attempts in a behaviour

VictimAssumption == MaxCores \in 2 .. 1000 /\ MaxDraws \in Nat

VARIABLES
  cores,     \* total_cores, more than one
  core,      \* core_id of the worker
  rng,       \* rng_state
  victim,    \* victim_id of the last draw; the own number before the first
  draws,     \* draws so far
  drawn      \* history: the victims drawn so far

vars == <<cores, core, rng, victim, draws, drawn>>

Bit == 0 .. 31
Words == SUBSET Bit

ShiftLeft(w, k)  == {b + k : b \in w} \cap Bit
ShiftRight(w, k) == {b - k : b \in w} \cap Bit
Xor(v, w) == (v \ w) \cup (w \ v)

\* xorshift32
Xorshift(w) ==
  LET a == Xor(w, ShiftLeft(w, 13))
      b == Xor(a, ShiftRight(a, 17))
  IN  Xor(b, ShiftLeft(b, 5))

\* The word with the given upper and lower 16 bits.
Word(high, low) ==
  {b \in Bit : IF b < 16 THEN (low \div 2 ^ b) % 2 = 1
                         ELSE (high \div 2 ^ (b - 16)) % 2 = 1}

\* 2654435761 is 40503 * 2^16 + 31153; the product by halves, modulo 2^32.
Golden(n) ==
  Word((n * 40503 + (n * 31153) \div 65536) % 65536, (n * 31153) % 65536)

Seed(id) == Golden(id + 1)

\* w % m, from the highest bit down and without numbers above 2 * m.
Remainder(w, m) ==
  LET rest[k \in 0 .. 32] ==
        IF k = 0 THEN 0 ELSE (2 * rest[k - 1] + (IF 32 - k \in w THEN 1 ELSE 0)) % m
  IN  rest[32]

\* Faulty variant: the worker itself is not skipped.
PastSelfFaulty(v, id) == IF v > id THEN v + 1 ELSE v
\* Maps 0 .. cores - 2 to all workers but this one.
PastSelf(v, id) == IF v >= id THEN v + 1 ELSE v

-----------------------------------------------------------------------------
Init ==
  /\ cores \in 2 .. MaxCores
  /\ core \in 0 .. cores - 1
  /\ rng = Seed(core)
  /\ victim = core
  /\ draws = 0
  /\ drawn = {}

Draw ==
  /\ draws < MaxDraws
  /\ rng' = Xorshift(rng)
  /\ victim' = PastSelf(Remainder(rng', cores - 1), core)
  /\ draws' = draws + 1
  /\ drawn' = drawn \cup {victim'}
  /\ UNCHANGED <<cores, core>>

Next == Draw

Spec == Init /\ [][Next]_vars

-----------------------------------------------------------------------------
Others == (0 .. cores - 1) \ {core}

\* The generator never gets to zero, where it would stay.  The victim is a
\* worker of the pool, and never the one that steals.
TypeOK ==
  /\ cores \in 2 .. MaxCores /\ core \in 0 .. cores - 1
  /\ rng \subseteq Bit /\ rng # {}
  /\ draws \in 0 .. MaxDraws
  /\ IF draws = 0 THEN victim = core ELSE victim \in drawn
  /\ drawn \subseteq Others

\* Every other worker is drawn before the draws run out.  The generator is a
\* permutation of the non-zero words, so it comes back to its seed and draws
\* every one of them again: no victim is missed for ever.
EveryVictimDrawn == draws = MaxDraws => drawn = Others
=============================================================================
