----------------------------- MODULE AlignedAlloc -----------------------------
(***************************************************************************)
(* sys_aligned_alloc and sys_aligned_free (sk_memory_utils.h:7-29): the    *)
(* address malloc returned is kept in the word before the aligned address. *)
(* Memory is a small range of addresses; malloc and free are the C         *)
(* library's, their users write into all of the memory they were given.    *)
(***************************************************************************)
EXTENDS Integers, FiniteSets

CONSTANTS
  MaxAddress,  \* bound: addresses
  PtrSize,     \* sizeof(void*)
  Alignments,  \* alignments asked for, 64 in the code
  Sizes,       \* sizes asked for
  MaxAllocs    \* bound: blocks allocated at the same time

AllocAssumption ==
  /\ MaxAddress \in Nat /\ PtrSize \in Nat \ {0} /\ MaxAllocs \in Nat
  /\ Alignments \subseteq {2 ^ k : k \in 0 .. 12}
  /\ \A a \in Alignments : a \in Nat \ {0} /\ a % PtrSize = 0
  /\ Sizes \subseteq Nat

VARIABLES
  blocks,  \* what malloc has given out: [raw, len], and the use made of it
  word     \* the pointer-sized words of memory; 0 for anything but a pointer

vars == <<blocks, word>>

Addresses == 1 .. MaxAddress
WordAddresses == {a \in Addresses : a % PtrSize = 0}
Range(from, len) == from .. from + len - 1

Init ==
  /\ blocks = {}
  /\ word = [a \in WordAddresses |-> 0]

\* Faulty variant: no room is made for the header.
OffsetFaulty(alignment) == alignment - 1
\* alignment - 1 + sizeof(void*)
Offset(alignment) == alignment - 1 + PtrSize

\* (raw + sizeof(void*) + alignment - 1) & ~(alignment - 1)
Aligned(raw, alignment) == ((raw + PtrSize + alignment - 1) \div alignment) * alignment

\* malloc: memory that belongs to nobody else, at an address fit for a pointer.
Malloc(len) ==
  {raw \in WordAddresses :
     /\ raw + len - 1 <= MaxAddress
     /\ \A b \in blocks : Range(raw, len) \cap Range(b.raw, b.len) = {}}

\* The word before the aligned address gets the raw one.  When malloc fails
\* NULL is returned and nothing changes.
Alloc(alignment, size) ==
  /\ Cardinality(blocks) < MaxAllocs
  /\ \E raw \in Malloc(size + Offset(alignment)) :
       LET ptr == Aligned(raw, alignment) IN
         /\ blocks' = blocks \cup
              {[raw |-> raw, len |-> size + Offset(alignment),
                ptr |-> ptr, size |-> size, alignment |-> alignment]}
         /\ word' = [a \in WordAddresses |-> IF a = ptr - PtrSize THEN raw ELSE word[a]]

\* The owner of a block fills it.
Use(b) ==
  /\ word' = [a \in WordAddresses |->
                IF Range(a, PtrSize) \cap Range(b.ptr, b.size) # {} THEN 0 ELSE word[a]]
  /\ UNCHANGED blocks

\* free of what the header says; free finds the block of a raw address.
Free(b) ==
  /\ blocks' = {c \in blocks : c.raw # word[b.ptr - PtrSize]}
  /\ UNCHANGED word

Next ==
  \/ \E alignment \in Alignments, size \in Sizes : Alloc(alignment, size)
  \/ \E b \in blocks : Use(b) \/ Free(b)

Spec == Init /\ [][Next]_vars

-----------------------------------------------------------------------------
\* The memory handed out is aligned and, with its header, lies in the block
\* malloc gave for it, wherever that begins (sk_memory_utils.h:8-19).
TypeOK ==
  /\ word \in [WordAddresses -> {0} \cup WordAddresses]
  /\ \A b \in blocks :
       /\ b.ptr % b.alignment = 0
       /\ Range(b.ptr - PtrSize, PtrSize + b.size) \subseteq Range(b.raw, b.len)

\* sys_aligned_free passes to free exactly what malloc returned for the block,
\* however the blocks around it were filled and freed in the meantime
\* (sk_memory_utils.h:19, 27).
HeaderSurvives == \A b \in blocks : word[b.ptr - PtrSize] = b.raw
=============================================================================
