----------------------------- MODULE MCStructures -----------------------------
(***************************************************************************)
(* The data structures the scheduler is built on, side by side: in every   *)
(* behaviour one of them runs and the variables of the others keep their   *)
(* initial values.                                                         *)
(***************************************************************************)
EXTENDS SpmcRing, TLC

CONSTANTS
  Threads, PoolCapacity, CacheCapacity, EvictCount, TagMod,  \* TaskPool
  Width,                                                     \* Capacity
  MaxCores, MaxDraws,                                        \* VictimChoice
  MaxAddress, PtrSize, Alignments, AllocSizes, MaxAllocs     \* AlignedAlloc

VARIABLES
  part,  \* the structure that runs
  poolHead, next, cache, inUse, poolPc, seen, nextIdx, task, linked,
  size, x, shift, result,
  cores, core, rng, victim, draws, drawn,
  blocks, word

poolVars     == <<poolHead, next, cache, inUse, poolPc, seen, nextIdx, task, linked>>
capacityVars == <<size, x, shift, result>>
victimVars   == <<cores, core, rng, victim, draws, drawn>>
allocVars    == <<blocks, word>>

P == INSTANCE TaskPool WITH Capacity <- PoolCapacity, head <- poolHead, pc <- poolPc
C == INSTANCE Capacity
V == INSTANCE VictimChoice
A == INSTANCE AlignedAlloc WITH Sizes <- AllocSizes

ASSUME StructuresAssumption ==
  P!PoolAssumption /\ C!WidthAssumption /\ V!VictimAssumption /\ A!AllocAssumption

\* A structure that does not run is in one of its initial states.
Resting(name, variables, initial) == part = name \/ variables = initial

StructuresInit ==
  /\ part \in {"ring", "pool", "capacity", "victim", "alloc"}
  /\ Init /\ P!Init /\ C!Init /\ V!Init /\ A!Init
  /\ Resting("capacity", size, 0)
  /\ Resting("victim", <<cores, core>>, <<2, 0>>)

StructuresNext ==
  \/ /\ part = "ring" /\ Next
     /\ UNCHANGED <<part, poolVars, capacityVars, victimVars, allocVars>>
  \/ /\ part = "pool" /\ P!Next
     /\ UNCHANGED <<part, vars, capacityVars, victimVars, allocVars>>
  \/ /\ part = "capacity" /\ C!Next
     /\ UNCHANGED <<part, vars, poolVars, victimVars, allocVars>>
  \/ /\ part = "victim" /\ V!Next
     /\ UNCHANGED <<part, vars, poolVars, capacityVars, allocVars>>
  \/ /\ part = "alloc" /\ A!Next
     /\ UNCHANGED <<part, vars, poolVars, capacityVars, victimVars>>

StructuresSpec ==
  /\ StructuresInit
  /\ [][StructuresNext]_<<part, vars, poolVars, capacityVars, victimVars, allocVars>>

ThreadSymmetry == Permutations(Threads)

-----------------------------------------------------------------------------
(* The properties of the parts, explained in their modules.                 *)

\* No task is lost or handed out twice (sk_scheduler.c:71-136).
OnePlace == P!TypeOK /\ P!OnePlace

\* The tag protects every compare-and-swap on the list (sk_scheduler.c:77-87).
SeenIsCurrent == P!SeenIsCurrent

\* acquire fails only for tasks in use or in caches (sk_scheduler.c:73-75).
NullOnlyWhenHoarded == P!NullOnlyWhenHoarded

\* The pool is linearizable (sk_scheduler.c:71-136).
ImplementsPool == P!ImplementsPool

\* Requested sizes are rounded to the next power of two
\* (sk_memory_utils.h:32-51).
RoundsUp == C!TypeOK /\ C!RoundsUp

\* Thieves draw every other worker, and nobody else (sk_worker.c:157-160).
EveryVictimDrawn == V!TypeOK /\ V!EveryVictimDrawn

\* Aligned memory lies in the block malloc gave, and free gets what malloc
\* returned (sk_memory_utils.h:7-29).
HeaderSurvives == A!TypeOK /\ A!HeaderSurvives
=============================================================================
