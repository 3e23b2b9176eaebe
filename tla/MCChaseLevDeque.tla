--------------------------- MODULE MCChaseLevDeque ---------------------------
(* ChaseLevDeque on small instances.                                        *)
EXTENDS ChaseLevDeque, TLC

ThiefSymmetry == Permutations(Thieves)
=============================================================================
