----------------------------- MODULE MCTaskGraph -----------------------------
(* TaskGraph on small instances.                                            *)
EXTENDS TaskGraph, TLC

TaskSymmetry == Permutations(Tasks) \cup Permutations(Jobs)
=============================================================================
