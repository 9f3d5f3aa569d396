---------------------------- MODULE MCOrderClosure ----------------------------
(* Order closure on small instances.                                         *)
EXTENDS OrderClosure, TLC

Symmetry == Permutations(Sessions) \cup Permutations(Executors)
==============================================================================
