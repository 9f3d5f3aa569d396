--------------------------- MODULE MCCustomerReturns ---------------------------
(* The registry of customer returns on small instances.                      *)
EXTENDS CustomerReturns, TLC

Symmetry == Permutations(Sessions) \cup Permutations(Deals) \cup Permutations(Cards)
==============================================================================
