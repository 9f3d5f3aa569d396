--------------------------- MODULE MCOrchestration ---------------------------
(* Orchestration on small instances.  Every run and every intent belongs to  *)
(* one of the jobs; symmetry covers what the code only compares for equality. *)
EXTENDS Orchestration, TLC

CONSTANTS r1, r2, d1, j1, j2

MCJobOf == [x \in Runs \cup Intents |-> IF x = r2 THEN j2 ELSE j1]

Symmetry ==
    Permutations(Keys) \cup Permutations(Workers) \cup Permutations(Sessions)
==============================================================================
