----------------------- MODULE MCCustomerReturnOutbox -----------------------
(* The outbox on small instances.  The retry delays grow as in the code; one *)
(* delay keeps the run that checks liveness short.                           *)
EXTENDS CustomerReturnOutbox, TLC

MCDelays == <<1, 2>>
MCOneDelay == <<1>>
Symmetry == Permutations(Workers)
=============================================================================
