------------------------- MODULE MCSiteOrderStageOutbox -------------------------
(* The queue of stage changes of one order, on small instances.              *)
EXTENDS SiteOrderStageOutbox, TLC

Learnt(k, t, at, seen) == [kind |-> k, target |-> t, at |-> at, seen |-> seen]

(* One of each kind, two of the chain of logistics, and evidence without a   *)
(* stage of its own.                                                         *)
MixedEvidence ==
    {Learnt("logistics", "PICKUP_TRANSIT", 1, None), Learnt("logistics", "PICKUP_WAITING", 2, None),
     Learnt("execution", "FINAL_INVOICE", 1, "EXECUTING"),
     Learnt("shipment", "PICKUP_TRANSIT", 2, "EXECUTING"),
     Learnt("shipment", None, 1, "FINAL_INVOICE"), Learnt("signal", "WON", 2, None)}

(* The order is handed over while it is still being shipped for the papers.  *)
RacingEvidence ==
    {Learnt("shipment", "IN_DELIVERY", 1, "EXECUTING"), Learnt("execution", "WON", 2, "EXECUTING")}

Symmetry == Permutations(Workers)
==============================================================================
