------------------------- MODULE MCOrderPrepayExpiry -------------------------
(* Automatic prepayment expiry on small instances.                           *)
EXTENDS OrderPrepayExpiry, TLC
==============================================================================
