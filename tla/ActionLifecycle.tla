--------------------------- MODULE ActionLifecycle ---------------------------
(***************************************************************************)
(* What the customer-return outbox promises for each action, without       *)
(* workers, leases, retries or Bitrix24: a scheduled action is settled     *)
(* (delivered, given up or skipped) exactly once, and is settled           *)
(* eventually.                                                             *)
(***************************************************************************)
CONSTANT ActionTypes

VARIABLE phase

Init == phase = [a \in ActionTypes |-> "none"]

Settle(a) ==
    /\ phase[a] = "open"
    /\ phase' = [phase EXCEPT ![a] = "settled"]

(* One transaction may schedule several actions and skip another.            *)
Next ==
    \E S, T \in SUBSET ActionTypes :
        /\ S \cup T # {}
        /\ \A a \in S : phase[a] = "none"
        /\ \A a \in T : phase[a] = "open"
        /\ phase' = [a \in ActionTypes |->
                        IF a \in S THEN "open"
                        ELSE IF a \in T THEN "settled" ELSE phase[a]]

Fairness == \A a \in ActionTypes : WF_phase(Settle(a))

Spec == Init /\ [][Next]_phase

FairSpec == Spec /\ Fairness

==============================================================================
