---------------------------- MODULE CustomerReturns ----------------------------
(***************************************************************************)
(* The registry of parcels that customers send back.  Carriers report      *)
(* events, an employee confirms the pickup, 1C confirms the return; each   *)
(* writes the shipment, its history and the actions the outbox works off   *)
(* (CustomerReturnOutbox).  Employees link a shipment to a Bitrix24 deal   *)
(* and to the card of a service request.                                   *)
(*                                                                         *)
(* get_return takes no lock, so a handler is a load (checks and            *)
(* assignments on its copy) and a commit.  The commit updates the row of   *)
(* the shipment first and holds its lock to the end; only then are actions *)
(* looked up, so a missing action is seen as soon as it is committed,      *)
(* while one loaded before keeps the values of the copy.                   *)
(* Handlers that raise change nothing and are not enabled.                 *)
(***************************************************************************)
EXTENDS Naturals, FiniteSets

CONSTANTS
    Trackings,    \* carrier and tracking number
    Deals, Cards, \* of Bitrix24: deals and service requests
    OneCReturns,  \* return documents of 1C
    Sessions,     \* database sessions of the API open at once
    Codes,        \* status codes of the carriers
    Times,        \* occurred_at of carrier events
    Deadlines,    \* storage deadlines, in days
    Days,         \* days on which an event may be recorded
    MaxEvents,    \* bound on the carrier events of a shipment
    MaxWorked,    \* bound on the actions worked off for a shipment
    None

ASSUME ReturnsAssumption ==
    /\ Times \subseteq Nat /\ Deadlines \subseteq Nat
    /\ Days \subseteq Nat /\ MaxEvents \in Nat /\ MaxWorked \in Nat
    /\ None \notin Nat \cup Deals \cup Cards \cup OneCReturns

Recognized == {"registered", "in_transit", "arrived_at_pickup_point", "cancelled"}
normalize_status(code) == IF code \in Recognized THEN code ELSE "exception"

BusinessTerminal == {"picked_up", "onec_return_confirmed"}
Statuses == Recognized \cup {"exception"} \cup BusinessTerminal
ActionTypes ==
    {"arrival_task", "storage_reminder_3d", "storage_reminder_1d",
     "onec_return_control", "complete_return_task"}

CustomerReturnShipment ==
    [status: Statuses, code: Codes \cup {None}, last: Times \cup {None},
     deadline: Deadlines \cup {None}, ref: OneCReturns \cup {None},
     deal: Deals \cup {None}, request: Cards \cup {None}, requestDeal: Deals \cup {None}]
CustomerReturnAction ==
    [status: {"pending", "completed", "skipped"}, deadline: Deadlines \cup {None}]
        \* completed: also leased or failed, all that is not pending any more
Actions == [ActionTypes -> CustomerReturnAction \cup {None}]

(* A service request as a caller read it; snapshot: the deal that it read, to *)
(* be filled in where the shipment has none.                                 *)
Links == [card: Cards, deal: Deals \cup {None}, snapshot: Deals \cup {None}]

(* None is a value of its own: no row, no service request.                   *)
ASSUME NoRowAssumption ==
    None \notin CustomerReturnShipment \cup CustomerReturnAction \cup Links

VARIABLES
    shipments,  \* customer_return_shipment, by tracking number
    events,     \* customer_return_event: dedupe keys without a timestamp
    actions,    \* customer_return_action, by shipment and type
    sess,       \* open sessions of the API
    cards       \* Bitrix24: the deal of each service request

registry == <<shipments, events, actions>>
vars == <<registry, sess, cards>>

NoActions == [a \in ActionTypes |-> None]
NewShipment(deal) ==
    [status |-> "registered", code |-> None, last |-> None, deadline |-> None,
     ref |-> None, deal |-> deal, request |-> None, requestDeal |-> None]

Init ==
    /\ shipments = [t \in Trackings |-> None]
    /\ events = [t \in Trackings |-> {}]
    /\ actions = [t \in Trackings |-> NoActions]
    /\ sess = [s \in Sessions |-> None]
    /\ cards = [c \in Cards |-> None]

Happened(t, type) == \E e \in events[t] : e[1] = type
CarrierEvents(t) == {e \in events[t] : e[1] = "carrier-event"}

------------------------------------------------------------------------------
(* A handler: what it read, what it will write, the keys of the events it    *)
(* adds, the actions it schedules, and the link it makes in a second call.   *)

Keep(t, new) ==
    [tracking |-> t, old |-> shipments[t], new |-> new, seen |-> actions[t],
     keys |-> {}, schedule |-> {}, settles |-> FALSE, then |-> None]

Load(s, txn) ==
    /\ sess[s] = None
    /\ sess' = [sess EXCEPT ![s] = txn]
    /\ UNCHANGED <<registry, cards>>

(* Carrier events.                                                           *)

Rank == [registered |-> 0, in_transit |-> 1, arrived_at_pickup_point |-> 2, cancelled |-> 3]
MutRankOnly(current, candidate) ==
    \/ candidate = "exception" \/ current \notin Recognized
    \/ Rank[candidate] >= Rank[current]
_should_apply_transport_status(current, candidate) ==
    /\ current \notin BusinessTerminal
    /\ \/ candidate = "exception" \/ current = "exception"
       \/ Rank[candidate] >= Rank[current]

MutAlwaysCurrent(row, occurred_at) == TRUE
_is_current_carrier_event(row, occurred_at) ==
    row.last = None \/ occurred_at >= row.last

DueReminders(deadline, today) ==
    {a \in {"storage_reminder_3d", "storage_reminder_1d"} :
        deadline # None /\ deadline > today + (IF a = "storage_reminder_3d" THEN 3 ELSE 1)}
MutRemindersOnly(deadline, today) == DueReminders(deadline, today)
ArrivalActions(deadline, today) == {"arrival_task"} \cup DueReminders(deadline, today)

record_carrier_event(s, t, code, occurred_at, deadline, today) ==
    LET row == shipments[t]
        key == <<"carrier-event", code, occurred_at>>
        status == normalize_status(code)
        current == _is_current_carrier_event(row, occurred_at)
        applied == current /\ _should_apply_transport_status(row.status, status)
        seen == IF current
                THEN [row EXCEPT !.code = code, !.last = occurred_at,
                                 !.deadline = IF deadline # None THEN deadline ELSE @]
                ELSE row
        new == IF applied THEN [seen EXCEPT !.status = status] ELSE seen
        arrives == \/ applied /\ status = "arrived_at_pickup_point"
                   \/ /\ current /\ deadline # None
                      /\ new.status = "arrived_at_pickup_point"
    IN  /\ row # None /\ key \notin events[t]
        /\ Cardinality(CarrierEvents(t)) < MaxEvents
        /\ Load(s, [Keep(t, new) EXCEPT
                      !.keys = {key},
                      !.schedule = IF arrives THEN ArrivalActions(new.deadline, today) ELSE {}])

(* The employee's pickup and 1C's confirmation.                              *)

PickedUp(row) ==
    IF row.status = "onec_return_confirmed" THEN row ELSE [row EXCEPT !.status = "picked_up"]

confirm_pickup(s, t) ==
    /\ shipments[t] # None /\ ~ Happened(t, "pickup")
    /\ Load(s, [Keep(t, PickedUp(shipments[t])) EXCEPT
                  !.keys = {<<"pickup">>}, !.schedule = {"onec_return_control"}])

confirm_onec_return(s, t, ref) ==
    /\ shipments[t] # None /\ ~ Happened(t, "onec-return")
    /\ Load(s, [Keep(t, [shipments[t] EXCEPT !.status = "onec_return_confirmed", !.ref = ref])
                  EXCEPT !.keys = {<<"onec-return", ref>>}, !.settles = TRUE])

------------------------------------------------------------------------------
(* Registration and links.                                                   *)

(* A service request as Bitrix24 returned it, with the caller's snapshot of  *)
(* a deal.  The card's own tab passes none.                                  *)
Link(card, snapshot) == [card |-> card, deal |-> cards[card], snapshot |-> snapshot]

DealFits(row, deal) == deal = None \/ row.deal \in {None, deal}

(* A registration of a known shipment fills in the deal it lacks.            *)
_fill_missing_registration_links(t, deal, link) ==
    IF shipments[t].deal = None /\ deal # None
    THEN [Keep(t, [shipments[t] EXCEPT !.deal = deal]) EXCEPT
            !.keys = {<<"deal-link", deal>>}, !.then = link]
    ELSE [Keep(t, shipments[t]) EXCEPT !.then = link]

register_return(s, t, deal, link) ==
    IF shipments[t] = None
    THEN Load(s, [Keep(t, NewShipment(deal)) EXCEPT !.keys = {<<"registered">>}, !.then = link])
    ELSE /\ DealFits(shipments[t], deal)
         /\ shipments[t].deal # None \/ deal = None => link # None
         /\ Load(s, _fill_missing_registration_links(t, deal, link))

register_bitrix_customer_return(s, t, deal, card) ==
    LET effective == IF deal = None /\ card # None THEN cards[card] ELSE deal
    IN  /\ card # None => cards[card] \in {None, effective}
        /\ register_return(s, t, effective,
                           IF card = None THEN None ELSE Link(card, effective))

register_item_return(s, t, card) ==
    /\ IF shipments[t] = None THEN TRUE ELSE shipments[t].request # card
    /\ register_return(s, t, None, Link(card, None))

MutAnyDeal(row, deal) == TRUE
RequestAllowsDeal(row, deal) ==
    row.request = None \/ row.requestDeal = None \/ deal = row.requestDeal

update_return_deal_link(s, t, deal) ==
    LET row == shipments[t]
    IN  /\ row # None /\ deal # row.deal
        /\ RequestAllowsDeal(row, deal)
        /\ Load(s, Keep(t, [row EXCEPT !.deal = deal]))

LinkFits(row, link) ==
    /\ row.deal # None /\ link.deal # None => row.deal = link.deal
    /\ row.deal = None /\ link.deal # None => link.snapshot = link.deal

(* The deal is filled in only when the card changes.                         *)
MutSwapLink(row, link) == [row EXCEPT !.request = link.card, !.requestDeal = link.card]
Linked(row, link) ==
    [row EXCEPT !.request = link.card, !.requestDeal = link.deal,
                !.deal = IF row.request # link.card /\ row.deal = None
                         THEN link.snapshot ELSE @]

LinkKeys(row, link) ==
    IF row.request # link.card /\ row.deal = None /\ link.snapshot # None
    THEN {<<"deal-link-from-service-request", link.snapshot>>} ELSE {}

LinkRequest(t, link) ==
    [Keep(t, Linked(shipments[t], link)) EXCEPT !.keys = LinkKeys(shipments[t], link)]

update_return_service_request_link(s, t, card) ==
    LET row == shipments[t]
    IN  /\ row # None
        /\ IF card = None
           THEN /\ row.request # None
                /\ Load(s, Keep(t, [row EXCEPT !.request = None, !.requestDeal = None]))
           ELSE LET link == Link(card, cards[card])
                IN  /\ LinkFits(row, link) /\ Linked(row, link) # row
                    /\ Load(s, LinkRequest(t, link))

------------------------------------------------------------------------------
(* The commit.                                                               *)

MergeRow(old, new, current) ==
    [c \in DOMAIN new |-> IF old # None /\ new[c] = old[c] THEN current[c] ELSE new[c]]

(* The copy of an action, or the action committed since the load.            *)
Action(txn, a) ==
    IF txn.seen[a] # None THEN txn.seen[a] ELSE actions[txn.tracking][a]

Scheduled(txn, a) ==
    IF Action(txn, a) = None \/ Action(txn, a).status = "pending"
    THEN [status |-> "pending",
          deadline |-> IF a \in {"storage_reminder_3d", "storage_reminder_1d"}
                       THEN txn.new.deadline ELSE None]
    ELSE Action(txn, a)

SkipsControl(txn) ==
    /\ txn.settles
    /\ Action(txn, "onec_return_control") # None
    /\ Action(txn, "onec_return_control").status = "pending"

CompletesTask(txn) == txn.settles /\ Action(txn, "arrival_task") # None

(* What the session holds for action a; written only where it differs from   *)
(* what the session saw.                                                     *)
Held(txn, a) ==
    CASE a \in txn.schedule -> Scheduled(txn, a)
      [] a = "complete_return_task" /\ CompletesTask(txn) -> Scheduled(txn, a)
      [] a = "onec_return_control" /\ SkipsControl(txn) ->
            [Action(txn, a) EXCEPT !.status = "skipped"]
      [] OTHER -> Action(txn, a)
Written(txn, a) ==
    LET current == actions[txn.tracking][a]
        held == Held(txn, a)
    IN  IF held = Action(txn, a) THEN current
        ELSE IF Action(txn, a) = None THEN held
        ELSE MergeRow(Action(txn, a), held, current)

Inserts(txn) == txn.old = None
Collides(txn) ==
    \/ txn.keys \cap events[txn.tracking] # {}
    \/ Inserts(txn) /\ shipments[txn.tracking] # None

commit(s) ==
    /\ sess[s] # None
    /\ LET txn == sess[s]
           t == txn.tracking
           row == IF Inserts(txn) THEN txn.new ELSE MergeRow(txn.old, txn.new, shipments[t])
       IN  /\ txn.keys # {} \/ txn.new # txn.old
           /\ ~ Collides(txn)
           /\ shipments' = [shipments EXCEPT ![t] = row]
           /\ events' = [events EXCEPT ![t] = @ \cup txn.keys]
           /\ actions' = [actions EXCEPT ![t] = [a \in ActionTypes |-> Written(txn, a)]]
           /\ sess' = [sess EXCEPT ![s] =
                 IF txn.then = None THEN None
                 ELSE [txn EXCEPT !.old = row, !.new = row, !.keys = {}, !.schedule = {}]]
    /\ UNCHANGED <<cards>>

(* A registration that lost the race goes on with the winner's shipment; any *)
(* other collision is an error to the caller.                                *)
collide(s) ==
    /\ sess[s] # None /\ Collides(sess[s])
    /\ LET txn == sess[s]
           t == txn.tracking
       IN  sess' = [sess EXCEPT ![s] =
              IF Inserts(txn) /\ DealFits(shipments[t], txn.new.deal)
              THEN _fill_missing_registration_links(t, txn.new.deal, txn.then)
              ELSE None]
    /\ UNCHANGED <<registry, cards>>

(* A registration done, its request goes on to the link or is refused.       *)
Registered(txn) == txn.keys = {} /\ txn.new = txn.old
link_registered(s) ==
    /\ sess[s] # None /\ Registered(sess[s])
    /\ LET t == sess[s].tracking
           row == shipments[t]
           link == sess[s].then
       IN  sess' = [sess EXCEPT ![s] =
              IF link # None /\ LinkFits(row, link) /\ Linked(row, link) # row
              THEN LinkRequest(t, link) ELSE None]
    /\ UNCHANGED <<registry, cards>>

------------------------------------------------------------------------------
(* The worker of the outbox, and Bitrix24.                                   *)

WorkedOff(t) == {a \in ActionTypes :
    actions[t][a] # None /\ actions[t][a].status = "completed"}
complete_action(t, a) ==
    /\ actions[t][a] # None /\ actions[t][a].status = "pending"
    /\ Cardinality(WorkedOff(t)) < MaxWorked
    /\ actions' = [actions EXCEPT ![t][a].status = "completed"]
    /\ UNCHANGED <<shipments, events, sess, cards>>

(* Bitrix24 lets its users give a card a deal, or another one, or none, at   *)
(* any time: the registry sees it when it reads the card again.              *)
edit_card(card) ==
    /\ \E deal \in Deals \cup {None} :
        deal # cards[card] /\ cards' = [cards EXCEPT ![card] = deal]
    /\ UNCHANGED <<registry, sess>>

Next ==
    \/ \E s \in Sessions, t \in Trackings :
        \/ \E code \in Codes, occurred_at \in Times,
               deadline \in Deadlines \cup {None}, today \in Days :
              record_carrier_event(s, t, code, occurred_at, deadline, today)
        \/ confirm_pickup(s, t)
        \/ \E ref \in OneCReturns : confirm_onec_return(s, t, ref)
        \/ \E deal \in Deals \cup {None}, card \in Cards \cup {None} :
              register_bitrix_customer_return(s, t, deal, card)
        \/ \E card \in Cards : register_item_return(s, t, card)
        \/ \E deal \in Deals \cup {None} : update_return_deal_link(s, t, deal)
        \/ \E card \in Cards \cup {None} : update_return_service_request_link(s, t, card)
    \/ \E s \in Sessions : commit(s) \/ collide(s) \/ link_registered(s)
    \/ \E t \in Trackings, a \in ActionTypes : complete_action(t, a)
    \/ \E card \in Cards : edit_card(card)

Spec == Init /\ [][Next]_vars

------------------------------------------------------------------------------
(* Properties.                                                               *)

TypeOK ==
    /\ shipments \in [Trackings -> CustomerReturnShipment \cup {None}]
    /\ \A t \in Trackings : \A e \in CarrierEvents(t) : e[2] \in Codes /\ e[3] \in Times
    /\ actions \in [Trackings -> Actions]
    /\ \A s \in Sessions : sess[s] # None =>
        /\ sess[s].tracking \in Trackings
        /\ sess[s].old \in CustomerReturnShipment \cup {None}
        /\ sess[s].new \in CustomerReturnShipment
        /\ sess[s].seen \in Actions /\ sess[s].schedule \subseteq ActionTypes
    /\ cards \in [Cards -> Deals \cup {None}]

(* A parcel that was picked up, or whose return 1C confirmed, stays so       *)
(* whatever the carrier reports late, and 1C's confirmation outranks the     *)
(* pickup in whichever order they come.                                      *)
BusinessStatusHolds ==
    \A t \in Trackings :
        /\ Happened(t, "onec-return") => shipments[t].status = "onec_return_confirmed"
        /\ Happened(t, "pickup") => shipments[t].status \in BusinessTerminal

(* The carrier's last status and its date are those of the latest event by   *)
(* the carrier's own time, in whatever order the events arrived.             *)
LatestEventGoverns ==
    \A t \in Trackings : CarrierEvents(t) # {} =>
        /\ \A e \in CarrierEvents(t) : e[3] <= shipments[t].last
        /\ <<"carrier-event", shipments[t].code, shipments[t].last>> \in events[t]

(* A parcel at the pickup point has its task; one that was picked up has a   *)
(* control of 1C's return; and once 1C confirms, the task, if there is one,  *)
(* is to be completed.                                                       *)
StatusHasItsAction ==
    \A t \in Trackings : shipments[t] # None =>
        /\ shipments[t].status = "arrived_at_pickup_point" => actions[t]["arrival_task"] # None
        /\ Happened(t, "pickup") => actions[t]["onec_return_control"] # None
        /\ Happened(t, "onec-return") /\ actions[t]["arrival_task"] # None =>
              actions[t]["complete_return_task"] # None

(* Links and deals of a shipment, whatever Bitrix24's users do to the cards. *)
(* A change of the request takes no deal away.  A deal changes only to that  *)
(* of the request it then has, but where a registration filled it in.  And a *)
(* request is linked only with the deal that the shipment then has, but      *)
(* where the same card, linked again, brings the first deal there is.        *)
KeepsDeal(old, new, filled) ==
    LET relinked == new.request # old.request \/ new.requestDeal # old.requestDeal
    IN  /\ relinked => old.deal \in {None, new.deal}
        /\ new.deal # old.deal =>
              filled \/ new.request = None \/ new.requestDeal \in {None, new.deal}
        /\ relinked =>
              \/ new.requestDeal \in {None, new.deal}
              \/ new.deal = None /\ new.request = old.request

DealFollowsRequest ==
    [][\A t \in Trackings : shipments[t] # None =>
          KeepsDeal(shipments[t], shipments'[t],
                    <<"deal-link", shipments'[t].deal>> \in events'[t] \ events[t])]_vars

(* The deal of a linked service request fills in the one that a shipment     *)
(* lacks (docs/specs/customer-return-carrier-control.md:131).  The code does *)
(* this only where the card changes.                                         *)
RequestFillsDeal ==
    \A t \in Trackings : shipments[t] # None =>
        (shipments[t].requestDeal # None => shipments[t].deal # None)
==============================================================================
