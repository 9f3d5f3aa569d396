-------------------------- MODULE CustomerReturnsProofs --------------------------
(***************************************************************************)
(* Machine-checked safety of the registry of customer returns.             *)
(*                                                                         *)
(* TypeOK is proved for any number of API sessions.  The properties about  *)
(* what a shipment says are proved for one session at a time beside the    *)
(* worker of the outbox: get_return takes no lock, so with two sessions a  *)
(* check made on a copy need not hold of the row that the commit meets.    *)
(***************************************************************************)
EXTENDS CustomerReturns, TLAPS

OneSession == \A s, u \in Sessions : s = u

(* The dedupe keys of a shipment's events.                                   *)
CarrierKeys == {<<"carrier-event", code, at>> : code \in Codes, at \in Times}
OtherKeys ==
    {<<"registered">>, <<"pickup">>}
      \cup {<<"onec-return", ref>> : ref \in OneCReturns}
      \cup {<<"deal-link", deal>> : deal \in Deals}
      \cup {<<"deal-link-from-service-request", deal>> : deal \in Deals}
EventKeys == CarrierKeys \cup OtherKeys

Transaction ==
    [tracking: Trackings, old: CustomerReturnShipment \cup {None},
     new: CustomerReturnShipment, seen: Actions, keys: SUBSET EventKeys,
     schedule: SUBSET ActionTypes, settles: BOOLEAN, then: Links \cup {None}]

RegistryType ==
    /\ shipments \in [Trackings -> CustomerReturnShipment \cup {None}]
    /\ events \in [Trackings -> SUBSET EventKeys]
    /\ actions \in [Trackings -> Actions]
    /\ sess \in [Sessions -> Transaction \cup {None}]
    /\ cards \in [Cards -> Deals \cup {None}]

(* Rows are never deleted: what a session has read is still there.  And 1C's *)
(* confirmation, which settles a return, schedules nothing itself.           *)
StillThere(txn) ==
    /\ txn.settles => txn.schedule = {}
    /\ txn.old # None => shipments[txn.tracking] # None
    /\ \A a \in ActionTypes : txn.seen[a] # None => actions[txn.tracking][a] # None

RegistryInv ==
    /\ RegistryType
    /\ \A t \in Trackings : shipments[t] = None => events[t] = {}
    /\ \A s \in Sessions : sess[s] # None => StillThere(sess[s])

------------------------------------------------------------------------------
(* The keys of the carrier's events can be told from all others.             *)
LEMMA KeyKinds ==
    /\ \A code \in Codes, at \in Times : <<"carrier-event", code, at>> \in EventKeys
    /\ \A e \in EventKeys : e[1] = "carrier-event" =>
           /\ e[2] \in Codes /\ e[3] \in Times
           /\ e = <<"carrier-event", e[2], e[3]>>
<1>1. \A e \in OtherKeys : e[1] # "carrier-event"
    BY DEF OtherKeys
<1>2. \A e \in CarrierKeys : e[2] \in Codes /\ e[3] \in Times
                             /\ e = <<"carrier-event", e[2], e[3]>>
    BY DEF CarrierKeys
<1> QED BY <1>1, <1>2 DEF EventKeys, CarrierKeys

(* The merge of columns is again a row, and with nothing written in between  *)
(* it is the row of the session's copy.                                      *)
LEMMA MergeShipment ==
    ASSUME NEW old \in CustomerReturnShipment \cup {None},
           NEW new \in CustomerReturnShipment, NEW current \in CustomerReturnShipment
    PROVE  /\ MergeRow(old, new, current) \in CustomerReturnShipment
           /\ old = current => MergeRow(old, new, current) = new
<1> DEFINE keep(c) == IF old # None /\ new[c] = old[c] THEN current[c] ELSE new[c]
<1>1. DOMAIN new = {"status", "code", "last", "deadline", "ref", "deal", "request",
                    "requestDeal"}
    BY DEF CustomerReturnShipment
<1>2. MergeRow(old, new, current) =
        [status |-> keep("status"), code |-> keep("code"), last |-> keep("last"),
         deadline |-> keep("deadline"), ref |-> keep("ref"), deal |-> keep("deal"),
         request |-> keep("request"), requestDeal |-> keep("requestDeal")]
    BY <1>1 DEF MergeRow
<1>3. MergeRow(old, new, current) \in CustomerReturnShipment
    BY <1>2 DEF CustomerReturnShipment
<1>4. ASSUME old = current
      PROVE  MergeRow(old, new, current) = new
    BY <1>2, <1>4 DEF CustomerReturnShipment
<1> QED BY <1>3, <1>4

LEMMA MergeAction ==
    ASSUME NEW old \in CustomerReturnAction, NEW new \in CustomerReturnAction,
           NEW current \in CustomerReturnAction
    PROVE  MergeRow(old, new, current) \in CustomerReturnAction
<1> DEFINE keep(c) == IF old # None /\ new[c] = old[c] THEN current[c] ELSE new[c]
<1>1. DOMAIN new = {"status", "deadline"}
    BY DEF CustomerReturnAction
<1>2. MergeRow(old, new, current) =
        [status |-> keep("status"), deadline |-> keep("deadline")]
    BY <1>1 DEF MergeRow
<1> QED BY <1>2 DEF CustomerReturnAction

------------------------------------------------------------------------------
(* What a handler loads: the copy of a shipment, with what is to be written. *)
CopyOf(txn, t, new, keys, schedule, settles, then) ==
    /\ txn \in Transaction
    /\ txn.tracking = t /\ txn.old = shipments[t] /\ txn.seen = actions[t]
    /\ txn.new = new /\ txn.keys = keys /\ txn.schedule = schedule
    /\ txn.settles = settles /\ txn.then = then

Opens(s, txn) ==
    /\ sess' = [sess EXCEPT ![s] = txn]
    /\ UNCHANGED <<registry, cards>>

LEMMA InitRegistry == Init => RegistryInv
<1> SUFFICES ASSUME Init PROVE RegistryInv
    OBVIOUS
<1>1. RegistryType
    BY DEF Init, RegistryType, NoActions, Actions
<1> QED BY <1>1 DEF Init, RegistryInv

LEMMA KeepIsCopy ==
    ASSUME RegistryInv, NEW t \in Trackings, NEW new \in CustomerReturnShipment,
           NEW keys \in SUBSET EventKeys, NEW schedule \in SUBSET ActionTypes,
           NEW then \in Links \cup {None}
    PROVE  /\ CopyOf(Keep(t, new), t, new, {}, {}, FALSE, None)
           /\ CopyOf([Keep(t, new) EXCEPT !.keys = keys, !.schedule = schedule],
                     t, new, keys, schedule, FALSE, None)
           /\ CopyOf([Keep(t, new) EXCEPT !.keys = keys, !.settles = TRUE],
                     t, new, keys, {}, TRUE, None)
           /\ CopyOf([Keep(t, new) EXCEPT !.keys = keys, !.then = then],
                     t, new, keys, {}, FALSE, then)
           /\ CopyOf([Keep(t, new) EXCEPT !.then = then], t, new, {}, {}, FALSE, then)
           /\ CopyOf([Keep(t, new) EXCEPT !.keys = keys], t, new, keys, {}, FALSE, None)
<1>1. /\ shipments[t] \in CustomerReturnShipment \cup {None}
      /\ actions[t] \in Actions
    BY DEF RegistryInv, RegistryType
<1>2. CopyOf(Keep(t, new), t, new, {}, {}, FALSE, None)
    BY <1>1 DEF Keep, CopyOf, Transaction
<1>3. CopyOf([Keep(t, new) EXCEPT !.keys = keys, !.schedule = schedule],
             t, new, keys, schedule, FALSE, None)
    BY <1>1 DEF Keep, CopyOf, Transaction
<1>4. CopyOf([Keep(t, new) EXCEPT !.keys = keys, !.settles = TRUE],
             t, new, keys, {}, TRUE, None)
    BY <1>1 DEF Keep, CopyOf, Transaction
<1>5. CopyOf([Keep(t, new) EXCEPT !.keys = keys, !.then = then],
             t, new, keys, {}, FALSE, then)
    BY <1>1 DEF Keep, CopyOf, Transaction
<1>6. CopyOf([Keep(t, new) EXCEPT !.then = then], t, new, {}, {}, FALSE, then)
    BY <1>1 DEF Keep, CopyOf, Transaction
<1>7. CopyOf([Keep(t, new) EXCEPT !.keys = keys], t, new, keys, {}, FALSE, None)
    BY <1>1 DEF Keep, CopyOf, Transaction
<1> QED BY <1>2, <1>3, <1>4, <1>5, <1>6, <1>7

(* A copy just read is up to date.                                           *)
LEMMA CopyStillThere ==
    ASSUME NEW txn, NEW t, NEW new, NEW keys, NEW schedule, NEW settles, NEW then,
           CopyOf(txn, t, new, keys, schedule, settles, then), settles => schedule = {}
    PROVE  StillThere(txn)
BY DEF CopyOf, StillThere

(* A handler changes no table: it has to open a well-formed transaction.     *)
LEMMA OpensRegistry ==
    ASSUME RegistryInv, NEW s \in Sessions, NEW txn, Opens(s, txn),
           txn \in Transaction, StillThere(txn)
    PROVE  RegistryInv'
<1> USE DEF Opens, registry
<1>1. RegistryType'
    BY DEF RegistryInv, RegistryType
<1>2. (\A t \in Trackings : shipments[t] = None => events[t] = {})'
    BY DEF RegistryInv
<1>3. ASSUME NEW x \in Sessions, sess'[x] # None
      PROVE  StillThere(sess[x])'
    <2>1. sess'[x] = txn \/ sess'[x] = sess[x]
        BY DEF RegistryInv, RegistryType
    <2>2. StillThere(sess'[x])
        BY <1>3, <2>1 DEF RegistryInv
    <2> QED BY <2>2 DEF StillThere
<1> QED BY <1>1, <1>2, <1>3 DEF RegistryInv

(* A session that ends leaves the tables and the other sessions alone.       *)
LEMMA CloseRegistry ==
    ASSUME RegistryInv, NEW s \in Sessions, Opens(s, None)
    PROVE  RegistryInv'
<1> USE DEF Opens, registry
<1>1. RegistryType'
    BY DEF RegistryInv, RegistryType
<1>2. (\A t \in Trackings : shipments[t] = None => events[t] = {})'
    BY DEF RegistryInv
<1>3. ASSUME NEW x \in Sessions, sess'[x] # None
      PROVE  StillThere(sess[x])'
    <2>1. sess'[x] = None \/ sess'[x] = sess[x]
        BY DEF RegistryInv, RegistryType
    <2>2. StillThere(sess'[x])
        BY <1>3, <2>1 DEF RegistryInv
    <2> QED BY <2>2 DEF StillThere
<1> QED BY <1>1, <1>2, <1>3 DEF RegistryInv

(* Every handler of the API opens a transaction on the shipment's copy.      *)
LEMMA CarrierEventLoads ==
    ASSUME RegistryInv, NEW s \in Sessions, NEW t \in Trackings, NEW code \in Codes,
           NEW at \in Times, NEW deadline \in Deadlines \cup {None}, NEW today \in Days,
           record_carrier_event(s, t, code, at, deadline, today)
    PROVE  LET row == shipments[t]
               status == normalize_status(code)
               current == _is_current_carrier_event(row, at)
               applied == current /\ _should_apply_transport_status(row.status, status)
               key == <<"carrier-event", code, at>>
           IN  /\ row \in CustomerReturnShipment /\ row # None
               /\ sess[s] = None
               /\ \E new \in CustomerReturnShipment, schedule \in SUBSET ActionTypes :
                    /\ new.status = IF applied THEN status ELSE row.status
                    /\ new.code = IF current THEN code ELSE row.code
                    /\ new.last = IF current THEN at ELSE row.last
                    /\ new.ref = row.ref /\ new.deal = row.deal
                    /\ new.request = row.request /\ new.requestDeal = row.requestDeal
                    /\ applied /\ status = "arrived_at_pickup_point"
                         => "arrival_task" \in schedule
                    /\ "arrival_task" \in schedule
                         => new.status = "arrived_at_pickup_point"
                    /\ {key} \in SUBSET EventKeys
                    /\ \E txn : /\ CopyOf(txn, t, new, {key}, schedule, FALSE, None)
                                /\ Opens(s, txn)
<1> DEFINE row == shipments[t]
           status == normalize_status(code)
           current == _is_current_carrier_event(row, at)
           applied == current /\ _should_apply_transport_status(row.status, status)
           key == <<"carrier-event", code, at>>
           seen == IF current
                   THEN [row EXCEPT !.code = code, !.last = at,
                                    !.deadline = IF deadline # None THEN deadline ELSE @]
                   ELSE row
           new == IF applied THEN [seen EXCEPT !.status = status] ELSE seen
           arrives == \/ applied /\ status = "arrived_at_pickup_point"
                      \/ /\ current /\ deadline # None
                         /\ new.status = "arrived_at_pickup_point"
           schedule == IF arrives THEN ArrivalActions(new.deadline, today) ELSE {}
<1>1. row # None /\ row \in CustomerReturnShipment
    BY DEF record_carrier_event, RegistryInv, RegistryType
<1>2. Load(s, [Keep(t, new) EXCEPT !.keys = {key}, !.schedule = schedule])
    BY DEF record_carrier_event
<1>3. status \in Statuses
    BY DEF normalize_status, Statuses, Recognized
<1> HIDE DEF current, status
<1>4. /\ seen \in CustomerReturnShipment
      /\ seen.status = row.status
      /\ seen.code = IF current THEN code ELSE row.code
      /\ seen.last = IF current THEN at ELSE row.last
      /\ seen.ref = row.ref /\ seen.deal = row.deal
      /\ seen.request = row.request /\ seen.requestDeal = row.requestDeal
    BY <1>1 DEF CustomerReturnShipment
<1> HIDE DEF seen, applied
<1>5. /\ new \in CustomerReturnShipment
      /\ new.status = IF applied THEN status ELSE row.status
      /\ new.code = seen.code /\ new.last = seen.last
      /\ new.ref = row.ref /\ new.deal = row.deal
      /\ new.request = row.request /\ new.requestDeal = row.requestDeal
    BY <1>3, <1>4 DEF CustomerReturnShipment
<1> HIDE DEF new
<1>6. /\ schedule \in SUBSET ActionTypes
      /\ applied /\ status = "arrived_at_pickup_point" => "arrival_task" \in schedule
      /\ "arrival_task" \in schedule => new.status = "arrived_at_pickup_point"
    BY <1>5 DEF ArrivalActions, DueReminders, ActionTypes
<1> HIDE DEF schedule
<1>7. {key} \in SUBSET EventKeys
    BY KeyKinds
<1> HIDE DEF key
<1>8. PICK txn : txn = [Keep(t, new) EXCEPT !.keys = {key}, !.schedule = schedule]
    OBVIOUS
<1>9. Opens(s, txn) /\ sess[s] = None
    BY <1>2, <1>8 DEF Load, Opens
<1>10. CopyOf(txn, t, new, {key}, schedule, FALSE, None)
    BY <1>5, <1>6, <1>7, <1>8, KeepIsCopy
<1> QED BY <1>1, <1>4, <1>5, <1>6, <1>7, <1>9, <1>10 DEF key, current, status, applied

LEMMA PickupLoads ==
    ASSUME RegistryInv, NEW s \in Sessions, NEW t \in Trackings, confirm_pickup(s, t)
    PROVE  /\ shipments[t] # None /\ shipments[t] \in CustomerReturnShipment
           /\ sess[s] = None
           /\ PickedUp(shipments[t]) \in CustomerReturnShipment
           /\ {<<"pickup">>} \in SUBSET EventKeys
           /\ {"onec_return_control"} \in SUBSET ActionTypes
           /\ \E txn : /\ CopyOf(txn, t, PickedUp(shipments[t]), {<<"pickup">>},
                                 {"onec_return_control"}, FALSE, None)
                       /\ Opens(s, txn)
<1>1. shipments[t] # None /\ shipments[t] \in CustomerReturnShipment
    BY DEF confirm_pickup, RegistryInv, RegistryType
<1>2. PickedUp(shipments[t]) \in CustomerReturnShipment
    BY <1>1 DEF PickedUp, CustomerReturnShipment, Statuses, BusinessTerminal
<1>3. {<<"pickup">>} \in SUBSET EventKeys
    BY DEF EventKeys, OtherKeys
<1>4. {"onec_return_control"} \in SUBSET ActionTypes
    BY DEF ActionTypes
<1>5. PICK txn : txn = [Keep(t, PickedUp(shipments[t])) EXCEPT
                           !.keys = {<<"pickup">>}, !.schedule = {"onec_return_control"}]
    OBVIOUS
<1>6. Opens(s, txn) /\ sess[s] = None
    BY <1>5 DEF confirm_pickup, Load, Opens
<1>7. CopyOf(txn, t, PickedUp(shipments[t]), {<<"pickup">>}, {"onec_return_control"},
             FALSE, None)
    BY <1>2, <1>3, <1>4, <1>5, KeepIsCopy
<1> QED BY <1>1, <1>2, <1>3, <1>4, <1>6, <1>7

LEMMA OneCReturnLoads ==
    ASSUME RegistryInv, NEW s \in Sessions, NEW t \in Trackings, NEW ref \in OneCReturns,
           confirm_onec_return(s, t, ref)
    PROVE  LET new == [shipments[t] EXCEPT !.status = "onec_return_confirmed", !.ref = ref]
           IN  /\ shipments[t] # None /\ shipments[t] \in CustomerReturnShipment
               /\ sess[s] = None
               /\ new \in CustomerReturnShipment
               /\ {<<"onec-return", ref>>} \in SUBSET EventKeys
               /\ \E txn : /\ CopyOf(txn, t, new, {<<"onec-return", ref>>}, {}, TRUE, None)
                           /\ Opens(s, txn)
<1> DEFINE new == [shipments[t] EXCEPT !.status = "onec_return_confirmed", !.ref = ref]
<1>1. shipments[t] # None /\ shipments[t] \in CustomerReturnShipment
    BY DEF confirm_onec_return, RegistryInv, RegistryType
<1>2. new \in CustomerReturnShipment
    BY <1>1 DEF CustomerReturnShipment, Statuses, BusinessTerminal
<1>3. {<<"onec-return", ref>>} \in SUBSET EventKeys
    BY DEF EventKeys, OtherKeys
<1>4. Load(s, [Keep(t, new) EXCEPT !.keys = {<<"onec-return", ref>>}, !.settles = TRUE])
    BY DEF confirm_onec_return
<1> HIDE DEF new
<1>5. PICK txn : txn = [Keep(t, new) EXCEPT !.keys = {<<"onec-return", ref>>},
                                            !.settles = TRUE]
    OBVIOUS
<1>6. Opens(s, txn) /\ sess[s] = None
    BY <1>4, <1>5 DEF Load, Opens
<1>7. CopyOf(txn, t, new, {<<"onec-return", ref>>}, {}, TRUE, None)
    BY <1>2, <1>3, <1>5, KeepIsCopy DEF new
<1> QED BY <1>1, <1>2, <1>3, <1>6, <1>7 DEF new

------------------------------------------------------------------------------
(* Registration and links change nothing of what happened to the parcel.     *)

PlainKeys(keys) == \A e \in keys : e[1] \notin {"carrier-event", "pickup", "onec-return"}

(* The row as a handler leaves it keeps its deal beside its service request. *)
KeepsLink(row, new, keys) == KeepsDeal(row, new, <<"deal-link", new.deal>> \in keys)

(* A row whose links are left alone keeps its deal.                          *)
LEMMA SameLinks ==
    ASSUME NEW row, NEW new, NEW keys, new.deal = row.deal,
           new.request = row.request, new.requestDeal = row.requestDeal
    PROVE  KeepsLink(row, new, keys)
BY DEF KeepsLink, KeepsDeal

Relabels(row, new, keys) ==
    /\ new.status = row.status /\ new.code = row.code /\ new.last = row.last
    /\ KeepsLink(row, new, keys)

LinkOpened(s, t, link) ==
    \E txn : \E new \in CustomerReturnShipment, keys \in SUBSET EventKeys :
        /\ CopyOf(txn, t, new, keys, {}, FALSE, link)
        /\ Opens(s, txn)
        /\ PlainKeys(keys)
        /\ shipments[t] = None => new.status = "registered" /\ new.last = None
        /\ shipments[t] # None => Relabels(shipments[t], new, keys)

LEMMA LinkOpenedBy ==
    ASSUME NEW s, NEW t, NEW link, NEW txn, NEW new \in CustomerReturnShipment,
           NEW keys \in SUBSET EventKeys, CopyOf(txn, t, new, keys, {}, FALSE, link),
           Opens(s, txn), PlainKeys(keys),
           shipments[t] = None => new.status = "registered" /\ new.last = None,
           shipments[t] # None => Relabels(shipments[t], new, keys)
    PROVE  LinkOpened(s, t, link)
BY DEF LinkOpened

(* A registration of a known shipment fills in the deal it lacks.            *)
LEMMA FillMissing ==
    ASSUME RegistryInv, NEW t \in Trackings, NEW deal \in Deals \cup {None},
           NEW link \in Links \cup {None}, shipments[t] # None, NEW s \in Sessions,
           Opens(s, _fill_missing_registration_links(t, deal, link))
    PROVE  LinkOpened(s, t, link)
<1> DEFINE row == shipments[t]
           new == [row EXCEPT !.deal = deal]
           keys == {<<"deal-link", deal>>}
<1>1. row \in CustomerReturnShipment
    BY DEF RegistryInv, RegistryType
<1>2. CASE row.deal = None /\ deal # None
    <2>1. PICK txn : txn = [Keep(t, new) EXCEPT !.keys = keys, !.then = link]
        OBVIOUS
    <2>2. Opens(s, txn)
        BY <1>2, <2>1 DEF _fill_missing_registration_links
    <2>3. keys \in SUBSET EventKeys /\ PlainKeys(keys)
        BY <1>2 DEF EventKeys, OtherKeys, PlainKeys
    <2>4. /\ new \in CustomerReturnShipment
          /\ new.status = row.status /\ new.code = row.code /\ new.last = row.last
          /\ new.request = row.request /\ new.requestDeal = row.requestDeal
          /\ <<"deal-link", new.deal>> \in keys
        BY <1>1 DEF CustomerReturnShipment
    <2> HIDE DEF new, keys
    <2>5. CopyOf(txn, t, new, keys, {}, FALSE, link)
        BY <2>1, <2>3, <2>4, KeepIsCopy
    <2>6. Relabels(row, new, keys)
        BY <2>4 DEF Relabels, KeepsLink, KeepsDeal
    <2> HIDE DEF row
    <2> QED BY <2>2, <2>3, <2>4, <2>5, <2>6, LinkOpenedBy DEF row
<1>3. CASE ~(row.deal = None /\ deal # None)
    <2>1. PICK txn : txn = [Keep(t, row) EXCEPT !.then = link]
        OBVIOUS
    <2>2. Opens(s, txn)
        BY <1>3, <2>1 DEF _fill_missing_registration_links
    <2>3. CopyOf(txn, t, row, {}, {}, FALSE, link)
        BY <1>1, <2>1, KeepIsCopy
    <2>4. PlainKeys({}) /\ Relabels(row, row, {})
        BY SameLinks DEF PlainKeys, Relabels
    <2> QED BY <1>1, <2>2, <2>3, <2>4, LinkOpenedBy
<1> QED BY <1>2, <1>3

(* Linking a service request takes over its deal, or finds the same one.     *)
LEMMA LinkRequestLoads ==
    ASSUME RegistryInv, NEW t \in Trackings, NEW link \in Links, shipments[t] # None,
           NEW s \in Sessions, LinkFits(shipments[t], link), Opens(s, LinkRequest(t, link))
    PROVE  /\ Linked(shipments[t], link) \in CustomerReturnShipment
           /\ LinkOpened(s, t, None)
           /\ \E txn : /\ Opens(s, txn)
                       /\ txn \in Transaction /\ StillThere(txn)
<1> DEFINE row == shipments[t]
           new == Linked(row, link)
           keys == LinkKeys(row, link)
<1>1. row \in CustomerReturnShipment
    BY DEF RegistryInv, RegistryType
<1>2. /\ link.card \in Cards /\ link.card # None
      /\ link.deal \in Deals \cup {None} /\ link.snapshot \in Deals \cup {None}
    BY ReturnsAssumption DEF Links
<1>3. keys \in SUBSET EventKeys /\ PlainKeys(keys)
    BY <1>2 DEF LinkKeys, EventKeys, OtherKeys, PlainKeys
<1>4. /\ new \in CustomerReturnShipment
      /\ new.status = row.status /\ new.code = row.code /\ new.last = row.last
      /\ new.request = link.card /\ new.requestDeal = link.deal
      /\ new.deal = IF row.request # link.card /\ row.deal = None
                    THEN link.snapshot ELSE row.deal
    <2>1. PICK known : known = row
        OBVIOUS
    <2> DEFINE deal == IF known.request # link.card /\ known.deal = None
                       THEN link.snapshot ELSE known.deal
    <2>2. deal \in Deals \cup {None}
        BY <1>1, <1>2, <2>1 DEF CustomerReturnShipment
    <2>3. new = [known EXCEPT !.request = link.card, !.requestDeal = link.deal,
                              !.deal = deal]
        BY <2>1 DEF Linked
    <2> HIDE DEF deal, new
    <2>4. /\ new \in CustomerReturnShipment
          /\ new.status = known.status /\ new.code = known.code /\ new.last = known.last
          /\ new.request = link.card /\ new.requestDeal = link.deal /\ new.deal = deal
        BY <1>1, <1>2, <2>1, <2>2, <2>3 DEF CustomerReturnShipment
    <2> QED BY <2>1, <2>4 DEF deal
<1>5. LinkFits(row, link)
    OBVIOUS
<1>6. PICK txn : txn = [Keep(t, new) EXCEPT !.keys = keys]
    OBVIOUS
<1>7. Opens(s, txn)
    BY <1>6 DEF LinkRequest
<1> HIDE DEF new, keys
<1>8. CopyOf(txn, t, new, keys, {}, FALSE, None)
    BY <1>3, <1>4, <1>6, KeepIsCopy
<1>9. Relabels(row, new, keys)
    <2>1. KeepsLink(row, new, keys)
        BY <1>4, <1>5 DEF KeepsLink, KeepsDeal, LinkFits
    <2> QED BY <1>4, <2>1 DEF Relabels
<1>10. StillThere(txn) /\ txn \in Transaction
    BY <1>8, CopyStillThere DEF CopyOf
<1>11. LinkOpened(s, t, None)
    BY <1>3, <1>4, <1>7, <1>8, <1>9, LinkOpenedBy
<1> QED BY <1>4, <1>7, <1>10, <1>11 DEF new

LEMMA RegisterReturnLoads ==
    ASSUME RegistryInv, NEW s \in Sessions, NEW t \in Trackings,
           NEW deal \in Deals \cup {None}, NEW link \in Links \cup {None},
           register_return(s, t, deal, link)
    PROVE  LinkOpened(s, t, link) /\ sess[s] = None
<1>1. CASE shipments[t] = None
    <2> DEFINE new == NewShipment(deal)
               keys == {<<"registered">>}
    <2>1. /\ new \in CustomerReturnShipment
          /\ new.status = "registered" /\ new.last = None
        BY DEF NewShipment, CustomerReturnShipment, Statuses, Recognized
    <2>2. keys \in SUBSET EventKeys /\ PlainKeys(keys)
        BY DEF EventKeys, OtherKeys, PlainKeys
    <2>3. PICK txn : txn = [Keep(t, new) EXCEPT !.keys = keys, !.then = link]
        OBVIOUS
    <2>4. Opens(s, txn) /\ sess[s] = None
        BY <1>1, <2>3 DEF register_return, Load, Opens
    <2> HIDE DEF new, keys
    <2>5. CopyOf(txn, t, new, keys, {}, FALSE, link)
        BY <2>1, <2>2, <2>3, KeepIsCopy
    <2> QED BY <1>1, <2>1, <2>2, <2>4, <2>5, LinkOpenedBy
<1>2. CASE shipments[t] # None
    <2>1. Load(s, _fill_missing_registration_links(t, deal, link))
        BY <1>2 DEF register_return
    <2>2. Opens(s, _fill_missing_registration_links(t, deal, link)) /\ sess[s] = None
        BY <2>1 DEF Load, Opens
    <2> QED BY <1>2, <2>2, FillMissing
<1> QED BY <1>1, <1>2

(* The handlers that register or link a shipment.                            *)
LEMMA LinkHandlersLoad ==
    ASSUME RegistryInv, NEW s \in Sessions, NEW t \in Trackings,
           \/ \E deal \in Deals \cup {None}, card \in Cards \cup {None} :
                  register_bitrix_customer_return(s, t, deal, card)
           \/ \E card \in Cards : register_item_return(s, t, card)
           \/ \E deal \in Deals \cup {None} : update_return_deal_link(s, t, deal)
           \/ \E card \in Cards \cup {None} : update_return_service_request_link(s, t, card)
    PROVE  /\ sess[s] = None
           /\ \E link \in Links \cup {None} : LinkOpened(s, t, link)
<1>1. ASSUME NEW card \in Cards, NEW snapshot \in Deals \cup {None}
      PROVE  Link(card, snapshot) \in Links /\ cards[card] \in Deals \cup {None}
    BY DEF Link, Links, RegistryInv, RegistryType
<1>2. None \in Links \cup {None}
    OBVIOUS
<1>3. CASE \E deal \in Deals \cup {None}, card \in Cards \cup {None} :
               register_bitrix_customer_return(s, t, deal, card)
    <2>1. PICK deal \in Deals \cup {None}, card \in Cards \cup {None} :
              register_bitrix_customer_return(s, t, deal, card)
        BY <1>3
    <2>2. PICK effective : effective = IF deal = None /\ card # None THEN cards[card] ELSE deal
        OBVIOUS
    <2>3. PICK link : link = IF card = None THEN None ELSE Link(card, effective)
        OBVIOUS
    <2>4. effective \in Deals \cup {None}
        BY <1>1, <2>2
    <2>5. link \in Links \cup {None}
        BY <1>1, <2>3, <2>4
    <2>6. register_return(s, t, effective, link)
        BY <2>1, <2>2, <2>3 DEF register_bitrix_customer_return
    <2> QED BY <2>4, <2>5, <2>6, RegisterReturnLoads
<1>4. CASE \E card \in Cards : register_item_return(s, t, card)
    <2>1. PICK card \in Cards : register_item_return(s, t, card)
        BY <1>4
    <2>2. register_return(s, t, None, Link(card, None))
        BY <2>1 DEF register_item_return
    <2> QED BY <1>1, <2>2, RegisterReturnLoads
<1>5. CASE \E deal \in Deals \cup {None} : update_return_deal_link(s, t, deal)
    <2>1. PICK deal \in Deals \cup {None} : update_return_deal_link(s, t, deal)
        BY <1>5
    <2>2. PICK row : row = shipments[t]
        OBVIOUS
    <2> DEFINE new == [row EXCEPT !.deal = deal]
    <2>3. /\ row \in CustomerReturnShipment /\ row # None /\ RequestAllowsDeal(row, deal)
          /\ Load(s, Keep(t, new))
        BY <2>1, <2>2 DEF update_return_deal_link, RegistryInv, RegistryType
    <2>4. /\ new \in CustomerReturnShipment /\ new.deal = deal
          /\ new.status = row.status /\ new.code = row.code /\ new.last = row.last
          /\ new.request = row.request /\ new.requestDeal = row.requestDeal
        BY <2>3 DEF CustomerReturnShipment
    <2>5. PICK txn : txn = Keep(t, new)
        OBVIOUS
    <2>6. Opens(s, txn) /\ sess[s] = None
        BY <2>3, <2>5 DEF Load, Opens
    <2> HIDE DEF new
    <2>7. CopyOf(txn, t, new, {}, {}, FALSE, None)
        BY <2>4, <2>5, KeepIsCopy
    <2>8. PlainKeys({}) /\ Relabels(row, new, {})
        BY <2>3, <2>4 DEF PlainKeys, Relabels, KeepsLink, KeepsDeal, RequestAllowsDeal
    <2>9. LinkOpened(s, t, None)
        BY <2>2, <2>3, <2>4, <2>6, <2>7, <2>8, LinkOpenedBy
    <2> QED BY <1>2, <2>6, <2>9
<1>6. CASE \E card \in Cards \cup {None} : update_return_service_request_link(s, t, card)
    <2>1. PICK card \in Cards \cup {None} : update_return_service_request_link(s, t, card)
        BY <1>6
    <2>2. PICK row : row = shipments[t]
        OBVIOUS
    <2>3. row \in CustomerReturnShipment /\ row # None
        BY <2>1, <2>2 DEF update_return_service_request_link, RegistryInv, RegistryType
    <2>4. CASE card = None
        <3> DEFINE new == [row EXCEPT !.request = None, !.requestDeal = None]
        <3>1. Load(s, Keep(t, new))
            BY <2>1, <2>2, <2>4 DEF update_return_service_request_link
        <3>2. /\ new \in CustomerReturnShipment
              /\ new.status = row.status /\ new.code = row.code /\ new.last = row.last
              /\ new.request = None /\ new.requestDeal = None /\ new.deal = row.deal
            BY <2>3 DEF CustomerReturnShipment
        <3>3. PICK txn : txn = Keep(t, new)
            OBVIOUS
        <3>4. Opens(s, txn) /\ sess[s] = None
            BY <3>1, <3>3 DEF Load, Opens
        <3> HIDE DEF new
        <3>5. CopyOf(txn, t, new, {}, {}, FALSE, None)
            BY <3>2, <3>3, KeepIsCopy
        <3>6. PlainKeys({}) /\ Relabels(row, new, {})
            BY <3>2 DEF PlainKeys, Relabels, KeepsLink, KeepsDeal
        <3>7. LinkOpened(s, t, None)
            BY <2>2, <2>3, <3>2, <3>4, <3>5, <3>6, LinkOpenedBy
        <3> QED BY <1>2, <3>4, <3>7
    <2>5. CASE card # None
        <3>1. PICK link : link = Link(card, cards[card])
            OBVIOUS
        <3>2. link \in Links
            BY <1>1, <2>5, <3>1
        <3>3. LinkFits(shipments[t], link) /\ Load(s, LinkRequest(t, link))
            BY <2>1, <2>2, <2>5, <3>1 DEF update_return_service_request_link
        <3>4. Opens(s, LinkRequest(t, link)) /\ sess[s] = None
            BY <3>3 DEF Load, Opens
        <3>5. LinkOpened(s, t, None)
            BY <2>2, <2>3, <3>2, <3>3, <3>4, LinkRequestLoads
        <3> QED BY <1>2, <3>4, <3>5
    <2> QED BY <2>4, <2>5
<1> QED BY <1>3, <1>4, <1>5, <1>6

------------------------------------------------------------------------------
(* The commit.                                                               *)

(* A commit never loses an action, and adds those it schedules, and the one  *)
(* that completes the task when 1C's confirmation settles the return.        *)
LEMMA WrittenFacts ==
    ASSUME RegistryInv, NEW txn \in Transaction, StillThere(txn), NEW a \in ActionTypes
    PROVE  LET current == actions[txn.tracking][a]
               adds == \/ a \in txn.schedule
                       \/ a = "complete_return_task" /\ CompletesTask(txn)
           IN  /\ Action(txn, a) # None <=> current # None
               /\ Written(txn, a) \in CustomerReturnAction \cup {None}
               /\ Written(txn, a) # None <=> current # None \/ adds
<1>1. PICK seen, current : seen = txn.seen[a] /\ current = actions[txn.tracking][a]
    OBVIOUS
<1>2. PICK action : action = Action(txn, a)
    OBVIOUS
<1>3. /\ seen \in CustomerReturnAction \cup {None}
      /\ current \in CustomerReturnAction \cup {None}
      /\ seen # None => current # None
    BY <1>1 DEF Transaction, StillThere, RegistryInv, RegistryType, Actions
<1>4. /\ action \in CustomerReturnAction \cup {None}
      /\ action # None <=> current # None
    BY <1>1, <1>2, <1>3 DEF Action
<1>5. txn.new.deadline \in Deadlines \cup {None}
    BY DEF Transaction, CustomerReturnShipment
<1>6. Scheduled(txn, a) \in CustomerReturnAction
    <2>1. CASE action = None \/ action.status = "pending"
        BY <1>2, <1>5, <2>1 DEF Scheduled, CustomerReturnAction
    <2>2. CASE ~(action = None \/ action.status = "pending")
        BY <1>2, <1>4, <2>2 DEF Scheduled
    <2> QED BY <2>1, <2>2
<1>7. PICK held : held = Held(txn, a)
    OBVIOUS
<1>8. CASE a \in txn.schedule \/ (a = "complete_return_task" /\ CompletesTask(txn))
    <2>1. held = Scheduled(txn, a)
        <3>1. CASE a \in txn.schedule
            <4>1. ~SkipsControl(txn) /\ ~CompletesTask(txn)
                BY <3>1 DEF StillThere, SkipsControl, CompletesTask
            <4> QED BY <1>7, <3>1, <4>1 DEF Held
        <3>2. CASE a \notin txn.schedule /\ a = "complete_return_task" /\ CompletesTask(txn)
            BY <1>7, <3>2 DEF Held
        <3> QED BY <1>8, <3>1, <3>2
    <2>2. held \in CustomerReturnAction
        BY <1>6, <2>1
    <2>3. held = action => current # None
        BY <1>4, <2>2, NoRowAssumption
    <2>4. Written(txn, a) = IF held = action THEN current
                            ELSE IF action = None THEN held
                            ELSE MergeRow(action, held, current)
        BY <1>1, <1>2, <1>7 DEF Written
    <2>5. action # None => MergeRow(action, held, current) \in CustomerReturnAction
        BY <1>3, <1>4, <2>2, MergeAction
    <2>6. Written(txn, a) \in CustomerReturnAction
        BY <1>3, <2>2, <2>3, <2>4, <2>5
    <2> QED BY <1>1, <1>2, <1>4, <1>8, <2>6, NoRowAssumption
<1>9. CASE ~(a \in txn.schedule \/ (a = "complete_return_task" /\ CompletesTask(txn)))
    <2>1. held = action \/ (action # None /\ held \in CustomerReturnAction)
        <3>1. CASE a = "onec_return_control" /\ SkipsControl(txn)
            <4>1. action # None
                BY <1>2, <3>1 DEF SkipsControl
            <4>2. held = [action EXCEPT !.status = "skipped"]
                BY <1>2, <1>7, <1>9, <3>1 DEF Held
            <4> QED BY <1>4, <4>1, <4>2 DEF CustomerReturnAction
        <3>2. CASE ~(a = "onec_return_control" /\ SkipsControl(txn))
            BY <1>2, <1>7, <1>9, <3>2 DEF Held
        <3> QED BY <3>1, <3>2
    <2>2. Written(txn, a) = IF held = action THEN current
                            ELSE IF action = None THEN held
                            ELSE MergeRow(action, held, current)
        BY <1>1, <1>2, <1>7 DEF Written
    <2>3. CASE held = action
        BY <1>1, <1>2, <1>3, <1>4, <1>9, <2>2, <2>3
    <2>4. CASE held # action
        <3>1. MergeRow(action, held, current) \in CustomerReturnAction
            BY <1>3, <1>4, <2>1, <2>4, MergeAction
        <3>2. Written(txn, a) \in CustomerReturnAction /\ current # None
            BY <1>4, <2>1, <2>2, <2>4, <3>1
        <3> QED BY <1>1, <1>2, <1>4, <1>9, <3>2, NoRowAssumption
    <2> QED BY <2>3, <2>4
<1> QED BY <1>8, <1>9

(* What a commit writes, and what its session goes on with.                  *)
Commits(s, txn, t, row, next) ==
    /\ txn = sess[s] /\ t = txn.tracking /\ row # None /\ StillThere(txn)
    /\ row = IF txn.old = None THEN txn.new ELSE MergeRow(txn.old, txn.new, shipments[t])
    /\ shipments' = [shipments EXCEPT ![t] = row]
    /\ events' = [events EXCEPT ![t] = events[t] \cup txn.keys]
    /\ actions' = [actions EXCEPT ![t] = [a \in ActionTypes |-> Written(txn, a)]]
    /\ UNCHANGED cards
    /\ sess' = [sess EXCEPT ![s] = next]
    /\ \/ next = None
       \/ /\ next \in Transaction
          /\ next.tracking = t /\ next.old = row /\ next.new = row
          /\ next.seen = txn.seen /\ next.keys = {} /\ next.schedule = {}
          /\ next.settles = txn.settles /\ next.then = txn.then

LEMMA CommitFacts ==
    ASSUME RegistryInv, NEW s \in Sessions, commit(s)
    PROVE  \E txn \in Transaction, t \in Trackings, row \in CustomerReturnShipment :
               \E next : Commits(s, txn, t, row, next)
<1>1. PICK txn : txn = sess[s]
    OBVIOUS
<1>2. PICK t : t = txn.tracking
    OBVIOUS
<1>3. /\ txn \in Transaction /\ StillThere(txn)
    BY <1>1 DEF commit, RegistryInv, RegistryType
<1>4. t \in Trackings /\ txn.new \in CustomerReturnShipment
      /\ txn.old \in CustomerReturnShipment \cup {None}
    BY <1>2, <1>3 DEF Transaction
<1>5. PICK row : row = IF txn.old = None THEN txn.new
                       ELSE MergeRow(txn.old, txn.new, shipments[t])
    OBVIOUS
<1>6. row \in CustomerReturnShipment
    <2>1. txn.old # None => shipments[t] \in CustomerReturnShipment
        BY <1>2, <1>3, <1>4 DEF StillThere, RegistryInv, RegistryType
    <2> QED BY <1>4, <1>5, <2>1, MergeShipment
<1>7. /\ shipments' = [shipments EXCEPT ![t] = row]
      /\ events' = [events EXCEPT ![t] = events[t] \cup txn.keys]
      /\ actions' = [actions EXCEPT ![t] = [a \in ActionTypes |-> Written(txn, a)]]
      /\ UNCHANGED cards
      /\ sess' = [sess EXCEPT ![s] =
            IF txn.then = None THEN None
            ELSE [txn EXCEPT !.old = row, !.new = row, !.keys = {}, !.schedule = {}]]
    <2>1. row = IF Inserts(txn) THEN txn.new ELSE MergeRow(txn.old, txn.new, shipments[t])
        BY <1>5 DEF Inserts
    <2> QED BY <1>1, <1>2, <2>1, Zenon DEF commit
<1>8. PICK next : next = IF txn.then = None THEN None
            ELSE [txn EXCEPT !.old = row, !.new = row, !.keys = {}, !.schedule = {}]
    OBVIOUS
<1>9. \/ next = None
      \/ /\ next \in Transaction
         /\ next.tracking = t /\ next.old = row /\ next.new = row
         /\ next.seen = txn.seen /\ next.keys = {}
         /\ next.schedule = {} /\ next.settles = txn.settles
         /\ next.then = txn.then
    <2>1. CASE txn.then = None
        BY <1>8, <2>1
    <2>2. CASE txn.then # None
        <3>1. next = [txn EXCEPT !.old = row, !.new = row, !.keys = {}, !.schedule = {}]
            BY <1>8, <2>2
        <3> QED BY <1>2, <1>3, <1>6, <3>1 DEF Transaction
    <2> QED BY <2>1, <2>2
<1>10. sess' = [sess EXCEPT ![s] = next]
    BY <1>7, <1>8
<1>11. row # None
    BY <1>6, NoRowAssumption
<1>12. Commits(s, txn, t, row, next)
    BY <1>1, <1>2, <1>3, <1>5, <1>7, <1>9, <1>10, <1>11, Zenon DEF Commits
<1> QED BY <1>3, <1>4, <1>6, <1>12

LEMMA CommitRegistry ==
    ASSUME RegistryInv, NEW s \in Sessions, commit(s)
    PROVE  RegistryInv'
<1>1. PICK txn \in Transaction, t \in Trackings, row \in CustomerReturnShipment :
          \E next : Commits(s, txn, t, row, next)
    BY CommitFacts
<1>2. PICK next : Commits(s, txn, t, row, next)
    BY <1>1
<1> USE <1>2 DEF Commits
<1>3. \A a \in ActionTypes :
          /\ Written(txn, a) \in CustomerReturnAction \cup {None}
          /\ actions[t][a] # None => Written(txn, a) # None
    BY <1>1, WrittenFacts
<1>4. PICK written : written = [a \in ActionTypes |-> Written(txn, a)]
    OBVIOUS
<1>5. written \in Actions /\ \A a \in ActionTypes : actions[t][a] # None => written[a] # None
    BY <1>3, <1>4 DEF Actions
<1>6. /\ shipments \in [Trackings -> CustomerReturnShipment \cup {None}]
      /\ events \in [Trackings -> SUBSET EventKeys]
      /\ actions \in [Trackings -> Actions]
      /\ sess \in [Sessions -> Transaction \cup {None}]
      /\ cards \in [Cards -> Deals \cup {None}]
    BY DEF RegistryInv, RegistryType
<1>7. txn.keys \in SUBSET EventKeys
    BY DEF Transaction
<1>8. actions' = [actions EXCEPT ![t] = written]
    BY <1>1, <1>4
<1>9. RegistryType'
    BY <1>1, <1>2, <1>5, <1>6, <1>7, <1>8 DEF RegistryType
<1>10. (\A x \in Trackings : shipments[x] = None => events[x] = {})'
    BY <1>1, <1>6 DEF RegistryInv
<1>11. \A x \in Trackings : /\ shipments[x] # None => shipments'[x] # None
                            /\ \A a \in ActionTypes :
                                   actions[x][a] # None => actions'[x][a] # None
    BY <1>1, <1>5, <1>6, <1>8
<1>12. ASSUME NEW x \in Sessions, sess'[x] # None
       PROVE  StillThere(sess[x])'
    <2>1. PICK other : other = sess'[x]
        OBVIOUS
    <2>2. CASE x = s
        <3>1. /\ other.tracking = t /\ shipments'[t] # None
              /\ other.seen = txn.seen /\ other.schedule = {}
            BY <1>1, <1>2, <1>6, <1>12, <2>1, <2>2
        <3>2. \A a \in ActionTypes : txn.seen[a] # None => actions[t][a] # None
            BY <1>1 DEF StillThere
        <3> QED BY <1>11, <2>1, <3>1, <3>2 DEF StillThere
    <2>3. CASE x # s
        <3>1. sess[x] = other
            BY <1>2, <1>6, <2>1, <2>3
        <3>2. other \in Transaction /\ StillThere(other)
            BY <1>6, <1>12, <2>1, <3>1 DEF RegistryInv
        <3>3. other.tracking \in Trackings
            BY <3>2 DEF Transaction
        <3> QED BY <1>11, <2>1, <3>2, <3>3 DEF StillThere
    <2> QED BY <2>2, <2>3
<1> QED BY <1>9, <1>10, <1>12 DEF RegistryInv

LEMMA LinkOpenedRegistry ==
    ASSUME RegistryInv, NEW s \in Sessions, NEW t, NEW link, LinkOpened(s, t, link)
    PROVE  RegistryInv'
<1>1. PICK txn : \E new \in CustomerReturnShipment, keys \in SUBSET EventKeys :
          CopyOf(txn, t, new, keys, {}, FALSE, link) /\ Opens(s, txn)
    BY DEF LinkOpened
<1>2. txn \in Transaction /\ StillThere(txn) /\ Opens(s, txn)
    BY <1>1, CopyStillThere DEF CopyOf
<1> QED BY <1>2, OpensRegistry

(* A registration that lost the race loads the winner's shipment.            *)
LEMMA CollideLoads ==
    ASSUME RegistryInv, NEW s \in Sessions, collide(s)
    PROVE  \/ Opens(s, None)
           \/ /\ sess[s].old = None /\ shipments[sess[s].tracking] # None
              /\ LinkOpened(s, sess[s].tracking, sess[s].then)
<1>1. PICK txn : txn = sess[s]
    OBVIOUS
<1>2. PICK t : t = txn.tracking
    OBVIOUS
<1>3. txn \in Transaction /\ Collides(txn)
    BY <1>1 DEF collide, RegistryInv, RegistryType
<1>4. /\ t \in Trackings /\ txn.new \in CustomerReturnShipment
      /\ txn.then \in Links \cup {None}
    BY <1>2, <1>3 DEF Transaction
<1>5. shipments[t] # None
    BY <1>2, <1>3, <1>4 DEF Collides, RegistryInv
<1>6. txn.new.deal \in Deals \cup {None}
    BY <1>4 DEF CustomerReturnShipment
<1>7. \/ Opens(s, None)
      \/ /\ txn.old = None
         /\ Opens(s, _fill_missing_registration_links(t, txn.new.deal, txn.then))
    BY <1>1, <1>2 DEF collide, Opens, Inserts
<1> QED BY <1>1, <1>2, <1>4, <1>5, <1>6, <1>7, FillMissing

(* A registration goes on to its link.                                       *)
LEMMA LinkRegisteredLoads ==
    ASSUME RegistryInv, NEW s \in Sessions, link_registered(s)
    PROVE  /\ RegistryInv'
           /\ \/ Opens(s, None)
              \/ LinkOpened(s, sess[s].tracking, None)
<1>1. PICK txn : txn = sess[s]
    OBVIOUS
<1>2. PICK t : t = txn.tracking
    OBVIOUS
<1>3. txn \in Transaction /\ StillThere(txn) /\ Registered(txn)
    BY <1>1 DEF link_registered, RegistryInv, RegistryType
<1>4. /\ t \in Trackings /\ txn.new \in CustomerReturnShipment
      /\ txn.then \in Links \cup {None}
    BY <1>2, <1>3 DEF Transaction
<1>5. shipments[t] # None
    BY <1>2, <1>3, <1>4, NoRowAssumption DEF StillThere, Registered
<1>6. \/ Opens(s, None)
      \/ /\ txn.then # None /\ LinkFits(shipments[t], txn.then)
         /\ Opens(s, LinkRequest(t, txn.then))
    BY <1>1, <1>2 DEF link_registered, Opens
<1>7. CASE Opens(s, None)
    BY <1>7, CloseRegistry
<1>8. CASE /\ txn.then # None /\ LinkFits(shipments[t], txn.then)
           /\ Opens(s, LinkRequest(t, txn.then))
    <2>1. /\ LinkOpened(s, t, None)
          /\ \E x : Opens(s, x) /\ x \in Transaction /\ StillThere(x)
        BY <1>4, <1>5, <1>8, LinkRequestLoads
    <2> QED BY <1>1, <1>2, <2>1, OpensRegistry
<1> QED BY <1>6, <1>7, <1>8

(* The worker of the outbox works an action off.                             *)
LEMMA CompleteActionRegistry ==
    ASSUME RegistryInv, NEW t \in Trackings, NEW a \in ActionTypes, complete_action(t, a)
    PROVE  /\ RegistryInv'
           /\ \A x \in Trackings, b \in ActionTypes : actions'[x][b] # None <=> actions[x][b] # None
<1>1. /\ actions \in [Trackings -> Actions]
      /\ actions[t][a] # None /\ actions[t][a] \in CustomerReturnAction
    BY DEF complete_action, RegistryInv, RegistryType, Actions
<1>2. PICK done : done = [actions[t][a] EXCEPT !.status = "completed"]
    OBVIOUS
<1>3. done \in CustomerReturnAction /\ done # None
    BY <1>1, <1>2, NoRowAssumption DEF CustomerReturnAction
<1>4. PICK row : row = [actions[t] EXCEPT ![a] = done]
    OBVIOUS
<1>5. /\ row \in Actions
      /\ \A b \in ActionTypes : row[b] # None <=> actions[t][b] # None
    BY <1>1, <1>3, <1>4 DEF Actions
<1>6. actions' = [actions EXCEPT ![t] = row]
    BY <1>1, <1>2, <1>4 DEF complete_action
<1>7. /\ actions' \in [Trackings -> Actions]
      /\ \A x \in Trackings, b \in ActionTypes : actions'[x][b] # None <=> actions[x][b] # None
    BY <1>1, <1>5, <1>6
<1>8. UNCHANGED <<shipments, events, sess, cards>>
    BY DEF complete_action
<1>9. RegistryType'
    BY <1>7, <1>8 DEF RegistryInv, RegistryType
<1>10. (\A x \in Trackings : shipments[x] = None => events[x] = {})'
    BY <1>8 DEF RegistryInv
<1>11. ASSUME NEW x \in Sessions, sess'[x] # None
       PROVE  StillThere(sess[x])'
    <2>1. sess[x] \in Transaction /\ StillThere(sess[x])
        BY <1>8, <1>11 DEF RegistryInv, RegistryType
    <2>2. sess[x].tracking \in Trackings
        BY <2>1 DEF Transaction
    <2> QED BY <1>7, <1>8, <2>1, <2>2 DEF StillThere
<1> QED BY <1>7, <1>9, <1>10, <1>11 DEF RegistryInv

LEMMA EditCardRegistry ==
    ASSUME RegistryInv, NEW card \in Cards, edit_card(card)
    PROVE  RegistryInv'
<1>1. UNCHANGED <<shipments, events, actions, sess>>
    BY DEF edit_card, registry
<1>2. RegistryType'
    BY <1>1 DEF edit_card, RegistryInv, RegistryType
<1>3. (\A x \in Trackings : shipments[x] = None => events[x] = {})'
    BY <1>1 DEF RegistryInv
<1>4. ASSUME NEW x \in Sessions, sess'[x] # None
      PROVE  StillThere(sess[x])'
    BY <1>1, <1>4 DEF RegistryInv, StillThere
<1> QED BY <1>2, <1>3, <1>4 DEF RegistryInv

LEMMA NextRegistry == RegistryInv /\ [Next]_vars => RegistryInv'
<1> SUFFICES ASSUME RegistryInv, [Next]_vars PROVE RegistryInv'
    OBVIOUS
<1>1. ASSUME NEW s \in Sessions, NEW t \in Trackings, NEW code \in Codes,
             NEW at \in Times, NEW deadline \in Deadlines \cup {None}, NEW today \in Days,
             record_carrier_event(s, t, code, at, deadline, today)
      PROVE  RegistryInv'
    <2>1. \E txn, new, keys, schedule :
              CopyOf(txn, t, new, keys, schedule, FALSE, None) /\ Opens(s, txn)
        BY <1>1, CarrierEventLoads
    <2>2. \E txn : txn \in Transaction /\ StillThere(txn) /\ Opens(s, txn)
        BY <2>1, CopyStillThere DEF CopyOf
    <2> QED BY <2>2, OpensRegistry
<1>2. ASSUME NEW s \in Sessions, NEW t \in Trackings, confirm_pickup(s, t)
      PROVE  RegistryInv'
    <2>1. \E txn, new, keys, schedule :
              CopyOf(txn, t, new, keys, schedule, FALSE, None) /\ Opens(s, txn)
        BY <1>2, PickupLoads
    <2>2. \E txn : txn \in Transaction /\ StillThere(txn) /\ Opens(s, txn)
        BY <2>1, CopyStillThere DEF CopyOf
    <2> QED BY <2>2, OpensRegistry
<1>3. ASSUME NEW s \in Sessions, NEW t \in Trackings, NEW ref \in OneCReturns,
             confirm_onec_return(s, t, ref)
      PROVE  RegistryInv'
    <2>1. \E txn, new, keys :
              CopyOf(txn, t, new, keys, {}, TRUE, None) /\ Opens(s, txn)
        BY <1>3, OneCReturnLoads
    <2>2. \E txn : txn \in Transaction /\ StillThere(txn) /\ Opens(s, txn)
        BY <2>1, CopyStillThere DEF CopyOf
    <2> QED BY <2>2, OpensRegistry
<1>4. ASSUME NEW s \in Sessions, NEW t \in Trackings,
             \/ \E deal \in Deals \cup {None}, card \in Cards \cup {None} :
                    register_bitrix_customer_return(s, t, deal, card)
             \/ \E card \in Cards : register_item_return(s, t, card)
             \/ \E deal \in Deals \cup {None} : update_return_deal_link(s, t, deal)
             \/ \E card \in Cards \cup {None} :
                    update_return_service_request_link(s, t, card)
      PROVE  RegistryInv'
    BY <1>4, LinkHandlersLoad, LinkOpenedRegistry
<1>5. ASSUME NEW s \in Sessions, collide(s) PROVE RegistryInv'
    BY <1>5, CollideLoads, LinkOpenedRegistry, CloseRegistry
<1>6. CASE UNCHANGED vars
    <2>1. UNCHANGED <<shipments, events, actions, sess, cards>>
        BY <1>6 DEF vars, registry
    <2>2. RegistryType' /\ (\A t \in Trackings : shipments[t] = None => events[t] = {})'
        BY <2>1 DEF RegistryInv, RegistryType
    <2>3. ASSUME NEW x \in Sessions, sess'[x] # None
          PROVE  StillThere(sess[x])'
        BY <2>1, <2>3 DEF RegistryInv, StillThere
    <2> QED BY <2>2, <2>3 DEF RegistryInv
<1> QED BY <1>1, <1>2, <1>3, <1>4, <1>5, <1>6, CommitRegistry, LinkRegisteredLoads,
           CompleteActionRegistry, EditCardRegistry DEF Next

LEMMA RegistryInvariant == Spec => []RegistryInv
<1>1. Init => RegistryInv
    BY InitRegistry
<1>2. RegistryInv /\ [Next]_vars => RegistryInv'
    BY NextRegistry
<1> QED BY <1>1, <1>2, PTL DEF Spec

(* Rows, events, actions and open sessions keep their types, for any number  *)
(* of sessions of the API.                                                   *)
THEOREM TypeCorrect == Spec => []TypeOK
<1>1. RegistryInv => TypeOK
    <2> SUFFICES ASSUME RegistryInv PROVE TypeOK
        OBVIOUS
    <2>1. \A t \in Trackings : \A e \in CarrierEvents(t) : e[2] \in Codes /\ e[3] \in Times
        BY KeyKinds DEF CarrierEvents, RegistryInv, RegistryType
    <2>2. \A s \in Sessions : sess[s] # None =>
              /\ sess[s].tracking \in Trackings
              /\ sess[s].old \in CustomerReturnShipment \cup {None}
              /\ sess[s].new \in CustomerReturnShipment
              /\ sess[s].seen \in Actions /\ sess[s].schedule \subseteq ActionTypes
        BY DEF RegistryInv, RegistryType, Transaction
    <2> QED BY <2>1, <2>2 DEF TypeOK, RegistryInv, RegistryType
<1> QED BY <1>1, RegistryInvariant, PTL

------------------------------------------------------------------------------
(* One session at a time: a commit finds the rows as its handler read them.  *)

Tells(E, type) == \E e \in E : e[1] = type

(* What a row says is what its events tell.                                  *)
RowAgrees(row, E) ==
    /\ Tells(E, "onec-return") => row.status = "onec_return_confirmed"
    /\ Tells(E, "pickup") => row.status \in BusinessTerminal
    /\ row.last # None => <<"carrier-event", row.code, row.last>> \in E
    /\ \A e \in E : e[1] = "carrier-event" => row.last # None /\ e[3] <= row.last

Present(t) == {a \in ActionTypes : actions[t][a] # None}

(* A row has the actions that its status and its events call for.            *)
HasActions(row, E, present) ==
    /\ row.status = "arrived_at_pickup_point" => "arrival_task" \in present
    /\ Tells(E, "pickup") => "onec_return_control" \in present
    /\ Tells(E, "onec-return") /\ "arrival_task" \in present
         => "complete_return_task" \in present

(* The actions there are once a session has committed.                       *)
After(txn, present) ==
    present \cup txn.schedule
      \cup {a \in {"complete_return_task"} : txn.settles /\ "arrival_task" \in present}

(* What an open session will commit keeps all this.                          *)
Fresh(txn) ==
    /\ txn.old = shipments[txn.tracking]
    /\ RowAgrees(txn.new, events[txn.tracking] \cup txn.keys)
    /\ HasActions(txn.new, events[txn.tracking] \cup txn.keys,
                  After(txn, Present(txn.tracking)))
    /\ txn.old # None => KeepsLink(txn.old, txn.new, txn.keys)

Agrees(t) ==
    /\ RowAgrees(shipments[t], events[t])
    /\ HasActions(shipments[t], events[t], Present(t))

SerialInv ==
    /\ RegistryInv
    /\ \A t \in Trackings : shipments[t] # None => Agrees(t)
    /\ \A s \in Sessions : sess[s] # None => Fresh(sess[s])

LEMMA CopyIsFresh ==
    ASSUME NEW txn, NEW t, NEW new, NEW keys, NEW schedule, NEW settles, NEW then,
           CopyOf(txn, t, new, keys, schedule, settles, then),
           RowAgrees(new, events[t] \cup keys),
           HasActions(new, events[t] \cup keys,
                      Present(t) \cup schedule
                        \cup {a \in {"complete_return_task"} :
                                 settles /\ "arrival_task" \in Present(t)}),
           shipments[t] # None => KeepsLink(shipments[t], new, keys)
    PROVE  Fresh(txn)
BY DEF CopyOf, Fresh, After

(* A handler that opens a fresh transaction keeps the invariant.             *)
LEMMA OpensSerial ==
    ASSUME SerialInv, RegistryInv', NEW s \in Sessions, NEW txn, Opens(s, txn),
           txn # None => Fresh(txn)
    PROVE  SerialInv'
<1>1. UNCHANGED <<shipments, events, actions, cards>>
    BY DEF Opens, registry
<1>2. (\A t \in Trackings : shipments[t] # None => Agrees(t))'
    BY <1>1 DEF SerialInv, Agrees, Present
<1>3. ASSUME NEW x \in Sessions, sess'[x] # None
      PROVE  Fresh(sess[x])'
    <2>1. sess'[x] = txn \/ sess'[x] = sess[x]
        BY DEF Opens, SerialInv, RegistryInv, RegistryType
    <2>2. PICK other : other = sess'[x]
        OBVIOUS
    <2>3. Fresh(other)
        BY <1>3, <2>1, <2>2 DEF SerialInv
    <2> QED BY <1>1, <2>2, <2>3 DEF Fresh, Present
<1> QED BY <1>2, <1>3 DEF SerialInv

(* A carrier's event leaves a business status alone, and the latest event    *)
(* decides the row's code.                                                   *)
LEMMA CarrierEventSerial ==
    ASSUME SerialInv, NEW s \in Sessions, NEW t \in Trackings, NEW code \in Codes,
           NEW at \in Times, NEW deadline \in Deadlines \cup {None}, NEW today \in Days,
           record_carrier_event(s, t, code, at, deadline, today)
    PROVE  \E txn : Opens(s, txn) /\ Fresh(txn)
<1> DEFINE row == shipments[t]
           status == normalize_status(code)
           current == _is_current_carrier_event(row, at)
           applied == current /\ _should_apply_transport_status(row.status, status)
           key == <<"carrier-event", code, at>>
<1>1. /\ row \in CustomerReturnShipment /\ row # None
      /\ \E new \in CustomerReturnShipment, schedule \in SUBSET ActionTypes :
           /\ new.status = IF applied THEN status ELSE row.status
           /\ new.code = IF current THEN code ELSE row.code
           /\ new.last = IF current THEN at ELSE row.last
           /\ new.ref = row.ref /\ new.deal = row.deal
           /\ new.request = row.request /\ new.requestDeal = row.requestDeal
           /\ applied /\ status = "arrived_at_pickup_point" => "arrival_task" \in schedule
           /\ "arrival_task" \in schedule => new.status = "arrived_at_pickup_point"
           /\ {key} \in SUBSET EventKeys
           /\ \E txn : /\ CopyOf(txn, t, new, {key}, schedule, FALSE, None)
                       /\ Opens(s, txn)
    BY CarrierEventLoads DEF SerialInv
<1>2. applied => row.status \notin BusinessTerminal
    BY DEF _should_apply_transport_status
<1>3. current <=> row.last = None \/ at >= row.last
    BY DEF _is_current_carrier_event
<1>4. Agrees(t) /\ events[t] \in SUBSET EventKeys
    BY <1>1 DEF SerialInv, RegistryInv, RegistryType
<1> HIDE DEF status, current, applied
<1>5. PICK new \in CustomerReturnShipment, schedule \in SUBSET ActionTypes :
           /\ new.status = IF applied THEN status ELSE row.status
           /\ new.code = IF current THEN code ELSE row.code
           /\ new.last = IF current THEN at ELSE row.last
           /\ new.ref = row.ref /\ new.deal = row.deal
           /\ new.request = row.request /\ new.requestDeal = row.requestDeal
           /\ applied /\ status = "arrived_at_pickup_point" => "arrival_task" \in schedule
           /\ "arrival_task" \in schedule => new.status = "arrived_at_pickup_point"
           /\ \E txn : /\ CopyOf(txn, t, new, {key}, schedule, FALSE, None)
                       /\ Opens(s, txn)
    BY <1>1
<1>6. PICK txn : CopyOf(txn, t, new, {key}, schedule, FALSE, None) /\ Opens(s, txn)
    BY <1>5
<1>7. PICK E : E = events[t]
    OBVIOUS
<1>8. RowAgrees(row, E) /\ HasActions(row, E, Present(t))
    BY <1>4, <1>7 DEF Agrees
<1>9. \A type : type # "carrier-event" => (Tells(E \cup {key}, type) <=> Tells(E, type))
    BY DEF Tells
<1>10. applied => ~Tells(E, "onec-return") /\ ~Tells(E, "pickup")
    BY <1>2, <1>8 DEF RowAgrees, BusinessTerminal
<1>11. RowAgrees(new, E \cup {key})
    <2>1. /\ Tells(E \cup {key}, "onec-return") => new.status = "onec_return_confirmed"
          /\ Tells(E \cup {key}, "pickup") => new.status \in BusinessTerminal
        BY <1>5, <1>8, <1>9, <1>10 DEF RowAgrees
    <2>2. at \in Nat /\ at # None /\ row.last \in Nat \cup {None}
        BY <1>1, ReturnsAssumption DEF CustomerReturnShipment
    <2>3. \A e \in E : e[1] = "carrier-event" => e[3] \in Nat /\ row.last # None /\ e[3] <= row.last
        BY <1>4, <1>7, <1>8, KeyKinds, ReturnsAssumption DEF RowAgrees
    <2>4. key[1] = "carrier-event" /\ key[3] = at
        OBVIOUS
    <2>5. CASE current
        BY <1>3, <1>5, <2>1, <2>2, <2>3, <2>4, <2>5 DEF RowAgrees
    <2>6. CASE ~current
        <3>1. new.last = row.last /\ new.code = row.code /\ row.last # None /\ at <= row.last
            BY <1>3, <1>5, <2>2, <2>6
        <3> HIDE DEF key
        <3>2. row.last # None => <<"carrier-event", row.code, row.last>> \in E
            BY <1>8 DEF RowAgrees
        <3> QED BY <2>1, <2>3, <2>4, <3>1, <3>2 DEF RowAgrees
    <2> QED BY <2>5, <2>6
<1>12. HasActions(new, E \cup {key}, Present(t) \cup schedule)
    <2>1. "arrival_task" \in schedule => ~Tells(E, "onec-return")
        BY <1>5, <1>8, <1>10 DEF RowAgrees
    <2>2. new.status = "arrived_at_pickup_point" => "arrival_task" \in Present(t) \cup schedule
        BY <1>5, <1>8 DEF HasActions
    <2> QED BY <1>8, <1>9, <2>1, <2>2 DEF HasActions
<1>13. KeepsLink(row, new, {key})
    BY <1>5, SameLinks
<1>14. HasActions(new, E \cup {key},
                  Present(t) \cup schedule
                    \cup {a \in {"complete_return_task"} :
                             FALSE /\ "arrival_task" \in Present(t)})
    BY <1>12 DEF HasActions
<1> HIDE DEF key
<1>15. Fresh(txn)
    BY <1>6, <1>7, <1>11, <1>13, <1>14, CopyIsFresh
<1> QED BY <1>6, <1>15

(* The pickup yields to 1C's confirmation, and brings its control.           *)
LEMMA PickupSerial ==
    ASSUME SerialInv, NEW s \in Sessions, NEW t \in Trackings, confirm_pickup(s, t)
    PROVE  \E txn : Opens(s, txn) /\ Fresh(txn)
<1> DEFINE row == shipments[t]
           new == PickedUp(row)
           keys == {<<"pickup">>}
           schedule == {"onec_return_control"}
<1>1. /\ row # None /\ row \in CustomerReturnShipment
      /\ \E txn : CopyOf(txn, t, new, keys, schedule, FALSE, None) /\ Opens(s, txn)
    BY PickupLoads DEF SerialInv
<1>2. PICK txn : CopyOf(txn, t, new, keys, schedule, FALSE, None) /\ Opens(s, txn)
    BY <1>1
<1>3. PICK E : E = events[t]
    OBVIOUS
<1>4. RowAgrees(row, E) /\ HasActions(row, E, Present(t))
    BY <1>1, <1>3 DEF SerialInv, Agrees
<1>5. /\ new.status = IF row.status = "onec_return_confirmed"
                      THEN "onec_return_confirmed" ELSE "picked_up"
      /\ new.code = row.code /\ new.last = row.last /\ new.deal = row.deal
      /\ new.request = row.request /\ new.requestDeal = row.requestDeal
    BY <1>1 DEF PickedUp, CustomerReturnShipment
<1>6. \A e \in keys : e[1] = "pickup"
    OBVIOUS
<1> HIDE DEF new, keys
<1>7. RowAgrees(new, E \cup keys)
    BY <1>4, <1>5, <1>6 DEF RowAgrees, Tells, BusinessTerminal
<1>8. HasActions(new, E \cup keys,
                 Present(t) \cup schedule
                    \cup {a \in {"complete_return_task"} :
                             FALSE /\ "arrival_task" \in Present(t)})
    BY <1>4, <1>5, <1>6 DEF HasActions, Tells
<1>9. KeepsLink(row, new, keys)
    BY <1>5, SameLinks
<1>10. Fresh(txn)
    BY <1>2, <1>3, <1>7, <1>8, <1>9, CopyIsFresh
<1> QED BY <1>2, <1>10

(* 1C's confirmation outranks what was there, and completes the task.        *)
LEMMA OneCReturnSerial ==
    ASSUME SerialInv, NEW s \in Sessions, NEW t \in Trackings, NEW ref \in OneCReturns,
           confirm_onec_return(s, t, ref)
    PROVE  \E txn : Opens(s, txn) /\ Fresh(txn)
<1> DEFINE row == shipments[t]
           new == [row EXCEPT !.status = "onec_return_confirmed", !.ref = ref]
           keys == {<<"onec-return", ref>>}
<1>1. /\ row # None /\ row \in CustomerReturnShipment
      /\ \E txn : CopyOf(txn, t, new, keys, {}, TRUE, None) /\ Opens(s, txn)
    BY OneCReturnLoads DEF SerialInv
<1>2. PICK txn : CopyOf(txn, t, new, keys, {}, TRUE, None) /\ Opens(s, txn)
    BY <1>1
<1>3. PICK E : E = events[t]
    OBVIOUS
<1>4. RowAgrees(row, E) /\ HasActions(row, E, Present(t))
    BY <1>1, <1>3 DEF SerialInv, Agrees
<1>5. /\ new.status = "onec_return_confirmed"
      /\ new.code = row.code /\ new.last = row.last /\ new.deal = row.deal
      /\ new.request = row.request /\ new.requestDeal = row.requestDeal
    BY <1>1 DEF CustomerReturnShipment
<1>6. \A e \in keys : e[1] = "onec-return"
    OBVIOUS
<1> HIDE DEF new, keys
<1>7. RowAgrees(new, E \cup keys)
    BY <1>4, <1>5, <1>6 DEF RowAgrees, Tells, BusinessTerminal
<1>8. HasActions(new, E \cup keys,
                 Present(t) \cup {}
                    \cup {a \in {"complete_return_task"} :
                             TRUE /\ "arrival_task" \in Present(t)})
    BY <1>4, <1>5, <1>6 DEF HasActions, Tells
<1>9. KeepsLink(row, new, keys)
    BY <1>5, SameLinks
<1>10. Fresh(txn)
    BY <1>2, <1>3, <1>7, <1>8, <1>9, CopyIsFresh
<1> QED BY <1>2, <1>10

(* Registrations and links leave status and history as they are.             *)
LEMMA LinkSerial ==
    ASSUME SerialInv, NEW s \in Sessions, NEW t \in Trackings, NEW link,
           LinkOpened(s, t, link)
    PROVE  \E txn : Opens(s, txn) /\ Fresh(txn)
<1>0. PICK txn : \E new \in CustomerReturnShipment, keys \in SUBSET EventKeys :
        /\ CopyOf(txn, t, new, keys, {}, FALSE, link)
        /\ Opens(s, txn)
        /\ PlainKeys(keys)
        /\ shipments[t] = None => new.status = "registered" /\ new.last = None
        /\ shipments[t] # None => Relabels(shipments[t], new, keys)
    BY DEF LinkOpened
<1>1. PICK new \in CustomerReturnShipment, keys \in SUBSET EventKeys :
        /\ CopyOf(txn, t, new, keys, {}, FALSE, link)
        /\ Opens(s, txn)
        /\ PlainKeys(keys)
        /\ shipments[t] = None => new.status = "registered" /\ new.last = None
        /\ shipments[t] # None => Relabels(shipments[t], new, keys)
    BY <1>0
<1>2. PICK E : E = events[t]
    OBVIOUS
<1>3. \A type \in {"carrier-event", "pickup", "onec-return"} :
          Tells(E \cup keys, type) <=> Tells(E, type)
    BY <1>1 DEF PlainKeys, Tells
<1>4. \A e \in E \cup keys : e[1] = "carrier-event" => e \in E
    BY <1>1 DEF PlainKeys
<1>5. /\ RowAgrees(new, E \cup keys)
      /\ HasActions(new, E \cup keys, Present(t))
      /\ shipments[t] # None => KeepsLink(shipments[t], new, keys)
    <2>1. CASE shipments[t] = None
        <3>1. E = {}
            BY <1>2, <2>1 DEF SerialInv, RegistryInv
        <3>2. \A type \in {"carrier-event", "pickup", "onec-return"} :
                  ~Tells(E \cup keys, type)
            BY <1>3, <3>1 DEF Tells
        <3> QED BY <1>1, <1>4, <2>1, <3>1, <3>2 DEF RowAgrees, HasActions
    <2>2. CASE shipments[t] # None
        <3>1. Agrees(t) /\ Relabels(shipments[t], new, keys)
            BY <1>1, <2>2 DEF SerialInv
        <3>2. PICK row : row = shipments[t]
            OBVIOUS
        <3>3. RowAgrees(row, E) /\ HasActions(row, E, Present(t))
            BY <1>2, <3>1, <3>2 DEF Agrees
        <3>4. new.status = row.status /\ new.code = row.code /\ new.last = row.last
              /\ KeepsLink(row, new, keys)
            BY <3>1, <3>2 DEF Relabels
        <3>5. RowAgrees(new, E \cup keys)
            BY <1>3, <1>4, <3>3, <3>4 DEF RowAgrees
        <3>6. HasActions(new, E \cup keys, Present(t))
            BY <1>3, <3>3, <3>4 DEF HasActions
        <3> QED BY <3>2, <3>4, <3>5, <3>6
    <2> QED BY <2>1, <2>2
<1>6. HasActions(new, E \cup keys,
                 Present(t) \cup {}
                    \cup {a \in {"complete_return_task"} :
                             FALSE /\ "arrival_task" \in Present(t)})
    BY <1>5 DEF HasActions
<1>7. Fresh(txn)
    BY <1>1, <1>2, <1>5, <1>6, CopyIsFresh
<1> QED BY <1>1, <1>7

(* A commit of a fresh transaction writes the row as its handler had it.     *)
LEMMA CommitSerial ==
    ASSUME SerialInv, OneSession, NEW s \in Sessions, commit(s)
    PROVE  SerialInv'
<1>1. PICK txn \in Transaction, t \in Trackings, row \in CustomerReturnShipment :
          \E next : Commits(s, txn, t, row, next)
    BY CommitFacts DEF SerialInv
<1>2. PICK next : Commits(s, txn, t, row, next)
    BY <1>1
<1>3. /\ txn = sess[s] /\ t = txn.tracking /\ row # None /\ StillThere(txn)
      /\ row = IF txn.old = None THEN txn.new ELSE MergeRow(txn.old, txn.new, shipments[t])
      /\ sess[s] # None
    BY <1>2 DEF Commits, commit
<1>4. Fresh(txn)
    BY <1>3 DEF SerialInv
<1>5. row = txn.new
    <2>1. txn.old = shipments[t] /\ txn.new \in CustomerReturnShipment
          /\ txn.old \in CustomerReturnShipment \cup {None}
        BY <1>1, <1>3, <1>4 DEF Fresh, Transaction
    <2> QED BY <1>3, <2>1, MergeShipment
<1>6. PICK E, present : E = events[t] \cup txn.keys /\ present = After(txn, Present(t))
    OBVIOUS
<1>7. RowAgrees(row, E) /\ HasActions(row, E, present)
    BY <1>3, <1>4, <1>5, <1>6 DEF Fresh
<1>8. \A a \in ActionTypes : Written(txn, a) # None <=> a \in present
    <2>1. "arrival_task" \in ActionTypes
        BY DEF ActionTypes
    <2>2. CompletesTask(txn) <=> txn.settles /\ "arrival_task" \in Present(t)
        BY <1>1, <1>3, <2>1, WrittenFacts DEF SerialInv, CompletesTask, Present
    <2> QED BY <1>1, <1>3, <1>6, <2>2, WrittenFacts DEF SerialInv, Present, After
<1>9. PICK written : written = [a \in ActionTypes |-> Written(txn, a)]
    OBVIOUS
<1>10. present = {a \in ActionTypes : written[a] # None}
    <2>1. present \subseteq ActionTypes
        BY <1>1, <1>6 DEF After, Present, Transaction, ActionTypes
    <2> QED BY <1>8, <1>9, <2>1
<1>11. /\ shipments' = [shipments EXCEPT ![t] = row]
       /\ events' = [events EXCEPT ![t] = E]
       /\ actions' = [actions EXCEPT ![t] = written]
       /\ UNCHANGED cards /\ sess' = [sess EXCEPT ![s] = next]
    BY <1>2, <1>6, <1>9 DEF Commits
<1>12. RegistryInv' /\ RegistryInv
    BY CommitRegistry DEF SerialInv
<1>13. Present(t)' = present
    BY <1>1, <1>10, <1>11, <1>12 DEF Present, RegistryInv, RegistryType
<1>14. shipments'[t] = row /\ events'[t] = E
    BY <1>1, <1>11, <1>12 DEF RegistryInv, RegistryType
<1>15. ASSUME NEW x \in Trackings, shipments'[x] # None
       PROVE  Agrees(x)'
    <2>1. CASE x = t
        BY <1>7, <1>11, <1>13, <1>14, <2>1 DEF Agrees
    <2>2. CASE x # t
        <3>1. /\ shipments'[x] = shipments[x] /\ events'[x] = events[x]
              /\ actions'[x] = actions[x]
            BY <1>11, <1>12, <2>2 DEF RegistryInv, RegistryType
        <3>2. Agrees(x)
            BY <1>15, <3>1 DEF SerialInv
        <3> QED BY <1>11, <3>1, <3>2 DEF Agrees, Present
    <2> QED BY <2>1, <2>2
<1>16. ASSUME NEW x \in Sessions, sess'[x] # None
       PROVE  Fresh(sess[x])'
    <2>1. x = s /\ sess'[x] = next
        BY <1>11, <1>12 DEF OneSession, RegistryInv, RegistryType
    <2>2. /\ next.tracking = t /\ next.old = row /\ next.new = row
          /\ next.keys = {} /\ next.schedule = {}
          /\ next.settles = txn.settles /\ next.then = txn.then
        BY <1>2, <1>16, <2>1 DEF Commits
    <2>3. HasActions(row, E, After(next, present))
        BY <1>7, <2>2 DEF HasActions, After
    <2>4. E \cup {} = E
        OBVIOUS
    <2>5. After(next, present) = After(next, Present(t))'
        BY <1>13, <2>1 DEF After
    <2>6. KeepsLink(next.old, next.new, next.keys)
        BY <2>2, SameLinks
    <2> QED BY <1>7, <1>11, <1>14, <2>1, <2>2, <2>3, <2>4, <2>5, <2>6 DEF Fresh
<1> QED BY <1>12, <1>15, <1>16 DEF SerialInv

LEMMA NextSerial ==
    ASSUME SerialInv, OneSession, [Next]_vars
    PROVE  SerialInv'
<1>1. RegistryInv /\ RegistryInv'
    BY NextRegistry DEF SerialInv
<1>2. ASSUME NEW s \in Sessions, NEW t \in Trackings, NEW code \in Codes,
             NEW at \in Times, NEW deadline \in Deadlines \cup {None}, NEW today \in Days,
             record_carrier_event(s, t, code, at, deadline, today)
      PROVE  SerialInv'
    BY <1>1, <1>2, CarrierEventSerial, OpensSerial
<1>3. ASSUME NEW s \in Sessions, NEW t \in Trackings, confirm_pickup(s, t)
      PROVE  SerialInv'
    BY <1>1, <1>3, PickupSerial, OpensSerial
<1>4. ASSUME NEW s \in Sessions, NEW t \in Trackings, NEW ref \in OneCReturns,
             confirm_onec_return(s, t, ref)
      PROVE  SerialInv'
    BY <1>1, <1>4, OneCReturnSerial, OpensSerial
<1>5. ASSUME NEW s \in Sessions, NEW t \in Trackings,
             \/ \E deal \in Deals \cup {None}, card \in Cards \cup {None} :
                    register_bitrix_customer_return(s, t, deal, card)
             \/ \E card \in Cards : register_item_return(s, t, card)
             \/ \E deal \in Deals \cup {None} : update_return_deal_link(s, t, deal)
             \/ \E card \in Cards \cup {None} :
                    update_return_service_request_link(s, t, card)
      PROVE  SerialInv'
    <2>1. PICK link \in Links \cup {None} : LinkOpened(s, t, link)
        BY <1>1, <1>5, LinkHandlersLoad
    <2> QED BY <1>1, <2>1, LinkSerial, OpensSerial
<1>6. ASSUME NEW s \in Sessions, Opens(s, None)
      PROVE  SerialInv'
    <2>1. PICK txn : txn = None
        OBVIOUS
    <2> QED BY <1>1, <1>6, <2>1, OpensSerial
<1>7. ASSUME NEW s \in Sessions, collide(s)
      PROVE  SerialInv'
    <2>1. PICK txn, t : txn = sess[s] /\ t = txn.tracking
        OBVIOUS
    <2>2. Fresh(txn)
        BY <1>7, <2>1 DEF collide, SerialInv
    <2>3. Opens(s, None)
        BY <1>1, <1>7, <2>1, <2>2, CollideLoads DEF Fresh
    <2> QED BY <1>6, <2>3
<1>8. ASSUME NEW s \in Sessions, link_registered(s)
      PROVE  SerialInv'
    <2>1. PICK txn, t : txn = sess[s] /\ t = txn.tracking
        OBVIOUS
    <2>2. Fresh(txn) /\ txn \in Transaction
        BY <1>1, <1>8, <2>1 DEF link_registered, SerialInv, RegistryInv, RegistryType
    <2>3. t \in Trackings
        BY <2>1, <2>2 DEF Transaction
    <2>4. Opens(s, None) \/ LinkOpened(s, t, None)
        BY <1>1, <1>8, <2>1, <2>3, LinkRegisteredLoads
    <2> QED BY <1>1, <1>6, <2>3, <2>4, LinkSerial, OpensSerial
<1>9. ASSUME NEW t \in Trackings, NEW a \in ActionTypes, complete_action(t, a)
      PROVE  SerialInv'
    <2>1. UNCHANGED <<shipments, events, sess, cards>>
        BY <1>9 DEF complete_action
    <2>2. \A x \in Trackings : Present(x)' = Present(x)
        BY <1>1, <1>9, CompleteActionRegistry DEF Present
    <2>3. (\A x \in Trackings : shipments[x] # None => Agrees(x))'
        BY <2>1, <2>2 DEF SerialInv, Agrees
    <2>4. ASSUME NEW x \in Sessions, sess'[x] # None
          PROVE  Fresh(sess[x])'
        <3>1. PICK txn : txn = sess[x]
            OBVIOUS
        <3>2. Fresh(txn) /\ txn.tracking \in Trackings
            BY <1>1, <2>1, <2>4, <3>1 DEF SerialInv, RegistryInv, RegistryType, Transaction
        <3> QED BY <2>1, <2>2, <3>1, <3>2 DEF Fresh
    <2> QED BY <1>1, <2>3, <2>4 DEF SerialInv
<1>10. ASSUME NEW card \in Cards, edit_card(card)
       PROVE  SerialInv'
    <2>1. UNCHANGED <<shipments, events, actions, sess>>
        BY <1>10 DEF edit_card, registry
    <2>2. ASSUME NEW x \in Trackings, shipments'[x] # None
          PROVE  Agrees(x)'
        BY <2>1, <2>2 DEF SerialInv, Agrees, Present
    <2>3. ASSUME NEW x \in Sessions, sess'[x] # None
          PROVE  Fresh(sess[x])'
        BY <2>1, <2>3 DEF SerialInv, Fresh, Present
    <2> QED BY <1>1, <2>2, <2>3 DEF SerialInv
<1>11. CASE UNCHANGED vars
    <2>1. UNCHANGED <<shipments, events, actions, sess, cards>>
        BY <1>11 DEF vars, registry
    <2>2. ASSUME NEW x \in Trackings, shipments'[x] # None
          PROVE  Agrees(x)'
        BY <2>1, <2>2 DEF SerialInv, Agrees, Present
    <2>3. ASSUME NEW x \in Sessions, sess'[x] # None
          PROVE  Fresh(sess[x])'
        BY <2>1, <2>3 DEF SerialInv, Fresh, Present
    <2> QED BY <1>1, <2>2, <2>3 DEF SerialInv
<1> QED BY <1>2, <1>3, <1>4, <1>5, <1>7, <1>8, <1>9, <1>10, <1>11, CommitSerial DEF Next

LEMMA SerialInvariant == ASSUME OneSession PROVE Spec => []SerialInv
<1>1. Init => SerialInv
    BY InitRegistry DEF Init, SerialInv
<1>2. SerialInv /\ [Next]_vars => SerialInv'
    BY NextSerial
<1> QED BY <1>1, <1>2, PTL DEF Spec

(* With one API session at a time, whatever order the carrier, the employee  *)
(* and 1C report in, a pickup is not taken back and 1C's confirmation stays. *)
THEOREM BusinessStatusIsKept == OneSession => (Spec => []BusinessStatusHolds)
<1> SUFFICES ASSUME OneSession PROVE Spec => []BusinessStatusHolds
    OBVIOUS
<1>1. SerialInv => BusinessStatusHolds
    BY DEF SerialInv, RegistryInv, Agrees, RowAgrees, Tells, BusinessStatusHolds, Happened
<1> QED BY <1>1, SerialInvariant, PTL

(* With one API session at a time, a row's code and date are those of its    *)
(* latest carrier event, in whatever order the events arrived.               *)
THEOREM LatestEventDecides == OneSession => (Spec => []LatestEventGoverns)
<1> SUFFICES ASSUME OneSession PROVE Spec => []LatestEventGoverns
    OBVIOUS
<1>1. SerialInv => LatestEventGoverns
    BY DEF SerialInv, RegistryInv, Agrees, RowAgrees, LatestEventGoverns, CarrierEvents
<1> QED BY <1>1, SerialInvariant, PTL

(* With one API session at a time, a parcel's status and history always have *)
(* the actions they call for, whatever the worker has done with them.        *)
THEOREM ActionsFollowStatus == OneSession => (Spec => []StatusHasItsAction)
<1> SUFFICES ASSUME OneSession PROVE Spec => []StatusHasItsAction
    OBVIOUS
<1>1. SerialInv => StatusHasItsAction
    BY DEF SerialInv, Agrees, HasActions, Present, Tells, ActionTypes,
           StatusHasItsAction, Happened
<1> QED BY <1>1, SerialInvariant, PTL

(* The sessions write to the shipments by their commits alone.               *)
LEMMA OnlyCommitsWrite ==
    ASSUME [Next]_vars
    PROVE  UNCHANGED shipments \/ \E s \in Sessions : commit(s)
<1>1. ASSUME NEW s \in Sessions, NEW t \in Trackings, NEW deal, NEW link,
             register_return(s, t, deal, link)
      PROVE  UNCHANGED shipments
    BY <1>1 DEF register_return, Load, registry
<1>2. ASSUME NEW s \in Sessions, NEW t \in Trackings,
             \/ \E code \in Codes, at \in Times, deadline \in Deadlines \cup {None},
                    today \in Days : record_carrier_event(s, t, code, at, deadline, today)
             \/ confirm_pickup(s, t)
             \/ \E ref \in OneCReturns : confirm_onec_return(s, t, ref)
      PROVE  UNCHANGED shipments
    <2>1. ASSUME NEW txn, Load(s, txn) PROVE UNCHANGED shipments
        BY <2>1 DEF Load, registry
    <2>2. CASE \E code \in Codes, at \in Times, deadline \in Deadlines \cup {None},
                  today \in Days : record_carrier_event(s, t, code, at, deadline, today)
        <3>1. PICK code \in Codes, at \in Times, deadline \in Deadlines \cup {None},
                   today \in Days : record_carrier_event(s, t, code, at, deadline, today)
            BY <2>2
        <3>2. UNCHANGED registry
            BY <3>1, Zenon DEF record_carrier_event, Load
        <3> QED BY <3>2 DEF registry
    <2>3. CASE confirm_pickup(s, t)
        BY <2>3 DEF confirm_pickup, Load, registry
    <2>4. CASE \E ref \in OneCReturns : confirm_onec_return(s, t, ref)
        BY <2>4 DEF confirm_onec_return, Load, registry
    <2> QED BY <1>2, <2>2, <2>3, <2>4
<1>3. ASSUME NEW s \in Sessions, NEW t \in Trackings,
             \/ \E deal \in Deals \cup {None}, card \in Cards \cup {None} :
                    register_bitrix_customer_return(s, t, deal, card)
             \/ \E card \in Cards : register_item_return(s, t, card)
             \/ \E deal \in Deals \cup {None} : update_return_deal_link(s, t, deal)
             \/ \E card \in Cards \cup {None} : update_return_service_request_link(s, t, card)
      PROVE  UNCHANGED shipments
    BY <1>1, <1>3 DEF register_bitrix_customer_return, register_item_return,
       update_return_deal_link, update_return_service_request_link, Load, registry
<1>4. ASSUME NEW s \in Sessions, collide(s) \/ link_registered(s)
      PROVE  UNCHANGED shipments
    BY <1>4 DEF collide, link_registered, registry
<1>5. ASSUME \/ \E t \in Trackings, a \in ActionTypes : complete_action(t, a)
             \/ \E card \in Cards : edit_card(card)
             \/ UNCHANGED vars
      PROVE  UNCHANGED shipments
    BY <1>5 DEF complete_action, edit_card, vars, registry
<1> QED BY <1>2, <1>3, <1>4, <1>5 DEF Next

(* A commit writes the links as its handler had them, over the row that the  *)
(* handler had read.                                                         *)
LEMMA CommitKeepsDeal ==
    ASSUME SerialInv, NEW s \in Sessions, commit(s), NEW x \in Trackings, shipments[x] # None
    PROVE  KeepsLink(shipments[x], shipments'[x], events'[x] \ events[x])
<1>1. PICK txn \in Transaction, t \in Trackings, row \in CustomerReturnShipment :
          \E next : Commits(s, txn, t, row, next)
    BY CommitFacts DEF SerialInv
<1>2. /\ txn = sess[s] /\ t = txn.tracking /\ sess[s] # None /\ ~Collides(txn)
      /\ row = IF txn.old = None THEN txn.new ELSE MergeRow(txn.old, txn.new, shipments[t])
      /\ shipments' = [shipments EXCEPT ![t] = row]
      /\ events' = [events EXCEPT ![t] = @ \cup txn.keys]
    BY <1>1 DEF Commits, commit
<1>3. RegistryInv
    BY DEF SerialInv
<1>4. CASE x = t
    <2>1. Fresh(txn)
        BY <1>2 DEF SerialInv
    <2>2. txn.old = shipments[t] /\ KeepsLink(txn.old, txn.new, txn.keys)
        BY <1>2, <1>4, <2>1 DEF Fresh
    <2>3. row = txn.new
        BY <1>1, <1>2, <2>2, MergeShipment DEF Transaction
    <2>4. shipments'[t] = row /\ events'[t] = events[t] \cup txn.keys
        BY <1>1, <1>2, <1>3 DEF RegistryInv, RegistryType
    <2>5. events'[t] \ events[t] = txn.keys
        BY <1>2, <2>4 DEF Collides
    <2> QED BY <1>4, <2>2, <2>3, <2>4, <2>5
<1>5. CASE x # t
    BY <1>2, <1>3, <1>5, SameLinks DEF RegistryInv, RegistryType
<1> QED BY <1>4, <1>5

(* With one API session at a time and cards edited at any time, a change of  *)
(* the service request takes no deal away, and neither a link nor a change   *)
(* of the deal makes the deals of shipment and request differ, but for the   *)
(* two disagreements that the property names.                                *)
THEOREM DealIsKept == OneSession => (Spec => DealFollowsRequest)
<1> SUFFICES ASSUME OneSession PROVE Spec => DealFollowsRequest
    OBVIOUS
<1>1. SerialInv /\ [Next]_vars =>
        \A t \in Trackings : shipments[t] # None =>
            KeepsDeal(shipments[t], shipments'[t],
                      <<"deal-link", shipments'[t].deal>> \in events'[t] \ events[t])
    <2> SUFFICES ASSUME SerialInv, [Next]_vars, NEW t \in Trackings, shipments[t] # None
                 PROVE  KeepsLink(shipments[t], shipments'[t], events'[t] \ events[t])
        BY DEF KeepsLink
    <2>1. CASE UNCHANGED shipments
        BY <2>1, SameLinks
    <2> QED BY <2>1, OnlyCommitsWrite, CommitKeepsDeal
<1> QED BY <1>1, SerialInvariant, PTL DEF Spec, DealFollowsRequest

=============================================================================
