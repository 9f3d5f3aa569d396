-------------------------- MODULE OrderClosureProofs --------------------------
(***************************************************************************)
(* 1C never closes a row the author did not choose, for any number of      *)
(* batches, rows, API sessions and 1C pollers, however their loads and     *)
(* commits interleave.                                                     *)
(*                                                                         *)
(* The property speaks of 1C's receipts only.  A choice reaches them       *)
(* through four places, and IInv follows it: the confirmation prepared in  *)
(* an open session, the queued rows of the table (merged column by column  *)
(* from sessions that did not see each other), the command a poller holds, *)
(* the receipts.                                                           *)
(***************************************************************************)
EXTENDS OrderClosure, TLAPS

Chosen(b) == UNION {c.orders : c \in confirmations[b]}

QueuedWereChosen ==
    \A b \in Batches, p \in Positions :
        items[b][p].status = "queued" => p \in Chosen(b)

(* Rows that a session is about to leave queued.                             *)
ToBeConfirmed(t) == IF t.confirms = None THEN {} ELSE t.confirms.orders
SessionOK(t) ==
    /\ batches[t.batch] # None
    /\ \A p \in Positions :
          t.newItems[p].status = "queued" => p \in Chosen(t.batch) \cup ToBeConfirmed(t)
SessionsQueueChosen == \A s \in Sessions : sess[s] # None => SessionOK(sess[s])

CommandOK(cmd) ==
    /\ batches[cmd.batch] # None
    /\ cmd.kind = "apply" => cmd.orders \subseteq Chosen(cmd.batch)
CommandsCarryChosen == \A e \in Executors : executor[e] # None => CommandOK(executor[e])

IInv ==
    /\ TypeOK
    /\ QueuedWereChosen
    /\ SessionsQueueChosen
    /\ CommandsCarryChosen
    /\ ClosedRowsWereChosen

------------------------------------------------------------------------------
(* One session of the API at a time: what a handler read is what it writes   *)
(* over, the lease excepted, which runs down meanwhile and is dropped by     *)
(* every handler.                                                            *)
OneSession == \A s, u \in Sessions : s = u

Fresh(t) ==
    /\ batches[t.batch] # None
    /\ batches[t.batch].status = t.old.status /\ batches[t.batch].kind = t.old.kind
    /\ batches[t.batch].hash = t.old.hash /\ batches[t.batch].token = t.old.token
    /\ batches[t.batch].attempts = t.old.attempts
    /\ t.new.lease = None /\ (t.old.lease = None => batches[t.batch].lease = None)
    /\ items[t.batch] = t.oldItems

(* The rows queued for 1C are the ones the author confirmed, under the       *)
(* diagnosis that he saw.                                                    *)
Queued(rows) == WithStatus(rows, "queued")
BatchAsConfirmed(b) ==
    /\ batches[b] # None /\ batches[b].kind = "apply" =>
          /\ batches[b].status \in {"approved", "leased"}
          /\ [hash |-> batches[b].hash, orders |-> Queued(items[b])] \in confirmations[b]
    /\ batches[b] = None \/ batches[b].kind # "apply" => Queued(items[b]) = {}
SessionAsConfirmed(t) ==
    /\ Fresh(t) /\ t.new.status # "leased"
    /\ t.new.kind = "apply" =>
          /\ t.new.status = "approved" /\ t.confirms # None
          /\ t.confirms = [hash |-> t.new.hash, orders |-> Queued(t.newItems)]
    /\ t.new.kind # "apply" => Queued(t.newItems) = {}
CommandAsConfirmed(cmd) ==
    cmd.kind = "apply" => [hash |-> cmd.hash, orders |-> cmd.orders] \in confirmations[cmd.batch]
AsConfirmed ==
    /\ \A b \in Batches : BatchAsConfirmed(b)
    /\ \A s \in Sessions : sess[s] # None => SessionAsConfirmed(sess[s])
    /\ \A e \in Executors : executor[e] # None => CommandAsConfirmed(executor[e])
    /\ ClosedAsConfirmed

(* And one poller of 1C at a time: what a row records is what 1C closed.     *)
OnePoller == \A d, e \in Executors : d = e

Recorded(row, rows, closed) ==
    /\ row.status = "applied" => closed # {} /\ WithStatus(rows, "applied") = closed
    /\ row.status # "applied" =>
          /\ WithStatus(rows, "applied") = {}
          /\ closed \in {{}, IF row.kind = "apply" THEN Queued(rows) ELSE {}}

(* The command a poller holds is for the lease that stands, until it has     *)
(* reported; what it reported is what 1C did.                                *)
CommandStands(cmd) ==
    /\ cmd.outcome = None => LeaseMatches(cmd.batch, cmd)
    /\ LeaseMatches(cmd.batch, cmd) =>
          /\ cmd.kind = batches[cmd.batch].kind
          /\ cmd.kind = "apply" => cmd.orders = Queued(items[cmd.batch])
          /\ cmd.outcome = "applied" => cmd.orders # {} /\ receipts[cmd.batch] = cmd.orders
          /\ cmd.outcome \in {"stale", "failed"} => receipts[cmd.batch] = {}
AsRecorded ==
    /\ \A b \in Batches :
          IF batches[b] = None
          THEN receipts[b] = {} /\ WithStatus(items[b], "applied") = {}
          ELSE Recorded(batches[b], items[b], receipts[b])
    /\ \A s \in Sessions : sess[s] # None =>
          Recorded(sess[s].new, sess[s].newItems, receipts[sess[s].batch])
    /\ \A e \in Executors : executor[e] # None =>
          /\ CommandStands(executor[e])
          /\ \A s \in Sessions : sess[s] # None /\ sess[s].batch = executor[e].batch =>
                executor[e].outcome # None

------------------------------------------------------------------------------
(* The rows of a batch keep their shape under every assignment of a handler. *)
LEMMA BatchFields ==
    ASSUME NEW x \in OrderClosureBatch
    PROVE  /\ x.status \in BatchStatuses /\ x.kind \in {"diagnose", "apply", None}
           /\ x.hash \in {None} \cup Snapshots /\ x.token \in 1..MaxLeases \cup {None}
           /\ x.lease \in 0..LeaseTicks \cup {None} /\ x.attempts \in 0..MaxLeases
BY DEF OrderClosureBatch

LEMMA ColumnIsOneOf ==
    ASSUME NEW old, NEW new, NEW current
    PROVE  Column(old, new, current) \in {new, current}
BY DEF Column

(* A row merged from two sessions has its columns from well-formed rows.     *)
LEMMA MergeBatchType ==
    ASSUME NEW old, NEW new \in OrderClosureBatch, NEW current \in OrderClosureBatch
    PROVE  MergeBatch(old, new, current) \in OrderClosureBatch
<1>1. /\ Column(old.status, new.status, current.status) \in BatchStatuses
      /\ Column(old.kind, new.kind, current.kind) \in {"diagnose", "apply", None}
      /\ Column(old.hash, new.hash, current.hash) \in {None} \cup Snapshots
    BY BatchFields DEF Column
<1>2. /\ Column(old.token, new.token, current.token) \in 1..MaxLeases \cup {None}
      /\ Column(old.lease, new.lease, current.lease) \in 0..LeaseTicks \cup {None}
      /\ Column(old.attempts, new.attempts, current.attempts) \in 0..MaxLeases
    BY BatchFields DEF Column
<1> QED BY <1>1, <1>2 DEF MergeBatch, OrderClosureBatch

LEMMA MergeItemsType ==
    ASSUME NEW old, NEW new \in Items, NEW current \in Items
    PROVE  /\ MergeItems(old, new, current) \in Items
           /\ \A p \in Positions :
                MergeItems(old, new, current)[p].status \in
                    {new[p].status, current[p].status}
<1>1. \A p \in Positions :
        /\ Column(old[p].status, new[p].status, current[p].status)
              \in {new[p].status, current[p].status}
        /\ Column(old[p].eligible, new[p].eligible, current[p].eligible)
              \in {new[p].eligible, current[p].eligible}
    BY ColumnIsOneOf
<1>2. \A p \in Positions :
        new[p] \in OrderClosureItem /\ current[p] \in OrderClosureItem
    BY DEF Items
<1>3. \A p \in Positions :
        [status |-> Column(old[p].status, new[p].status, current[p].status),
         eligible |-> Column(old[p].eligible, new[p].eligible, current[p].eligible)]
            \in OrderClosureItem
    BY <1>1, <1>2 DEF OrderClosureItem
<1> QED BY <1>1, <1>3 DEF MergeItems, Items

(* An acknowledgement leaves well-formed rows, and none of them queued.      *)
LEMMA AcknowledgedItemsType ==
    ASSUME TypeOK, NEW b \in Batches, NEW cmd \in Command, cmd.outcome # None
    PROVE  /\ AcknowledgedItems(b, cmd) \in Items
           /\ \A p \in Positions : AcknowledgedItems(b, cmd)[p].status # "queued"
<1>1. \A p \in Positions : items[b][p] \in OrderClosureItem
    BY DEF TypeOK, Items
<1>2. cmd.outcome \in {"diagnosed", "applied", "stale", "failed"}
    BY DEF Command
<1>3. CASE cmd.outcome = "diagnosed"
    <2>1. AcknowledgedItems(b, cmd) = [p \in Positions |->
              [status |-> IF p \in cmd.hash THEN "eligible" ELSE "blocked",
               eligible |-> p \in cmd.hash]]
        BY <1>3 DEF AcknowledgedItems
    <2> QED BY <2>1 DEF Items, OrderClosureItem
<1>4. CASE cmd.outcome # "diagnosed"
    <2>1. AcknowledgedItems(b, cmd) = [p \in Positions |->
              IF items[b][p].status = "queued"
              THEN [items[b][p] EXCEPT !.status = cmd.outcome] ELSE items[b][p]]
        BY <1>4 DEF AcknowledgedItems
    <2>2. \A p \in Positions :
              [items[b][p] EXCEPT !.status = cmd.outcome] \in OrderClosureItem
              /\ [items[b][p] EXCEPT !.status = cmd.outcome].status # "queued"
        BY <1>1, <1>2, <1>4 DEF OrderClosureItem
    <2> QED BY <1>1, <2>1, <2>2 DEF Items
<1> QED BY <1>3, <1>4

------------------------------------------------------------------------------
(* The invariant holds before any batch exists.                              *)
LEMMA InitIInv == Init => IInv
<1> SUFFICES ASSUME Init PROVE IInv
    OBVIOUS
<1>1. NewItems \in Items /\ \A p \in Positions : NewItems[p].status # "queued"
    BY DEF NewItems, Items, OrderClosureItem
<1>2. TypeOK
    BY <1>1, OrderClosureAssumption DEF Init, TypeOK
<1> QED BY <1>1, <1>2 DEF Init, IInv, QueuedWereChosen, SessionsQueueChosen, SessionOK,
                        CommandsCarryChosen, ClosedRowsWereChosen

(* A handler that only opens a session preserves IInv when the rows it means *)
(* to leave queued are chosen already or confirmed by it.                    *)
LEMMA PrepareIInv ==
    ASSUME IInv, NEW s \in Sessions, NEW b \in Batches, batches[b] # None,
           NEW new \in OrderClosureBatch, NEW newItems \in Items,
           NEW e \in Executors \cup {None}, NEW confirms \in Selection \cup {None},
           Prepare(s, b, new, newItems, e, confirms),
           \A p \in Positions : newItems[p].status = "queued" =>
               p \in Chosen(b) \/ (confirms # None /\ p \in confirms.orders)
    PROVE  IInv'
<1> DEFINE t == [batch |-> b, old |-> batches[b], new |-> new,
                 oldItems |-> items[b], newItems |-> newItems,
                 executor |-> e, confirms |-> confirms]
<1>1. /\ sess' = [sess EXCEPT ![s] = t]
      /\ UNCHANGED <<batches, items, executor, onec, confirmations, losses>>
    BY DEF Prepare
<1>2. t \in Transaction
    BY DEF Transaction, IInv, TypeOK
<1>3. TypeOK'
    BY <1>1, <1>2 DEF IInv, TypeOK, onec
<1>4. SessionsQueueChosen'
    <2> SUFFICES ASSUME NEW x \in Sessions, sess'[x] # None
                 PROVE  SessionOK(sess[x])'
        BY DEF SessionsQueueChosen
    <2>1. \A y : Chosen(y)' = Chosen(y)
        BY <1>1 DEF Chosen
    <2>2. CASE x = s
        <3>1. sess'[x] = t
            BY <1>1, <2>2 DEF IInv, TypeOK
        <3> QED BY <1>1, <2>1, <3>1 DEF ToBeConfirmed, SessionOK, IInv, TypeOK
    <2>3. CASE x # s
        <3>1. sess'[x] = sess[x]
            BY <1>1, <2>3 DEF IInv, TypeOK
        <3> QED BY <1>1, <2>1, <3>1 DEF IInv, SessionsQueueChosen, SessionOK, ToBeConfirmed
    <2> QED BY <2>2, <2>3
<1>5. (QueuedWereChosen /\ CommandsCarryChosen /\ ClosedRowsWereChosen)'
    BY <1>1 DEF IInv, QueuedWereChosen, CommandsCarryChosen, CommandOK, ClosedRowsWereChosen,
                Chosen, onec
<1> QED BY <1>3, <1>4, <1>5 DEF IInv

(* A step of 1C or of the queue that only replaces commands preserves IInv   *)
(* when each new apply command carries chosen rows.                          *)
LEMMA CommandsIInv ==
    ASSUME IInv, TypeOK', CommandsCarryChosen',
           UNCHANGED <<items, sess, receipts, confirmations>>,
           \A b \in Batches : batches[b] # None => batches'[b] # None
    PROVE  IInv'
<1>1. SessionsQueueChosen'
    <2>1. \A s \in Sessions : sess[s] # None => sess[s].batch \in Batches
        BY DEF IInv, TypeOK, Transaction
    <2> QED BY <2>1 DEF IInv, SessionsQueueChosen, SessionOK, Chosen, ToBeConfirmed
<1> QED BY <1>1 DEF IInv, QueuedWereChosen, ClosedRowsWereChosen, Chosen

------------------------------------------------------------------------------
(* The employee's requests.                                                  *)

LEMMA CreateBatchIInv ==
    ASSUME IInv, NEW b \in Batches, create_batch(b)
    PROVE  IInv'
<1>1. TypeOK'
    BY OrderClosureAssumption
    DEF create_batch, IInv, TypeOK, onec, OrderClosureBatch, BatchStatuses
<1>2. CommandsCarryChosen'
    BY DEF create_batch, IInv, CommandsCarryChosen, CommandOK, Chosen
<1> QED BY <1>1, <1>2, CommandsIInv DEF create_batch, onec

LEMMA RequestDiagnosisIInv ==
    ASSUME IInv, NEW s \in Sessions, NEW b \in Batches, request_diagnosis(s, b)
    PROVE  IInv'
<1> DEFINE new == [batches[b] EXCEPT !.status = "draft", !.kind = "diagnose",
                                     !.token = None, !.lease = None, !.hash = None]
<1>1. batches[b] # None /\ Prepare(s, b, new, NewItems, None, None)
    BY DEF request_diagnosis
<1>2. new \in OrderClosureBatch
    BY <1>1 DEF IInv, TypeOK, OrderClosureBatch, BatchStatuses
<1>3. NewItems \in Items /\ \A p \in Positions : NewItems[p].status # "queued"
    BY DEF NewItems, Items, OrderClosureItem
<1> QED BY <1>1, <1>2, <1>3, PrepareIInv

LEMMA ConfirmBatchIInv ==
    ASSUME IInv, NEW s \in Sessions, NEW b \in Batches,
           NEW seen \in Snapshots, NEW chosen \in SUBSET Positions,
           confirm_batch(s, b, seen, chosen)
    PROVE  IInv'
<1> DEFINE new == [batches[b] EXCEPT !.status = "approved", !.kind = "apply",
                                     !.token = None, !.lease = None]
           rows == [p \in Positions |->
                     IF p \in chosen THEN [items[b][p] EXCEPT !.status = "queued"]
                     ELSE IF items[b][p].eligible
                          THEN [items[b][p] EXCEPT !.status = "skipped"]
                     ELSE items[b][p]]
           confirms == [hash |-> seen, orders |-> chosen]
<1>1. batches[b] # None /\ Prepare(s, b, new, rows, None, confirms)
    BY DEF confirm_batch
<1>2. new \in OrderClosureBatch
    BY <1>1 DEF IInv, TypeOK, OrderClosureBatch, BatchStatuses
<1>3. \A p \in Positions : items[b][p] \in OrderClosureItem
    BY DEF IInv, TypeOK, Items
<1>4. rows \in Items
    <2>1. \A p \in Positions :
            /\ [items[b][p] EXCEPT !.status = "queued"] \in OrderClosureItem
            /\ [items[b][p] EXCEPT !.status = "skipped"] \in OrderClosureItem
        BY <1>3 DEF OrderClosureItem
    <2> QED BY <1>3, <2>1 DEF Items
<1>5. ASSUME NEW p \in Positions, rows[p].status = "queued"
      PROVE  p \in Chosen(b) \/ p \in chosen
    <2>1. CASE p \notin chosen /\ items[b][p].eligible
        BY <1>3, <1>5, <2>1 DEF OrderClosureItem
    <2>2. CASE p \notin chosen /\ ~ items[b][p].eligible
        BY <1>5, <2>2 DEF IInv, QueuedWereChosen
    <2> QED BY <2>1, <2>2
<1>6. confirms \in Selection /\ confirms.orders = chosen /\ confirms # None
    <2>1. confirms \in Selection /\ confirms.orders = chosen
        BY DEF Selection
    <2>2. confirms # None
        BY <2>1, NoneAssumption
    <2> QED BY <2>1, <2>2
<1> HIDE DEF new, rows, confirms
<1> QED BY <1>1, <1>2, <1>4, <1>5, <1>6, PrepareIInv

(* A commit may mix the rows of two sessions; each queued row comes from one *)
(* of them, and the confirmation is recorded with the rows.                  *)
LEMMA CommitIInv ==
    ASSUME IInv, NEW s \in Sessions, commit(s)
    PROVE  IInv'
<1>a. sess[s] # None /\ sess[s] \in Transaction
    BY DEF commit, IInv, TypeOK
<1>b. PICK t \in Transaction : t = sess[s]
    BY <1>a
<1>c. PICK b \in Batches : b = t.batch
    BY DEF Transaction
<1> DEFINE row == MergeBatch(t.old, t.new, batches[b])
           rows == MergeItems(t.oldItems, t.newItems, items[b])
<1>1. /\ t # None
      /\ batches' = [batches EXCEPT ![b] = row]
      /\ items' = [items EXCEPT ![b] = rows]
      /\ confirmations' = [confirmations EXCEPT ![b] = @ \cup ({t.confirms} \ {None})]
      /\ sess' = [sess EXCEPT ![s] = None]
      /\ UNCHANGED <<ledger, receipts, closures, changes, losses>>
    BY <1>a, <1>b, <1>c DEF commit, onec
<1>2. \A e \in Executors : executor'[e] \in {executor[e], None}
    BY DEF commit, IInv, TypeOK
<1>3. executor' \in [Executors -> Command \cup {None}]
    BY DEF commit, IInv, TypeOK
<1>4. /\ batches[b] # None
      /\ t.new \in OrderClosureBatch /\ t.newItems \in Items
      /\ t.confirms \in Selection \cup {None}
    BY <1>a, <1>b, <1>c DEF IInv, Transaction, SessionsQueueChosen, SessionOK
<1>5. batches[b] \in OrderClosureBatch /\ items[b] \in Items
    BY <1>4 DEF IInv, TypeOK
<1>6. row \in OrderClosureBatch
    BY <1>4, <1>5, MergeBatchType
<1>7. rows \in Items /\ \A p \in Positions :
          rows[p].status \in {t.newItems[p].status, items[b][p].status}
    BY <1>4, <1>5, MergeItemsType
<1> HIDE DEF row, rows
<1>8. TypeOK'
    <2>1. /\ batches' \in [Batches -> OrderClosureBatch \cup {None}]
          /\ items' \in [Batches -> Items]
        BY <1>1, <1>4, <1>6, <1>7 DEF IInv, TypeOK
    <2>2. /\ sess' \in [Sessions -> Transaction \cup {None}]
          /\ confirmations' \in [Batches -> SUBSET Selection]
        BY <1>1, <1>4 DEF IInv, TypeOK
    <2> QED BY <1>1, <1>3, <2>1, <2>2 DEF IInv, TypeOK
<1>9. \A x \in Batches : Chosen(x) \subseteq Chosen(x)'
    BY <1>1 DEF Chosen, IInv, TypeOK
<1>10. ToBeConfirmed(t) \subseteq Chosen(b)'
    BY <1>1, <1>4 DEF ToBeConfirmed, Chosen, IInv, TypeOK
<1>11. QueuedWereChosen'
    <2> SUFFICES ASSUME NEW x \in Batches, NEW p \in Positions,
                        items'[x][p].status = "queued"
                 PROVE  p \in Chosen(x)'
        BY DEF QueuedWereChosen
    <2>1. CASE x = b
        <3>1. items'[x] = rows
            BY <1>1, <1>4, <2>1 DEF IInv, TypeOK
        <3>2. \/ t.newItems[p].status = "queued"
              \/ items[b][p].status = "queued"
            BY <1>7, <3>1
        <3>3. t.newItems[p].status = "queued" => p \in Chosen(b) \cup ToBeConfirmed(t)
            BY <1>a, <1>b, <1>c DEF IInv, SessionsQueueChosen, SessionOK
        <3>4. items[b][p].status = "queued" => p \in Chosen(b)
            BY <1>4 DEF IInv, QueuedWereChosen
        <3> QED BY <1>4, <1>9, <1>10, <2>1, <3>2, <3>3, <3>4
    <2>2. CASE x # b
        <3>1. items'[x] = items[x]
            BY <1>1, <2>2 DEF IInv, TypeOK
        <3> QED BY <1>9, <3>1 DEF IInv, QueuedWereChosen
    <2> QED BY <2>1, <2>2
<1>15. \A x \in Batches : batches[x] # None => batches'[x] # None
    <2>1. row # None
        BY <1>6, NoneAssumption
    <2> QED BY <1>1, <1>4, <2>1 DEF IInv, TypeOK
<1>12. SessionsQueueChosen'
    <2> SUFFICES ASSUME NEW x \in Sessions, sess'[x] # None
                 PROVE  SessionOK(sess[x])'
        BY DEF SessionsQueueChosen
    <2>1. sess'[x] = sess[x] /\ sess[x] # None
        BY <1>1 DEF IInv, TypeOK
    <2>2. sess[x].batch \in Batches /\ batches[sess[x].batch] # None
        BY <2>1 DEF IInv, TypeOK, Transaction, SessionsQueueChosen, SessionOK
    <2>3. batches'[sess[x].batch] # None
        BY <2>2, <1>15
    <2> QED BY <1>9, <2>1, <2>2, <2>3 DEF IInv, SessionsQueueChosen, SessionOK, ToBeConfirmed
<1>13. CommandsCarryChosen'
    <2> SUFFICES ASSUME NEW e \in Executors, executor'[e] # None
                 PROVE  CommandOK(executor[e])'
        BY DEF CommandsCarryChosen
    <2>1. executor'[e] = executor[e] /\ executor[e] # None
        BY <1>2
    <2>2. executor[e].batch \in Batches
        BY <2>1 DEF IInv, TypeOK, Command
    <2> QED BY <1>9, <1>15, <2>1, <2>2 DEF IInv, CommandsCarryChosen, CommandOK
<1>14. ClosedRowsWereChosen'
    BY <1>1, <1>9 DEF IInv, ClosedRowsWereChosen, Chosen
<1> QED BY <1>8, <1>11, <1>12, <1>13, <1>14 DEF IInv

------------------------------------------------------------------------------
(* The queue.                                                                *)

LEMMA LeaseCommandsIInv ==
    ASSUME IInv, NEW b \in Batches, NEW allow_apply \in BOOLEAN,
           lease_commands(b, allow_apply)
    PROVE  IInv'
<1> DEFINE token == batches[b].attempts + 1
           orders == IF batches[b].kind = "apply" THEN QueuedOrders(b) ELSE Positions
           command == [batch |-> b, kind |-> batches[b].kind, token |-> token,
                       hash |-> batches[b].hash, orders |-> orders, outcome |-> None]
           row == [batches[b] EXCEPT !.status = "leased", !.token = token,
                                     !.lease = LeaseTicks, !.attempts = token]
<1>1. /\ batches[b] # None /\ batches[b].kind # None
      /\ batches[b].attempts < MaxLeases
      /\ batches' = [batches EXCEPT ![b] = row]
      /\ \/ \E e \in Executors : executor' = [executor EXCEPT ![e] = command]
                                  /\ UNCHANGED losses
         \/ losses < MaxLosses /\ losses' = losses + 1 /\ UNCHANGED executor
      /\ UNCHANGED <<items, sess, ledger, receipts, closures, changes, confirmations>>
    BY DEF lease_commands, onec
<1>2. batches[b] \in OrderClosureBatch
    BY <1>1 DEF IInv, TypeOK
<1>3. token \in 1..MaxLeases
    BY <1>1, <1>2, OrderClosureAssumption DEF OrderClosureBatch
<1>4. row \in OrderClosureBatch
    <2>1. LeaseTicks \in 0..LeaseTicks /\ token \in 0..MaxLeases
        BY <1>3, OrderClosureAssumption
    <2> HIDE DEF token
    <2> QED BY <1>2, <1>3, <2>1 DEF OrderClosureBatch, BatchStatuses
<1>5. orders \in SUBSET Positions
    BY DEF QueuedOrders, WithStatus
<1>6. command \in Command
    BY <1>1, <1>2, <1>3, <1>5, BatchFields DEF Command
<1>7. batches[b].kind = "apply" => orders \subseteq Chosen(b)
    BY DEF QueuedOrders, WithStatus, IInv, QueuedWereChosen
<1>8. command.kind = batches[b].kind /\ command.batch = b /\ command.orders = orders
    OBVIOUS
<1> HIDE DEF token, orders, command, row
<1>9. executor' \in [Executors -> Command \cup {None}]
      /\ \A e \in Executors : executor'[e] \in {executor[e], command}
    BY <1>1, <1>6 DEF IInv, TypeOK
<1>10. TypeOK'
    <2>1. batches' \in [Batches -> OrderClosureBatch \cup {None}]
        BY <1>1, <1>4 DEF IInv, TypeOK
    <2>2. losses' \in 0..MaxLosses
        BY <1>1, OrderClosureAssumption DEF IInv, TypeOK
    <2> QED BY <1>1, <1>9, <2>1, <2>2 DEF IInv, TypeOK
<1>12. \A x \in Batches : batches[x] # None => batches'[x] # None
    <2>1. row # None
        BY <1>4, NoneAssumption
    <2> QED BY <1>1, <2>1 DEF IInv, TypeOK
<1>11. CommandsCarryChosen'
    <2> SUFFICES ASSUME NEW e \in Executors, executor'[e] # None
                 PROVE  CommandOK(executor[e])'
        BY DEF CommandsCarryChosen
    <2>1. CASE executor'[e] = command
        BY <1>1, <1>7, <1>8, <1>12, <2>1 DEF CommandOK, Chosen
    <2>2. CASE executor'[e] = executor[e]
        <3>1. executor[e].batch \in Batches
            BY <2>2 DEF IInv, TypeOK, Command
        <3> QED BY <1>1, <1>12, <2>2, <3>1 DEF IInv, CommandsCarryChosen, CommandOK, Chosen
    <2> QED BY <1>9, <2>1, <2>2
<1> QED BY <1>1, <1>10, <1>11, <1>12, CommandsIInv

LEMMA AcknowledgeCommandIInv ==
    ASSUME IInv, NEW s \in Sessions, NEW e \in Executors, acknowledge_command(s, e)
    PROVE  IInv'
<1> DEFINE cmd == executor[e]
           b == cmd.batch
<1>1. /\ cmd # None /\ cmd.outcome # None /\ LeaseMatches(b, cmd)
      /\ Prepare(s, b, Acknowledged(b, cmd), AcknowledgedItems(b, cmd), e, None)
    BY DEF acknowledge_command, Acceptable
<1>2. cmd \in Command /\ b \in Batches
    BY <1>1 DEF IInv, TypeOK, Command
<1>3. batches[b] # None
    BY <1>1 DEF IInv, CommandsCarryChosen, CommandOK
<1>4. Acknowledged(b, cmd) \in OrderClosureBatch
    <2>1. batches[b] \in OrderClosureBatch
        BY <1>2, <1>3 DEF IInv, TypeOK
    <2>2. /\ cmd.outcome \in {"diagnosed", "applied", "stale", "failed"}
          /\ cmd.hash \in {None} \cup Snapshots
        BY <1>1, <1>2 DEF Command
    <2> QED BY <2>1, <2>2 DEF Acknowledged, OrderClosureBatch, BatchStatuses
<1>5. /\ AcknowledgedItems(b, cmd) \in Items
      /\ \A p \in Positions : AcknowledgedItems(b, cmd)[p].status # "queued"
    BY <1>1, <1>2, AcknowledgedItemsType DEF IInv
<1> HIDE DEF cmd, b
<1> QED BY <1>1, <1>2, <1>3, <1>4, <1>5, PrepareIInv

(* Replacing the command of one poller by a command on the same rows, or by  *)
(* none, keeps what it carries chosen.                                       *)
LEMMA ReportKeepsChosen ==
    ASSUME IInv, NEW e \in Executors, NEW cmd \in Command \cup {None},
           executor' = [executor EXCEPT ![e] = cmd],
           cmd # None => /\ executor[e] # None /\ cmd.batch = executor[e].batch
                         /\ cmd.kind = executor[e].kind
                         /\ cmd.orders = executor[e].orders,
           UNCHANGED <<batches, confirmations>>
    PROVE  /\ executor' \in [Executors -> Command \cup {None}]
           /\ CommandsCarryChosen'
<1>1. executor' \in [Executors -> Command \cup {None}]
    BY DEF IInv, TypeOK
<1>2. \A x \in Executors : executor'[x] = (IF x = e THEN cmd ELSE executor[x])
    BY DEF IInv, TypeOK
<1>3. CommandsCarryChosen'
    BY <1>2 DEF IInv, CommandsCarryChosen, CommandOK, Chosen
<1> QED BY <1>1, <1>3

(* Giving a command up, by the answer or by a loss.                          *)
LEMMA DropIInv ==
    ASSUME IInv, NEW e \in Executors, executor' = [executor EXCEPT ![e] = None],
           losses' \in 0..MaxLosses,
           UNCHANGED <<batches, items, sess, onec, confirmations>>
    PROVE  IInv'
<1>1. /\ executor' \in [Executors -> Command \cup {None}]
      /\ CommandsCarryChosen'
    BY ReportKeepsChosen
<1>2. TypeOK'
    BY <1>1 DEF IInv, TypeOK, onec
<1> QED BY <1>1, <1>2, CommandsIInv DEF onec

------------------------------------------------------------------------------
(* 1C and the clock.                                                         *)

(* A command whose outcome and hash are filled in is a command of the same   *)
(* batch, kind and rows.                                                     *)
LEMMA ReportIInv ==
    ASSUME IInv, NEW e \in Executors, executor[e] # None,
           NEW outcome \in {"diagnosed", "applied", "stale", "failed"},
           NEW hash \in {None} \cup Snapshots,
           Report(e, outcome, hash),
           UNCHANGED <<batches, items, sess, onec, confirmations, losses>>
    PROVE  IInv'
<1> DEFINE cmd == [executor[e] EXCEPT !.outcome = outcome, !.hash = hash]
<1>1. executor[e] \in Command
    BY DEF IInv, TypeOK
<1>2. /\ cmd \in Command /\ cmd.batch = executor[e].batch
      /\ cmd.kind = executor[e].kind /\ cmd.orders = executor[e].orders
    BY <1>1 DEF Command
<1>3. executor' = [executor EXCEPT ![e] = cmd]
    BY <1>1 DEF Report, IInv, TypeOK, Command
<1> HIDE DEF cmd
<1>4. /\ executor' \in [Executors -> Command \cup {None}]
      /\ CommandsCarryChosen'
    BY <1>2, <1>3, ReportKeepsChosen
<1>5. TypeOK'
    BY <1>4 DEF IInv, TypeOK, onec
<1> QED BY <1>4, <1>5, CommandsIInv DEF onec

(* Reports without a write: dry run, earlier receipt, refusal.               *)
LEMMA AnswersIInv ==
    ASSUME IInv, NEW e \in Executors,
           diagnose(e) \/ replay_receipt(e) \/ refuse(e)
    PROVE  IInv'
<1>1. executor[e] # None
    BY DEF diagnose, replay_receipt, refuse, Executing
<1>2. executor[e].hash \in {None} \cup Snapshots /\ executor[e].batch \in Batches
    BY <1>1 DEF IInv, TypeOK, Command
<1>3. ledger[executor[e].batch] \in Snapshots
    BY <1>2 DEF IInv, TypeOK
<1>4. /\ \E outcome \in {"diagnosed", "applied", "stale", "failed"},
             hash \in {None} \cup Snapshots : Report(e, outcome, hash)
      /\ UNCHANGED <<batches, items, sess, onec, confirmations, losses>>
    BY <1>2, <1>3 DEF diagnose, replay_receipt, refuse
<1> QED BY <1>1, <1>4, ReportIInv

(* 1C closes the rows of its command, all of them chosen.                    *)
LEMMA ApplyIInv ==
    ASSUME IInv, NEW e \in Executors, apply(e)
    PROVE  IInv'
<1>1. executor[e] # None /\ executor[e] \in Command /\ executor[e].kind = "apply"
    BY DEF apply, Executing, IInv, TypeOK
<1>2. PICK b \in Batches : b = executor[e].batch
    BY <1>1 DEF Command
<1>3. PICK orders \in SUBSET Positions : orders = executor[e].orders
    BY <1>1 DEF Command
<1>4. PICK hash \in Snapshots : hash = executor[e].hash
    BY <1>2 DEF apply, IInv, TypeOK
<1> DEFINE cmd == [executor[e] EXCEPT !.outcome = "applied", !.hash = hash]
<1>5. /\ receipts' = [receipts EXCEPT ![b] = @ \cup orders]
      /\ ledger' = [ledger EXCEPT ![b] = @ \ orders]
      /\ closures' = [closures EXCEPT ![b] = @ \cup {[hash |-> hash, orders |-> orders]}]
      /\ Report(e, "applied", hash)
      /\ UNCHANGED <<batches, items, sess, confirmations, changes, losses>>
    BY <1>2, <1>3, <1>4 DEF apply
<1>6. /\ cmd \in Command /\ cmd.batch = executor[e].batch
      /\ cmd.kind = executor[e].kind /\ cmd.orders = executor[e].orders
    BY <1>1 DEF Command
<1>7. executor' = [executor EXCEPT ![e] = cmd]
    BY <1>1, <1>5 DEF Report, IInv, TypeOK, Command
<1> HIDE DEF cmd
<1>8. /\ executor' \in [Executors -> Command \cup {None}]
      /\ CommandsCarryChosen'
    BY <1>1, <1>5, <1>6, <1>7, ReportKeepsChosen
<1>9. TypeOK'
    <2>1. ledger' \in [Batches -> Snapshots] /\ receipts' \in [Batches -> SUBSET Positions]
        BY <1>5 DEF IInv, TypeOK, Snapshots
    <2>2. [hash |-> hash, orders |-> orders] \in Selection
        BY DEF Selection
    <2>3. closures' \in [Batches -> SUBSET Selection]
        BY <1>5, <2>2 DEF IInv, TypeOK
    <2> QED BY <1>5, <1>8, <2>1, <2>3 DEF IInv, TypeOK
<1>10. orders \subseteq Chosen(b)
    BY <1>1, <1>2, <1>3 DEF IInv, CommandsCarryChosen, CommandOK
<1>11. ClosedRowsWereChosen'
    BY <1>5, <1>10 DEF IInv, TypeOK, ClosedRowsWereChosen, Chosen
<1>12. (QueuedWereChosen /\ SessionsQueueChosen)'
    BY <1>5 DEF IInv, QueuedWereChosen, SessionsQueueChosen, SessionOK, ToBeConfirmed, Chosen
<1> QED BY <1>8, <1>9, <1>11, <1>12 DEF IInv

(* A step that leaves rows, sessions, commands and receipts alone.           *)
LEMMA AccountsChangeIInv ==
    ASSUME IInv, NEW b \in Batches, accounts_change(b)
    PROVE  IInv'
<1>1. UNCHANGED <<batches, items, sess, executor, receipts, confirmations, closures, losses>>
    BY DEF accounts_change
<1>2. TypeOK'
    <2>1. ledger' \in [Batches -> Snapshots]
        BY DEF accounts_change, IInv, TypeOK, Snapshots
    <2>2. changes' \in 0..MaxChanges
        BY OrderClosureAssumption DEF accounts_change, IInv, TypeOK
    <2> QED BY <1>1, <2>1, <2>2 DEF IInv, TypeOK
<1>3. CommandsCarryChosen'
    BY <1>1 DEF IInv, CommandsCarryChosen, CommandOK, Chosen
<1> QED BY <1>1, <1>2, <1>3, CommandsIInv

LEMMA TickIInv ==
    ASSUME IInv, Tick
    PROVE  IInv'
<1>1. UNCHANGED <<items, sess, executor, onec, confirmations, losses>>
    BY DEF Tick
<1>2. /\ batches' \in [Batches -> OrderClosureBatch \cup {None}]
      /\ \A b \in Batches : batches[b] # None => batches'[b] # None
    <2> DEFINE later(b) == IF batches[b] = None \/ batches[b].lease \in {0, None}
                           THEN batches[b]
                           ELSE [batches[b] EXCEPT !.lease = @ - 1]
    <2>1. batches' = [b \in Batches |-> later(b)]
        BY DEF Tick
    <2>2. ASSUME NEW b \in Batches
          PROVE  /\ later(b) \in OrderClosureBatch \cup {None}
                 /\ batches[b] # None => later(b) # None
        <3>1. CASE batches[b] = None \/ batches[b].lease \in {0, None}
            BY <3>1 DEF IInv, TypeOK
        <3>2. CASE batches[b] # None /\ batches[b].lease \notin {0, None}
            <4>1. batches[b] \in OrderClosureBatch
                BY <3>2 DEF IInv, TypeOK
            <4>2. batches[b].lease \in 1..LeaseTicks
                BY <3>2, <4>1, BatchFields, OrderClosureAssumption
            <4>3. batches[b].lease - 1 \in 0..LeaseTicks
                BY <4>2, OrderClosureAssumption
            <4>4. [batches[b] EXCEPT !.lease = @ - 1] \in OrderClosureBatch
                BY <4>1, <4>3 DEF OrderClosureBatch
            <4> QED BY <3>2, <4>4, NoneAssumption
        <3> QED BY <3>1, <3>2
    <2> HIDE DEF later
    <2> QED BY <2>1, <2>2
<1>3. TypeOK'
    BY <1>1, <1>2 DEF IInv, TypeOK, onec
<1>4. CommandsCarryChosen'
    <2>1. \A e \in Executors : executor[e] # None => executor[e].batch \in Batches
        BY DEF IInv, TypeOK, Command
    <2> QED BY <1>1, <1>2, <2>1 DEF IInv, CommandsCarryChosen, CommandOK, Chosen
<1> QED BY <1>1, <1>2, <1>3, <1>4, CommandsIInv DEF onec

------------------------------------------------------------------------------
(* The invariant is inductive, one step per action.                          *)
LEMMA NextIInv == IInv /\ [Next]_vars => IInv'
<1> SUFFICES ASSUME IInv, [Next]_vars PROVE IInv'
    OBVIOUS
<1>1. CASE \E b \in Batches : create_batch(b) \/ accounts_change(b)
    BY <1>1, CreateBatchIInv, AccountsChangeIInv
<1>2. CASE \E b \in Batches, allow_apply \in BOOLEAN : lease_commands(b, allow_apply)
    BY <1>2, LeaseCommandsIInv
<1>3. CASE \E b \in Batches, s \in Sessions : request_diagnosis(s, b)
    BY <1>3, RequestDiagnosisIInv
<1>4. CASE \E b \in Batches, s \in Sessions, seen \in Snapshots,
              chosen \in SUBSET Positions : confirm_batch(s, b, seen, chosen)
    BY <1>4, ConfirmBatchIInv
<1>5. CASE \E s \in Sessions : commit(s)
    BY <1>5, CommitIInv
<1>6. CASE \E s \in Sessions, e \in Executors : acknowledge_command(s, e)
    BY <1>6, AcknowledgeCommandIInv
<1>7. CASE \E e \in Executors : diagnose(e) \/ replay_receipt(e) \/ refuse(e)
    BY <1>7, AnswersIInv
<1>8. CASE \E e \in Executors : apply(e)
    BY <1>8, ApplyIInv
<1>9. CASE \E e \in Executors : acknowledge_rejected(e)
    <2>1. PICK e \in Executors : acknowledge_rejected(e)
        BY <1>9
    <2>2. losses' \in 0..MaxLosses
        BY <2>1 DEF acknowledge_rejected, IInv, TypeOK
    <2> QED BY <2>1, <2>2, DropIInv DEF acknowledge_rejected
<1>10. CASE \E e \in Executors : lose_command(e)
    <2>1. PICK e \in Executors : lose_command(e)
        BY <1>10
    <2>2. losses' \in 0..MaxLosses
        BY <2>1, OrderClosureAssumption DEF lose_command, IInv, TypeOK
    <2> QED BY <2>1, <2>2, DropIInv DEF lose_command
<1>11. CASE Tick
    BY <1>11, TickIInv
<1>12. CASE UNCHANGED vars
    <2>1. TypeOK'
        BY <1>12 DEF vars, IInv, TypeOK
    <2>2. CommandsCarryChosen'
        BY <1>12 DEF vars, IInv, CommandsCarryChosen, CommandOK, Chosen
    <2> QED BY <1>12, <2>1, <2>2, CommandsIInv DEF vars
<1> QED BY <1>1, <1>2, <1>3, <1>4, <1>5, <1>6, <1>7, <1>8, <1>9, <1>10, <1>11, <1>12
        DEF Next, OneCStep

LEMMA InvariantIInv == Spec => []IInv
<1>1. Init => IInv
    BY InitIInv
<1>2. IInv /\ [Next]_vars => IInv'
    BY NextIInv
<1> QED BY <1>1, <1>2, PTL DEF Spec

(* Batches, rows, open sessions and commands keep their types.               *)
THEOREM TypeCorrect == Spec => []TypeOK
<1>1. IInv => TypeOK
    BY DEF IInv
<1> QED BY <1>1, InvariantIInv, PTL

(* Whatever sessions and pollers overtake each other, a row closed in 1C was *)
(* chosen by the author in some confirmation of its batch.                   *)
THEOREM OnlyChosenRowsAreClosed == Spec => []ClosedRowsWereChosen
<1>1. IInv => ClosedRowsWereChosen
    BY DEF IInv
<1> QED BY <1>1, InvariantIInv, PTL

------------------------------------------------------------------------------
(* One session: the table moves from one handler's row to the next.          *)

(* A step between the load and the commit of a handler may only run down     *)
(* the lease.                                                                *)
RowsSame ==
    \A b \in Batches : batches[b] # None =>
        /\ batches'[b] # None
        /\ batches'[b].status = batches[b].status /\ batches'[b].kind = batches[b].kind
        /\ batches'[b].hash = batches[b].hash /\ batches'[b].token = batches[b].token
        /\ batches'[b].attempts = batches[b].attempts
        /\ batches[b].lease = None => batches'[b].lease = None

LEMMA SessionFields ==
    ASSUME TypeOK, NEW s \in Sessions, sess[s] # None
    PROVE  /\ sess[s].batch \in Batches
           /\ sess[s].old \in OrderClosureBatch /\ sess[s].new \in OrderClosureBatch
           /\ sess[s].oldItems \in Items /\ sess[s].newItems \in Items
           /\ sess[s].confirms \in Selection \cup {None}
BY DEF TypeOK, Transaction

LEMMA CommandFields ==
    ASSUME TypeOK, NEW e \in Executors, executor[e] # None
    PROVE  /\ executor[e] \in Command /\ executor[e].batch \in Batches
           /\ executor[e].kind \in {"diagnose", "apply"}
           /\ executor[e].orders \in SUBSET Positions
           /\ executor[e].token \in 1..MaxLeases
           /\ executor[e].hash \in {None} \cup Snapshots
           /\ executor[e].outcome \in {"diagnosed", "applied", "stale", "failed", None}
BY DEF TypeOK, Command

LEMMA SessionKept ==
    ASSUME IInv, RowsSame, UNCHANGED items, NEW s \in Sessions, sess'[s] = sess[s],
           sess[s] # None, SessionAsConfirmed(sess[s])
    PROVE  SessionAsConfirmed(sess[s])'
<1>1. sess[s].batch \in Batches BY SessionFields DEF IInv
<1>2. Fresh(sess[s])' BY <1>1 DEF SessionAsConfirmed, Fresh, RowsSame
<1>3. QED BY <1>2 DEF SessionAsConfirmed, Queued, WithStatus

(* Nothing was written in between, so what is committed is what the handler  *)
(* meant to write.                                                           *)
LEMMA MergeBatchFresh ==
    ASSUME NEW t \in Transaction, Fresh(t), batches[t.batch] \in OrderClosureBatch
    PROVE  MergeBatch(t.old, t.new, batches[t.batch]) = t.new
<1> DEFINE row == MergeBatch(t.old, t.new, batches[t.batch])
<1>1. t.new \in OrderClosureBatch BY DEF Transaction
<1>2. /\ row.status = t.new.status /\ row.kind = t.new.kind /\ row.hash = t.new.hash
      /\ row.token = t.new.token /\ row.lease = t.new.lease /\ row.attempts = t.new.attempts
  BY DEF MergeBatch, Column, Fresh
<1>3. row \in OrderClosureBatch BY <1>1, MergeBatchType
<1>4. QED BY <1>1, <1>2, <1>3 DEF OrderClosureBatch

LEMMA MergeItemsFresh ==
    ASSUME NEW old \in Items, NEW new \in Items
    PROVE  MergeItems(old, new, old) = new
<1>1. \A p \in Positions : new[p] \in OrderClosureItem BY DEF Items
<1>2. \A p \in Positions :
        [status |-> Column(old[p].status, new[p].status, old[p].status),
         eligible |-> Column(old[p].eligible, new[p].eligible, old[p].eligible)] = new[p]
  <2> SUFFICES ASSUME NEW p \in Positions
               PROVE  [status |-> Column(old[p].status, new[p].status, old[p].status),
                       eligible |-> Column(old[p].eligible, new[p].eligible, old[p].eligible)]
                          = new[p]
    OBVIOUS
  <2>1. /\ Column(old[p].status, new[p].status, old[p].status) = new[p].status
        /\ Column(old[p].eligible, new[p].eligible, old[p].eligible) = new[p].eligible
    BY DEF Column
  <2>2. QED BY <1>1, <2>1 DEF OrderClosureItem
<1>3. QED BY <1>2 DEF MergeItems, Items

LEMMA CommitFresh ==
    ASSUME IInv, NEW s \in Sessions, commit(s), Fresh(sess[s])
    PROVE  /\ batches' = [batches EXCEPT ![sess[s].batch] = sess[s].new]
           /\ items' = [items EXCEPT ![sess[s].batch] = sess[s].newItems]
<1>1. sess[s] # None /\ sess[s] \in Transaction BY DEF commit, IInv, TypeOK
<1>2. PICK t \in Transaction : t = sess[s] BY <1>1
<1>3. PICK b \in Batches : b = t.batch BY DEF Transaction
<1>4. /\ batches' = [batches EXCEPT ![b] = MergeBatch(t.old, t.new, batches[b])]
      /\ items' = [items EXCEPT ![b] = MergeItems(t.oldItems, t.newItems, items[b])]
  BY <1>1, <1>2, <1>3 DEF commit
<1>5. batches[b] \in OrderClosureBatch /\ items[b] = t.oldItems
  BY <1>2, <1>3 DEF Fresh, IInv, TypeOK
<1>6. MergeBatch(t.old, t.new, batches[b]) = t.new BY <1>2, <1>3, <1>5, MergeBatchFresh
<1>7. MergeItems(t.oldItems, t.newItems, items[b]) = t.newItems
  BY <1>5, MergeItemsFresh DEF Transaction
<1>8. QED BY <1>2, <1>3, <1>4, <1>6, <1>7

(* The handlers of the API, as the serial proofs use them.                   *)
Rows(b, chosen) ==
    [p \in Positions |->
        IF p \in chosen THEN [items[b][p] EXCEPT !.status = "queued"]
        ELSE IF items[b][p].eligible THEN [items[b][p] EXCEPT !.status = "skipped"]
        ELSE items[b][p]]

LEMMA QueuedRows ==
    ASSUME IInv, NEW b \in Batches, Queued(items[b]) = {}, NEW chosen \in SUBSET Positions
    PROVE  /\ Queued(Rows(b, chosen)) = chosen
           /\ \A p \in Positions : Rows(b, chosen)[p].status = "applied" =>
                 items[b][p].status = "applied"
<1>1. \A p \in Positions : items[b][p] \in OrderClosureItem /\ items[b][p].status # "queued"
  BY DEF IInv, TypeOK, Items, Queued, WithStatus
<1>2. ASSUME NEW p \in Positions
      PROVE  /\ Rows(b, chosen)[p].status = "queued" <=> p \in chosen
             /\ Rows(b, chosen)[p].status = "applied" => items[b][p].status = "applied"
  <2>1. /\ [items[b][p] EXCEPT !.status = "queued"].status = "queued"
        /\ [items[b][p] EXCEPT !.status = "skipped"].status = "skipped"
    BY <1>1 DEF OrderClosureItem
  <2>2. QED BY <1>1, <2>1 DEF Rows
<1>3. QED BY <1>2 DEF Queued, WithStatus

LEMMA NewItemsFacts ==
    NewItems \in Items /\ Queued(NewItems) = {} /\ WithStatus(NewItems, "applied") = {}
BY DEF NewItems, Items, OrderClosureItem, Queued, WithStatus

(* What the three handlers load.                                             *)
LEMMA RequestLoads ==
    ASSUME IInv, NEW s \in Sessions, NEW b \in Batches, request_diagnosis(s, b)
    PROVE  \E new \in OrderClosureBatch :
             /\ new.status = "draft" /\ new.kind = "diagnose" /\ new.lease = None
             /\ Prepare(s, b, new, NewItems, None, None)
             /\ sess[s] = None /\ batches[b] # None /\ batches[b].status \in Diagnosable
<1> DEFINE new == [batches[b] EXCEPT !.status = "draft", !.kind = "diagnose",
                                     !.token = None, !.lease = None, !.hash = None]
<1>1. /\ batches[b] # None /\ Prepare(s, b, new, NewItems, None, None)
      /\ sess[s] = None /\ batches[b].status \in Diagnosable
  BY DEF request_diagnosis
<1>2. /\ new \in OrderClosureBatch
      /\ new.status = "draft" /\ new.kind = "diagnose" /\ new.lease = None
  <2>1. batches[b] \in OrderClosureBatch BY <1>1 DEF IInv, TypeOK
  <2>2. QED BY <2>1 DEF OrderClosureBatch, BatchStatuses
<1> HIDE DEF new
<1>3. QED BY <1>1, <1>2

LEMMA ConfirmLoads ==
    ASSUME IInv, NEW s \in Sessions, NEW b \in Batches, NEW seen \in Snapshots,
           NEW chosen \in SUBSET Positions, confirm_batch(s, b, seen, chosen)
    PROVE  /\ \E new \in OrderClosureBatch :
                /\ new.status = "approved" /\ new.kind = "apply" /\ new.lease = None
                /\ new.hash = seen
                /\ Prepare(s, b, new, Rows(b, chosen), None, [hash |-> seen, orders |-> chosen])
           /\ [hash |-> seen, orders |-> chosen] \in Selection
           /\ Rows(b, chosen) \in Items /\ chosen # {}
           /\ sess[s] = None /\ batches[b] # None /\ batches[b].status = "diagnosed"
<1> DEFINE new == [batches[b] EXCEPT !.status = "approved", !.kind = "apply",
                                     !.token = None, !.lease = None]
<1>1. /\ Prepare(s, b, new, Rows(b, chosen), None, [hash |-> seen, orders |-> chosen])
      /\ sess[s] = None /\ batches[b] # None /\ batches[b].status = "diagnosed"
      /\ seen = batches[b].hash /\ chosen # {}
  BY DEF confirm_batch, Rows, SameDiagnosis
<1>2. /\ new \in OrderClosureBatch /\ new.hash = seen
      /\ new.status = "approved" /\ new.kind = "apply" /\ new.lease = None
  <2>1. batches[b] \in OrderClosureBatch BY <1>1 DEF IInv, TypeOK
  <2>2. QED BY <1>1, <2>1 DEF OrderClosureBatch, BatchStatuses
<1>3. Rows(b, chosen) \in Items
  <2>1. \A p \in Positions : items[b][p] \in OrderClosureItem BY DEF IInv, TypeOK, Items
  <2>2. \A p \in Positions :
          /\ [items[b][p] EXCEPT !.status = "queued"] \in OrderClosureItem
          /\ [items[b][p] EXCEPT !.status = "skipped"] \in OrderClosureItem
    BY <2>1 DEF OrderClosureItem
  <2>3. QED BY <2>1, <2>2 DEF Rows, Items
<1>4. [hash |-> seen, orders |-> chosen] \in Selection BY DEF Selection
<1> HIDE DEF new
<1>5. QED BY <1>1, <1>2, <1>3, <1>4

LEMMA AcknowledgeLoads ==
    ASSUME IInv, NEW s \in Sessions, NEW e \in Executors, acknowledge_command(s, e)
    PROVE  /\ executor[e] # None /\ executor[e].outcome # None /\ sess[s] = None
           /\ executor[e].batch \in Batches /\ batches[executor[e].batch] # None
           /\ Acceptable(executor[e].batch, executor[e])
           /\ AcknowledgedItems(executor[e].batch, executor[e]) \in Items
           /\ Queued(AcknowledgedItems(executor[e].batch, executor[e])) = {}
           /\ \E new \in OrderClosureBatch :
                /\ new.status = executor[e].outcome /\ new.kind = None /\ new.lease = None
                /\ Prepare(s, executor[e].batch, new,
                           AcknowledgedItems(executor[e].batch, executor[e]), e, None)
<1> DEFINE cmd == executor[e]
           b == cmd.batch
           new == Acknowledged(b, cmd)
<1>1. /\ cmd # None /\ cmd.outcome # None /\ sess[s] = None /\ Acceptable(b, cmd)
      /\ Prepare(s, b, new, AcknowledgedItems(b, cmd), e, None)
  BY DEF acknowledge_command
<1>2. cmd \in Command /\ b \in Batches BY <1>1, CommandFields DEF IInv
<1>3. batches[b] # None BY <1>1 DEF IInv, CommandsCarryChosen, CommandOK
<1>4. /\ new \in OrderClosureBatch
      /\ new.status = cmd.outcome /\ new.kind = None /\ new.lease = None
  <2>1. batches[b] \in OrderClosureBatch BY <1>2, <1>3 DEF IInv, TypeOK
  <2>2. /\ cmd.outcome \in {"diagnosed", "applied", "stale", "failed"}
        /\ cmd.hash \in {None} \cup Snapshots
    BY <1>1, <1>2 DEF Command
  <2>3. QED BY <2>1, <2>2 DEF Acknowledged, OrderClosureBatch, BatchStatuses
<1>5. /\ AcknowledgedItems(b, cmd) \in Items
      /\ \A p \in Positions : AcknowledgedItems(b, cmd)[p].status # "queued"
  BY <1>1, <1>2, AcknowledgedItemsType DEF IInv
<1>6. Queued(AcknowledgedItems(b, cmd)) = {} BY <1>5 DEF Queued, WithStatus
<1> HIDE DEF new
<1>7. QED BY <1>1, <1>2, <1>3, <1>4, <1>5, <1>6

(* Reports and losses of 1C.                                                 *)
LEMMA ReportIs ==
    ASSUME TypeOK, NEW e \in Executors, executor[e] # None, NEW outcome, NEW hash,
           Report(e, outcome, hash)
    PROVE  /\ executor'[e].batch = executor[e].batch /\ executor'[e].kind = executor[e].kind
           /\ executor'[e].token = executor[e].token /\ executor'[e].orders = executor[e].orders
           /\ executor'[e].outcome = outcome /\ executor'[e].hash = hash
           /\ \A d \in Executors : d # e => executor'[d] = executor[d]
<1>1. executor \in [Executors -> Command \cup {None}] /\ executor[e] \in Command
  BY DEF TypeOK
<1>2. executor' = [executor EXCEPT ![e] = [executor[e] EXCEPT !.outcome = outcome, !.hash = hash]]
  BY <1>1 DEF Report, Command
<1>3. executor'[e] = [executor[e] EXCEPT !.outcome = outcome, !.hash = hash] BY <1>1, <1>2
<1>4. /\ executor'[e].batch = executor[e].batch /\ executor'[e].kind = executor[e].kind
      /\ executor'[e].token = executor[e].token /\ executor'[e].orders = executor[e].orders
      /\ executor'[e].outcome = outcome /\ executor'[e].hash = hash
  BY <1>1, <1>3 DEF Command
<1>5. QED BY <1>1, <1>2, <1>4

(* The clock moves leases only.                                              *)
LEMMA TickRows ==
    ASSUME IInv, Tick
    PROVE  RowsSame /\ \A b \in Batches : batches[b] = None => batches'[b] = None
<1> DEFINE later(b) == IF batches[b] = None \/ batches[b].lease \in {0, None}
                       THEN batches[b] ELSE [batches[b] EXCEPT !.lease = @ - 1]
<1>1. batches' = [b \in Batches |-> later(b)] /\ IInv' BY TickIInv DEF Tick
<1>2. ASSUME NEW b \in Batches, batches[b] # None
      PROVE  /\ batches'[b] # None
             /\ batches'[b].status = batches[b].status /\ batches'[b].kind = batches[b].kind
             /\ batches'[b].hash = batches[b].hash /\ batches'[b].token = batches[b].token
             /\ batches'[b].attempts = batches[b].attempts
             /\ batches[b].lease = None => batches'[b].lease = None
  <2>1. batches[b] \in OrderClosureBatch BY <1>2 DEF IInv, TypeOK
  <2>2. CASE batches[b].lease \in {0, None}
    <3>1. batches'[b] = batches[b] BY <1>1, <2>2
    <3>2. QED BY <1>2, <3>1
  <2>3. CASE batches[b].lease \notin {0, None}
    <3>1. batches'[b] = [batches[b] EXCEPT !.lease = batches[b].lease - 1] BY <1>1, <1>2, <2>3
    <3>2. batches[b].lease \in 1..LeaseTicks
      BY <2>1, <2>3, BatchFields, OrderClosureAssumption
    <3>3. batches[b].lease - 1 \in 0..LeaseTicks BY <3>2, OrderClosureAssumption
    <3>4. batches'[b] \in OrderClosureBatch BY <2>1, <3>1, <3>3 DEF OrderClosureBatch
    <3>5. QED BY <2>1, <2>3, <3>1, <3>4, NoneAssumption DEF OrderClosureBatch
  <2>4. QED BY <2>2, <2>3
<1>3. \A b \in Batches : batches[b] = None => batches'[b] = None BY <1>1
<1>4. QED BY <1>2, <1>3 DEF RowsSame

------------------------------------------------------------------------------
(* One session: 1C closes what was confirmed.                                *)

LEMMA ConfirmedPrepare ==
    ASSUME OneSession, IInv, AsConfirmed,
           NEW s \in Sessions, NEW b \in Batches, batches[b] # None,
           NEW new \in OrderClosureBatch, NEW newItems \in Items,
           NEW e \in Executors \cup {None}, NEW confirms \in Selection \cup {None},
           Prepare(s, b, new, newItems, e, confirms),
           new.lease = None, new.status # "leased",
           new.kind = "apply" =>
              /\ new.status = "approved" /\ confirms # None
              /\ confirms = [hash |-> new.hash, orders |-> Queued(newItems)],
           new.kind # "apply" => Queued(newItems) = {}
    PROVE  AsConfirmed'
<1> DEFINE t == [batch |-> b, old |-> batches[b], new |-> new,
                 oldItems |-> items[b], newItems |-> newItems,
                 executor |-> e, confirms |-> confirms]
<1>1. /\ sess' = [sess EXCEPT ![s] = t]
      /\ UNCHANGED <<batches, items, executor, onec, confirmations, losses>>
  BY DEF Prepare
<1>2. sess'[s] = t BY <1>1 DEF IInv, TypeOK
<1>3. SessionAsConfirmed(sess[s])'
  <2>1. Fresh(sess[s])' BY <1>1, <1>2 DEF Fresh
  <2>2. QED BY <1>2, <2>1 DEF SessionAsConfirmed, Queued, WithStatus
<1> HIDE DEF t
<1>4. \A x \in Sessions : sess'[x] # None => SessionAsConfirmed(sess[x])'
  <2>1. \A x \in Sessions : x = s BY DEF OneSession
  <2>2. QED BY <1>3, <2>1
<1>5. /\ \A x \in Batches : BatchAsConfirmed(x)'
      /\ \A d \in Executors : executor'[d] # None => CommandAsConfirmed(executor[d])'
      /\ ClosedAsConfirmed'
  BY <1>1 DEF AsConfirmed, BatchAsConfirmed, CommandAsConfirmed, ClosedAsConfirmed, Queued,
              WithStatus, onec
<1>6. QED BY <1>4, <1>5 DEF AsConfirmed

(* Steps of 1C: only commands and closures move.                             *)
LEMMA ConfirmedCommands ==
    ASSUME IInv, AsConfirmed, UNCHANGED <<batches, items, sess, confirmations>>,
           ClosedAsConfirmed',
           \A e \in Executors : executor'[e] # None => CommandAsConfirmed(executor[e])'
    PROVE  AsConfirmed'
<1>1. RowsSame BY DEF RowsSame
<1>2. \A s \in Sessions : sess'[s] # None => SessionAsConfirmed(sess[s])'
  BY <1>1, SessionKept DEF AsConfirmed
<1>3. \A b \in Batches : BatchAsConfirmed(b)'
  BY DEF AsConfirmed, BatchAsConfirmed, Queued, WithStatus
<1>4. QED BY <1>2, <1>3 DEF AsConfirmed

LEMMA ConfirmedReport ==
    ASSUME IInv, AsConfirmed, NEW e \in Executors, executor[e] # None, NEW outcome, NEW hash,
           Report(e, outcome, hash), executor[e].kind = "apply" => hash = executor[e].hash,
           UNCHANGED <<batches, items, sess, confirmations>>, ClosedAsConfirmed'
    PROVE  AsConfirmed'
<1>1. /\ executor'[e].batch = executor[e].batch /\ executor'[e].kind = executor[e].kind
      /\ executor'[e].orders = executor[e].orders /\ executor'[e].hash = hash
      /\ \A d \in Executors : d # e => executor'[d] = executor[d]
  BY ReportIs DEF IInv
<1>2. ASSUME NEW d \in Executors, executor'[d] # None PROVE CommandAsConfirmed(executor[d])'
  <2>1. CASE d = e BY <1>1, <2>1 DEF AsConfirmed, CommandAsConfirmed
  <2>2. CASE d # e BY <1>1, <1>2, <2>2 DEF AsConfirmed, CommandAsConfirmed
  <2>3. QED BY <2>1, <2>2
<1>3. QED BY <1>2, ConfirmedCommands

(* A lease changes the columns of the lease.                                 *)
LEMMA LeasedRow ==
    ASSUME IInv, NEW b \in Batches, NEW allow_apply \in BOOLEAN, lease_commands(b, allow_apply)
    PROVE  /\ batches[b] \in OrderClosureBatch /\ batches'[b] # None
           /\ batches'[b].kind = batches[b].kind /\ batches'[b].hash = batches[b].hash
           /\ batches'[b].status = "leased" /\ batches'[b].token = batches[b].attempts + 1
           /\ \A x \in Batches : x # b => batches'[x] = batches[x]
<1> DEFINE token == batches[b].attempts + 1
           row == [batches[b] EXCEPT !.status = "leased", !.token = token,
                                     !.lease = LeaseTicks, !.attempts = token]
<1>1. batches[b] \in OrderClosureBatch /\ batches[b].attempts < MaxLeases
  BY DEF lease_commands, IInv, TypeOK
<1>2. token \in 1..MaxLeases /\ token \in 0..MaxLeases /\ LeaseTicks \in 0..LeaseTicks
  BY <1>1, OrderClosureAssumption DEF OrderClosureBatch
<1>3. batches' = [batches EXCEPT ![b] = row] BY DEF lease_commands
<1> HIDE DEF token
<1>4. row \in OrderClosureBatch BY <1>1, <1>2 DEF OrderClosureBatch, BatchStatuses
<1>5. /\ row.kind = batches[b].kind /\ row.hash = batches[b].hash
      /\ row.status = "leased" /\ row.token = token
  BY <1>1 DEF OrderClosureBatch
<1> HIDE DEF row
<1>6. batches'[b] = row /\ \A x \in Batches : x # b => batches'[x] = batches[x]
  BY <1>3 DEF IInv, TypeOK
<1>7. QED BY <1>1, <1>4, <1>5, <1>6, NoneAssumption DEF token

LEMMA ConfirmedLease ==
    ASSUME OneSession, IInv, AsConfirmed, NEW b \in Batches, NEW allow_apply \in BOOLEAN,
           lease_commands(b, allow_apply)
    PROVE  AsConfirmed'
<1> DEFINE token == batches[b].attempts + 1
           command == [batch |-> b, kind |-> batches[b].kind, token |-> token,
                       hash |-> batches[b].hash,
                       orders |-> IF batches[b].kind = "apply"
                                  THEN QueuedOrders(b) ELSE Positions,
                       outcome |-> None]
<1>1. /\ batches[b] # None
      /\ batches' = [batches EXCEPT ![b] =
            [batches[b] EXCEPT !.status = "leased", !.token = token,
                               !.lease = LeaseTicks, !.attempts = token]]
      /\ \/ \E e \in Executors : executor' = [executor EXCEPT ![e] = command]
         \/ UNCHANGED executor
      /\ UNCHANGED <<items, sess, closures, confirmations>>
      /\ \E s \in Sessions : sess[s] = None
  BY DEF lease_commands, onec
<1>2. \A s \in Sessions : sess[s] = None BY <1>1 DEF OneSession
<1>3. batches[b] \in OrderClosureBatch BY <1>1 DEF IInv, TypeOK
<1>4. /\ batches'[b].kind = batches[b].kind /\ batches'[b].hash = batches[b].hash
      /\ batches'[b].status = "leased" /\ batches'[b] # None
      /\ \A x \in Batches : x # b => batches'[x] = batches[x]
  BY LeasedRow
<1>5. ASSUME NEW x \in Batches PROVE BatchAsConfirmed(x)'
  <2>1. Queued(items[x])' = Queued(items[x]) BY <1>1 DEF Queued, WithStatus
  <2>2. BatchAsConfirmed(x) BY DEF AsConfirmed
  <2>3. CASE x = b BY <1>1, <1>4, <2>1, <2>2, <2>3 DEF BatchAsConfirmed
  <2>4. CASE x # b BY <1>1, <1>4, <2>1, <2>2, <2>4 DEF BatchAsConfirmed
  <2>5. QED BY <2>3, <2>4
<1>6. command.kind = "apply" =>
          [hash |-> command.hash, orders |-> command.orders] \in confirmations[command.batch]
  BY <1>1 DEF AsConfirmed, BatchAsConfirmed, QueuedOrders, Queued
<1> HIDE DEF command
<1>7. \A e \in Executors : executor'[e] \in {executor[e], command} BY <1>1 DEF IInv, TypeOK
<1>8. \A e \in Executors : executor'[e] # None => CommandAsConfirmed(executor[e])'
  BY <1>1, <1>6, <1>7 DEF AsConfirmed, CommandAsConfirmed
<1>9. QED BY <1>1, <1>2, <1>5, <1>8 DEF AsConfirmed, ClosedAsConfirmed

LEMMA ConfirmedApply ==
    ASSUME IInv, AsConfirmed, NEW e \in Executors, apply(e)
    PROVE  AsConfirmed'
<1>1. /\ executor[e] # None /\ executor[e].kind = "apply"
      /\ Report(e, "applied", executor[e].hash)
      /\ closures' = [closures EXCEPT ![executor[e].batch] = @ \cup
              {[hash |-> executor[e].hash, orders |-> executor[e].orders]}]
      /\ UNCHANGED <<batches, items, sess, confirmations>>
  BY DEF apply, Executing
<1>2. executor[e].batch \in Batches BY <1>1, CommandFields DEF IInv
<1>3. [hash |-> executor[e].hash, orders |-> executor[e].orders]
          \in confirmations[executor[e].batch]
  BY <1>1 DEF AsConfirmed, CommandAsConfirmed
<1>4. ClosedAsConfirmed'
  BY <1>1, <1>2, <1>3 DEF AsConfirmed, ClosedAsConfirmed, IInv, TypeOK
<1>5. QED BY <1>1, <1>4, ConfirmedReport

LEMMA ConfirmedCommit ==
    ASSUME OneSession, IInv, AsConfirmed, NEW s \in Sessions, commit(s)
    PROVE  AsConfirmed'
<1>1. sess[s] # None /\ SessionAsConfirmed(sess[s]) BY DEF commit, AsConfirmed
<1>2. PICK t \in Transaction : t = sess[s] BY <1>1 DEF IInv, TypeOK
<1>3. PICK b \in Batches : b = t.batch BY DEF Transaction
<1>4. /\ batches' = [batches EXCEPT ![b] = t.new] /\ items' = [items EXCEPT ![b] = t.newItems]
  BY <1>1, <1>2, <1>3, CommitFresh DEF SessionAsConfirmed
<1>5. /\ confirmations' = [confirmations EXCEPT ![b] = @ \cup ({t.confirms} \ {None})]
      /\ sess' = [sess EXCEPT ![s] = None] /\ UNCHANGED closures
      /\ \A e \in Executors : executor'[e] \in {None, executor[e]}
  BY <1>2, <1>3 DEF commit, onec, IInv, TypeOK
<1>6. t.new \in OrderClosureBatch /\ t.newItems \in Items BY DEF Transaction
<1>7. /\ batches'[b] = t.new /\ items'[b] = t.newItems
      /\ \A x \in Batches : x # b => batches'[x] = batches[x] /\ items'[x] = items[x]
      /\ \A x \in Batches : confirmations[x] \subseteq confirmations'[x]
      /\ t.confirms # None => t.confirms \in confirmations'[b]
  BY <1>4, <1>5, <1>6 DEF IInv, TypeOK
<1>8. BatchAsConfirmed(b)'
  <2>1. Queued(items[b])' = Queued(t.newItems) BY <1>7 DEF Queued, WithStatus
  <2>2. SessionAsConfirmed(t) BY <1>1, <1>2
  <2>3. t.new # None BY <1>6, NoneAssumption
  <2>4. QED BY <1>7, <2>1, <2>2, <2>3 DEF SessionAsConfirmed, BatchAsConfirmed
<1>9. ASSUME NEW x \in Batches, x # b PROVE BatchAsConfirmed(x)'
  <2>1. Queued(items[x])' = Queued(items[x]) BY <1>7, <1>9 DEF Queued, WithStatus
  <2>2. QED BY <1>7, <1>9, <2>1 DEF AsConfirmed, BatchAsConfirmed
<1>10. \A x \in Sessions : sess'[x] = None BY <1>5 DEF OneSession, IInv, TypeOK
<1>11. ASSUME NEW e \in Executors, executor'[e] # None PROVE CommandAsConfirmed(executor[e])'
  <2>1. executor'[e] = executor[e] /\ executor[e].batch \in Batches
    BY <1>5, <1>11, CommandFields DEF IInv
  <2>2. QED BY <1>7, <1>11, <2>1 DEF AsConfirmed, CommandAsConfirmed
<1>12. ClosedAsConfirmed' BY <1>5, <1>7 DEF AsConfirmed, ClosedAsConfirmed
<1>13. QED BY <1>8, <1>9, <1>10, <1>11, <1>12 DEF AsConfirmed

LEMMA ConfirmedHandlers ==
    ASSUME OneSession, IInv, AsConfirmed, NEW s \in Sessions
    PROVE  /\ \A b \in Batches : request_diagnosis(s, b) => AsConfirmed'
           /\ \A b \in Batches, seen \in Snapshots, chosen \in SUBSET Positions :
                 confirm_batch(s, b, seen, chosen) => AsConfirmed'
           /\ \A e \in Executors : acknowledge_command(s, e) => AsConfirmed'
<1>1. ASSUME NEW b \in Batches, request_diagnosis(s, b) PROVE AsConfirmed'
  <2>1. PICK new \in OrderClosureBatch :
          /\ new.status = "draft" /\ new.kind = "diagnose" /\ new.lease = None
          /\ Prepare(s, b, new, NewItems, None, None) /\ batches[b] # None
    BY <1>1, RequestLoads
  <2>2. QED BY <2>1, NewItemsFacts, ConfirmedPrepare
<1>2. ASSUME NEW b \in Batches, NEW seen \in Snapshots, NEW chosen \in SUBSET Positions,
             confirm_batch(s, b, seen, chosen)
      PROVE  AsConfirmed'
  <2>1. PICK new \in OrderClosureBatch :
          /\ new.status = "approved" /\ new.kind = "apply" /\ new.lease = None
          /\ new.hash = seen
          /\ Prepare(s, b, new, Rows(b, chosen), None, [hash |-> seen, orders |-> chosen])
    BY <1>2, ConfirmLoads
  <2>2. /\ [hash |-> seen, orders |-> chosen] \in Selection
        /\ Rows(b, chosen) \in Items /\ batches[b] # None /\ batches[b].status = "diagnosed"
    BY <1>2, ConfirmLoads
  <2>3. [hash |-> seen, orders |-> chosen] # None BY <2>2, NoneAssumption
  <2>4. Queued(items[b]) = {} BY <2>2 DEF AsConfirmed, BatchAsConfirmed
  <2>5. Queued(Rows(b, chosen)) = chosen BY <2>4, QueuedRows
  <2>6. QED BY <2>1, <2>2, <2>3, <2>5, ConfirmedPrepare
<1>3. ASSUME NEW e \in Executors, acknowledge_command(s, e) PROVE AsConfirmed'
  <2>1. PICK b \in Batches : b = executor[e].batch BY <1>3, AcknowledgeLoads
  <2>2. /\ batches[b] # None /\ AcknowledgedItems(b, executor[e]) \in Items
        /\ Queued(AcknowledgedItems(b, executor[e])) = {}
        /\ executor[e] # None /\ executor[e].outcome # None
    BY <1>3, <2>1, AcknowledgeLoads
  <2>3. PICK new \in OrderClosureBatch :
          /\ new.status = executor[e].outcome /\ new.kind = None /\ new.lease = None
          /\ Prepare(s, b, new, AcknowledgedItems(b, executor[e]), e, None)
    BY <1>3, <2>1, AcknowledgeLoads
  <2>4. new.status # "leased" /\ new.kind # "apply"
    BY <2>2, <2>3, CommandFields, NoneAssumption DEF IInv
  <2>5. QED BY <2>2, <2>3, <2>4, ConfirmedPrepare
<1>4. QED BY <1>1, <1>2, <1>3

LEMMA NextConfirmed ==
    ASSUME OneSession, IInv, AsConfirmed, [Next]_vars
    PROVE  AsConfirmed'
<1>1. CASE \E b \in Batches : create_batch(b)
  <2>1. PICK b \in Batches : create_batch(b) BY <1>1
  <2> DEFINE row == [status |-> "draft", kind |-> "diagnose", hash |-> None, token |-> None,
                     lease |-> None, attempts |-> 0]
  <2>2. /\ batches[b] = None /\ batches' = [batches EXCEPT ![b] = row]
        /\ UNCHANGED <<items, sess, executor, closures, confirmations>>
    BY <2>1 DEF create_batch, onec
  <2>3. batches'[b] = row /\ \A x \in Batches : x # b => batches'[x] = batches[x]
    BY <2>2 DEF IInv, TypeOK
  <2>4. RowsSame BY <2>2, <2>3 DEF RowsSame
  <2>5. \A s \in Sessions : sess'[s] # None => SessionAsConfirmed(sess[s])'
    BY <2>2, <2>4, SessionKept DEF AsConfirmed
  <2>6. BatchAsConfirmed(b)'
    <3>1. Queued(items[b])' = Queued(items[b]) BY <2>2 DEF Queued, WithStatus
    <3>2. batches'[b].kind # "apply" BY <2>3
    <3>3. QED BY <2>2, <3>1, <3>2 DEF AsConfirmed, BatchAsConfirmed
  <2>7. \A x \in Batches : x # b => BatchAsConfirmed(x)'
    BY <2>2, <2>3 DEF AsConfirmed, BatchAsConfirmed, Queued, WithStatus
  <2>8. QED
    BY <2>2, <2>5, <2>6, <2>7 DEF AsConfirmed, CommandAsConfirmed, ClosedAsConfirmed
<1>2. CASE \E b \in Batches : accounts_change(b)
  BY <1>2, ConfirmedCommands DEF accounts_change, AsConfirmed, CommandAsConfirmed,
     ClosedAsConfirmed
<1>3. CASE \E b \in Batches, allow_apply \in BOOLEAN : lease_commands(b, allow_apply)
  BY <1>3, ConfirmedLease
<1>4. CASE \/ \E b \in Batches, s \in Sessions : request_diagnosis(s, b)
           \/ \E b \in Batches, s \in Sessions, seen \in Snapshots,
                 chosen \in SUBSET Positions : confirm_batch(s, b, seen, chosen)
           \/ \E s \in Sessions, e \in Executors : acknowledge_command(s, e)
  BY <1>4, ConfirmedHandlers
<1>5. CASE \E s \in Sessions : commit(s) BY <1>5, ConfirmedCommit
<1>6. CASE \E e \in Executors : diagnose(e) \/ replay_receipt(e) \/ refuse(e)
  <2>1. PICK e \in Executors : diagnose(e) \/ replay_receipt(e) \/ refuse(e) BY <1>6
  <2>2. executor[e] # None /\ UNCHANGED <<batches, items, sess, confirmations, closures>>
    BY <2>1 DEF diagnose, replay_receipt, refuse, Executing, onec
  <2>3. \E outcome \in {"diagnosed", "applied", "stale", "failed"} :
          \/ Report(e, outcome, executor[e].hash)
          \/ executor[e].kind = "diagnose" /\ Report(e, outcome, ledger[executor[e].batch])
    BY <2>1 DEF diagnose, replay_receipt, refuse, Executing
  <2>4. ClosedAsConfirmed' BY <2>2 DEF AsConfirmed, ClosedAsConfirmed
  <2>5. QED BY <2>2, <2>3, <2>4, ConfirmedReport
<1>7. CASE \E e \in Executors : apply(e) BY <1>7, ConfirmedApply
<1>8. CASE \E e \in Executors : acknowledge_rejected(e) \/ lose_command(e)
  <2>1. PICK e \in Executors : executor' = [executor EXCEPT ![e] = None]
    BY <1>8 DEF acknowledge_rejected, lose_command
  <2>2. UNCHANGED <<batches, items, sess, confirmations, closures>>
    BY <1>8 DEF acknowledge_rejected, lose_command, onec
  <2>3. \A d \in Executors : executor'[d] \in {None, executor[d]} BY <2>1 DEF IInv, TypeOK
  <2>4. QED
    BY <2>2, <2>3, ConfirmedCommands DEF AsConfirmed, CommandAsConfirmed, ClosedAsConfirmed
<1>9. CASE Tick
  <2>1. UNCHANGED <<items, sess, executor, closures, confirmations>> BY <1>9 DEF Tick, onec
  <2>2. RowsSame /\ \A b \in Batches : batches[b] = None => batches'[b] = None
    BY <1>9, TickRows
  <2>3. \A s \in Sessions : sess'[s] # None => SessionAsConfirmed(sess[s])'
    BY <2>1, <2>2, SessionKept DEF AsConfirmed
  <2>4. \A b \in Batches : BatchAsConfirmed(b)'
    BY <2>1, <2>2 DEF RowsSame, AsConfirmed, BatchAsConfirmed, Queued, WithStatus
  <2>5. QED BY <2>1, <2>3, <2>4 DEF AsConfirmed, CommandAsConfirmed, ClosedAsConfirmed
<1>10. CASE UNCHANGED vars
  BY <1>10, ConfirmedCommands DEF vars, AsConfirmed, CommandAsConfirmed, ClosedAsConfirmed
<1>11. QED
  BY <1>1, <1>2, <1>3, <1>4, <1>5, <1>6, <1>7, <1>8, <1>9, <1>10 DEF Next, OneCStep

LEMMA AlwaysAsConfirmed ==
    ASSUME OneSession
    PROVE  Spec => []AsConfirmed
<1>1. Init => AsConfirmed
  BY NewItemsFacts DEF Init, AsConfirmed, BatchAsConfirmed, ClosedAsConfirmed
<1>2. IInv /\ AsConfirmed /\ [Next]_vars => AsConfirmed' BY NextConfirmed
<1>3. QED BY <1>1, <1>2, InvariantIInv, PTL DEF Spec

(* What 1C closes is one whole selection of the author, under the diagnosis  *)
(* it was confirmed for: with handlers served one at a time the queued rows  *)
(* and the hash of an apply command come from the same confirmation, for any *)
(* number of pollers, lost commands and repeated leases.                     *)
THEOREM ClosesAsConfirmed ==
    ASSUME OneSession
    PROVE  Spec => []ClosedAsConfirmed
<1>1. AsConfirmed => ClosedAsConfirmed BY DEF AsConfirmed
<1>2. QED BY <1>1, AlwaysAsConfirmed, PTL

------------------------------------------------------------------------------
(* One session and one poller: the table records what 1C closed.             *)

AppliedRows(rows) == WithStatus(rows, "applied")
BatchAsRecorded(b) ==
    IF batches[b] = None THEN receipts[b] = {} /\ AppliedRows(items[b]) = {}
    ELSE Recorded(batches[b], items[b], receipts[b])
SessionAsRecorded(s) == Recorded(sess[s].new, sess[s].newItems, receipts[sess[s].batch])
(* Nobody waits for 1C on a batch that a handler is about to write.          *)
Settling(e) ==
    \A s \in Sessions : sess[s] # None /\ sess[s].batch = executor[e].batch =>
        executor[e].outcome # None

LEMMA AsRecordedIs ==
    AsRecorded <=>
        /\ \A b \in Batches : BatchAsRecorded(b)
        /\ \A s \in Sessions : sess[s] # None => SessionAsRecorded(s)
        /\ \A e \in Executors : executor[e] # None => CommandStands(executor[e]) /\ Settling(e)
BY DEF AsRecorded, BatchAsRecorded, SessionAsRecorded, Settling, AppliedRows

LEMMA AsRecordedNext ==
    ASSUME \A b \in Batches : BatchAsRecorded(b)',
           \A s \in Sessions : sess'[s] # None => SessionAsRecorded(s)',
           \A e \in Executors : executor'[e] # None =>
              CommandStands(executor[e])' /\ Settling(e)'
    PROVE  AsRecorded'
BY DEF AsRecorded, BatchAsRecorded, SessionAsRecorded, Settling, AppliedRows

(* What a handler may find in 1C's receipts.                                 *)
LEMMA ReceiptsKnown ==
    ASSUME IInv, AsConfirmed, AsRecorded, NEW b \in Batches, batches[b] # None
    PROVE  /\ batches[b].status # "applied" => AppliedRows(items[b]) = {}
           /\ batches[b].status # "applied" /\ batches[b].kind # "apply" => receipts[b] = {}
           /\ batches[b].kind = "apply" =>
                 batches[b].status # "applied" /\ receipts[b] \in {{}, Queued(items[b])}
           /\ batches[b].status \in Diagnosable => receipts[b] = {}
BY AsRecordedIs
DEF BatchAsRecorded, Recorded, AppliedRows, AsConfirmed, BatchAsConfirmed, Diagnosable

LEMMA RecordedPrepare ==
    ASSUME OneSession, IInv, AsRecorded,
           NEW s \in Sessions, NEW b \in Batches, NEW new, NEW newItems, NEW e, NEW confirms,
           Prepare(s, b, new, newItems, e, confirms),
           Recorded(new, newItems, receipts[b]),
           \A d \in Executors : executor[d] # None /\ executor[d].batch = b =>
              executor[d].outcome # None
    PROVE  AsRecorded'
<1> DEFINE t == [batch |-> b, old |-> batches[b], new |-> new,
                 oldItems |-> items[b], newItems |-> newItems,
                 executor |-> e, confirms |-> confirms]
<1>1. /\ sess' = [sess EXCEPT ![s] = t]
      /\ UNCHANGED <<batches, items, executor, onec, confirmations, losses>>
  BY DEF Prepare
<1>2. sess'[s].batch = b /\ sess'[s].new = new /\ sess'[s].newItems = newItems
  BY <1>1 DEF IInv, TypeOK
<1>3. \A x \in Sessions : x = s BY DEF OneSession
<1>4. \A x \in Batches : BatchAsRecorded(x)'
  BY <1>1, AsRecordedIs DEF BatchAsRecorded, Recorded, AppliedRows, Queued, WithStatus, onec
<1>5. SessionAsRecorded(s)'
  BY <1>1, <1>2 DEF SessionAsRecorded, Recorded, Queued, WithStatus, onec
<1>6. \A d \in Executors : executor'[d] # None => CommandStands(executor[d])' /\ Settling(d)'
  <2> SUFFICES ASSUME NEW d \in Executors, executor[d] # None
               PROVE  CommandStands(executor[d])' /\ Settling(d)'
    BY <1>1
  <2>1. CommandStands(executor[d])'
    BY <1>1, AsRecordedIs DEF CommandStands, LeaseMatches, Queued, WithStatus, onec
  <2>2. Settling(d)' BY <1>1, <1>2, <1>3 DEF Settling
  <2>3. QED BY <2>1, <2>2
<1>7. \A x \in Sessions : sess'[x] # None => SessionAsRecorded(x)' BY <1>3, <1>5
<1>8. QED BY <1>4, <1>6, <1>7, AsRecordedNext

(* An acknowledgement turns the queued rows into the outcome.                *)
LEMMA AcknowledgedRows ==
    ASSUME IInv, NEW b \in Batches, NEW cmd \in Command, cmd.outcome # None,
           AppliedRows(items[b]) = {}
    PROVE  AppliedRows(AcknowledgedItems(b, cmd)) =
              IF cmd.outcome = "applied" THEN Queued(items[b]) ELSE {}
<1>1. \A p \in Positions : items[b][p] \in OrderClosureItem /\ items[b][p].status # "applied"
  BY DEF IInv, TypeOK, Items, AppliedRows, WithStatus
<1>2. CASE cmd.outcome = "diagnosed"
  <2>1. AcknowledgedItems(b, cmd) = [p \in Positions |->
            [status |-> IF p \in cmd.hash THEN "eligible" ELSE "blocked",
             eligible |-> p \in cmd.hash]]
    BY <1>2 DEF AcknowledgedItems
  <2>2. \A p \in Positions : AcknowledgedItems(b, cmd)[p].status # "applied" BY <2>1
  <2>3. QED BY <1>2, <2>2 DEF AppliedRows, WithStatus
<1>3. CASE cmd.outcome # "diagnosed"
  <2>1. AcknowledgedItems(b, cmd) = [p \in Positions |->
            IF items[b][p].status = "queued"
            THEN [items[b][p] EXCEPT !.status = cmd.outcome] ELSE items[b][p]]
    BY <1>3 DEF AcknowledgedItems
  <2>2. \A p \in Positions : AcknowledgedItems(b, cmd)[p].status =
            IF items[b][p].status = "queued" THEN cmd.outcome ELSE items[b][p].status
    BY <1>1, <2>1 DEF OrderClosureItem
  <2>3. QED BY <1>1, <2>2 DEF AppliedRows, Queued, WithStatus
<1>4. QED BY <1>2, <1>3

LEMMA RecordedHandlers ==
    ASSUME OneSession, OnePoller, IInv, AsConfirmed, AsRecorded, NEW s \in Sessions
    PROVE  /\ \A b \in Batches : request_diagnosis(s, b) => AsRecorded'
           /\ \A b \in Batches, seen \in Snapshots, chosen \in SUBSET Positions :
                 confirm_batch(s, b, seen, chosen) => AsRecorded'
           /\ \A e \in Executors : acknowledge_command(s, e) => AsRecorded'
<1>a. None # "apply" /\ None # "applied" BY NoneAssumption DEF BatchStatuses
<1>1. ASSUME NEW b \in Batches, request_diagnosis(s, b) PROVE AsRecorded'
  <2>1. PICK new \in OrderClosureBatch :
          /\ new.status = "draft" /\ new.kind = "diagnose"
          /\ Prepare(s, b, new, NewItems, None, None)
    BY <1>1, RequestLoads
  <2>2. batches[b] # None /\ batches[b].status \in Diagnosable BY <1>1, RequestLoads
  <2>3. receipts[b] = {} BY <2>2, ReceiptsKnown
  <2>4. Recorded(new, NewItems, receipts[b]) BY <2>1, <2>3, NewItemsFacts DEF Recorded
  <2>5. \A d \in Executors : executor[d] # None /\ executor[d].batch = b =>
            executor[d].outcome # None
    BY <2>2, AsRecordedIs DEF CommandStands, LeaseMatches, Diagnosable
  <2>6. QED BY <2>1, <2>4, <2>5, RecordedPrepare
<1>2. ASSUME NEW b \in Batches, NEW seen \in Snapshots, NEW chosen \in SUBSET Positions,
             confirm_batch(s, b, seen, chosen)
      PROVE  AsRecorded'
  <2>1. PICK new \in OrderClosureBatch :
          /\ new.status = "approved" /\ new.kind = "apply"
          /\ Prepare(s, b, new, Rows(b, chosen), None, [hash |-> seen, orders |-> chosen])
    BY <1>2, ConfirmLoads
  <2>2. batches[b] # None /\ batches[b].status = "diagnosed" BY <1>2, ConfirmLoads
  <2>3. /\ receipts[b] = {} /\ AppliedRows(items[b]) = {} /\ Queued(items[b]) = {}
    BY <2>2, ReceiptsKnown DEF Diagnosable, AsConfirmed, BatchAsConfirmed
  <2>4. AppliedRows(Rows(b, chosen)) = {}
    BY <2>3, QueuedRows DEF AppliedRows, WithStatus
  <2>5. Recorded(new, Rows(b, chosen), receipts[b]) BY <2>1, <2>3, <2>4 DEF Recorded, AppliedRows
  <2>6. \A d \in Executors : executor[d] # None /\ executor[d].batch = b =>
            executor[d].outcome # None
    BY <2>2, AsRecordedIs DEF CommandStands, LeaseMatches
  <2>7. QED BY <2>1, <2>5, <2>6, RecordedPrepare
<1>3. ASSUME NEW e \in Executors, acknowledge_command(s, e) PROVE AsRecorded'
  <2>1. PICK b \in Batches : b = executor[e].batch BY <1>3, AcknowledgeLoads
  <2>2. PICK cmd \in Command : cmd = executor[e] BY <1>3, AcknowledgeLoads, CommandFields DEF IInv
  <2>3. /\ batches[b] # None /\ cmd # None /\ cmd.outcome # None /\ cmd.batch = b
        /\ LeaseMatches(b, cmd) /\ OutcomeFits(b, cmd) /\ AppliedInFull(b, cmd)
    BY <1>3, <2>1, <2>2, AcknowledgeLoads DEF Acceptable
  <2>4. PICK new \in OrderClosureBatch :
          /\ new.status = cmd.outcome /\ new.kind = None
          /\ Prepare(s, b, new, AcknowledgedItems(b, cmd), e, None)
    BY <1>3, <2>1, <2>2, AcknowledgeLoads
  <2>5. batches[b].status = "leased" BY <2>3 DEF LeaseMatches
  <2>6. CommandStands(cmd) BY <2>2, <2>3, AsRecordedIs
  <2>7. AppliedRows(AcknowledgedItems(b, cmd)) =
            IF cmd.outcome = "applied" THEN Queued(items[b]) ELSE {}
    BY <2>3, <2>5, ReceiptsKnown, AcknowledgedRows
  <2>8. IF cmd.outcome = "applied" THEN receipts[b] = Queued(items[b]) /\ receipts[b] # {}
        ELSE receipts[b] = {}
    <3>1. CASE cmd.outcome = "applied"
      <4>1. cmd.orders = Queued(items[b]) BY <2>3, <3>1 DEF AppliedInFull, QueuedOrders, Queued
      <4>2. QED BY <2>3, <2>6, <3>1, <4>1 DEF CommandStands
    <3>2. CASE cmd.outcome = "diagnosed"
      <4>1. batches[b].kind = "diagnose" BY <2>3, <3>2 DEF OutcomeFits
      <4>2. QED BY <2>3, <2>5, <3>2, <4>1, ReceiptsKnown
    <3>3. CASE cmd.outcome \in {"stale", "failed"}
      BY <2>3, <2>6, <3>3 DEF CommandStands
    <3>4. QED BY <2>3, <3>1, <3>2, <3>3 DEF Command
  <2>9. Recorded(new, AcknowledgedItems(b, cmd), receipts[b])
    BY <1>a, <2>4, <2>7, <2>8 DEF Recorded, AppliedRows
  <2>10. \A d \in Executors : executor[d] # None /\ executor[d].batch = b =>
            executor[d].outcome # None
    BY <2>2, <2>3 DEF OnePoller
  <2>11. QED BY <2>4, <2>9, <2>10, RecordedPrepare
<1>4. QED BY <1>1, <1>2, <1>3

(* Steps that leave the table and 1C's receipts alone.                       *)
LEMMA RecordedKept ==
    ASSUME IInv, AsRecorded, UNCHANGED <<items, sess, receipts>>, RowsSame,
           \A b \in Batches : batches[b] = None => batches'[b] = None,
           \A e \in Executors : executor'[e] \in {None, executor[e]}
    PROVE  AsRecorded'
<1>1. \A b \in Batches : BatchAsRecorded(b)'
  BY AsRecordedIs DEF RowsSame, BatchAsRecorded, Recorded, AppliedRows, Queued, WithStatus
<1>2. \A s \in Sessions : sess'[s] # None => SessionAsRecorded(s)'
  BY AsRecordedIs DEF SessionAsRecorded, Recorded, Queued, WithStatus
<1>3. ASSUME NEW e \in Executors, executor'[e] # None
      PROVE  CommandStands(executor[e])' /\ Settling(e)'
  <2>1. executor'[e] = executor[e] /\ executor[e] # None BY <1>3
  <2>2. executor[e].batch \in Batches /\ batches[executor[e].batch] # None
    BY <2>1, CommandFields DEF IInv, CommandsCarryChosen, CommandOK
  <2>3. CommandStands(executor[e]) /\ Settling(e) BY <2>1, AsRecordedIs
  <2>4. CommandStands(executor[e])'
    BY <2>1, <2>2, <2>3 DEF RowsSame, CommandStands, LeaseMatches, Queued, WithStatus
  <2>5. Settling(e)' BY <2>1, <2>3 DEF Settling
  <2>6. QED BY <2>4, <2>5
<1>4. QED BY <1>1, <1>2, <1>3, AsRecordedNext

(* The poller reports what 1C has done.                                      *)
LEMMA RecordedReport ==
    ASSUME OnePoller, IInv, AsRecorded, NEW e \in Executors, executor[e] # None,
           NEW outcome, outcome # None, NEW hash, Report(e, outcome, hash),
           UNCHANGED <<batches, items, sess>>,
           executor[e].outcome = None,
           outcome = "applied" =>
              executor[e].orders # {} /\ receipts'[executor[e].batch] = executor[e].orders,
           outcome \in {"stale", "failed"} => receipts'[executor[e].batch] = {},
           \A b \in Batches : BatchAsRecorded(b)',
           \A s \in Sessions : sess'[s] # None => SessionAsRecorded(s)'
    PROVE  AsRecorded'
<1>1. /\ executor'[e].batch = executor[e].batch /\ executor'[e].kind = executor[e].kind
      /\ executor'[e].token = executor[e].token /\ executor'[e].orders = executor[e].orders
      /\ executor'[e].outcome = outcome
  BY ReportIs DEF IInv
<1>2. CommandStands(executor[e]) BY AsRecordedIs
<1>3. CommandStands(executor[e])'
  BY <1>1, <1>2 DEF CommandStands, LeaseMatches, Queued, WithStatus
<1>4. Settling(e)' BY <1>1 DEF Settling
<1>5. \A d \in Executors : d = e BY DEF OnePoller
<1>6. \A d \in Executors : executor'[d] # None => CommandStands(executor[d])' /\ Settling(d)'
  BY <1>3, <1>4, <1>5
<1>7. QED BY <1>6, AsRecordedNext

LEMMA RecordedAnswers ==
    ASSUME OnePoller, IInv, AsConfirmed, AsRecorded, NEW e \in Executors,
           diagnose(e) \/ replay_receipt(e) \/ refuse(e)
    PROVE  AsRecorded'
<1> DEFINE b == executor[e].batch
<1>1. /\ executor[e] # None /\ executor[e].outcome = None
      /\ UNCHANGED <<batches, items, sess, receipts>>
  BY DEF diagnose, replay_receipt, refuse, Executing, onec
<1>2. b \in Batches /\ batches[b] # None
  BY <1>1, CommandFields DEF IInv, CommandsCarryChosen, CommandOK
<1>3. /\ LeaseMatches(b, executor[e]) /\ executor[e].kind = batches[b].kind
      /\ executor[e].kind = "apply" => executor[e].orders = Queued(items[b])
  BY <1>1, AsRecordedIs DEF CommandStands
<1>4. batches[b].status = "leased" BY <1>3 DEF LeaseMatches
<1>5. /\ \A x \in Batches : BatchAsRecorded(x)'
      /\ \A s \in Sessions : sess'[s] # None => SessionAsRecorded(s)'
  <2>1. \A x \in Batches : BatchAsRecorded(x)'
    BY <1>1, AsRecordedIs DEF BatchAsRecorded, Recorded, AppliedRows, Queued, WithStatus
  <2>2. \A s \in Sessions : sess'[s] # None => SessionAsRecorded(s)'
    BY <1>1, AsRecordedIs DEF SessionAsRecorded, Recorded, Queued, WithStatus
  <2>3. QED BY <2>1, <2>2
<1>6. None \notin BatchStatuses BY NoneAssumption
<1>7. ASSUME NEW outcome \in {"diagnosed", "applied", "stale", "failed"}, NEW hash,
             Report(e, outcome, hash),
             outcome = "applied" => executor[e].orders # {} /\ receipts[b] = executor[e].orders,
             outcome \in {"stale", "failed"} => receipts[b] = {}
      PROVE  AsRecorded'
  <2>1. outcome # None BY <1>6 DEF BatchStatuses
  <2>2. QED BY <1>1, <1>5, <1>7, <2>1, RecordedReport
<1>8. CASE diagnose(e)
  <2>1. batches[b].kind = "diagnose" BY <1>3, <1>8 DEF diagnose, Executing
  <2>2. receipts[b] = {} BY <1>2, <1>4, <2>1, ReceiptsKnown
  <2>3. QED BY <1>7, <1>8, <2>2 DEF diagnose
<1>9. CASE replay_receipt(e)
  <2>1. batches[b].kind = "apply" /\ Applied(executor[e])
    BY <1>3, <1>9 DEF replay_receipt, Executing
  <2>2. executor[e].orders = Queued(items[b]) BY <1>3, <2>1
  <2>3. receipts[b] \in {{}, Queued(items[b])} BY <1>2, <2>1, ReceiptsKnown
  <2>4. executor[e].orders # {} /\ receipts[b] = executor[e].orders
    BY <2>1, <2>2, <2>3 DEF Applied
  <2>5. QED BY <1>7, <1>9, <2>4 DEF replay_receipt
<1>10. CASE refuse(e)
  <2>1. batches[b].kind = "apply" /\ ~ Applied(executor[e])
    BY <1>3, <1>10 DEF refuse, Executing
  <2>2. executor[e].orders = Queued(items[b]) BY <1>3, <2>1
  <2>3. receipts[b] \in {{}, Queued(items[b])} BY <1>2, <2>1, ReceiptsKnown
  <2>4. receipts[b] = {} BY <2>1, <2>2, <2>3 DEF Applied
  <2>5. QED BY <1>7, <1>10, <2>4 DEF refuse
<1>11. QED BY <1>8, <1>9, <1>10

LEMMA RecordedApply ==
    ASSUME OnePoller, IInv, AsConfirmed, AsRecorded, NEW e \in Executors, apply(e)
    PROVE  AsRecorded'
<1>b. PICK b \in Batches : b = executor[e].batch
  BY CommandFields DEF IInv, apply, Executing
<1>1. /\ executor[e] # None /\ executor[e].outcome = None /\ executor[e].kind = "apply"
      /\ ~ Applied(executor[e]) /\ executor[e].orders # {}
      /\ receipts' = [receipts EXCEPT ![b] = @ \cup executor[e].orders]
      /\ Report(e, "applied", executor[e].hash)
      /\ UNCHANGED <<batches, items, sess>>
  BY <1>b DEF apply, Executing
<1>2. batches[b] # None
  BY <1>b, <1>1 DEF IInv, CommandsCarryChosen, CommandOK
<1>3. /\ LeaseMatches(b, executor[e]) /\ batches[b].kind = "apply"
      /\ executor[e].orders = Queued(items[b])
      /\ \A s \in Sessions : sess[s] # None => sess[s].batch # b
  BY <1>b, <1>1, AsRecordedIs DEF CommandStands, Settling
<1>4. receipts[b] = {}
  <2>1. receipts[b] \in {{}, Queued(items[b])} BY <1>2, <1>3, ReceiptsKnown
  <2>2. QED BY <1>b, <1>1, <1>3, <2>1 DEF Applied
<1>5. /\ receipts'[b] = executor[e].orders
      /\ \A x \in Batches : x # b => receipts'[x] = receipts[x]
  BY <1>1, <1>2, <1>4 DEF IInv, TypeOK
<1>6. BatchAsRecorded(b)'
  <2>1. BatchAsRecorded(b) /\ batches[b].status = "leased"
    BY <1>2, <1>3, AsRecordedIs DEF LeaseMatches
  <2>2. QED
    BY <1>1, <1>2, <1>3, <1>5, <2>1
    DEF BatchAsRecorded, Recorded, AppliedRows, Queued, WithStatus
<1>7. \A x \in Batches : x # b => BatchAsRecorded(x)'
  BY <1>1, <1>5, AsRecordedIs DEF BatchAsRecorded, Recorded, AppliedRows, Queued, WithStatus
<1>8. ASSUME NEW s \in Sessions, sess'[s] # None PROVE SessionAsRecorded(s)'
  <2>1. sess'[s] = sess[s] /\ sess[s].batch \in Batches /\ sess[s].batch # b
    BY <1>1, <1>3, <1>8, SessionFields DEF IInv
  <2>2. receipts'[sess[s].batch] = receipts[sess[s].batch] BY <1>5, <2>1
  <2>3. SessionAsRecorded(s) BY <1>8, <2>1, AsRecordedIs
  <2>4. QED BY <2>1, <2>2, <2>3 DEF SessionAsRecorded, Recorded, Queued, WithStatus
<1>9. "applied" # None BY NoneAssumption DEF BatchStatuses
<1>10. QED BY <1>b, <1>1, <1>5, <1>6, <1>7, <1>8, <1>9, RecordedReport

(* A new command stands: the row, the rows and the receipts are its lease's. *)
LEMMA RecordedLease ==
    ASSUME OneSession, OnePoller, IInv, AsConfirmed, AsRecorded,
           NEW b \in Batches, NEW allow_apply \in BOOLEAN, lease_commands(b, allow_apply)
    PROVE  AsRecorded'
<1>c. PICK command : command =
          [batch |-> b, kind |-> batches[b].kind,
           token |-> batches[b].attempts + 1, hash |-> batches[b].hash,
           orders |-> IF batches[b].kind = "apply" THEN QueuedOrders(b) ELSE Positions,
           outcome |-> None]
  OBVIOUS
<1>1. /\ batches[b] # None /\ batches[b].status \in {"draft", "approved", "leased"}
      /\ \/ \E e \in Executors : executor' = [executor EXCEPT ![e] = command]
         \/ UNCHANGED executor
      /\ \E e \in Executors : executor[e] = None
      /\ UNCHANGED <<items, sess, receipts>>
      /\ \E s \in Sessions : sess[s] = None
  BY <1>c DEF lease_commands, onec, LeaseRunOut
<1>2. \A s \in Sessions : sess[s] = None BY <1>1 DEF OneSession
<1>3. \A e \in Executors : executor[e] = None BY <1>1 DEF OnePoller
<1>4. /\ batches'[b].kind = batches[b].kind
      /\ batches'[b].status = "leased" /\ batches'[b] # None
      /\ batches'[b].token = batches[b].attempts + 1
      /\ \A x \in Batches : x # b => batches'[x] = batches[x]
  BY LeasedRow
<1>5. ASSUME NEW x \in Batches PROVE BatchAsRecorded(x)'
  <2>1. BatchAsRecorded(x) BY AsRecordedIs
  <2>2. CASE x = b
    BY <1>1, <1>4, <2>1, <2>2 DEF BatchAsRecorded, Recorded, AppliedRows, Queued, WithStatus
  <2>3. CASE x # b
    BY <1>1, <1>4, <2>1, <2>3 DEF BatchAsRecorded, Recorded, AppliedRows, Queued, WithStatus
  <2>4. QED BY <2>2, <2>3
<1>6. CommandStands(command)'
  <2>1. None \notin {"applied", "stale", "failed"} BY NoneAssumption DEF BatchStatuses
  <2>2. QED
    BY <1>c, <1>1, <1>4, <2>1 DEF CommandStands, LeaseMatches, QueuedOrders, Queued, WithStatus
<1>7. \A e \in Executors : executor'[e] \in {None, command} BY <1>1, <1>3 DEF IInv, TypeOK
<1>8. \A e \in Executors : executor'[e] # None => CommandStands(executor[e])' /\ Settling(e)'
  BY <1>1, <1>2, <1>6, <1>7 DEF Settling, CommandStands, LeaseMatches
<1>9. QED BY <1>1, <1>2, <1>5, <1>8, AsRecordedNext

(* A commit makes the batch what the handler meant to write; a command on it *)
(* has been acknowledged or its lease is gone.                               *)
LEMMA RecordedCommit ==
    ASSUME OneSession, IInv, AsConfirmed, AsRecorded, NEW s \in Sessions, commit(s)
    PROVE  AsRecorded'
<1>1. sess[s] # None /\ SessionAsConfirmed(sess[s]) BY DEF commit, AsConfirmed
<1>2. PICK t \in Transaction : t = sess[s] BY <1>1 DEF IInv, TypeOK
<1>3. PICK b \in Batches : b = t.batch BY DEF Transaction
<1>4. /\ batches' = [batches EXCEPT ![b] = t.new] /\ items' = [items EXCEPT ![b] = t.newItems]
  BY <1>1, <1>2, <1>3, CommitFresh DEF SessionAsConfirmed
<1>5. /\ sess' = [sess EXCEPT ![s] = None] /\ UNCHANGED receipts
      /\ \A e \in Executors : executor'[e] \in {None, executor[e]}
  BY <1>2, <1>3 DEF commit, onec, IInv, TypeOK
<1>6. t.new # None /\ t.new.status # "leased" /\ Recorded(t.new, t.newItems, receipts[b])
  <2>1. t.new # None BY NoneAssumption DEF Transaction
  <2>2. t.new.status # "leased" BY <1>1, <1>2 DEF SessionAsConfirmed
  <2>3. QED BY <1>1, <1>2, <1>3, <2>1, <2>2, AsRecordedIs DEF SessionAsRecorded
<1>7. /\ batches'[b] = t.new /\ items'[b] = t.newItems
      /\ \A x \in Batches : x # b => batches'[x] = batches[x] /\ items'[x] = items[x]
  BY <1>4 DEF IInv, TypeOK
<1>8. ASSUME NEW x \in Batches PROVE BatchAsRecorded(x)'
  <2>1. CASE x = b
    BY <1>5, <1>6, <1>7, <2>1 DEF BatchAsRecorded, Recorded, Queued, WithStatus
  <2>2. CASE x # b
    <3>1. BatchAsRecorded(x) BY AsRecordedIs
    <3>2. QED
      BY <1>5, <1>7, <2>2, <3>1 DEF BatchAsRecorded, Recorded, AppliedRows, Queued, WithStatus
  <2>3. QED BY <2>1, <2>2
<1>9. \A x \in Sessions : sess'[x] = None BY <1>5 DEF OneSession, IInv, TypeOK
<1>10. ASSUME NEW e \in Executors, executor'[e] # None
       PROVE  CommandStands(executor[e])' /\ Settling(e)'
  <2>1. executor'[e] = executor[e] /\ executor[e].batch \in Batches
    BY <1>5, <1>10, CommandFields DEF IInv
  <2>2. CommandStands(executor[e]) /\ Settling(e) BY <1>10, <2>1, AsRecordedIs
  <2>3. CommandStands(executor[e])'
    <3>1. CASE executor[e].batch = b
      <4>1. executor[e].outcome # None BY <1>1, <1>2, <1>3, <2>2, <3>1 DEF Settling
      <4>2. QED BY <1>6, <1>7, <2>1, <3>1, <4>1 DEF CommandStands, LeaseMatches
    <3>2. CASE executor[e].batch # b
      BY <1>5, <1>7, <2>1, <2>2, <3>2 DEF CommandStands, LeaseMatches, Queued, WithStatus
    <3>3. QED BY <3>1, <3>2
  <2>4. Settling(e)' BY <1>9 DEF Settling
  <2>5. QED BY <2>3, <2>4
<1>11. QED BY <1>8, <1>9, <1>10, AsRecordedNext

LEMMA RecordedCreate ==
    ASSUME IInv, AsRecorded, NEW b \in Batches, create_batch(b)
    PROVE  AsRecorded'
<1> DEFINE row == [status |-> "draft", kind |-> "diagnose", hash |-> None, token |-> None,
                   lease |-> None, attempts |-> 0]
<1>1. /\ batches[b] = None /\ batches' = [batches EXCEPT ![b] = row]
      /\ UNCHANGED <<items, sess, executor, receipts>>
  BY DEF create_batch, onec
<1>2. batches'[b] = row /\ \A x \in Batches : x # b => batches'[x] = batches[x]
  BY <1>1 DEF IInv, TypeOK
<1>3. BatchAsRecorded(b)'
  <2>1. receipts[b] = {} /\ AppliedRows(items[b]) = {}
    BY <1>1, AsRecordedIs DEF BatchAsRecorded
  <2>2. QED BY <1>1, <1>2, <2>1 DEF BatchAsRecorded, Recorded, AppliedRows, WithStatus
<1>4. \A x \in Batches : x # b => BatchAsRecorded(x)'
  BY <1>1, <1>2, AsRecordedIs DEF BatchAsRecorded, Recorded, AppliedRows, Queued, WithStatus
<1>5. \A s \in Sessions : sess'[s] # None => SessionAsRecorded(s)'
  BY <1>1, AsRecordedIs DEF SessionAsRecorded, Recorded, Queued, WithStatus
<1>6. ASSUME NEW e \in Executors, executor'[e] # None
      PROVE  CommandStands(executor[e])' /\ Settling(e)'
  <2>1. executor'[e] = executor[e] /\ executor[e] # None BY <1>1, <1>6
  <2>2. executor[e].batch \in Batches /\ batches[executor[e].batch] # None
    BY <2>1, CommandFields DEF IInv, CommandsCarryChosen, CommandOK
  <2>3. CommandStands(executor[e]) /\ Settling(e) BY <2>1, AsRecordedIs
  <2>4. batches'[executor[e].batch] = batches[executor[e].batch] BY <1>1, <1>2, <2>2
  <2>5. CommandStands(executor[e])'
    BY <1>1, <2>1, <2>3, <2>4 DEF CommandStands, LeaseMatches, Queued, WithStatus
  <2>6. Settling(e)' BY <1>1, <2>3 DEF Settling
  <2>7. QED BY <2>5, <2>6
<1>7. QED BY <1>3, <1>4, <1>5, <1>6, AsRecordedNext

LEMMA NextRecorded ==
    ASSUME OneSession, OnePoller, IInv, AsConfirmed, AsRecorded, [Next]_vars
    PROVE  AsRecorded'
<1>1. CASE \E b \in Batches : create_batch(b) BY <1>1, RecordedCreate
<1>2. CASE \E b \in Batches, allow_apply \in BOOLEAN : lease_commands(b, allow_apply)
  BY <1>2, RecordedLease
<1>3. CASE \/ \E b \in Batches, s \in Sessions : request_diagnosis(s, b)
           \/ \E b \in Batches, s \in Sessions, seen \in Snapshots,
                 chosen \in SUBSET Positions : confirm_batch(s, b, seen, chosen)
           \/ \E s \in Sessions, e \in Executors : acknowledge_command(s, e)
  BY <1>3, RecordedHandlers
<1>4. CASE \E s \in Sessions : commit(s) BY <1>4, RecordedCommit
<1>5. CASE \E e \in Executors : diagnose(e) \/ replay_receipt(e) \/ refuse(e)
  BY <1>5, RecordedAnswers
<1>6. CASE \E e \in Executors : apply(e) BY <1>6, RecordedApply
<1>7. CASE \E e \in Executors : acknowledge_rejected(e) \/ lose_command(e)
  <2>1. PICK e \in Executors : executor' = [executor EXCEPT ![e] = None]
    BY <1>7 DEF acknowledge_rejected, lose_command
  <2>2. UNCHANGED <<batches, items, sess, receipts>>
    BY <1>7 DEF acknowledge_rejected, lose_command, onec
  <2>3. \A d \in Executors : executor'[d] \in {None, executor[d]} BY <2>1 DEF IInv, TypeOK
  <2>4. QED BY <2>2, <2>3, RecordedKept DEF RowsSame
<1>8. CASE Tick
  <2>1. UNCHANGED <<items, sess, executor, receipts>> BY <1>8 DEF Tick, onec
  <2>2. QED BY <1>8, <2>1, TickRows, RecordedKept
<1>9. CASE (\E b \in Batches : accounts_change(b)) \/ UNCHANGED vars
  <2>1. UNCHANGED <<batches, items, sess, executor, receipts>>
    BY <1>9 DEF accounts_change, vars, onec
  <2>2. QED BY <2>1, RecordedKept DEF RowsSame
<1>10. QED
  BY <1>1, <1>2, <1>3, <1>4, <1>5, <1>6, <1>7, <1>8, <1>9 DEF Next, OneCStep

LEMMA AlwaysAsRecorded ==
    ASSUME OneSession, OnePoller
    PROVE  Spec => [](AsConfirmed /\ AsRecorded)
<1>1. Init => AsRecorded BY NewItemsFacts DEF Init, AsRecorded
<1>2. IInv /\ AsConfirmed /\ AsRecorded /\ [Next]_vars => AsRecorded' BY NextRecorded
<1>3. QED BY <1>1, <1>2, InvariantIInv, AlwaysAsConfirmed, PTL DEF Spec

(* A batch recorded as applied lists exactly the rows 1C closed: with one    *)
(* handler and one poller at a time the rows an acknowledgement settles are  *)
(* those of the command that was applied, however many were lost before it.  *)
THEOREM AppliedIsExact ==
    ASSUME OneSession, OnePoller
    PROVE  Spec => []AppliedMeansClosed
<1>1. AsRecorded => AppliedMeansClosed BY DEF AsRecorded, Recorded, AppliedMeansClosed
<1>2. QED BY <1>1, AlwaysAsRecorded, PTL

(* A batch recorded as stale or failed closed nothing in 1C: a refusal is    *)
(* only accepted under the standing lease, and what 1C applied under an      *)
(* earlier one is answered from its receipt, never refused.                  *)
THEOREM FailedClosedNothing ==
    ASSUME OneSession, OnePoller
    PROVE  Spec => []FailedMeansNothingClosed
<1>1. AsConfirmed /\ AsRecorded => FailedMeansNothingClosed
  BY DEF AsConfirmed, BatchAsConfirmed, AsRecorded, Recorded, FailedMeansNothingClosed
<1>2. QED BY <1>1, AlwaysAsRecorded, PTL

==============================================================================
