----------------------------- MODULE OrderClosure -----------------------------
(***************************************************************************)
(* The two-phase queue that closes customer orders in 1C (UT 10.3).  An    *)
(* employee makes a batch of rows; 1C polls for a command, first diagnoses *)
(* the rows and, once the author has confirmed the diagnosis, applies the  *)
(* chosen ones.  Commands are leased and acknowledged over HTTP.           *)
(*                                                                         *)
(* get_batch takes no lock, so each handler of the API is a load (its      *)
(* checks and assignments on the copy it read) and a commit that writes    *)
(* the columns it changed; lease_commands selects FOR UPDATE and is one    *)
(* step.  Handlers that raise change nothing and are not enabled.          *)
(*                                                                         *)
(* A snapshot of 1C's accounts is the set of rows it allows to close, and  *)
(* a diagnosis hash is the snapshot it is computed from.  1C itself is     *)
(* modelled from docs/IntegrationContract.CustomerOrderClosureQueue1C.md   *)
(* as far as order_closure.py relies on it.                                *)
(***************************************************************************)
EXTENDS Naturals

CONSTANTS
    Batches,
    Positions,     \* rows of a batch
    Sessions,      \* database sessions of the API open at once
    Executors,     \* 1C sessions that poll at the same time
    LeaseTicks,    \* LEASE_SECONDS, in ticks
    MaxLeases,     \* bound on the leases of a batch
    MaxRepeats,    \* bound: no new diagnosis is asked for after this many leases
    MaxChanges,    \* bound on changes of the accounts
    MaxLosses,     \* bound on commands and executors lost
    None

ASSUME OrderClosureAssumption ==
    /\ LeaseTicks \in Nat /\ MaxLeases \in Nat /\ MaxRepeats \in Nat
    /\ MaxChanges \in Nat /\ MaxLosses \in Nat
    /\ None \notin Nat /\ \A h \in SUBSET Positions : h # None

Snapshots == SUBSET Positions

BatchStatuses == {"draft", "diagnosed", "approved", "leased", "applied", "stale", "failed"}
OrderClosureBatch ==
    [status: BatchStatuses, kind: {"diagnose", "apply", None},
     hash: {None} \cup Snapshots, token: 1..MaxLeases \cup {None},
     lease: 0..LeaseTicks \cup {None}, attempts: 0..MaxLeases]
OrderClosureItem ==
    [status: {"pending", "eligible", "blocked", "queued", "skipped",
              "applied", "stale", "failed"},
     eligible: BOOLEAN]
Items == [Positions -> OrderClosureItem]

(* A command as 1C receives it, and what it has to acknowledge.              *)
Command ==
    [batch: Batches, kind: {"diagnose", "apply"}, token: 1..MaxLeases,
     hash: {None} \cup Snapshots, orders: SUBSET Positions,
     outcome: {"diagnosed", "applied", "stale", "failed", None}]

(* What an author confirms, or 1C closes: a diagnosis and some of its rows.  *)
Selection == [hash: Snapshots, orders: SUBSET Positions]

ASSUME NoneAssumption ==
    None \notin Selection \cup OrderClosureBatch \cup BatchStatuses \cup {"diagnose", "apply"}

(* A handler between its load and its commit.                                *)
Transaction ==
    [batch: Batches, old: OrderClosureBatch, new: OrderClosureBatch,
     oldItems: Items, newItems: Items,
     executor: Executors \cup {None}, confirms: Selection \cup {None}]

VARIABLES
    batches,        \* order_closure_batch
    items,          \* order_closure_item, by batch and position
    sess,           \* open sessions of the API
    executor,       \* 1C: the command each poller works on
    ledger,         \* 1C: the accounts, by batch
    receipts,       \* 1C: rows closed, by batch
    confirmations,  \* batch_confirmed events: hash and rows
    closures,       \* history: hash and rows of each apply that wrote in 1C
    changes, losses \* history: used up bounds

onec == <<ledger, receipts, closures, changes>>
vars == <<batches, items, sess, executor, ledger, receipts, confirmations,
          closures, changes, losses>>

TypeOK ==
    /\ batches \in [Batches -> OrderClosureBatch \cup {None}]
    /\ items \in [Batches -> Items]
    /\ sess \in [Sessions -> Transaction \cup {None}]
    /\ executor \in [Executors -> Command \cup {None}]
    /\ ledger \in [Batches -> Snapshots]
    /\ receipts \in [Batches -> SUBSET Positions]
    /\ confirmations \in [Batches -> SUBSET Selection]
    /\ closures \in [Batches -> SUBSET Selection]
    /\ changes \in 0..MaxChanges /\ losses \in 0..MaxLosses

NewItems == [p \in Positions |-> [status |-> "pending", eligible |-> FALSE]]

Init ==
    /\ batches = [b \in Batches |-> None]
    /\ items = [b \in Batches |-> NewItems]
    /\ sess = [s \in Sessions |-> None]
    /\ executor = [e \in Executors |-> None]
    /\ ledger \in [Batches -> Snapshots]
    /\ receipts = [b \in Batches |-> {}]
    /\ confirmations = [b \in Batches |-> {}]
    /\ closures = [b \in Batches |-> {}]
    /\ changes = 0 /\ losses = 0

WithStatus(rows, status) == {p \in Positions : rows[p].status = status}

------------------------------------------------------------------------------
(* The employee's requests.                                                  *)

create_batch(b) ==
    /\ batches[b] = None
    /\ batches' = [batches EXCEPT ![b] =
          [status |-> "draft", kind |-> "diagnose", hash |-> None, token |-> None,
           lease |-> None, attempts |-> 0]]
    /\ UNCHANGED <<items, sess, executor, onec, confirmations, losses>>

(* The handler of session s has loaded batch b and means to write new values. *)
Prepare(s, b, new, newItems, e, confirms) ==
    /\ sess' = [sess EXCEPT ![s] =
          [batch |-> b, old |-> batches[b], new |-> new,
           oldItems |-> items[b], newItems |-> newItems,
           executor |-> e, confirms |-> confirms]]
    /\ UNCHANGED <<batches, items, executor, onec, confirmations, losses>>

MutAnyStatus == BatchStatuses
Diagnosable == {"draft", "diagnosed", "stale", "failed"}

request_diagnosis(s, b) ==
    /\ sess[s] = None /\ batches[b] # None
    /\ batches[b].status \in Diagnosable /\ batches[b].attempts <= MaxRepeats
    /\ Prepare(s, b,
         [batches[b] EXCEPT !.status = "draft", !.kind = "diagnose",
                            !.token = None, !.lease = None, !.hash = None],
         NewItems, None, None)

MutAnyDiagnosis(seen, batch) == TRUE
SameDiagnosis(seen, batch) == seen = batch.hash

(* The hash in the request is the one the author saw when choosing rows.     *)
confirm_batch(s, b, seen, chosen) ==
    /\ sess[s] = None /\ batches[b] # None
    /\ batches[b].status = "diagnosed" /\ batches[b].hash # None
    /\ SameDiagnosis(seen, batches[b])
    /\ chosen # {} /\ \A p \in chosen : items[b][p].eligible
    /\ Prepare(s, b,
         [batches[b] EXCEPT !.status = "approved", !.kind = "apply",
                            !.token = None, !.lease = None],
         [p \in Positions |->
             IF p \in chosen THEN [items[b][p] EXCEPT !.status = "queued"]
             ELSE IF items[b][p].eligible THEN [items[b][p] EXCEPT !.status = "skipped"]
             ELSE items[b][p]],
         None, [hash |-> seen, orders |-> chosen])

(* The UPDATE of a session sets the columns it changed and no other.         *)
Column(old, new, current) == IF new = old THEN current ELSE new
MergeBatch(old, new, current) ==
    [status |-> Column(old.status, new.status, current.status),
     kind |-> Column(old.kind, new.kind, current.kind),
     hash |-> Column(old.hash, new.hash, current.hash),
     token |-> Column(old.token, new.token, current.token),
     lease |-> Column(old.lease, new.lease, current.lease),
     attempts |-> Column(old.attempts, new.attempts, current.attempts)]
MergeItems(old, new, current) ==
    [p \in Positions |->
        [status |-> Column(old[p].status, new[p].status, current[p].status),
         eligible |-> Column(old[p].eligible, new[p].eligible, current[p].eligible)]]

WorksOn(e, b, token) ==
    executor[e] # None /\ executor[e].batch = b /\ executor[e].token = token

(* 1C drops its command when the answer to the acknowledgement reaches it.   *)
commit(s) ==
    /\ sess[s] # None
    /\ LET t == sess[s]
           b == t.batch
       IN  /\ batches' = [batches EXCEPT ![b] = MergeBatch(t.old, t.new, @)]
           /\ items' = [items EXCEPT ![b] = MergeItems(t.oldItems, t.newItems, @)]
           /\ confirmations' = [confirmations EXCEPT ![b] = @ \cup
                 ({t.confirms} \ {None})]
           /\ \E answered \in BOOLEAN :
                executor' = [e \in Executors |->
                    IF answered /\ e = t.executor /\ WorksOn(e, b, t.old.token)
                    THEN None ELSE executor[e]]
    /\ sess' = [sess EXCEPT ![s] = None]
    /\ UNCHANGED <<onec, losses>>

------------------------------------------------------------------------------
(* The queue 1C polls and acknowledges.                                      *)

MutNeverRunsOut(batch) == FALSE
LeaseRunOut(batch) == batch.status = "leased" /\ batch.lease = 0

MutSendEligible(b) == {p \in Positions : items[b][p].eligible}
QueuedOrders(b) == WithStatus(items[b], "queued")

(* One transaction in a session of its own, which has to be free.  The       *)
(* answer may be lost on its way; the lease stands all the same.             *)
lease_commands(b, allow_apply) ==
    /\ \E s \in Sessions : sess[s] = None
    /\ batches[b] # None /\ batches[b].kind # None
    /\ \/ batches[b].status = (IF batches[b].kind = "diagnose" THEN "draft" ELSE "approved")
       \/ LeaseRunOut(batches[b])
    /\ batches[b].kind = "diagnose" \/ allow_apply
    /\ batches[b].attempts < MaxLeases
    /\ LET token == batches[b].attempts + 1
           command == [batch |-> b, kind |-> batches[b].kind, token |-> token,
                       hash |-> batches[b].hash,
                       orders |-> IF batches[b].kind = "apply"
                                  THEN QueuedOrders(b) ELSE Positions,
                       outcome |-> None]
       IN  /\ batches' = [batches EXCEPT ![b] =
                 [@ EXCEPT !.status = "leased", !.token = token,
                           !.lease = LeaseTicks, !.attempts = token]]
           /\ \/ \E e \in Executors :
                    /\ executor[e] = None
                    /\ executor' = [executor EXCEPT ![e] = command]
                    /\ UNCHANGED losses
              \/ /\ losses < MaxLosses /\ losses' = losses + 1
                 /\ \E e \in Executors : executor[e] = None
                 /\ UNCHANGED executor
    /\ UNCHANGED <<items, sess, onec, confirmations>>

Applied(cmd) == cmd.orders # {} /\ cmd.orders \subseteq receipts[cmd.batch]
Duplicate(b) ==
    batches[b].status \in {"applied", "stale", "failed", "diagnosed"}
    /\ batches[b].token = None
LeaseMatches(b, cmd) == batches[b].status = "leased" /\ batches[b].token = cmd.token
OutcomeFits(b, cmd) ==
    cmd.outcome \in {"stale", "failed",
        IF batches[b].kind = "diagnose" THEN "diagnosed" ELSE "applied"}
HashMatches(b, cmd) == batches[b].kind = "apply" => cmd.hash = batches[b].hash
AppliedInFull(b, cmd) ==
    cmd.outcome = "applied" => cmd.orders = QueuedOrders(b)
Acceptable(b, cmd) ==
    /\ LeaseMatches(b, cmd) /\ OutcomeFits(b, cmd)
    /\ HashMatches(b, cmd) /\ AppliedInFull(b, cmd)

(* A diagnosis fills in the rows; any other outcome settles the queued ones. *)
Acknowledged(b, cmd) ==
    [batches[b] EXCEPT !.status = cmd.outcome, !.kind = None, !.token = None,
                       !.lease = None,
                       !.hash = IF cmd.outcome = "diagnosed" THEN cmd.hash ELSE @]
MutItemTakesOutcome(b, cmd) ==
    [p \in Positions |-> [items[b][p] EXCEPT !.status = cmd.outcome]]
MutSettleEveryRow(b, cmd) ==
    [p \in Positions |->
        IF cmd.outcome = "diagnosed"
        THEN [status |-> IF p \in cmd.hash THEN "eligible" ELSE "blocked",
              eligible |-> p \in cmd.hash]
        ELSE [items[b][p] EXCEPT !.status = cmd.outcome]]
AcknowledgedItems(b, cmd) ==
    [p \in Positions |->
        CASE cmd.outcome = "diagnosed" ->
                [status |-> IF p \in cmd.hash THEN "eligible" ELSE "blocked",
                 eligible |-> p \in cmd.hash]
          [] cmd.outcome # "diagnosed" /\ items[b][p].status = "queued" ->
                [items[b][p] EXCEPT !.status = cmd.outcome]
          [] OTHER -> items[b][p]]

acknowledge_command(s, e) ==
    LET cmd == executor[e]
        b == cmd.batch
    IN  /\ sess[s] = None /\ cmd # None /\ cmd.outcome # None
        /\ ~ Duplicate(b) /\ Acceptable(b, cmd)
        /\ Prepare(s, b, Acknowledged(b, cmd), AcknowledgedItems(b, cmd), e, None)

(* Answered 200 duplicate without a change, or 409; 1C gives the command up. *)
acknowledge_rejected(e) ==
    LET cmd == executor[e]
        b == cmd.batch
    IN  /\ cmd # None /\ cmd.outcome # None
        /\ Duplicate(b) \/ ~ Acceptable(b, cmd)
        /\ executor' = [executor EXCEPT ![e] = None]
        /\ UNCHANGED <<batches, items, sess, onec, confirmations, losses>>

------------------------------------------------------------------------------
(* 1C, the clock.                                                            *)

Report(e, outcome, hash) ==
    executor' = [executor EXCEPT ![e].outcome = outcome, ![e].hash = hash]
Executing(e, kind) ==
    executor[e] # None /\ executor[e].kind = kind /\ executor[e].outcome = None

diagnose(e) ==
    /\ Executing(e, "diagnose")
    /\ \/ Report(e, "diagnosed", ledger[executor[e].batch])
       \/ \E outcome \in {"stale", "failed"} : Report(e, outcome, executor[e].hash)
    /\ UNCHANGED <<batches, items, sess, onec, confirmations, losses>>

(* One transaction for the whole batch: receipts are returned again, a       *)
(* changed snapshot is stale, anything may fail with a rollback.             *)
replay_receipt(e) ==
    /\ Executing(e, "apply") /\ Applied(executor[e])
    /\ Report(e, "applied", executor[e].hash)
    /\ UNCHANGED <<batches, items, sess, onec, confirmations, losses>>

apply(e) ==
    LET cmd == executor[e]
        b == cmd.batch
    IN  /\ Executing(e, "apply") /\ ~ Applied(cmd)
        /\ cmd.hash = ledger[b] /\ cmd.orders # {} /\ cmd.orders \subseteq ledger[b]
        /\ receipts' = [receipts EXCEPT ![b] = @ \cup cmd.orders]
        /\ ledger' = [ledger EXCEPT ![b] = @ \ cmd.orders]
        /\ closures' = [closures EXCEPT ![b] = @ \cup
              {[hash |-> cmd.hash, orders |-> cmd.orders]}]
        /\ Report(e, "applied", cmd.hash)
        /\ UNCHANGED <<batches, items, sess, confirmations, changes, losses>>

refuse(e) ==
    /\ Executing(e, "apply") /\ ~ Applied(executor[e])
    /\ \/ executor[e].hash # ledger[executor[e].batch] /\ Report(e, "stale", executor[e].hash)
       \/ Report(e, "failed", executor[e].hash)
    /\ UNCHANGED <<batches, items, sess, onec, confirmations, losses>>

lose_command(e) ==
    /\ executor[e] # None /\ losses < MaxLosses
    /\ losses' = losses + 1
    /\ executor' = [executor EXCEPT ![e] = None]
    /\ UNCHANGED <<batches, items, sess, onec, confirmations>>

accounts_change(b) ==
    /\ changes < MaxChanges
    /\ \E t \in SUBSET (Positions \ receipts[b]) :
        t # ledger[b] /\ ledger' = [ledger EXCEPT ![b] = t]
    /\ changes' = changes + 1
    /\ UNCHANGED <<batches, items, sess, executor, receipts, confirmations, closures, losses>>

Tick ==
    /\ \E b \in Batches : batches[b] # None /\ batches[b].lease \notin {0, None}
    /\ batches' = [b \in Batches |->
          IF batches[b] = None \/ batches[b].lease \in {0, None} THEN batches[b]
          ELSE [batches[b] EXCEPT !.lease = @ - 1]]
    /\ UNCHANGED <<items, sess, executor, onec, confirmations, losses>>

OneCStep(e) ==
    \/ diagnose(e) \/ replay_receipt(e) \/ apply(e) \/ refuse(e)
    \/ acknowledge_rejected(e)

Next ==
    \/ \E b \in Batches :
        \/ create_batch(b) \/ accounts_change(b)
        \/ \E allow_apply \in BOOLEAN : lease_commands(b, allow_apply)
        \/ \E s \in Sessions :
            \/ request_diagnosis(s, b)
            \/ \E seen \in Snapshots, chosen \in SUBSET Positions :
                  confirm_batch(s, b, seen, chosen)
    \/ \E s \in Sessions : commit(s) \/ \E e \in Executors : acknowledge_command(s, e)
    \/ \E e \in Executors : OneCStep(e) \/ lose_command(e)
    \/ Tick

Spec == Init /\ [][Next]_vars

(* 1C polls and works off what it got; the API serves the requests it has    *)
(* accepted; leases run out.  Employees owe nothing.                         *)
FairSpec ==
    /\ Spec
    /\ \A b \in Batches : WF_vars(lease_commands(b, TRUE))
    /\ \A e \in Executors :
        WF_vars(OneCStep(e)) /\ WF_vars(\E s \in Sessions : acknowledge_command(s, e))
    /\ \A s \in Sessions : WF_vars(commit(s))
    /\ WF_vars(Tick)

------------------------------------------------------------------------------
(* Properties.                                                               *)

(* Whatever 1C closed is one of the selections the author confirmed, closed  *)
(* under the very diagnosis it was confirmed for (confirm_batch compares the *)
(* hash, 1C compares it with its accounts).                                  *)
ClosedAsConfirmed == \A b \in Batches : closures[b] \subseteq confirmations[b]

(* No row is closed that the author never chose.                             *)
ClosedRowsWereChosen ==
    \A b \in Batches : receipts[b] \subseteq UNION {c.orders : c \in confirmations[b]}

(* A batch recorded as applied lists exactly the rows 1C closed.             *)
AppliedMeansClosed ==
    \A b \in Batches :
        batches[b] # None /\ batches[b].status = "applied" =>
            receipts[b] # {} /\ WithStatus(items[b], "applied") = receipts[b]

(* A batch recorded as stale or failed has closed nothing in 1C.             *)
FailedMeansNothingClosed ==
    \A b \in Batches :
        batches[b] # None /\ batches[b].status \in {"stale", "failed"} => receipts[b] = {}

(* A confirmed batch is applied, stale or failed in the end, though commands *)
(* and acknowledgements may be lost and leases run out.                      *)
ConfirmedIsSettled ==
    \A b \in Batches :
        (batches[b] # None /\ batches[b].kind = "apply") ~>
            (batches[b] # None /\ batches[b].status \in {"applied", "stale", "failed"})
==============================================================================
