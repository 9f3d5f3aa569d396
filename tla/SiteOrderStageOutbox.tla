------------------------ MODULE SiteOrderStageOutbox ------------------------
(***************************************************************************)
(* The queue of stage changes of one site order.  Evidence about the order *)
(* (a confirmation of logistics, a snapshot of 1C, a snapshot of its       *)
(* shipments, a signal of the site) becomes an event, and a row of the     *)
(* queue if a stage follows from it; workers carry the rows to the deal in *)
(* Bitrix24.  A worker takes a batch of rows in one transaction, talks to  *)
(* Bitrix24 row by row and commits once, so a crash forgets every status   *)
(* of the batch and nothing of what it wrote to Bitrix24.  Several workers *)
(* run: a timer, two scheduled jobs and the background tasks of the API.   *)
(* Every feature flag is on and the warehouses of logistics are in the     *)
(* pilot; the SMS fields of PICKUP_WAITING are data of the deal left out.  *)
(***************************************************************************)
EXTENDS Naturals, Sequences, FiniteSets, SequencesExt

CONSTANTS
    None,
    Workers,
    Evidence,     \* what may be learnt about the order, each at most once
    FirstStages,  \* stages of the deal when the order is first seen
    EditStages,   \* stages a manager moves the deal to by hand
    BatchSize,
    MaxEvents, MaxEdits, MaxFailures, MaxCrashes   \* bounds of the model

Kinds == {"logistics", "execution", "shipment", "signal"}
Stages == {"PREPARATION", "PREPAYMENT_INVOICE", "EXECUTING", "FINAL_INVOICE",
           "PARTIALLY_SHIPPED", "PICKUP_TRANSIT", "PICKUP_WAITING", "IN_DELIVERY",
           "DISMANTLING", "DELIVERY_REVIEW", "WON", "LOSE"}
TERMINAL_CRM_STAGES == {"WON", "LOSE"}

(* at: when it happened.  target: the stage that follows, None for evidence  *)
(* that only informs.  seen: the stage a reconciliation worked from.         *)
EvidenceType == [kind : Kinds, target : Stages \cup {None}, at : Nat, seen : Stages \cup {None}]

ASSUME StageAssumption ==
    /\ Evidence \subseteq EvidenceType
    /\ FirstStages \subseteq Stages /\ EditStages \subseteq Stages
    /\ BatchSize \in Nat \ {0}
    /\ {MaxEvents, MaxEdits, MaxFailures, MaxCrashes} \subseteq Nat

STAGE_ORDER ==
    [PREPAYMENT_INVOICE |-> 5, EXECUTING |-> 8, FINAL_INVOICE |-> 10, PARTIALLY_SHIPPED |-> 15,
     PICKUP_TRANSIT |-> 20, PICKUP_WAITING |-> 30, IN_DELIVERY |-> 40, DISMANTLING |-> 50,
     WON |-> 100, LOSE |-> 100]
OrderOf(stage) == IF stage \in DOMAIN STAGE_ORDER THEN STAGE_ORDER[stage] ELSE 0

ALLOWED_FROM_STAGE ==
    [PICKUP_TRANSIT |-> {"FINAL_INVOICE"}, PICKUP_WAITING |-> {"PICKUP_TRANSIT"}]
ShipmentFrom ==
    LET undispatched == {"EXECUTING", "FINAL_INVOICE", "PARTIALLY_SHIPPED"}
    IN [FINAL_INVOICE |-> {"EXECUTING"}, PARTIALLY_SHIPPED |-> {"EXECUTING", "FINAL_INVOICE"},
        IN_DELIVERY |-> undispatched, PICKUP_TRANSIT |-> undispatched]
SignalFrom ==
    [IN_DELIVERY |-> {"FINAL_INVOICE"}, WON |-> {"FINAL_INVOICE", "IN_DELIVERY"},
     DELIVERY_REVIEW |-> Stages \ {"DISMANTLING", "DELIVERY_REVIEW", "WON", "LOSE"}]

(* Of logistics and the site's signals, those from which a stage follows.    *)
Targets ==
    [logistics |-> DOMAIN ALLOWED_FROM_STAGE, signal |-> DOMAIN SignalFrom,
     shipment |-> DOMAIN ShipmentFrom \cup {None}, execution |-> Stages \cup {None}]

ASSUME EvidenceAssumption == \A e \in Evidence : e.target \in Targets[e.kind]
ASSUME StageNoneAssumption ==
    None \notin Nat \cup Stages \cup {"newer_evidence", "later_stage", "conflict", "binding"}
ASSUME ManagerAssumption == {None, "manager"} \cap Workers = {}

expected_stages(e) ==
    CASE e.kind = "execution" -> {e.seen}
      [] e.kind = "shipment" -> ShipmentFrom[e.target]
      [] e.kind = "signal" -> SignalFrom[e.target]
      [] e.kind = "logistics" -> ALLOWED_FROM_STAGE[e.target]

Reconciliation(e) == e.kind \in {"execution", "shipment"}
BLOCKING_PREDECESSOR_STATUSES == {"pending", "retry", "manual_review"}
RowStatuses == BLOCKING_PREDECESSOR_STATUSES \cup {"applied", "terminal"}
Reasons == {None, "newer_evidence", "later_stage", "conflict", "binding"}
Row == [event : Nat, status : RowStatuses, why : Reasons, waiting : BOOLEAN]

VARIABLES
    events,     \* site_order_execution_event of the order
    case,       \* site_order_execution_case: latest evidence, CRM stage
    rows,       \* site_order_stage_outbox, committed
    wk,         \* the workers
    deal,       \* the deal in Bitrix24: stage, order number still bound, assembly field
    comments,   \* the timeline comments of the deal that carry a row's marker
    been,       \* history: stages of the deal
    mover,      \* history: who moved the deal last
    edits, failures, crashes   \* history: used up bounds

bounds == <<edits, failures, crashes>>
vars == <<events, case, rows, wk, deal, comments, been, mover, bounds>>

Idle == [pc |-> "idle", todo |-> {}, draft |-> <<>>, latest |-> None,
         live |-> None, want |-> None, crm |-> None]
PCs == {"idle", "check", "read", "assemble", "write", "readback", "comment"}

TypeOK ==
    /\ events \in Seq(Evidence)
    /\ case \in [event : 0..Len(events), stage : Stages]
    /\ rows \in Seq(Row)
    /\ DOMAIN wk = Workers
    /\ \A w \in Workers :
         /\ wk[w].pc \in PCs
         /\ wk[w].todo \subseteq DOMAIN wk[w].draft /\ DOMAIN wk[w].draft \subseteq DOMAIN rows
         /\ \A v \in Workers \ {w} : DOMAIN wk[w].draft \cap DOMAIN wk[v].draft = {}
         /\ \A i \in DOMAIN wk[w].draft : wk[w].draft[i] \in Row
         /\ wk[w].crm \in Stages \cup {None} /\ wk[w].want \in Stages \cup {None}
    /\ deal \in [stage : Stages, bound : BOOLEAN, assembled : BOOLEAN]
    /\ comments \in [DOMAIN rows -> [applied : Nat, review : Nat]]
    /\ been \subseteq Stages /\ mover \in Workers \cup {None, "manager"}

Init ==
    /\ events = <<>> /\ rows = <<>> /\ comments = <<>>
    /\ wk = [w \in Workers |-> Idle]
    /\ \E s \in FirstStages :
         /\ deal = [stage |-> s, bound |-> TRUE, assembled |-> FALSE]
         /\ case = [event |-> 0, stage |-> s]
         /\ been = {s}
    /\ mover = None
    /\ edits = 0 /\ failures = 0 /\ crashes = 0

------------------------------------------------------------------------------
(* The evidence.  A worker that has flushed an applied row holds the row of  *)
(* the case until it commits, and whoever changes the case waits for it.     *)

CaseLockedFor(w) == \E v \in Workers \ {w} : wk[v].crm # None

_event_is_not_older_than_current(e) ==
    case.event = 0 \/ e.at >= events[case.event].at

(* Logistics and the signals of the site count only if they are current; a   *)
(* snapshot of the shipments always becomes the latest evidence.             *)
IsCurrent(e) == e.kind = "shipment" \/ _event_is_not_older_than_current(e)

NewRow(n) == [event |-> n, status |-> "pending", why |-> None, waiting |-> FALSE]

Learn(e) ==
    /\ Len(events) < MaxEvents
    /\ e \notin Range(events)
    /\ Reconciliation(e) => e.seen \in been
    /\ events' = Append(events, e)
    /\ IF IsCurrent(e)
       THEN /\ ~ CaseLockedFor(None)
            /\ case' = [event |-> Len(events) + 1,
                        stage |-> CASE Reconciliation(e) -> e.seen
                                    [] e.kind = "logistics" -> e.target
                                    [] e.kind = "signal" -> case.stage]
            /\ IF e.target # None
               THEN /\ rows' = Append(rows, NewRow(Len(events) + 1))
                    /\ comments' = Append(comments, [applied |-> 0, review |-> 0])
               ELSE UNCHANGED <<rows, comments>>
       ELSE UNCHANGED <<case, rows, comments>>
    /\ UNCHANGED <<wk, deal, been, mover, bounds>>

------------------------------------------------------------------------------
(* The worker's batch.                                                       *)

View(w) ==
    [i \in DOMAIN rows |-> IF i \in DOMAIN wk[w].draft THEN wk[w].draft[i] ELSE rows[i]]
Current(w) == CHOOSE i \in wk[w].todo : \A j \in wk[w].todo : i <= j
EvidenceOf(i) == events[rows[i].event]

(* Mutants, here and below: plausible bugs that the properties must catch.   *)
MutDueLocked == {i \in DOMAIN rows : rows[i].status \in {"pending", "retry"} /\ ~ rows[i].waiting}
MutDuePending == {i \in DOMAIN rows :
                     /\ rows[i].status = "pending" /\ ~ rows[i].waiting
                     /\ \A v \in Workers : i \notin DOMAIN wk[v].draft}

(* FOR UPDATE SKIP LOCKED: the due rows no other worker holds, oldest first. *)
Due == {i \in DOMAIN rows :
            /\ rows[i].status \in {"pending", "retry"} /\ ~ rows[i].waiting
            /\ \A v \in Workers : i \notin DOMAIN wk[v].draft}

process_stage_outbox(w) ==
    /\ wk[w].pc = "idle" /\ Due # {}
    /\ LET batch == {i \in Due : Cardinality({j \in Due : j < i}) < BatchSize}
       IN wk' = [wk EXCEPT ![w] = [Idle EXCEPT !.pc = "check",
                                   !.todo = batch,
                                   !.draft = [i \in batch |-> rows[i]]]]
    /\ UNCHANGED <<events, case, rows, deal, comments, been, mover, bounds>>

Commit(w) ==
    /\ wk[w].pc = "check" /\ wk[w].todo = {}
    /\ rows' = View(w)
    /\ case' = IF wk[w].crm = None THEN case ELSE [case EXCEPT !.stage = wk[w].crm]
    /\ wk' = [wk EXCEPT ![w] = Idle]
    /\ UNCHANGED <<events, deal, comments, been, mover, bounds>>

(* The row is done with for this batch, with its new values in the draft.    *)
Done(w, worker, row) ==
    wk' = [wk EXCEPT ![w] = [worker EXCEPT !.pc = "check", !.todo = @ \ {Current(w)},
                                           !.live = None, !.want = None,
                                           !.draft[Current(w)] = row]]
MutSettled(w, status, why) == [View(w)[Current(w)] EXCEPT !.status = status]
Settled(w, status, why) == [View(w)[Current(w)] EXCEPT !.status = status, !.why = why]
Retried(w) == [View(w)[Current(w)] EXCEPT !.status = "retry", !.waiting = TRUE]

_mark_retry(w) ==
    /\ failures < MaxFailures
    /\ failures' = failures + 1
    /\ Done(w, wk[w], Retried(w))

(* The case is loaded once per batch, when a row first asks for its latest   *)
(* evidence; logistics never asks.                                           *)
LatestFor(w) ==
    IF wk[w].latest # None THEN wk[w].latest
    ELSE IF EvidenceOf(Current(w)).kind = "logistics" THEN None ELSE case.event

Superseding(w) ==
    LET i == Current(w)
    IN IF EvidenceOf(i).kind = "shipment" /\ LatestFor(w) = rows[i].event
       THEN {j \in 1..(i - 1) : /\ EvidenceOf(j).kind = "shipment"
                                /\ View(w)[j].status \in BLOCKING_PREDECESSOR_STATUSES}
       ELSE {}

MutOvertakesAll(w) ==
    LET i == Current(w)
    IN {j \in 1..(i - 1) \ Superseding(w) :
            /\ View(w)[j].status \in BLOCKING_PREDECESSOR_STATUSES
            /\ ~ (Reconciliation(EvidenceOf(i)) /\ LatestFor(w) = rows[i].event)}
BlockingPredecessors(w) ==
    LET i == Current(w)
    IN {j \in 1..(i - 1) \ Superseding(w) :
            /\ View(w)[j].status \in BLOCKING_PREDECESSOR_STATUSES
            /\ ~ (/\ Reconciliation(EvidenceOf(i)) /\ Reconciliation(EvidenceOf(j))
                  /\ LatestFor(w) = rows[i].event)}

(* The update of a superseded row waits for the worker that holds the row.   *)
HoldsUp(w) == {v \in Workers \ {w} : DOMAIN wk[v].draft \cap Superseding(w) # {}}

Check(w) ==
    /\ wk[w].pc = "check" /\ wk[w].todo # {}
    /\ HoldsUp(w) = {}
    /\ LET i == Current(w)
           draft == [j \in DOMAIN wk[w].draft \cup Superseding(w) |->
                        IF j \in Superseding(w)
                        THEN [View(w)[j] EXCEPT !.status = "applied", !.why = "newer_evidence"]
                        ELSE wk[w].draft[j]]
           worker == [wk[w] EXCEPT !.latest = LatestFor(w), !.draft = draft]
       IN CASE BlockingPredecessors(w) # {} -> Done(w, worker, View(w)[i])
            [] BlockingPredecessors(w) = {} /\ LatestFor(w) # rows[i].event
               /\ EvidenceOf(i).kind # "logistics" ->
                 Done(w, worker, Settled(w, "applied", "newer_evidence"))
            [] OTHER -> wk' = [wk EXCEPT ![w] = [worker EXCEPT !.pc = "read"]]
    /\ UNCHANGED <<events, case, rows, deal, comments, been, mover, bounds>>

(* What the live deal says: the order number, the final stages, and the      *)
(* stages the row may start from.                                            *)
Decide(w) ==
    LET e == EvidenceOf(Current(w))
        live == deal.stage
        Go(pc, want) == wk' = [wk EXCEPT ![w].pc = pc, ![w].live = live, ![w].want = want]
    IN CASE ~ deal.bound -> Done(w, wk[w], Settled(w, "manual_review", "binding"))
         [] deal.bound /\ live \in TERMINAL_CRM_STAGES ->
              Done(w, wk[w], Settled(w, "terminal", None))
         [] deal.bound /\ live \notin TERMINAL_CRM_STAGES
            /\ live \in expected_stages(e) \cup {e.target} ->
              Go(CASE live = e.target -> "comment"
                   [] live # e.target /\ e.target = "FINAL_INVOICE" /\ Reconciliation(e) -> "assemble"
                   [] OTHER -> "write", e.target)
         [] OTHER ->
              CASE e.kind = "signal" -> Done(w, wk[w], Settled(w, "manual_review", "conflict"))
                [] e.kind # "signal" /\ OrderOf(live) > OrderOf(e.target) ->
                     Done(w, wk[w], Settled(w, "applied", "later_stage"))
                [] e.kind = "execution" /\ OrderOf(live) <= OrderOf(e.target) ->
                     Done(w, wk[w], Settled(w, "manual_review", "conflict"))
                [] OTHER -> Go("write", "DELIVERY_REVIEW")

Read(w) ==
    /\ wk[w].pc = "read"
    /\ \/ Decide(w) /\ UNCHANGED failures
       \/ _mark_retry(w)
    /\ UNCHANGED <<events, case, rows, deal, comments, been, mover, edits, crashes>>

(* A call that changes the deal may be carried out although its answer is    *)
(* lost; the row is then retried like any failed one.                        *)
Assemble(w) ==
    /\ wk[w].pc = "assemble"
    /\ \/ deal' = [deal EXCEPT !.assembled = TRUE]
          /\ wk' = [wk EXCEPT ![w].pc = "write"] /\ UNCHANGED failures
       \/ deal' \in {deal, [deal EXCEPT !.assembled = TRUE]} /\ _mark_retry(w)
    /\ UNCHANGED <<events, case, rows, comments, been, mover, edits, crashes>>

SetStage(w) ==
    /\ deal' = [deal EXCEPT !.stage = wk[w].want]
    /\ been' = been \cup {wk[w].want}
    /\ mover' = w

Write(w) ==
    /\ wk[w].pc = "write"
    /\ \/ SetStage(w) /\ wk' = [wk EXCEPT ![w].pc = "readback"] /\ UNCHANGED failures
       \/ SetStage(w) /\ _mark_retry(w)
       \/ UNCHANGED <<deal, been, mover>> /\ _mark_retry(w)
    /\ UNCHANGED <<events, case, rows, comments, edits, crashes>>

(* A readback that shows another stage is an error like any other, but it is *)
(* not drawn from the bound on failed calls.                                 *)
Readback(w) ==
    /\ wk[w].pc = "readback"
    /\ \/ deal.stage = wk[w].want
          /\ wk' = [wk EXCEPT ![w].pc = "comment"] /\ UNCHANGED failures
       \/ deal.stage # wk[w].want /\ UNCHANGED failures
          /\ Done(w, wk[w], Retried(w))
       \/ _mark_retry(w)
    /\ UNCHANGED <<events, case, rows, deal, comments, been, mover, edits, crashes>>

(* The list of comments is searched for the row's marker before adding it.   *)
MutNoSearch(i, marker) == FALSE
HasMarker(i, marker) == comments[i][marker] > 0
AddComment(i, marker) ==
    comments' = IF HasMarker(i, marker) THEN comments
                ELSE [comments EXCEPT ![i][marker] = @ + 1]

Comment(w) ==
    LET i == Current(w)
        conflict == wk[w].want # EvidenceOf(i).target
        marker == IF conflict THEN "review" ELSE "applied"
    IN /\ wk[w].pc = "comment"
       /\ \/ /\ AddComment(i, marker)
             /\ UNCHANGED failures
             /\ IF conflict
                THEN Done(w, wk[w], Settled(w, "manual_review", "conflict"))
                ELSE /\ ~ CaseLockedFor(w)
                     /\ Done(w, [wk[w] EXCEPT !.crm = wk[w].want], Settled(w, "applied", None))
          \/ AddComment(i, marker) /\ _mark_retry(w)
          \/ UNCHANGED comments /\ _mark_retry(w)
       /\ UNCHANGED <<events, case, rows, deal, been, mover, edits, crashes>>

------------------------------------------------------------------------------
(* The surroundings.                                                         *)

(* next_attempt_at passes; the attempts are not limited.                     *)
ComesDue(i) ==
    /\ rows[i].waiting
    /\ \A w \in Workers : i \notin DOMAIN wk[w].draft
    /\ rows' = [rows EXCEPT ![i].waiting = FALSE]
    /\ UNCHANGED <<events, case, wk, deal, comments, been, mover, bounds>>

(* The process dies, the commit fails, or the database ends a transaction    *)
(* that waits for one that waits for it: all of the batch is forgotten.      *)
Crash(w) ==
    /\ wk[w].pc # "idle" /\ crashes < MaxCrashes
    /\ crashes' = crashes + 1
    /\ wk' = [wk EXCEPT ![w] = Idle]
    /\ UNCHANGED <<events, case, rows, deal, comments, been, mover, edits, failures>>

Manager ==
    /\ edits < MaxEdits
    /\ edits' = edits + 1
    /\ \/ \E s \in EditStages \ {deal.stage} :
            deal' = [deal EXCEPT !.stage = s] /\ been' = been \cup {s} /\ mover' = "manager"
       \/ /\ deal.bound /\ deal' = [deal EXCEPT !.bound = FALSE]
          /\ UNCHANGED <<been, mover>>
    /\ UNCHANGED <<events, case, rows, wk, comments, failures, crashes>>

Step(w) ==
    \/ process_stage_outbox(w) \/ Check(w) \/ Read(w) \/ Assemble(w) \/ Write(w)
    \/ Readback(w) \/ Comment(w) \/ Commit(w)

Next ==
    \/ \E e \in Evidence : Learn(e)
    \/ \E w \in Workers : Step(w) \/ Crash(w)
    \/ \E i \in DOMAIN rows : ComesDue(i)
    \/ Manager

Spec == Init /\ [][Next]_vars

(* A timer starts the worker every 15 seconds, whatever became of the last   *)
(* pass, and time passes.                                                    *)
FairSpec ==
    /\ Spec
    /\ \A w \in Workers : WF_vars(Step(w))
    /\ \A i \in 1..MaxEvents : WF_vars(i \in DOMAIN rows /\ ComesDue(i))

------------------------------------------------------------------------------
(* Properties.                                                               *)

(* A row writes its comment into the timeline of the deal at most once,      *)
(* whatever answers are lost, and however often the worker dies after the    *)
(* comment and before its commit.                                            *)
CommentOnce == \A i \in DOMAIN comments : comments[i].applied <= 1 /\ comments[i].review <= 1

(* What the queue says happened to the deal has happened: a row that counts  *)
(* as carried out has brought the deal to its stage and told so in the       *)
(* timeline, and a conflict handed over to people has parked the deal in     *)
(* DELIVERY_REVIEW and told why.                                             *)
SettledMeansTold ==
    \A i \in DOMAIN rows :
        /\ rows[i].status = "applied" /\ rows[i].why = None =>
               comments[i].applied = 1 /\ EvidenceOf(i).target \in been
        /\ rows[i].status = "manual_review" /\ rows[i].why = "conflict"
           /\ EvidenceOf(i).kind \in {"logistics", "shipment"} =>
               comments[i].review = 1 /\ "DELIVERY_REVIEW" \in been

(* A row of logistics or of the site's signals changes the stage it looked   *)
(* at: between its look at the deal and its write no other worker moves the  *)
(* deal, since nobody overtakes such a row and it overtakes nobody.          *)
OrderedRowsWriteAlone ==
    [][\A w \in Workers :
          Write(w) /\ mover' = w /\ ~ Reconciliation(EvidenceOf(Current(w)))
              => deal.stage = wk[w].live \/ mover = "manager"]_vars

Open(i) == i \in DOMAIN rows /\ rows[i].status \in {"pending", "retry"}

(* A row leaves the queue, or waits for people: it or an earlier row of the  *)
(* order is in manual review.                                                *)
EveryRowSettles ==
    \A i \in 1..MaxEvents :
        Open(i) ~> ~ Open(i) \/ \E j \in 1..(i - 1) : rows[j].status = "manual_review"

(* A deal in a final stage is not reopened by the service.                   *)
FinalStaysFinal ==
    [][deal.stage \in TERMINAL_CRM_STAGES /\ deal'.stage # deal.stage => mover' = "manager"]_vars
==============================================================================
