-------------------------- MODULE OrderPrepayExpiry --------------------------
(***************************************************************************)
(* Automatic closing of WEB orders whose prepayment did not come within 72 *)
(* hours.  The adapter on the site posts snapshots of orders; the service  *)
(* keeps one batch of one row per order in the queue of OrderClosure and   *)
(* confirms it by itself; when 1C has closed the order the adapter cancels *)
(* it on the site, and a last snapshot completes the batch.                *)
(*                                                                         *)
(* The tick locks its batches and commits once, so it is one step; any     *)
(* refusal rolls all of it back.  Employees cannot touch these batches:    *)
(* their actor is the automation.  The adapter is modelled from            *)
(* docs/IntegrationContract.CustomerOrderClosureQueue1C.md.                *)
(***************************************************************************)
EXTENDS OrderClosure, FiniteSets, Sequences, SequencesExt

CONSTANTS
    WorkLimit,   \* orders in an answer of GET /work
    MaxDelays    \* bound on snapshots that arrive after MAX_SNAPSHOT_AGE

ASSUME PrepayAssumption ==
    /\ WorkLimit \in Nat \ {0} /\ MaxDelays \in Nat
    /\ Positions = {1} /\ IsFiniteSet(Batches)

(* How an unpaid order over 72 hours old goes on: the customer pays, its     *)
(* amount is edited, or it is cancelled.                                     *)
SiteStates == {"new", "paid", "edited", "canceled"}
SitePrepaySnapshot == [state: SiteStates, fresh: BOOLEAN]
Actions == {"refresh", "cancel_site", "complete", "manual_review"}
Blockers == {"identity_changed", "site_snapshot_stale", "has_payment", "site_state_changed"}

ASSUME PrepayNoneAssumption == None \notin Blockers

VARIABLES
    site,      \* the orders on the site
    todo,      \* adapter: the action each order was last listed with
    inHand,    \* adapter: snapshot taken and not yet posted
    canceled,  \* source_payload.site_canceled
    created,   \* the batches in the order of created_at
    delays     \* history: used up bound

siteVars == <<site, todo, inHand>>
prepayVars == <<siteVars, canceled, created, delays>>
allVars == <<vars, prepayVars>>

PrepayTypeOK ==
    /\ TypeOK
    /\ site \in [Batches -> SiteStates]
    /\ todo \in [Batches -> Actions \cup {None}]
    /\ inHand \in [Batches -> SitePrepaySnapshot \cup {None}]
    /\ canceled \in [Batches -> BOOLEAN]
    /\ created \in Seq(Batches) /\ IsInjective(created)
    /\ delays \in 0..MaxDelays

PrepayInit ==
    /\ Init
    /\ site = [b \in Batches |-> "new"]
    /\ todo = [b \in Batches |-> None]
    /\ inHand = [b \in Batches |-> None]
    /\ canceled = [b \in Batches |-> FALSE]
    /\ created = <<>>
    /\ delays = 0

------------------------------------------------------------------------------
(* The service.                                                              *)

site_blocker(snapshot, expected) ==
    CASE ~ snapshot.fresh -> "site_snapshot_stale"
      [] snapshot.fresh /\ snapshot.state = "paid" -> "has_payment"
      [] snapshot.fresh /\ snapshot.state \notin {"paid", expected} -> "site_state_changed"
      [] OTHER -> None

MutAnswersStatus(batch, complete) == batch.status
MutNeverCancels(batch, complete) ==
    IF complete THEN "complete" ELSE IF batch.status = "failed" THEN "manual_review" ELSE "refresh"
_work(batch, complete) ==
    CASE complete -> "complete"
      [] ~ complete /\ batch.status \in {"failed", "stale"} -> "manual_review"
      [] ~ complete /\ batch.status = "applied" -> "cancel_site"
      [] OTHER -> "refresh"

(* Whatever is settled or with 1C is answered as it is, without a look at    *)
(* the blockers; the identity of the order is compared before anything else. *)
Settled == {"applied", "failed", "stale", "leased"}
observation(b, snapshot) ==
    CASE batches[b] # None /\ snapshot.state = "edited" -> "identity_changed"
      [] batches[b] # None /\ snapshot.state # "edited" /\ batches[b].status \in Settled -> None
      [] OTHER -> site_blocker(snapshot, "new")

MutCompleteOnAnySnapshot(b, snapshot) == batches[b] # None
CancellationVerified(b, snapshot) ==
    /\ batches[b] # None /\ batches[b].status = "applied"
    /\ site_blocker(snapshot, "canceled") = None

NewBatch ==
    [status |-> "draft", kind |-> "diagnose", hash |-> None, token |-> None,
     lease |-> None, attempts |-> 0]

MutConfirmReviewed(b) == batches[b].status \in {"diagnosed", "failed"}
Decided(b) == batches[b].status = "diagnosed"

DiagnosedEligible(b) == items[b][1].eligible

(* The batch and its row after an unblocked snapshot of b.                   *)
Observed(b, apply_enabled) ==
    CASE batches[b] = None -> [batch |-> NewBatch, rows |-> NewItems]
      [] batches[b] # None /\ ~ Decided(b) -> [batch |-> batches[b], rows |-> items[b]]
      [] batches[b] # None /\ Decided(b) /\ ~ DiagnosedEligible(b) ->
            [batch |-> [batches[b] EXCEPT !.status = "failed"], rows |-> items[b]]
      [] batches[b] # None /\ Decided(b) /\ DiagnosedEligible(b) /\ apply_enabled ->
            [batch |-> [batches[b] EXCEPT !.status = "approved", !.kind = "apply",
                                          !.token = None, !.lease = None],
             rows |-> [items[b] EXCEPT ![1].status = "queued"]]
      [] OTHER -> [batch |-> batches[b], rows |-> items[b]]
Confirmed(b, apply_enabled) ==
    /\ batches[b] # None /\ Decided(b) /\ DiagnosedEligible(b) /\ apply_enabled

(* The snapshots of orders S, posted together: all pass or none counts.      *)
AllPass(S) == \A b \in S : observation(b, inHand[b]) = None

Answer(S, done) ==
    [b \in Batches |->
        IF b \in S THEN _work(batches'[b], done[b]) ELSE todo[b]]

tick(S, apply_enabled, answered) ==
    /\ S # {} /\ \A b \in S : inHand[b] # None
    /\ AllPass(S)
    /\ batches' = [b \in Batches |->
          IF b \in S THEN Observed(b, apply_enabled).batch ELSE batches[b]]
    /\ items' = [b \in Batches |->
          IF b \in S THEN Observed(b, apply_enabled).rows ELSE items[b]]
    /\ confirmations' = [b \in Batches |->
          IF b \in S /\ Confirmed(b, apply_enabled)
          THEN confirmations[b] \cup {[hash |-> batches[b].hash, orders |-> Positions]}
          ELSE confirmations[b]]
    /\ canceled' = [b \in Batches |->
          canceled[b] \/ (b \in S /\ CancellationVerified(b, inHand[b]))]
    /\ created' = created \o SetToSeq({b \in S : batches[b] = None})
    /\ todo' = IF answered THEN Answer(S, canceled') ELSE todo
    /\ inHand' = [b \in Batches |-> IF b \in S THEN None ELSE inHand[b]]
    /\ UNCHANGED <<sess, executor, onec, losses, site, delays>>

(* 409: the orders before the first refusal were looked at in vain.          *)
tick_refused(S) ==
    /\ S # {} /\ \A b \in S : inHand[b] # None
    /\ ~ AllPass(S)
    /\ inHand' = [b \in Batches |-> IF b \in S THEN None ELSE inHand[b]]
    /\ UNCHANGED <<vars, site, todo, canceled, created, delays>>

Unfinished(b) ==
    /\ batches[b].status \in {"draft", "diagnosed", "approved", "leased", "applied"}
    /\ ~ canceled[b]
pending_work ==
    {created[i] : i \in {j \in DOMAIN created :
        /\ Unfinished(created[j])
        /\ Cardinality({k \in 1..(j - 1) : Unfinished(created[k])}) < WorkLimit}}

------------------------------------------------------------------------------
(* The site and its adapter.                                                 *)

get_work ==
    /\ todo' = [b \in Batches |->
          IF b \in pending_work THEN _work(batches[b], FALSE) ELSE None]
    /\ todo' # todo
    /\ UNCHANGED <<vars, site, inHand, canceled, created, delays>>

(* A candidate is a new order whose number GET /known does not list.         *)
take_snapshot(b) ==
    /\ inHand[b] = None
    /\ \/ batches[b] = None /\ site[b] = "new"
       \/ todo[b] = "refresh"
       \/ todo[b] = "cancel_site" /\ site[b] # "new"
    /\ inHand' = [inHand EXCEPT ![b] = [state |-> site[b], fresh |-> TRUE]]
    /\ UNCHANGED <<vars, site, todo, canceled, created, delays>>

(* The adapter locks the order and checks it once more.                      *)
cancel_site(b) ==
    /\ todo[b] = "cancel_site" /\ site[b] = "new"
    /\ site' = [site EXCEPT ![b] = "canceled"]
    /\ UNCHANGED <<vars, todo, inHand, canceled, created, delays>>

delay(b) ==
    /\ delays < MaxDelays /\ inHand[b] # None /\ inHand[b].fresh
    /\ delays' = delays + 1
    /\ inHand' = [inHand EXCEPT ![b].fresh = FALSE]
    /\ UNCHANGED <<vars, site, todo, canceled, created>>

customer(b) ==
    /\ site[b] = "new"
    /\ \E state \in SiteStates \ {"new"} : site' = [site EXCEPT ![b] = state]
    /\ UNCHANGED <<vars, todo, inHand, canceled, created, delays>>

------------------------------------------------------------------------------
(* What the queue does with these batches; the poll allows automatic apply   *)
(* or not (allow_auto_apply).                                                *)
QueueStep ==
    /\ \/ \E b \in Batches :
            \/ accounts_change(b)
            \/ \E allow_auto_apply \in BOOLEAN : lease_commands(b, allow_auto_apply)
       \/ \E s \in Sessions : commit(s) \/ \E e \in Executors : acknowledge_command(s, e)
       \/ \E e \in Executors : OneCStep(e) \/ lose_command(e)
       \/ Tick
    /\ UNCHANGED prepayVars

AdapterStep(b) == take_snapshot(b) \/ cancel_site(b)

PrepayNext ==
    \/ QueueStep
    \/ \E S \in SUBSET Batches :
        \/ tick_refused(S)
        \/ \E apply_enabled, answered \in BOOLEAN : tick(S, apply_enabled, answered)
    \/ get_work
    \/ \E b \in Batches : AdapterStep(b) \/ delay(b) \/ customer(b)

PrepaySpec == PrepayInit /\ [][PrepayNext]_allVars

(* The adapter runs every minute, posts what it took order by order and asks *)
(* for work again; 1C polls with the automatic apply allowed.                *)
PrepayFairSpec ==
    /\ PrepaySpec
    /\ \A b \in Batches :
        /\ WF_allVars(AdapterStep(b))
        /\ WF_allVars(tick_refused({b}) \/ tick({b}, TRUE, TRUE))
        /\ WF_allVars(lease_commands(b, TRUE) /\ UNCHANGED prepayVars)
    /\ WF_allVars(get_work)
    /\ \A e \in Executors :
        /\ WF_allVars(OneCStep(e) /\ UNCHANGED prepayVars)
        /\ WF_allVars((\E s \in Sessions : acknowledge_command(s, e)) /\ UNCHANGED prepayVars)
    /\ \A s \in Sessions : WF_allVars(commit(s) /\ UNCHANGED prepayVars)
    /\ WF_allVars(Tick /\ UNCHANGED prepayVars)

------------------------------------------------------------------------------
(* Properties.                                                               *)

(* An order is completed only when 1C has closed it and the site shows it    *)
(* cancelled, whoever cancelled it and whatever answers were lost.           *)
CompletedMeansClosed ==
    \A b \in Batches : canceled[b] => receipts[b] # {} /\ site[b] = "canceled"

(* An order put up for manual review stays there, and is not closed in 1C    *)
(* afterwards: there are no automatic retries of a stale or failed apply,    *)
(* and no late answer of 1C takes it back.                                   *)
ReviewIsFinal ==
    [][\A b \in Batches :
        batches[b] # None /\ batches[b].status \in {"failed", "stale"} =>
            batches'[b].status = batches[b].status /\ receipts'[b] = receipts[b]]_allVars

(* An order 1C has closed is completed, unless the customer paid or changed  *)
(* it meanwhile.                                                             *)
ClosedIsCompleted ==
    \A b \in Batches :
        (receipts[b] # {}) ~> (canceled[b] \/ site[b] \in {"paid", "edited"})
==============================================================================
