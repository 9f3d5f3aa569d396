------------------------ MODULE OrderPrepayExpiryProofs ------------------------
(***************************************************************************)
(* The automation on top of the queue of OrderClosure.  However sessions   *)
(* and pollers interleave, an order is completed only when 1C has closed   *)
(* it and the site shows it cancelled, and 1C closes it only as the        *)
(* automation confirmed; with one session and one poller an order put up   *)
(* for review stays there.                                                 *)
(*                                                                         *)
(* The steps of the queue are steps of OrderClosure, so its invariants     *)
(* carry over.  More holds of a batch here than of one that employees work *)
(* on, because the sessions carry acknowledgements only: whichever of them *)
(* commits, and over whatever row, leaves the batch without a command to   *)
(* give.                                                                   *)
(***************************************************************************)
EXTENDS OrderPrepayExpiry, OrderClosureProofs, FiniteSetTheorems, SequenceTheorems

(* A diagnosis has a hash, an applied row a receipt, a row to be applied its *)
(* confirmation.                                                             *)
BatchSound(b) ==
    batches[b] # None =>
        /\ batches[b].status = "leased" => batches[b].kind # None
        /\ batches[b].status = "diagnosed" => batches[b].hash # None
        /\ batches[b].status = "applied" => receipts[b] # {}
        /\ batches[b].kind = "apply" =>
              [hash |-> batches[b].hash, orders |-> Queued(items[b])] \in confirmations[b]

(* A session is about to end a lease, and never takes a hash back.           *)
AckSound(t) ==
    /\ t.old.status = "leased" /\ t.old.kind # None
    /\ t.new.status # "leased" /\ t.new.kind = None
    /\ t.new.status = "diagnosed" => t.new.hash # None
    /\ t.new.status = "applied" => receipts[t.batch] # {}
    /\ t.new.hash = None => t.old.hash = None
    /\ t.old.hash # None => batches[t.batch].hash # None

CommandSound(cmd) ==
    /\ cmd.outcome = "diagnosed" => cmd.hash # None
    /\ cmd.outcome = "applied" => receipts[cmd.batch] # {}
    /\ CommandAsConfirmed(cmd)

AutoInv ==
    /\ IInv
    /\ \A b \in Batches : BatchSound(b)
    /\ \A s \in Sessions : sess[s] # None => AckSound(sess[s])
    /\ \A e \in Executors : executor[e] # None => CommandSound(executor[e])
    /\ ClosedAsConfirmed

(* An order of the site leaves "new" once and for all, so a snapshot that    *)
(* shows it otherwise is still true when it arrives.                         *)
SnapshotsHold ==
    \A b \in Batches : inHand[b] # None /\ inHand[b].state # "new" => site[b] = inHand[b].state

CreatedExist == \A i \in DOMAIN created : batches[created[i]] # None

PrepayInv ==
    /\ AutoInv
    /\ PrepayTypeOK /\ SnapshotsHold /\ CreatedExist
    /\ CompletedMeansClosed

(* What is known besides when handlers and pollers take turns.               *)
QueueInv == AsConfirmed /\ AsRecorded

------------------------------------------------------------------------------
(* What a tick makes of a batch: nothing, a new batch, a failed one or a     *)
(* confirmed one; and it decides only on a batch that is diagnosed.          *)
FailedRow(b) == [batches[b] EXCEPT !.status = "failed"]
ApprovedRow(b) ==
    [batches[b] EXCEPT !.status = "approved", !.kind = "apply", !.token = None, !.lease = None]
Untouched(b, row, rows) == row = batches[b] /\ rows = items[b]
Made(b, row, rows) == batches[b] = None /\ row = NewBatch /\ rows = NewItems
Reviewed(b, row, rows) ==
    /\ batches[b] # None /\ batches[b].status = "diagnosed"
    /\ row = FailedRow(b) /\ rows = items[b]
Approved(b, row, rows) ==
    /\ batches[b] # None /\ batches[b].status = "diagnosed"
    /\ row = ApprovedRow(b) /\ rows = Rows(b, Positions)
Confirmation(b) == [hash |-> batches[b].hash, orders |-> Positions]

LEMMA RowsOfAll ==
    ASSUME TypeOK, NEW b \in Batches
    PROVE  [items[b] EXCEPT ![1].status = "queued"] = Rows(b, Positions)
BY PrepayAssumption DEF TypeOK, Items, OrderClosureItem, Rows

LEMMA TickBecomes ==
    ASSUME TypeOK, NEW S \in SUBSET Batches, NEW apply_enabled \in BOOLEAN,
           NEW answered \in BOOLEAN, tick(S, apply_enabled, answered), NEW b \in Batches
    PROVE  \/ /\ \/ Untouched(b, batches'[b], items'[b])
                 \/ Made(b, batches'[b], items'[b])
                 \/ Reviewed(b, batches'[b], items'[b])
              /\ confirmations'[b] = confirmations[b]
           \/ /\ Approved(b, batches'[b], items'[b])
              /\ confirmations'[b] = confirmations[b] \cup {Confirmation(b)}
<1>1. /\ batches'[b] = IF b \in S THEN Observed(b, apply_enabled).batch ELSE batches[b]
      /\ items'[b] = IF b \in S THEN Observed(b, apply_enabled).rows ELSE items[b]
      /\ confirmations'[b] = IF b \in S /\ Confirmed(b, apply_enabled)
            THEN confirmations[b] \cup {Confirmation(b)} ELSE confirmations[b]
  BY DEF tick, Confirmation
<1>2. CASE b \notin S BY <1>1, <1>2 DEF Untouched
<1>3. CASE b \in S /\ batches[b] = None
  <2>1. Observed(b, apply_enabled) = [batch |-> NewBatch, rows |-> NewItems]
    BY <1>3 DEF Observed
  <2>2. QED BY <1>1, <1>3, <2>1 DEF Made, Confirmed
<1>4. CASE b \in S /\ batches[b] # None /\ ~ Decided(b)
  <2>1. Observed(b, apply_enabled) = [batch |-> batches[b], rows |-> items[b]]
    BY <1>4 DEF Observed
  <2>2. QED BY <1>1, <1>4, <2>1 DEF Untouched, Confirmed
<1>5. CASE b \in S /\ batches[b] # None /\ Decided(b) /\ ~ DiagnosedEligible(b)
  <2>1. Observed(b, apply_enabled) = [batch |-> FailedRow(b), rows |-> items[b]]
    BY <1>5 DEF Observed, FailedRow
  <2>2. QED BY <1>1, <1>5, <2>1 DEF Reviewed, Confirmed, Decided
<1>6. CASE b \in S /\ batches[b] # None /\ Decided(b) /\ DiagnosedEligible(b) /\ apply_enabled
  <2>1. [items[b] EXCEPT ![1].status = "queued"] = Rows(b, Positions) BY RowsOfAll
  <2>2. Observed(b, apply_enabled) = [batch |-> ApprovedRow(b), rows |-> Rows(b, Positions)]
    BY <1>6, <2>1 DEF Observed, ApprovedRow
  <2>3. Confirmed(b, apply_enabled) BY <1>6 DEF Confirmed
  <2>4. b \in S BY <1>6
  <2>5. /\ batches'[b] = ApprovedRow(b) /\ items'[b] = Rows(b, Positions)
        /\ confirmations'[b] = confirmations[b] \cup {Confirmation(b)}
    BY <1>1, <2>2, <2>3, <2>4
  <2>6. QED BY <1>6, <2>5 DEF Approved, Decided
<1>7. CASE b \in S /\ batches[b] # None /\ Decided(b) /\ DiagnosedEligible(b) /\ ~ apply_enabled
  <2>1. Observed(b, apply_enabled) = [batch |-> batches[b], rows |-> items[b]]
    BY <1>7 DEF Observed
  <2>2. ~ Confirmed(b, apply_enabled) BY <1>7 DEF Confirmed
  <2>3. QED BY <1>1, <1>7, <2>1, <2>2 DEF Untouched
<1>8. QED BY <1>2, <1>3, <1>4, <1>5, <1>6, <1>7

(* The columns of what became of a batch.                                    *)
LEMMA MadeFields ==
    NewBatch \in OrderClosureBatch /\ NewBatch # None
    /\ NewBatch.status = "draft" /\ NewBatch.kind = "diagnose"
<1>1. NewBatch \in OrderClosureBatch
  BY OrderClosureAssumption DEF NewBatch, OrderClosureBatch, BatchStatuses
<1>2. QED BY <1>1, NoneAssumption DEF NewBatch

LEMMA DecidedFields ==
    ASSUME TypeOK, NEW b \in Batches, batches[b] # None
    PROVE  /\ FailedRow(b) \in OrderClosureBatch /\ FailedRow(b) # None
           /\ FailedRow(b).status = "failed" /\ FailedRow(b).kind = batches[b].kind
           /\ ApprovedRow(b) \in OrderClosureBatch /\ ApprovedRow(b) # None
           /\ ApprovedRow(b).status = "approved" /\ ApprovedRow(b).kind = "apply"
           /\ ApprovedRow(b).hash = batches[b].hash
           /\ Rows(b, Positions) \in Items
<1>1. batches[b] \in OrderClosureBatch BY DEF TypeOK
<1>2. /\ FailedRow(b) \in OrderClosureBatch
      /\ FailedRow(b).status = "failed" /\ FailedRow(b).kind = batches[b].kind
  BY <1>1 DEF FailedRow, OrderClosureBatch, BatchStatuses
<1>3. /\ ApprovedRow(b) \in OrderClosureBatch
      /\ ApprovedRow(b).status = "approved" /\ ApprovedRow(b).kind = "apply"
      /\ ApprovedRow(b).hash = batches[b].hash
  BY <1>1 DEF ApprovedRow, OrderClosureBatch, BatchStatuses
<1>4. Rows(b, Positions) \in Items
  <2>1. \A p \in Positions : items[b][p] \in OrderClosureItem BY DEF TypeOK, Items
  <2>2. \A p \in Positions : [items[b][p] EXCEPT !.status = "queued"] \in OrderClosureItem
    BY <2>1 DEF OrderClosureItem
  <2>3. QED BY <2>2 DEF Rows, Items
<1>5. QED BY <1>2, <1>3, <1>4, NoneAssumption

(* A batch that a tick touches was new or diagnosed.                         *)
LEMMA TickKinds ==
    ASSUME TypeOK, NEW S \in SUBSET Batches, NEW apply_enabled \in BOOLEAN,
           NEW answered \in BOOLEAN, tick(S, apply_enabled, answered)
    PROVE  /\ UNCHANGED <<sess, executor, onec, losses, site, delays>>
           /\ \A b \in Batches :
                /\ batches[b] # None => batches'[b] # None
                /\ batches[b] # None /\ batches[b].status # "diagnosed" =>
                      batches'[b] = batches[b] /\ items'[b] = items[b]
                /\ batches'[b] # None /\ batches'[b].status \in {"leased", "applied"} =>
                      batches'[b] = batches[b] /\ items'[b] = items[b]
                /\ batches'[b] # None /\ batches'[b].status = "diagnosed" =>
                      batches'[b] = batches[b]
                /\ confirmations[b] \subseteq confirmations'[b]
<1>1. UNCHANGED <<sess, executor, onec, losses, site, delays>> BY DEF tick
<1>2. ASSUME NEW b \in Batches
      PROVE  /\ batches[b] # None => batches'[b] # None
             /\ batches[b] # None /\ batches[b].status # "diagnosed" =>
                   batches'[b] = batches[b] /\ items'[b] = items[b]
             /\ batches'[b] # None /\ batches'[b].status \in {"leased", "applied"} =>
                   batches'[b] = batches[b] /\ items'[b] = items[b]
             /\ batches'[b] # None /\ batches'[b].status = "diagnosed" =>
                   batches'[b] = batches[b]
             /\ confirmations[b] \subseteq confirmations'[b]
  BY TickBecomes, MadeFields, DecidedFields DEF Untouched, Made, Reviewed, Approved
<1>3. QED BY <1>1, <1>2

------------------------------------------------------------------------------
(* The tick and the invariants of the queue.                                 *)

LEMMA TickKeepsIInv ==
    ASSUME IInv, \A b \in Batches : BatchSound(b), NEW S \in SUBSET Batches, NEW apply_enabled \in BOOLEAN,
           NEW answered \in BOOLEAN, tick(S, apply_enabled, answered)
    PROVE  IInv'
<1>1. TypeOK'
  <2>1. ASSUME NEW b \in Batches
        PROVE  /\ batches'[b] \in OrderClosureBatch \cup {None} /\ items'[b] \in Items
               /\ confirmations'[b] \in SUBSET Selection
    <3>1. batches[b] # None /\ batches[b].status = "diagnosed" => Confirmation(b) \in Selection
      BY DEF BatchSound, IInv, TypeOK, OrderClosureBatch, Confirmation, Selection
    <3>2. CASE \/ Untouched(b, batches'[b], items'[b]) \/ Made(b, batches'[b], items'[b])
               \/ Reviewed(b, batches'[b], items'[b])
      <4>1. batches'[b] \in OrderClosureBatch \cup {None} /\ items'[b] \in Items
        BY <3>2, MadeFields, DecidedFields, NewItemsFacts
        DEF IInv, TypeOK, Untouched, Made, Reviewed
      <4>2. QED BY <3>1, <4>1, TickBecomes DEF IInv, TypeOK, Approved
    <3>3. CASE /\ Approved(b, batches'[b], items'[b])
               /\ confirmations'[b] = confirmations[b] \cup {Confirmation(b)}
      BY <3>1, <3>3, DecidedFields DEF IInv, TypeOK, Approved
    <3>4. QED BY <3>2, <3>3, TickBecomes DEF IInv
  <2>2. /\ batches' = [b \in Batches |-> batches'[b]] /\ items' = [b \in Batches |-> items'[b]]
        /\ confirmations' = [b \in Batches |-> confirmations'[b]]
    BY DEF tick
  <2>3. /\ batches' \in [Batches -> OrderClosureBatch \cup {None}]
        /\ items' \in [Batches -> Items] /\ confirmations' \in [Batches -> SUBSET Selection]
    BY <2>1, <2>2
  <2>4. QED BY <2>3, TickKinds DEF IInv, TypeOK, onec
<1>2. \A b \in Batches : Chosen(b) \subseteq Chosen(b)' BY TickKinds DEF IInv, Chosen
<1>3. QueuedWereChosen'
  <2> SUFFICES ASSUME NEW b \in Batches, NEW p \in Positions, items'[b][p].status = "queued"
               PROVE  p \in Chosen(b)'
    BY DEF QueuedWereChosen
  <2>1. CASE items'[b] = items[b] BY <1>2, <2>1 DEF IInv, QueuedWereChosen
  <2>2. CASE items'[b] = NewItems BY <2>2 DEF NewItems
  <2>3. CASE Approved(b, batches'[b], items'[b])
             /\ confirmations'[b] = confirmations[b] \cup {Confirmation(b)}
    <3>1. Confirmation(b) \in confirmations'[b] BY <2>3
    <3>2. QED BY <3>1 DEF Chosen, Confirmation
  <2>4. QED BY <2>1, <2>2, <2>3, TickBecomes DEF IInv, Untouched, Made, Reviewed
<1>4. SessionsQueueChosen'
  <2> SUFFICES ASSUME NEW s \in Sessions, sess'[s] # None PROVE SessionOK(sess[s])'
    BY DEF SessionsQueueChosen
  <2>1. sess'[s] = sess[s] /\ sess[s].batch \in Batches /\ SessionOK(sess[s])
    BY TickKinds, SessionFields DEF IInv, SessionsQueueChosen
  <2>2. batches'[sess[s].batch] # None BY <2>1, TickKinds DEF IInv, SessionOK
  <2>3. QED BY <1>2, <2>1, <2>2 DEF SessionOK, ToBeConfirmed
<1>5. CommandsCarryChosen'
  <2> SUFFICES ASSUME NEW e \in Executors, executor'[e] # None PROVE CommandOK(executor[e])'
    BY DEF CommandsCarryChosen
  <2>1. executor'[e] = executor[e] /\ executor[e].batch \in Batches /\ CommandOK(executor[e])
    BY TickKinds, CommandFields DEF IInv, CommandsCarryChosen
  <2>2. batches'[executor[e].batch] # None BY <2>1, TickKinds DEF IInv, CommandOK
  <2>3. QED BY <1>2, <2>1, <2>2 DEF CommandOK
<1>6. ClosedRowsWereChosen'
  BY <1>2, TickKinds DEF IInv, ClosedRowsWereChosen, Chosen, onec
<1>7. QED BY <1>1, <1>3, <1>4, <1>5, <1>6 DEF IInv

LEMMA TickConfirmed ==
    ASSUME AutoInv, QueueInv, NEW S \in SUBSET Batches, NEW apply_enabled \in BOOLEAN,
           NEW answered \in BOOLEAN, tick(S, apply_enabled, answered)
    PROVE  AsConfirmed'
<1>a. IInv /\ TypeOK /\ AsConfirmed BY DEF AutoInv, QueueInv, IInv
<1>1. ASSUME NEW b \in Batches PROVE BatchAsConfirmed(b)'
  <2>1. BatchAsConfirmed(b) BY <1>a DEF AsConfirmed
  <2>2. CASE Untouched(b, batches'[b], items'[b])
    BY <1>a, <2>1, <2>2, TickKinds DEF Untouched, BatchAsConfirmed, Queued, WithStatus
  <2>3. CASE Made(b, batches'[b], items'[b])
    BY <2>3, MadeFields, NewItemsFacts DEF Made, BatchAsConfirmed, Queued, WithStatus
  <2>4. CASE Reviewed(b, batches'[b], items'[b])
    BY <1>a, <2>1, <2>4, DecidedFields DEF Reviewed, BatchAsConfirmed, Queued, WithStatus
  <2>5. CASE /\ Approved(b, batches'[b], items'[b])
             /\ confirmations'[b] = confirmations[b] \cup {Confirmation(b)}
    <3>1. Queued(items[b]) = {} BY <2>1, <2>5 DEF Approved, BatchAsConfirmed
    <3>2. Queued(items[b])' = Positions
      BY <1>a, <2>5, <3>1, QueuedRows DEF Approved, Queued, WithStatus
    <3>3. /\ batches'[b].status = "approved" /\ batches'[b].kind = "apply"
          /\ batches'[b].hash = batches[b].hash /\ batches'[b] # None
      BY <1>a, <2>5, DecidedFields DEF Approved
    <3>4. [hash |-> batches'[b].hash, orders |-> Positions] \in confirmations'[b]
      BY <2>5, <3>3 DEF Confirmation
    <3>5. QED BY <3>2, <3>3, <3>4 DEF BatchAsConfirmed
  <2>6. QED BY <1>a, <2>2, <2>3, <2>4, <2>5, TickBecomes
<1>2. ASSUME NEW s \in Sessions, sess'[s] # None
      PROVE  SessionAsConfirmed(sess[s])'
  <2>1. /\ sess'[s] = sess[s] /\ sess[s].batch \in Batches /\ SessionAsConfirmed(sess[s])
        /\ sess[s].old.status = "leased"
    BY <1>a, <1>2, TickKinds, SessionFields DEF AsConfirmed, AutoInv, AckSound
  <2>2. batches[sess[s].batch] # None /\ batches[sess[s].batch].status = "leased"
    BY <2>1 DEF SessionAsConfirmed, Fresh
  <2>3. /\ batches'[sess[s].batch] = batches[sess[s].batch]
        /\ items'[sess[s].batch] = items[sess[s].batch]
    BY <1>a, <2>1, <2>2, TickKinds
  <2>4. QED BY <2>1, <2>3 DEF SessionAsConfirmed, Fresh, Queued, WithStatus
<1>3. ASSUME NEW e \in Executors, executor'[e] # None PROVE CommandAsConfirmed(executor[e])'
  <2>1. executor'[e] = executor[e] /\ executor[e].batch \in Batches
    BY <1>a, <1>3, TickKinds, CommandFields
  <2>2. QED BY <1>a, <1>3, <2>1, TickKinds DEF AsConfirmed, CommandAsConfirmed
<1>4. ClosedAsConfirmed' BY <1>a, TickKinds DEF AsConfirmed, ClosedAsConfirmed, onec
<1>5. QED BY <1>1, <1>2, <1>3, <1>4 DEF AsConfirmed

LEMMA TickRecorded ==
    ASSUME IInv, QueueInv, NEW S \in SUBSET Batches, NEW apply_enabled \in BOOLEAN,
           NEW answered \in BOOLEAN, tick(S, apply_enabled, answered)
    PROVE  AsRecorded'
<1>a. IInv /\ TypeOK /\ AsConfirmed /\ AsRecorded BY DEF QueueInv, IInv
<1>b. receipts' = receipts BY <1>a, TickKinds DEF onec
<1>1. ASSUME NEW b \in Batches PROVE BatchAsRecorded(b)'
  <2>1. BatchAsRecorded(b) BY <1>a, AsRecordedIs
  <2>2. CASE Untouched(b, batches'[b], items'[b])
    BY <1>b, <2>1, <2>2
    DEF Untouched, BatchAsRecorded, Recorded, AppliedRows, Queued, WithStatus
  <2>3. CASE Made(b, batches'[b], items'[b])
    BY <1>b, <2>1, <2>3, MadeFields, NewItemsFacts
    DEF Made, BatchAsRecorded, Recorded, AppliedRows, WithStatus
  <2>4. ASSUME Reviewed(b, batches'[b], items'[b]) \/ Approved(b, batches'[b], items'[b])
        PROVE  BatchAsRecorded(b)'
    <3>1. /\ batches[b] # None /\ batches[b].status = "diagnosed"
          /\ receipts[b] = {} /\ AppliedRows(items[b]) = {}
      BY <1>a, <2>4, ReceiptsKnown DEF Reviewed, Approved, Diagnosable
    <3>2. AppliedRows(Rows(b, Positions)) = {}
      <4>1. Queued(items[b]) = {} BY <1>a, <3>1 DEF AsConfirmed, BatchAsConfirmed
      <4>2. QED BY <1>a, <3>1, <4>1, QueuedRows DEF AppliedRows, WithStatus
    <3>3. batches'[b] # None /\ batches'[b].status # "applied"
      BY <1>a, <2>4, <3>1, DecidedFields DEF Reviewed, Approved
    <3>4. AppliedRows(items[b])' = {}
      BY <2>4, <3>1, <3>2 DEF Reviewed, Approved, AppliedRows, WithStatus
    <3>5. QED BY <1>b, <3>1, <3>3, <3>4 DEF BatchAsRecorded, Recorded, AppliedRows
  <2>5. QED BY <1>a, <2>2, <2>3, <2>4, TickBecomes
<1>2. \A s \in Sessions : sess'[s] # None => SessionAsRecorded(s)'
  <2>1. sess' = sess BY <1>a, TickKinds
  <2>2. QED BY <1>a, <1>b, <2>1, AsRecordedIs DEF SessionAsRecorded, Recorded, Queued, WithStatus
<1>3. ASSUME NEW e \in Executors, executor'[e] # None
      PROVE  CommandStands(executor[e])' /\ Settling(e)'
  <2>1. executor'[e] = executor[e] /\ executor[e].batch \in Batches
    BY <1>a, <1>3, TickKinds, CommandFields
  <2>2. CommandStands(executor[e]) /\ Settling(e) BY <1>a, <1>3, <2>1, AsRecordedIs
  <2>3. batches[executor[e].batch] # None
    BY <1>a, <1>3, <2>1 DEF IInv, CommandsCarryChosen, CommandOK
  <2>4. CommandStands(executor[e])'
    <3>1. CASE batches[executor[e].batch].status = "diagnosed"
      <4>1. executor[e].outcome # None BY <2>2, <3>1 DEF CommandStands, LeaseMatches
      <4>2. ~ LeaseMatches(executor[e].batch, executor[e])'
        BY <1>a, <2>1, <2>3, <3>1, TickKinds DEF LeaseMatches
      <4>3. QED BY <2>1, <4>1, <4>2 DEF CommandStands
    <3>2. CASE batches[executor[e].batch].status # "diagnosed"
      <4>1. /\ batches'[executor[e].batch] = batches[executor[e].batch]
            /\ items'[executor[e].batch] = items[executor[e].batch]
        BY <1>a, <2>1, <2>3, <3>2, TickKinds
      <4>2. QED BY <1>b, <2>1, <2>2, <4>1 DEF CommandStands, LeaseMatches, Queued, WithStatus
    <3>3. QED BY <3>1, <3>2
  <2>5. Settling(e)' BY <1>a, <2>1, <2>2, TickKinds DEF Settling
  <2>6. QED BY <2>4, <2>5
<1>4. QED BY <1>1, <1>2, <1>3, AsRecordedNext

------------------------------------------------------------------------------
(* Any number of sessions and pollers: what each step has to show.           *)

LEMMA QueueStepIsNext == QueueStep => Next /\ UNCHANGED prepayVars
BY DEF QueueStep, Next

(* The queue deletes no batch and 1C takes no receipt back.                  *)
LEMMA QueueStepGrows ==
    ASSUME IInv, QueueStep, NEW b \in Batches
    PROVE  receipts[b] \subseteq receipts'[b] /\ (batches[b] # None => batches'[b] # None)
<1>1. CASE \E x \in Batches : accounts_change(x) BY <1>1 DEF accounts_change
<1>2. CASE \E x \in Batches, allow_apply \in BOOLEAN : lease_commands(x, allow_apply)
  <2>1. PICK x \in Batches, allow_apply \in BOOLEAN : lease_commands(x, allow_apply) BY <1>2
  <2>2. batches'[x] # None /\ (b # x => batches'[b] = batches[b]) BY <2>1, LeasedRow
  <2>3. UNCHANGED receipts BY <2>1 DEF lease_commands, onec
  <2>4. QED BY <2>2, <2>3
<1>3. CASE \E s \in Sessions : commit(s)
  <2>1. PICK s \in Sessions : commit(s) BY <1>3
  <2>2. UNCHANGED receipts BY <2>1 DEF commit, onec
  <2>3. batches'[b] = batches[b] \/ batches'[b] = MergeBatch(sess[s].old, sess[s].new, batches[b])
    BY <2>1 DEF commit, IInv, TypeOK
  <2>4. sess[s].new \in OrderClosureBatch BY <2>1, SessionFields DEF commit, IInv
  <2>5. batches[b] # None =>
          MergeBatch(sess[s].old, sess[s].new, batches[b]) \in OrderClosureBatch
    BY <2>4, MergeBatchType DEF IInv, TypeOK
  <2>6. QED BY <2>2, <2>3, <2>5, NoneAssumption
<1>4. CASE \E s \in Sessions, e \in Executors : acknowledge_command(s, e)
  BY <1>4 DEF acknowledge_command, Prepare, onec
<1>5. CASE \E e \in Executors : \/ diagnose(e) \/ replay_receipt(e) \/ refuse(e)
                               \/ acknowledge_rejected(e) \/ lose_command(e)
  BY <1>5 DEF diagnose, replay_receipt, refuse, acknowledge_rejected, lose_command, onec
<1>6. CASE \E e \in Executors : apply(e)
  <2>1. PICK e \in Executors : apply(e) BY <1>6
  <2>2. /\ receipts' = [receipts EXCEPT ![executor[e].batch] = @ \cup executor[e].orders]
        /\ UNCHANGED batches
    BY <2>1 DEF apply
  <2>3. QED BY <2>2 DEF IInv, TypeOK
<1>7. CASE Tick BY <1>7, TickRows DEF Tick, onec, RowsSame
<1>8. QED BY <1>1, <1>2, <1>3, <1>4, <1>5, <1>6, <1>7 DEF QueueStep, OneCStep

Advances(b) ==
    /\ receipts[b] \subseteq receipts'[b] /\ confirmations[b] \subseteq confirmations'[b]
    /\ batches[b] # None /\ batches[b].hash # None => batches'[b].hash # None

LEMMA AutoKept ==
    ASSUME AutoInv, IInv', ClosedAsConfirmed',
           \A b \in Batches : Advances(b) /\ BatchSound(b)',
           \A s \in Sessions : sess'[s] \in {None, sess[s]} \/ AckSound(sess[s])',
           \A e \in Executors : executor'[e] \in {None, executor[e]} \/ CommandSound(executor[e])'
    PROVE  AutoInv'
<1>1. ASSUME NEW s \in Sessions, sess'[s] # None PROVE AckSound(sess[s])'
  <2>1. CASE sess'[s] = sess[s]
    <3>1. AckSound(sess[s]) /\ sess[s].batch \in Batches /\ batches[sess[s].batch] # None
      BY <1>1, <2>1, SessionFields DEF AutoInv, IInv, SessionsQueueChosen, SessionOK
    <3>2. Advances(sess[s].batch) BY <3>1
    <3>3. QED BY <2>1, <3>1, <3>2 DEF AckSound, Advances
  <2>2. QED BY <1>1, <2>1
<1>2. ASSUME NEW e \in Executors, executor'[e] # None PROVE CommandSound(executor[e])'
  <2>1. CASE executor'[e] = executor[e]
    <3>1. CommandSound(executor[e]) /\ executor[e].batch \in Batches
      BY <1>2, <2>1, CommandFields DEF AutoInv, IInv
    <3>2. Advances(executor[e].batch) BY <3>1
    <3>3. QED BY <2>1, <3>1, <3>2 DEF CommandSound, CommandAsConfirmed, Advances
  <2>2. QED BY <1>2, <2>1
<1>3. QED BY <1>1, <1>2 DEF AutoInv

(* Steps that leave the table alone but for leases.                          *)
LEMMA RowsKept ==
    ASSUME AutoInv, RowsSame, \A b \in Batches : batches[b] = None => batches'[b] = None,
           UNCHANGED <<items, confirmations>>,
           \A b \in Batches : receipts[b] \subseteq receipts'[b]
    PROVE  \A b \in Batches : Advances(b) /\ BatchSound(b)'
<1> SUFFICES ASSUME NEW b \in Batches PROVE Advances(b) /\ BatchSound(b)'
  OBVIOUS
<1>1. BatchSound(b) BY DEF AutoInv
<1>2. Advances(b) BY DEF Advances, RowsSame
<1>3. CASE batches[b] = None BY <1>2, <1>3 DEF BatchSound
<1>4. CASE batches[b] # None
  <2>1. /\ batches'[b].status = batches[b].status /\ batches'[b].kind = batches[b].kind
        /\ batches'[b].hash = batches[b].hash /\ items'[b] = items[b]
    BY <1>4 DEF RowsSame
  <2>2. receipts[b] # {} => receipts'[b] # {} BY <1>2 DEF Advances
  <2>3. Queued(items[b])' = Queued(items[b]) BY <2>1 DEF Queued, WithStatus
  <2>4. QED BY <1>1, <1>2, <1>4, <2>1, <2>2, <2>3 DEF BatchSound
<1>5. QED BY <1>3, <1>4

LEMMA LeaseAuto ==
    ASSUME AutoInv, IInv', NEW b \in Batches, NEW allow_apply \in BOOLEAN,
           lease_commands(b, allow_apply)
    PROVE  AutoInv'
<1>a. IInv BY DEF AutoInv
<1>c. PICK command : command =
          [batch |-> b, kind |-> batches[b].kind,
           token |-> batches[b].attempts + 1, hash |-> batches[b].hash,
           orders |-> IF batches[b].kind = "apply" THEN QueuedOrders(b) ELSE Positions,
           outcome |-> None]
  OBVIOUS
<1>1. /\ batches[b] # None /\ batches[b].kind # None
      /\ \/ \E e \in Executors : executor' = [executor EXCEPT ![e] = command]
         \/ UNCHANGED executor
      /\ UNCHANGED <<items, sess, ledger, receipts, closures, confirmations>>
  BY <1>c DEF lease_commands, onec, LeaseRunOut
<1>2. /\ batches'[b].kind = batches[b].kind /\ batches'[b].hash = batches[b].hash
      /\ batches'[b].status = "leased" /\ batches'[b] # None
      /\ \A x \in Batches : x # b => batches'[x] = batches[x]
  BY <1>a, LeasedRow
<1>3. \A e \in Executors : executor'[e] \in {executor[e], command}
  BY <1>a, <1>1 DEF IInv, TypeOK
<1>4. BatchSound(b) BY DEF AutoInv
<1>5. ASSUME NEW e \in Executors, executor'[e] = command PROVE CommandSound(executor[e])'
  <2>1. command.outcome \notin {"diagnosed", "applied"} /\ command.batch = b
    BY <1>c, NoneAssumption DEF BatchStatuses
  <2>2. command.kind = "apply" =>
            [hash |-> command.hash, orders |-> command.orders] \in confirmations[b]
    BY <1>c, <1>1, <1>4 DEF BatchSound, Queued, QueuedOrders
  <2>3. QED BY <1>1, <1>5, <2>1, <2>2 DEF CommandSound, CommandAsConfirmed
<1>6. ASSUME NEW x \in Batches PROVE Advances(x) /\ BatchSound(x)'
  <2>1. BatchSound(x) /\ Queued(items[x])' = Queued(items[x])
    BY <1>1 DEF AutoInv, Queued, WithStatus
  <2>2. Advances(x) BY <1>1, <1>2 DEF Advances
  <2>3. BatchSound(x)' BY <1>1, <1>2, <2>1 DEF BatchSound
  <2>4. QED BY <2>2, <2>3
<1>7. ClosedAsConfirmed' BY <1>1 DEF AutoInv, ClosedAsConfirmed
<1>8. QED BY <1>1, <1>3, <1>5, <1>6, <1>7, AutoKept

(* Whatever the row has become since it was loaded, it has no command to     *)
(* give once an acknowledgement was written over it.                         *)
LEMMA MergedRow ==
    ASSUME NEW t \in Transaction, AckSound(t), NEW row \in OrderClosureBatch,
           t.old.hash # None => row.hash # None
    PROVE  /\ MergeBatch(t.old, t.new, row).status = t.new.status
           /\ MergeBatch(t.old, t.new, row).kind = None
           /\ t.new.status = "diagnosed" => MergeBatch(t.old, t.new, row).hash # None
           /\ row.hash # None => MergeBatch(t.old, t.new, row).hash # None
<1>1. /\ Column(t.old.status, t.new.status, row.status) = t.new.status
      /\ Column(t.old.kind, t.new.kind, row.kind) = None
  BY DEF AckSound, Column
<1>2. /\ t.new.status = "diagnosed" => Column(t.old.hash, t.new.hash, row.hash) # None
      /\ row.hash # None => Column(t.old.hash, t.new.hash, row.hash) # None
  BY DEF AckSound, Column
<1>3. QED BY <1>1, <1>2 DEF MergeBatch

LEMMA CommitAuto ==
    ASSUME AutoInv, IInv', NEW s \in Sessions, commit(s)
    PROVE  AutoInv'
<1>a. IInv BY DEF AutoInv
<1>1. PICK t \in Transaction : t = sess[s] /\ sess[s] # None /\ AckSound(t)
  BY DEF commit, AutoInv, IInv, TypeOK
<1>2. PICK b \in Batches : b = t.batch BY DEF Transaction
<1>3. /\ batches' = [batches EXCEPT ![b] = MergeBatch(t.old, t.new, batches[b])]
      /\ confirmations' = [confirmations EXCEPT ![b] = @ \cup ({t.confirms} \ {None})]
      /\ sess' = [sess EXCEPT ![s] = None]
      /\ items' = [items EXCEPT ![b] = MergeItems(t.oldItems, t.newItems, @)]
      /\ \A e \in Executors : executor'[e] \in {None, executor[e]}
      /\ UNCHANGED <<ledger, receipts, closures>>
  BY <1>1, <1>2 DEF commit, onec
<1>4. batches[b] # None /\ batches[b] \in OrderClosureBatch
  BY <1>a, <1>1, <1>2 DEF IInv, TypeOK, SessionsQueueChosen, SessionOK
<1>5. t.old.hash # None => batches[b].hash # None BY <1>1, <1>2 DEF AckSound
<1>6. /\ batches'[b].status = t.new.status /\ batches'[b].kind = None
      /\ t.new.status = "diagnosed" => batches'[b].hash # None
      /\ batches[b].hash # None => batches'[b].hash # None
  BY <1>a, <1>1, <1>3, <1>4, <1>5, MergedRow DEF IInv, TypeOK
<1>7. \A x \in Batches : x # b => batches'[x] = batches[x] /\ items'[x] = items[x]
  BY <1>a, <1>3 DEF IInv, TypeOK
<1>8. \A x \in Batches : confirmations[x] \subseteq confirmations'[x]
  BY <1>a, <1>3 DEF IInv, TypeOK
<1>9. ASSUME NEW x \in Batches PROVE Advances(x) /\ BatchSound(x)'
  <2>1. Advances(x) BY <1>3, <1>6, <1>7, <1>8 DEF Advances
  <2>2. CASE x = b
    <3>1. t.new.status = "applied" => receipts'[b] # {} BY <1>1, <1>2, <1>3 DEF AckSound
    <3>2. t.new.status # "leased" BY <1>1 DEF AckSound
    <3>3. batches'[b].kind # "apply" BY <1>6, NoneAssumption
    <3>4. QED BY <1>6, <2>1, <2>2, <3>1, <3>2, <3>3 DEF BatchSound
  <2>3. CASE x # b
    <3>1. BatchSound(x) /\ Queued(items[x])' = Queued(items[x])
      BY <1>7, <2>3 DEF AutoInv, Queued, WithStatus
    <3>2. batches'[x] = batches[x] /\ receipts'[x] = receipts[x] BY <1>3, <1>7, <2>3
    <3>3. QED BY <1>8, <2>1, <3>1, <3>2 DEF BatchSound
  <2>4. QED BY <2>2, <2>3
<1>10. \A x \in Sessions : sess'[x] \in {None, sess[x]} BY <1>a, <1>3 DEF IInv, TypeOK
<1>11. ClosedAsConfirmed' BY <1>3, <1>8 DEF AutoInv, ClosedAsConfirmed
<1>12. QED BY <1>3, <1>9, <1>10, <1>11, AutoKept

LEMMA AcknowledgeAuto ==
    ASSUME AutoInv, IInv', NEW s \in Sessions, NEW e \in Executors, acknowledge_command(s, e)
    PROVE  AutoInv'
<1>a. IInv BY DEF AutoInv
<1>1. PICK b \in Batches : b = executor[e].batch BY <1>a, AcknowledgeLoads
<1>2. /\ executor[e] # None /\ batches[b] # None
      /\ LeaseMatches(b, executor[e]) /\ OutcomeFits(b, executor[e])
  BY <1>a, <1>1, AcknowledgeLoads DEF Acceptable
<1>3. PICK t : t = [batch |-> b, old |-> batches[b], new |-> Acknowledged(b, executor[e]),
                    oldItems |-> items[b], newItems |-> AcknowledgedItems(b, executor[e]),
                    executor |-> e, confirms |-> None]
  OBVIOUS
<1>4. /\ sess' = [sess EXCEPT ![s] = t]
      /\ UNCHANGED <<batches, items, executor, ledger, receipts, closures, confirmations>>
  BY <1>1, <1>3 DEF acknowledge_command, Prepare, onec
<1>5. sess'[s] = t /\ \A x \in Sessions : x # s => sess'[x] = sess[x]
  BY <1>a, <1>4 DEF IInv, TypeOK
<1>6. batches[b] \in OrderClosureBatch BY <1>2, <1>a DEF IInv, TypeOK
<1>7. /\ t.new.status = executor[e].outcome /\ t.new.kind = None
      /\ t.new.hash = IF executor[e].outcome = "diagnosed"
                      THEN executor[e].hash ELSE batches[b].hash
      /\ t.old = batches[b] /\ t.batch = b
  BY <1>3, <1>6 DEF Acknowledged, OrderClosureBatch
<1>8. CommandSound(executor[e]) /\ BatchSound(b) BY <1>2 DEF AutoInv
<1>9. AckSound(t)
  <2>1. batches[b].status = "leased" /\ batches[b].kind # None
    BY <1>2, <1>8 DEF LeaseMatches, BatchSound
  <2>2. executor[e].outcome \in {"diagnosed", "applied", "stale", "failed"}
    BY <1>2 DEF OutcomeFits
  <2>3. QED BY <1>1, <1>7, <1>8, <2>1, <2>2 DEF AckSound, CommandSound
<1>10. AckSound(sess[s])' BY <1>4, <1>5, <1>9 DEF AckSound
<1>11. \A x \in Batches : Advances(x) /\ BatchSound(x)'
  BY <1>4, RowsKept DEF RowsSame
<1>12. ClosedAsConfirmed' BY <1>4 DEF AutoInv, ClosedAsConfirmed
<1>13. QED BY <1>4, <1>5, <1>10, <1>11, <1>12, AutoKept

(* 1C's report about a command; apply closes its rows in the same step.      *)
LEMMA ReportAuto ==
    ASSUME AutoInv, IInv', NEW e \in Executors, executor[e] # None,
           NEW outcome \in {"diagnosed", "applied", "stale", "failed"}, NEW hash,
           Report(e, outcome, hash),
           outcome = "diagnosed" => hash # None,
           outcome = "applied" => receipts'[executor[e].batch] # {},
           executor[e].kind = "apply" => hash = executor[e].hash,
           UNCHANGED <<batches, items, sess, confirmations>>,
           \A b \in Batches : receipts[b] \subseteq receipts'[b],
           ClosedAsConfirmed'
    PROVE  AutoInv'
<1>a. IInv /\ TypeOK /\ CommandSound(executor[e]) BY DEF AutoInv, IInv
<1>1. /\ executor'[e].batch = executor[e].batch /\ executor'[e].kind = executor[e].kind
      /\ executor'[e].orders = executor[e].orders
      /\ executor'[e].outcome = outcome /\ executor'[e].hash = hash
      /\ \A d \in Executors : d # e => executor'[d] = executor[d]
  BY <1>a, ReportIs
<1>2. CommandSound(executor[e])'
  BY <1>a, <1>1 DEF CommandSound, CommandAsConfirmed
<1>3. \A b \in Batches : Advances(b) /\ BatchSound(b)' BY RowsKept DEF RowsSame
<1>4. QED BY <1>1, <1>2, <1>3, AutoKept

LEMMA AnswersAuto ==
    ASSUME AutoInv, IInv', NEW e \in Executors, diagnose(e) \/ replay_receipt(e) \/ refuse(e)
    PROVE  AutoInv'
<1>a. IInv /\ TypeOK BY DEF AutoInv, IInv
<1>1. /\ UNCHANGED <<batches, items, sess, confirmations, receipts, closures>>
      /\ executor[e] # None
  BY DEF diagnose, replay_receipt, refuse, Executing, onec
<1>2. executor[e].batch \in Batches BY <1>a, <1>1, CommandFields
<1>3. ledger[executor[e].batch] # None
  BY <1>a, <1>2, OrderClosureAssumption DEF TypeOK, Snapshots
<1>4. \E outcome \in {"diagnosed", "applied", "stale", "failed"}, hash \in {None} \cup Snapshots :
        /\ Report(e, outcome, hash) /\ (outcome = "diagnosed" => hash # None)
        /\ outcome = "applied" => receipts'[executor[e].batch] # {}
        /\ executor[e].kind = "apply" => hash = executor[e].hash
  <2>1. ledger[executor[e].batch] \in Snapshots /\ executor[e].hash \in {None} \cup Snapshots
    BY <1>a, <1>1, <1>2, CommandFields DEF TypeOK, Command
  <2>2. CASE diagnose(e)
    <3>1. executor[e].kind # "apply" BY <2>2 DEF diagnose, Executing
    <3>2. QED BY <1>3, <2>1, <2>2, <3>1 DEF diagnose
  <2>3. CASE replay_receipt(e)
    <3>1. receipts'[executor[e].batch] # {} /\ Report(e, "applied", executor[e].hash)
      BY <1>1, <2>3 DEF replay_receipt, Applied
    <3>2. QED BY <2>1, <3>1
  <2>4. CASE refuse(e) BY <2>1, <2>4 DEF refuse
  <2>5. QED BY <2>2, <2>3, <2>4
<1>5. ClosedAsConfirmed' BY <1>1 DEF AutoInv, ClosedAsConfirmed
<1>6. QED BY <1>1, <1>4, <1>5, ReportAuto

LEMMA ApplyAuto ==
    ASSUME AutoInv, IInv', NEW e \in Executors, apply(e)
    PROVE  AutoInv'
<1>a. IInv /\ TypeOK BY DEF AutoInv, IInv
<1>1. PICK b \in Batches : b = executor[e].batch
  BY <1>a, CommandFields DEF apply, Executing
<1>2. /\ executor[e] # None /\ executor[e].kind = "apply" /\ executor[e].orders # {}
      /\ receipts' = [receipts EXCEPT ![b] = @ \cup executor[e].orders]
      /\ closures' = [closures EXCEPT ![b] = @ \cup
            {[hash |-> executor[e].hash, orders |-> executor[e].orders]}]
      /\ Report(e, "applied", executor[e].hash)
      /\ UNCHANGED <<batches, items, sess, confirmations>>
  BY <1>1 DEF apply, Executing
<1>3. receipts'[b] # {} /\ \A x \in Batches : receipts[x] \subseteq receipts'[x]
  BY <1>a, <1>2 DEF TypeOK
<1>4. [hash |-> executor[e].hash, orders |-> executor[e].orders] \in confirmations[b]
  BY <1>1, <1>2 DEF AutoInv, CommandSound, CommandAsConfirmed
<1>5. ClosedAsConfirmed' BY <1>a, <1>2, <1>4 DEF AutoInv, TypeOK, ClosedAsConfirmed
<1>6. QED BY <1>1, <1>2, <1>3, <1>5, ReportAuto

LEMMA QueueStepAuto ==
    ASSUME AutoInv, QueueStep
    PROVE  AutoInv'
<1>a. IInv /\ TypeOK /\ IInv' BY QueueStepIsNext, NextIInv DEF AutoInv, IInv
<1>1. CASE \E b \in Batches : accounts_change(b)
  <2>1. UNCHANGED <<batches, items, sess, executor, receipts, confirmations, closures>>
    BY <1>1 DEF accounts_change
  <2>2. \A b \in Batches : Advances(b) /\ BatchSound(b)' BY <2>1, RowsKept DEF RowsSame
  <2>3. ClosedAsConfirmed' BY <2>1 DEF AutoInv, ClosedAsConfirmed
  <2>4. QED BY <1>a, <2>1, <2>2, <2>3, AutoKept
<1>2. CASE \E b \in Batches, allow_apply \in BOOLEAN : lease_commands(b, allow_apply)
  BY <1>a, <1>2, LeaseAuto
<1>3. CASE \E s \in Sessions : commit(s) BY <1>a, <1>3, CommitAuto
<1>4. CASE \E s \in Sessions, e \in Executors : acknowledge_command(s, e)
  BY <1>a, <1>4, AcknowledgeAuto
<1>5. CASE \E e \in Executors : diagnose(e) \/ replay_receipt(e) \/ refuse(e)
  BY <1>a, <1>5, AnswersAuto
<1>6. CASE \E e \in Executors : apply(e) BY <1>a, <1>6, ApplyAuto
<1>7. CASE \E e \in Executors : acknowledge_rejected(e) \/ lose_command(e)
  <2>1. /\ \E e \in Executors : executor' = [executor EXCEPT ![e] = None]
        /\ UNCHANGED <<batches, items, sess, receipts, confirmations, closures>>
    BY <1>7 DEF acknowledge_rejected, lose_command, onec
  <2>2. \A e \in Executors : executor'[e] \in {None, executor[e]} BY <1>a, <2>1 DEF TypeOK
  <2>3. \A b \in Batches : Advances(b) /\ BatchSound(b)' BY <2>1, RowsKept DEF RowsSame
  <2>4. ClosedAsConfirmed' BY <2>1 DEF AutoInv, ClosedAsConfirmed
  <2>5. QED BY <1>a, <2>1, <2>2, <2>3, <2>4, AutoKept
<1>8. CASE Tick
  <2>1. UNCHANGED <<items, sess, executor, receipts, confirmations, closures>>
    BY <1>8 DEF Tick, onec
  <2>2. \A b \in Batches : Advances(b) /\ BatchSound(b)'
    BY <1>a, <1>8, <2>1, TickRows, RowsKept
  <2>3. ClosedAsConfirmed' BY <2>1 DEF AutoInv, ClosedAsConfirmed
  <2>4. QED BY <1>a, <2>1, <2>2, <2>3, AutoKept
<1>9. QED BY <1>1, <1>2, <1>3, <1>4, <1>5, <1>6, <1>7, <1>8 DEF QueueStep, OneCStep

LEMMA TickAuto ==
    ASSUME AutoInv, NEW S \in SUBSET Batches, NEW apply_enabled \in BOOLEAN,
           NEW answered \in BOOLEAN, tick(S, apply_enabled, answered)
    PROVE  AutoInv'
<1>a. IInv /\ TypeOK BY DEF AutoInv, IInv
<1>1. IInv' BY <1>a, TickKeepsIInv DEF AutoInv
<1>2. UNCHANGED <<sess, executor, receipts, closures>> BY <1>a, TickKinds DEF onec
<1>3. ASSUME NEW b \in Batches PROVE Advances(b) /\ BatchSound(b)'
  <2>1. BatchSound(b) BY DEF AutoInv
  <2>2. CASE Untouched(b, batches'[b], items'[b])
    <3>1. batches'[b] = batches[b] /\ Queued(items[b])' = Queued(items[b])
      BY <2>2 DEF Untouched, Queued, WithStatus
    <3>2. confirmations[b] \subseteq confirmations'[b] BY <1>a, TickKinds
    <3>3. QED BY <1>2, <2>1, <3>1, <3>2 DEF BatchSound, Advances
  <2>3. CASE Made(b, batches'[b], items'[b])
    <3>1. confirmations[b] \subseteq confirmations'[b] BY <1>a, TickKinds
    <3>2. QED BY <1>2, <2>3, <3>1, MadeFields DEF Made, BatchSound, Advances
  <2>4. CASE Reviewed(b, batches'[b], items'[b])
    <3>1. batches[b] # None /\ batches[b] \in OrderClosureBatch
      BY <1>a, <2>4 DEF Reviewed, TypeOK
    <3>2. FailedRow(b).hash = batches[b].hash BY <3>1 DEF FailedRow, OrderClosureBatch
    <3>3. /\ batches'[b].status = "failed" /\ batches'[b].kind = batches[b].kind
          /\ batches'[b].hash = batches[b].hash /\ Queued(items[b])' = Queued(items[b])
      BY <1>a, <2>4, <3>1, <3>2, DecidedFields DEF Reviewed, Queued, WithStatus
    <3>4. confirmations[b] \subseteq confirmations'[b] BY <1>a, TickKinds
    <3>5. QED BY <1>2, <2>1, <3>1, <3>3, <3>4 DEF BatchSound, Advances
  <2>5. CASE /\ Approved(b, batches'[b], items'[b])
             /\ confirmations'[b] = confirmations[b] \cup {Confirmation(b)}
    <3>1. Queued(items[b])' = Positions
      <4>1. items'[b] = Rows(b, Positions) BY <2>5 DEF Approved
      <4>2. \A p \in Positions : items[b][p] \in OrderClosureItem BY <1>a DEF TypeOK, Items
      <4>3. \A p \in Positions : Rows(b, Positions)[p].status = "queued"
        BY <4>2 DEF Rows, OrderClosureItem
      <4>4. QED BY <4>1, <4>3 DEF Queued, WithStatus
    <3>2. /\ batches'[b].status = "approved" /\ batches'[b].hash = batches[b].hash
          /\ batches[b] # None
      BY <1>a, <2>5, DecidedFields DEF Approved
    <3>3. [hash |-> batches'[b].hash, orders |-> Positions] \in confirmations'[b]
      BY <2>5, <3>2 DEF Confirmation
    <3>4. QED BY <1>2, <2>5, <3>1, <3>2, <3>3 DEF BatchSound, Advances
  <2>6. QED BY <1>a, <2>2, <2>3, <2>4, <2>5, TickBecomes
<1>4. ClosedAsConfirmed' BY <1>2, <1>3 DEF AutoInv, ClosedAsConfirmed, Advances
<1>5. QED BY <1>1, <1>2, <1>3, <1>4, AutoKept

(* The steps of the site and of its adapter leave the queue alone.           *)
LEMMA AutoUntouched ==
    ASSUME AutoInv, UNCHANGED vars
    PROVE  AutoInv'
<1>1. IInv' BY NextIInv DEF AutoInv
<1>2. UNCHANGED <<batches, items, sess, executor, receipts, closures, confirmations>>
  BY DEF vars
<1>3. \A b \in Batches : Advances(b) /\ BatchSound(b)' BY <1>2, RowsKept DEF RowsSame
<1>4. ClosedAsConfirmed' BY <1>2 DEF AutoInv, ClosedAsConfirmed
<1>5. QED BY <1>1, <1>2, <1>3, <1>4, AutoKept

------------------------------------------------------------------------------
(* The list of the batches.                                                  *)

(* A finite set is listed without a repetition.                              *)
LEMMA SetToSeqLists ==
    ASSUME NEW T, IsFiniteSet(T)
    PROVE  SetToSeq(T) \in Seq(T) /\ IsInjective(SetToSeq(T))
<1>1. Cardinality(T) \in Nat /\ ExistsBijection(1..Cardinality(T), T) BY FS_CardinalityType
<1>2. \E f \in [1..Cardinality(T) -> T] : IsInjective(f)
  BY <1>1 DEF ExistsBijection, Bijection, Injection
<1>3. SetToSeq(T) \in [1..Cardinality(T) -> T] /\ IsInjective(SetToSeq(T))
  BY <1>2 DEF SetToSeq
<1>4. QED BY <1>1, <1>3

LEMMA CreatedGrows ==
    ASSUME created \in Seq(Batches), IsInjective(created), CreatedExist,
           NEW T \in SUBSET {b \in Batches : batches[b] = None},
           created' = created \o SetToSeq(T)
    PROVE  /\ created' \in Seq(Batches) /\ IsInjective(created')
           /\ \A i \in DOMAIN created' :
                 created'[i] \in T \/ batches[created'[i]] # None
<1> DEFINE more == SetToSeq(T)
<1>1. IsFiniteSet(T) BY PrepayAssumption, FS_Subset
<1>2. more \in Seq(T) /\ IsInjective(more) BY <1>1, SetToSeqLists
<1>3. more \in Seq(Batches) BY <1>2
<1> HIDE DEF more
<1>4. /\ created' \in Seq(Batches) /\ Len(created') = Len(created) + Len(more)
      /\ \A i \in 1..(Len(created) + Len(more)) :
            created'[i] = IF i <= Len(created) THEN created[i] ELSE more[i - Len(created)]
  BY <1>3, ConcatProperties DEF more
<1>5. Len(created) \in Nat /\ Len(more) \in Nat BY <1>3
<1>6. /\ \A i \in 1..Len(created) : batches[created[i]] # None
      /\ \A i \in 1..Len(more) : more[i] \in T
  BY <1>2 DEF CreatedExist
<1>7. ASSUME NEW i \in DOMAIN created'
      PROVE  IF i <= Len(created)
             THEN i \in 1..Len(created) /\ created'[i] = created[i]
             ELSE /\ i - Len(created) \in 1..Len(more)
                  /\ created'[i] = more[i - Len(created)]
  <2>1. i \in 1..(Len(created) + Len(more)) BY <1>4
  <2>2. QED BY <1>4, <1>5, <2>1
<1>8. ASSUME NEW i \in DOMAIN created', NEW j \in DOMAIN created', created'[i] = created'[j]
      PROVE  i = j
  <2>1. i \in Nat /\ j \in Nat BY <1>4
  <2>2. CASE i <= Len(created) /\ j <= Len(created)
    BY <1>7, <1>8, <2>2 DEF IsInjective
  <2>3. CASE ~ (i <= Len(created)) /\ ~ (j <= Len(created))
    <3>1. i - Len(created) = j - Len(created)
      BY <1>2, <1>7, <1>8, <2>3 DEF IsInjective
    <3>2. QED BY <1>5, <2>1, <3>1
  <2>4. CASE i <= Len(created) /\ ~ (j <= Len(created)) BY <1>6, <1>7, <1>8, <2>4
  <2>5. CASE ~ (i <= Len(created)) /\ j <= Len(created) BY <1>6, <1>7, <1>8, <2>5
  <2>6. QED BY <2>2, <2>3, <2>4, <2>5
<1>9. \A i \in DOMAIN created' : created'[i] \in T \/ batches[created'[i]] # None
  BY <1>6, <1>7
<1>10. QED BY <1>4, <1>8, <1>9 DEF IsInjective

------------------------------------------------------------------------------
(* The invariant of the automation.                                          *)

LEMMA WorkIsAction ==
    ASSUME NEW batch, NEW complete
    PROVE  _work(batch, complete) \in Actions
BY DEF _work, Actions

LEMMA VerifiedMeansCanceled ==
    ASSUME NEW b \in Batches, inHand[b] \in SitePrepaySnapshot, CancellationVerified(b, inHand[b])
    PROVE  batches[b] # None /\ batches[b].status = "applied" /\ inHand[b].state = "canceled"
<1>1. site_blocker(inHand[b], "canceled") = None BY DEF CancellationVerified
<1>2. /\ inHand[b].fresh
      /\ inHand[b].state # "paid" /\ inHand[b].state \in {"paid", "canceled"}
  BY <1>1, PrepayNoneAssumption DEF site_blocker, Blockers, SitePrepaySnapshot
<1>3. QED BY <1>2 DEF CancellationVerified

LEMMA PrepayInitInv == PrepayInit => PrepayInv
<1> SUFFICES ASSUME PrepayInit PROVE PrepayInv OBVIOUS
<1>1. Init BY DEF PrepayInit
<1>2. IInv BY <1>1, InitIInv
<1>3. AutoInv BY <1>1, <1>2 DEF Init, AutoInv, BatchSound, ClosedAsConfirmed
<1>4. PrepayTypeOK
  BY <1>2, PrepayAssumption DEF IInv, PrepayInit, PrepayTypeOK, SiteStates, IsInjective
<1>5. SnapshotsHold /\ CreatedExist /\ CompletedMeansClosed
  BY DEF PrepayInit, SnapshotsHold, CreatedExist, CompletedMeansClosed
<1>6. QED BY <1>3, <1>4, <1>5 DEF PrepayInv

LEMMA QueueStepPrepay ==
    ASSUME PrepayInv, QueueStep
    PROVE  PrepayInv'
<1>a. IInv /\ TypeOK BY DEF PrepayInv, AutoInv, IInv
<1>1. AutoInv' BY QueueStepAuto DEF PrepayInv
<1>2. UNCHANGED <<site, todo, inHand, canceled, created, delays>>
  BY DEF QueueStep, prepayVars, siteVars
<1>3. PrepayTypeOK' BY <1>1, <1>2 DEF PrepayInv, PrepayTypeOK, AutoInv, IInv
<1>4. SnapshotsHold' BY <1>2 DEF PrepayInv, SnapshotsHold
<1>5. \A b \in Batches :
        receipts[b] \subseteq receipts'[b] /\ (batches[b] # None => batches'[b] # None)
  BY <1>a, QueueStepGrows
<1>6. CreatedExist'
  <2>1. \A i \in DOMAIN created : created[i] \in Batches BY DEF PrepayInv, PrepayTypeOK
  <2>2. QED BY <1>2, <1>5, <2>1 DEF PrepayInv, CreatedExist
<1>7. CompletedMeansClosed' BY <1>2, <1>5 DEF PrepayInv, CompletedMeansClosed
<1>8. QED BY <1>1, <1>3, <1>4, <1>6, <1>7 DEF PrepayInv

LEMMA TickPrepay ==
    ASSUME PrepayInv, NEW S \in SUBSET Batches, NEW apply_enabled \in BOOLEAN,
           NEW answered \in BOOLEAN, tick(S, apply_enabled, answered)
    PROVE  PrepayInv'
<1>a. AutoInv /\ IInv /\ TypeOK /\ PrepayTypeOK BY DEF PrepayInv, AutoInv, IInv
<1>1. AutoInv' BY <1>a, TickAuto
<1>2. /\ UNCHANGED <<receipts, site, delays>>
      /\ inHand' = [b \in Batches |-> IF b \in S THEN None ELSE inHand[b]]
      /\ todo' = IF answered THEN Answer(S, canceled') ELSE todo
      /\ canceled' = [b \in Batches |->
            canceled[b] \/ (b \in S /\ CancellationVerified(b, inHand[b]))]
      /\ created' = created \o SetToSeq({b \in S : batches[b] = None})
      /\ \A b \in S : inHand[b] # None
  BY DEF tick, onec
<1>3. /\ created' \in Seq(Batches) /\ IsInjective(created')
      /\ \A i \in DOMAIN created' :
            created'[i] \in {b \in S : batches[b] = None} \/ batches[created'[i]] # None
  BY <1>2, CreatedGrows DEF PrepayInv, PrepayTypeOK
<1>4. CreatedExist'
  <2>1. ASSUME NEW b \in Batches, batches[b] = None, b \in S PROVE batches'[b] # None
    <3>1. batches'[b] = NewBatch BY <2>1 DEF tick, Observed
    <3>2. QED BY <3>1, MadeFields
  <2>2. \A b \in Batches : batches[b] # None => batches'[b] # None BY <1>a, TickKinds
  <2>3. \A i \in DOMAIN created' : created'[i] \in Batches BY <1>3
  <2>4. QED BY <1>3, <2>1, <2>2, <2>3 DEF CreatedExist
<1>5. PrepayTypeOK'
  <2>1. inHand' \in [Batches -> SitePrepaySnapshot \cup {None}]
    BY <1>a, <1>2 DEF PrepayTypeOK
  <2>2. canceled' \in [Batches -> BOOLEAN]
    <3>1. \A b \in Batches :
            (canceled[b] \/ (b \in S /\ CancellationVerified(b, inHand[b]))) \in BOOLEAN
      BY Zenon DEF CancellationVerified
    <3>2. QED BY <1>2, <3>1, Zenon
  <2>3. todo' \in [Batches -> Actions \cup {None}]
    <3>1. CASE answered
      <4>1. todo' = Answer(S, canceled') BY <1>2, <3>1
      <4>2. \A b \in Batches :
              (IF b \in S THEN _work(batches'[b], canceled'[b]) ELSE todo[b])
                  \in Actions \cup {None}
        BY <1>a, WorkIsAction DEF PrepayTypeOK
      <4>3. QED BY <4>1, <4>2 DEF Answer
    <3>2. CASE ~ answered BY <1>a, <1>2, <3>2 DEF PrepayTypeOK
    <3>3. QED BY <3>1, <3>2
  <2>4. QED BY <1>a, <1>1, <1>2, <1>3, <2>1, <2>2, <2>3 DEF PrepayTypeOK, AutoInv, IInv
<1>6. SnapshotsHold' BY <1>2 DEF PrepayInv, SnapshotsHold
<1>7. CompletedMeansClosed'
  <2> SUFFICES ASSUME NEW b \in Batches, canceled'[b]
               PROVE  receipts'[b] # {} /\ site'[b] = "canceled"
    BY DEF CompletedMeansClosed
  <2>1. CASE canceled[b] BY <1>2, <2>1 DEF PrepayInv, CompletedMeansClosed
  <2>2. CASE b \in S /\ CancellationVerified(b, inHand[b])
    <3>1. inHand[b] \in SitePrepaySnapshot BY <1>a, <1>2, <2>2 DEF PrepayTypeOK
    <3>2. batches[b] # None /\ batches[b].status = "applied" /\ inHand[b].state = "canceled"
      BY <2>2, <3>1, VerifiedMeansCanceled
    <3>3. receipts[b] # {}
      BY <1>a, <3>2 DEF AutoInv, BatchSound
    <3>4. site[b] = "canceled" BY <1>2, <2>2, <3>2 DEF PrepayInv, SnapshotsHold
    <3>5. QED BY <1>2, <3>3, <3>4
  <2>3. QED BY <1>2, <2>1, <2>2
<1>8. QED BY <1>1, <1>4, <1>5, <1>6, <1>7 DEF PrepayInv

(* The site, its adapter, refusals: the queue is left alone.                 *)
LEMMA SitePrepay ==
    ASSUME PrepayInv, UNCHANGED <<vars, canceled, created>>, PrepayTypeOK',
           SnapshotsHold',
           \A b \in Batches : site[b] = "canceled" => site'[b] = "canceled"
    PROVE  PrepayInv'
<1>1. AutoInv' BY AutoUntouched DEF PrepayInv
<1>2. UNCHANGED <<batches, receipts>> BY DEF vars, onec
<1>3. CreatedExist' BY <1>2 DEF PrepayInv, CreatedExist
<1>4. CompletedMeansClosed' BY <1>2 DEF PrepayInv, CompletedMeansClosed
<1>5. QED BY <1>1, <1>3, <1>4 DEF PrepayInv

LEMMA TypeUntouched ==
    ASSUME PrepayInv, UNCHANGED vars
    PROVE  TypeOK'
BY AutoUntouched DEF PrepayInv, AutoInv, IInv

LEMMA PrepayNextInv ==
    ASSUME PrepayInv, [PrepayNext]_allVars
    PROVE  PrepayInv'
<1>1. CASE QueueStep BY <1>1, QueueStepPrepay
<1>2. CASE \E S \in SUBSET Batches, apply_enabled, answered \in BOOLEAN :
              tick(S, apply_enabled, answered)
  BY <1>2, TickPrepay
<1>3. CASE \E S \in SUBSET Batches : tick_refused(S)
  <2>1. PICK S \in SUBSET Batches : tick_refused(S) BY <1>3
  <2>2. /\ inHand' = [b \in Batches |-> IF b \in S THEN None ELSE inHand[b]]
        /\ UNCHANGED <<vars, site, todo, canceled, created, delays>>
    BY <2>1 DEF tick_refused
  <2>3. PrepayTypeOK' BY <2>2, TypeUntouched DEF PrepayInv, PrepayTypeOK
  <2>4. SnapshotsHold' BY <2>2 DEF PrepayInv, SnapshotsHold
  <2>5. QED BY <2>2, <2>3, <2>4, SitePrepay
<1>4. CASE get_work
  <2>1. /\ todo' = [b \in Batches |->
              IF b \in pending_work THEN _work(batches[b], FALSE) ELSE None]
        /\ UNCHANGED <<vars, site, inHand, canceled, created, delays>>
    BY <1>4 DEF get_work
  <2>2. todo' \in [Batches -> Actions \cup {None}] BY <2>1, WorkIsAction
  <2>3. PrepayTypeOK' BY <2>1, <2>2, TypeUntouched DEF PrepayInv, PrepayTypeOK
  <2>4. SnapshotsHold' BY <2>1 DEF PrepayInv, SnapshotsHold
  <2>5. QED BY <2>1, <2>3, <2>4, SitePrepay
<1>5. CASE \E b \in Batches : take_snapshot(b) \/ delay(b)
  <2>1. PICK b \in Batches : take_snapshot(b) \/ delay(b) BY <1>5
  <2>2. UNCHANGED <<vars, site, todo, canceled, created>>
    BY <2>1 DEF take_snapshot, delay
  <2>3. /\ delays' \in 0..MaxDelays
        /\ inHand' \in [Batches -> SitePrepaySnapshot \cup {None}]
        /\ \A x \in Batches : x # b => inHand'[x] = inHand[x]
        /\ inHand'[b] # None /\ inHand'[b].state # "new" => site[b] = inHand'[b].state
    <3>1. CASE take_snapshot(b)
      <4>1. [state |-> site[b], fresh |-> TRUE] \in SitePrepaySnapshot
        BY DEF PrepayInv, PrepayTypeOK, SitePrepaySnapshot
      <4>2. /\ inHand' = [inHand EXCEPT ![b] = [state |-> site[b], fresh |-> TRUE]]
            /\ UNCHANGED delays
        BY <3>1 DEF take_snapshot
      <4>3. QED BY <4>1, <4>2 DEF PrepayInv, PrepayTypeOK
    <3>2. CASE delay(b)
      <4>1. /\ inHand[b] # None /\ delays < MaxDelays /\ delays' = delays + 1
            /\ inHand' = [inHand EXCEPT ![b] = [inHand[b] EXCEPT !.fresh = FALSE]]
        BY <3>2 DEF delay
      <4>2. inHand[b] \in SitePrepaySnapshot BY <4>1 DEF PrepayInv, PrepayTypeOK
      <4>3. /\ [inHand[b] EXCEPT !.fresh = FALSE] \in SitePrepaySnapshot
            /\ [inHand[b] EXCEPT !.fresh = FALSE].state = inHand[b].state
        BY <4>2 DEF SitePrepaySnapshot
      <4>4. delays' \in 0..MaxDelays
        BY <4>1, PrepayAssumption DEF PrepayInv, PrepayTypeOK
      <4>5. inHand[b].state # "new" => site[b] = inHand[b].state
        BY <4>1 DEF PrepayInv, SnapshotsHold
      <4>6. QED BY <4>1, <4>3, <4>4, <4>5 DEF PrepayInv, PrepayTypeOK
    <3>3. QED BY <2>1, <3>1, <3>2
  <2>4. PrepayTypeOK' BY <2>2, <2>3, TypeUntouched DEF PrepayInv, PrepayTypeOK
  <2>5. SnapshotsHold' BY <2>2, <2>3 DEF PrepayInv, SnapshotsHold
  <2>6. QED BY <2>2, <2>4, <2>5, SitePrepay
<1>6. CASE \E b \in Batches : cancel_site(b) \/ customer(b)
  <2>1. PICK b \in Batches : cancel_site(b) \/ customer(b) BY <1>6
  <2>2. PICK state \in SiteStates : site' = [site EXCEPT ![b] = state]
    BY <2>1 DEF cancel_site, customer, SiteStates
  <2>3. site[b] = "new" /\ UNCHANGED <<vars, todo, inHand, canceled, created, delays>>
    BY <2>1 DEF cancel_site, customer
  <2>4. PrepayTypeOK' BY <2>2, <2>3, TypeUntouched DEF PrepayInv, PrepayTypeOK
  <2>5. SnapshotsHold' BY <2>2, <2>3 DEF PrepayInv, PrepayTypeOK, SnapshotsHold
  <2>6. \A x \in Batches : site[x] = "canceled" => site'[x] = "canceled"
    BY <2>2, <2>3 DEF PrepayInv, PrepayTypeOK
  <2>7. QED BY <2>3, <2>4, <2>5, <2>6, SitePrepay
<1>7. CASE UNCHANGED allVars
  <2>1. UNCHANGED <<vars, site, todo, inHand, canceled, created, delays>>
    BY <1>7 DEF allVars, prepayVars, siteVars
  <2>2. PrepayTypeOK' BY <2>1, TypeUntouched DEF PrepayInv, PrepayTypeOK
  <2>3. SnapshotsHold' BY <2>1 DEF PrepayInv, SnapshotsHold
  <2>4. QED BY <2>1, <2>2, <2>3, SitePrepay
<1>8. QED
  BY <1>1, <1>2, <1>3, <1>4, <1>5, <1>6, <1>7 DEF PrepayNext, AdapterStep

LEMMA AlwaysPrepayInv == PrepaySpec => []PrepayInv
<1>1. PrepayInit => PrepayInv BY PrepayInitInv
<1>2. PrepayInv /\ [PrepayNext]_allVars => PrepayInv' BY PrepayNextInv
<1>3. QED BY <1>1, <1>2, PTL DEF PrepaySpec

(* The queue, the site and the adapter keep their types.                     *)
THEOREM PrepayTypeCorrect == PrepaySpec => []PrepayTypeOK
<1>1. PrepayInv => PrepayTypeOK BY DEF PrepayInv
<1>2. QED BY <1>1, AlwaysPrepayInv, PTL

(* An order is completed only when 1C has closed it and the site shows it    *)
(* cancelled: the batch is applied, so its receipt exists, and a snapshot    *)
(* that showed the order cancelled cannot have become untrue on its way.     *)
THEOREM CompletedIsClosed == PrepaySpec => []CompletedMeansClosed
<1>1. PrepayInv => CompletedMeansClosed BY DEF PrepayInv
<1>2. QED BY <1>1, AlwaysPrepayInv, PTL

(* The automation closes nothing in 1C that it did not confirm by itself     *)
(* under the diagnosis it was decided on.                                    *)
THEOREM AutomationClosesAsConfirmed == PrepaySpec => []ClosedAsConfirmed
<1>1. PrepayInv => ClosedAsConfirmed BY DEF PrepayInv, AutoInv
<1>2. QED BY <1>1, AlwaysPrepayInv, PTL

------------------------------------------------------------------------------
(* One session and one poller: what is under review stays there.             *)

Kept ==
    \A b \in Batches :
        batches[b] # None /\ batches[b].status \in {"failed", "stale"} =>
            batches'[b].status = batches[b].status /\ receipts'[b] = receipts[b]

LEMMA QueueStepReview ==
    ASSUME OneSession, OnePoller, AutoInv, QueueInv, QueueStep
    PROVE  QueueInv' /\ Kept
<1>a. IInv /\ AsConfirmed /\ AsRecorded /\ [Next]_vars
  BY QueueStepIsNext DEF AutoInv, QueueInv
<1>1. AsConfirmed' /\ AsRecorded' BY <1>a, NextConfirmed, NextRecorded
<1>2. Kept
  <2>1. CASE \E b \in Batches : accounts_change(b) BY <2>1 DEF accounts_change, Kept
  <2>2. CASE \E b \in Batches, allow_apply \in BOOLEAN : lease_commands(b, allow_apply)
    <3>1. PICK b \in Batches, allow_apply \in BOOLEAN : lease_commands(b, allow_apply) BY <2>2
    <3>2. batches[b].status \in {"draft", "approved", "leased"} /\ UNCHANGED receipts
      BY <3>1 DEF lease_commands, LeaseRunOut, onec
    <3>3. \A x \in Batches : x # b => batches'[x] = batches[x] BY <1>a, <3>1, LeasedRow
    <3>4. QED BY <3>2, <3>3 DEF Kept
  <2>3. CASE \E s \in Sessions : commit(s)
    <3>1. PICK s \in Sessions : commit(s) BY <2>3
    <3>2. /\ sess[s] # None /\ Fresh(sess[s]) /\ sess[s].old.status = "leased"
          /\ UNCHANGED receipts
      BY <1>a, <3>1 DEF commit, onec, AsConfirmed, SessionAsConfirmed, AutoInv, AckSound
    <3>3. batches' = [batches EXCEPT ![sess[s].batch] = sess[s].new]
      BY <1>a, <3>1, <3>2, CommitFresh
    <3>4. \A x \in Batches : x # sess[s].batch => batches'[x] = batches[x]
      BY <1>a, <3>3 DEF IInv, TypeOK
    <3>5. batches[sess[s].batch].status = "leased" BY <3>2 DEF Fresh
    <3>6. QED BY <3>2, <3>4, <3>5 DEF Kept
  <2>4. CASE \E s \in Sessions, e \in Executors : acknowledge_command(s, e)
    BY <2>4 DEF acknowledge_command, Prepare, onec, Kept
  <2>5. CASE \E e \in Executors : \/ diagnose(e) \/ replay_receipt(e) \/ refuse(e)
                                 \/ acknowledge_rejected(e) \/ lose_command(e)
    BY <2>5
    DEF diagnose, replay_receipt, refuse, acknowledge_rejected, lose_command, onec, Kept
  <2>6. CASE \E e \in Executors : apply(e)
    <3>1. PICK e \in Executors : apply(e) BY <2>6
    <3>2. PICK b \in Batches : b = executor[e].batch
      BY <1>a, <3>1, CommandFields DEF IInv, apply, Executing
    <3>3. /\ executor[e] # None /\ executor[e].outcome = None
          /\ receipts' = [receipts EXCEPT ![b] = @ \cup executor[e].orders]
          /\ UNCHANGED batches
      BY <3>1, <3>2 DEF apply, Executing
    <3>4. batches[b].status = "leased"
      BY <1>a, <3>2, <3>3, AsRecordedIs DEF CommandStands, LeaseMatches
    <3>5. \A x \in Batches : x # b => receipts'[x] = receipts[x]
      BY <1>a, <3>3 DEF IInv, TypeOK
    <3>6. QED BY <3>3, <3>4, <3>5 DEF Kept
  <2>7. CASE Tick BY <1>a, <2>7, TickRows DEF Tick, onec, RowsSame, Kept
  <2>8. QED BY <2>1, <2>2, <2>3, <2>4, <2>5, <2>6, <2>7 DEF QueueStep, OneCStep
<1>3. QED BY <1>1, <1>2 DEF QueueInv

LEMMA QueueUntouched ==
    ASSUME IInv, QueueInv, UNCHANGED vars
    PROVE  QueueInv'
<1>1. UNCHANGED <<batches, items, sess, executor, receipts, closures, confirmations>>
  BY DEF vars
<1>2. AsConfirmed'
  BY <1>1, ConfirmedCommands DEF QueueInv, AsConfirmed, CommandAsConfirmed, ClosedAsConfirmed
<1>3. AsRecorded' BY <1>1, RecordedKept DEF QueueInv, RowsSame
<1>4. QED BY <1>2, <1>3 DEF QueueInv

LEMMA NextReview ==
    ASSUME OneSession, OnePoller, PrepayInv, QueueInv, [PrepayNext]_allVars
    PROVE  QueueInv' /\ [Kept]_allVars
<1>a. AutoInv /\ IInv BY DEF PrepayInv, AutoInv
<1>1. CASE QueueStep BY <1>a, <1>1, QueueStepReview
<1>2. ASSUME NEW S \in SUBSET Batches, NEW apply_enabled \in BOOLEAN,
             NEW answered \in BOOLEAN, tick(S, apply_enabled, answered)
      PROVE  QueueInv' /\ Kept
  <2>1. QueueInv' BY <1>a, <1>2, TickConfirmed, TickRecorded DEF QueueInv
  <2>2. Kept BY <1>a, <1>2, TickKinds DEF IInv, onec, Kept
  <2>3. QED BY <2>1, <2>2
<1>3. CASE UNCHANGED vars
  <2>1. QueueInv' BY <1>a, <1>3, QueueUntouched
  <2>2. Kept BY <1>3 DEF vars, onec, Kept
  <2>3. QED BY <2>1, <2>2
<1>4. CASE UNCHANGED allVars BY <1>3, <1>4 DEF allVars
<1>5. QED
  BY <1>1, <1>2, <1>3, <1>4
  DEF PrepayNext, AdapterStep, tick_refused, get_work, take_snapshot, cancel_site, delay,
      customer

(* A failed or stale order stays so, and nothing is closed for it any more:  *)
(* no lease stands on it, no acknowledgement of it is on its way, and the    *)
(* automation only decides on a diagnosis.                                   *)
THEOREM ReviewStays ==
    ASSUME OneSession, OnePoller
    PROVE  PrepaySpec => ReviewIsFinal
<1>1. PrepayInit => QueueInv
  <2> SUFFICES ASSUME PrepayInit PROVE QueueInv OBVIOUS
  <2>1. Init BY DEF PrepayInit
  <2>2. AsConfirmed
    BY <2>1, NewItemsFacts DEF Init, AsConfirmed, BatchAsConfirmed, ClosedAsConfirmed
  <2>3. AsRecorded BY <2>1, NewItemsFacts DEF Init, AsRecorded
  <2>4. QED BY <2>2, <2>3 DEF QueueInv
<1>2. PrepayInv /\ QueueInv /\ [PrepayNext]_allVars => QueueInv' /\ [Kept]_allVars
  BY NextReview
<1>3. PrepaySpec => [][Kept]_allVars BY <1>1, <1>2, AlwaysPrepayInv, PTL DEF PrepaySpec
<1>4. QED BY <1>3, PTL DEF ReviewIsFinal, Kept

==============================================================================
