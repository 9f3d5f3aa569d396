----------------------- MODULE SiteOrderStageOutboxProofs -----------------------
(***************************************************************************)
(* Machine-checked safety of the queue of stage changes, for any number of *)
(* workers, any evidence, any size of a batch, any failures and crashes.   *)
(*                                                                         *)
(* A worker's draft holds rows that no other worker holds and that are     *)
(* still open in the queue.  From this follows that a row which is not of  *)
(* a reconciliation is carried out while no other row of the order is.     *)
(***************************************************************************)
EXTENDS SiteOrderStageOutbox, SequenceTheorems, WellFoundedInduction, TLAPS

Drafts == UNION {[S -> Row] : S \in SUBSET Nat}

Worker ==
    [pc: PCs, todo: SUBSET Nat, draft: Drafts, latest: Nat \cup {None},
     live: Stages \cup {None}, want: Stages \cup {None}, crm: Stages \cup {None}]

Active == {"read", "assemble", "write", "readback", "comment"}

StageType ==
    /\ events \in Seq(Evidence)
    /\ case \in [event : 0..Len(events), stage : Stages]
    /\ rows \in Seq(Row)
    /\ wk \in [Workers -> Worker]
    /\ deal \in [stage : Stages, bound : BOOLEAN, assembled : BOOLEAN]
    /\ comments \in [DOMAIN rows -> [applied : Nat, review : Nat]]
    /\ been \subseteq Stages /\ deal.stage \in been
    /\ mover \in Workers \cup {None, "manager"}
    /\ \A i \in DOMAIN rows :
           rows[i].event \in DOMAIN events /\ EvidenceOf(i).target \in Stages

(* The stage that a worker is about to write, or has written: the row's, or  *)
(* the one where conflicts are parked.                                       *)
WantsIts(w) ==
    wk[w].pc \in {"assemble", "write", "readback", "comment"} =>
        wk[w].want \in {EvidenceOf(Current(w)).target, "DELIVERY_REVIEW"}

(* The rows of a worker: nobody else's, open in the queue, and those not yet *)
(* looked at unchanged.                                                      *)
Holds(w) ==
    /\ wk[w].todo \subseteq DOMAIN wk[w].draft /\ DOMAIN wk[w].draft \subseteq DOMAIN rows
    /\ wk[w].pc \in Active => wk[w].todo # {}
    /\ \A i \in DOMAIN wk[w].draft :
           /\ wk[w].draft[i].event = rows[i].event
           /\ rows[i].status \in BLOCKING_PREDECESSOR_STATUSES
    /\ \A i \in wk[w].todo :
           /\ wk[w].draft[i] = rows[i] /\ rows[i].status \in {"pending", "retry"}
    /\ \A v \in Workers : v # w => DOMAIN wk[w].draft \cap DOMAIN wk[v].draft = {}

HoldsInv == StageType /\ \A w \in Workers : Holds(w) /\ WantsIts(w)

(* What a row claims to have done has been done.                             *)
Told(r, i) ==
    /\ r.status = "applied" /\ r.why = None =>
           comments[i].applied = 1 /\ EvidenceOf(i).target \in been
    /\ r.status = "manual_review" /\ r.why = "conflict"
       /\ EvidenceOf(i).kind \in {"logistics", "shipment"} =>
           comments[i].review = 1 /\ "DELIVERY_REVIEW" \in been

ToldInv ==
    /\ \A i \in DOMAIN rows :
           /\ comments[i].applied <= 1 /\ comments[i].review <= 1
           /\ Told(rows[i], i)
    /\ \A w \in Workers :
           /\ \A i \in DOMAIN wk[w].draft : Told(wk[w].draft[i], i)
           /\ wk[w].pc \in {"readback", "comment"} => wk[w].want \in been

(* Nobody is carried out beside a row that is not of a reconciliation, and   *)
(* such a row is about to write over the stage that its worker has read.     *)
Alone(w) ==
    wk[w].pc \in Active =>
        \A j \in DOMAIN rows :
            j < Current(w) /\ View(w)[j].status \in BLOCKING_PREDECESSOR_STATUSES =>
                Reconciliation(EvidenceOf(Current(w))) /\ Reconciliation(EvidenceOf(j))

Undisturbed(w) ==
    /\ wk[w].pc = "assemble" => Reconciliation(EvidenceOf(Current(w)))
    /\ wk[w].pc = "write" /\ ~ Reconciliation(EvidenceOf(Current(w))) =>
           deal.stage = wk[w].live \/ mover = "manager"

AloneInv == \A w \in Workers : Alone(w) /\ Undisturbed(w)

------------------------------------------------------------------------------
(* Sequences as functions, drafts, and the oldest row of a batch.            *)
LEMMA SeqShape ==
    ASSUME NEW S, NEW s \in Seq(S)
    PROVE  Len(s) \in Nat /\ DOMAIN s = 1..Len(s) /\ s \in [DOMAIN s -> S]
OBVIOUS

LEMMA SeqAgain ==
    ASSUME NEW S, NEW s \in Seq(S), NEW t \in [DOMAIN s -> S]
    PROVE  t \in Seq(S) /\ DOMAIN t = DOMAIN s
OBVIOUS

LEMMA FunctionIsSeq ==
    ASSUME NEW S, NEW n \in Nat, NEW t \in [1..n -> S]
    PROVE  t \in Seq(S) /\ Len(t) = n
OBVIOUS

LEMMA AppendShape ==
    ASSUME NEW S, NEW s \in Seq(S), NEW x \in S
    PROVE  /\ Append(s, x)[Len(s) + 1] = x
           /\ \A i \in 1..Len(s) : Append(s, x)[i] = s[i]
OBVIOUS

LEMMA DraftShape ==
    \A d : d \in Drafts <=> DOMAIN d \in SUBSET Nat /\ d \in [DOMAIN d -> Row]
BY DEF Drafts

LEMMA Oldest ==
    ASSUME NEW S \in SUBSET Nat, S # {}
    PROVE  \E i \in S : \A j \in S : i <= j
<1>1. \E i \in S : \A j \in S : ~ (<<j, i>> \in OpToRel(<, Nat))
    BY NatLessThanWellFounded, WFMin, Zenon
<1>2. PICK i \in S : \A j \in S : ~ (<<j, i>> \in OpToRel(<, Nat))
    BY <1>1
<1>3. \A j \in S : ~ (j < i)
    BY <1>2 DEF OpToRel
<1> QED BY <1>3

LEMMA CurrentIsOldest ==
    ASSUME HoldsInv, NEW w \in Workers, wk[w].todo # {}
    PROVE  /\ Current(w) \in wk[w].todo
           /\ \A j \in wk[w].todo : Current(w) <= j
<1>1. wk[w].todo \in SUBSET Nat
    BY DEF HoldsInv, StageType, Worker
<1>2. \E i \in wk[w].todo : \A j \in wk[w].todo : i <= j
    BY <1>1, Oldest
<1> QED BY <1>2 DEF Current

LEMMA InitHolds == Init => HoldsInv
<1> SUFFICES ASSUME Init PROVE HoldsInv
    OBVIOUS
<1>1. Idle \in Worker
    <2>1. <<>> \in Drafts
        <3>1. PICK d : d = <<>>
            OBVIOUS
        <3>2. d \in Seq(Row)
            BY <3>1
        <3>3. DOMAIN d \in SUBSET Nat /\ d \in [DOMAIN d -> Row]
            BY <3>2, SeqShape
        <3> QED BY <3>1, <3>3, DraftShape
    <2> QED BY <2>1 DEF Idle, Worker, PCs
<1>2. StageType
    <2>1. rows = <<>> /\ events = <<>> /\ comments = <<>>
        BY DEF Init
    <2>2. PICK s \in FirstStages :
              /\ deal = [stage |-> s, bound |-> TRUE, assembled |-> FALSE]
              /\ case = [event |-> 0, stage |-> s]
              /\ been = {s}
        BY DEF Init
    <2>3. s \in Stages
        BY StageAssumption
    <2> QED BY <1>1, <2>1, <2>2, <2>3 DEF Init, StageType
<1>3. \A w \in Workers : Holds(w) /\ WantsIts(w)
    BY DEF Init, Idle, Holds, WantsIts, Active
<1> QED BY <1>2, <1>3 DEF HoldsInv

------------------------------------------------------------------------------
(* What a worker does with its batch.                                        *)

(* The row a worker is at, as it stands in the queue and in the draft.       *)
LEMMA CurrentRow ==
    ASSUME HoldsInv, NEW w \in Workers, wk[w].todo # {}
    PROVE  /\ Current(w) \in wk[w].todo /\ Current(w) \in DOMAIN wk[w].draft
           /\ Current(w) \in DOMAIN rows /\ Current(w) \in Nat
           /\ \A j \in wk[w].todo : Current(w) <= j
           /\ rows[Current(w)] \in Row
           /\ rows[Current(w)].status \in {"pending", "retry"}
           /\ wk[w].draft[Current(w)] = rows[Current(w)]
           /\ View(w)[Current(w)] = rows[Current(w)]
           /\ EvidenceOf(Current(w)) \in Evidence
           /\ EvidenceOf(Current(w)).target \in Stages
           /\ EvidenceOf(Current(w)).kind \in Kinds
<1>1. PICK i : i = Current(w)
    OBVIOUS
<1>2. i \in wk[w].todo /\ \A j \in wk[w].todo : i <= j
    BY <1>1, CurrentIsOldest
<1>3. i \in DOMAIN wk[w].draft /\ i \in DOMAIN rows
      /\ rows[i].status \in {"pending", "retry"} /\ wk[w].draft[i] = rows[i]
    BY <1>2 DEF HoldsInv, Holds
<1>4. rows \in Seq(Row) /\ events \in Seq(Evidence)
    BY DEF HoldsInv, StageType
<1>5. rows[i] \in Row /\ i \in Nat
    BY <1>3, <1>4, SeqShape
<1>6. View(w)[i] = rows[i]
    BY <1>3 DEF View
<1>7. rows[i].event \in DOMAIN events /\ EvidenceOf(i).target \in Stages
    BY <1>3 DEF HoldsInv, StageType
<1>8. EvidenceOf(i) \in Evidence
    BY <1>4, <1>7, SeqShape DEF EvidenceOf
<1>9. EvidenceOf(i).kind \in Kinds
    BY <1>8, StageAssumption DEF EvidenceType
<1> QED BY <1>1, <1>2, <1>3, <1>5, <1>6, <1>7, <1>8, <1>9

(* A worker's step: its rows stay its own, and the rows still to do stay as  *)
(* they were taken.                                                          *)
Works(w, worker) ==
    /\ worker \in Worker /\ wk' = [wk EXCEPT ![w] = worker]
    /\ worker.todo \subseteq wk[w].todo
    /\ DOMAIN wk[w].draft \subseteq DOMAIN worker.draft
    /\ DOMAIN worker.draft \subseteq DOMAIN rows
    /\ \A j \in DOMAIN worker.draft : worker.draft[j].event = rows[j].event
    /\ \A j \in DOMAIN worker.draft \ DOMAIN wk[w].draft :
           /\ rows[j].status \in BLOCKING_PREDECESSOR_STATUSES
           /\ \A v \in Workers : v # w => j \notin DOMAIN wk[v].draft
    /\ \A j \in worker.todo : worker.draft[j] = wk[w].draft[j]

(* It is done with a row, which it leaves as row.                            *)
Finishes(w, worker, row) ==
    /\ Works(w, worker) /\ worker.pc = "check"
    /\ DOMAIN worker.draft = DOMAIN wk[w].draft
    /\ \A j \in DOMAIN wk[w].draft :
           worker.draft[j] = IF j = Current(w) THEN row ELSE wk[w].draft[j]

(* It goes on with the row.                                                  *)
Moves(w, worker) ==
    /\ Works(w, worker) /\ worker.pc \in Active
    /\ worker.todo = wk[w].todo /\ worker.draft = wk[w].draft

LEMMA DoneFacts ==
    ASSUME HoldsInv, NEW w \in Workers, wk[w].todo # {}, NEW base \in Worker,
           base.todo = wk[w].todo, DOMAIN wk[w].draft \subseteq DOMAIN base.draft,
           NEW row \in Row, Done(w, base, row)
    PROVE  \E worker \in Worker :
               /\ wk' = [wk EXCEPT ![w] = worker]
               /\ worker.pc = "check" /\ worker.todo = wk[w].todo \ {Current(w)}
               /\ DOMAIN worker.draft = DOMAIN base.draft
               /\ \A j \in DOMAIN base.draft :
                      worker.draft[j] = IF j = Current(w) THEN row ELSE base.draft[j]
<1>1. PICK i : i = Current(w)
    OBVIOUS
<1>2. i \in wk[w].todo /\ i \in DOMAIN base.draft
    BY <1>1, CurrentRow
<1>3. PICK draft : draft = [base.draft EXCEPT ![i] = row]
    OBVIOUS
<1>4. PICK worker : worker = [base EXCEPT !.pc = "check", !.todo = base.todo \ {i},
                                          !.live = None, !.want = None, !.draft = draft]
    OBVIOUS
<1>5. wk' = [wk EXCEPT ![w] = worker]
    BY <1>1, <1>3, <1>4 DEF Done
<1>6. base.draft \in [DOMAIN base.draft -> Row] /\ DOMAIN base.draft \in SUBSET Nat
    BY DraftShape DEF Worker
<1>7. /\ draft \in [DOMAIN base.draft -> Row]
      /\ \A j \in DOMAIN base.draft : draft[j] = IF j = i THEN row ELSE base.draft[j]
    BY <1>3, <1>6
<1>8. draft \in Drafts
    BY <1>6, <1>7, DraftShape
<1>9. worker \in Worker /\ worker.pc = "check" /\ worker.todo = base.todo \ {i}
      /\ worker.draft = draft
    BY <1>4, <1>8 DEF Worker, PCs
<1> QED BY <1>1, <1>5, <1>7, <1>9

LEMMA FinishFacts ==
    ASSUME HoldsInv, NEW w \in Workers, wk[w].todo # {}, NEW base \in Worker,
           base.todo = wk[w].todo, base.draft = wk[w].draft,
           NEW row \in Row, row.event = rows[Current(w)].event, Done(w, base, row)
    PROVE  \E worker : Finishes(w, worker, row)
<1>1. PICK worker \in Worker :
          /\ wk' = [wk EXCEPT ![w] = worker]
          /\ worker.pc = "check" /\ worker.todo = wk[w].todo \ {Current(w)}
          /\ DOMAIN worker.draft = DOMAIN base.draft
          /\ \A j \in DOMAIN base.draft :
                 worker.draft[j] = IF j = Current(w) THEN row ELSE base.draft[j]
    BY DoneFacts
<1>2. Holds(w)
    BY DEF HoldsInv
<1>3. PICK i : i = Current(w)
    OBVIOUS
<1>4. i \in DOMAIN wk[w].draft
    BY <1>3, CurrentRow
<1>5. DOMAIN worker.draft = DOMAIN wk[w].draft
      /\ \A j \in DOMAIN wk[w].draft :
             worker.draft[j] = IF j = i THEN row ELSE wk[w].draft[j]
    BY <1>1, <1>3
<1>6. \A j \in DOMAIN worker.draft : worker.draft[j].event = rows[j].event
    BY <1>2, <1>3, <1>5 DEF Holds
<1>7. worker.todo \subseteq wk[w].todo /\ \A j \in worker.todo : worker.draft[j] = wk[w].draft[j]
    BY <1>1, <1>2, <1>3, <1>5 DEF Holds
<1>8. Works(w, worker)
    BY <1>1, <1>2, <1>5, <1>6, <1>7 DEF Works, Holds
<1>9. Finishes(w, worker, row)
    BY <1>1, <1>3, <1>5, <1>8 DEF Finishes
<1> QED BY <1>9

(* The rows that a worker leaves settled or to be retried.                   *)
LEMMA SettledFacts ==
    ASSUME HoldsInv, NEW w \in Workers, wk[w].todo # {},
           NEW status \in RowStatuses, NEW why \in Reasons
    PROVE  /\ Settled(w, status, why) \in Row /\ Retried(w) \in Row
           /\ Settled(w, status, why).event = rows[Current(w)].event
           /\ Settled(w, status, why).status = status
           /\ Settled(w, status, why).why = why
           /\ Retried(w).event = rows[Current(w)].event
           /\ Retried(w).status = "retry"
<1>1. PICK row : row = rows[Current(w)]
    OBVIOUS
<1>2. row \in Row /\ View(w)[Current(w)] = row
    BY <1>1, CurrentRow
<1> QED BY <1>1, <1>2 DEF Settled, Retried, Row, RowStatuses, BLOCKING_PREDECESSOR_STATUSES

LEMMA RetryFacts ==
    ASSUME HoldsInv, NEW w \in Workers, wk[w].todo # {}, Done(w, wk[w], Retried(w))
    PROVE  \E worker : Finishes(w, worker, Retried(w))
<1>1. wk[w] \in Worker
    BY DEF HoldsInv, StageType
<1>2. "retry" \in RowStatuses /\ None \in Reasons
    BY DEF RowStatuses, Reasons, BLOCKING_PREDECESSOR_STATUSES
<1> QED BY <1>1, <1>2, SettledFacts, FinishFacts

(* How a row stands for a worker with this draft.                            *)
Seen(worker, j) == IF j \in DOMAIN worker.draft THEN worker.draft[j] ELSE rows[j]

LEMMA SeenIsView ==
    ASSUME NEW w, NEW j \in DOMAIN rows
    PROVE  View(w)[j] = Seen(wk[w], j)
BY DEF View, Seen

LEMMA RowTypes ==
    ASSUME HoldsInv, NEW w \in Workers
    PROVE  /\ \A j \in DOMAIN rows : j \in Nat /\ rows[j] \in Row /\ View(w)[j] \in Row
                                     /\ View(w)[j].event = rows[j].event
           /\ \A j \in DOMAIN wk[w].draft : wk[w].draft[j] \in Row
           /\ DOMAIN rows = 1..Len(rows) /\ Len(rows) \in Nat
<1>1. rows \in Seq(Row) /\ wk[w].draft \in Drafts
    BY DEF HoldsInv, StageType, Worker
<1>2. /\ \A j \in DOMAIN rows : j \in Nat /\ rows[j] \in Row
      /\ DOMAIN rows = 1..Len(rows) /\ Len(rows) \in Nat
    BY <1>1, SeqShape
<1>3. \A j \in DOMAIN wk[w].draft : wk[w].draft[j] \in Row
    BY <1>1, DraftShape
<1>4. Holds(w)
    BY DEF HoldsInv
<1> QED BY <1>2, <1>3, <1>4 DEF View, Holds

(* Before it takes up a row a worker looks for rows it supersedes, for rows  *)
(* it has to wait for, and for newer evidence.                               *)
LEMMA CheckFacts ==
    ASSUME HoldsInv, NEW w \in Workers, Check(w)
    PROVE  /\ UNCHANGED <<events, case, rows, deal, comments, been, mover>>
           /\ \E worker :
                /\ Works(w, worker) /\ worker.pc \in {"check", "read"}
                /\ \A j \in DOMAIN worker.draft :
                      \/ j \in DOMAIN wk[w].draft /\ worker.draft[j] = wk[w].draft[j]
                      \/ worker.draft[j].status = "applied"
                         /\ worker.draft[j].why = "newer_evidence"
                /\ worker.pc = "read" =>
                     /\ worker.todo = wk[w].todo
                     /\ \A j \in DOMAIN rows :
                          j < Current(w)
                          /\ Seen(worker, j).status \in BLOCKING_PREDECESSOR_STATUSES =>
                            Reconciliation(EvidenceOf(Current(w)))
                            /\ Reconciliation(EvidenceOf(j))
<1> DEFINE draft == [j \in DOMAIN wk[w].draft \cup Superseding(w) |->
                        IF j \in Superseding(w)
                        THEN [View(w)[j] EXCEPT !.status = "applied", !.why = "newer_evidence"]
                        ELSE wk[w].draft[j]]
           base == [wk[w] EXCEPT !.latest = LatestFor(w), !.draft = draft]
           i == Current(w)
<1>1. /\ wk[w].todo # {} /\ wk[w].pc = "check" /\ HoldsUp(w) = {}
      /\ CASE BlockingPredecessors(w) # {} -> Done(w, base, View(w)[i])
           [] BlockingPredecessors(w) = {} /\ LatestFor(w) # rows[i].event
              /\ EvidenceOf(i).kind # "logistics" ->
                Done(w, base, Settled(w, "applied", "newer_evidence"))
           [] OTHER -> wk' = [wk EXCEPT ![w] = [base EXCEPT !.pc = "read"]]
      /\ UNCHANGED <<events, case, rows, deal, comments, been, mover>>
    BY DEF Check
<1>2. \A j \in Superseding(w) :
          /\ j \in 1..(i - 1) /\ j < i /\ j \in DOMAIN rows
          /\ View(w)[j].status \in BLOCKING_PREDECESSOR_STATUSES
    <2>1. i \in DOMAIN rows /\ DOMAIN rows = 1..Len(rows) /\ Len(rows) \in Nat
        BY <1>1, CurrentRow, RowTypes
    <2>2. \A j \in 1..(i - 1) : j < i /\ j \in DOMAIN rows
        BY <2>1
    <2> HIDE DEF i
    <2>3. \A j \in Superseding(w) :
              j \in 1..(i - 1) /\ View(w)[j].status \in BLOCKING_PREDECESSOR_STATUSES
        BY DEF Superseding, i
    <2> QED BY <2>2, <2>3
<1>3. /\ DOMAIN draft = DOMAIN wk[w].draft \cup Superseding(w)
      /\ \A j \in DOMAIN draft :
            /\ draft[j] \in Row /\ draft[j].event = rows[j].event
            /\ j \in Superseding(w) => draft[j].status = "applied"
                                       /\ draft[j].why = "newer_evidence"
            /\ j \notin Superseding(w) => draft[j] = wk[w].draft[j]
    <2>1. \A j \in Superseding(w) :
              LET r == [View(w)[j] EXCEPT !.status = "applied", !.why = "newer_evidence"]
              IN r \in Row /\ r.event = rows[j].event /\ r.status = "applied"
                 /\ r.why = "newer_evidence"
        <3> SUFFICES ASSUME NEW j \in Superseding(w)
                     PROVE  LET r == [View(w)[j] EXCEPT !.status = "applied",
                                                        !.why = "newer_evidence"]
                            IN r \in Row /\ r.event = rows[j].event /\ r.status = "applied"
                               /\ r.why = "newer_evidence"
            OBVIOUS
        <3>1. PICK row : row = View(w)[j]
            OBVIOUS
        <3>2. row \in Row /\ row.event = rows[j].event
            BY <1>2, <3>1, RowTypes
        <3> QED BY <3>1, <3>2 DEF Row, RowStatuses, Reasons
    <2>2. \A j \in DOMAIN wk[w].draft :
              wk[w].draft[j] \in Row /\ wk[w].draft[j].event = rows[j].event
        BY RowTypes DEF HoldsInv, Holds
    <2> QED BY <2>1, <2>2
<1>4. DOMAIN draft \subseteq DOMAIN rows /\ DOMAIN draft \in SUBSET Nat
    BY <1>2, <1>3, RowTypes DEF HoldsInv, Holds
<1>5. draft \in Drafts
    <2>1. PICK d : d = draft
        OBVIOUS
    <2>2. DOMAIN d \in SUBSET Nat /\ \A j \in DOMAIN d : d[j] \in Row
        BY <1>3, <1>4, <2>1
    <2>3. d = [j \in DOMAIN d |-> d[j]]
        BY <2>1
    <2> QED BY <2>1, <2>2, <2>3, DraftShape
<1> HIDE DEF draft, i
<1>6. LatestFor(w) \in Nat \cup {None}
    BY DEF LatestFor, HoldsInv, StageType, Worker
<1>7. /\ base \in Worker /\ base.draft = draft /\ base.todo = wk[w].todo
      /\ base.pc = wk[w].pc
    <2>1. PICK worker : worker = wk[w]
        OBVIOUS
    <2>2. worker \in Worker
        BY <2>1 DEF HoldsInv, StageType
    <2> QED BY <1>5, <1>6, <2>1, <2>2 DEF Worker
<1> HIDE DEF base
<1>8. \A j \in wk[w].todo : j \in DOMAIN wk[w].draft /\ j \notin Superseding(w) /\ j \in Nat
                            /\ i <= j
    <2>1. \A j \in wk[w].todo : i <= j /\ i \in Nat /\ j \in Nat
        BY <1>1, CurrentRow DEF i, HoldsInv, StageType, Worker
    <2> QED BY <1>2, <2>1 DEF HoldsInv, Holds
<1>9. \A j \in Superseding(w) : j \notin DOMAIN wk[w].draft =>
          /\ rows[j].status \in BLOCKING_PREDECESSOR_STATUSES
          /\ \A v \in Workers : v # w => j \notin DOMAIN wk[v].draft
    BY <1>1, <1>2 DEF HoldsUp, View
<1>10. i \in wk[w].todo /\ rows[i] \in Row /\ View(w)[i] = rows[i] /\ wk[w].draft[i] = rows[i]
    BY <1>1, CurrentRow DEF i
<1>11. ASSUME NEW row \in Row, Done(w, base, row), row.event = rows[i].event,
              row = wk[w].draft[i] \/ (row.status = "applied" /\ row.why = "newer_evidence")
       PROVE  \E worker :
                /\ Works(w, worker) /\ worker.pc = "check"
                /\ \A j \in DOMAIN worker.draft :
                      \/ j \in DOMAIN wk[w].draft /\ worker.draft[j] = wk[w].draft[j]
                      \/ worker.draft[j].status = "applied"
                         /\ worker.draft[j].why = "newer_evidence"
    <2>1. PICK worker \in Worker :
               /\ wk' = [wk EXCEPT ![w] = worker]
               /\ worker.pc = "check" /\ worker.todo = wk[w].todo \ {i}
               /\ DOMAIN worker.draft = DOMAIN base.draft
               /\ \A j \in DOMAIN base.draft :
                      worker.draft[j] = IF j = i THEN row ELSE base.draft[j]
        BY <1>1, <1>3, <1>7, <1>11, DoneFacts DEF i
    <2>2. \A j \in DOMAIN worker.draft :
              /\ worker.draft[j].event = rows[j].event
              /\ \/ j \in DOMAIN wk[w].draft /\ worker.draft[j] = wk[w].draft[j]
                 \/ worker.draft[j].status = "applied"
                    /\ worker.draft[j].why = "newer_evidence"
        BY <1>3, <1>7, <1>8, <1>10, <1>11, <2>1
    <2>3. \A j \in worker.todo : worker.draft[j] = wk[w].draft[j]
        BY <1>3, <1>7, <1>8, <2>1
    <2>4. Works(w, worker)
        BY <1>3, <1>4, <1>7, <1>9, <2>1, <2>2, <2>3 DEF Works
    <2> QED BY <2>1, <2>2, <2>4
<1>12. CASE BlockingPredecessors(w) # {}
    <2>0. PICK row : row = rows[i]
        OBVIOUS
    <2>1. Done(w, base, row)
        BY <1>1, <1>10, <1>12, <2>0 DEF i
    <2>11. row \in Row /\ row.event = rows[i].event /\ row = wk[w].draft[i]
        BY <1>10, <2>0
    <2>2. \E worker :
                /\ Works(w, worker) /\ worker.pc = "check"
                /\ \A j \in DOMAIN worker.draft :
                      \/ j \in DOMAIN wk[w].draft /\ worker.draft[j] = wk[w].draft[j]
                      \/ worker.draft[j].status = "applied"
                         /\ worker.draft[j].why = "newer_evidence"
        BY <1>11, <2>1, <2>11
    <2> QED BY <1>1, <2>2
<1>13. CASE BlockingPredecessors(w) = {} /\ LatestFor(w) # rows[i].event
            /\ EvidenceOf(i).kind # "logistics"
    <2>1. Done(w, base, Settled(w, "applied", "newer_evidence"))
        BY <1>1, <1>13 DEF i
    <2>2. /\ Settled(w, "applied", "newer_evidence") \in Row
          /\ Settled(w, "applied", "newer_evidence").event = rows[i].event
          /\ Settled(w, "applied", "newer_evidence").status = "applied"
          /\ Settled(w, "applied", "newer_evidence").why = "newer_evidence"
        BY <1>1, SettledFacts DEF i, RowStatuses, Reasons
    <2>3. \E worker :
                /\ Works(w, worker) /\ worker.pc = "check"
                /\ \A j \in DOMAIN worker.draft :
                      \/ j \in DOMAIN wk[w].draft /\ worker.draft[j] = wk[w].draft[j]
                      \/ worker.draft[j].status = "applied"
                         /\ worker.draft[j].why = "newer_evidence"
        BY <1>11, <2>1, <2>2
    <2> QED BY <1>1, <2>3
<1>14. CASE BlockingPredecessors(w) = {} /\ ~(LatestFor(w) # rows[i].event
            /\ EvidenceOf(i).kind # "logistics")
    <2>1. PICK worker : worker = [base EXCEPT !.pc = "read"]
        OBVIOUS
    <2>2. wk' = [wk EXCEPT ![w] = worker]
        BY <1>1, <1>14, <2>1 DEF i
    <2>3. /\ worker \in Worker /\ worker.pc = "read" /\ worker.draft = draft
          /\ worker.todo = wk[w].todo
        BY <1>7, <2>1 DEF Worker, PCs
    <2>4. Works(w, worker)
        <3>1. \A j \in DOMAIN worker.draft : worker.draft[j].event = rows[j].event
            BY <1>3, <2>3
        <3>2. \A j \in worker.todo : worker.draft[j] = wk[w].draft[j]
            BY <1>3, <1>8, <2>3
        <3>3. \A j \in DOMAIN worker.draft \ DOMAIN wk[w].draft :
                  /\ rows[j].status \in BLOCKING_PREDECESSOR_STATUSES
                  /\ \A v \in Workers : v # w => j \notin DOMAIN wk[v].draft
            BY <1>3, <1>9, <2>3
        <3>4. DOMAIN wk[w].draft \subseteq DOMAIN worker.draft
              /\ DOMAIN worker.draft \subseteq DOMAIN rows
            BY <1>3, <1>4, <2>3
        <3> QED BY <2>2, <2>3, <3>1, <3>2, <3>3, <3>4 DEF Works
    <2>5. ASSUME NEW j \in DOMAIN rows, j < i,
                 Seen(worker, j).status \in BLOCKING_PREDECESSOR_STATUSES
          PROVE  Reconciliation(EvidenceOf(i)) /\ Reconciliation(EvidenceOf(j))
        <3>1. j \in 1..(i - 1)
            BY <1>1, <2>5, RowTypes, CurrentRow DEF i
        <3>2. j \notin Superseding(w)
            BY <1>3, <2>3, <2>5 DEF Seen, BLOCKING_PREDECESSOR_STATUSES
        <3>3. View(w)[j] = Seen(worker, j)
            BY <1>3, <2>3, <3>2 DEF View, Seen
        <3> QED BY <1>14, <2>5, <3>1, <3>2, <3>3 DEF BlockingPredecessors, i
    <2>6. \A j \in DOMAIN worker.draft :
              \/ j \in DOMAIN wk[w].draft /\ worker.draft[j] = wk[w].draft[j]
              \/ worker.draft[j].status = "applied" /\ worker.draft[j].why = "newer_evidence"
        BY <1>3, <2>3
    <2>7. PICK k : k = Current(w)
        OBVIOUS
    <2> QED BY <1>1, <2>3, <2>4, <2>5, <2>6 DEF i
<1> QED BY <1>12, <1>13, <1>14

(* A worker that goes on with its row.                                       *)
GoesTo(w, pc, live, want) ==
    wk' = [wk EXCEPT ![w].pc = pc, ![w].live = live, ![w].want = want]

LEMMA MoveFacts ==
    ASSUME HoldsInv, NEW w \in Workers, wk[w].todo # {}, NEW pc \in Active,
           NEW live \in Stages \cup {None}, NEW want \in Stages \cup {None},
           GoesTo(w, pc, live, want)
    PROVE  \E worker : /\ Moves(w, worker)
                       /\ worker.pc = pc /\ worker.live = live /\ worker.want = want
<1>1. PICK old : old = wk[w]
    OBVIOUS
<1>2. PICK worker : worker = [old EXCEPT !.pc = pc, !.live = live, !.want = want]
    OBVIOUS
<1>3. old \in Worker /\ Holds(w)
    BY <1>1 DEF HoldsInv, StageType
<1>4. /\ worker \in Worker /\ worker.pc = pc /\ worker.live = live /\ worker.want = want
      /\ worker.todo = wk[w].todo /\ worker.draft = wk[w].draft
    BY <1>1, <1>2, <1>3 DEF Worker, PCs, Active
<1>5. wk' = [wk EXCEPT ![w] = worker]
    BY <1>1, <1>2 DEF GoesTo
<1>6. Works(w, worker)
    BY <1>3, <1>4, <1>5 DEF Works, Holds
<1>7. Moves(w, worker)
    BY <1>4, <1>6 DEF Moves
<1> QED BY <1>4, <1>7

(* A row that claims nothing about the deal: what happens to be in manual    *)
(* review of another kind, too.                                              *)
ClaimsNothing(row, e) ==
    /\ ~ (row.status = "applied" /\ row.why = None)
    /\ row.status = "manual_review" /\ row.why = "conflict" =>
           e.kind \notin {"logistics", "shipment"}

(* What a look at the deal leads to.                                         *)
Decided(w, worker) ==
    LET e == EvidenceOf(Current(w))
    IN  \/ \E row : Finishes(w, worker, row) /\ ClaimsNothing(row, e)
        \/ /\ Moves(w, worker) /\ worker.pc \in {"comment", "assemble", "write"}
           /\ worker.live = deal.stage /\ worker.want \in {e.target, "DELIVERY_REVIEW"}
           /\ worker.pc = "comment" => worker.want = deal.stage
           /\ worker.pc = "assemble" => Reconciliation(e)

LEMMA ReadFacts ==
    ASSUME HoldsInv, NEW w \in Workers, Read(w)
    PROVE  /\ wk[w].pc = "read"
           /\ UNCHANGED <<events, case, rows, deal, comments, been, mover>>
           /\ \E worker : Decided(w, worker)
<1>1. /\ wk[w].pc = "read" /\ (Decide(w) \/ Done(w, wk[w], Retried(w)))
      /\ UNCHANGED <<events, case, rows, deal, comments, been, mover>>
    BY DEF Read, _mark_retry
<1>2. wk[w].todo # {}
    BY <1>1 DEF HoldsInv, Holds, Active
<1>3. PICK e, live : e = EvidenceOf(Current(w)) /\ live = deal.stage
    OBVIOUS
<1>4. /\ live \in Stages /\ "DELIVERY_REVIEW" \in Stages
      /\ e.target \in Stages /\ e.kind \in Kinds
    BY <1>2, <1>3, CurrentRow DEF HoldsInv, StageType, Stages
<1>5. ASSUME NEW row, ClaimsNothing(row, e), \E worker : Finishes(w, worker, row)
      PROVE  \E worker : Decided(w, worker)
    BY <1>3, <1>5 DEF Decided
<1>6. CASE Done(w, wk[w], Retried(w))
    <2>1. \E worker : Finishes(w, worker, Retried(w))
        BY <1>2, <1>6, RetryFacts
    <2>2. Retried(w).status = "retry"
        BY <1>2, SettledFacts DEF RowStatuses, Reasons
    <2> QED BY <1>1, <1>5, <2>1, <2>2 DEF ClaimsNothing
<1>7. ASSUME NEW status \in RowStatuses, NEW why \in Reasons,
             NEW row, row = Settled(w, status, why), Done(w, wk[w], row),
             ~ (status = "applied" /\ why = None),
             status = "manual_review" /\ why = "conflict" =>
                 e.kind \notin {"logistics", "shipment"}
      PROVE  \E worker : Decided(w, worker)
    <2>1. row \in Row /\ row.event = rows[Current(w)].event
          /\ row.status = status /\ row.why = why
        BY <1>2, <1>7, SettledFacts
    <2>2. wk[w] \in Worker
        BY DEF HoldsInv, StageType
    <2>3. \E worker : Finishes(w, worker, row)
        BY <1>2, <1>7, <2>1, <2>2, FinishFacts
    <2> QED BY <1>5, <1>7, <2>1, <2>3 DEF ClaimsNothing
<1>8. ASSUME NEW pc \in {"comment", "assemble", "write"},
             NEW want \in {e.target, "DELIVERY_REVIEW"}, GoesTo(w, pc, live, want),
             pc = "comment" => want = live, pc = "assemble" => Reconciliation(e)
      PROVE  \E worker : Decided(w, worker)
    <2>1. pc \in Active /\ live \in Stages \cup {None} /\ want \in Stages \cup {None}
        BY <1>4 DEF Active
    <2>2. PICK worker : /\ Moves(w, worker)
                        /\ worker.pc = pc /\ worker.live = live /\ worker.want = want
        BY <1>2, <1>8, <2>1, MoveFacts
    <2>3. Decided(w, worker)
        BY <1>3, <1>8, <2>2 DEF Decided
    <2> QED BY <2>3
<1>9. {"manual_review", "terminal", "applied"} \subseteq RowStatuses
      /\ {None, "binding", "conflict", "later_stage"} \subseteq Reasons
    BY DEF RowStatuses, Reasons, BLOCKING_PREDECESSOR_STATUSES
<1> SUFFICES \E worker : Decided(w, worker)
    BY <1>1
<1>10. CASE Decide(w)
    <2>1. CASE ~ deal.bound
        BY <1>7, <1>9, <1>10, <2>1 DEF Decide
    <2>2. CASE deal.bound /\ live \in TERMINAL_CRM_STAGES
        BY <1>3, <1>7, <1>9, <1>10, <2>2 DEF Decide
    <2>3. CASE deal.bound /\ live \notin TERMINAL_CRM_STAGES
               /\ live \in expected_stages(e) \cup {e.target}
        <3>1. PICK pc : pc = CASE live = e.target -> "comment"
                               [] live # e.target /\ e.target = "FINAL_INVOICE"
                                  /\ Reconciliation(e) -> "assemble"
                               [] OTHER -> "write"
            OBVIOUS
        <3>2. GoesTo(w, pc, live, e.target)
            BY <1>3, <1>10, <2>3, <3>1 DEF Decide, GoesTo
        <3>3. /\ pc \in {"comment", "assemble", "write"}
              /\ pc = "comment" => e.target = live
              /\ pc = "assemble" => Reconciliation(e)
            BY <3>1
        <3> QED BY <1>8, <3>2, <3>3
    <2>4. CASE deal.bound /\ live \notin TERMINAL_CRM_STAGES
               /\ live \notin expected_stages(e) \cup {e.target}
        <3>1. (CASE e.kind = "signal" -> Done(w, wk[w], Settled(w, "manual_review", "conflict"))
                 [] e.kind # "signal" /\ OrderOf(live) > OrderOf(e.target) ->
                      Done(w, wk[w], Settled(w, "applied", "later_stage"))
                 [] e.kind = "execution" /\ OrderOf(live) <= OrderOf(e.target) ->
                      Done(w, wk[w], Settled(w, "manual_review", "conflict"))
                 [] OTHER -> wk' = [wk EXCEPT ![w].pc = "write", ![w].live = live,
                                              ![w].want = "DELIVERY_REVIEW"])
            BY <1>3, <1>10, <2>4 DEF Decide
        <3>2. OrderOf(live) \in Nat /\ OrderOf(e.target) \in Nat
            BY DEF OrderOf, STAGE_ORDER
        <3>3. CASE e.kind = "signal"
            <4>1. Done(w, wk[w], Settled(w, "manual_review", "conflict"))
                BY <3>1, <3>3
            <4> QED BY <1>7, <1>9, <3>3, <4>1
        <3>4. CASE e.kind # "signal" /\ OrderOf(live) > OrderOf(e.target)
            <4>1. Done(w, wk[w], Settled(w, "applied", "later_stage"))
                BY <3>1, <3>2, <3>4
            <4>2. "later_stage" # None
                BY StageNoneAssumption
            <4> QED BY <1>7, <1>9, <4>1, <4>2
        <3>5. CASE e.kind = "execution" /\ ~(OrderOf(live) > OrderOf(e.target))
            <4>1. Done(w, wk[w], Settled(w, "manual_review", "conflict"))
                BY <3>1, <3>2, <3>5
            <4> QED BY <1>7, <1>9, <3>5, <4>1
        <3>6. CASE e.kind \notin {"signal", "execution"} /\ ~(OrderOf(live) > OrderOf(e.target))
            <4>1. GoesTo(w, "write", live, "DELIVERY_REVIEW")
                BY <3>1, <3>2, <3>6 DEF GoesTo
            <4> QED BY <1>8, <4>1
        <3> QED BY <3>3, <3>4, <3>5, <3>6
    <2> QED BY <2>1, <2>2, <2>3, <2>4
<1> QED BY <1>1, <1>6, <1>10

(* The row is left to be retried.                                            *)
Retries(w, worker) == \E row : Finishes(w, worker, row) /\ row.status = "retry"

LEMMA RetriesFacts ==
    ASSUME HoldsInv, NEW w \in Workers, wk[w].todo # {}, Done(w, wk[w], Retried(w))
    PROVE  \E worker : Retries(w, worker)
<1>1. Retried(w).status = "retry"
    BY SettledFacts DEF RowStatuses, Reasons
<1>2. PICK worker : Finishes(w, worker, Retried(w))
    BY RetryFacts
<1>3. PICK row : row = Retried(w)
    OBVIOUS
<1> QED BY <1>1, <1>2, <1>3 DEF Retries

(* A step that only changes the worker's place.                              *)
Steps(w, pc) == wk' = [wk EXCEPT ![w].pc = pc]

LEMMA PlaceFacts ==
    ASSUME HoldsInv, NEW w \in Workers, wk[w].todo # {}, NEW pc \in Active, Steps(w, pc)
    PROVE  \E worker : /\ Moves(w, worker) /\ worker.pc = pc
                       /\ worker.live = wk[w].live /\ worker.want = wk[w].want
<1>1. PICK old : old = wk[w]
    OBVIOUS
<1>2. old \in Worker
    BY <1>1 DEF HoldsInv, StageType
<1>3. old.live \in Stages \cup {None} /\ old.want \in Stages \cup {None}
    BY <1>2 DEF Worker
<1>4. GoesTo(w, pc, old.live, old.want)
    <2>1. PICK live, want : live = old.live /\ want = old.want
        OBVIOUS
    <2>2. [old EXCEPT !.pc = pc] = [old EXCEPT !.pc = pc, !.live = live, !.want = want]
        BY <1>2, <2>1 DEF Worker
    <2> QED BY <1>1, <2>1, <2>2 DEF GoesTo, Steps
<1> QED BY <1>1, <1>3, <1>4, MoveFacts

LEMMA AssembleFacts ==
    ASSUME HoldsInv, NEW w \in Workers, Assemble(w)
    PROVE  /\ wk[w].pc = "assemble"
           /\ UNCHANGED <<events, case, rows, comments, been, mover>>
           /\ deal' = deal \/ deal' = [deal EXCEPT !.assembled = TRUE]
           /\ \E worker :
                \/ Retries(w, worker)
                \/ /\ Moves(w, worker) /\ worker.pc = "write"
                   /\ worker.live = wk[w].live /\ worker.want = wk[w].want
<1>1. /\ wk[w].pc = "assemble"
      /\ UNCHANGED <<events, case, rows, comments, been, mover>>
      /\ deal' = deal \/ deal' = [deal EXCEPT !.assembled = TRUE]
      /\ wk' = [wk EXCEPT ![w].pc = "write"] \/ Done(w, wk[w], Retried(w))
    BY DEF Assemble, _mark_retry
<1>2. wk[w].todo # {} /\ "write" \in Active
    BY <1>1 DEF HoldsInv, Holds, Active
<1>3. CASE wk' = [wk EXCEPT ![w].pc = "write"]
    <2>1. Steps(w, "write")
        BY <1>3 DEF Steps
    <2>2. \E worker : /\ Moves(w, worker) /\ worker.pc = "write"
                      /\ worker.live = wk[w].live /\ worker.want = wk[w].want
        BY <1>2, <2>1, PlaceFacts
    <2> QED BY <1>1, <1>3, <2>2
<1>4. CASE Done(w, wk[w], Retried(w))
    BY <1>1, <1>2, <1>4, RetriesFacts
<1> QED BY <1>1, <1>3, <1>4

LEMMA WriteFacts ==
    ASSUME HoldsInv, NEW w \in Workers, Write(w)
    PROVE  /\ wk[w].pc = "write"
           /\ UNCHANGED <<events, case, rows, comments>>
           /\ \E worker :
                \/ Retries(w, worker) /\ (SetStage(w) \/ UNCHANGED <<deal, been, mover>>)
                \/ /\ Moves(w, worker) /\ worker.pc = "readback" /\ SetStage(w)
                   /\ worker.live = wk[w].live /\ worker.want = wk[w].want
<1>1. /\ wk[w].pc = "write"
      /\ UNCHANGED <<events, case, rows, comments>>
      /\ \/ SetStage(w) /\ wk' = [wk EXCEPT ![w].pc = "readback"]
         \/ /\ SetStage(w) \/ UNCHANGED <<deal, been, mover>>
            /\ Done(w, wk[w], Retried(w))
    BY DEF Write, _mark_retry
<1>2. wk[w].todo # {} /\ "readback" \in Active
    BY <1>1 DEF HoldsInv, Holds, Active
<1>3. CASE SetStage(w) /\ wk' = [wk EXCEPT ![w].pc = "readback"]
    <2>1. Steps(w, "readback")
        BY <1>3 DEF Steps
    <2>2. \E worker : /\ Moves(w, worker) /\ worker.pc = "readback"
                      /\ worker.live = wk[w].live /\ worker.want = wk[w].want
        BY <1>2, <2>1, PlaceFacts
    <2> QED BY <1>1, <1>3, <2>2
<1>4. CASE /\ SetStage(w) \/ UNCHANGED <<deal, been, mover>>
           /\ Done(w, wk[w], Retried(w))
    BY <1>1, <1>2, <1>4, RetriesFacts
<1> QED BY <1>1, <1>3, <1>4

LEMMA ReadbackFacts ==
    ASSUME HoldsInv, NEW w \in Workers, Readback(w)
    PROVE  /\ wk[w].pc = "readback"
           /\ UNCHANGED <<events, case, rows, deal, comments, been, mover>>
           /\ \E worker :
                \/ Retries(w, worker)
                \/ /\ Moves(w, worker) /\ worker.pc = "comment"
                   /\ worker.live = wk[w].live /\ worker.want = wk[w].want
<1>1. /\ wk[w].pc = "readback"
      /\ UNCHANGED <<events, case, rows, deal, comments, been, mover>>
      /\ wk' = [wk EXCEPT ![w].pc = "comment"] \/ Done(w, wk[w], Retried(w))
    BY DEF Readback, _mark_retry
<1>2. wk[w].todo # {} /\ "comment" \in Active
    BY <1>1 DEF HoldsInv, Holds, Active
<1>3. CASE wk' = [wk EXCEPT ![w].pc = "comment"]
    <2>1. Steps(w, "comment")
        BY <1>3 DEF Steps
    <2>2. \E worker : /\ Moves(w, worker) /\ worker.pc = "comment"
                      /\ worker.live = wk[w].live /\ worker.want = wk[w].want
        BY <1>2, <2>1, PlaceFacts
    <2> QED BY <1>1, <1>3, <2>2
<1>4. CASE Done(w, wk[w], Retried(w))
    BY <1>1, <1>2, <1>4, RetriesFacts
<1> QED BY <1>1, <1>3, <1>4

(* The comment is in the timeline before the row is settled.                 *)
LEMMA CommentFacts ==
    ASSUME HoldsInv, NEW w \in Workers, Comment(w)
    PROVE  LET i == Current(w)
               conflict == wk[w].want # EvidenceOf(i).target
               marker == IF conflict THEN "review" ELSE "applied"
           IN  /\ wk[w].pc = "comment"
               /\ UNCHANGED <<events, case, rows, deal, been, mover>>
               /\ \E worker :
                    \/ Retries(w, worker) /\ (AddComment(i, marker) \/ UNCHANGED comments)
                    \/ /\ AddComment(i, marker)
                       /\ \E row :
                             /\ Finishes(w, worker, row)
                             /\ IF conflict
                                THEN row.status = "manual_review" /\ row.why = "conflict"
                                ELSE row.status = "applied" /\ row.why = None
<1> DEFINE i == Current(w)
           conflict == wk[w].want # EvidenceOf(i).target
           marker == IF conflict THEN "review" ELSE "applied"
           settled == IF conflict THEN Settled(w, "manual_review", "conflict")
                      ELSE Settled(w, "applied", None)
<1>1. /\ wk[w].pc = "comment"
      /\ UNCHANGED <<events, case, rows, deal, been, mover>>
      /\ \/ /\ AddComment(i, marker) \/ UNCHANGED comments
            /\ Done(w, wk[w], Retried(w))
         \/ AddComment(i, marker) /\ conflict
            /\ Done(w, wk[w], Settled(w, "manual_review", "conflict"))
         \/ AddComment(i, marker) /\ ~conflict
            /\ Done(w, [wk[w] EXCEPT !.crm = wk[w].want], Settled(w, "applied", None))
    BY DEF Comment, _mark_retry
<1>2. wk[w].todo # {} /\ wk[w] \in Worker
    BY <1>1 DEF HoldsInv, Holds, Active, StageType
<1>3. {"manual_review", "applied"} \subseteq RowStatuses /\ {None, "conflict"} \subseteq Reasons
    BY DEF RowStatuses, Reasons, BLOCKING_PREDECESSOR_STATUSES
<1>4. CASE /\ AddComment(i, marker) \/ UNCHANGED comments
           /\ Done(w, wk[w], Retried(w))
    <2>1. \E worker : Retries(w, worker)
        BY <1>2, <1>4, RetriesFacts
    <2> QED BY <1>1, <1>4, <2>1
<1>5. CASE AddComment(i, marker) /\ conflict
           /\ Done(w, wk[w], Settled(w, "manual_review", "conflict"))
    <2>1. PICK row : row = Settled(w, "manual_review", "conflict")
        OBVIOUS
    <2>2. /\ row \in Row /\ row.event = rows[Current(w)].event
          /\ row.status = "manual_review" /\ row.why = "conflict"
        BY <1>2, <1>3, <2>1, SettledFacts
    <2>3. \E worker : Finishes(w, worker, row)
        BY <1>2, <1>5, <2>1, <2>2, FinishFacts
    <2> QED BY <1>1, <1>5, <2>2, <2>3
<1>6. CASE AddComment(i, marker) /\ ~conflict
           /\ Done(w, [wk[w] EXCEPT !.crm = wk[w].want], Settled(w, "applied", None))
    <2>1. PICK row : row = Settled(w, "applied", None)
        OBVIOUS
    <2>2. /\ row \in Row /\ row.event = rows[Current(w)].event
          /\ row.status = "applied" /\ row.why = None
        BY <1>2, <1>3, <2>1, SettledFacts
    <2>3. PICK base : base = [wk[w] EXCEPT !.crm = wk[w].want]
        OBVIOUS
    <2>4. base \in Worker /\ base.todo = wk[w].todo /\ base.draft = wk[w].draft
        BY <1>2, <2>3 DEF Worker
    <2>5. \E worker : Finishes(w, worker, row)
        BY <1>2, <1>6, <2>1, <2>2, <2>3, <2>4, FinishFacts
    <2> QED BY <1>1, <1>6, <2>2, <2>5
<1> QED BY <1>1, <1>4, <1>5, <1>6

------------------------------------------------------------------------------
(* The rows of the workers stay their own, open and as they were taken.      *)
LEMMA SameCurrent ==
    ASSUME NEW w, wk'[w].todo = wk[w].todo
    PROVE  Current(w)' = Current(w)
BY DEF Current

LEMMA SameEvidence ==
    ASSUME UNCHANGED <<events, rows>>, NEW i
    PROVE  EvidenceOf(i)' = EvidenceOf(i)
BY DEF EvidenceOf

LEMMA WorksHolds ==
    ASSUME HoldsInv, NEW w \in Workers, NEW worker, Works(w, worker), UNCHANGED rows,
           worker.pc \in Active => worker.todo # {}
    PROVE  wk' \in [Workers -> Worker] /\ \A v \in Workers : Holds(v)'
<1>1. wk \in [Workers -> Worker] /\ \A v \in Workers : Holds(v)
    BY DEF HoldsInv, StageType
<1>2. /\ wk' \in [Workers -> Worker] /\ wk'[w] = worker
      /\ \A v \in Workers : v # w => wk'[v] = wk[v]
    BY <1>1 DEF Works
<1>3. ASSUME NEW v \in Workers, v # w
      PROVE  /\ DOMAIN worker.draft \cap DOMAIN wk[v].draft = {}
             /\ DOMAIN wk[v].draft \cap DOMAIN worker.draft = {}
    BY <1>1, <1>3 DEF Works, Holds
<1>4. ASSUME NEW v \in Workers, v # w
      PROVE  Holds(v)'
    <2>1. wk'[v] = wk[v] /\ rows' = rows
        BY <1>2, <1>4
    <2>2. \A u \in Workers : u # v => DOMAIN wk[v].draft \cap DOMAIN wk'[u].draft = {}
        BY <1>1, <1>2, <1>3, <1>4 DEF Holds
    <2> QED BY <1>1, <2>1, <2>2 DEF Holds
<1>5. Holds(w)'
    <2>1. wk'[w] = worker /\ rows' = rows
        BY <1>2
    <2>2. \A i \in worker.todo :
              worker.draft[i] = rows[i] /\ rows[i].status \in {"pending", "retry"}
        BY <1>1 DEF Works, Holds
    <2>3. \A i \in DOMAIN worker.draft :
              /\ worker.draft[i].event = rows[i].event
              /\ rows[i].status \in BLOCKING_PREDECESSOR_STATUSES
        BY <1>1 DEF Works, Holds
    <2>4. worker.todo \subseteq DOMAIN worker.draft /\ DOMAIN worker.draft \subseteq DOMAIN rows
        BY <1>1 DEF Works, Holds
    <2>5. \A u \in Workers : u # w => DOMAIN worker.draft \cap DOMAIN wk'[u].draft = {}
        BY <1>2, <1>3
    <2> QED BY <2>1, <2>2, <2>3, <2>4, <2>5 DEF Holds
<1> QED BY <1>2, <1>4, <1>5

LEMMA CarriesHolds ==
    ASSUME HoldsInv, NEW w \in Workers, NEW worker, Works(w, worker),
           UNCHANGED <<events, case, rows>>,
           worker.pc \in Active => worker.todo # {},
           worker.pc \in {"assemble", "write", "readback", "comment"} =>
               /\ worker.todo = wk[w].todo
               /\ worker.want \in {EvidenceOf(Current(w)).target, "DELIVERY_REVIEW"},
           deal' \in [stage : Stages, bound : BOOLEAN, assembled : BOOLEAN],
           comments' \in [DOMAIN rows -> [applied : Nat, review : Nat]],
           been' \subseteq Stages, deal'.stage \in been',
           mover' \in Workers \cup {None, "manager"}
    PROVE  HoldsInv'
<1>1. wk' \in [Workers -> Worker] /\ \A v \in Workers : Holds(v)'
    BY WorksHolds
<1>2. wk \in [Workers -> Worker]
    BY DEF HoldsInv, StageType
<1>3. wk'[w] = worker /\ \A v \in Workers : v # w => wk'[v] = wk[v]
    BY <1>2 DEF Works
<1>4. StageType'
    BY <1>1, SameEvidence DEF HoldsInv, StageType
<1>5. ASSUME NEW v \in Workers
      PROVE  WantsIts(v)'
    <2>1. WantsIts(v)
        BY DEF HoldsInv
    <2>2. CASE v # w
        <3>1. wk'[v] = wk[v] /\ Current(v)' = Current(v)
            BY <1>3, <2>2, SameCurrent
        <3>2. EvidenceOf(Current(v))' = EvidenceOf(Current(v))
            BY <3>1 DEF EvidenceOf
        <3> QED BY <2>1, <3>1, <3>2 DEF WantsIts
    <2>3. CASE v = w /\ worker.pc \in {"assemble", "write", "readback", "comment"}
        <3>1. wk'[v] = worker /\ Current(v)' = Current(v)
            BY <1>3, <2>3, SameCurrent
        <3>2. EvidenceOf(Current(v))' = EvidenceOf(Current(v))
            BY <3>1 DEF EvidenceOf
        <3> QED BY <2>3, <3>1, <3>2 DEF WantsIts
    <2>4. CASE v = w /\ worker.pc \notin {"assemble", "write", "readback", "comment"}
        BY <1>3, <2>4 DEF WantsIts
    <2> QED BY <2>2, <2>3, <2>4
<1> QED BY <1>1, <1>4, <1>5 DEF HoldsInv

(* A step that leaves the deal and the comments alone.                       *)
LEMMA QuietHolds ==
    ASSUME HoldsInv, NEW w \in Workers, NEW worker, Works(w, worker),
           UNCHANGED <<events, case, rows, deal, comments, been, mover>>,
           worker.pc \in Active => worker.todo # {},
           worker.pc \in {"assemble", "write", "readback", "comment"} =>
               /\ worker.todo = wk[w].todo
               /\ worker.want \in {EvidenceOf(Current(w)).target, "DELIVERY_REVIEW"}
    PROVE  HoldsInv'
<1>1. /\ deal \in [stage : Stages, bound : BOOLEAN, assembled : BOOLEAN]
      /\ comments \in [DOMAIN rows -> [applied : Nat, review : Nat]]
      /\ been \subseteq Stages /\ deal.stage \in been
      /\ mover \in Workers \cup {None, "manager"}
    BY DEF HoldsInv, StageType
<1> QED BY <1>1, CarriesHolds

(* A comment is added if the row has none with this marker.                  *)
Markers == {"applied", "review"}

LEMMA CommentAdded ==
    ASSUME HoldsInv, NEW i \in DOMAIN rows, NEW marker \in Markers, AddComment(i, marker)
    PROVE  /\ comments' \in [DOMAIN rows -> [applied : Nat, review : Nat]]
           /\ \A j \in DOMAIN rows, m \in Markers :
                  comments'[j][m] = IF j = i /\ m = marker /\ comments[i][marker] = 0
                                    THEN 1 ELSE comments[j][m]
<1>1. comments \in [DOMAIN rows -> [applied : Nat, review : Nat]]
    BY DEF HoldsInv, StageType
<1>2. PICK c : c = comments[i]
    OBVIOUS
<1>3. c \in [applied : Nat, review : Nat]
    BY <1>1, <1>2
<1>4. c[marker] \in Nat /\ c.applied \in Nat /\ c.review \in Nat
    BY <1>3 DEF Markers
<1>5. CASE c[marker] > 0
    BY <1>1, <1>2, <1>4, <1>5 DEF AddComment, HasMarker
<1>6. CASE ~ (c[marker] > 0)
    <2>1. c[marker] = 0
        BY <1>4, <1>6
    <2>2. PICK d : d = [c EXCEPT ![marker] = 1]
        OBVIOUS
    <2>3. comments' = [comments EXCEPT ![i] = d]
        BY <1>2, <1>6, <2>1, <2>2 DEF AddComment, HasMarker
    <2>4. d \in [applied : Nat, review : Nat] /\ d[marker] = 1
          /\ \A m \in Markers : m # marker => d[m] = c[m]
        BY <1>3, <2>2 DEF Markers
    <2> QED BY <1>1, <1>2, <2>1, <2>3, <2>4
<1> QED BY <1>5, <1>6

LEMMA NotActive == "check" \notin Active /\ "idle" \notin Active
BY DEF Active

LEMMA RetriesHolds ==
    ASSUME HoldsInv, NEW w \in Workers, NEW worker, Retries(w, worker) 
    PROVE  Works(w, worker) /\ worker.pc = "check"
BY DEF Retries, Finishes

LEMMA CheckHolds ==
    ASSUME HoldsInv, NEW w \in Workers, Check(w)
    PROVE  HoldsInv'
<1>1. wk[w].todo # {} /\ UNCHANGED <<events, case, rows, deal, comments, been, mover>>
    BY DEF Check
<1>2. PICK worker : /\ Works(w, worker) /\ worker.pc \in {"check", "read"}
                    /\ worker.pc = "read" => worker.todo = wk[w].todo
    BY CheckFacts
<1> QED BY <1>1, <1>2, NotActive, QuietHolds

LEMMA ReadHolds ==
    ASSUME HoldsInv, NEW w \in Workers, Read(w)
    PROVE  HoldsInv'
<1>1. PICK worker : Decided(w, worker)
    BY ReadFacts
<1>2. UNCHANGED <<events, case, rows, deal, comments, been, mover>> /\ wk[w].pc = "read"
    BY ReadFacts
<1>3. wk[w].todo # {}
    BY <1>2 DEF HoldsInv, Holds, Active
<1>4. CASE \E row : Finishes(w, worker, row)
    BY <1>2, <1>4, NotActive, QuietHolds DEF Finishes
<1>5. CASE /\ Moves(w, worker)
           /\ worker.want \in {EvidenceOf(Current(w)).target, "DELIVERY_REVIEW"}
    BY <1>2, <1>3, <1>5, QuietHolds DEF Moves
<1> QED BY <1>1, <1>4, <1>5 DEF Decided

LEMMA AssembleHolds ==
    ASSUME HoldsInv, NEW w \in Workers, Assemble(w)
    PROVE  HoldsInv'
<1>1. /\ wk[w].pc = "assemble"
      /\ UNCHANGED <<events, case, rows, comments, been, mover>>
      /\ deal' = deal \/ deal' = [deal EXCEPT !.assembled = TRUE]
    BY AssembleFacts
<1>2. PICK worker :
          \/ Retries(w, worker)
          \/ /\ Moves(w, worker) /\ worker.pc = "write" /\ worker.want = wk[w].want
    BY AssembleFacts
<1>3. wk[w].todo # {} /\ wk[w].want \in {EvidenceOf(Current(w)).target, "DELIVERY_REVIEW"}
    BY <1>1 DEF HoldsInv, Holds, Active, WantsIts
<1>4. /\ deal' \in [stage : Stages, bound : BOOLEAN, assembled : BOOLEAN]
      /\ deal'.stage = deal.stage
      /\ comments \in [DOMAIN rows -> [applied : Nat, review : Nat]]
      /\ been \subseteq Stages /\ deal.stage \in been
      /\ mover \in Workers \cup {None, "manager"}
    BY <1>1 DEF HoldsInv, StageType
<1>5. Works(w, worker) /\ (worker.pc = "check" \/ (worker.todo = wk[w].todo
                                                  /\ worker.want = wk[w].want))
    BY <1>2, RetriesHolds DEF Moves
<1> QED BY <1>1, <1>3, <1>4, <1>5, NotActive, CarriesHolds

LEMMA WriteHolds ==
    ASSUME HoldsInv, NEW w \in Workers, Write(w)
    PROVE  HoldsInv'
<1>1. wk[w].pc = "write" /\ UNCHANGED <<events, case, rows, comments>>
    BY WriteFacts
<1>2. PICK worker :
          \/ Retries(w, worker) /\ (SetStage(w) \/ UNCHANGED <<deal, been, mover>>)
          \/ Moves(w, worker) /\ SetStage(w) /\ worker.want = wk[w].want
    BY WriteFacts
<1>3. wk[w].todo # {} /\ wk[w].want \in {EvidenceOf(Current(w)).target, "DELIVERY_REVIEW"}
    BY <1>1 DEF HoldsInv, Holds, Active, WantsIts
<1>4. wk[w].want \in Stages
    BY <1>3, CurrentRow DEF Stages
<1>5. /\ deal' \in [stage : Stages, bound : BOOLEAN, assembled : BOOLEAN]
      /\ been' \subseteq Stages /\ deal'.stage \in been'
      /\ mover' \in Workers \cup {None, "manager"}
    BY <1>2, <1>4 DEF HoldsInv, StageType, SetStage
<1>6. comments \in [DOMAIN rows -> [applied : Nat, review : Nat]]
    BY DEF HoldsInv, StageType
<1>7. Works(w, worker) /\ (worker.pc = "check" \/ (worker.todo = wk[w].todo
                                                  /\ worker.want = wk[w].want))
    BY <1>2, RetriesHolds DEF Moves
<1> QED BY <1>1, <1>3, <1>5, <1>6, <1>7, NotActive, CarriesHolds

LEMMA ReadbackHolds ==
    ASSUME HoldsInv, NEW w \in Workers, Readback(w)
    PROVE  HoldsInv'
<1>1. /\ wk[w].pc = "readback"
      /\ UNCHANGED <<events, case, rows, deal, comments, been, mover>>
    BY ReadbackFacts
<1>2. PICK worker :
          \/ Retries(w, worker)
          \/ Moves(w, worker) /\ worker.want = wk[w].want
    BY ReadbackFacts
<1>3. wk[w].todo # {} /\ wk[w].want \in {EvidenceOf(Current(w)).target, "DELIVERY_REVIEW"}
    BY <1>1 DEF HoldsInv, Holds, Active, WantsIts
<1>4. Works(w, worker) /\ (worker.pc = "check" \/ (worker.todo = wk[w].todo
                                                  /\ worker.want = wk[w].want))
    BY <1>2, RetriesHolds DEF Moves
<1> QED BY <1>1, <1>3, <1>4, NotActive, QuietHolds

LEMMA CommentHolds ==
    ASSUME HoldsInv, NEW w \in Workers, Comment(w)
    PROVE  HoldsInv'
<1>1. /\ wk[w].pc = "comment"
      /\ UNCHANGED <<events, case, rows, deal, been, mover>>
      /\ \/ UNCHANGED comments
         \/ \E marker \in Markers : AddComment(Current(w), marker)
      /\ \E worker : Works(w, worker) /\ worker.pc = "check"
    BY CommentFacts, RetriesHolds DEF Finishes, Markers
<1>2. PICK i : i = Current(w)
    OBVIOUS
<1>3. i \in DOMAIN rows
    BY <1>1, <1>2, CurrentRow DEF HoldsInv, Holds, Active
<1>4. comments' \in [DOMAIN rows -> [applied : Nat, review : Nat]]
    <2>1. CASE UNCHANGED comments
        BY <2>1 DEF HoldsInv, StageType
    <2>2. CASE \E marker \in Markers : AddComment(i, marker)
        BY <1>3, <2>2, CommentAdded
    <2> QED BY <1>1, <1>2, <2>1, <2>2
<1>5. /\ deal \in [stage : Stages, bound : BOOLEAN, assembled : BOOLEAN]
      /\ been \subseteq Stages /\ deal.stage \in been
      /\ mover \in Workers \cup {None, "manager"}
    BY DEF HoldsInv, StageType
<1> QED BY <1>1, <1>4, <1>5, NotActive, CarriesHolds

(* A worker that is not concerned by the rows that change.                   *)
LEMMA UnconcernedHolds ==
    ASSUME HoldsInv, NEW v \in Workers, wk'[v] = wk[v],
           DOMAIN rows \subseteq DOMAIN rows',
           \A j \in DOMAIN rows : EvidenceOf(j)' = EvidenceOf(j),
           \A j \in DOMAIN wk[v].draft : rows'[j] = rows[j],
           \A u \in Workers : wk'[u] = wk[u] \/ DOMAIN wk'[u].draft = {}
    PROVE  Holds(v)' /\ WantsIts(v)'
<1>1. Holds(v) /\ WantsIts(v)
    BY DEF HoldsInv
<1>2. Holds(v)'
    BY <1>1 DEF Holds
<1>3. Current(v)' = Current(v)
    BY SameCurrent
<1>4. wk[v].todo # {} => EvidenceOf(Current(v))' = EvidenceOf(Current(v))
    <2>1. PICK i : i = Current(v)
        OBVIOUS
    <2>2. wk[v].todo # {} => i \in DOMAIN rows
        BY <2>1, CurrentRow
    <2> QED BY <1>3, <2>1, <2>2 DEF EvidenceOf
<1>5. wk[v].pc \in {"assemble", "write", "readback", "comment"} => wk[v].todo # {}
    BY <1>1 DEF Holds, Active
<1> QED BY <1>1, <1>2, <1>4, <1>5 DEF WantsIts

(* A worker that takes a batch, or loses it, is not at any row.              *)
LEMMA SwapHolds ==
    ASSUME HoldsInv, NEW w \in Workers, NEW worker \in Worker,
           wk' = [wk EXCEPT ![w] = worker],
           UNCHANGED <<events, case, rows, deal, comments, been, mover>>,
           worker.pc \notin Active,
           worker.todo \subseteq DOMAIN worker.draft, DOMAIN worker.draft \subseteq DOMAIN rows,
           \A i \in DOMAIN worker.draft :
               /\ worker.draft[i] = rows[i] /\ rows[i].status \in {"pending", "retry"}
               /\ \A v \in Workers : v # w => i \notin DOMAIN wk[v].draft
    PROVE  HoldsInv'
<1>1. wk \in [Workers -> Worker] /\ \A v \in Workers : Holds(v) /\ WantsIts(v)
    BY DEF HoldsInv, StageType
<1>2. /\ wk' \in [Workers -> Worker] /\ wk'[w] = worker
      /\ \A v \in Workers : v # w => wk'[v] = wk[v]
    BY <1>1
<1>3. StageType'
    BY <1>2, SameEvidence DEF HoldsInv, StageType
<1>4. ASSUME NEW v \in Workers, v # w
      PROVE  Holds(v)' /\ WantsIts(v)'
    <2>1. wk'[v] = wk[v] /\ Current(v)' = Current(v)
        BY <1>2, <1>4, SameCurrent
    <2>2. EvidenceOf(Current(v))' = EvidenceOf(Current(v))
        BY <2>1 DEF EvidenceOf
    <2>3. \A u \in Workers : u # v => DOMAIN wk[v].draft \cap DOMAIN wk'[u].draft = {}
        BY <1>1, <1>2, <1>4 DEF Holds
    <2> QED BY <1>1, <2>1, <2>2, <2>3 DEF Holds, WantsIts
<1>5. Holds(w)' /\ WantsIts(w)'
    <2>1. wk'[w] = worker /\ rows' = rows
        BY <1>2
    <2>2. \A u \in Workers : u # w => DOMAIN worker.draft \cap DOMAIN wk'[u].draft = {}
        BY <1>2
    <2>3. Holds(w)'
        BY <2>1, <2>2 DEF Holds, BLOCKING_PREDECESSOR_STATUSES
    <2> QED BY <2>1, <2>3 DEF WantsIts, Active
<1> QED BY <1>3, <1>4, <1>5 DEF HoldsInv

LEMMA IdleFacts == Idle \in Worker /\ Idle.pc = "idle" /\ Idle.todo = {} /\ DOMAIN Idle.draft = {}
<1>1. PICK d : d = <<>>
    OBVIOUS
<1>2. DOMAIN d = {} /\ d \in Seq(Row)
    BY <1>1
<1>3. d \in Drafts
    BY <1>2, SeqShape, DraftShape
<1> QED BY <1>1, <1>2, <1>3 DEF Idle, Worker, PCs

LEMMA TakeFacts ==
    ASSUME HoldsInv, NEW w \in Workers, process_stage_outbox(w)
    PROVE  /\ UNCHANGED <<events, case, rows, deal, comments, been, mover>>
           /\ \E worker \in Worker :
                /\ wk' = [wk EXCEPT ![w] = worker]
                /\ worker.pc = "check" /\ worker.todo = DOMAIN worker.draft
                /\ DOMAIN worker.draft \subseteq Due
                /\ \A i \in DOMAIN worker.draft : worker.draft[i] = rows[i]
<1>1. PICK batch : /\ batch \subseteq Due
                   /\ wk' = [wk EXCEPT ![w] = [Idle EXCEPT !.pc = "check", !.todo = batch,
                                                           !.draft = [i \in batch |-> rows[i]]]]
    BY DEF process_stage_outbox
<1>2. PICK draft : draft = [i \in batch |-> rows[i]]
    OBVIOUS
<1>3. PICK worker : worker = [Idle EXCEPT !.pc = "check", !.todo = batch, !.draft = draft]
    OBVIOUS
<1>4. batch \subseteq DOMAIN rows
    BY <1>1 DEF Due
<1>5. batch \in SUBSET Nat /\ \A i \in batch : rows[i] \in Row
    BY <1>4, RowTypes
<1>6. draft \in Drafts /\ DOMAIN draft = batch /\ \A i \in batch : draft[i] = rows[i]
    BY <1>2, <1>5, DraftShape
<1>7. /\ worker \in Worker /\ worker.pc = "check" /\ worker.todo = batch
      /\ worker.draft = draft
    BY <1>3, <1>5, <1>6, IdleFacts DEF Worker, PCs
<1>8. wk' = [wk EXCEPT ![w] = worker]
    BY <1>1, <1>2, <1>3
<1>9. UNCHANGED <<events, case, rows, deal, comments, been, mover>>
    BY DEF process_stage_outbox
<1> QED BY <1>1, <1>6, <1>7, <1>8, <1>9

LEMMA TakeHolds ==
    ASSUME HoldsInv, NEW w \in Workers, process_stage_outbox(w)
    PROVE  HoldsInv'
<1>1. PICK worker \in Worker :
          /\ wk' = [wk EXCEPT ![w] = worker]
          /\ worker.pc = "check" /\ worker.todo = DOMAIN worker.draft
          /\ DOMAIN worker.draft \subseteq Due
          /\ \A i \in DOMAIN worker.draft : worker.draft[i] = rows[i]
    BY TakeFacts
<1>2. UNCHANGED <<events, case, rows, deal, comments, been, mover>>
    BY TakeFacts
<1>3. /\ DOMAIN worker.draft \subseteq DOMAIN rows
      /\ \A i \in DOMAIN worker.draft :
             /\ rows[i].status \in {"pending", "retry"}
             /\ \A v \in Workers : i \notin DOMAIN wk[v].draft
    BY <1>1 DEF Due
<1> QED BY <1>1, <1>2, <1>3, NotActive, SwapHolds

LEMMA CrashHolds ==
    ASSUME HoldsInv, NEW w \in Workers, Crash(w)
    PROVE  HoldsInv'
<1>1. /\ wk' = [wk EXCEPT ![w] = Idle]
      /\ UNCHANGED <<events, case, rows, deal, comments, been, mover>>
    BY DEF Crash
<1> QED BY <1>1, IdleFacts, NotActive, SwapHolds

(* The commit: what the worker saw becomes the queue.                        *)
LEMMA CommitFacts ==
    ASSUME HoldsInv, NEW w \in Workers, Commit(w)
    PROVE  /\ wk[w].pc = "check" /\ wk[w].todo = {}
           /\ rows' \in Seq(Row) /\ DOMAIN rows' = DOMAIN rows
           /\ \A j \in DOMAIN rows : /\ rows'[j] = View(w)[j]
                                     /\ rows'[j].event = rows[j].event
           /\ \A v \in Workers : v # w =>
                  wk'[v] = wk[v] /\ \A j \in DOMAIN wk[v].draft : rows'[j] = rows[j]
           /\ wk'[w] = Idle /\ wk' \in [Workers -> Worker]
           /\ UNCHANGED <<events, deal, comments, been, mover>>
<1>1. /\ wk[w].pc = "check" /\ wk[w].todo = {} /\ rows' = View(w)
      /\ wk' = [wk EXCEPT ![w] = Idle]
      /\ UNCHANGED <<events, deal, comments, been, mover>>
    BY DEF Commit
<1>2. PICK view : view = View(w)
    OBVIOUS
<1>3. rows \in Seq(Row) /\ wk \in [Workers -> Worker]
    BY DEF HoldsInv, StageType
<1>4. view \in [DOMAIN rows -> Row] /\ \A j \in DOMAIN rows : view[j].event = rows[j].event
    BY <1>2, RowTypes DEF View
<1>5. view \in Seq(Row) /\ DOMAIN view = DOMAIN rows
    BY <1>3, <1>4, SeqAgain
<1>6. ASSUME NEW v \in Workers, v # w, NEW j \in DOMAIN wk[v].draft
      PROVE  rows'[j] = rows[j]
    <2>1. j \in DOMAIN rows /\ j \notin DOMAIN wk[w].draft
        BY <1>6 DEF HoldsInv, Holds
    <2> QED BY <1>1, <2>1 DEF View
<1>7. wk' \in [Workers -> Worker] /\ wk'[w] = Idle
      /\ \A v \in Workers : v # w => wk'[v] = wk[v]
    BY <1>1, <1>3, IdleFacts
<1> QED BY <1>1, <1>2, <1>4, <1>5, <1>6, <1>7

LEMMA CommitHolds ==
    ASSUME HoldsInv, NEW w \in Workers, Commit(w)
    PROVE  HoldsInv'
<1>1. /\ rows' \in Seq(Row) /\ DOMAIN rows' = DOMAIN rows
      /\ \A j \in DOMAIN rows : rows'[j].event = rows[j].event
      /\ \A v \in Workers : v # w =>
             wk'[v] = wk[v] /\ \A j \in DOMAIN wk[v].draft : rows'[j] = rows[j]
      /\ wk'[w] = Idle /\ wk' \in [Workers -> Worker]
      /\ UNCHANGED <<events, deal, comments, been, mover>>
    BY CommitFacts
<1>2. \A j \in DOMAIN rows : EvidenceOf(j)' = EvidenceOf(j)
    BY <1>1 DEF EvidenceOf
<1>3. case' \in [event : 0..Len(events), stage : Stages]
    <2>1. wk[w].crm \in Stages \cup {None} /\ case \in [event : 0..Len(events), stage : Stages]
        BY DEF HoldsInv, StageType, Worker
    <2> QED BY <2>1 DEF Commit
<1>4. StageType'
    BY <1>1, <1>2, <1>3 DEF HoldsInv, StageType
<1>5. \A v \in Workers : v # w => Holds(v)' /\ WantsIts(v)'
    BY <1>1, <1>2, IdleFacts, UnconcernedHolds
<1>6. Holds(w)' /\ WantsIts(w)'
    BY <1>1, IdleFacts DEF Holds, WantsIts, Active
<1> QED BY <1>4, <1>5, <1>6 DEF HoldsInv

(* Evidence that is learnt comes after all the rows there are.               *)
LEMMA LearnFacts ==
    ASSUME HoldsInv, NEW e \in Evidence, Learn(e)
    PROVE  /\ UNCHANGED <<wk, deal, been, mover>>
           /\ events' = Append(events, e) /\ Len(events)' = Len(events) + 1
           /\ \A j \in DOMAIN rows : rows'[j] = rows[j] /\ EvidenceOf(j)' = EvidenceOf(j)
           /\ \/ UNCHANGED <<rows, comments>>
              \/ \E n :
                     /\ n = Len(rows) + 1
                     /\ DOMAIN rows' = DOMAIN rows \cup {n} /\ n \notin DOMAIN rows
                     /\ rows' \in Seq(Row) /\ rows'[n] = NewRow(Len(events) + 1)
                     /\ \A j \in DOMAIN rows : j < n
                     /\ e.target \in Stages /\ EvidenceOf(n)' = e
                     /\ comments' = Append(comments, [applied |-> 0, review |-> 0])
<1>1. /\ UNCHANGED <<wk, deal, been, mover>>
      /\ events' = Append(events, e)
      /\ \/ UNCHANGED <<rows, comments>>
         \/ /\ e.target # None
            /\ rows' = Append(rows, NewRow(Len(events) + 1))
            /\ comments' = Append(comments, [applied |-> 0, review |-> 0])
    BY DEF Learn
<1>2. rows \in Seq(Row) /\ events \in Seq(Evidence)
    BY DEF HoldsInv, StageType
<1>3. /\ Len(events)' = Len(events) + 1 /\ Len(events) \in Nat
      /\ \A k \in DOMAIN events : events'[k] = events[k]
      /\ events'[Len(events) + 1] = e
    BY <1>1, <1>2
<1>4. e.target \in Stages \cup {None}
    BY StageAssumption DEF EvidenceType
<1>5. \A j \in DOMAIN rows : rows[j].event \in DOMAIN events
    BY DEF HoldsInv, StageType
<1>6. CASE UNCHANGED <<rows, comments>>
    BY <1>1, <1>3, <1>5, <1>6 DEF EvidenceOf
<1>7. CASE /\ e.target # None
           /\ rows' = Append(rows, NewRow(Len(events) + 1))
           /\ comments' = Append(comments, [applied |-> 0, review |-> 0])
    <2>1. PICK row, n : row = NewRow(Len(events) + 1) /\ n = Len(rows) + 1
        OBVIOUS
    <2>2. row \in Row /\ row.event = Len(events) + 1
        BY <1>3, <2>1 DEF NewRow, Row, RowStatuses, Reasons, BLOCKING_PREDECESSOR_STATUSES
    <2>3. rows' = Append(rows, row)
        BY <1>7, <2>1
    <2>4. /\ rows' \in Seq(Row) /\ DOMAIN rows' = DOMAIN rows \cup {n} /\ n \notin DOMAIN rows
          /\ \A j \in DOMAIN rows : j < n
          /\ rows'[n] = row /\ \A j \in DOMAIN rows : rows'[j] = rows[j]
        BY <1>2, <2>1, <2>2, <2>3
    <2>5. EvidenceOf(n)' = e
        BY <1>3, <2>2, <2>4 DEF EvidenceOf
    <2>6. \A j \in DOMAIN rows : EvidenceOf(j)' = EvidenceOf(j)
        BY <1>3, <1>5, <2>4 DEF EvidenceOf
    <2> QED BY <1>1, <1>3, <1>4, <1>7, <2>1, <2>4, <2>5, <2>6
<1> QED BY <1>1, <1>6, <1>7

LEMMA LearnHolds ==
    ASSUME HoldsInv, NEW e \in Evidence, Learn(e)
    PROVE  HoldsInv'
<1>1. /\ UNCHANGED <<wk, deal, been, mover>>
      /\ events' = Append(events, e) /\ Len(events)' = Len(events) + 1
      /\ \A j \in DOMAIN rows : rows'[j] = rows[j] /\ EvidenceOf(j)' = EvidenceOf(j)
    BY LearnFacts
<1>2. /\ events \in Seq(Evidence) /\ rows \in Seq(Row)
      /\ case \in [event : 0..Len(events), stage : Stages]
      /\ comments \in [DOMAIN rows -> [applied : Nat, review : Nat]]
      /\ \A i \in DOMAIN rows :
             rows[i].event \in DOMAIN events /\ EvidenceOf(i).target \in Stages
    BY DEF HoldsInv, StageType
<1>3. /\ events' \in Seq(Evidence) /\ Len(events) \in Nat
      /\ DOMAIN events' = DOMAIN events \cup {Len(events) + 1}
    BY <1>1, <1>2
<1>4. case' \in [event : 0..Len(events'), stage : Stages]
    <2>1. e.kind \in Kinds /\ e.target \in Targets[e.kind]
        BY StageAssumption, EvidenceAssumption DEF EvidenceType
    <2>2. Reconciliation(e) => e.seen \in Stages
        BY DEF Learn, HoldsInv, StageType
    <2>3. e.kind = "logistics" => e.target \in Stages
        BY <2>1 DEF Targets, ALLOWED_FROM_STAGE, Stages
    <2>4. e.kind \in {"logistics", "signal"} \/ Reconciliation(e)
        BY <2>1 DEF Kinds, Reconciliation
    <2>5. PICK stage : stage = CASE Reconciliation(e) -> e.seen
                                 [] e.kind = "logistics" -> e.target
                                 [] e.kind = "signal" -> case.stage
        OBVIOUS
    <2>6. stage \in Stages
        <3>1. case.stage \in Stages
            BY <1>2
        <3>2. ~ (Reconciliation(e) /\ e.kind = "logistics")
              /\ ~ (Reconciliation(e) /\ e.kind = "signal")
            BY DEF Reconciliation
        <3> QED BY <2>2, <2>3, <2>4, <2>5, <3>1, <3>2
    <2>7. \/ UNCHANGED case
          \/ case' = [event |-> Len(events) + 1, stage |-> stage]
        BY <2>5 DEF Learn
    <2>8. Len(events) + 1 \in 0..Len(events') /\ 0..Len(events) \subseteq 0..Len(events')
        BY <1>1, <1>3
    <2> QED BY <1>2, <2>6, <2>7, <2>8
<1>5. CASE UNCHANGED <<rows, comments>>
    <2>1. StageType'
        BY <1>1, <1>2, <1>3, <1>4, <1>5 DEF HoldsInv, StageType
    <2>2. \A v \in Workers : Holds(v)' /\ WantsIts(v)'
        BY <1>1, <1>5, UnconcernedHolds DEF HoldsInv, Holds
    <2> QED BY <2>1, <2>2 DEF HoldsInv
<1>6. ASSUME NEW n, n = Len(rows) + 1,
             DOMAIN rows' = DOMAIN rows \cup {n}, n \notin DOMAIN rows, rows' \in Seq(Row),
             rows'[n] = NewRow(Len(events) + 1), e.target \in Stages, EvidenceOf(n)' = e,
             comments' = Append(comments, [applied |-> 0, review |-> 0])
      PROVE  HoldsInv'
    <2>1. comments' \in [DOMAIN rows' -> [applied : Nat, review : Nat]]
        <3>1. DOMAIN rows = 1..Len(rows) /\ Len(rows) \in Nat
            BY <1>2, SeqShape
        <3>2. comments \in Seq([applied : Nat, review : Nat]) /\ Len(comments) = Len(rows)
            BY <1>2, <3>1, FunctionIsSeq
        <3>3. PICK none : none = [applied |-> 0, review |-> 0]
            OBVIOUS
        <3>4. none \in [applied : Nat, review : Nat]
            BY <3>3
        <3>5. comments' = Append(comments, none)
            BY <1>6, <3>3
        <3>6. comments' \in Seq([applied : Nat, review : Nat]) /\ Len(comments') = Len(rows) + 1
            BY <3>2, <3>4, <3>5
        <3>7. DOMAIN comments' = DOMAIN rows'
            BY <1>6, <3>1, <3>6
        <3> QED BY <3>6, <3>7, SeqShape
    <2>2. rows'[n].event \in DOMAIN events'
        BY <1>3, <1>6 DEF NewRow
    <2>3. \A i \in DOMAIN rows' :
              rows'[i].event \in DOMAIN events' /\ EvidenceOf(i)'.target \in Stages
        BY <1>1, <1>2, <1>3, <1>6, <2>2
    <2>4. StageType'
        BY <1>1, <1>3, <1>4, <1>6, <2>1, <2>3 DEF HoldsInv, StageType
    <2>5. \A v \in Workers : Holds(v)' /\ WantsIts(v)'
        BY <1>1, <1>6, UnconcernedHolds DEF HoldsInv, Holds
    <2> QED BY <2>4, <2>5 DEF HoldsInv
<1> QED BY <1>5, <1>6, LearnFacts

LEMMA ComesDueFacts ==
    ASSUME HoldsInv, NEW i \in DOMAIN rows, ComesDue(i)
    PROVE  /\ UNCHANGED <<events, case, wk, deal, comments, been, mover>>
           /\ rows' \in Seq(Row) /\ DOMAIN rows' = DOMAIN rows
           /\ \A w \in Workers : i \notin DOMAIN wk[w].draft
           /\ \A j \in DOMAIN rows :
                 /\ rows'[j].event = rows[j].event /\ rows'[j].status = rows[j].status
                 /\ rows'[j].why = rows[j].why
                 /\ j # i => rows'[j] = rows[j]
<1>1. PICK row : row = rows[i]
    OBVIOUS
<1>2. PICK now : now = [row EXCEPT !.waiting = FALSE]
    OBVIOUS
<1>3. row \in Row /\ rows \in Seq(Row)
    BY <1>1, RowTypes DEF HoldsInv, StageType
<1>4. /\ now \in Row /\ now.event = row.event /\ now.status = row.status
      /\ now.why = row.why
    BY <1>2, <1>3 DEF Row
<1>5. rows' = [rows EXCEPT ![i] = now]
    BY <1>1, <1>2 DEF ComesDue
<1>6. /\ rows' \in Seq(Row) /\ DOMAIN rows' = DOMAIN rows /\ rows'[i] = now
      /\ \A j \in DOMAIN rows : j # i => rows'[j] = rows[j]
    BY <1>3, <1>4, <1>5
<1> QED BY <1>1, <1>4, <1>6 DEF ComesDue

LEMMA ComesDueHolds ==
    ASSUME HoldsInv, NEW i \in DOMAIN rows, ComesDue(i)
    PROVE  HoldsInv'
<1>1. /\ UNCHANGED <<events, case, wk, deal, comments, been, mover>>
      /\ rows' \in Seq(Row) /\ DOMAIN rows' = DOMAIN rows
      /\ \A w \in Workers : i \notin DOMAIN wk[w].draft
      /\ \A j \in DOMAIN rows :
            rows'[j].event = rows[j].event /\ (j # i => rows'[j] = rows[j])
    BY ComesDueFacts
<1>2. \A j \in DOMAIN rows : EvidenceOf(j)' = EvidenceOf(j)
    BY <1>1 DEF EvidenceOf
<1>3. StageType'
    BY <1>1, <1>2 DEF HoldsInv, StageType
<1>4. \A v \in Workers : Holds(v)' /\ WantsIts(v)'
    BY <1>1, <1>2, UnconcernedHolds DEF HoldsInv, Holds
<1> QED BY <1>3, <1>4 DEF HoldsInv

LEMMA ManagerFacts ==
    ASSUME HoldsInv, Manager
    PROVE  /\ UNCHANGED <<events, case, rows, wk, comments>>
           /\ \/ \E s \in Stages : /\ deal' = [deal EXCEPT !.stage = s]
                                   /\ been' = been \cup {s} /\ mover' = "manager"
              \/ deal' = [deal EXCEPT !.bound = FALSE] /\ UNCHANGED <<been, mover>>
BY StageAssumption DEF Manager

LEMMA ManagerHolds ==
    ASSUME HoldsInv, Manager
    PROVE  HoldsInv'
<1>1. UNCHANGED <<events, case, rows, wk, comments>>
    BY ManagerFacts
<1>2. /\ deal' \in [stage : Stages, bound : BOOLEAN, assembled : BOOLEAN]
      /\ been' \subseteq Stages /\ deal'.stage \in been'
      /\ mover' \in Workers \cup {None, "manager"}
    BY ManagerFacts DEF HoldsInv, StageType
<1>3. StageType'
    BY <1>1, <1>2, SameEvidence DEF HoldsInv, StageType
<1>4. \A v \in Workers : Holds(v)' /\ WantsIts(v)'
    BY <1>1, SameEvidence, UnconcernedHolds DEF HoldsInv
<1> QED BY <1>3, <1>4 DEF HoldsInv

LEMMA NextHolds == HoldsInv /\ [Next]_vars => HoldsInv'
<1> SUFFICES ASSUME HoldsInv, [Next]_vars PROVE HoldsInv'
    OBVIOUS
<1>1. CASE \E e \in Evidence : Learn(e)
    BY <1>1, LearnHolds
<1>2. CASE \E w \in Workers : Step(w) \/ Crash(w)
    BY <1>2, TakeHolds, CheckHolds, ReadHolds, AssembleHolds, WriteHolds, ReadbackHolds,
       CommentHolds, CommitHolds, CrashHolds DEF Step
<1>3. CASE \E i \in DOMAIN rows : ComesDue(i)
    BY <1>3, ComesDueHolds
<1>4. CASE Manager
    BY <1>4, ManagerHolds
<1>5. CASE UNCHANGED vars
    <2>1. UNCHANGED <<events, case, rows, wk, deal, comments, been, mover>>
        BY <1>5 DEF vars
    <2>2. StageType'
        BY <2>1, SameEvidence DEF HoldsInv, StageType
    <2>3. \A v \in Workers : Holds(v)' /\ WantsIts(v)'
        BY <2>1, SameEvidence, UnconcernedHolds DEF HoldsInv
    <2> QED BY <2>2, <2>3 DEF HoldsInv
<1> QED BY <1>1, <1>2, <1>3, <1>4, <1>5 DEF Next

(* In every state a worker's rows are its own, still open in the queue, and  *)
(* those it has not looked at are as it took them.                           *)
THEOREM RowsAreHeld == Spec => []HoldsInv
<1>1. Init => HoldsInv
    BY InitHolds
<1>2. HoldsInv /\ [Next]_vars => HoldsInv'
    BY NextHolds
<1> QED BY <1>1, <1>2, PTL DEF Spec

(* Type correctness: every variable keeps its shape, no two workers hold the *)
(* same row (the queue is read FOR UPDATE SKIP LOCKED), and no worker holds  *)
(* a row that the queue does not have.                                       *)
THEOREM TypeCorrect == Spec => []TypeOK
<1>1. HoldsInv => TypeOK
    <2> SUFFICES ASSUME HoldsInv PROVE TypeOK
        OBVIOUS
    <2>1. DOMAIN wk = Workers
        BY DEF HoldsInv, StageType
    <2>2. ASSUME NEW w \in Workers
          PROVE  /\ wk[w].pc \in PCs
                 /\ wk[w].todo \subseteq DOMAIN wk[w].draft
                 /\ DOMAIN wk[w].draft \subseteq DOMAIN rows
                 /\ \A v \in Workers \ {w} : DOMAIN wk[w].draft \cap DOMAIN wk[v].draft = {}
                 /\ wk[w].crm \in Stages \cup {None} /\ wk[w].want \in Stages \cup {None}
        BY DEF HoldsInv, StageType, Holds, Worker
    <2>3. \A w \in Workers : \A i \in DOMAIN wk[w].draft : wk[w].draft[i] \in Row
        BY RowTypes
    <2> QED BY <2>1, <2>2, <2>3 DEF HoldsInv, StageType, TypeOK
<1> QED BY <1>1, RowsAreHeld, PTL

------------------------------------------------------------------------------
(* What a row claims has been done stays done.                               *)
Limited == \A j \in DOMAIN rows : comments[j].applied <= 1 /\ comments[j].review <= 1

(* Nothing is taken back: no stage the deal has been in, no comment.         *)
Kept ==
    /\ been \subseteq been'
    /\ \A j \in DOMAIN rows :
           /\ EvidenceOf(j)' = EvidenceOf(j)
           /\ comments[j].applied = 1 => comments'[j].applied = 1
           /\ comments[j].review = 1 => comments'[j].review = 1

LEMMA ToldStays ==
    ASSUME Kept, NEW i \in DOMAIN rows, NEW row, Told(row, i)
    PROVE  Told(row, i)'
BY DEF Kept, Told

LEMMA KeptUnchanged ==
    ASSUME UNCHANGED <<events, rows, comments>>, been \subseteq been'
    PROVE  Kept
BY SameEvidence DEF Kept

LEMMA CarriesTold ==
    ASSUME HoldsInv, ToldInv, NEW w \in Workers, NEW worker, Works(w, worker),
           UNCHANGED <<events, rows>>, Kept, Limited',
           \A j \in DOMAIN worker.draft :
               \/ j \in DOMAIN wk[w].draft /\ worker.draft[j] = wk[w].draft[j]
               \/ Told(worker.draft[j], j)',
           worker.pc \in {"readback", "comment"} => worker.want \in been'
    PROVE  ToldInv'
<1>1. wk \in [Workers -> Worker] /\ \A v \in Workers : Holds(v)
    BY DEF HoldsInv, StageType
<1>2. wk'[w] = worker /\ \A v \in Workers : v # w => wk'[v] = wk[v]
    BY <1>1 DEF Works
<1>3. ASSUME NEW i \in DOMAIN rows
      PROVE  /\ comments'[i].applied <= 1 /\ comments'[i].review <= 1
             /\ Told(rows[i], i)'
    <2>1. PICK row : row = rows[i]
        OBVIOUS
    <2>2. Told(row, i)'
        BY <2>1, ToldStays DEF ToldInv
    <2>3. rows'[i] = row
        BY <2>1
    <2>4. comments'[i].applied <= 1 /\ comments'[i].review <= 1
        BY DEF Limited
    <2> QED BY <2>2, <2>3, <2>4 DEF Told
<1>4. ASSUME NEW v \in Workers, NEW i \in DOMAIN wk'[v].draft
      PROVE  Told(wk[v].draft[i], i)'
    <2>1. PICK row : row = wk'[v].draft[i]
        OBVIOUS
    <2>2. CASE i \in DOMAIN wk[v].draft /\ row = wk[v].draft[i]
        <3>1. i \in DOMAIN rows /\ Told(row, i)
            BY <1>1, <2>2 DEF Holds, ToldInv
        <3>2. Told(row, i)'
            BY <3>1, ToldStays
        <3> QED BY <2>1, <3>2 DEF Told
    <2>3. CASE ~(i \in DOMAIN wk[v].draft /\ row = wk[v].draft[i])
        <3>1. v = w /\ wk'[v] = worker
            BY <1>2, <1>4, <2>1, <2>3
        <3>2. Told(worker.draft[i], i)' /\ row = worker.draft[i]
            BY <1>4, <2>1, <2>3, <3>1
        <3> QED BY <2>1, <3>2 DEF Told
    <2> QED BY <2>2, <2>3
<1>5. ASSUME NEW v \in Workers, wk'[v].pc \in {"readback", "comment"}
      PROVE  wk'[v].want \in been'
    BY <1>2, <1>5 DEF ToldInv, Kept
<1> QED BY <1>3, <1>4, <1>5 DEF ToldInv

LEMMA FinishTold ==
    ASSUME HoldsInv, ToldInv, NEW w \in Workers, NEW worker, NEW row,
           Finishes(w, worker, row), UNCHANGED <<events, rows>>, Kept, Limited',
           NEW i, i = Current(w), Told(row, i)'
    PROVE  ToldInv'
<1>1. /\ Works(w, worker) /\ worker.pc = "check"
      /\ \A j \in DOMAIN worker.draft :
             \/ j \in DOMAIN wk[w].draft /\ worker.draft[j] = wk[w].draft[j]
             \/ j = i /\ worker.draft[j] = row
    BY DEF Finishes
<1>2. ASSUME NEW j \in DOMAIN worker.draft,
             ~(j \in DOMAIN wk[w].draft /\ worker.draft[j] = wk[w].draft[j])
      PROVE  Told(worker.draft[j], j)'
    BY <1>1, <1>2
<1> QED BY <1>1, <1>2, CarriesTold

LEMMA RetriesTold ==
    ASSUME HoldsInv, ToldInv, NEW w \in Workers, NEW worker, Retries(w, worker),
           UNCHANGED <<events, rows>>, Kept, Limited'
    PROVE  ToldInv'
<1>1. PICK row : Finishes(w, worker, row) /\ row.status = "retry"
    BY DEF Retries
<1>2. PICK i : i = Current(w)
    OBVIOUS
<1>3. Told(row, i)'
    BY <1>1 DEF Told
<1> QED BY <1>1, <1>2, <1>3, FinishTold

LEMMA MovesTold ==
    ASSUME HoldsInv, ToldInv, NEW w \in Workers, NEW worker, Moves(w, worker),
           UNCHANGED <<events, rows>>, Kept, Limited',
           worker.pc \in {"readback", "comment"} => worker.want \in been'
    PROVE  ToldInv'
<1>1. Works(w, worker) /\ worker.draft = wk[w].draft
    BY DEF Moves
<1> QED BY <1>1, CarriesTold

LEMMA QuietTold ==
    ASSUME ToldInv, UNCHANGED <<events, rows, comments>>, been \subseteq been'
    PROVE  Kept /\ Limited'
<1>1. Limited'
    BY DEF ToldInv, Limited
<1> QED BY <1>1, KeptUnchanged

LEMMA CheckTold ==
    ASSUME HoldsInv, ToldInv, NEW w \in Workers, Check(w)
    PROVE  ToldInv'
<1>1. UNCHANGED <<events, rows, comments, been>>
    BY DEF Check
<1>2. PICK worker :
          /\ Works(w, worker) /\ worker.pc \in {"check", "read"}
          /\ \A j \in DOMAIN worker.draft :
                \/ j \in DOMAIN wk[w].draft /\ worker.draft[j] = wk[w].draft[j]
                \/ worker.draft[j].status = "applied" /\ worker.draft[j].why = "newer_evidence"
    BY CheckFacts
<1>3. ASSUME NEW j \in DOMAIN worker.draft,
             ~(j \in DOMAIN wk[w].draft /\ worker.draft[j] = wk[w].draft[j])
      PROVE  Told(worker.draft[j], j)'
    BY <1>2, <1>3, StageNoneAssumption DEF Told
<1>4. Kept /\ Limited'
    BY <1>1, QuietTold
<1> QED BY <1>1, <1>2, <1>3, <1>4, CarriesTold

LEMMA ReadTold ==
    ASSUME HoldsInv, ToldInv, NEW w \in Workers, Read(w)
    PROVE  ToldInv'
<1>1. PICK worker : Decided(w, worker)
    BY ReadFacts
<1>2. UNCHANGED <<events, rows, deal, comments, been>> /\ wk[w].pc = "read"
    BY ReadFacts
<1>3. Kept /\ Limited'
    BY <1>2, QuietTold
<1>4. PICK i : i = Current(w)
    OBVIOUS
<1>5. CASE \E row : Finishes(w, worker, row) /\ ClaimsNothing(row, EvidenceOf(i))
    <2>1. PICK row : Finishes(w, worker, row) /\ ClaimsNothing(row, EvidenceOf(i))
        BY <1>5
    <2>2. EvidenceOf(i)' = EvidenceOf(i)
        BY <1>2, SameEvidence
    <2>3. Told(row, i)'
        BY <2>1, <2>2 DEF ClaimsNothing, Told
    <2> QED BY <1>2, <1>3, <1>4, <2>1, <2>3, FinishTold
<1>6. CASE /\ Moves(w, worker) /\ worker.pc \in {"comment", "assemble", "write"}
           /\ worker.pc = "comment" => worker.want = deal.stage
    <2>1. deal.stage \in been'
        BY <1>2 DEF HoldsInv, StageType
    <2> QED BY <1>2, <1>3, <1>6, <2>1, MovesTold
<1> QED BY <1>1, <1>4, <1>5, <1>6 DEF Decided

LEMMA AssembleTold ==
    ASSUME HoldsInv, ToldInv, NEW w \in Workers, Assemble(w)
    PROVE  ToldInv'
<1>1. UNCHANGED <<events, rows, comments, been>>
    BY AssembleFacts
<1>2. Kept /\ Limited'
    BY <1>1, QuietTold
<1>3. PICK worker : Retries(w, worker) \/ (Moves(w, worker) /\ worker.pc = "write")
    BY AssembleFacts
<1> QED BY <1>1, <1>2, <1>3, RetriesTold, MovesTold

LEMMA WriteTold ==
    ASSUME HoldsInv, ToldInv, NEW w \in Workers, Write(w)
    PROVE  ToldInv'
<1>1. UNCHANGED <<events, rows, comments>>
    BY WriteFacts
<1>2. PICK worker :
          \/ Retries(w, worker) /\ (SetStage(w) \/ UNCHANGED <<deal, been, mover>>)
          \/ Moves(w, worker) /\ SetStage(w) /\ worker.want = wk[w].want
    BY WriteFacts
<1>3. been \subseteq been' /\ (SetStage(w) => wk[w].want \in been')
    BY <1>2 DEF SetStage
<1>4. Kept /\ Limited'
    BY <1>1, <1>3, QuietTold
<1> QED BY <1>1, <1>2, <1>3, <1>4, RetriesTold, MovesTold

LEMMA ReadbackTold ==
    ASSUME HoldsInv, ToldInv, NEW w \in Workers, Readback(w)
    PROVE  ToldInv'
<1>1. wk[w].pc = "readback" /\ UNCHANGED <<events, rows, comments, been>>
    BY ReadbackFacts
<1>2. PICK worker : Retries(w, worker) \/ (Moves(w, worker) /\ worker.want = wk[w].want)
    BY ReadbackFacts
<1>3. Kept /\ Limited'
    BY <1>1, QuietTold
<1>4. wk[w].want \in been'
    BY <1>1 DEF ToldInv
<1> QED BY <1>1, <1>2, <1>3, <1>4, RetriesTold, MovesTold

LEMMA CommentTold ==
    ASSUME HoldsInv, ToldInv, NEW w \in Workers, Comment(w)
    PROVE  ToldInv'
<1>1. PICK i : i = Current(w)
    OBVIOUS
<1>2. PICK marker : marker = IF wk[w].want # EvidenceOf(i).target THEN "review" ELSE "applied"
    OBVIOUS
<1>3. /\ wk[w].pc = "comment" /\ marker \in Markers
      /\ UNCHANGED <<events, case, rows, deal, been, mover>>
      /\ \E worker :
           \/ Retries(w, worker) /\ (AddComment(i, marker) \/ UNCHANGED comments)
           \/ /\ AddComment(i, marker)
              /\ \E row :
                    /\ Finishes(w, worker, row)
                    /\ IF wk[w].want # EvidenceOf(i).target
                       THEN row.status = "manual_review" /\ row.why = "conflict"
                       ELSE row.status = "applied" /\ row.why = None
    BY <1>1, <1>2, CommentFacts DEF Markers
<1>4. i \in DOMAIN rows
    BY <1>1, <1>3, CurrentRow DEF HoldsInv, Holds, Active
<1>5. /\ wk[w].want \in {EvidenceOf(i).target, "DELIVERY_REVIEW"}
      /\ wk[w].want \in been
    BY <1>1, <1>3 DEF HoldsInv, WantsIts, ToldInv
<1>6. \A j \in DOMAIN rows :
          /\ comments[j].applied \in {0, 1} /\ comments[j].review \in {0, 1}
          /\ EvidenceOf(j)' = EvidenceOf(j)
    <2>1. comments \in [DOMAIN rows -> [applied : Nat, review : Nat]]
        BY DEF HoldsInv, StageType
    <2> QED BY <1>3, <2>1, SameEvidence DEF ToldInv
<1>7. AddComment(i, marker) => Kept /\ Limited' /\ comments'[i][marker] = 1
    <2> SUFFICES ASSUME AddComment(i, marker)
                 PROVE  Kept /\ Limited' /\ comments'[i][marker] = 1
        OBVIOUS
    <2>1. \A j \in DOMAIN rows, m \in Markers :
              comments'[j][m] = IF j = i /\ m = marker /\ comments[i][marker] = 0
                                THEN 1 ELSE comments[j][m]
        BY <1>3, <1>4, CommentAdded
    <2>2. \A j \in DOMAIN rows :
              /\ comments'[j].applied \in {0, 1} /\ comments'[j].review \in {0, 1}
              /\ comments[j].applied = 1 => comments'[j].applied = 1
              /\ comments[j].review = 1 => comments'[j].review = 1
        BY <1>6, <2>1 DEF Markers
    <2>3. comments[i][marker] \in {0, 1}
        BY <1>3, <1>4, <1>6 DEF Markers
    <2>4. comments'[i][marker] = 1
        BY <1>3, <1>4, <2>1, <2>3
    <2>5. Limited'
        BY <1>3, <2>2 DEF Limited
    <2> QED BY <1>3, <1>6, <2>2, <2>4, <2>5 DEF Kept
<1>8. UNCHANGED comments => Kept /\ Limited'
    BY <1>3, QuietTold
<1>9. CASE \E worker : Retries(w, worker) /\ (AddComment(i, marker) \/ UNCHANGED comments)
    BY <1>3, <1>7, <1>8, <1>9, RetriesTold
<1>10. CASE /\ AddComment(i, marker)
            /\ \E worker, row :
                  /\ Finishes(w, worker, row)
                  /\ IF wk[w].want # EvidenceOf(i).target
                     THEN row.status = "manual_review" /\ row.why = "conflict"
                     ELSE row.status = "applied" /\ row.why = None
    <2>1. PICK worker, row :
                  /\ Finishes(w, worker, row)
                  /\ IF wk[w].want # EvidenceOf(i).target
                     THEN row.status = "manual_review" /\ row.why = "conflict"
                     ELSE row.status = "applied" /\ row.why = None
        BY <1>10
    <2>2. Told(row, i)'
        BY <1>2, <1>3, <1>4, <1>5, <1>6, <1>7, <1>10, <2>1 DEF Told
    <2> QED BY <1>1, <1>3, <1>7, <1>10, <2>1, <2>2, FinishTold
<1> QED BY <1>3, <1>9, <1>10

(* A batch is taken, or lost.                                                *)
LEMMA SwapTold ==
    ASSUME HoldsInv, ToldInv, NEW w \in Workers, NEW worker \in Worker,
           wk' = [wk EXCEPT ![w] = worker], UNCHANGED <<events, rows, comments, been>>,
           worker.pc \in {"idle", "check"}, DOMAIN worker.draft \subseteq DOMAIN rows,
           \A i \in DOMAIN worker.draft : worker.draft[i] = rows[i]
    PROVE  ToldInv'
<1>1. wk \in [Workers -> Worker]
    BY DEF HoldsInv, StageType
<1>2. wk'[w] = worker /\ \A v \in Workers : v # w => wk'[v] = wk[v]
    BY <1>1
<1>3. \A i \in DOMAIN rows :
          /\ comments'[i].applied <= 1 /\ comments'[i].review <= 1 /\ Told(rows[i], i)'
    BY SameEvidence DEF ToldInv, Told
<1>4. ASSUME NEW v \in Workers, NEW i \in DOMAIN wk'[v].draft
      PROVE  Told(wk[v].draft[i], i)'
    <2>1. CASE v = w
        <3>1. wk'[v].draft[i] = rows[i] /\ i \in DOMAIN rows
            BY <1>2, <1>4, <2>1
        <3> QED BY <1>3, <3>1 DEF Told
    <2>2. CASE v # w
        BY <1>2, <1>4, <2>2, SameEvidence DEF ToldInv, Told
    <2> QED BY <2>1, <2>2
<1>5. \A v \in Workers : wk'[v].pc \in {"readback", "comment"} => wk'[v].want \in been'
    BY <1>2 DEF ToldInv
<1> QED BY <1>3, <1>4, <1>5 DEF ToldInv

LEMMA TakeTold ==
    ASSUME HoldsInv, ToldInv, NEW w \in Workers, process_stage_outbox(w)
    PROVE  ToldInv'
<1>1. PICK worker \in Worker :
          /\ wk' = [wk EXCEPT ![w] = worker]
          /\ worker.pc = "check" /\ DOMAIN worker.draft \subseteq Due
          /\ \A i \in DOMAIN worker.draft : worker.draft[i] = rows[i]
    BY TakeFacts
<1>2. UNCHANGED <<events, rows, comments, been>> /\ DOMAIN worker.draft \subseteq DOMAIN rows
    BY <1>1, TakeFacts DEF Due
<1> QED BY <1>1, <1>2, SwapTold

LEMMA CrashTold ==
    ASSUME HoldsInv, ToldInv, NEW w \in Workers, Crash(w)
    PROVE  ToldInv'
<1>1. wk' = [wk EXCEPT ![w] = Idle] /\ UNCHANGED <<events, rows, comments, been>>
    BY DEF Crash
<1> QED BY <1>1, IdleFacts, SwapTold

(* The rows of the queue change, and no worker's draft.                      *)
LEMMA RowsTold ==
    ASSUME HoldsInv, ToldInv, been \subseteq been',
           \A v \in Workers : wk'[v] = wk[v] \/ wk'[v] = Idle,
           \A i \in DOMAIN rows : EvidenceOf(i)' = EvidenceOf(i) /\ comments'[i] = comments[i],
           Limited', \A i \in DOMAIN rows' : Told(rows[i], i)'
    PROVE  ToldInv'
<1>1. Kept
    BY DEF Kept
<1>2. ASSUME NEW v \in Workers, NEW i \in DOMAIN wk'[v].draft
      PROVE  Told(wk[v].draft[i], i)'
    <2>1. wk'[v] = wk[v]
        BY <1>2, IdleFacts
    <2>2. PICK row : row = wk[v].draft[i]
        OBVIOUS
    <2>3. i \in DOMAIN rows /\ Told(row, i)
        BY <1>2, <2>1, <2>2 DEF HoldsInv, Holds, ToldInv
    <2>4. Told(row, i)'
        BY <1>1, <2>3, ToldStays
    <2> QED BY <2>1, <2>2, <2>4 DEF Told
<1>3. \A v \in Workers : wk'[v].pc \in {"readback", "comment"} => wk'[v].want \in been'
    BY IdleFacts DEF ToldInv
<1> QED BY <1>2, <1>3 DEF ToldInv, Limited

LEMMA CommitTold ==
    ASSUME HoldsInv, ToldInv, NEW w \in Workers, Commit(w)
    PROVE  ToldInv'
<1>1. /\ DOMAIN rows' = DOMAIN rows
      /\ \A j \in DOMAIN rows : rows'[j] = View(w)[j] /\ rows'[j].event = rows[j].event
      /\ \A v \in Workers : wk'[v] = wk[v] \/ wk'[v] = Idle
      /\ UNCHANGED <<events, comments, been>>
    BY CommitFacts
<1>2. \A j \in DOMAIN rows : EvidenceOf(j)' = EvidenceOf(j) /\ comments'[j] = comments[j]
    BY <1>1 DEF EvidenceOf
<1>3. ASSUME NEW i \in DOMAIN rows'
      PROVE  Told(rows[i], i)'
    <2>1. PICK row : row = View(w)[i]
        OBVIOUS
    <2>2. Told(row, i)
        BY <1>1, <1>3, <2>1 DEF View, ToldInv
    <2>3. Told(row, i)'
        BY <1>1, <1>2, <1>3, <2>2 DEF Told
    <2> QED BY <1>1, <1>3, <2>1, <2>3 DEF Told
<1>4. Limited'
    BY <1>1 DEF ToldInv, Limited
<1> QED BY <1>1, <1>2, <1>3, <1>4, RowsTold

LEMMA LearnTold ==
    ASSUME HoldsInv, ToldInv, NEW e \in Evidence, Learn(e)
    PROVE  ToldInv'
<1>1. /\ UNCHANGED <<wk, been>>
      /\ \A j \in DOMAIN rows : rows'[j] = rows[j] /\ EvidenceOf(j)' = EvidenceOf(j)
    BY LearnFacts
<1>2. comments \in [DOMAIN rows -> [applied : Nat, review : Nat]]
    BY DEF HoldsInv, StageType
<1>3. CASE UNCHANGED <<rows, comments>>
    <2>1. \A i \in DOMAIN rows' : Told(rows[i], i)'
        BY <1>1, <1>3 DEF ToldInv, Told
    <2>2. Limited'
        BY <1>3 DEF ToldInv, Limited
    <2> QED BY <1>1, <1>3, <2>1, <2>2, RowsTold
<1>4. ASSUME NEW n, n = Len(rows) + 1, DOMAIN rows' = DOMAIN rows \cup {n},
             n \notin DOMAIN rows, rows'[n] = NewRow(Len(events) + 1),
             comments' = Append(comments, [applied |-> 0, review |-> 0])
      PROVE  ToldInv'
    <2>1. PICK none : none = [applied |-> 0, review |-> 0]
        OBVIOUS
    <2>2. none \in [applied : Nat, review : Nat] /\ none.applied = 0 /\ none.review = 0
        BY <2>1
    <2>3. comments \in Seq([applied : Nat, review : Nat]) /\ Len(comments) = Len(rows)
          /\ DOMAIN rows = 1..Len(rows) /\ Len(rows) \in Nat
        <3>1. rows \in Seq(Row)
            BY DEF HoldsInv, StageType
        <3>2. DOMAIN rows = 1..Len(rows) /\ Len(rows) \in Nat
            BY <3>1, SeqShape
        <3> QED BY <1>2, <3>2, FunctionIsSeq
    <2>4. comments' = Append(comments, none)
        BY <1>4, <2>1
    <2>5. comments'[n] = none /\ \A i \in DOMAIN rows : comments'[i] = comments[i]
        BY <1>4, <2>2, <2>3, <2>4, AppendShape
    <2>6. Limited'
        <3>1. \A j \in DOMAIN rows : comments[j].applied <= 1 /\ comments[j].review <= 1
            BY DEF ToldInv
        <3>2. \A j \in DOMAIN rows' : comments'[j].applied <= 1 /\ comments'[j].review <= 1
            <4>1. comments'[n].applied <= 1 /\ comments'[n].review <= 1
                BY <2>2, <2>5
            <4>2. \A j \in DOMAIN rows : comments'[j].applied <= 1 /\ comments'[j].review <= 1
                BY <2>5, <3>1
            <4>3. DOMAIN rows' = DOMAIN rows \cup {n}
                BY <1>4
            <4> QED BY <4>1, <4>2, <4>3
        <3> QED BY <3>2 DEF Limited
    <2>7. \A i \in DOMAIN rows' : Told(rows[i], i)'
        <3>1. Told(rows[n], n)'
            <4>1. PICK row : row = NewRow(Len(events) + 1)
                OBVIOUS
            <4>2. row.status = "pending"
                BY <4>1 DEF NewRow
            <4> QED BY <1>4, <4>1, <4>2 DEF Told
        <3>2. \A i \in DOMAIN rows : Told(rows[i], i)'
            BY <1>1, <1>4, <2>5 DEF ToldInv, Told
        <3> QED BY <1>4, <3>1, <3>2
    <2> QED BY <1>1, <2>5, <2>6, <2>7, RowsTold
<1> QED BY <1>3, <1>4, LearnFacts

LEMMA ComesDueTold ==
    ASSUME HoldsInv, ToldInv, NEW i \in DOMAIN rows, ComesDue(i)
    PROVE  ToldInv'
<1>1. /\ UNCHANGED <<events, wk, comments, been>> /\ DOMAIN rows' = DOMAIN rows
      /\ \A j \in DOMAIN rows :
            /\ rows'[j].event = rows[j].event /\ rows'[j].status = rows[j].status
            /\ rows'[j].why = rows[j].why
    BY ComesDueFacts
<1>2. \A j \in DOMAIN rows : EvidenceOf(j)' = EvidenceOf(j) /\ comments'[j] = comments[j]
    BY <1>1 DEF EvidenceOf
<1>3. Limited'
    BY <1>1 DEF ToldInv, Limited
<1>4. \A j \in DOMAIN rows' : Told(rows[j], j)'
    BY <1>1, <1>2 DEF ToldInv, Told
<1> QED BY <1>1, <1>2, <1>3, <1>4, RowsTold

LEMMA ManagerTold ==
    ASSUME HoldsInv, ToldInv, UNCHANGED <<events, rows, wk, comments>>, been \subseteq been'
    PROVE  ToldInv'
<1>1. Kept /\ Limited'
    BY QuietTold
<1>2. \A j \in DOMAIN rows : EvidenceOf(j)' = EvidenceOf(j) /\ comments'[j] = comments[j]
    BY SameEvidence
<1>3. \A j \in DOMAIN rows' : Told(rows[j], j)'
    BY <1>2 DEF ToldInv, Told
<1> QED BY <1>1, <1>2, <1>3, RowsTold

LEMMA NextTold == HoldsInv /\ ToldInv /\ [Next]_vars => ToldInv'
<1> SUFFICES ASSUME HoldsInv, ToldInv, [Next]_vars PROVE ToldInv'
    OBVIOUS
<1>1. CASE \E e \in Evidence : Learn(e)
    BY <1>1, LearnTold
<1>2. CASE \E w \in Workers : Step(w) \/ Crash(w)
    BY <1>2, TakeTold, CheckTold, ReadTold, AssembleTold, WriteTold, ReadbackTold,
       CommentTold, CommitTold, CrashTold DEF Step
<1>3. CASE \E i \in DOMAIN rows : ComesDue(i)
    BY <1>3, ComesDueTold
<1>4. CASE Manager
    <2>1. UNCHANGED <<events, rows, wk, comments>> /\ been \subseteq been'
        BY <1>4, ManagerFacts
    <2> QED BY <2>1, ManagerTold
<1>5. CASE UNCHANGED vars
    <2>1. UNCHANGED <<events, rows, wk, comments, been>>
        BY <1>5 DEF vars
    <2> QED BY <2>1, ManagerTold
<1> QED BY <1>1, <1>2, <1>3, <1>4, <1>5 DEF Next

THEOREM RowsAreTold == Spec => [](HoldsInv /\ ToldInv)
<1>1. Init => HoldsInv /\ ToldInv
    <2> SUFFICES ASSUME Init PROVE HoldsInv /\ ToldInv
        OBVIOUS
    <2>1. DOMAIN rows = {} /\ \A w \in Workers : wk[w] = Idle
        BY DEF Init
    <2> QED BY <2>1, InitHolds, IdleFacts DEF ToldInv
<1>2. HoldsInv /\ ToldInv /\ [Next]_vars => (HoldsInv /\ ToldInv)'
    BY NextHolds, NextTold
<1> QED BY <1>1, <1>2, PTL DEF Spec

(* A row puts its comment into the timeline of the deal at most once,        *)
(* whatever answers are lost and however often workers die: the timeline is  *)
(* searched for the row's marker before the comment is added, and no two     *)
(* workers hold the row.                                                     *)
THEOREM CommentsOnce == Spec => []CommentOnce
<1>1. HoldsInv /\ ToldInv => CommentOnce
    BY DEF HoldsInv, StageType, ToldInv, CommentOnce
<1> QED BY <1>1, RowsAreTold, PTL

(* What the queue says happened to the deal has happened: a row committed as *)
(* carried out brought the deal to its stage and told so, a conflict handed  *)
(* over to people has parked the deal in DELIVERY_REVIEW and told why.       *)
THEOREM SettledIsTold == Spec => []SettledMeansTold
<1>1. HoldsInv /\ ToldInv => SettledMeansTold
    BY DEF ToldInv, Told, SettledMeansTold
<1> QED BY <1>1, RowsAreTold, PTL

------------------------------------------------------------------------------
(* A row that is not of a reconciliation is carried out alone.               *)
LEMMA TwoActive ==
    ASSUME HoldsInv, AloneInv, NEW w \in Workers, NEW v \in Workers, w # v,
           wk[w].pc \in Active, wk[v].pc \in Active
    PROVE  Reconciliation(EvidenceOf(Current(w)))
<1>1. PICK i, k : i = Current(w) /\ k = Current(v)
    OBVIOUS
<1>2. wk[w].todo # {} /\ wk[v].todo # {}
    BY DEF HoldsInv, Holds
<1>3. /\ i \in DOMAIN wk[w].draft /\ i \in DOMAIN rows /\ i \in Nat
      /\ rows[i].status \in BLOCKING_PREDECESSOR_STATUSES
    BY <1>1, <1>2, CurrentRow DEF BLOCKING_PREDECESSOR_STATUSES
<1>4. /\ k \in DOMAIN wk[v].draft /\ k \in DOMAIN rows /\ k \in Nat
      /\ rows[k].status \in BLOCKING_PREDECESSOR_STATUSES
    BY <1>1, <1>2, CurrentRow DEF BLOCKING_PREDECESSOR_STATUSES
<1>5. i \notin DOMAIN wk[v].draft /\ k \notin DOMAIN wk[w].draft
    BY <1>3, <1>4 DEF HoldsInv, Holds
<1>6. View(v)[i] = rows[i] /\ View(w)[k] = rows[k]
    BY <1>3, <1>4, <1>5 DEF View
<1>7. Alone(w) /\ Alone(v)
    BY DEF AloneInv
<1>8. CASE i < k
    BY <1>1, <1>3, <1>6, <1>7, <1>8 DEF Alone
<1>9. CASE k < i
    BY <1>1, <1>4, <1>6, <1>7, <1>9 DEF Alone
<1> QED BY <1>3, <1>4, <1>5, <1>8, <1>9

(* No row older than the one a worker is at becomes an obstacle again.       *)
LEMMA AloneStays ==
    ASSUME HoldsInv, NEW v \in Workers, Alone(v), wk'[v] = wk[v], rows' \in Seq(Row),
           \A j \in DOMAIN rows :
               /\ EvidenceOf(j)' = EvidenceOf(j)
               /\ rows'[j].status \in BLOCKING_PREDECESSOR_STATUSES =>
                      rows[j].status \in BLOCKING_PREDECESSOR_STATUSES,
           \A j \in DOMAIN rows' : j \in DOMAIN rows \/ \A k \in DOMAIN rows : k < j
    PROVE  Alone(v)'
<1>1. PICK i : i = Current(v)
    OBVIOUS
<1>2. Current(v)' = i
    BY <1>1, SameCurrent
<1> SUFFICES ASSUME wk[v].pc \in Active, NEW j \in DOMAIN rows', j < i,
                    View(v)[j]'.status \in BLOCKING_PREDECESSOR_STATUSES
             PROVE  Reconciliation(EvidenceOf(i)') /\ Reconciliation(EvidenceOf(j)')
    <2>1. EvidenceOf(Current(v))' = EvidenceOf(i)'
        BY <1>2 DEF EvidenceOf
    <2> QED BY <1>2, <2>1 DEF Alone, Reconciliation
<1>3. i \in DOMAIN rows /\ i \in Nat
    BY <1>1, CurrentRow DEF HoldsInv, Holds
<1>4. j \in Nat
    BY SeqShape
<1>5. j \in DOMAIN rows
    BY <1>3, <1>4
<1>6. View(v)[j].status \in BLOCKING_PREDECESSOR_STATUSES
    BY <1>5 DEF View
<1>7. Reconciliation(EvidenceOf(i)) /\ Reconciliation(EvidenceOf(j))
    BY <1>1, <1>5, <1>6 DEF Alone
<1> QED BY <1>3, <1>5, <1>7

LEMMA UndisturbedStays ==
    ASSUME HoldsInv, NEW v \in Workers, Undisturbed(v), wk'[v] = wk[v],
           \A j \in DOMAIN rows : EvidenceOf(j)' = EvidenceOf(j),
           \/ deal'.stage = deal.stage /\ mover' = mover
           \/ mover' = "manager"
           \/ wk[v].pc \in Active => Reconciliation(EvidenceOf(Current(v)))
    PROVE  Undisturbed(v)'
<1>1. PICK i : i = Current(v)
    OBVIOUS
<1>2. Current(v)' = i
    BY <1>1, SameCurrent
<1>3. CASE wk[v].pc \in {"assemble", "write"}
    <2>1. i \in DOMAIN rows
        BY <1>1, <1>3, CurrentRow DEF HoldsInv, Holds, Active
    <2>2. EvidenceOf(Current(v))' = EvidenceOf(i)
        BY <1>2, <2>1 DEF EvidenceOf
    <2> QED BY <1>1, <1>3, <2>2 DEF Undisturbed, Reconciliation, Active
<1>4. CASE wk[v].pc \notin {"assemble", "write"}
    BY <1>4 DEF Undisturbed
<1> QED BY <1>3, <1>4

(* What a worker that goes on with its row has made sure of.                 *)
Clear(w, worker) ==
    \A j \in DOMAIN rows :
        j < Current(w) /\ Seen(worker, j).status \in BLOCKING_PREDECESSOR_STATUSES =>
            Reconciliation(EvidenceOf(Current(w))) /\ Reconciliation(EvidenceOf(j))

LEMMA CarriesAlone ==
    ASSUME HoldsInv, AloneInv, NEW w \in Workers, NEW worker, Works(w, worker),
           UNCHANGED <<events, rows>>,
           worker.pc \in Active => worker.todo = wk[w].todo /\ Clear(w, worker),
           worker.pc = "assemble" => Reconciliation(EvidenceOf(Current(w))),
           worker.pc = "write" =>
               \/ Reconciliation(EvidenceOf(Current(w)))
               \/ deal'.stage = worker.live,
           wk[w].pc \in Active \/ UNCHANGED <<deal, mover>>
    PROVE  AloneInv'
<1>1. wk \in [Workers -> Worker] /\ rows \in Seq(Row)
    BY DEF HoldsInv, StageType
<1>2. wk'[w] = worker /\ \A v \in Workers : v # w => wk'[v] = wk[v]
    BY <1>1 DEF Works
<1>3. ASSUME NEW v \in Workers, v # w
      PROVE  Alone(v)' /\ Undisturbed(v)'
    <2>1. wk'[v] = wk[v] /\ Alone(v) /\ Undisturbed(v)
        BY <1>2, <1>3 DEF AloneInv
    <2>2. \A j \in DOMAIN rows : EvidenceOf(j)' = EvidenceOf(j)
        BY SameEvidence
    <2>3. \/ deal'.stage = deal.stage /\ mover' = mover
          \/ wk[v].pc \in Active => Reconciliation(EvidenceOf(Current(v)))
        BY <1>3, TwoActive
    <2>4. Alone(v)'
        BY <1>1, <2>1, <2>2, AloneStays
    <2>5. Undisturbed(v)'
        BY <2>1, <2>2, <2>3, UndisturbedStays
    <2> QED BY <2>4, <2>5
<1>4. Alone(w)' /\ Undisturbed(w)'
    <2>1. CASE worker.pc \notin Active
        BY <1>2, <2>1 DEF Alone, Undisturbed, Active
    <2>2. CASE worker.pc \in Active
        <3>1. PICK i : i = Current(w)
            OBVIOUS
        <3>2. Current(w)' = i
            BY <1>2, <2>2, <3>1, SameCurrent
        <3>3. EvidenceOf(Current(w))' = EvidenceOf(i)
              /\ \A j \in DOMAIN rows : EvidenceOf(j)' = EvidenceOf(j)
            BY <3>2 DEF EvidenceOf
        <3>4. \A j \in DOMAIN rows : View(w)[j]' = Seen(worker, j)
            BY <1>2 DEF View, Seen
        <3>5. Alone(w)'
            BY <1>2, <2>2, <3>1, <3>2, <3>3, <3>4 DEF Alone, Clear, Reconciliation
        <3>6. Undisturbed(w)'
            BY <1>2, <3>1, <3>3 DEF Undisturbed, Reconciliation
        <3> QED BY <3>5, <3>6
    <2> QED BY <2>1, <2>2
<1> QED BY <1>3, <1>4 DEF AloneInv

LEMMA FinishAlone ==
    ASSUME HoldsInv, AloneInv, NEW w \in Workers, NEW worker,
           Works(w, worker), worker.pc = "check", UNCHANGED <<events, rows>>,
           wk[w].pc \in Active \/ UNCHANGED <<deal, mover>>
    PROVE  AloneInv'
BY NotActive, CarriesAlone

LEMMA MovesAlone ==
    ASSUME HoldsInv, AloneInv, NEW w \in Workers, NEW worker, Moves(w, worker),
           UNCHANGED <<events, rows>>, wk[w].pc \in Active,
           worker.pc = "assemble" => Reconciliation(EvidenceOf(Current(w))),
           worker.pc = "write" =>
               \/ Reconciliation(EvidenceOf(Current(w)))
               \/ deal'.stage = worker.live
    PROVE  AloneInv'
<1>1. Works(w, worker) /\ worker.todo = wk[w].todo /\ worker.draft = wk[w].draft
    BY DEF Moves
<1>2. Alone(w)
    BY DEF AloneInv
<1>3. \A j \in DOMAIN rows : View(w)[j] = Seen(worker, j)
    BY <1>1 DEF View, Seen
<1>4. Clear(w, worker)
    BY <1>2, <1>3 DEF Alone, Clear
<1> QED BY <1>1, <1>4, CarriesAlone

LEMMA CheckAlone ==
    ASSUME HoldsInv, AloneInv, NEW w \in Workers, Check(w)
    PROVE  AloneInv'
<1>1. UNCHANGED <<events, rows, deal, mover>>
    BY DEF Check
<1>2. PICK worker :
          /\ Works(w, worker) /\ worker.pc \in {"check", "read"}
          /\ worker.pc = "read" => worker.todo = wk[w].todo /\ Clear(w, worker)
    BY CheckFacts DEF Clear
<1> QED BY <1>1, <1>2, NotActive, CarriesAlone

LEMMA ReadAlone ==
    ASSUME HoldsInv, AloneInv, NEW w \in Workers, Read(w)
    PROVE  AloneInv'
<1>1. PICK worker : Decided(w, worker)
    BY ReadFacts
<1>2. UNCHANGED <<events, rows, deal, mover>> /\ wk[w].pc = "read" /\ "read" \in Active
    BY ReadFacts DEF Active
<1>3. CASE \E row : Finishes(w, worker, row)
    BY <1>2, <1>3, FinishAlone DEF Finishes
<1>4. CASE /\ Moves(w, worker) /\ worker.live = deal.stage
           /\ worker.pc = "assemble" => Reconciliation(EvidenceOf(Current(w)))
    BY <1>2, <1>4, MovesAlone
<1> QED BY <1>1, <1>3, <1>4 DEF Decided

LEMMA AssembleAlone ==
    ASSUME HoldsInv, AloneInv, NEW w \in Workers, Assemble(w)
    PROVE  AloneInv'
<1>1. /\ wk[w].pc = "assemble" /\ "assemble" \in Active
      /\ UNCHANGED <<events, rows>>
    BY AssembleFacts DEF Active
<1>2. PICK worker : Retries(w, worker) \/ (Moves(w, worker) /\ worker.pc = "write")
    BY AssembleFacts
<1>3. Reconciliation(EvidenceOf(Current(w)))
    BY <1>1 DEF AloneInv, Undisturbed
<1> QED BY <1>1, <1>2, <1>3, RetriesHolds, FinishAlone, MovesAlone

LEMMA WriteAlone ==
    ASSUME HoldsInv, AloneInv, NEW w \in Workers, Write(w)
    PROVE  AloneInv'
<1>1. wk[w].pc = "write" /\ "write" \in Active /\ UNCHANGED <<events, rows>>
    BY WriteFacts DEF Active
<1>2. PICK worker : Retries(w, worker) \/ (Moves(w, worker) /\ worker.pc = "readback")
    BY WriteFacts
<1> QED BY <1>1, <1>2, RetriesHolds, FinishAlone, MovesAlone

LEMMA ReadbackAlone ==
    ASSUME HoldsInv, AloneInv, NEW w \in Workers, Readback(w)
    PROVE  AloneInv'
<1>1. wk[w].pc = "readback" /\ "readback" \in Active /\ UNCHANGED <<events, rows>>
    BY ReadbackFacts DEF Active
<1>2. PICK worker : Retries(w, worker) \/ (Moves(w, worker) /\ worker.pc = "comment")
    BY ReadbackFacts
<1> QED BY <1>1, <1>2, RetriesHolds, FinishAlone, MovesAlone

LEMMA CommentAlone ==
    ASSUME HoldsInv, AloneInv, NEW w \in Workers, Comment(w)
    PROVE  AloneInv'
<1>1. /\ wk[w].pc = "comment" /\ "comment" \in Active /\ UNCHANGED <<events, rows>>
      /\ \E worker : Works(w, worker) /\ worker.pc = "check"
    BY CommentFacts, RetriesHolds DEF Finishes, Active
<1> QED BY <1>1, FinishAlone

(* Whoever takes a batch, commits it or loses it is at no row.               *)
LEMMA RowsAlone ==
    ASSUME HoldsInv, AloneInv, rows' \in Seq(Row),
           \A v \in Workers : wk'[v] = wk[v] \/ wk'[v].pc \notin Active,
           \A v \in Workers : wk'[v] = wk[v] => Alone(v)',
           \A j \in DOMAIN rows : EvidenceOf(j)' = EvidenceOf(j),
           (deal'.stage = deal.stage /\ mover' = mover) \/ mover' = "manager"
    PROVE  AloneInv'
<1>1. ASSUME NEW v \in Workers, wk'[v] = wk[v]
      PROVE  Alone(v)' /\ Undisturbed(v)'
    <2>1. Undisturbed(v)
        BY DEF AloneInv
    <2> QED BY <1>1, <2>1, UndisturbedStays
<1>2. ASSUME NEW v \in Workers, wk'[v].pc \notin Active
      PROVE  Alone(v)' /\ Undisturbed(v)'
    BY <1>2 DEF Alone, Undisturbed, Active
<1> QED BY <1>1, <1>2 DEF AloneInv

LEMMA SameRowsAlone ==
    ASSUME HoldsInv, AloneInv, UNCHANGED <<events, rows>>,
           \A v \in Workers : wk'[v] = wk[v] \/ wk'[v].pc \notin Active,
           (deal'.stage = deal.stage /\ mover' = mover) \/ mover' = "manager"
    PROVE  AloneInv'
<1>1. rows' \in Seq(Row) /\ \A j \in DOMAIN rows : EvidenceOf(j)' = EvidenceOf(j)
    BY SameEvidence DEF HoldsInv, StageType
<1>2. \A v \in Workers : wk'[v] = wk[v] => Alone(v)'
    BY <1>1, AloneStays DEF AloneInv
<1> QED BY <1>1, <1>2, RowsAlone

LEMMA TakeAlone ==
    ASSUME HoldsInv, AloneInv, NEW w \in Workers, process_stage_outbox(w)
    PROVE  AloneInv'
<1>1. PICK worker \in Worker : wk' = [wk EXCEPT ![w] = worker] /\ worker.pc = "check"
    BY TakeFacts
<1>2. wk \in [Workers -> Worker]
    BY DEF HoldsInv, StageType
<1> QED BY <1>1, <1>2, TakeFacts, NotActive, SameRowsAlone

LEMMA CrashAlone ==
    ASSUME HoldsInv, AloneInv, NEW w \in Workers, Crash(w)
    PROVE  AloneInv'
<1>1. wk' = [wk EXCEPT ![w] = Idle] /\ UNCHANGED <<events, rows, deal, mover>>
    BY DEF Crash
<1>2. wk \in [Workers -> Worker]
    BY DEF HoldsInv, StageType
<1> QED BY <1>1, <1>2, IdleFacts, NotActive, SameRowsAlone

LEMMA CommitAlone ==
    ASSUME HoldsInv, AloneInv, NEW w \in Workers, Commit(w)
    PROVE  AloneInv'
<1>1. /\ rows' \in Seq(Row) /\ DOMAIN rows' = DOMAIN rows
      /\ \A j \in DOMAIN rows : rows'[j] = View(w)[j] /\ rows'[j].event = rows[j].event
      /\ \A v \in Workers : v # w => wk'[v] = wk[v]
      /\ wk'[w] = Idle
      /\ UNCHANGED <<events, deal, mover>>
    BY CommitFacts
<1>2. \A j \in DOMAIN rows : EvidenceOf(j)' = EvidenceOf(j)
    BY <1>1 DEF EvidenceOf
<1>3. \A j \in DOMAIN rows :
          rows'[j].status \in BLOCKING_PREDECESSOR_STATUSES =>
              rows[j].status \in BLOCKING_PREDECESSOR_STATUSES
    BY <1>1 DEF View, HoldsInv, Holds
<1>4. \A v \in Workers : wk'[v] = wk[v] => Alone(v)'
    BY <1>1, <1>2, <1>3, AloneStays DEF AloneInv
<1> QED BY <1>1, <1>2, <1>4, IdleFacts, NotActive, RowsAlone

LEMMA LearnAlone ==
    ASSUME HoldsInv, AloneInv, NEW e \in Evidence, Learn(e)
    PROVE  AloneInv'
<1>1. /\ UNCHANGED <<wk, deal, mover>>
      /\ \A j \in DOMAIN rows : rows'[j] = rows[j] /\ EvidenceOf(j)' = EvidenceOf(j)
      /\ \A j \in DOMAIN rows' : j \in DOMAIN rows \/ \A k \in DOMAIN rows : k < j
    BY LearnFacts
<1>2. rows' \in Seq(Row)
    BY LearnFacts DEF HoldsInv, StageType
<1>3. \A v \in Workers : wk'[v] = wk[v] => Alone(v)'
    BY <1>1, <1>2, AloneStays DEF AloneInv
<1> QED BY <1>1, <1>2, <1>3, RowsAlone

LEMMA ComesDueAlone ==
    ASSUME HoldsInv, AloneInv, NEW i \in DOMAIN rows, ComesDue(i)
    PROVE  AloneInv'
<1>1. /\ UNCHANGED <<events, wk, deal, mover>>
      /\ rows' \in Seq(Row) /\ DOMAIN rows' = DOMAIN rows
      /\ \A j \in DOMAIN rows :
            rows'[j].event = rows[j].event /\ rows'[j].status = rows[j].status
    BY ComesDueFacts
<1>2. \A j \in DOMAIN rows : EvidenceOf(j)' = EvidenceOf(j)
    BY <1>1 DEF EvidenceOf
<1>3. \A v \in Workers : wk'[v] = wk[v] => Alone(v)'
    BY <1>1, <1>2, AloneStays DEF AloneInv
<1> QED BY <1>1, <1>2, <1>3, RowsAlone

LEMMA ManagerAlone ==
    ASSUME HoldsInv, AloneInv, Manager
    PROVE  AloneInv'
<1>1. UNCHANGED <<events, rows, wk>>
      /\ ((deal'.stage = deal.stage /\ mover' = mover) \/ mover' = "manager")
    BY ManagerFacts DEF HoldsInv, StageType
<1> QED BY <1>1, SameRowsAlone

LEMMA NextAlone == HoldsInv /\ AloneInv /\ [Next]_vars => AloneInv'
<1> SUFFICES ASSUME HoldsInv, AloneInv, [Next]_vars PROVE AloneInv'
    OBVIOUS
<1>1. CASE \E e \in Evidence : Learn(e)
    BY <1>1, LearnAlone
<1>2. CASE \E w \in Workers : Step(w) \/ Crash(w)
    BY <1>2, TakeAlone, CheckAlone, ReadAlone, AssembleAlone, WriteAlone, ReadbackAlone,
       CommentAlone, CommitAlone, CrashAlone DEF Step
<1>3. CASE \E i \in DOMAIN rows : ComesDue(i)
    BY <1>3, ComesDueAlone
<1>4. CASE Manager
    BY <1>4, ManagerAlone
<1>5. CASE UNCHANGED vars
    BY <1>5, SameRowsAlone DEF vars
<1> QED BY <1>1, <1>2, <1>3, <1>4, <1>5 DEF Next

(* A row of logistics or of the site's signals is carried out while no other *)
(* row of the order is: between its look at the deal and its write only a    *)
(* manager can have moved the deal, however many workers run.                *)
THEOREM OrderedRowsAreAlone == Spec => OrderedRowsWriteAlone
<1>1. Init => HoldsInv /\ AloneInv
    <2> SUFFICES ASSUME Init PROVE HoldsInv /\ AloneInv
        OBVIOUS
    <2>1. \A w \in Workers : wk[w] = Idle
        BY DEF Init
    <2> QED BY <2>1, InitHolds, IdleFacts DEF AloneInv, Alone, Undisturbed, Active
<1>2. HoldsInv /\ AloneInv /\ [Next]_vars => (HoldsInv /\ AloneInv)'
    BY NextHolds, NextAlone
<1>3. AloneInv =>
          [\A w \in Workers :
              Write(w) /\ mover' = w /\ ~ Reconciliation(EvidenceOf(Current(w)))
                  => deal.stage = wk[w].live \/ mover = "manager"]_vars
    BY DEF AloneInv, Undisturbed, Write
<1> QED BY <1>1, <1>2, <1>3, PTL DEF Spec, OrderedRowsWriteAlone

=============================================================================
