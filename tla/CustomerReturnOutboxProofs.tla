---------------------- MODULE CustomerReturnOutboxProofs ----------------------
(***************************************************************************)
(* What the customer-return outbox records is what Bitrix24 holds, for any *)
(* number of workers that overtake each other; and with one worker at a    *)
(* time each task and message exists once, and every action follows the    *)
(* plain life cycle of ActionLifecycle.                                    *)
(*                                                                         *)
(* The difficulty is that a worker keeps what it loaded: its lease may run *)
(* out and the row go to another worker before it records its outcome.     *)
(* IInv therefore says of each worker what its program counter proves about*)
(* Bitrix24 (Effects), never anything about the row as it is by then.      *)
(***************************************************************************)
EXTENDS CustomerReturnOutbox, FiniteSetTheorems, TLAPS

Working(w) == worker[w].pc # "next"
Type(w) == worker[w].claim.type

(* What a worker keeps in its session while it delivers.                     *)
Holds(w) ==
    /\ worker[w].claim # None /\ worker[w].row # None
    /\ worker[w].row.status = "leased" /\ worker[w].row.token = worker[w].claim.token
    /\ actions[Type(w)] # None

(* What its program counter proves about Bitrix24.                           *)
Effects(w) ==
    /\ worker[w].pc # "fail" /\ Type(w) # "arrival_task" => worker[w].task # None
    /\ worker[w].pc = "close" => Type(w) = "complete_return_task"
    /\ worker[w].pc \in {"close", "complete"} /\ Type(w) # "arrival_task" =>
          comments[worker[w].task][Type(w)] > 0
    /\ worker[w].pc = "complete" => worker[w].task # None /\ Delivered(Type(w), worker[w].task)

WorkerOK(w) ==
    /\ \A c \in worker[w].queue : actions[c.type] # None
    /\ Working(w) => Holds(w) /\ Effects(w)

(* The registry inserts exactly the rows that do not exist, and completes    *)
(* only what employees complete.                                             *)
RegistryOK ==
    reg # None =>
        /\ \A a \in ActionTypes : reg.writes[a] # None =>
              /\ reg.writes[a].kind = "insert" <=> actions[a] = None
              /\ reg.writes[a].kind = "complete" => a \in ByHand
        /\ reg.event = "carrier_status" => carrier < MaxCarrierEvents

IInv == TypeOK /\ RegistryOK /\ \A w \in Workers : WorkerOK(w)

------------------------------------------------------------------------------
(* Of the actions that nobody completes by hand, attempts are never taken    *)
(* back and what is recorded is what happened.                               *)
NoCompletionByHand == ByHand = {}

AttemptsKept ==
    \A w \in Workers : Working(w) /\ Type(w) \in Promised =>
        worker[w].row.attempts <= actions[Type(w)].attempts
CompletedIsTrue ==
    \A a \in Promised : Is(actions[a], "completed") =>
        actions[a].ref # None /\ Delivered(a, actions[a].ref)
FailedIsExhausted ==
    \A a \in Promised : Is(actions[a], "failed") => actions[a].attempts >= MaxAttempts
OutcomesHold == AttemptsKept /\ CompletedIsTrue /\ FailedIsExhausted

------------------------------------------------------------------------------
(* One worker at a time.                                                     *)
OneWorker == \A v, w \in Workers : v = w

TaskLookedFor ==
    \A w \in Workers : worker[w].pc = "add" /\ Type(w) = "arrival_task" => tasks = {}
OneTask == TaskLookedFor /\ OneTaskPerShipment

CommentsAreOnTasks ==
    \A t \in TaskIds, a \in ActionTypes : comments[t][a] > 0 => t \in tasks
CommentKnown(w) ==
    Working(w) /\ worker[w].pc # "fail" /\ Type(w) # "arrival_task" =>
        /\ worker[w].task \in tasks
        /\ worker[w].pc = "add" => comments[worker[w].task][Type(w)] = 0
CommentLookedFor == \A w \in Workers : CommentKnown(w)
CommentsOnce == \A t \in TaskIds, a \in ActionTypes : comments[t][a] <= 1
OneComment == CommentsAreOnTasks /\ CommentLookedFor /\ CommentsOnce

(* Nobody but an employee takes a row from the worker that leased it.        *)
Leases(c) == actions[c.type].status = "leased" /\ actions[c.type].token = c.token
KeepsLeases(w) ==
    /\ \A c \in worker[w].queue : c.type \in Promised => Leases(c)
    /\ Working(w) =>
          /\ Type(w) \in Promised => Leases(worker[w].claim)
          /\ worker[w].claim \notin worker[w].queue
LeasesStand == \A w \in Workers : KeepsLeases(w)
RegistryOnlySchedules ==
    reg # None => \A a \in Promised :
        reg.writes[a] # None => reg.writes[a].kind \in {"insert", "reschedule"}
RowsAreLeased == LeasesStand /\ RegistryOnlySchedules

------------------------------------------------------------------------------
(* Operators.                                                                *)

LEMMA MinOfTwo ==
    ASSUME NEW x \in Nat, NEW y \in Nat
    PROVE  Min({x, y}) \in {x, y} /\ Min({x, y}) <= x /\ Min({x, y}) <= y
<1>1. \E m \in {x, y} : \A z \in {x, y} : m =< z OBVIOUS
<1>2. QED BY <1>1 DEF Min

LEMMA MaxOfTwo ==
    ASSUME NEW x \in Nat, NEW y \in Nat
    PROVE  Max({x, y}) \in {x, y} /\ Max({x, y}) >= x /\ Max({x, y}) >= y
<1>1. \E m \in {x, y} : \A z \in {x, y} : m >= z OBVIOUS
<1>2. QED BY <1>1 DEF Max

LEMMA Bounds ==
    /\ MaxAttempts \in Nat /\ MaxClaims \in Nat /\ MaxTasks \in Nat /\ MaxComments \in Nat
    /\ MaxCrashes \in Nat /\ MaxCarrierEvents \in Nat /\ Horizon \in Nat
    /\ LeaseTicks \in 1..Horizon
    /\ 0 \in 0..Horizon /\ 0 \in 0..LeaseTicks /\ 0 \in 0..MaxClaims
    /\ "arrival_task" \in ActionTypes /\ ReminderDues \subseteq 0..Horizon
BY OutboxAssumption

(* Every attempt has a delay: the last one serves all later attempts.        *)
LEMMA DelayType ==
    ASSUME NEW n \in Nat
    PROVE  retry_delay(n) \in 0..Horizon
<1>1. Delays \in Seq(0..Horizon) /\ Len(Delays) \in Nat /\ Len(Delays) >= 1
  BY OutboxAssumption
<1>2. Max({n, 1}) \in Nat /\ Max({n, 1}) >= 1 BY MaxOfTwo
<1>3. ASSUME NEW x \in Nat, NEW y \in Nat, x >= 1, y >= 1
      PROVE  Min({x, y}) \in 1..y
  BY <1>3, MinOfTwo
<1>4. Min({Max({n, 1}), Len(Delays)}) \in 1..Len(Delays) BY <1>1, <1>2, <1>3
<1>5. ASSUME NEW S, NEW s \in Seq(S), NEW i \in 1..Len(s) PROVE s[i] \in S
  OBVIOUS
<1>6. QED BY <1>1, <1>4, <1>5 DEF retry_delay

LEMMA RowFields ==
    ASSUME NEW row \in CustomerReturnAction
    PROVE  /\ row # None
           /\ row.status \in {"pending", "leased", "completed", "failed", "skipped"}
           /\ row.attempts \in Nat /\ row.due \in 0..Horizon /\ row.wait \in 0..Horizon
           /\ row.lease \in 0..LeaseTicks /\ row.token \in 0..MaxClaims
           /\ row.ref \in TaskIds \cup {None}
<1>1. row # None BY NoneAssumption
<1>2. QED BY <1>1 DEF CustomerReturnAction

LEMMA SettledType ==
    ASSUME NEW row \in CustomerReturnAction, NEW status \in {"pending", "completed", "failed", "skipped"}
    PROVE  /\ Settled(row, status) \in CustomerReturnAction
           /\ Settled(row, status).status = status
           /\ Settled(row, status).attempts = row.attempts
           /\ Settled(row, status).ref = row.ref
BY Bounds DEF Settled, CustomerReturnAction

LEMMA NewActionType ==
    ASSUME NEW due \in 0..Horizon
    PROVE  NewAction(due) \in CustomerReturnAction /\ NewAction(due).status = "pending"
BY Bounds DEF NewAction, CustomerReturnAction

LEMMA WriteFields ==
    ASSUME NEW write \in Write
    PROVE  /\ write # None
           /\ write.kind \in {"insert", "reschedule", "skip", "complete"}
           /\ write.kind \in {"insert", "reschedule"} => write.due \in 0..Horizon
           /\ write.kind = "complete" => write.ref \in ManualRefs /\ write.attempts \in Nat
<1>1. write # None BY NoneAssumption
<1>2. QED BY <1>1 DEF Write

(* An UPDATE of the registry leaves a well-formed row.                       *)
LEMMA WrittenType ==
    ASSUME NEW row \in CustomerReturnAction \cup {None}, NEW write \in Write \cup {None},
           write # None => (write.kind = "insert" <=> row = None)
    PROVE  /\ Written(row, write) \in CustomerReturnAction \cup {None}
           /\ row # None \/ write # None => Written(row, write) \in CustomerReturnAction
           /\ write = None => Written(row, write) = row
           /\ write # None /\ write.kind = "insert" => Written(row, write).status = "pending"
           /\ write # None /\ write.kind = "reschedule" =>
                 /\ Written(row, write).status = row.status
                 /\ Written(row, write).token = row.token
                 /\ Written(row, write).attempts = row.attempts
                 /\ Written(row, write).ref = row.ref
           /\ write # None /\ write.kind = "skip" =>
                 /\ Written(row, write).status = "skipped"
                 /\ Written(row, write).attempts = row.attempts
<1>1. CASE write = None BY <1>1 DEF Written
<1>2. CASE write # None /\ write.kind = "insert"
  <2>1. Written(row, write) = NewAction(write.due) BY <1>2 DEF Written
  <2>2. QED BY <1>2, <2>1, NewActionType, WriteFields
<1>3. CASE write # None /\ write.kind = "reschedule"
  <2>1. Written(row, write) = [row EXCEPT !.due = write.due] BY <1>3 DEF Written
  <2>2. row \in CustomerReturnAction /\ write.due \in 0..Horizon BY <1>3, WriteFields
  <2>3. QED BY <1>3, <2>1, <2>2 DEF CustomerReturnAction
<1>4. CASE write # None /\ write.kind = "skip"
  <2>1. Written(row, write) = Settled(row, "skipped") BY <1>4 DEF Written
  <2>2. QED BY <1>4, <2>1, SettledType
<1>5. CASE write # None /\ write.kind = "complete"
  <2>1. Written(row, write) =
          [Settled(row, "completed") EXCEPT !.ref = write.ref, !.attempts = write.attempts]
    BY <1>5 DEF Written
  <2>2. /\ Settled(row, "completed") \in CustomerReturnAction
        /\ write.ref \in TaskIds /\ write.attempts \in Nat
    BY <1>5, SettledType, WriteFields, OutboxAssumption DEF TaskIds
  <2>3. Written(row, write) \in CustomerReturnAction BY <2>1, <2>2 DEF CustomerReturnAction
  <2>4. QED BY <1>5, <2>3
<1>6. QED BY <1>1, <1>2, <1>3, <1>4, <1>5, WriteFields

LEMMA ReleasedType ==
    ASSUME NEW row \in CustomerReturnAction
    PROVE  /\ Released(row) \in CustomerReturnAction
           /\ Released(row).attempts = row.attempts
<1>1. [row EXCEPT !.status = "pending", !.token = 0] \in CustomerReturnAction
  BY Bounds DEF CustomerReturnAction
<1>2. QED BY <1>1 DEF Released, CustomerReturnAction

LEMMA LeasedType ==
    ASSUME NEW row \in CustomerReturnAction, NEW n \in 1..MaxClaims
    PROVE  /\ Leased(row, n) \in CustomerReturnAction
           /\ Leased(row, n).status = "leased" /\ Leased(row, n).token = n
           /\ Leased(row, n).attempts = row.attempts + 1
<1>1. LeaseTicks \in 0..LeaseTicks /\ n \in 0..MaxClaims BY Bounds
<1>2. row.attempts + 1 \in Nat BY RowFields
<1>3. QED BY <1>1, <1>2 DEF Leased, CustomerReturnAction

(* A row that can be claimed is pending, or its lease has run out.           *)
LEMMA ClaimableRow ==
    ASSUME NEW row \in CustomerReturnAction \cup {None}, Available(Released(row))
    PROVE  row \in CustomerReturnAction /\ (row.status = "pending" \/ LeaseRunOut(row))
BY RowFields DEF Available, Released, LeaseRunOut, Is

LEMMA StateFields ==
    ASSUME NEW x \in WorkerState
    PROVE  /\ x.pc \in {"next", "find", "add", "close", "complete", "fail"}
           /\ x.queue \subseteq ClaimedCustomerReturnAction
           /\ x.claim \in ClaimedCustomerReturnAction \cup {None}
           /\ x.row \in CustomerReturnAction \cup {None}
           /\ x.task \in TaskIds \cup {None} /\ x.age \in 0..Horizon
BY DEF WorkerState

LEMMA ClaimFields ==
    ASSUME NEW c \in ClaimedCustomerReturnAction
    PROVE  c # None /\ c.type \in ActionTypes /\ c.token \in 1..MaxClaims
<1>1. c # None BY NoneAssumption
<1>2. QED BY <1>1 DEF ClaimedCustomerReturnAction

LEMMA IdleType == Idle \in WorkerState /\ Idle.pc = "next" /\ Idle.queue = {}
BY Bounds DEF Idle, WorkerState

------------------------------------------------------------------------------
(* Steps.                                                                    *)

PCs == {"next", "find", "add", "close", "complete", "fail"}
BitrixOK ==
    /\ tasks \subseteq 1..MaxTasks /\ closed \subseteq TaskIds
    /\ comments \in [TaskIds -> [ActionTypes -> 0..MaxComments]]
Grows ==
    /\ tasks \subseteq tasks' /\ closed \subseteq closed'
    /\ \A t \in TaskIds, a \in ActionTypes : comments[t][a] > 0 => comments'[t][a] > 0
RowsStay == \A a \in ActionTypes : actions[a] # None => actions'[a] # None
SameWork(w) ==
    /\ worker'[w].pc = worker[w].pc /\ worker'[w].claim = worker[w].claim
    /\ worker'[w].row = worker[w].row /\ worker'[w].task = worker[w].task

LEMMA TaskIdsAre == tasks \subseteq 1..MaxTasks => tasks \subseteq TaskIds
BY Bounds DEF TaskIds

LEMMA WorkerFields ==
    ASSUME TypeOK, NEW w \in Workers
    PROVE  /\ worker[w] \in WorkerState /\ worker[w].pc \in PCs
           /\ \A c \in worker[w].queue : c \in ClaimedCustomerReturnAction /\ c.type \in ActionTypes
           /\ worker[w].claim \in ClaimedCustomerReturnAction \cup {None}
           /\ worker[w].claim # None => Type(w) \in ActionTypes
           /\ worker[w].row \in CustomerReturnAction \cup {None}
           /\ worker[w].task \in TaskIds \cup {None} /\ worker[w].age \in 0..Horizon
<1>1. worker[w] \in WorkerState BY DEF TypeOK
<1>2. QED BY <1>1, StateFields, ClaimFields DEF PCs, Type

LEMMA MovesType ==
    ASSUME TypeOK, NEW w \in Workers, NEW pc \in PCs, NEW task \in TaskIds \cup {None},
           Moves(w, pc, task)
    PROVE  /\ worker' \in [Workers -> WorkerState]
           /\ worker'[w].pc = pc /\ worker'[w].task = task
           /\ worker'[w].queue = worker[w].queue /\ worker'[w].claim = worker[w].claim
           /\ worker'[w].row = worker[w].row
           /\ \A v \in Workers : v # w => worker'[v] = worker[v]
<1>1. worker \in [Workers -> WorkerState] /\ worker[w] \in WorkerState BY DEF TypeOK
<1>2. worker' = [worker EXCEPT ![w] = [worker[w] EXCEPT !.pc = pc, !.task = task]]
  BY <1>1 DEF Moves, WorkerState
<1>3. [worker[w] EXCEPT !.pc = pc, !.task = task] \in WorkerState
  BY <1>1 DEF WorkerState, PCs
<1>4. worker'[w] = [worker[w] EXCEPT !.pc = pc, !.task = task] BY <1>1, <1>2
<1>5. /\ worker'[w].pc = pc /\ worker'[w].task = task
      /\ worker'[w].queue = worker[w].queue /\ worker'[w].claim = worker[w].claim
      /\ worker'[w].row = worker[w].row
  BY <1>1, <1>4 DEF WorkerState
<1>6. QED BY <1>1, <1>2, <1>3, <1>5

(* What Bitrix24 holds stays there, so what a worker knows of it stays true. *)
LEMMA EffectsStay ==
    ASSUME TypeOK, Grows, NEW w \in Workers, Working(w), Holds(w), Effects(w), SameWork(w)
    PROVE  Effects(w)'
<1>1. Type(w)' = Type(w) /\ worker'[w].task = worker[w].task /\ worker'[w].pc = worker[w].pc
  BY DEF SameWork, Type
<1>2. Type(w) \in ActionTypes /\ worker[w].task \in TaskIds \cup {None}
  BY WorkerFields DEF Holds
<1>3. ASSUME worker[w].task # None, Delivered(Type(w), worker[w].task)
      PROVE  Delivered(Type(w), worker[w].task)'
  BY <1>1, <1>2, <1>3 DEF Delivered, Grows
<1>4. QED BY <1>1, <1>2, <1>3 DEF Effects, Grows

LEMMA WorkerKept ==
    ASSUME TypeOK, Grows, RowsStay, NEW w \in Workers, WorkerOK(w),
           worker'[w].queue \subseteq worker[w].queue,
           SameWork(w) \/ worker'[w].pc = "next"
    PROVE  WorkerOK(w)'
<1>1. \A c \in worker[w].queue : c.type \in ActionTypes BY WorkerFields
<1>2. \A c \in worker'[w].queue : actions'[c.type] # None
  BY <1>1 DEF WorkerOK, RowsStay
<1>3. ASSUME Working(w)' PROVE Holds(w)' /\ Effects(w)'
  <2>1. SameWork(w) /\ Working(w) BY <1>3 DEF Working, SameWork
  <2>2. Holds(w) /\ Effects(w) BY <2>1 DEF WorkerOK
  <2>3. Type(w) \in ActionTypes BY <2>2, WorkerFields DEF Holds
  <2>4. Holds(w)' BY <2>1, <2>2, <2>3 DEF Holds, SameWork, Type, RowsStay
  <2>5. QED BY <2>1, <2>2, <2>4, EffectsStay
<1>4. QED BY <1>2, <1>3 DEF WorkerOK

(* A step of w between load and record leaves what it holds, the rows and    *)
(* what Bitrix24 has.                                                        *)
Delivers(w) ==
    /\ Working(w) /\ Working(w)' /\ Grows
    /\ UNCHANGED <<actions, registry, claims, crashes>>
    /\ worker'[w].claim = worker[w].claim /\ worker'[w].row = worker[w].row
    /\ worker'[w].queue = worker[w].queue
    /\ \A v \in Workers : v # w => worker'[v] = worker[v]

(* A step of worker w between load and record.                               *)
LEMMA DeliveryStep ==
    ASSUME IInv, NEW w \in Workers, Working(w),
           NEW pc \in PCs \ {"next"}, NEW task \in TaskIds \cup {None}, Moves(w, pc, task),
           UNCHANGED <<actions, registry, claims, crashes>>, BitrixOK', Grows, Effects(w)'
    PROVE  IInv' /\ Delivers(w)
<1>1. TypeOK /\ WorkerOK(w) /\ \A v \in Workers : WorkerOK(v) BY DEF IInv
<1>2. /\ worker' \in [Workers -> WorkerState]
      /\ worker'[w].pc = pc /\ worker'[w].task = task
      /\ worker'[w].queue = worker[w].queue /\ worker'[w].claim = worker[w].claim
      /\ worker'[w].row = worker[w].row
      /\ \A v \in Workers : v # w => worker'[v] = worker[v]
  BY <1>1, MovesType
<1>3. TypeOK' BY <1>1, <1>2 DEF TypeOK, BitrixOK, registry
<1>4. RegistryOK' BY DEF IInv, RegistryOK, registry
<1>5. WorkerOK(w)'
  <2>1. Holds(w) BY <1>1 DEF WorkerOK
  <2>2. Holds(w)' BY <2>1, <1>2 DEF Holds, Type
  <2>3. QED BY <2>2, <1>1, <1>2 DEF WorkerOK
<1>6. ASSUME NEW v \in Workers, v # w PROVE WorkerOK(v)'
  <2>1. SameWork(v) /\ worker'[v].queue \subseteq worker[v].queue BY <1>2, <1>6 DEF SameWork
  <2>2. RowsStay BY DEF RowsStay
  <2>3. QED BY <1>1, <2>1, <2>2, WorkerKept
<1>7. Working(w)' BY <1>2 DEF Working
<1>8. QED BY <1>2, <1>3, <1>4, <1>5, <1>6, <1>7 DEF IInv, Delivers

LEMMA BitrixErrorStep ==
    ASSUME IInv, NEW w \in Workers, bitrix_error(w)
    PROVE  IInv' /\ Delivers(w)
<1>1. /\ worker[w].pc \in {"find", "add", "close"} /\ Moves(w, "fail", worker[w].task)
      /\ UNCHANGED <<actions, registry, claims, crashes>> /\ UNCHANGED bitrix
  BY DEF bitrix_error
<1>2. TypeOK /\ worker[w].task \in TaskIds \cup {None} BY WorkerFields DEF IInv
<1>3. Working(w) /\ "fail" \in PCs \ {"next"} BY <1>1 DEF Working, PCs
<1>4. BitrixOK' /\ Grows BY <1>1, <1>2 DEF BitrixOK, Grows, TypeOK, bitrix
<1>5. worker'[w].pc = "fail" BY <1>1, <1>2, MovesType DEF PCs
<1>6. Effects(w)' BY <1>5 DEF Effects
<1>7. QED BY <1>1, <1>2, <1>3, <1>4, <1>6, DeliveryStep

LEMMA FindTaskStep ==
    ASSUME IInv, NEW w \in Workers, find_task(w)
    PROVE  IInv' /\ Delivers(w)
<1>1. /\ worker[w].pc = "find" /\ Type(w) = "arrival_task"
      /\ UNCHANGED <<actions, registry, claims, crashes>> /\ UNCHANGED bitrix
  BY DEF find_task, At, Delivering, Type
<1>2. TypeOK /\ tasks \subseteq TaskIds BY TaskIdsAre DEF IInv, TypeOK
<1>3. Working(w) /\ "add" \in PCs \ {"next"} /\ "complete" \in PCs \ {"next"}
  BY <1>1 DEF Working, PCs
<1>4. BitrixOK' /\ Grows BY <1>1, <1>2 DEF BitrixOK, Grows, TypeOK, bitrix
<1>5. CASE tasks = {} /\ Moves(w, "add", None)
  <2>1. worker'[w].pc = "add" /\ Type(w)' = "arrival_task"
    BY <1>1, <1>2, <1>5, MovesType DEF PCs, Type
  <2>2. Effects(w)' BY <2>1 DEF Effects
  <2>3. QED BY <1>1, <1>2, <1>3, <1>4, <1>5, <2>2, DeliveryStep
<1>6. ASSUME NEW t \in tasks, Moves(w, "complete", t) PROVE IInv' /\ Delivers(w)
  <2>1. worker'[w].pc = "complete" /\ Type(w)' = "arrival_task" /\ worker'[w].task = t
    BY <1>1, <1>2, <1>6, MovesType DEF PCs, Type
  <2>2. t # None /\ t \in tasks' BY <1>1, <1>2, OutboxAssumption DEF bitrix, TaskIds
  <2>3. Effects(w)' BY <2>1, <2>2 DEF Effects, Delivered
  <2>4. QED BY <1>1, <1>2, <1>3, <1>4, <1>6, <2>3, DeliveryStep
<1>7. QED BY <1>5, <1>6 DEF find_task

(* The new task's id is the next one.                                        *)
LEMMA NextTask ==
    ASSUME TypeOK, Cardinality(tasks) < MaxTasks
    PROVE  /\ Cardinality(tasks) \in Nat
           /\ Cardinality(tasks) + 1 \in 1..MaxTasks /\ Cardinality(tasks) + 1 \in TaskIds
<1>1. tasks \subseteq 1..MaxTasks /\ IsFiniteSet(1..MaxTasks)
  BY Bounds, FS_Interval DEF TypeOK
<1>2. Cardinality(tasks) \in Nat BY <1>1, FS_Subset, FS_CardinalityType
<1>3. QED BY <1>2, Bounds DEF TaskIds

LEMMA AddTaskStep ==
    ASSUME IInv, NEW w \in Workers, add_task(w)
    PROVE  IInv' /\ Delivers(w)
<1> DEFINE t == Cardinality(tasks) + 1
<1>1. /\ worker[w].pc = "add" /\ Type(w) = "arrival_task" /\ Cardinality(tasks) < MaxTasks
      /\ tasks' = tasks \cup {t}
      /\ UNCHANGED <<actions, registry, claims, crashes>> /\ UNCHANGED <<comments, closed>>
  BY DEF add_task, At, Delivering, Type
<1>2. TypeOK /\ t \in 1..MaxTasks /\ t \in TaskIds /\ t # None
  BY <1>1, NextTask, OutboxAssumption DEF IInv, TaskIds
<1> HIDE DEF t
<1>3. Working(w) /\ "fail" \in PCs \ {"next"} /\ "complete" \in PCs \ {"next"}
  BY <1>1 DEF Working, PCs
<1>4. BitrixOK' /\ Grows BY <1>1, <1>2 DEF BitrixOK, Grows, TypeOK
<1>5. CASE Moves(w, "complete", t)
  <2>1. worker'[w].pc = "complete" /\ Type(w)' = "arrival_task" /\ worker'[w].task = t
    BY <1>1, <1>2, <1>5, MovesType DEF PCs, Type
  <2>2. Effects(w)' BY <1>1, <1>2, <2>1 DEF Effects, Delivered
  <2>3. QED BY <1>1, <1>2, <1>3, <1>4, <1>5, <2>2, DeliveryStep
<1>6. CASE Moves(w, "fail", None)
  <2>1. worker'[w].pc = "fail" BY <1>2, <1>6, MovesType DEF PCs
  <2>2. Effects(w)' BY <2>1 DEF Effects
  <2>3. QED BY <1>1, <1>2, <1>3, <1>4, <1>6, <2>2, DeliveryStep
<1>7. QED BY <1>5, <1>6 DEF add_task, t

(* A worker that delivers a message knows its task.                          *)
LEMMA MessageFacts ==
    ASSUME IInv, NEW w \in Workers, Working(w), worker[w].pc # "fail",
           Delivering(w, MessageTypes)
    PROVE  /\ TypeOK /\ Type(w) \in ActionTypes /\ Type(w) # "arrival_task"
           /\ worker[w].task \in TaskIds /\ worker[w].task # None
           /\ AfterComment(w) \in {"close", "complete"}
           /\ AfterComment(w) = "close" <=> Type(w) = "complete_return_task"
<1>1. TypeOK /\ Effects(w) BY DEF IInv, WorkerOK
<1>2. Type(w) \in ActionTypes /\ Type(w) # "arrival_task" BY DEF Delivering, MessageTypes, Type
<1>3. worker[w].task \in TaskIds /\ worker[w].task # None
  BY <1>1, <1>2, WorkerFields DEF Effects
<1>4. QED BY <1>1, <1>2, <1>3 DEF AfterComment, Type

(* The comment of its type is on the task of w.                              *)
LEMMA EffectsOfComment ==
    ASSUME IInv, NEW w \in Workers, Working(w), worker[w].pc # "fail",
           Delivering(w, MessageTypes),
           worker'[w].pc = AfterComment(w), worker'[w].task = worker[w].task,
           worker'[w].claim = worker[w].claim,
           comments'[worker[w].task][Type(w)] > 0
    PROVE  Effects(w)'
<1>1. /\ Type(w) # "arrival_task" /\ worker[w].task # None
      /\ AfterComment(w) \in {"close", "complete"}
      /\ AfterComment(w) = "close" <=> Type(w) = "complete_return_task"
  BY MessageFacts
<1>2. Type(w)' = Type(w) BY DEF Type
<1>3. QED BY <1>1, <1>2 DEF Effects, Delivered

LEMMA FindCommentStep ==
    ASSUME IInv, NEW w \in Workers, find_comment(w)
    PROVE  IInv' /\ Delivers(w)
<1> DEFINE found == comments[worker[w].task][Type(w)] > 0
           pc == IF found THEN AfterComment(w) ELSE "add"
<1>1. /\ worker[w].pc = "find" /\ Delivering(w, MessageTypes)
      /\ Moves(w, pc, worker[w].task)
      /\ UNCHANGED <<actions, registry, claims, crashes>> /\ UNCHANGED bitrix
  BY DEF find_comment, At, Type
<1>2. Working(w) BY <1>1 DEF Working
<1>3. /\ TypeOK /\ worker[w].task \in TaskIds /\ worker[w].task # None
      /\ AfterComment(w) \in {"close", "complete"}
  BY <1>1, <1>2, MessageFacts
<1>4. pc \in PCs \ {"next"} BY <1>3 DEF PCs
<1>5. BitrixOK' /\ Grows BY <1>1, <1>3 DEF BitrixOK, Grows, TypeOK, bitrix
<1>6. /\ worker'[w].pc = pc /\ worker'[w].task = worker[w].task
      /\ worker'[w].claim = worker[w].claim
  BY <1>1, <1>3, <1>4, MovesType
<1>7. CASE found
  <2>1. comments'[worker[w].task][Type(w)] > 0 BY <1>1, <1>7 DEF bitrix
  <2>2. Effects(w)' BY <1>1, <1>2, <1>6, <1>7, <2>1, EffectsOfComment
  <2>3. QED BY <1>1, <1>2, <1>3, <1>4, <1>5, <2>2, DeliveryStep
<1>8. CASE ~found
  <2>1. Effects(w)' BY <1>3, <1>6, <1>8 DEF Effects
  <2>2. QED BY <1>1, <1>2, <1>3, <1>4, <1>5, <2>1, DeliveryStep
<1>9. QED BY <1>7, <1>8

LEMMA AddCommentStep ==
    ASSUME IInv, NEW w \in Workers, add_comment(w)
    PROVE  IInv' /\ Delivers(w)
<1>1. /\ worker[w].pc = "add" /\ Delivering(w, MessageTypes)
      /\ comments[worker[w].task][Type(w)] < MaxComments
      /\ comments' = [comments EXCEPT ![worker[w].task][Type(w)] = @ + 1]
      /\ UNCHANGED <<actions, registry, claims, crashes>> /\ UNCHANGED <<tasks, closed>>
  BY DEF add_comment, At, Type
<1>2. Working(w) BY <1>1 DEF Working
<1>3. /\ TypeOK /\ worker[w].task \in TaskIds /\ worker[w].task # None
      /\ Type(w) \in ActionTypes /\ AfterComment(w) \in {"close", "complete"}
  BY <1>1, <1>2, MessageFacts
<1>4. comments \in [TaskIds -> [ActionTypes -> 0..MaxComments]] BY <1>3 DEF TypeOK
<1>5. /\ comments' \in [TaskIds -> [ActionTypes -> 0..MaxComments]]
      /\ comments'[worker[w].task][Type(w)] = comments[worker[w].task][Type(w)] + 1
      /\ \A t \in TaskIds, a \in ActionTypes : comments[t][a] > 0 => comments'[t][a] > 0
  <2>1. comments[worker[w].task][Type(w)] + 1 \in 1..MaxComments BY <1>1, <1>3, <1>4, Bounds
  <2>2. QED BY <1>1, <1>3, <1>4, <2>1
<1>6. BitrixOK' /\ Grows BY <1>1, <1>3, <1>5 DEF BitrixOK, Grows, TypeOK
<1>7. ASSUME NEW pc \in {AfterComment(w), "fail"}, Moves(w, pc, worker[w].task)
      PROVE  IInv' /\ Delivers(w)
  <2>1. pc \in PCs \ {"next"} BY <1>3 DEF PCs
  <2>2. /\ worker'[w].pc = pc /\ worker'[w].task = worker[w].task
        /\ worker'[w].claim = worker[w].claim
    BY <1>3, <1>7, <2>1, MovesType
  <2>3. comments'[worker[w].task][Type(w)] > 0 BY <1>3, <1>4, <1>5
  <2>4. Effects(w)'
    <3>1. CASE pc = "fail" BY <2>2, <3>1 DEF Effects
    <3>2. CASE pc = AfterComment(w) BY <1>1, <1>2, <2>2, <2>3, <3>2, EffectsOfComment
    <3>3. QED BY <3>1, <3>2
  <2>5. QED BY <1>1, <1>2, <1>3, <1>6, <1>7, <2>1, <2>4, DeliveryStep
<1>8. QED BY <1>7 DEF add_comment

LEMMA EnsureCompletedStep ==
    ASSUME IInv, NEW w \in Workers, ensure_completed(w)
    PROVE  IInv' /\ Delivers(w)
<1>1. /\ worker[w].pc = "close" /\ closed' = closed \cup {worker[w].task}
      /\ UNCHANGED <<actions, registry, claims, crashes>> /\ UNCHANGED <<tasks, comments>>
  BY DEF ensure_completed, At
<1>2. Working(w) BY <1>1 DEF Working
<1>3. TypeOK /\ Holds(w) /\ Effects(w) BY <1>2 DEF IInv, WorkerOK
<1>4. Type(w) = "complete_return_task" /\ worker[w].task # None
      /\ comments[worker[w].task][Type(w)] > 0
  BY <1>1, <1>3 DEF Effects
<1>5. worker[w].task \in TaskIds BY <1>3, <1>4, WorkerFields
<1>6. BitrixOK' /\ Grows BY <1>1, <1>3, <1>5 DEF BitrixOK, Grows, TypeOK
<1>7. ASSUME NEW pc \in {"complete", "fail"}, Moves(w, pc, worker[w].task)
      PROVE  IInv' /\ Delivers(w)
  <2>1. pc \in PCs \ {"next"} BY DEF PCs
  <2>2. /\ worker'[w].pc = pc /\ worker'[w].task = worker[w].task
        /\ Type(w)' = Type(w)
    BY <1>3, <1>5, <1>7, <2>1, MovesType DEF Type
  <2>3. Effects(w)' BY <1>1, <1>4, <2>2 DEF Effects, Delivered
  <2>4. QED BY <1>1, <1>2, <1>3, <1>5, <1>6, <1>7, <2>1, <2>3, DeliveryStep
<1>8. QED BY <1>7 DEF ensure_completed

------------------------------------------------------------------------------
(* The outcome is recorded: what the row becomes and what is left to do.     *)
LEMMA RecordStep ==
    ASSUME IInv, NEW w \in Workers, Working(w), NEW row \in CustomerReturnAction, Record(w, row)
    PROVE  /\ IInv'
           /\ actions' = [actions EXCEPT ![Type(w)] = row] /\ Type(w) \in ActionTypes
           /\ worker'[w].pc = "next" /\ worker'[w].queue = worker[w].queue
           /\ \A v \in Workers : v # w => worker'[v] = worker[v]
<1>1. TypeOK /\ Holds(w) /\ \A v \in Workers : WorkerOK(v) BY DEF IInv, WorkerOK
<1>2. Type(w) \in ActionTypes BY <1>1, WorkerFields DEF Holds
<1> DEFINE age == IF worker[w].queue = {} THEN 0 ELSE worker[w].age
           next == [Idle EXCEPT !.queue = worker[w].queue, !.age = age]
<1>3. /\ actions' = [actions EXCEPT ![Type(w)] = row]
      /\ worker' = [worker EXCEPT ![w] = next]
      /\ UNCHANGED <<registry, claims, crashes>> /\ UNCHANGED bitrix
  BY DEF Record, Type
<1>4. next \in WorkerState /\ next.pc = "next" /\ next.queue = worker[w].queue
  <2>1. worker[w].queue \subseteq ClaimedCustomerReturnAction /\ age \in 0..Horizon
    BY <1>1, Bounds, StateFields DEF TypeOK
  <2>2. QED BY <2>1 DEF Idle, WorkerState
<1> HIDE DEF next
<1>5. /\ worker' \in [Workers -> WorkerState]
      /\ worker'[w] = next /\ \A v \in Workers : v # w => worker'[v] = worker[v]
  BY <1>1, <1>3, <1>4 DEF TypeOK
<1>6. actions' \in [ActionTypes -> CustomerReturnAction \cup {None}]
  BY <1>1, <1>2, <1>3 DEF TypeOK
<1>7. TypeOK' BY <1>1, <1>3, <1>5, <1>6 DEF TypeOK, registry, bitrix
<1>8. \A a \in ActionTypes : actions[a] = None <=> actions'[a] = None
  BY <1>1, <1>2, <1>3, RowFields DEF TypeOK, Holds
<1>9. RegistryOK' BY <1>3, <1>8 DEF IInv, RegistryOK, registry
<1>10. Grows BY <1>3 DEF Grows, bitrix
<1>11. ASSUME NEW v \in Workers PROVE WorkerOK(v)'
  <2>1. worker'[v].queue \subseteq worker[v].queue /\ (SameWork(v) \/ worker'[v].pc = "next")
    BY <1>4, <1>5 DEF SameWork
  <2>2. RowsStay BY <1>8 DEF RowsStay
  <2>3. QED BY <1>1, <1>10, <2>1, <2>2, WorkerKept
<1>12. QED BY <1>2, <1>3, <1>4, <1>5, <1>7, <1>9, <1>11 DEF IInv

(* What complete_claimed_action and fail_claimed_action write.               *)
CompletedRow(w) == [Settled(actions[Type(w)], "completed") EXCEPT !.ref = worker[w].task]
FailedRow(w) ==
    IF Exhausted(worker[w].row) THEN Settled(actions[Type(w)], "failed")
    ELSE [Settled(actions[Type(w)], "pending") EXCEPT !.wait = Backoff(w)]

LEMMA CompletedRowType ==
    ASSUME IInv, NEW w \in Workers, worker[w].pc = "complete"
    PROVE  /\ CompletedRow(w) \in CustomerReturnAction
           /\ CompletedRow(w).status = "completed" /\ CompletedRow(w).ref = worker[w].task
           /\ CompletedRow(w).attempts = actions[Type(w)].attempts
           /\ Delivered(Type(w), worker[w].task)
<1>1. TypeOK /\ Holds(w) /\ Effects(w) BY DEF IInv, WorkerOK, Working
<1>2. Type(w) \in ActionTypes /\ worker[w].task \in TaskIds \cup {None}
  BY <1>1, WorkerFields DEF Holds
<1>3. actions[Type(w)] \in CustomerReturnAction BY <1>1, <1>2 DEF TypeOK, Holds
<1>4. /\ Settled(actions[Type(w)], "completed") \in CustomerReturnAction
      /\ Settled(actions[Type(w)], "completed").status = "completed"
      /\ Settled(actions[Type(w)], "completed").attempts = actions[Type(w)].attempts
  BY <1>3, SettledType
<1>5. Delivered(Type(w), worker[w].task) BY <1>1 DEF Effects
<1>6. QED BY <1>2, <1>4, <1>5 DEF CompletedRow, CustomerReturnAction

LEMMA FailedRowType ==
    ASSUME IInv, NEW w \in Workers, worker[w].pc = "fail"
    PROVE  /\ FailedRow(w) \in CustomerReturnAction
           /\ FailedRow(w).status \in {"failed", "pending"}
           /\ FailedRow(w).attempts = actions[Type(w)].attempts
           /\ FailedRow(w).status = "failed" => worker[w].row.attempts >= MaxAttempts
<1>1. TypeOK /\ Holds(w) BY DEF IInv, WorkerOK, Working
<1>2. Type(w) \in ActionTypes /\ worker[w].row \in CustomerReturnAction /\ worker[w].age \in 0..Horizon
  BY <1>1, WorkerFields DEF Holds
<1>3. actions[Type(w)] \in CustomerReturnAction BY <1>1, <1>2 DEF TypeOK, Holds
<1>4. Backoff(w) \in 0..Horizon
  <2>1. retry_delay(worker[w].row.attempts) \in 0..Horizon BY <1>2, DelayType, RowFields
  <2>2. QED BY <1>2, <2>1, Bounds DEF Backoff
<1>5. ASSUME NEW status \in {"failed", "pending"}
      PROVE  /\ Settled(actions[Type(w)], status) \in CustomerReturnAction
             /\ Settled(actions[Type(w)], status).status = status
             /\ Settled(actions[Type(w)], status).attempts = actions[Type(w)].attempts
  BY <1>3, SettledType
<1>6. CASE Exhausted(worker[w].row) BY <1>5, <1>6 DEF FailedRow, Exhausted
<1>7. CASE ~Exhausted(worker[w].row)
  <2>1. FailedRow(w) = [Settled(actions[Type(w)], "pending") EXCEPT !.wait = Backoff(w)]
    BY <1>7 DEF FailedRow
  <2>2. QED BY <1>4, <1>5, <2>1 DEF CustomerReturnAction
<1>8. QED BY <1>6, <1>7

LEMMA CompleteStep ==
    ASSUME IInv, NEW w \in Workers, complete_claimed_action(w)
    PROVE  /\ IInv' /\ worker[w].pc = "complete" /\ Record(w, CompletedRow(w))
<1>1. worker[w].pc = "complete" /\ Record(w, CompletedRow(w)) /\ Working(w)
  BY DEF complete_claimed_action, CompletedRow, At, Type, Working
<1>2. QED BY <1>1, CompletedRowType, RecordStep

LEMMA FailStep ==
    ASSUME IInv, NEW w \in Workers, fail_claimed_action(w)
    PROVE  /\ IInv' /\ worker[w].pc = "fail" /\ Record(w, FailedRow(w))
<1>1. worker[w].pc = "fail" /\ Record(w, FailedRow(w)) /\ Working(w)
  BY DEF fail_claimed_action, FailedRow, At, Type, Working
<1>2. QED BY <1>1, FailedRowType, RecordStep

------------------------------------------------------------------------------
(* Claiming and loading.                                                     *)

Batch == {a \in ActionTypes : Available(Released(actions[a]))}

LEMMA ClaimStep ==
    ASSUME IInv, NEW w \in Workers, claim_due_actions(w)
    PROVE  /\ IInv' /\ UNCHANGED <<registry, bitrix>>
           /\ worker[w].pc = "next" /\ worker[w].queue = {} /\ worker'[w].pc = "next"
           /\ \A v \in Workers : v # w => worker'[v] = worker[v]
           /\ \A a \in ActionTypes : a \notin Batch => actions'[a] = actions[a]
           /\ \A a \in Batch :
                /\ actions[a] \in CustomerReturnAction
                /\ actions[a].status = "pending" \/ LeaseRunOut(actions[a])
                /\ actions'[a] \in CustomerReturnAction /\ actions'[a].status = "leased"
                /\ actions'[a].attempts = actions[a].attempts + 1
           /\ worker'[w].queue = {[type |-> a, token |-> actions'[a].token] : a \in Batch}
<1> DEFINE queue == {[type |-> a, token |-> claims'[a]] : a \in Batch}
           next == [Idle EXCEPT !.queue = queue]
<1>1. /\ worker[w].pc = "next" /\ worker[w].queue = {}
      /\ \A a \in Batch : claims[a] < MaxClaims
      /\ claims' = [a \in ActionTypes |-> claims[a] + (IF a \in Batch THEN 1 ELSE 0)]
      /\ actions' = [a \in ActionTypes |->
            IF a \in Batch THEN Leased(Released(actions[a]), claims'[a]) ELSE actions[a]]
      /\ worker' = [worker EXCEPT ![w] = next]
      /\ UNCHANGED <<registry, crashes, bitrix>>
  BY DEF claim_due_actions, Batch
<1>2. TypeOK /\ Batch \subseteq ActionTypes BY DEF IInv, Batch
<1>3. /\ claims' \in [ActionTypes -> 0..MaxClaims]
      /\ \A a \in Batch : claims'[a] \in 1..MaxClaims
  <2>1. claims \in [ActionTypes -> 0..MaxClaims] BY <1>2 DEF TypeOK
  <2>2. \A a \in ActionTypes :
          /\ claims[a] + (IF a \in Batch THEN 1 ELSE 0) \in 0..MaxClaims
          /\ a \in Batch => claims[a] + (IF a \in Batch THEN 1 ELSE 0) \in 1..MaxClaims
    BY <1>1, <2>1, Bounds
  <2>3. QED BY <1>1, <1>2, <2>2
<1>4. ASSUME NEW a \in Batch
      PROVE  /\ actions[a] \in CustomerReturnAction
             /\ actions[a].status = "pending" \/ LeaseRunOut(actions[a])
             /\ actions'[a] \in CustomerReturnAction /\ actions'[a].status = "leased"
             /\ actions'[a].attempts = actions[a].attempts + 1
             /\ actions'[a].token = claims'[a]
  <2>1. /\ actions[a] \in CustomerReturnAction
        /\ actions[a].status = "pending" \/ LeaseRunOut(actions[a])
    BY <1>2, ClaimableRow DEF Batch, TypeOK
  <2>2. Released(actions[a]) \in CustomerReturnAction
        /\ Released(actions[a]).attempts = actions[a].attempts
    BY <2>1, ReleasedType
  <2>3. actions'[a] = Leased(Released(actions[a]), claims'[a]) BY <1>1, <1>2
  <2>4. QED BY <1>3, <2>1, <2>2, <2>3, LeasedType
<1>5. \A a \in ActionTypes : a \notin Batch => actions'[a] = actions[a] BY <1>1
<1>6. actions' \in [ActionTypes -> CustomerReturnAction \cup {None}]
  <2>1. \A a \in ActionTypes : actions'[a] \in CustomerReturnAction \cup {None}
    BY <1>2, <1>4, <1>5 DEF TypeOK
  <2>2. QED BY <1>1, <2>1
<1>7. next \in WorkerState /\ next.pc = "next" /\ next.queue = queue
  <2>1. queue \subseteq ClaimedCustomerReturnAction
    BY <1>2, <1>3 DEF ClaimedCustomerReturnAction
  <2>2. QED BY <2>1, Bounds DEF Idle, WorkerState
<1>8. queue = {[type |-> a, token |-> actions'[a].token] : a \in Batch} BY <1>4
<1>9. \A c \in queue : c.type \in Batch OBVIOUS
<1> HIDE DEF next, queue
<1>10. /\ worker' \in [Workers -> WorkerState] /\ worker'[w] = next
       /\ \A v \in Workers : v # w => worker'[v] = worker[v]
  BY <1>1, <1>2, <1>7 DEF TypeOK
<1>11. TypeOK' BY <1>1, <1>2, <1>3, <1>6, <1>10 DEF TypeOK, registry, bitrix
<1>12. \A a \in ActionTypes : actions[a] = None <=> actions'[a] = None
  BY <1>2, <1>4, <1>5, RowFields
<1>13. RegistryOK' BY <1>1, <1>12 DEF IInv, RegistryOK, registry
<1>14. ASSUME NEW v \in Workers PROVE WorkerOK(v)'
  <2>1. CASE v = w
    <3>1. \A c \in worker'[w].queue : actions'[c.type] # None
      BY <1>4, <1>7, <1>9, <1>10, RowFields
    <3>2. QED BY <2>1, <3>1, <1>7, <1>10 DEF WorkerOK, Working
  <2>2. CASE v # w
    <3>1. worker'[v].queue \subseteq worker[v].queue /\ SameWork(v) BY <1>10, <2>2 DEF SameWork
    <3>2. RowsStay /\ Grows BY <1>1, <1>12 DEF RowsStay, Grows, bitrix
    <3>3. WorkerOK(v) BY DEF IInv
    <3>4. QED BY <1>2, <3>1, <3>2, <3>3, WorkerKept
  <2>3. QED BY <2>1, <2>2
<1>15. IInv' BY <1>11, <1>13, <1>14 DEF IInv
<1>16. QED BY <1>1, <1>4, <1>5, <1>7, <1>8, <1>10, <1>15

(* A claim whose lease stands is loaded with its row; otherwise the process  *)
(* ends.                                                                     *)
LEMMA LoadStep ==
    ASSUME IInv, NEW w \in Workers, load_claimed_action(w)
    PROVE  /\ IInv' /\ UNCHANGED <<actions, registry, claims, crashes, bitrix>>
           /\ worker[w].pc = "next" /\ worker'[w].queue \subseteq worker[w].queue
           /\ \A v \in Workers : v # w => worker'[v] = worker[v]
           /\ \/ worker'[w] = Idle
              \/ /\ worker'[w].pc \in {"find", "fail"}
                 /\ worker'[w].claim \in worker[w].queue
                 /\ worker'[w].claim \notin worker'[w].queue
                 /\ Type(w)' \in ActionTypes
                 /\ worker'[w].row = actions[Type(w)']
                 /\ worker'[w].pc = "find" /\ Type(w)' # "arrival_task" =>
                       worker'[w].task = ArrivalTask /\ ArrivalTask # None
<1>1. TypeOK /\ WorkerOK(w) BY DEF IInv
<1>2. worker[w].pc = "next" /\ UNCHANGED <<actions, registry, claims, crashes, bitrix>>
  BY DEF load_claimed_action
<1>3. PICK c \in worker[w].queue :
        worker' = [worker EXCEPT ![w] =
            IF LeaseLost(actions[c.type], c) THEN Idle
            ELSE [worker[w] EXCEPT
                    !.pc = IF c.type # "arrival_task" /\ ArrivalTask = None
                           THEN "fail" ELSE "find",
                    !.queue = worker[w].queue \ {c},
                    !.claim = c,
                    !.row = actions[c.type],
                    !.task = IF c.type = "arrival_task" THEN None ELSE ArrivalTask]]
  BY DEF load_claimed_action
<1>4. c \in ClaimedCustomerReturnAction /\ c.type \in ActionTypes /\ worker[w] \in WorkerState
  BY <1>1, WorkerFields
<1>5. worker \in [Workers -> WorkerState] BY <1>1 DEF TypeOK
<1>6. \A v \in Workers : v # w => worker'[v] = worker[v] BY <1>3, <1>5
<1>7. \A v \in Workers : v # w => WorkerOK(v)'
  <2>1. Grows /\ RowsStay BY <1>2 DEF Grows, RowsStay, bitrix
  <2>2. QED BY <1>1, <1>6, <2>1, WorkerKept DEF SameWork, IInv
<1>8. RegistryOK' BY <1>2 DEF IInv, RegistryOK, registry
<1>9. CASE LeaseLost(actions[c.type], c)
  <2>1. worker' = [worker EXCEPT ![w] = Idle] BY <1>3, <1>9
  <2>2. worker' \in [Workers -> WorkerState] /\ worker'[w] = Idle BY <1>5, <2>1, IdleType
  <2>3. TypeOK' BY <1>1, <1>2, <2>2 DEF TypeOK, registry, bitrix
  <2>4. WorkerOK(w)' BY <2>2, IdleType DEF WorkerOK, Working
  <2>5. QED BY <1>2, <1>6, <1>7, <1>8, <2>2, <2>3, <2>4, IdleType DEF IInv
<1>10. CASE ~LeaseLost(actions[c.type], c)
  <2> DEFINE pc == IF c.type # "arrival_task" /\ ArrivalTask = None THEN "fail" ELSE "find"
             task == IF c.type = "arrival_task" THEN None ELSE ArrivalTask
             next == [worker[w] EXCEPT !.pc = pc, !.queue = worker[w].queue \ {c},
                                       !.claim = c, !.row = actions[c.type], !.task = task]
  <2>1. worker' = [worker EXCEPT ![w] = next] BY <1>3, <1>10
  <2>2. actions[c.type] \in CustomerReturnAction /\ actions[c.type].status = "leased"
        /\ actions[c.type].token = c.token
    BY <1>1, <1>4, <1>10 DEF LeaseLost, Is, TypeOK
  <2>3. ArrivalTask \in TaskIds \cup {None}
    <3>1. actions["arrival_task"] \in CustomerReturnAction \cup {None} BY <1>1, Bounds DEF TypeOK
    <3>2. QED BY <3>1, RowFields DEF ArrivalTask, Is
  <2>4. /\ next \in WorkerState /\ next.pc = pc /\ next.queue = worker[w].queue \ {c}
        /\ next.claim = c /\ next.row = actions[c.type] /\ next.task = task
    BY <1>4, <2>2, <2>3 DEF WorkerState
  <2>5. pc \in {"find", "fail"} /\ (pc = "find" /\ c.type # "arrival_task" =>
                                      task = ArrivalTask /\ ArrivalTask # None)
    OBVIOUS
  <2> HIDE DEF next, pc, task
  <2>6. worker' \in [Workers -> WorkerState] /\ worker'[w] = next BY <1>5, <2>1, <2>4
  <2>7. TypeOK' BY <1>1, <1>2, <2>6 DEF TypeOK, registry, bitrix
  <2>8. Type(w)' = c.type BY <2>4, <2>6 DEF Type
  <2>9. Holds(w)'
    BY <1>2, <1>4, <2>2, <2>4, <2>6, <2>8, RowFields, ClaimFields DEF Holds
  <2>10. Effects(w)' BY <2>4, <2>5, <2>6, <2>8 DEF Effects
  <2>11. WorkerOK(w)'
    BY <1>1, <1>2, <2>4, <2>6, <2>9, <2>10 DEF WorkerOK
  <2>12. QED
    BY <1>2, <1>4, <1>6, <1>7, <1>8, <2>4, <2>5, <2>6, <2>7, <2>8, <2>11 DEF IInv
<1>11. QED BY <1>9, <1>10

------------------------------------------------------------------------------
(* Crashes, time, and the registry.                                          *)

LEMMA CrashStep ==
    ASSUME IInv, NEW w \in Workers, crash(w)
    PROVE  /\ IInv' /\ UNCHANGED <<actions, registry, claims, bitrix>>
           /\ worker'[w] = Idle /\ \A v \in Workers : v # w => worker'[v] = worker[v]
<1>1. /\ worker' = [worker EXCEPT ![w] = Idle] /\ crashes < MaxCrashes /\ crashes' = crashes + 1
      /\ UNCHANGED <<actions, registry, claims, bitrix>>
  BY DEF crash
<1>2. TypeOK BY DEF IInv
<1>3. /\ worker' \in [Workers -> WorkerState] /\ worker'[w] = Idle
      /\ \A v \in Workers : v # w => worker'[v] = worker[v]
  BY <1>1, <1>2, IdleType DEF TypeOK
<1>4. crashes' \in 0..MaxCrashes BY <1>1, <1>2, Bounds DEF TypeOK
<1>5. TypeOK' BY <1>1, <1>2, <1>3, <1>4 DEF TypeOK, registry, bitrix
<1>6. RegistryOK' BY <1>1 DEF IInv, RegistryOK, registry
<1>7. ASSUME NEW v \in Workers PROVE WorkerOK(v)'
  <2>1. Grows /\ RowsStay BY <1>1 DEF Grows, RowsStay, bitrix
  <2>2. worker'[v].queue \subseteq worker[v].queue /\ (SameWork(v) \/ worker'[v].pc = "next")
    BY <1>3, IdleType DEF SameWork
  <2>3. QED BY <1>2, <2>1, <2>2, WorkerKept DEF IInv
<1>8. QED BY <1>1, <1>3, <1>5, <1>6, <1>7 DEF IInv

(* Only countdowns move.                                                     *)
SameButTimes(x, y) ==
    /\ x = None <=> y = None
    /\ x # None => /\ y.status = x.status /\ y.token = x.token /\ y.ref = x.ref
                   /\ y.attempts = x.attempts

LEMMA TickStep ==
    ASSUME IInv, Tick
    PROVE  /\ IInv' /\ UNCHANGED <<registry, claims, crashes, bitrix>>
           /\ \A a \in ActionTypes : SameButTimes(actions[a], actions'[a])
           /\ \A w \in Workers : SameWork(w) /\ worker'[w].queue = worker[w].queue
<1>1. TypeOK /\ UNCHANGED <<registry, claims, crashes, bitrix>> BY DEF IInv, Tick
<1>2. ASSUME NEW a \in ActionTypes
      PROVE  actions'[a] \in CustomerReturnAction \cup {None}
             /\ SameButTimes(actions[a], actions'[a])
  <2>1. actions'[a] = IF actions[a] = None THEN None
            ELSE [actions[a] EXCEPT !.due = Down(@), !.wait = Down(@), !.lease = Down(@)]
    BY DEF Tick
  <2>2. CASE actions[a] = None BY <2>1, <2>2 DEF SameButTimes
  <2>3. CASE actions[a] # None
    <3>1. actions[a] \in CustomerReturnAction BY <1>1, <2>3 DEF TypeOK
    <3>2. ASSUME NEW n \in Nat, NEW m \in 0..n PROVE Down(m) \in 0..n BY <3>2 DEF Down
    <3>3. /\ Down(actions[a].due) \in 0..Horizon /\ Down(actions[a].wait) \in 0..Horizon
          /\ Down(actions[a].lease) \in 0..LeaseTicks
      BY <3>1, <3>2, RowFields, Bounds
    <3>4. actions'[a] = [actions[a] EXCEPT !.due = Down(actions[a].due),
                            !.wait = Down(actions[a].wait), !.lease = Down(actions[a].lease)]
      BY <2>1, <2>3
    <3>5. actions'[a] \in CustomerReturnAction BY <3>1, <3>3, <3>4 DEF CustomerReturnAction
    <3>6. actions'[a] # None BY <3>5, RowFields
    <3>7. QED BY <2>3, <3>1, <3>4, <3>5, <3>6 DEF SameButTimes, CustomerReturnAction
  <2>4. QED BY <2>2, <2>3
<1>3. actions' \in [ActionTypes -> CustomerReturnAction \cup {None}] BY <1>2 DEF Tick
<1>4. ASSUME NEW w \in Workers
      PROVE  worker'[w] \in WorkerState /\ SameWork(w) /\ worker'[w].queue = worker[w].queue
  <2>1. worker[w] \in WorkerState BY <1>1 DEF TypeOK
  <2>2. worker'[w] = IF worker[w] = Idle THEN Idle
                     ELSE [worker[w] EXCEPT !.age = Min({worker[w].age + 1, Horizon})]
    BY DEF Tick
  <2>3. CASE worker[w] = Idle BY <2>1, <2>2, <2>3 DEF SameWork
  <2>4. CASE worker[w] # Idle
    <3>1. worker[w].age + 1 \in Nat BY <2>1, StateFields
    <3>2. Min({worker[w].age + 1, Horizon}) \in 0..Horizon BY <3>1, Bounds, MinOfTwo
    <3>3. worker'[w] = [worker[w] EXCEPT !.age = Min({worker[w].age + 1, Horizon})]
      BY <2>2, <2>4
    <3>4. QED BY <2>1, <3>2, <3>3 DEF WorkerState, SameWork
  <2>5. QED BY <2>3, <2>4
<1>5. worker' \in [Workers -> WorkerState] BY <1>4 DEF Tick
<1>6. TypeOK' BY <1>1, <1>3, <1>5 DEF TypeOK, registry, bitrix
<1>7. RegistryOK' BY <1>1, <1>2 DEF IInv, RegistryOK, registry, SameButTimes
<1>8. Grows /\ RowsStay BY <1>1, <1>2 DEF Grows, RowsStay, bitrix, SameButTimes
<1>9. \A w \in Workers : WorkerOK(w)' BY <1>1, <1>4, <1>8, WorkerKept DEF IInv
<1>10. QED BY <1>1, <1>2, <1>4, <1>6, <1>7, <1>9 DEF IInv

LEMMA ScheduleType ==
    ASSUME TypeOK, NEW a \in ActionTypes, NEW due \in 0..Horizon
    PROVE  /\ schedule_action(a, due) \in Write \cup {None}
           /\ schedule_action(a, due) # None =>
                /\ schedule_action(a, due).kind \in {"insert", "reschedule"}
                /\ schedule_action(a, due).kind = "insert" <=> actions[a] = None
<1>1. [kind |-> "insert", due |-> due] \in Write /\ [kind |-> "reschedule", due |-> due] \in Write
  BY DEF Write
<1>2. QED BY <1>1 DEF schedule_action, Is

(* A handler's load decides the column writes and nothing else.              *)
Loads ==
    /\ reg' # None /\ reg' \in Session
    /\ \A a \in ActionTypes : reg'.writes[a] # None =>
          /\ reg'.writes[a].kind = "insert" <=> actions[a] = None
          /\ reg'.writes[a].kind = "complete" => a \in ByHand
    /\ reg'.event = "carrier_status" => carrier < MaxCarrierEvents
    /\ UNCHANGED <<actions, events, carrier, worker, claims, crashes, bitrix>>
Schedules == \A a \in Promised :
    reg'.writes[a] # None => reg'.writes[a].kind \in {"insert", "reschedule"}

LEMMA LoadsKeeps ==
    ASSUME IInv, Loads
    PROVE  IInv'
<1>1. TypeOK' BY DEF IInv, TypeOK, Loads, bitrix
<1>2. RegistryOK' BY DEF RegistryOK, Loads
<1>3. ASSUME NEW v \in Workers PROVE WorkerOK(v)'
  <2>1. Grows /\ RowsStay /\ SameWork(v) /\ worker'[v].queue \subseteq worker[v].queue
    BY DEF Grows, RowsStay, Loads, bitrix, SameWork
  <2>2. QED BY <2>1, WorkerKept DEF IInv
<1>4. QED BY <1>1, <1>2, <1>3 DEF IInv

LEMMA CarrierEventLoads ==
    ASSUME IInv, record_carrier_event
    PROVE  Loads /\ Schedules
<1>1. TypeOK BY DEF IInv
<1>2. PICK known \in SUBSET Reminders : \E due \in [known -> ReminderDues] :
        reg' = [event |-> "carrier_status",
                writes |-> [a \in ActionTypes |->
                    CASE a = "arrival_task" -> schedule_action(a, 0)
                      [] a \in known -> schedule_action(a, due[a])
                      [] OTHER -> None]]
  BY DEF record_carrier_event
<1>3. PICK due \in [known -> ReminderDues] :
        reg' = [event |-> "carrier_status",
                writes |-> [a \in ActionTypes |->
                    CASE a = "arrival_task" -> schedule_action(a, 0)
                      [] a \in known -> schedule_action(a, due[a])
                      [] OTHER -> None]]
  BY <1>2
<1> DEFINE write(a) == CASE a = "arrival_task" -> schedule_action(a, 0)
                         [] a \in known -> schedule_action(a, due[a])
                         [] OTHER -> None
<1>4. ASSUME NEW a \in ActionTypes
      PROVE  /\ write(a) \in Write \cup {None}
             /\ write(a) # None => /\ write(a).kind \in {"insert", "reschedule"}
                                   /\ write(a).kind = "insert" <=> actions[a] = None
  <2>1. a \in known => due[a] \in 0..Horizon BY Bounds
  <2>2. a \in known => a # "arrival_task" BY DEF Reminders
  <2>3. CASE a = "arrival_task"
    <3>1. write(a) = schedule_action(a, 0) BY <2>2, <2>3
    <3>2. QED BY <1>1, <3>1, ScheduleType, Bounds
  <2>4. CASE a \in known
    <3>1. write(a) = schedule_action(a, due[a]) BY <2>2, <2>4
    <3>2. QED BY <1>1, <2>1, <2>4, <3>1, ScheduleType
  <2>5. CASE a # "arrival_task" /\ a \notin known
    <3>1. write(a) = None BY <2>5
    <3>2. QED BY <3>1
  <2>6. QED BY <2>3, <2>4, <2>5
<1>5. reg' = [event |-> "carrier_status", writes |-> [a \in ActionTypes |-> write(a)]] BY <1>3
<1> HIDE DEF write
<1>6. reg' \in Session /\ reg' # None
  <2>1. [a \in ActionTypes |-> write(a)] \in [ActionTypes -> Write \cup {None}] BY <1>4
  <2>2. reg' \in Session BY <1>5, <2>1 DEF Session, EventTypes
  <2>3. QED BY <2>2, NoneAssumption
<1>7. \A a \in ActionTypes : reg'.writes[a] = write(a) BY <1>5
<1>8. carrier < MaxCarrierEvents BY DEF record_carrier_event
<1>9. QED BY <1>4, <1>6, <1>7, <1>8 DEF record_carrier_event, Loads, Schedules, Promised

LEMMA ConfirmPickupLoads ==
    ASSUME IInv, confirm_pickup
    PROVE  Loads /\ Schedules
<1> DEFINE write(a) == IF a = "onec_return_control" THEN schedule_action(a, 0) ELSE None
<1>1. \A a \in ActionTypes :
        /\ write(a) \in Write \cup {None}
        /\ write(a) # None => /\ write(a).kind \in {"insert", "reschedule"}
                              /\ write(a).kind = "insert" <=> actions[a] = None
  BY ScheduleType, Bounds DEF IInv
<1>2. reg' = [event |-> "pickup_confirmed", writes |-> [a \in ActionTypes |-> write(a)]]
  BY DEF confirm_pickup
<1> HIDE DEF write
<1>3. reg' \in Session /\ reg' # None
  <2>1. [a \in ActionTypes |-> write(a)] \in [ActionTypes -> Write \cup {None}] BY <1>1
  <2>2. reg' \in Session BY <1>2, <2>1 DEF Session, EventTypes
  <2>3. QED BY <2>2, NoneAssumption
<1>4. /\ \A a \in ActionTypes : reg'.writes[a] = write(a)
      /\ reg'.event # "carrier_status"
  BY <1>2
<1>5. QED BY <1>1, <1>3, <1>4 DEF confirm_pickup, Loads, Schedules, Promised

LEMMA ConfirmOnecLoads ==
    ASSUME IInv, confirm_onec_return
    PROVE  Loads /\ ("onec_return_control" \notin Promised => Schedules)
<1> DEFINE write(a) ==
        CASE a = "onec_return_control" /\ Is(actions[a], "pending") -> [kind |-> "skip"]
          [] a = "complete_return_task" /\ actions["arrival_task"] # None
                -> schedule_action(a, 0)
          [] OTHER -> None
<1>1. ASSUME NEW a \in ActionTypes
      PROVE  /\ write(a) \in Write \cup {None}
             /\ write(a) # None =>
                  /\ write(a).kind = "insert" <=> actions[a] = None
                  /\ write(a).kind # "complete"
                  /\ a # "onec_return_control" => write(a).kind \in {"insert", "reschedule"}
  <2>1. CASE a = "onec_return_control" /\ Is(actions[a], "pending")
    <3>1. write(a) = [kind |-> "skip"] /\ actions[a] # None BY <2>1 DEF Is
    <3>2. [kind |-> "skip"] \in Write BY DEF Write
    <3>3. QED BY <2>1, <3>1, <3>2
  <2>2. CASE a = "complete_return_task" /\ actions["arrival_task"] # None
    <3>1. write(a) = schedule_action(a, 0) BY <2>2
    <3>2. QED BY <3>1, ScheduleType, Bounds DEF IInv
  <2>3. CASE /\ ~(a = "onec_return_control" /\ Is(actions[a], "pending"))
             /\ ~(a = "complete_return_task" /\ actions["arrival_task"] # None)
    <3>1. write(a) = None BY <2>3
    <3>2. QED BY <3>1
  <2>4. QED BY <2>1, <2>2, <2>3
<1>2. reg' = [event |-> "onec_return_confirmed", writes |-> [a \in ActionTypes |-> write(a)]]
  BY DEF confirm_onec_return
<1> HIDE DEF write
<1>3. reg' \in Session /\ reg' # None
  <2>1. [a \in ActionTypes |-> write(a)] \in [ActionTypes -> Write \cup {None}] BY <1>1
  <2>2. reg' \in Session BY <1>2, <2>1 DEF Session, EventTypes
  <2>3. QED BY <2>2, NoneAssumption
<1>4. /\ \A a \in ActionTypes : reg'.writes[a] = write(a)
      /\ reg'.event # "carrier_status"
  BY <1>2
<1>5. QED BY <1>1, <1>3, <1>4 DEF confirm_onec_return, Loads, Schedules, Promised

LEMMA CompleteActionLoads ==
    ASSUME IInv, NEW a \in ByHand, NEW ref \in ManualRefs, complete_action(a, ref)
    PROVE  Loads /\ Schedules
<1> DEFINE write == [kind |-> "complete", ref |-> ref, attempts |-> actions[a].attempts + 1]
<1>1. a \in ActionTypes /\ actions[a] \in CustomerReturnAction
  BY OutboxAssumption DEF complete_action, IInv, TypeOK
<1>2. actions[a].attempts + 1 \in Nat BY <1>1, RowFields
<1>3. write \in Write /\ write.kind = "complete" BY <1>2 DEF Write
<1>4. reg' = [event |-> None, writes |-> [NoWrites EXCEPT ![a] = write]]
  BY DEF complete_action
<1> HIDE DEF write
<1>5. \A b \in ActionTypes : [NoWrites EXCEPT ![a] = write][b] = IF b = a THEN write ELSE None
  BY DEF NoWrites
<1>6. [NoWrites EXCEPT ![a] = write] \in [ActionTypes -> Write \cup {None}]
  BY <1>1, <1>3, <1>5 DEF NoWrites
<1>7. reg' \in Session BY <1>4, <1>6 DEF Session, EventTypes
<1>8. reg' # None BY <1>7, NoneAssumption
<1>9. \A b \in ActionTypes : reg'.writes[b] = IF b = a THEN write ELSE None BY <1>4, <1>5
<1>10. actions[a] # None /\ reg'.event # "carrier_status"
  <2>1. reg'.event = None BY <1>4
  <2>2. None # "carrier_status" BY OutboxAssumption DEF EventTypes
  <2>3. QED BY <2>1, <2>2 DEF complete_action
<1>11. QED
  BY <1>1, <1>3, <1>7, <1>8, <1>9, <1>10 DEF complete_action, Loads, Schedules, Promised

LEMMA CommitStep ==
    ASSUME IInv, commit_registry
    PROVE  /\ IInv' /\ UNCHANGED <<worker, claims, crashes, bitrix>> /\ reg' = None
           /\ reg # None
           /\ \A a \in ActionTypes :
                /\ reg.writes[a] \in Write \cup {None}
                /\ actions'[a] = Written(actions[a], reg.writes[a])
                /\ reg.writes[a] # None => (reg.writes[a].kind = "insert" <=> actions[a] = None)
                /\ reg.writes[a] # None => (reg.writes[a].kind = "complete" => a \in ByHand)
<1>1. TypeOK /\ RegistryOK BY DEF IInv
<1>2. /\ reg # None /\ reg' = None /\ UNCHANGED <<worker, claims, crashes, bitrix>>
      /\ \A a \in ActionTypes : actions'[a] = Written(actions[a], reg.writes[a])
  BY DEF commit_registry
<1>3. reg \in Session BY <1>1, <1>2 DEF TypeOK
<1>4. ASSUME NEW a \in ActionTypes
      PROVE  /\ reg.writes[a] \in Write \cup {None}
             /\ reg.writes[a] # None => (reg.writes[a].kind = "insert" <=> actions[a] = None)
             /\ reg.writes[a] # None => (reg.writes[a].kind = "complete" => a \in ByHand)
             /\ actions'[a] \in CustomerReturnAction \cup {None}
             /\ actions[a] # None => actions'[a] # None
  <2>1. reg.writes[a] \in Write \cup {None} BY <1>3 DEF Session, EventTypes
  <2>2. actions[a] \in CustomerReturnAction \cup {None} BY <1>1 DEF TypeOK
  <2>3. reg.writes[a] # None =>
          /\ reg.writes[a].kind = "insert" <=> actions[a] = None
          /\ reg.writes[a].kind = "complete" => a \in ByHand
    BY <1>1, <1>2 DEF RegistryOK
  <2>4. QED BY <1>2, <2>1, <2>2, <2>3, WrittenType, RowFields
<1>5. TypeOK'
  <2>1. actions' \in [ActionTypes -> CustomerReturnAction \cup {None}]
    BY <1>4 DEF commit_registry
  <2>2. events' \subseteq EventTypes \ {"carrier_status"}
    BY <1>1, <1>3 DEF commit_registry, TypeOK, Session
  <2>3. carrier' \in 0..MaxCarrierEvents
    <3>1. carrier \in 0..MaxCarrierEvents BY <1>1 DEF TypeOK
    <3>2. reg.event = "carrier_status" => carrier < MaxCarrierEvents
      BY <1>1, <1>2 DEF RegistryOK
    <3>3. QED BY <3>1, <3>2, Bounds DEF commit_registry
  <2>4. QED BY <1>1, <1>2, <2>1, <2>2, <2>3 DEF TypeOK, bitrix
<1>6. RegistryOK' BY <1>2 DEF RegistryOK
<1>7. ASSUME NEW v \in Workers PROVE WorkerOK(v)'
  <2>1. Grows /\ RowsStay /\ SameWork(v) /\ worker'[v].queue \subseteq worker[v].queue
    BY <1>2, <1>4 DEF Grows, RowsStay, bitrix, SameWork
  <2>2. QED BY <2>1, WorkerKept DEF IInv
<1>8. QED BY <1>2, <1>4, <1>5, <1>6, <1>7 DEF IInv

------------------------------------------------------------------------------
(* The invariant.                                                            *)

LEMMA InitIInv ==
    ASSUME Init
    PROVE  IInv
<1>1. worker = [w \in Workers |-> Idle] /\ reg = None BY DEF Init
<1>2. TypeOK
  <2>1. worker \in [Workers -> WorkerState] BY <1>1, IdleType
  <2>2. comments \in [TaskIds -> [ActionTypes -> 0..MaxComments]] BY Bounds DEF Init
  <2>3. claims \in [ActionTypes -> 0..MaxClaims] BY Bounds DEF Init
  <2>4. QED BY <1>1, <2>1, <2>2, <2>3, Bounds DEF Init, TypeOK
<1>3. \A w \in Workers : WorkerOK(w) BY <1>1, IdleType DEF WorkerOK, Working
<1>4. QED BY <1>1, <1>2, <1>3 DEF IInv, RegistryOK

DeliveryAction(w) ==
    \/ find_task(w) \/ add_task(w) \/ find_comment(w) \/ add_comment(w)
    \/ ensure_completed(w) \/ bitrix_error(w)

LEMMA DeliveryKeeps ==
    ASSUME IInv, NEW w \in Workers, DeliveryAction(w)
    PROVE  IInv' /\ Delivers(w)
BY FindTaskStep, AddTaskStep, FindCommentStep, AddCommentStep, EnsureCompletedStep,
   BitrixErrorStep DEF DeliveryAction

RegistryLoad ==
    \/ record_carrier_event \/ confirm_pickup \/ confirm_onec_return
    \/ \E a \in ByHand, ref \in ManualRefs : complete_action(a, ref)

LEMMA RegistryLoads ==
    ASSUME IInv, RegistryLoad
    PROVE  /\ Loads /\ IInv'
           /\ "onec_return_control" \notin Promised => Schedules
<1>1. Loads /\ ("onec_return_control" \notin Promised => Schedules)
  BY CarrierEventLoads, ConfirmPickupLoads, ConfirmOnecLoads, CompleteActionLoads
  DEF RegistryLoad
<1>2. QED BY <1>1, LoadsKeeps

(* The steps of the outbox, as the lemmas above describe them.               *)
LEMMA NextIs ==
    Next <=> \/ RegistryLoad \/ commit_registry \/ Tick
             \/ \E w \in Workers :
                  \/ claim_due_actions(w) \/ load_claimed_action(w) \/ DeliveryAction(w)
                  \/ complete_claimed_action(w) \/ fail_claimed_action(w) \/ crash(w)
BY DEF Next, RegistryLoad, DeliveryAction, WorkerStep

LEMMA StutterIInv ==
    ASSUME IInv, UNCHANGED vars
    PROVE  IInv'
<1>1. TypeOK' BY DEF IInv, TypeOK, vars
<1>2. RegistryOK' BY DEF IInv, RegistryOK, vars
<1>3. ASSUME NEW v \in Workers PROVE WorkerOK(v)'
  <2>1. Grows /\ RowsStay /\ SameWork(v) /\ worker'[v].queue \subseteq worker[v].queue
    BY DEF Grows, RowsStay, vars, SameWork
  <2>2. QED BY <2>1, WorkerKept DEF IInv
<1>4. QED BY <1>1, <1>2, <1>3 DEF IInv

LEMMA NextIInv ==
    ASSUME IInv, [Next]_vars
    PROVE  IInv'
<1>1. CASE UNCHANGED vars BY <1>1, StutterIInv
<1>2. CASE RegistryLoad BY <1>2, RegistryLoads
<1>3. CASE commit_registry BY <1>3, CommitStep
<1>4. CASE Tick BY <1>4, TickStep
<1>5. ASSUME NEW w \in Workers, claim_due_actions(w) PROVE IInv' BY <1>5, ClaimStep
<1>6. ASSUME NEW w \in Workers, load_claimed_action(w) PROVE IInv' BY <1>6, LoadStep
<1>7. ASSUME NEW w \in Workers, DeliveryAction(w) PROVE IInv' BY <1>7, DeliveryKeeps
<1>8. ASSUME NEW w \in Workers, complete_claimed_action(w) PROVE IInv' BY <1>8, CompleteStep
<1>9. ASSUME NEW w \in Workers, fail_claimed_action(w) PROVE IInv' BY <1>9, FailStep
<1>10. ASSUME NEW w \in Workers, crash(w) PROVE IInv' BY <1>10, CrashStep
<1>11. QED
  BY <1>1, <1>2, <1>3, <1>4, <1>5, <1>6, <1>7, <1>8, <1>9, <1>10, NextIs

THEOREM InvariantHolds == Spec => []IInv
<1>1. Init => IInv BY InitIInv
<1>2. IInv /\ [Next]_vars => IInv' BY NextIInv
<1>3. QED BY <1>1, <1>2, PTL DEF Spec

(* Rows, sessions and workers keep their types for any number of workers,    *)
(* attempts and delays; in particular the backoff never exceeds the longest  *)
(* delay, however late in its batch a worker gives up.                       *)
THEOREM TypeCorrect == Spec => []TypeOK
<1>1. IInv => TypeOK BY DEF IInv
<1>2. QED BY <1>1, InvariantHolds, PTL

------------------------------------------------------------------------------
(* Outcomes, for any number of workers.                                      *)

LEMMA PromisedTypes == Promised \subseteq ActionTypes
BY DEF Promised

AttemptsGrow ==
    \A a \in Promised : actions[a] # None => actions'[a].attempts >= actions[a].attempts
OutcomesKept ==
    \A a \in Promised :
        /\ Is(actions'[a], "completed") =>
              Is(actions[a], "completed") /\ actions'[a].ref = actions[a].ref
        /\ Is(actions'[a], "failed") => Is(actions[a], "failed")
(* w holds what it held, or nothing, or has just loaded it.                  *)
HoldsCurrent(w) ==
    Working(w)' => \/ Working(w) /\ worker'[w].claim = worker[w].claim
                      /\ worker'[w].row = worker[w].row
                   \/ /\ Type(w)' \in ActionTypes
                      /\ worker'[w].row = actions'[Type(w)']

LEMMA DeliveredStays ==
    ASSUME Grows, NEW a \in ActionTypes, NEW t \in TaskIds, Delivered(a, t)
    PROVE  Delivered(a, t)'
BY DEF Grows, Delivered

LEMMA AttemptsKeptStep ==
    ASSUME IInv, IInv', AttemptsKept, AttemptsGrow, \A w \in Workers : HoldsCurrent(w)
    PROVE  AttemptsKept'
<1> SUFFICES ASSUME NEW w \in Workers, Working(w)', Type(w)' \in Promised
             PROVE  worker'[w].row.attempts <= actions'[Type(w)'].attempts
  BY DEF AttemptsKept
<1>1. /\ TypeOK /\ TypeOK' /\ WorkerOK(w) BY DEF IInv
<1>2. CASE Working(w) /\ worker'[w].claim = worker[w].claim /\ worker'[w].row = worker[w].row
  <2>1. Type(w)' = Type(w) BY <1>2 DEF Type
  <2>2. Holds(w) BY <1>1, <1>2 DEF WorkerOK
  <2>3. /\ Type(w) \in ActionTypes /\ worker[w].row \in CustomerReturnAction
        /\ actions[Type(w)] # None
    BY <1>1, <2>2, WorkerFields DEF Holds
  <2>4. actions'[Type(w)] # None /\ actions'[Type(w)] \in CustomerReturnAction \cup {None}
        /\ actions[Type(w)] \in CustomerReturnAction
    <3>1. Holds(w)' BY DEF IInv, WorkerOK
    <3>2. QED BY <1>1, <2>1, <2>3, <3>1 DEF TypeOK, Holds
  <2>5. /\ worker[w].row.attempts \in Nat /\ actions[Type(w)].attempts \in Nat
        /\ actions'[Type(w)].attempts \in Nat
    BY <2>3, <2>4, RowFields
  <2>6. /\ worker[w].row.attempts <= actions[Type(w)].attempts
        /\ actions'[Type(w)].attempts >= actions[Type(w)].attempts
    BY <1>2, <2>1, <2>3 DEF AttemptsKept, AttemptsGrow
  <2>7. QED BY <1>2, <2>1, <2>5, <2>6
<1>3. CASE Type(w)' \in ActionTypes /\ worker'[w].row = actions'[Type(w)']
  <2>1. Holds(w)' BY DEF IInv, WorkerOK
  <2>2. worker'[w].row \in CustomerReturnAction BY <1>1, <1>3, <2>1 DEF TypeOK, Holds
  <2>3. QED BY <1>3, <2>2, RowFields
<1>4. QED BY <1>2, <1>3 DEF HoldsCurrent

LEMMA CompletedStays ==
    ASSUME IInv, CompletedIsTrue, Grows, NEW a \in Promised,
           Is(actions[a], "completed"), Is(actions'[a], "completed"),
           actions'[a].ref = actions[a].ref
    PROVE  actions'[a].ref # None /\ Delivered(a, actions[a].ref)'
<1>1. Delivered(a, actions[a].ref) /\ actions[a].ref # None BY DEF CompletedIsTrue
<1>2. a \in ActionTypes /\ actions[a] \in CustomerReturnAction
  BY PromisedTypes DEF IInv, TypeOK, Is
<1>3. actions[a].ref \in TaskIds BY <1>1, <1>2, RowFields
<1>4. PICK t \in TaskIds : t = actions[a].ref /\ t = actions'[a].ref BY <1>3
<1>5. Delivered(a, t)' BY <1>1, <1>2, <1>4, DeliveredStays
<1>6. QED BY <1>1, <1>4, <1>5

(* Steps that record no outcome.                                             *)
LEMMA OutcomesUntouched ==
    ASSUME IInv, IInv', OutcomesHold, Grows, AttemptsGrow, OutcomesKept,
           \A w \in Workers : HoldsCurrent(w)
    PROVE  OutcomesHold'
<1>1. AttemptsKept' BY AttemptsKeptStep DEF OutcomesHold
<1>2. CompletedIsTrue'
  BY CompletedStays DEF OutcomesHold, OutcomesKept, CompletedIsTrue, Is
<1>3. FailedIsExhausted'
  <2> SUFFICES ASSUME NEW a \in Promised, Is(actions'[a], "failed")
               PROVE  actions'[a].attempts >= MaxAttempts
    BY DEF FailedIsExhausted, Is
  <2>1. Is(actions[a], "failed") /\ actions[a].attempts >= MaxAttempts
    BY DEF OutcomesKept, OutcomesHold, FailedIsExhausted
  <2>2. actions[a] \in CustomerReturnAction /\ actions'[a] \in CustomerReturnAction
    BY <2>1, PromisedTypes DEF IInv, TypeOK, Is
  <2>3. QED BY <2>1, <2>2, RowFields, Bounds DEF AttemptsGrow, Is
<1>4. QED BY <1>1, <1>2, <1>3 DEF OutcomesHold

(* An outcome is recorded over whatever the row holds by then.               *)
LEMMA OutcomeRecorded ==
    ASSUME IInv, IInv', OutcomesHold, NEW w \in Workers, Working(w),
           NEW row \in CustomerReturnAction, Record(w, row),
           row.attempts = actions[Type(w)].attempts,
           row.status \in {"pending", "completed", "failed"},
           row.status = "completed" =>
              row.ref \in TaskIds /\ row.ref # None /\ Delivered(Type(w), row.ref),
           Type(w) \in Promised /\ row.status = "failed" => row.attempts >= MaxAttempts
    PROVE  OutcomesHold'
<1>1. /\ actions' = [actions EXCEPT ![Type(w)] = row] /\ Type(w) \in ActionTypes
      /\ worker'[w].pc = "next" /\ \A v \in Workers : v # w => worker'[v] = worker[v]
  BY RecordStep
<1>2. /\ actions \in [ActionTypes -> CustomerReturnAction \cup {None}]
      /\ actions'[Type(w)] = row /\ \A a \in ActionTypes : a # Type(w) => actions'[a] = actions[a]
  BY <1>1 DEF IInv, TypeOK
<1>3. Grows BY DEF Record, Grows, bitrix
<1>4. AttemptsKept'
  <2>1. AttemptsGrow
    BY <1>1, <1>2, RowFields, PromisedTypes DEF AttemptsGrow
  <2>2. \A v \in Workers : HoldsCurrent(v) BY <1>1 DEF HoldsCurrent, Working
  <2>3. QED BY <2>1, <2>2, AttemptsKeptStep DEF OutcomesHold
<1>5. ASSUME NEW a \in Promised, Is(actions[a], "completed")'
      PROVE  actions'[a].ref # None /\ Delivered(a, actions[a].ref)'
  <2>1. CASE a = Type(w)
    <3>1. row.status = "completed" BY <1>2, <1>5, <2>1 DEF Is
    <3>2. PICK t \in TaskIds : t = row.ref /\ t # None /\ Delivered(a, t) BY <2>1, <3>1
    <3>3. Delivered(a, t)' BY <1>3, <3>2, PromisedTypes, DeliveredStays
    <3>4. QED BY <1>2, <2>1, <3>2, <3>3
  <2>2. CASE a # Type(w)
    <3>1. actions'[a] = actions[a] BY <1>2, <2>2, PromisedTypes
    <3>2. QED BY <1>3, <1>5, <3>1, CompletedStays DEF OutcomesHold, Is
  <2>3. QED BY <2>1, <2>2
<1>6. ASSUME NEW a \in Promised, Is(actions[a], "failed")'
      PROVE  actions'[a].attempts >= MaxAttempts
  BY <1>2, <1>6, PromisedTypes DEF OutcomesHold, FailedIsExhausted, Is
<1>7. QED BY <1>4, <1>5, <1>6 DEF OutcomesHold, CompletedIsTrue, FailedIsExhausted

LEMMA CompleteOutcome ==
    ASSUME IInv, OutcomesHold, NEW w \in Workers, complete_claimed_action(w)
    PROVE  OutcomesHold'
<1>1. IInv' /\ worker[w].pc = "complete" /\ Record(w, CompletedRow(w)) BY CompleteStep
<1>2. Working(w) /\ worker[w].task \in TaskIds \cup {None} /\ worker[w].task # None
  BY <1>1, WorkerFields DEF Working, IInv, WorkerOK, Effects
<1>3. QED BY <1>1, <1>2, CompletedRowType, OutcomeRecorded

LEMMA FailOutcome ==
    ASSUME IInv, OutcomesHold, NEW w \in Workers, fail_claimed_action(w)
    PROVE  OutcomesHold'
<1>1. IInv' /\ worker[w].pc = "fail" /\ Record(w, FailedRow(w)) /\ Working(w)
  BY FailStep DEF Working
<1>2. /\ FailedRow(w) \in CustomerReturnAction
      /\ FailedRow(w).status \in {"failed", "pending"}
      /\ FailedRow(w).attempts = actions[Type(w)].attempts
      /\ FailedRow(w).status = "failed" => worker[w].row.attempts >= MaxAttempts
  BY <1>1, FailedRowType
<1>3. Type(w) \in Promised => worker[w].row.attempts <= actions[Type(w)].attempts
  BY <1>1 DEF OutcomesHold, AttemptsKept
<1>4. worker[w].row.attempts \in Nat /\ actions[Type(w)].attempts \in Nat
  <2>1. Holds(w) /\ TypeOK BY <1>1 DEF IInv, WorkerOK
  <2>2. worker[w].row \in CustomerReturnAction /\ Type(w) \in ActionTypes
    BY <2>1, WorkerFields DEF Holds
  <2>3. actions[Type(w)] \in CustomerReturnAction BY <2>1, <2>2 DEF Holds, TypeOK
  <2>4. QED BY <2>2, <2>3, RowFields
<1>5. Type(w) \in Promised /\ FailedRow(w).status = "failed" => FailedRow(w).attempts >= MaxAttempts
  BY <1>2, <1>3, <1>4, Bounds
<1>6. QED BY <1>1, <1>2, <1>5, OutcomeRecorded

LEMMA ClaimOutcome ==
    ASSUME IInv, OutcomesHold, NEW w \in Workers, claim_due_actions(w)
    PROVE  OutcomesHold'
<1>1. /\ IInv' /\ UNCHANGED bitrix /\ worker'[w].pc = "next"
      /\ \A v \in Workers : v # w => worker'[v] = worker[v]
      /\ \A a \in ActionTypes : a \notin Batch => actions'[a] = actions[a]
      /\ \A a \in Batch :
           /\ actions[a] \in CustomerReturnAction
           /\ actions'[a] \in CustomerReturnAction /\ actions'[a].status = "leased"
           /\ actions'[a].attempts = actions[a].attempts + 1
  BY ClaimStep
<1>2. Grows BY <1>1 DEF Grows, bitrix
<1>3. AttemptsGrow
  <2>1. \A a \in ActionTypes : actions[a] # None => actions[a].attempts \in Nat
    BY RowFields DEF IInv, TypeOK
  <2>2. QED BY <1>1, <2>1, PromisedTypes DEF AttemptsGrow
<1>4. OutcomesKept BY <1>1, PromisedTypes DEF OutcomesKept, Is
<1>5. \A v \in Workers : HoldsCurrent(v) BY <1>1 DEF HoldsCurrent, Working
<1>6. QED BY <1>1, <1>2, <1>3, <1>4, <1>5, OutcomesUntouched

(* Steps that leave the rows alone.                                          *)
LEMMA RowsAlone ==
    ASSUME IInv, IInv', OutcomesHold, Grows, UNCHANGED actions,
           \A w \in Workers : HoldsCurrent(w)
    PROVE  OutcomesHold'
<1>1. \A a \in ActionTypes : actions[a] # None => actions[a].attempts \in Nat
  BY RowFields DEF IInv, TypeOK
<1>2. AttemptsGrow /\ OutcomesKept BY <1>1, PromisedTypes DEF AttemptsGrow, OutcomesKept
<1>3. QED BY <1>2, OutcomesUntouched

LEMMA LoadOutcome ==
    ASSUME IInv, OutcomesHold, NEW w \in Workers, load_claimed_action(w)
    PROVE  OutcomesHold'
<1>1. /\ IInv' /\ UNCHANGED <<actions, registry, claims, crashes, bitrix>>
      /\ \A v \in Workers : v # w => worker'[v] = worker[v]
      /\ \/ worker'[w] = Idle
         \/ Type(w)' \in ActionTypes /\ worker'[w].row = actions[Type(w)']
  BY LoadStep
<1>2. Grows BY <1>1 DEF Grows, bitrix
<1>3. \A v \in Workers : HoldsCurrent(v) BY <1>1, IdleType DEF HoldsCurrent, Working
<1>4. QED BY <1>1, <1>2, <1>3, RowsAlone

LEMMA CommitOutcome ==
    ASSUME IInv, OutcomesHold, commit_registry
    PROVE  OutcomesHold'
<1>1. /\ IInv' /\ UNCHANGED <<worker, bitrix>>
      /\ \A a \in ActionTypes :
            /\ reg.writes[a] \in Write \cup {None}
            /\ actions'[a] = Written(actions[a], reg.writes[a])
            /\ reg.writes[a] # None => (reg.writes[a].kind = "insert" <=> actions[a] = None)
            /\ reg.writes[a] # None => (reg.writes[a].kind = "complete" => a \in ByHand)
  BY CommitStep
<1>2. ASSUME NEW a \in Promised
      PROVE  /\ actions[a] # None => actions'[a].attempts >= actions[a].attempts
             /\ Is(actions'[a], "completed") =>
                   Is(actions[a], "completed") /\ actions'[a].ref = actions[a].ref
             /\ Is(actions'[a], "failed") => Is(actions[a], "failed")
  <2>1. actions[a] \in CustomerReturnAction \cup {None} BY PromisedTypes DEF IInv, TypeOK
  <2>2. actions[a] # None => actions[a].attempts \in Nat BY <2>1, RowFields
  <2>3. /\ reg.writes[a] = None => actions'[a] = actions[a]
        /\ reg.writes[a] # None /\ reg.writes[a].kind = "insert" => actions'[a].status = "pending"
        /\ reg.writes[a] # None /\ reg.writes[a].kind = "reschedule" =>
             /\ actions'[a].status = actions[a].status
             /\ actions'[a].attempts = actions[a].attempts
             /\ actions'[a].ref = actions[a].ref
        /\ reg.writes[a] # None /\ reg.writes[a].kind = "skip" =>
             /\ actions'[a].status = "skipped"
             /\ actions'[a].attempts = actions[a].attempts
    BY <1>1, <2>1, WrittenType, PromisedTypes
  <2>4. reg.writes[a] # None => reg.writes[a].kind \in {"insert", "reschedule", "skip"}
    BY <1>1, WriteFields, PromisedTypes DEF Promised
  <2>5. CASE reg.writes[a] = None BY <2>2, <2>3, <2>5
  <2>6. CASE reg.writes[a] # None /\ reg.writes[a].kind = "insert"
    BY <1>1, <2>3, <2>6, PromisedTypes DEF Is
  <2>7. CASE reg.writes[a] # None /\ reg.writes[a].kind = "reschedule"
    BY <1>1, <2>2, <2>3, <2>7, PromisedTypes DEF Is
  <2>8. CASE reg.writes[a] # None /\ reg.writes[a].kind = "skip" BY <2>2, <2>3, <2>8 DEF Is
  <2>9. QED BY <2>4, <2>5, <2>6, <2>7, <2>8
<1>3. AttemptsGrow /\ OutcomesKept BY <1>2 DEF AttemptsGrow, OutcomesKept
<1>4. Grows /\ \A v \in Workers : HoldsCurrent(v)
  BY <1>1 DEF Grows, bitrix, HoldsCurrent, Working
<1>5. QED BY <1>1, <1>3, <1>4, OutcomesUntouched

LEMMA TickOutcome ==
    ASSUME IInv, OutcomesHold, Tick
    PROVE  OutcomesHold'
<1>1. /\ IInv' /\ UNCHANGED bitrix
      /\ \A a \in ActionTypes : SameButTimes(actions[a], actions'[a])
      /\ \A w \in Workers : SameWork(w)
  BY TickStep
<1>2. \A a \in ActionTypes : actions[a] # None => actions[a].attempts \in Nat
  BY RowFields DEF IInv, TypeOK
<1>3. AttemptsGrow /\ OutcomesKept BY <1>1, <1>2, PromisedTypes DEF AttemptsGrow, OutcomesKept, SameButTimes, Is
<1>4. Grows /\ \A v \in Workers : HoldsCurrent(v)
  BY <1>1 DEF Grows, bitrix, HoldsCurrent, Working, SameWork
<1>5. QED BY <1>1, <1>3, <1>4, OutcomesUntouched

LEMMA NextOutcome ==
    ASSUME IInv, OutcomesHold, [Next]_vars
    PROVE  OutcomesHold'
<1>1. IInv' BY NextIInv
<1>2. CASE UNCHANGED vars
  <2>1. Grows /\ UNCHANGED actions /\ \A v \in Workers : HoldsCurrent(v)
    BY <1>2 DEF Grows, vars, HoldsCurrent, Working
  <2>2. QED BY <1>1, <2>1, RowsAlone
<1>3. CASE RegistryLoad
  <2>1. Loads BY <1>3, RegistryLoads
  <2>2. Grows /\ UNCHANGED actions /\ \A v \in Workers : HoldsCurrent(v)
    BY <2>1 DEF Grows, Loads, bitrix, HoldsCurrent, Working
  <2>3. QED BY <1>1, <2>2, RowsAlone
<1>4. CASE commit_registry BY <1>4, CommitOutcome
<1>5. CASE Tick BY <1>5, TickOutcome
<1>6. ASSUME NEW w \in Workers, DeliveryAction(w) PROVE OutcomesHold'
  <2>1. Delivers(w) BY <1>6, DeliveryKeeps
  <2>2. Grows /\ UNCHANGED actions /\ \A v \in Workers : HoldsCurrent(v)
    BY <2>1 DEF Delivers, HoldsCurrent, Working
  <2>3. QED BY <1>1, <2>2, RowsAlone
<1>7. ASSUME NEW w \in Workers, crash(w) PROVE OutcomesHold'
  <2>1. /\ UNCHANGED <<actions, registry, claims, bitrix>>
        /\ worker'[w] = Idle /\ \A v \in Workers : v # w => worker'[v] = worker[v]
    BY <1>7, CrashStep
  <2>2. Grows /\ UNCHANGED actions /\ \A v \in Workers : HoldsCurrent(v)
    BY <2>1, IdleType DEF Grows, bitrix, HoldsCurrent, Working
  <2>3. QED BY <1>1, <2>2, RowsAlone
<1>8. QED
  BY <1>2, <1>3, <1>4, <1>5, <1>6, <1>7, ClaimOutcome, LoadOutcome, CompleteOutcome,
     FailOutcome, NextIs

LEMMA InitOutcome ==
    ASSUME Init
    PROVE  OutcomesHold
<1>1. /\ \A a \in ActionTypes : actions[a] = None
      /\ \A w \in Workers : worker[w].pc = "next"
  BY IdleType DEF Init
<1>2. QED
  BY <1>1, PromisedTypes
  DEF OutcomesHold, AttemptsKept, Working, CompletedIsTrue, FailedIsExhausted, Is

LEMMA OutcomesAlwaysHold == Spec => []OutcomesHold
<1>1. Init => OutcomesHold BY InitOutcome
<1>2. IInv /\ OutcomesHold /\ [Next]_vars => OutcomesHold' BY NextOutcome
<1>3. QED BY <1>1, <1>2, InvariantHolds, PTL DEF Spec

(* A completed action has had its effect in Bitrix24, however many workers   *)
(* overtake each other after their leases ran out: the program counter of    *)
(* the one that records it proves it, whatever the row holds by then.        *)
THEOREM CompletedWasDelivered ==
    ASSUME NoCompletionByHand
    PROVE  Spec => []CompletedMeansDelivered
<1>1. OutcomesHold => CompletedMeansDelivered
  BY DEF OutcomesHold, CompletedIsTrue, CompletedMeansDelivered, Promised, NoCompletionByHand
<1>2. QED BY <1>1, OutcomesAlwaysHold, PTL

(* No action is given up before its attempts are used up: the attempts a     *)
(* worker loaded never exceed those of the row it writes to.                 *)
THEOREM GivenUpWasExhausted ==
    ASSUME NoCompletionByHand
    PROVE  Spec => []GivesUpOnlyWhenExhausted
<1>1. OutcomesHold => GivesUpOnlyWhenExhausted
  BY DEF OutcomesHold, FailedIsExhausted, GivesUpOnlyWhenExhausted, Promised, NoCompletionByHand
<1>2. QED BY <1>1, OutcomesAlwaysHold, PTL

------------------------------------------------------------------------------
(* One worker at a time: the task and its messages.                          *)

StartsAdding(w) ==
    /\ worker'[w].pc = "add" /\ Type(w)' = "arrival_task"
    /\ ~(worker[w].pc = "add" /\ Type(w) = "arrival_task")

LEMMA TasksAlone ==
    ASSUME OneTask, UNCHANGED tasks, \A w \in Workers : ~StartsAdding(w)
    PROVE  OneTask'
BY DEF OneTask, TaskLookedFor, OneTaskPerShipment, StartsAdding

LEMMA WorkKept ==
    ASSUME NEW w \in Workers, SameWork(w) \/ worker'[w].pc # "add"
    PROVE  ~StartsAdding(w)
BY DEF SameWork, StartsAdding, Type

LEMMA EmptyOrOne ==
    /\ Cardinality({}) = 0
    /\ \A x : Cardinality({x}) = 1
BY FS_EmptySet, FS_Singleton

(* The look before the add: with one worker nobody adds in between.          *)
LEMMA DeliveryOneTask ==
    ASSUME OneWorker, IInv, OneTask, NEW w \in Workers, DeliveryAction(w)
    PROVE  OneTask'
<1>1. TypeOK /\ Delivers(w) BY DeliveryKeeps DEF IInv
<1>2. Type(w)' = Type(w) /\ \A v \in Workers : v = w BY <1>1 DEF Delivers, Type, OneWorker
<1>3. worker[w].task \in TaskIds \cup {None} BY <1>1, WorkerFields
<1>4. CASE find_task(w)
  <2>1. UNCHANGED tasks /\ Type(w) = "arrival_task"
    BY <1>4 DEF find_task, bitrix, Delivering, Type
  <2>2. CASE tasks = {}
    <3>1. tasks' = {} BY <2>1, <2>2
    <3>2. Cardinality(tasks') <= 1 BY <3>1, EmptyOrOne
    <3>3. QED BY <3>1, <3>2 DEF OneTask, TaskLookedFor, OneTaskPerShipment
  <2>3. ASSUME NEW t \in tasks, Moves(w, "complete", t) PROVE OneTask'
    <3>1. t \in TaskIds BY <1>1, TaskIdsAre DEF TypeOK
    <3>2. worker'[w].pc = "complete" BY <1>1, <2>3, <3>1, MovesType DEF PCs
    <3>3. QED BY <1>2, <2>1, <3>2, WorkKept, TasksAlone
  <2>4. QED BY <1>4, <2>2, <2>3 DEF find_task
<1>5. CASE add_task(w)
  <2> DEFINE t == Cardinality(tasks) + 1
  <2>1. /\ worker[w].pc = "add" /\ Type(w) = "arrival_task" /\ tasks' = tasks \cup {t}
        /\ Moves(w, "complete", t) \/ Moves(w, "fail", None)
        /\ Cardinality(tasks) < MaxTasks
    BY <1>5 DEF add_task, At, Delivering, Type
  <2>2. tasks = {} BY <2>1 DEF OneTask, TaskLookedFor
  <2>3. t \in TaskIds BY <1>1, <2>1, NextTask
  <2> HIDE DEF t
  <2>4. tasks' = {t} BY <2>1, <2>2
  <2>5. Cardinality(tasks') <= 1 BY <2>4, EmptyOrOne
  <2>6. worker'[w].pc # "add" BY <1>1, <2>1, <2>3, MovesType DEF PCs
  <2>7. QED BY <1>2, <2>5, <2>6 DEF OneTask, TaskLookedFor, OneTaskPerShipment
<1>6. CASE find_comment(w) \/ add_comment(w)
  <2>1. UNCHANGED tasks /\ Type(w) # "arrival_task"
    BY <1>6 DEF find_comment, add_comment, bitrix, Delivering, MessageTypes, Type
  <2>2. QED BY <1>2, <2>1, TasksAlone DEF StartsAdding
<1>7. CASE ensure_completed(w) \/ bitrix_error(w)
  <2>1. UNCHANGED tasks BY <1>7 DEF ensure_completed, bitrix_error, bitrix
  <2>2. \E pc \in {"complete", "fail"} : Moves(w, pc, worker[w].task)
    BY <1>7 DEF ensure_completed, bitrix_error
  <2>3. worker'[w].pc # "add" BY <1>1, <1>3, <2>2, MovesType DEF PCs
  <2>4. QED BY <1>2, <2>1, <2>3, WorkKept, TasksAlone
<1>8. QED BY <1>4, <1>5, <1>6, <1>7 DEF DeliveryAction

(* Every other step leaves Bitrix24 alone; a worker that it moves does not   *)
(* stand before a call that adds.                                            *)
Elsewhere ==
    /\ UNCHANGED bitrix
    /\ \A w \in Workers :
          \/ SameWork(w)
          \/ worker'[w].pc \in {"next", "fail"}
          \/ /\ worker'[w].pc = "find"
             /\ Type(w)' # "arrival_task" => ArrivalTask # None /\ worker'[w].task = ArrivalTask

LEMMA OtherSteps ==
    ASSUME IInv, [Next]_vars
    PROVE  Elsewhere \/ \E w \in Workers : DeliveryAction(w)
<1>1. CASE UNCHANGED vars BY <1>1 DEF Elsewhere, vars, bitrix, SameWork
<1>2. CASE RegistryLoad
  <2>1. Loads BY <1>2, RegistryLoads
  <2>2. QED BY <2>1 DEF Elsewhere, Loads, SameWork
<1>3. CASE commit_registry BY <1>3, CommitStep DEF Elsewhere, SameWork
<1>4. CASE Tick BY <1>4, TickStep DEF Elsewhere
<1>5. ASSUME NEW w \in Workers, claim_due_actions(w) PROVE Elsewhere
  BY <1>5, ClaimStep DEF Elsewhere, SameWork
<1>6. ASSUME NEW w \in Workers, load_claimed_action(w) PROVE Elsewhere
  <2>1. /\ UNCHANGED bitrix /\ \A v \in Workers : v # w => worker'[v] = worker[v]
        /\ \/ worker'[w] = Idle
           \/ /\ worker'[w].pc \in {"find", "fail"}
              /\ worker'[w].pc = "find" /\ Type(w)' # "arrival_task" =>
                    worker'[w].task = ArrivalTask /\ ArrivalTask # None
    BY <1>6, LoadStep
  <2>2. QED BY <2>1, IdleType DEF Elsewhere, SameWork
<1>7. ASSUME NEW w \in Workers, complete_claimed_action(w) PROVE Elsewhere
  <2>1. Record(w, CompletedRow(w)) /\ worker[w].pc = "complete" BY <1>7, CompleteStep
  <2>2. CompletedRow(w) \in CustomerReturnAction /\ Working(w)
    BY <2>1, CompletedRowType DEF Working
  <2>3. worker'[w].pc = "next" /\ \A v \in Workers : v # w => worker'[v] = worker[v]
    BY <2>1, <2>2, RecordStep
  <2>4. QED BY <2>1, <2>3 DEF Elsewhere, Record, SameWork
<1>8. ASSUME NEW w \in Workers, fail_claimed_action(w) PROVE Elsewhere
  <2>1. Record(w, FailedRow(w)) /\ worker[w].pc = "fail" BY <1>8, FailStep
  <2>2. FailedRow(w) \in CustomerReturnAction /\ Working(w)
    BY <2>1, FailedRowType DEF Working
  <2>3. worker'[w].pc = "next" /\ \A v \in Workers : v # w => worker'[v] = worker[v]
    BY <2>1, <2>2, RecordStep
  <2>4. QED BY <2>1, <2>3 DEF Elsewhere, Record, SameWork
<1>9. ASSUME NEW w \in Workers, crash(w) PROVE Elsewhere
  BY <1>9, CrashStep, IdleType DEF Elsewhere, SameWork
<1>10. QED BY <1>1, <1>2, <1>3, <1>4, <1>5, <1>6, <1>7, <1>8, <1>9, NextIs

LEMMA NextOneTask ==
    ASSUME OneWorker, IInv, OneTask, [Next]_vars
    PROVE  OneTask'
<1>1. CASE Elsewhere
  <2>1. \A w \in Workers : SameWork(w) \/ worker'[w].pc # "add" BY <1>1 DEF Elsewhere
  <2>2. UNCHANGED tasks BY <1>1 DEF Elsewhere, bitrix
  <2>3. QED BY <2>1, <2>2, WorkKept, TasksAlone
<1>2. QED BY <1>1, DeliveryOneTask, OtherSteps

LEMMA OneTaskAlways ==
    ASSUME OneWorker
    PROVE  Spec => []OneTask
<1>1. Init => OneTask
  <2> SUFFICES ASSUME Init PROVE OneTask OBVIOUS
  <2>1. tasks = {} BY DEF Init
  <2>2. Cardinality(tasks) <= 1 BY <2>1, EmptyOrOne
  <2>3. QED BY <2>1, <2>2 DEF OneTask, TaskLookedFor, OneTaskPerShipment
<1>2. IInv /\ OneTask /\ [Next]_vars => OneTask' BY NextOneTask
<1>3. QED BY <1>1, <1>2, InvariantHolds, PTL DEF Spec

(* The shipment has at most one task, whatever answers and processes are     *)
(* lost and whatever is completed by hand: the task is looked for before it  *)
(* is added, and with one worker nobody adds it in between.                  *)
THEOREM TaskOnce ==
    ASSUME OneWorker
    PROVE  Spec => []OneTaskPerShipment
<1>1. OneTask => OneTaskPerShipment BY DEF OneTask
<1>2. QED BY <1>1, OneTaskAlways, PTL

------------------------------------------------------------------------------
(* One worker at a time: each message once.                                  *)

LEMMA CommentKnownKept ==
    ASSUME IInv, UNCHANGED comments, tasks \subseteq tasks',
           NEW w \in Workers, CommentKnown(w), SameWork(w) \/ worker'[w].pc \in {"next", "fail"}
    PROVE  CommentKnown(w)'
BY DEF CommentKnown, SameWork, Type, Working

LEMMA ArrivalTaskExists ==
    ASSUME CompletedIsTrue, "arrival_task" \notin ByHand, ArrivalTask # None
    PROVE  ArrivalTask \in tasks
<1>1. "arrival_task" \in Promised BY Bounds DEF Promised
<1>2. QED BY <1>1 DEF CompletedIsTrue, ArrivalTask, Delivered, Is

LEMMA CommentsElsewhere ==
    ASSUME IInv, CompletedIsTrue, "arrival_task" \notin ByHand, OneComment, Elsewhere
    PROVE  OneComment'
<1>1. UNCHANGED <<comments, tasks>> BY DEF Elsewhere, bitrix
<1>2. ASSUME NEW w \in Workers PROVE CommentKnown(w)'
  <2>1. CASE SameWork(w) \/ worker'[w].pc \in {"next", "fail"}
    BY <1>1, <2>1, CommentKnownKept DEF OneComment, CommentLookedFor
  <2>2. CASE /\ worker'[w].pc = "find"
             /\ Type(w)' # "arrival_task" => ArrivalTask # None /\ worker'[w].task = ArrivalTask
    BY <1>1, <2>2, ArrivalTaskExists DEF CommentKnown
  <2>3. QED BY <2>1, <2>2 DEF Elsewhere
<1>3. QED
  BY <1>1, <1>2 DEF OneComment, CommentsAreOnTasks, CommentLookedFor, CommentsOnce

(* A delivery that posts nothing.                                            *)
LEMMA CommentsAlone ==
    ASSUME OneWorker, OneComment, NEW w \in Workers, UNCHANGED comments, tasks \subseteq tasks',
           CommentKnown(w)'
    PROVE  OneComment'
<1>1. \A v \in Workers : v = w BY DEF OneWorker
<1>2. CommentLookedFor' BY <1>1 DEF CommentLookedFor
<1>3. QED BY <1>2 DEF OneComment, CommentsAreOnTasks, CommentsOnce

LEMMA AddCommentOnce ==
    ASSUME OneWorker, IInv, OneComment, NEW w \in Workers, add_comment(w)
    PROVE  OneComment'
<1>1. /\ worker[w].pc = "add" /\ Delivering(w, MessageTypes)
      /\ comments' = [comments EXCEPT ![worker[w].task][Type(w)] = @ + 1]
      /\ UNCHANGED tasks
  BY DEF add_comment, At, Type
<1>2. Working(w) BY <1>1 DEF Working
<1>3. /\ TypeOK /\ worker[w].task \in TaskIds /\ Type(w) \in ActionTypes
      /\ Type(w) # "arrival_task" /\ AfterComment(w) \in {"close", "complete"}
  BY <1>1, <1>2, MessageFacts
<1>4. worker[w].task \in tasks /\ comments[worker[w].task][Type(w)] = 0
  BY <1>1, <1>2, <1>3 DEF OneComment, CommentLookedFor, CommentKnown
<1>5. comments \in [TaskIds -> [ActionTypes -> 0..MaxComments]] BY <1>3 DEF TypeOK
<1>6. ASSUME NEW t \in TaskIds, NEW a \in ActionTypes
      PROVE  comments'[t][a] = IF t = worker[w].task /\ a = Type(w) THEN 1 ELSE comments[t][a]
  BY <1>1, <1>3, <1>4, <1>5
<1>7. CommentsOnce' BY <1>6 DEF OneComment, CommentsOnce
<1>8. CommentsAreOnTasks' BY <1>1, <1>4, <1>6 DEF OneComment, CommentsAreOnTasks
<1>9. PICK pc \in {AfterComment(w), "fail"} : Moves(w, pc, worker[w].task) BY DEF add_comment
<1>10. worker'[w].pc # "add" /\ worker'[w].task = worker[w].task
  BY <1>3, <1>9, MovesType DEF PCs
<1>11. CommentLookedFor'
  BY <1>1, <1>4, <1>10 DEF CommentLookedFor, CommentKnown, OneWorker
<1>12. QED BY <1>7, <1>8, <1>11 DEF OneComment

LEMMA DeliveryOneComment ==
    ASSUME OneWorker, IInv, OneComment, NEW w \in Workers, DeliveryAction(w)
    PROVE  OneComment'
<1>1. TypeOK /\ Delivers(w) BY DeliveryKeeps DEF IInv
<1>2. Type(w)' = Type(w) /\ Working(w) BY <1>1 DEF Delivers, Type
<1>3. worker[w].task \in TaskIds \cup {None} BY <1>1, WorkerFields
<1>4. CASE find_task(w) \/ add_task(w)
  <2>1. Type(w) = "arrival_task" /\ UNCHANGED comments /\ tasks \subseteq tasks'
    BY <1>4 DEF find_task, add_task, Delivering, Type, bitrix
  <2>2. CommentKnown(w)' BY <1>2, <2>1 DEF CommentKnown
  <2>3. QED BY <2>1, <2>2, CommentsAlone
<1>5. CASE find_comment(w)
  <2> DEFINE found == comments[worker[w].task][Type(w)] > 0
             pc == IF found THEN AfterComment(w) ELSE "add"
  <2>1. /\ worker[w].pc = "find" /\ Delivering(w, MessageTypes)
        /\ Moves(w, pc, worker[w].task) /\ UNCHANGED <<tasks, comments>>
    BY <1>5 DEF find_comment, At, Type, bitrix
  <2>2. /\ worker[w].task \in TaskIds /\ Type(w) \in ActionTypes /\ Type(w) # "arrival_task"
        /\ AfterComment(w) \in {"close", "complete"}
    BY <1>2, <2>1, MessageFacts
  <2>3. worker[w].task \in tasks
    BY <1>2, <2>1, <2>2 DEF OneComment, CommentLookedFor, CommentKnown
  <2>4. comments[worker[w].task][Type(w)] \in Nat BY <1>1, <2>2 DEF TypeOK
  <2>5. pc \in PCs BY <2>2 DEF PCs
  <2>6. worker'[w].pc = pc /\ worker'[w].task = worker[w].task
    BY <1>1, <2>1, <2>2, <2>5, MovesType
  <2>7. CommentKnown(w)' BY <1>2, <2>1, <2>2, <2>3, <2>4, <2>6 DEF CommentKnown
  <2>8. QED BY <2>1, <2>7, CommentsAlone
<1>6. CASE add_comment(w) BY <1>6, AddCommentOnce
<1>7. CASE ensure_completed(w) \/ bitrix_error(w)
  <2>1. UNCHANGED <<tasks, comments>> BY <1>7 DEF ensure_completed, bitrix_error, bitrix
  <2>2. PICK pc \in {"complete", "fail"} : Moves(w, pc, worker[w].task)
    BY <1>7 DEF ensure_completed, bitrix_error
  <2>3. worker'[w].pc = pc /\ worker'[w].task = worker[w].task
    BY <1>1, <1>3, <2>2, MovesType DEF PCs
  <2>4. CommentKnown(w)'
    <3>1. CASE pc = "fail" BY <2>3, <3>1 DEF CommentKnown
    <3>2. CASE pc = "complete"
      <4>1. ensure_completed(w)
        <5>1. ~bitrix_error(w)
          <6>1. bitrix_error(w) => worker'[w].pc = "fail"
            BY <1>1, <1>3, MovesType DEF bitrix_error, PCs
          <6>2. QED BY <2>3, <3>2, <6>1
        <5>2. QED BY <1>7, <5>1
      <4>2. worker[w].pc = "close" BY <4>1 DEF ensure_completed, At
      <4>3. Type(w) # "arrival_task" => worker[w].task \in tasks
        BY <1>2, <4>2 DEF OneComment, CommentLookedFor, CommentKnown
      <4>4. QED BY <1>2, <2>1, <2>3, <3>2, <4>3 DEF CommentKnown
    <3>3. QED BY <3>1, <3>2
  <2>5. QED BY <2>1, <2>4, CommentsAlone
<1>8. QED BY <1>4, <1>5, <1>6, <1>7 DEF DeliveryAction

LEMMA OneCommentAlways ==
    ASSUME OneWorker, "arrival_task" \notin ByHand
    PROVE  Spec => []OneComment
<1>1. Init => OneComment
  <2> SUFFICES ASSUME Init PROVE OneComment OBVIOUS
  <2>1. /\ \A t \in TaskIds, a \in ActionTypes : comments[t][a] = 0
        /\ \A w \in Workers : ~Working(w)
    BY IdleType DEF Init, Working
  <2>2. QED
    BY <2>1 DEF OneComment, CommentsAreOnTasks, CommentLookedFor, CommentKnown, CommentsOnce
<1>2. IInv /\ OutcomesHold /\ OneComment /\ [Next]_vars => OneComment'
  BY OtherSteps, CommentsElsewhere, DeliveryOneComment DEF OutcomesHold
<1>3. QED BY <1>1, <1>2, InvariantHolds, OutcomesAlwaysHold, PTL DEF Spec

(* A message is posted at most once over all attempts, crashes and lost      *)
(* answers: it goes to the one task the arrival action names, and is looked  *)
(* for there before each post.  Other actions may be completed by hand.      *)
THEOREM MessageOnce ==
    ASSUME OneWorker, "arrival_task" \notin ByHand
    PROVE  Spec => []EachMessageOnce
<1>1. ASSUME IInv, OneComment, OneTaskPerShipment PROVE EachMessageOnce
  <2> SUFFICES ASSUME NEW a \in MessageTypes, NEW t \in TaskIds, NEW u \in TaskIds
               PROVE  /\ comments[t][a] <= 1
                      /\ comments[t][a] = 1 /\ comments[u][a] = 1 => t = u
    BY DEF EachMessageOnce
  <2>1. a \in ActionTypes BY DEF MessageTypes
  <2>2. comments[t][a] <= 1 BY <1>1, <2>1 DEF OneComment, CommentsOnce
  <2>3. ASSUME comments[t][a] = 1, comments[u][a] = 1 PROVE t = u
    <3>1. {t, u} \subseteq tasks BY <1>1, <2>1, <2>3 DEF OneComment, CommentsAreOnTasks
    <3>2. IsFiniteSet(tasks)
      <4>1. tasks \subseteq 1..MaxTasks BY <1>1 DEF IInv, TypeOK
      <4>2. IsFiniteSet(1..MaxTasks) BY Bounds, FS_Interval
      <4>3. QED BY <4>1, <4>2, FS_Subset
    <3>3. Cardinality({t, u}) <= Cardinality(tasks) BY <3>1, <3>2, FS_Subset
    <3>4. SUFFICES ASSUME t # u PROVE FALSE OBVIOUS
    <3>5. IsFiniteSet({t}) /\ Cardinality({t}) = 1 BY FS_Singleton
    <3>6. Cardinality({t} \cup {u}) = Cardinality({t}) + 1 BY <3>4, <3>5, FS_AddElement
    <3>7. {t} \cup {u} = {t, u} OBVIOUS
    <3>8. Cardinality({t, u}) = 2 BY <3>5, <3>6, <3>7
    <3>9. Cardinality(tasks) \in Nat BY <3>2, FS_CardinalityType
    <3>10. QED BY <1>1, <3>3, <3>8, <3>9 DEF OneTaskPerShipment
  <2>4. QED BY <2>2, <2>3
<1>2. QED BY <1>1, InvariantHolds, OneCommentAlways, TaskOnce, PTL

------------------------------------------------------------------------------
(* One worker at a time: the plain life cycle of the promised actions.       *)

Phase(row) ==
    CASE row = None -> "none"
      [] row # None /\ row.status \in {"pending", "leased"} -> "open"
      [] OTHER -> "settled"
(* The refinement mapping, written as Lifecycle has it.                      *)
phases ==
    [a \in Promised |->
        CASE actions[a] = None -> "none"
          [] actions[a] # None /\ actions[a].status \in {"pending", "leased"} -> "open"
          [] OTHER -> "settled"]

LEMMA PhasesAre == phases = [a \in Promised |-> Phase(actions[a])]
BY DEF phases, Phase

LEMMA PhaseIs ==
    ASSUME NEW row
    PROVE  /\ row = None => Phase(row) = "none"
           /\ row # None /\ row.status \in {"pending", "leased"} => Phase(row) = "open"
           /\ row # None /\ row.status \notin {"pending", "leased"} => Phase(row) = "settled"
BY DEF Phase

LEMMA LifecycleIs ==
    /\ Lifecycle!Init <=> phases = [a \in Promised |-> "none"]
    /\ Lifecycle!Next <=>
          \E S, T \in SUBSET Promised :
              /\ S \cup T # {}
              /\ \A a \in S : phases[a] = "none"
              /\ \A a \in T : phases[a] = "open"
              /\ phases' = [a \in Promised |->
                              IF a \in S THEN "open"
                              ELSE IF a \in T THEN "settled" ELSE phases[a]]
BY DEF Lifecycle!Init, Lifecycle!Next, phases, Phase

(* A step schedules some actions and settles others, or does neither.        *)
LEMMA PhasesStep ==
    ASSUME \A a \in Promised :
              \/ Phase(actions'[a]) = Phase(actions[a])
              \/ Phase(actions[a]) = "none" /\ Phase(actions'[a]) = "open"
              \/ Phase(actions[a]) = "open" /\ Phase(actions'[a]) = "settled"
    PROVE  Lifecycle!Next \/ phases' = phases
<1> DEFINE S == {a \in Promised : phases[a] = "none" /\ phases'[a] = "open"}
           T == {a \in Promised : phases[a] = "open" /\ phases'[a] = "settled"}
<1>1. \A a \in Promised : phases[a] = Phase(actions[a]) /\ phases'[a] = Phase(actions'[a])
  <2>1. phases' = [a \in Promised |-> Phase(actions'[a])] BY DEF phases, Phase
  <2>2. QED BY <2>1, PhasesAre
<1>2. ASSUME NEW a \in Promised
      PROVE  phases'[a] = IF a \in S THEN "open" ELSE IF a \in T THEN "settled" ELSE phases[a]
  BY <1>1 DEF Promised
<1>3. phases' = [a \in Promised |->
                    IF a \in S THEN "open" ELSE IF a \in T THEN "settled" ELSE phases[a]]
  <2>1. phases' = [a \in Promised |-> phases'[a]] BY DEF phases
  <2>2. QED BY <1>2, <2>1
<1>4. CASE S \cup T = {}
  <2>1. \A a \in Promised : phases'[a] = phases[a] BY <1>2, <1>4
  <2>2. /\ phases' = [a \in Promised |-> phases'[a]]
        /\ phases = [a \in Promised |-> phases[a]]
    BY DEF phases
  <2>3. QED BY <2>1, <2>2
<1>5. CASE S \cup T # {}
  <2>1. /\ S \in SUBSET Promised /\ T \in SUBSET Promised
        /\ \A a \in S : phases[a] = "none"
        /\ \A a \in T : phases[a] = "open"
    OBVIOUS
  <2> HIDE DEF S, T
  <2>2. QED BY <1>3, <1>5, <2>1, LifecycleIs
<1>6. QED BY <1>4, <1>5

(* What a step does to the rows: each keeps its phase, is scheduled or is    *)
(* settled.                                                                  *)
PhasesMove ==
    \A a \in Promised :
        \/ Phase(actions'[a]) = Phase(actions[a])
        \/ Phase(actions[a]) = "none" /\ Phase(actions'[a]) = "open"
        \/ Phase(actions[a]) = "open" /\ Phase(actions'[a]) = "settled"
LeasedRowsStay ==
    \A a \in Promised : actions[a] # None /\ actions[a].status = "leased" =>
        actions'[a].status = "leased" /\ actions'[a].token = actions[a].token

LEMMA LeasesKept ==
    ASSUME IInv, LeasedRowsStay, NEW w \in Workers, KeepsLeases(w),
           worker'[w].queue = worker[w].queue /\ SameWork(w)
    PROVE  KeepsLeases(w)'
<1>1. TypeOK /\ WorkerOK(w) BY DEF IInv
<1>2. \A c \in worker[w].queue : c.type \in ActionTypes /\ actions[c.type] # None
  BY <1>1, WorkerFields DEF WorkerOK
<1>3. \A c \in worker'[w].queue : c.type \in Promised => Leases(c)'
  BY <1>2 DEF KeepsLeases, Leases, LeasedRowsStay
<1>4. ASSUME Working(w)'
      PROVE  /\ Type(w)' \in Promised => Leases(worker[w].claim)'
             /\ worker'[w].claim \notin worker'[w].queue
  <2>1. Working(w) /\ Holds(w) BY <1>1, <1>4 DEF Working, SameWork, WorkerOK
  <2>2. Type(w) \in ActionTypes /\ actions[Type(w)] # None BY <1>1, <2>1, WorkerFields DEF Holds
  <2>3. QED BY <2>1, <2>2 DEF KeepsLeases, Leases, LeasedRowsStay, SameWork, Type
<1>5. ASSUME Working(w)' PROVE worker'[w].claim = worker[w].claim BY <1>5 DEF Working, SameWork
<1>6. QED BY <1>3, <1>4, <1>5 DEF KeepsLeases

LEMMA RowsUntouched ==
    ASSUME UNCHANGED actions
    PROVE  LeasedRowsStay /\ PhasesMove
BY DEF LeasedRowsStay, PhasesMove

LEMMA ClaimLeases ==
    ASSUME OneWorker, IInv, RowsAreLeased, NEW w \in Workers, claim_due_actions(w)
    PROVE  RowsAreLeased' /\ PhasesMove
<1>1. /\ UNCHANGED registry /\ worker'[w].pc = "next"
      /\ \A a \in ActionTypes : a \notin Batch => actions'[a] = actions[a]
      /\ \A a \in Batch :
           /\ actions[a] \in CustomerReturnAction
           /\ actions[a].status = "pending" \/ LeaseRunOut(actions[a])
           /\ actions'[a] \in CustomerReturnAction /\ actions'[a].status = "leased"
      /\ worker'[w].queue = {[type |-> a, token |-> actions'[a].token] : a \in Batch}
  BY ClaimStep
<1>2. KeepsLeases(w)' BY <1>1 DEF KeepsLeases, Leases, Working
<1>3. RegistryOnlySchedules' BY <1>1 DEF RowsAreLeased, RegistryOnlySchedules, registry
<1>4. ASSUME NEW a \in Batch PROVE Phase(actions[a]) = "open" /\ Phase(actions'[a]) = "open"
  <2>1. actions[a] # None /\ actions'[a] # None BY <1>1, RowFields
  <2>2. actions[a].status \in {"pending", "leased"} BY <1>1 DEF LeaseRunOut, Is
  <2>3. QED BY <1>1, <2>1, <2>2, PhaseIs
<1>5. PhasesMove BY <1>1, <1>4, PromisedTypes DEF PhasesMove
<1>6. QED BY <1>2, <1>3, <1>5 DEF RowsAreLeased, LeasesStand, OneWorker

LEMMA LoadLeases ==
    ASSUME OneWorker, IInv, RowsAreLeased, NEW w \in Workers, load_claimed_action(w)
    PROVE  RowsAreLeased' /\ PhasesMove
<1>1. /\ UNCHANGED <<actions, registry>> /\ worker'[w].queue \subseteq worker[w].queue
      /\ \/ worker'[w] = Idle
         \/ worker'[w].claim \in worker[w].queue /\ worker'[w].claim \notin worker'[w].queue
  BY LoadStep
<1>2. KeepsLeases(w)'
  BY <1>1, IdleType DEF RowsAreLeased, LeasesStand, KeepsLeases, Leases, Working, Type
<1>3. RegistryOnlySchedules' BY <1>1 DEF RowsAreLeased, RegistryOnlySchedules, registry
<1>4. QED BY <1>1, <1>2, <1>3, RowsUntouched DEF RowsAreLeased, LeasesStand, OneWorker

(* The worker records on the row that it leased: no other claim of its batch *)
(* names it.                                                                 *)
LEMMA RecordLeases ==
    ASSUME OneWorker, IInv, RowsAreLeased, NEW w \in Workers, Working(w),
           NEW row \in CustomerReturnAction, Record(w, row)
    PROVE  RowsAreLeased' /\ PhasesMove
<1>1. /\ IInv' /\ actions' = [actions EXCEPT ![Type(w)] = row] /\ Type(w) \in ActionTypes
      /\ worker'[w].pc = "next" /\ worker'[w].queue = worker[w].queue
  BY RecordStep
<1>2. TypeOK /\ Holds(w) /\ KeepsLeases(w)
  BY DEF IInv, WorkerOK, RowsAreLeased, LeasesStand
<1>3. Type(w) \in Promised => actions[Type(w)] # None /\ actions[Type(w)].status = "leased"
  BY <1>2 DEF Holds, KeepsLeases, Leases, Type
<1>4. ASSUME NEW c \in worker[w].queue, c.type \in Promised PROVE Leases(c)'
  <2>1. c \in ClaimedCustomerReturnAction /\ c.type \in ActionTypes
    BY <1>2, WorkerFields
  <2>2. worker[w].claim \in ClaimedCustomerReturnAction
    BY <1>2, WorkerFields DEF Holds
  <2>3. /\ Leases(c) /\ c # worker[w].claim
        /\ Type(w) \in Promised => Leases(worker[w].claim)
    BY <1>2, <1>4 DEF KeepsLeases
  <2>4. c.type # Type(w)
    BY <1>4, <2>1, <2>2, <2>3 DEF Leases, Type, ClaimedCustomerReturnAction
  <2>5. actions'[c.type] = actions[c.type] BY <1>1, <1>2, <2>1, <2>4 DEF TypeOK
  <2>6. QED BY <2>3, <2>5 DEF Leases
<1>5. KeepsLeases(w)' BY <1>1, <1>4 DEF KeepsLeases, Working
<1>6. RegistryOnlySchedules' BY DEF RowsAreLeased, RegistryOnlySchedules, Record, registry
<1>7. PhasesMove
  <2>1. Type(w) \in Promised => Phase(actions[Type(w)]) = "open" BY <1>3, PhaseIs
  <2>2. Phase(row) \in {"open", "settled"} BY RowFields, PhaseIs
  <2>3. \A a \in ActionTypes : actions'[a] = IF a = Type(w) THEN row ELSE actions[a]
    BY <1>1, <1>2 DEF TypeOK
  <2>4. QED BY <2>1, <2>2, <2>3, PromisedTypes DEF PhasesMove
<1>8. QED BY <1>5, <1>6, <1>7 DEF RowsAreLeased, LeasesStand, OneWorker

LEMMA CommitLeases ==
    ASSUME IInv, RowsAreLeased, commit_registry
    PROVE  RowsAreLeased' /\ PhasesMove
<1>1. /\ UNCHANGED worker /\ reg' = None /\ reg # None
      /\ \A a \in ActionTypes :
            /\ reg.writes[a] \in Write \cup {None}
            /\ actions'[a] = Written(actions[a], reg.writes[a])
            /\ reg.writes[a] # None => (reg.writes[a].kind = "insert" <=> actions[a] = None)
  BY CommitStep
<1>2. ASSUME NEW a \in Promised
      PROVE  /\ actions[a] # None /\ actions[a].status = "leased" =>
                   actions'[a].status = "leased" /\ actions'[a].token = actions[a].token
             /\ \/ Phase(actions'[a]) = Phase(actions[a])
                \/ Phase(actions[a]) = "none" /\ Phase(actions'[a]) = "open"
  <2>1. actions[a] \in CustomerReturnAction \cup {None} BY PromisedTypes DEF IInv, TypeOK
  <2>2. reg.writes[a] # None => reg.writes[a].kind \in {"insert", "reschedule"}
    BY <1>1 DEF RowsAreLeased, RegistryOnlySchedules
  <2>3. CASE reg.writes[a] = None BY <1>1, <2>1, <2>3, WrittenType, PromisedTypes
  <2>4. CASE reg.writes[a] # None /\ reg.writes[a].kind = "insert"
    <3>1. actions[a] = None /\ actions'[a] \in CustomerReturnAction
          /\ actions'[a].status = "pending"
      BY <1>1, <2>1, <2>4, WrittenType, PromisedTypes
    <3>2. Phase(actions[a]) = "none" /\ Phase(actions'[a]) = "open"
      BY <3>1, RowFields, PhaseIs
    <3>3. QED BY <3>1, <3>2
  <2>5. CASE reg.writes[a] # None /\ reg.writes[a].kind = "reschedule"
    <3>1. actions[a] # None /\ actions'[a] \in CustomerReturnAction
          /\ actions'[a].status = actions[a].status /\ actions'[a].token = actions[a].token
      BY <1>1, <2>1, <2>5, WrittenType, PromisedTypes
    <3>2. actions'[a] # None BY <3>1, RowFields
    <3>3. Phase(actions'[a]) = Phase(actions[a]) BY <3>1, <3>2 DEF Phase
    <3>4. QED BY <3>1, <3>3
  <2>6. QED BY <2>2, <2>3, <2>4, <2>5
<1>3. LeasedRowsStay /\ PhasesMove BY <1>2 DEF LeasedRowsStay, PhasesMove
<1>4. LeasesStand' BY <1>1, <1>3, LeasesKept DEF RowsAreLeased, LeasesStand, SameWork
<1>5. QED BY <1>1, <1>3, <1>4 DEF RowsAreLeased, RegistryOnlySchedules

LEMMA TickLeases ==
    ASSUME IInv, RowsAreLeased, Tick
    PROVE  RowsAreLeased' /\ PhasesMove
<1>1. /\ UNCHANGED registry
      /\ \A a \in ActionTypes : SameButTimes(actions[a], actions'[a])
      /\ \A w \in Workers : SameWork(w) /\ worker'[w].queue = worker[w].queue
  BY TickStep
<1>2. LeasedRowsStay BY <1>1, PromisedTypes DEF LeasedRowsStay, SameButTimes
<1>3. \A a \in ActionTypes : Phase(actions'[a]) = Phase(actions[a])
  BY <1>1 DEF SameButTimes, Phase
<1>4. PhasesMove BY <1>3, PromisedTypes DEF PhasesMove
<1>5. LeasesStand' BY <1>1, <1>2, LeasesKept DEF RowsAreLeased, LeasesStand
<1>6. QED BY <1>1, <1>4, <1>5 DEF RowsAreLeased, RegistryOnlySchedules, registry

(* Steps that leave the rows alone and move no claim.                        *)
LEMMA SessionsAlone ==
    ASSUME IInv, RowsAreLeased, UNCHANGED actions, RegistryOnlySchedules',
           \A w \in Workers : KeepsLeases(w)'
    PROVE  RowsAreLeased' /\ PhasesMove
BY RowsUntouched DEF RowsAreLeased, LeasesStand

LEMMA NextLeases ==
    ASSUME OneWorker, "onec_return_control" \notin Promised,
           IInv, RowsAreLeased, [Next]_vars
    PROVE  RowsAreLeased' /\ PhasesMove
<1>1. CASE UNCHANGED vars
  <2>1. /\ UNCHANGED actions /\ RegistryOnlySchedules'
        /\ \A w \in Workers : KeepsLeases(w)'
    BY <1>1 DEF vars, RowsAreLeased, LeasesStand, KeepsLeases, Leases, Working, Type,
                RegistryOnlySchedules
  <2>2. QED BY <2>1, SessionsAlone
<1>2. CASE RegistryLoad
  <2>1. Loads /\ Schedules BY <1>2, RegistryLoads
  <2>2. /\ UNCHANGED actions /\ RegistryOnlySchedules'
        /\ \A w \in Workers : KeepsLeases(w)'
    BY <2>1 DEF Loads, Schedules, RowsAreLeased, LeasesStand, KeepsLeases, Leases, Working,
                Type, RegistryOnlySchedules
  <2>3. QED BY <2>2, SessionsAlone
<1>3. CASE commit_registry BY <1>3, CommitLeases
<1>4. CASE Tick BY <1>4, TickLeases
<1>5. ASSUME NEW w \in Workers, claim_due_actions(w) PROVE RowsAreLeased' /\ PhasesMove
  BY <1>5, ClaimLeases
<1>6. ASSUME NEW w \in Workers, load_claimed_action(w) PROVE RowsAreLeased' /\ PhasesMove
  BY <1>6, LoadLeases
<1>7. ASSUME NEW w \in Workers, DeliveryAction(w) PROVE RowsAreLeased' /\ PhasesMove
  <2>1. Delivers(w) BY <1>7, DeliveryKeeps
  <2>2. UNCHANGED actions /\ RegistryOnlySchedules'
    BY <2>1 DEF Delivers, RowsAreLeased, RegistryOnlySchedules, registry
  <2>3. \A v \in Workers : KeepsLeases(v)'
    BY <2>1 DEF Delivers, RowsAreLeased, LeasesStand, KeepsLeases, Leases, OneWorker, Type
  <2>4. QED BY <2>2, <2>3, SessionsAlone
<1>8. ASSUME NEW w \in Workers, complete_claimed_action(w) PROVE RowsAreLeased' /\ PhasesMove
  <2>1. Record(w, CompletedRow(w)) /\ Working(w) /\ worker[w].pc = "complete"
    BY <1>8, CompleteStep DEF Working
  <2>2. QED BY <2>1, CompletedRowType, RecordLeases
<1>9. ASSUME NEW w \in Workers, fail_claimed_action(w) PROVE RowsAreLeased' /\ PhasesMove
  <2>1. Record(w, FailedRow(w)) /\ Working(w) /\ worker[w].pc = "fail"
    BY <1>9, FailStep DEF Working
  <2>2. QED BY <2>1, FailedRowType, RecordLeases
<1>10. ASSUME NEW w \in Workers, crash(w) PROVE RowsAreLeased' /\ PhasesMove
  <2>1. UNCHANGED <<actions, registry>> /\ worker'[w] = Idle BY <1>10, CrashStep
  <2>2. RegistryOnlySchedules' BY <2>1 DEF RowsAreLeased, RegistryOnlySchedules, registry
  <2>3. \A v \in Workers : KeepsLeases(v)'
    BY <2>1, IdleType DEF KeepsLeases, Working, OneWorker
  <2>4. QED BY <2>1, <2>2, <2>3, SessionsAlone
<1>11. QED
  BY <1>1, <1>2, <1>3, <1>4, <1>5, <1>6, <1>7, <1>8, <1>9, <1>10, NextIs

(* With one worker, leases, retries, crashes and lost answers implement the  *)
(* plain life cycle for every action that nobody completes by hand, beside   *)
(* others that are: it is scheduled once and settled once, and never opened  *)
(* again once settled.  The control must not be among them, since the        *)
(* registry skips it.  That each is settled in the end stays with TLC.       *)
THEOREM ImplementsLifecycle ==
    ASSUME OneWorker, "onec_return_control" \notin Promised
    PROVE  Spec => Lifecycle!Spec
<1>1. Init => RowsAreLeased /\ Lifecycle!Init
  <2> SUFFICES ASSUME Init PROVE RowsAreLeased /\ Lifecycle!Init OBVIOUS
  <2>1. /\ reg = None /\ \A w \in Workers : worker[w] = Idle
        /\ \A a \in ActionTypes : actions[a] = None
    BY DEF Init
  <2>2. RowsAreLeased
    BY <2>1, IdleType DEF RowsAreLeased, LeasesStand, KeepsLeases, Working, RegistryOnlySchedules
  <2>3. \A a \in ActionTypes : Phase(actions[a]) = "none" BY <2>1, PhaseIs
  <2>4. phases = [a \in Promised |-> "none"] BY <2>3, PhasesAre DEF Promised
  <2>5. QED BY <2>2, <2>4, LifecycleIs
<1>2. IInv /\ RowsAreLeased /\ [Next]_vars =>
        RowsAreLeased' /\ (Lifecycle!Next \/ phases' = phases)
  BY NextLeases, PhasesStep DEF PhasesMove
<1>3. IInv /\ RowsAreLeased /\ [Next]_vars => [Lifecycle!Next]_phases BY <1>2
<1>4. IInv /\ RowsAreLeased /\ [Next]_vars => RowsAreLeased' BY <1>2
<1>5. Spec => Lifecycle!Init /\ [][Lifecycle!Next]_phases
  BY <1>1, <1>3, <1>4, InvariantHolds, PTL DEF Spec
<1>6. QED BY <1>5, PTL DEF Lifecycle!Spec, phases

=============================================================================
