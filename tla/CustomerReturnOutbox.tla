------------------------- MODULE CustomerReturnOutbox -------------------------
(***************************************************************************)
(* The outbox of one customer-return shipment.  The registry               *)
(* (customer_returns.py) schedules actions and skips or completes them;    *)
(* worker processes (customer_return_bitrix_worker.py) claim the due ones  *)
(* under a lease, deliver each to Bitrix24 in a session of its own, and    *)
(* record the outcome.  A worker or its answer may be lost at any call.    *)
(*                                                                         *)
(* Times are countdowns: `due` to due_at, `wait` to next_attempt_at,       *)
(* `lease` to leased_until; zero is past, and only Tick moves them.        *)
(* Columns that nobody reads in a status are kept at zero.                 *)
(***************************************************************************)
EXTENDS Naturals, Sequences, FiniteSetsExt

CONSTANTS
    ActionTypes,       \* the action types the instance schedules
    Workers,           \* worker processes that may run at the same time
    Delays,            \* backoff after the first, second, ... attempt, in ticks
    MaxAttempts,       \* CUSTOMER_RETURN_WORKER_MAX_ATTEMPTS
    LeaseTicks,        \* CUSTOMER_RETURN_WORKER_LEASE_SECONDS, in ticks
    ReminderDues,      \* ticks from an arrival event to a reminder
    ByHand,            \* the types employees complete by POST /actions/{id}/complete
    ManualRefs,        \* tasks that such a completion may name
    Horizon,           \* no countdown and no age of a batch needs to exceed it
    MaxCarrierEvents, MaxCrashes, MaxClaims, MaxTasks, MaxComments,  \* bounds
    None

AllActionTypes == {"arrival_task", "storage_reminder_3d", "storage_reminder_1d",
                   "onec_return_control", "complete_return_task"}
EventTypes == {"carrier_status", "pickup_confirmed", "onec_return_confirmed"}
Reminders == ActionTypes \cap {"storage_reminder_3d", "storage_reminder_1d"}

ASSUME OutboxAssumption ==
    /\ "arrival_task" \in ActionTypes /\ ActionTypes \subseteq AllActionTypes
    /\ MaxAttempts \in Nat \ {0} /\ LeaseTicks \in Nat \ {0}
    /\ Horizon \in Nat /\ LeaseTicks <= Horizon
    /\ Delays \in Seq(0..Horizon) /\ Delays # <<>>
    /\ ReminderDues \subseteq 1..Horizon
    /\ {MaxCarrierEvents, MaxCrashes, MaxClaims, MaxTasks, MaxComments} \subseteq Nat
    /\ ByHand \subseteq ActionTypes /\ ManualRefs \subseteq 0..MaxTasks
    /\ None \notin Nat \cup EventTypes

TaskIds == 0..MaxTasks   \* 0 is a task without the registry's marker

CustomerReturnAction ==
    [status: {"pending", "leased", "completed", "failed", "skipped"},
     attempts: Nat, due: 0..Horizon, wait: 0..Horizon, lease: 0..LeaseTicks,
     token: 0..MaxClaims, ref: TaskIds \cup {None}]
ClaimedCustomerReturnAction == [type: ActionTypes, token: 1..MaxClaims]

(* Which columns a session writes back: schedule_action inserts a row or    *)
(* moves due_at, confirm_onec_return skips, complete_action completes.       *)
Write ==
    [kind: {"insert", "reschedule"}, due: 0..Horizon]
        \cup [kind: {"skip"}]
        \cup [kind: {"complete"}, ref: ManualRefs, attempts: Nat]
Session ==
    [event: EventTypes \cup {None},
     writes: [ActionTypes -> Write \cup {None}]]

ASSUME NoneAssumption ==
    None \notin CustomerReturnAction \cup ClaimedCustomerReturnAction \cup Write \cup Session

VARIABLES
    actions,     \* customer_return_action, by action_type (its dedupe key)
    events,      \* pickup and 1C confirmation events of the shipment
    carrier,     \* number of carrier events taken in
    reg,         \* the registry's open session: column writes by action
    worker,      \* local state of each worker process
    claims,      \* leases given so far, by action: they stand for the uuid4s
    crashes,     \* worker processes lost so far
    tasks,       \* Bitrix24: tasks that carry the shipment's marker
    comments,    \* Bitrix24: comments by task and by the action they are marked with
    closed       \* Bitrix24: completed tasks

bitrix == <<tasks, comments, closed>>
registry == <<events, carrier, reg>>
vars == <<actions, events, carrier, reg, worker, claims, crashes, tasks, comments, closed>>

Idle == [pc |-> "next", queue |-> {}, claim |-> None, row |-> None,
         task |-> None, age |-> 0]
WorkerState ==
    [pc: {"next", "find", "add", "close", "complete", "fail"},
     queue: SUBSET ClaimedCustomerReturnAction,
     claim: ClaimedCustomerReturnAction \cup {None},
     row: CustomerReturnAction \cup {None},
     task: TaskIds \cup {None}, age: 0..Horizon]

TypeOK ==
    /\ actions \in [ActionTypes -> CustomerReturnAction \cup {None}]
    /\ events \subseteq EventTypes \ {"carrier_status"}
    /\ carrier \in 0..MaxCarrierEvents
    /\ reg \in Session \cup {None}
    /\ worker \in [Workers -> WorkerState]
    /\ claims \in [ActionTypes -> 0..MaxClaims]
    /\ crashes \in 0..MaxCrashes
    /\ tasks \subseteq 1..MaxTasks
    /\ comments \in [TaskIds -> [ActionTypes -> 0..MaxComments]]
    /\ closed \subseteq TaskIds

Init ==
    /\ actions = [a \in ActionTypes |-> None]
    /\ events = {} /\ carrier = 0 /\ reg = None
    /\ worker = [w \in Workers |-> Idle]
    /\ claims = [a \in ActionTypes |-> 0]
    /\ crashes = 0
    /\ tasks = {} /\ closed = {}
    /\ comments = [t \in TaskIds |-> [a \in ActionTypes |-> 0]]

Is(row, status) == row # None /\ row.status = status

------------------------------------------------------------------------------
(* The registry.  A handler loads what it decides on; its session commits    *)
(* later, and the worker may move in between.  Handlers are served one at a  *)
(* time here.                                                                *)

NoWrites == [a \in ActionTypes |-> None]

schedule_action(a, due) ==
    IF actions[a] = None THEN [kind |-> "insert", due |-> due]
    ELSE IF Is(actions[a], "pending") THEN [kind |-> "reschedule", due |-> due]
    ELSE None

(* The transport status applies only before a business-terminal status.      *)
(* A reminder is left out when no deadline is known or its date has passed.  *)
record_carrier_event ==
    /\ reg = None /\ events = {} /\ carrier < MaxCarrierEvents
    /\ \E known \in SUBSET Reminders : \E due \in [known -> ReminderDues] :
        reg' = [event |-> "carrier_status",
                writes |-> [a \in ActionTypes |->
                    CASE a = "arrival_task" -> schedule_action(a, 0)
                      [] a \in known -> schedule_action(a, due[a])
                      [] OTHER -> None]]
    /\ UNCHANGED <<actions, events, carrier, worker, claims, crashes, bitrix>>

confirm_pickup ==
    /\ reg = None /\ "pickup_confirmed" \notin events
    /\ reg' = [event |-> "pickup_confirmed",
               writes |-> [a \in ActionTypes |->
                   IF a = "onec_return_control" THEN schedule_action(a, 0) ELSE None]]
    /\ UNCHANGED <<actions, events, carrier, worker, claims, crashes, bitrix>>

confirm_onec_return ==
    /\ reg = None /\ "onec_return_confirmed" \notin events
    /\ reg' = [event |-> "onec_return_confirmed",
               writes |-> [a \in ActionTypes |->
                   CASE a = "onec_return_control" /\ Is(actions[a], "pending")
                            -> [kind |-> "skip"]
                     [] a = "complete_return_task" /\ actions["arrival_task"] # None
                            -> schedule_action(a, 0)
                     [] OTHER -> None]]
    /\ UNCHANGED <<actions, events, carrier, worker, claims, crashes, bitrix>>

complete_action(a, ref) ==
    /\ reg = None
    /\ actions[a] # None /\ actions[a].status \notin {"completed", "skipped"}
    /\ reg' = [event |-> None,
               writes |-> [NoWrites EXCEPT ![a] =
                   [kind |-> "complete", ref |-> ref, attempts |-> actions[a].attempts + 1]]]
    /\ UNCHANGED <<actions, events, carrier, worker, claims, crashes, bitrix>>

NewAction(due) ==
    [status |-> "pending", attempts |-> 0, due |-> due, wait |-> 0, lease |-> 0,
     token |-> 0, ref |-> None]
Settled(row, status) ==
    [row EXCEPT !.status = status, !.wait = 0, !.lease = 0, !.token = 0]

(* An UPDATE by primary key: it sets the columns the session changed.        *)
Written(row, write) ==
    IF write = None THEN row
    ELSE CASE write.kind = "insert" -> NewAction(write.due)
           [] write.kind = "reschedule" -> [row EXCEPT !.due = write.due]
           [] write.kind = "skip" -> Settled(row, "skipped")
           [] write.kind = "complete" ->
                [Settled(row, "completed") EXCEPT !.ref = write.ref, !.attempts = write.attempts]

commit_registry ==
    /\ reg # None
    /\ actions' = [a \in ActionTypes |-> Written(actions[a], reg.writes[a])]
    /\ events' = events \cup ({reg.event} \ {"carrier_status", None})
    /\ carrier' = carrier + (IF reg.event = "carrier_status" THEN 1 ELSE 0)
    /\ reg' = None
    /\ UNCHANGED <<worker, claims, crashes, bitrix>>

------------------------------------------------------------------------------
(* A worker process: main() claims a batch, then delivers claim by claim.    *)

Available(row) == Is(row, "pending") /\ row.due = 0 /\ row.wait = 0

LeaseRunOut(row) == Is(row, "leased") /\ row.lease = 0

MutNeverReleased(row) == row
Released(row) ==
    IF LeaseRunOut(row) THEN [row EXCEPT !.status = "pending", !.token = 0] ELSE row

Leased(row, n) ==
    [row EXCEPT !.status = "leased", !.lease = LeaseTicks, !.token = n,
                !.attempts = @ + 1]

(* Both statements of the claim and its commit; rows another claim has       *)
(* locked are skipped, and released rows are due again at once.  The batch   *)
(* is a set: the order by due_at is not kept by the countdowns.              *)
claim_due_actions(w) ==
    LET batch == {a \in ActionTypes : Available(Released(actions[a]))}
    IN  /\ worker[w].pc = "next" /\ worker[w].queue = {}
        /\ batch # {} /\ \A a \in batch : claims[a] < MaxClaims
        /\ claims' = [a \in ActionTypes |-> claims[a] + (IF a \in batch THEN 1 ELSE 0)]
        /\ actions' = [a \in ActionTypes |->
                          IF a \in batch THEN Leased(Released(actions[a]), claims'[a])
                          ELSE actions[a]]
        /\ worker' = [worker EXCEPT ![w] = [Idle EXCEPT
                          !.queue = {[type |-> a, token |-> claims'[a]] : a \in batch}]]
        /\ UNCHANGED <<registry, crashes, bitrix>>

(* _arrival_task_id: the task is known once the arrival action completed.    *)
ArrivalTask ==
    IF Is(actions["arrival_task"], "completed") THEN actions["arrival_task"].ref ELSE None

(* load_claimed_action and build_delivery_plan.  A lost lease is raised      *)
(* again by fail_claimed_action and ends the process; a comment whose task   *)
(* is not there yet is a failed attempt.                                     *)
LeaseLost(row, claim) == ~ (Is(row, "leased") /\ row.token = claim.token)

load_claimed_action(w) ==
    /\ worker[w].pc = "next"
    /\ \E claim \in worker[w].queue :
        worker' = [worker EXCEPT ![w] =
            IF LeaseLost(actions[claim.type], claim) THEN Idle
            ELSE [@ EXCEPT
                    !.pc = IF claim.type # "arrival_task" /\ ArrivalTask = None
                           THEN "fail" ELSE "find",
                    !.queue = worker[w].queue \ {claim},
                    !.claim = claim,
                    !.row = actions[claim.type],
                    !.task = IF claim.type = "arrival_task" THEN None ELSE ArrivalTask]]
    /\ UNCHANGED <<actions, registry, claims, crashes, bitrix>>

Moves(w, pc, task) == worker' = [worker EXCEPT ![w].pc = pc, ![w].task = task]
At(w, pc) == worker[w].pc = pc
Delivering(w, types) == worker[w].claim.type \in types

MessageTypes == ActionTypes \ {"arrival_task"}
AfterComment(w) ==
    IF worker[w].claim.type = "complete_return_task" THEN "close" ELSE "complete"

(* Every Bitrix24 call may raise without effect.                             *)
MutSwallowError(w) ==
    /\ worker[w].pc \in {"find", "add", "close"}
    /\ Moves(w, "complete", worker[w].task)
    /\ UNCHANGED <<actions, registry, claims, crashes, bitrix>>
bitrix_error(w) ==
    /\ worker[w].pc \in {"find", "add", "close"}
    /\ Moves(w, "fail", worker[w].task)
    /\ UNCHANGED <<actions, registry, claims, crashes, bitrix>>

MutAddWithoutLooking(w) ==
    /\ At(w, "find") /\ Delivering(w, {"arrival_task"})
    /\ Moves(w, "add", None)
    /\ UNCHANGED <<actions, registry, claims, crashes, bitrix>>
find_task(w) ==
    /\ At(w, "find") /\ Delivering(w, {"arrival_task"})
    /\ \/ tasks = {} /\ Moves(w, "add", None)
       \/ \E t \in tasks : Moves(w, "complete", t)
    /\ UNCHANGED <<actions, registry, claims, crashes, bitrix>>

(* The call takes effect; its answer arrives, or is lost and raises.         *)
add_task(w) ==
    /\ At(w, "add") /\ Delivering(w, {"arrival_task"})
    /\ Cardinality(tasks) < MaxTasks
    /\ LET t == Cardinality(tasks) + 1
       IN  /\ tasks' = tasks \cup {t}
           /\ Moves(w, "complete", t) \/ Moves(w, "fail", None)
    /\ UNCHANGED <<actions, registry, claims, crashes, comments, closed>>

MutPostWithoutLooking(w) ==
    /\ At(w, "find") /\ Delivering(w, MessageTypes)
    /\ Moves(w, "add", worker[w].task)
    /\ UNCHANGED <<actions, registry, claims, crashes, bitrix>>
find_comment(w) ==
    /\ At(w, "find") /\ Delivering(w, MessageTypes)
    /\ LET found == comments[worker[w].task][worker[w].claim.type] > 0
       IN  Moves(w, IF found THEN AfterComment(w) ELSE "add", worker[w].task)
    /\ UNCHANGED <<actions, registry, claims, crashes, bitrix>>

add_comment(w) ==
    /\ At(w, "add") /\ Delivering(w, MessageTypes)
    /\ comments[worker[w].task][worker[w].claim.type] < MaxComments
    /\ comments' = [comments EXCEPT ![worker[w].task][worker[w].claim.type] = @ + 1]
    /\ \E pc \in {AfterComment(w), "fail"} : Moves(w, pc, worker[w].task)
    /\ UNCHANGED <<actions, registry, claims, crashes, tasks, closed>>

ensure_completed(w) ==
    /\ At(w, "close")
    /\ closed' = closed \cup {worker[w].task}
    /\ \E pc \in {"complete", "fail"} : Moves(w, pc, worker[w].task)
    /\ UNCHANGED <<actions, registry, claims, crashes, tasks, comments>>

(* Both outcomes call load_claimed_action again, in the session that already *)
(* holds the row: the identity map answers with the values loaded before the *)
(* delivery, so the lease is compared with itself.  The UPDATE by primary    *)
(* key then goes to whatever the row holds by now.                           *)
Reloaded(w) == worker[w].row

Record(w, row) ==
    /\ ~ LeaseLost(Reloaded(w), worker[w].claim)
    /\ actions' = [actions EXCEPT ![worker[w].claim.type] = row]
    /\ worker' = [worker EXCEPT ![w] = [Idle EXCEPT
                      !.queue = worker[w].queue,
                      !.age = IF worker[w].queue = {} THEN 0 ELSE worker[w].age]]
    /\ UNCHANGED <<registry, claims, crashes, bitrix>>

complete_claimed_action(w) ==
    /\ At(w, "complete")
    /\ Record(w, [Settled(actions[worker[w].claim.type], "completed")
                     EXCEPT !.ref = worker[w].task])

retry_delay(n) == Delays[Min({Max({n, 1}), Len(Delays)})]

(* next_attempt_at is counted from the start of the batch.                   *)
MutBackoffAddsAge(w) == retry_delay(worker[w].row.attempts) + worker[w].age
Backoff(w) ==
    LET delay == retry_delay(worker[w].row.attempts)
    IN  IF worker[w].age >= delay THEN 0 ELSE delay - worker[w].age

MutOneAttemptLess(row) == row.attempts + 1 >= MaxAttempts
Exhausted(row) == row.attempts >= MaxAttempts

fail_claimed_action(w) ==
    /\ At(w, "fail")
    /\ LET row == actions[worker[w].claim.type]
       IN  Record(w, IF Exhausted(worker[w].row) THEN Settled(row, "failed")
                     ELSE [Settled(row, "pending") EXCEPT !.wait = Backoff(w)])

WorkerStep(w) ==
    \/ claim_due_actions(w) \/ load_claimed_action(w)
    \/ find_task(w) \/ add_task(w) \/ find_comment(w) \/ add_comment(w)
    \/ ensure_completed(w) \/ bitrix_error(w)
    \/ complete_claimed_action(w) \/ fail_claimed_action(w)

crash(w) ==
    /\ crashes < MaxCrashes /\ worker[w] # Idle
    /\ worker' = [worker EXCEPT ![w] = Idle]
    /\ crashes' = crashes + 1
    /\ UNCHANGED <<actions, registry, claims, bitrix>>

Down(n) == IF n = 0 THEN 0 ELSE n - 1
Tick ==
    /\ actions' = [a \in ActionTypes |->
            IF actions[a] = None THEN None
            ELSE [actions[a] EXCEPT !.due = Down(@), !.wait = Down(@), !.lease = Down(@)]]
    /\ worker' = [w \in Workers |->
            IF worker[w] = Idle THEN Idle
            ELSE [worker[w] EXCEPT !.age = Min({@ + 1, Horizon})]]
    /\ <<actions, worker>>' # <<actions, worker>>
    /\ UNCHANGED <<registry, claims, crashes, bitrix>>

Next ==
    \/ record_carrier_event \/ confirm_pickup \/ confirm_onec_return
    \/ \E a \in ByHand, ref \in ManualRefs : complete_action(a, ref)
    \/ commit_registry
    \/ \E w \in Workers : WorkerStep(w) \/ crash(w)
    \/ Tick

Spec == Init /\ [][Next]_vars

(* Workers run from a scheduler, and time passes; the registry, Bitrix24's   *)
(* answers and crashes are not asked for anything.                           *)
FairSpec ==
    /\ Spec
    /\ \A w \in Workers : WF_vars(WorkerStep(w))
    /\ WF_vars(Tick)

------------------------------------------------------------------------------
(* Properties.                                                               *)

(* The shipment has at most one Bitrix24 task, whatever answers and workers  *)
(* are lost: ensure_task looks for the marker before it adds.                *)
OneTaskPerShipment == Cardinality(tasks) <= 1

(* A reminder, control or closing comment is posted at most once over all    *)
(* attempts, tasks and crashes.                                              *)
EachMessageOnce ==
    \A a \in MessageTypes : \A t, u \in TaskIds :
        /\ comments[t][a] <= 1
        /\ comments[t][a] = 1 /\ comments[u][a] = 1 => t = u

(* A completed action has had its effect: its task carries the marker, its   *)
(* comment is on the task it names, the task of a closing action is closed.  *)
Delivered(a, t) ==
    CASE a = "arrival_task" -> t \in tasks
      [] a = "complete_return_task" -> comments[t][a] > 0 /\ t \in closed
      [] OTHER -> comments[t][a] > 0
CompletedMeansDelivered ==
    \A a \in ActionTypes :
        Is(actions[a], "completed") => Delivered(a, actions[a].ref)

(* An action is given up only when the configured attempts are used up, also *)
(* when the outcome is recorded by a worker whose lease has passed on.       *)
GivesUpOnlyWhenExhausted ==
    \A a \in ActionTypes :
        Is(actions[a], "failed") => actions[a].attempts >= MaxAttempts

(* Every action left to the workers is settled once and for all, and is      *)
(* settled in the end: leases, retries and lost workers implement the plain  *)
(* life cycle.  An action completed by hand may be opened again: the outcome *)
(* of a delivery under way is written over it.                               *)
Promised == ActionTypes \ ByHand
Lifecycle ==
    INSTANCE ActionLifecycle WITH
        ActionTypes <- Promised,
        phase <- [a \in Promised |->
                    CASE actions[a] = None -> "none"
                      [] actions[a] # None /\ actions[a].status \in {"pending", "leased"}
                            -> "open"
                      [] OTHER -> "settled"]
EveryActionSettles == Lifecycle!FairSpec
==============================================================================
