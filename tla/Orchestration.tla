---------------------------- MODULE Orchestration ----------------------------
(***************************************************************************)
(* The durable orchestration ledger: OrchestrationService and its          *)
(* SQLAlchemy repository behind the internal HTTP API.  Workers claim a    *)
(* job run, heartbeat it and finish it; they claim permission to make one  *)
(* external delivery and report its outcome.                               *)
(*                                                                         *)
(* Every request runs in a database session of its own.  The service reads *)
(* rows without locks (READ COMMITTED, no SELECT ... FOR UPDATE), computes *)
(* on detached copies, and the ORM writes at commit only the columns that  *)
(* differ from the values it loaded.  A request is therefore two steps: a  *)
(* handler action that loads and computes (the session then holds a        *)
(* transaction), and a commit action that meets the table constraints.     *)
(* Handlers that raise (404, 409) change nothing and are not enabled.      *)
(*                                                                         *)
(* A SHA-256 of a request payload is abstracted to the payload itself.     *)
(***************************************************************************)
EXTENDS Naturals

CONSTANTS
    Runs,             \* (job_id, run_key) pairs: the rows job runs can occupy
    Intents,          \* (job_id, channel, dedupe_key) triples
    JobOf,            \* the job_id of each run and of each intent
    Keys,             \* values of the Idempotency-Key header
    Workers,          \* worker_id values
    Inputs,           \* (input_sha256, mode, scheduled_for) of a claim
    Contents,         \* (target, payload, artifacts) of a delivery
    RunOutcomes,      \* final statuses that workers report
    DeliveryOutcomes, \* delivery outcomes that workers report
    Sessions,         \* database sessions that can be open at once
    LeaseSeconds,     \* lease length asked for, in clock ticks
    MaxAttempts,      \* upper bound the schema puts on max_attempts
    AttemptLimits,    \* max_attempts values that delivery claims carry
    MaxTime,          \* bound on the clock
    None

FINAL_RUN_STATUSES == {"succeeded", "partial", "failed", "skipped", "blocked"}
MutUnknownIsRetriable == {"delivered", "manual_review", "cancelled"}
FINAL_DELIVERY_STATUSES == {"delivered", "unknown", "manual_review", "cancelled"}
RunStatuses == {"claimed", "running"} \cup FINAL_RUN_STATUSES
DeliveryStatuses ==
    {"sending", "failed", "delivered", "unknown", "manual_review", "cancelled"}

ASSUME BoundsAssumption ==
    /\ LeaseSeconds \in Nat
    /\ MaxAttempts \in Nat \ {0}
    /\ AttemptLimits \subseteq 1..MaxAttempts
    /\ MaxTime \in Nat

ASSUME OutcomesAssumption ==
    /\ RunOutcomes \subseteq FINAL_RUN_STATUSES
    /\ DeliveryOutcomes \subseteq DeliveryStatuses \ {"sending"}

------------------------------------------------------------------------------
(* Request payloads (app/schemas/orchestration.py) and table rows.          *)

ClaimRunRequest == [op: {"run.claim"}, run: Runs, input: Inputs, worker: Workers]
HeartbeatRequest == [op: {"run.heartbeat"}, run: Runs, worker: Workers]
FinishRunRequest ==
    [op: {"run.finish"}, run: Runs, worker: Workers, status: RunOutcomes]
ClaimDeliveryRequest ==
    [op: {"delivery.claim"}, run: Runs, intent: Intents, content: Contents,
     worker: Workers, max_attempts: AttemptLimits]
FinishDeliveryRequest ==
    [op: {"delivery.finish"}, intent: Intents, worker: Workers,
     outcome: DeliveryOutcomes]

RunRequest == ClaimRunRequest \cup HeartbeatRequest \cup FinishRunRequest
DeliveryRequest == ClaimDeliveryRequest \cup FinishDeliveryRequest

AttemptNumbers == 1..MaxAttempts

OrchestrationJobRun ==
    [input: Inputs, worker: Workers, status: RunStatuses, lease: Nat,
     result: FinishRunRequest \cup {None}]
OrchestrationDeliveryIntent ==
    [run: Runs, content: Contents, status: DeliveryStatuses,
     count: AttemptNumbers, holder: Workers, lease: Nat,
     result: FinishDeliveryRequest \cup {None}]
OrchestrationDeliveryAttempt ==
    [worker: Workers, outcome: DeliveryStatuses \cup {None}]
OrchestrationApiRequest ==
    [req: RunRequest \cup DeliveryRequest, should: BOOLEAN,
     count: 0..MaxAttempts]

(* A session between its handler and its commit: what it loaded (old), what *)
(* it wants to write (new), the permission it will answer with, and the     *)
(* delivery attempt row it will insert or close (0: none, None: the row is  *)
(* still to be read).                                                       *)
RunTransaction ==
    [key: Keys, req: RunRequest, should: BOOLEAN,
     old: OrchestrationJobRun \cup {None}, new: OrchestrationJobRun]
DeliveryTransaction ==
    [key: Keys, req: DeliveryRequest, should: BOOLEAN,
     old: OrchestrationDeliveryIntent \cup {None},
     new: OrchestrationDeliveryIntent,
     attempt: (0..MaxAttempts) \cup {None}]

(* None is a value of its own: no row, no report, no number, no outcome.     *)
ASSUME NoneAssumption ==
    /\ None \notin Nat \cup DeliveryStatuses \cup FinishRunRequest
    /\ None \notin OrchestrationJobRun
    /\ None \notin OrchestrationDeliveryIntent
    /\ None \notin OrchestrationDeliveryAttempt

VARIABLES
    requests,    \* orchestration_api_request, by idempotency key
    runs,        \* orchestration_job_run
    intents,     \* orchestration_delivery_intent
    attempts,    \* orchestration_delivery_attempt, by intent and number
    sess,        \* open database sessions
    now,         \* the service clock
    execGrants,  \* history: answers should_execute = true to a claim, by run
    sendGrants   \* history: answers should_send = true, by intent and attempt

tables == <<requests, runs, intents, attempts>>
grants == <<execGrants, sendGrants>>
vars == <<requests, runs, intents, attempts, sess, now, execGrants, sendGrants>>

TypeOK ==
    /\ requests \in [Keys -> OrchestrationApiRequest \cup {None}]
    /\ runs \in [Runs -> OrchestrationJobRun \cup {None}]
    /\ intents \in [Intents -> OrchestrationDeliveryIntent \cup {None}]
    /\ attempts \in
         [Intents -> [AttemptNumbers -> OrchestrationDeliveryAttempt \cup {None}]]
    /\ sess \in [Sessions -> RunTransaction \cup DeliveryTransaction \cup {None}]
    /\ now \in Nat
    /\ execGrants \in [Runs -> Nat]
    /\ sendGrants \in [Intents -> [AttemptNumbers -> Nat]]

Init ==
    /\ requests = [k \in Keys |-> None]
    /\ runs = [r \in Runs |-> None]
    /\ intents = [d \in Intents |-> None]
    /\ attempts = [d \in Intents |-> [n \in AttemptNumbers |-> None]]
    /\ sess = [s \in Sessions |-> None]
    /\ now = 0
    /\ execGrants = [r \in Runs |-> 0]
    /\ sendGrants = [d \in Intents |-> [n \in AttemptNumbers |-> 0]]

------------------------------------------------------------------------------
(* The session layer: what a request does between reading and committing.    *)

(* SQLAlchemy's UPDATE carries a column only when the value set differs from *)
(* the value loaded; every other column keeps what the table holds by then.  *)
MutWriteEveryColumn(old, new, current) == new
Column(old, new, current) == IF new = old THEN current ELSE new

save_run(old, new, current) ==
    [input  |-> current.input,
     worker |-> Column(old.worker, new.worker, current.worker),
     status |-> Column(old.status, new.status, current.status),
     lease  |-> Column(old.lease, new.lease, current.lease),
     result |-> Column(old.result, new.result, current.result)]

save_delivery_intent(old, new, current) ==
    [run     |-> current.run,
     content |-> current.content,
     status  |-> Column(old.status, new.status, current.status),
     count   |-> Column(old.count, new.count, current.count),
     holder  |-> Column(old.holder, new.holder, current.holder),
     lease   |-> Column(old.lease, new.lease, current.lease),
     result  |-> Column(old.result, new.result, current.result)]

OpenAttempts(d) ==
    {n \in AttemptNumbers : attempts[d][n] # None /\ attempts[d][n].outcome = None}

(* ORDER BY attempt_number DESC, first row; 0 when no attempt is open.       *)
get_open_delivery_attempt(d) ==
    IF OpenAttempts(d) = {}
    THEN 0
    ELSE CHOOSE n \in OpenAttempts(d) : \A m \in OpenAttempts(d) : m <= n

(* A free session serves a request whose idempotency key is still unused.    *)
Unseen(s, k) == sess[s] = None /\ requests[k] = None

Load(s, transaction) ==
    /\ sess' = [sess EXCEPT ![s] = transaction]
    /\ UNCHANGED <<requests, runs, intents, attempts, now, execGrants, sendGrants>>

------------------------------------------------------------------------------
(* Job runs.                                                                 *)

claim_run(s, k, r, input, w) ==
    LET req == [op |-> "run.claim", run |-> r, input |-> input, worker |-> w]
        run == [input |-> input, worker |-> w, status |-> "claimed",
                lease |-> now + LeaseSeconds, result |-> None]
    IN  /\ Unseen(s, k)
        /\ \/ /\ runs[r] = None
              /\ Load(s, [key |-> k, req |-> req, should |-> TRUE,
                          old |-> None, new |-> run])
           \/ /\ runs[r] # None
              /\ runs[r].input = input
              /\ Load(s, [key |-> k, req |-> req, should |-> FALSE,
                          old |-> runs[r], new |-> runs[r]])

MutHeartbeatAnyStatus(s, k, r, w) ==
    /\ Unseen(s, k)
    /\ runs[r] # None
    /\ runs[r].worker = w
    /\ Load(s, [key |-> k, req |-> [op |-> "run.heartbeat", run |-> r, worker |-> w],
                should |-> TRUE, old |-> runs[r],
                new |-> [runs[r] EXCEPT !.status = "running",
                                        !.lease = now + LeaseSeconds]])

heartbeat_run(s, k, r, w) ==
    LET req == [op |-> "run.heartbeat", run |-> r, worker |-> w]
    IN  /\ Unseen(s, k)
        /\ runs[r] # None
        /\ runs[r].status \in {"claimed", "running"}
        /\ runs[r].worker = w
        /\ ~(runs[r].lease < now)
        /\ Load(s, [key |-> k, req |-> req, should |-> TRUE, old |-> runs[r],
                    new |-> [runs[r] EXCEPT !.status = "running",
                                            !.lease = now + LeaseSeconds]])

finish_run(s, k, r, w, status) ==
    LET req == [op |-> "run.finish", run |-> r, worker |-> w, status |-> status]
    IN  /\ Unseen(s, k)
        /\ runs[r] # None
        /\ \/ /\ runs[r].status \in FINAL_RUN_STATUSES
              /\ runs[r].result = req
              /\ Load(s, [key |-> k, req |-> req, should |-> FALSE,
                          old |-> runs[r], new |-> runs[r]])
           \/ /\ runs[r].status \notin FINAL_RUN_STATUSES
              /\ runs[r].worker = w
              /\ Load(s, [key |-> k, req |-> req, should |-> FALSE, old |-> runs[r],
                          new |-> [runs[r] EXCEPT !.status = status,
                                                  !.result = req]])

------------------------------------------------------------------------------
(* External deliveries.                                                      *)

(* The intent as a claim of attempt n leaves it; result_sha256 survives.     *)
MutClaimNotSaved(r, content, w, n, result) ==
    [run |-> r, content |-> content, status |-> "pending", count |-> n - 1,
     holder |-> w, lease |-> now + LeaseSeconds, result |-> result]
Sending(r, content, w, n, result) ==
    [run |-> r, content |-> content, status |-> "sending", count |-> n,
     holder |-> w, lease |-> now + LeaseSeconds, result |-> result]

LeaseExpired(intent) == intent.status = "sending" /\ intent.lease < now

AttemptLimitReached(intent, max) == intent.count >= max

claim_delivery(s, k, r, d, content, w, max) ==
    LET req == [op |-> "delivery.claim", run |-> r, intent |-> d,
                content |-> content, worker |-> w, max_attempts |-> max]
        Answer(should, new, attempt) ==
            Load(s, [key |-> k, req |-> req, should |-> should,
                     old |-> intents[d], new |-> new, attempt |-> attempt])
    IN  /\ Unseen(s, k)
        /\ runs[r] # None
        /\ JobOf[r] = JobOf[d]
        /\ \/ /\ intents[d] = None
              /\ Answer(TRUE, Sending(r, content, w, 1, None), 1)
           \/ /\ intents[d] # None
              /\ intents[d].run = r
              /\ intents[d].content = content
              /\ \/ /\ \/ intents[d].status \in FINAL_DELIVERY_STATUSES
                       \/ /\ intents[d].status = "sending"
                          /\ ~LeaseExpired(intents[d])
                    /\ Answer(FALSE, intents[d], 0)
                 \/ /\ LeaseExpired(intents[d])
                    /\ Answer(FALSE, [intents[d] EXCEPT !.status = "unknown"], None)
                 \/ /\ intents[d].status \notin FINAL_DELIVERY_STATUSES \cup {"sending"}
                    /\ AttemptLimitReached(intents[d], max)
                    /\ Answer(FALSE, [intents[d] EXCEPT !.status = "manual_review"], 0)
                 \/ /\ intents[d].status \notin FINAL_DELIVERY_STATUSES \cup {"sending"}
                    /\ ~AttemptLimitReached(intents[d], max)
                    /\ Answer(TRUE,
                              Sending(r, content, w, intents[d].count + 1,
                                      intents[d].result),
                              intents[d].count + 1)

(* A claim that found the lease expired reads the open attempt in a second   *)
(* statement: other sessions may have committed since the first.             *)
MutLeaveAttemptOpen(s) ==
    /\ sess[s] # None
    /\ sess[s].req.op = "delivery.claim"
    /\ sess[s].attempt = None
    /\ Load(s, [sess[s] EXCEPT !.attempt = 0])

read_open_attempt(s) ==
    /\ sess[s] # None
    /\ sess[s].req.op = "delivery.claim"
    /\ sess[s].attempt = None
    /\ Load(s, [sess[s] EXCEPT
                    !.attempt = get_open_delivery_attempt(sess[s].req.intent)])

finish_delivery(s, k, d, w, outcome) ==
    LET req == [op |-> "delivery.finish", intent |-> d, worker |-> w,
                outcome |-> outcome]
        Answer(new) ==
            Load(s, [key |-> k, req |-> req, should |-> FALSE,
                     old |-> intents[d], new |-> new, attempt |-> 0])
    IN  /\ Unseen(s, k)
        /\ intents[d] # None
        /\ \/ /\ intents[d].status \in FINAL_DELIVERY_STATUSES \cup {"failed"}
              /\ intents[d].result = req
              /\ Answer(intents[d])
           \/ /\ intents[d].status = "sending"
              /\ intents[d].holder = w
              /\ Answer([intents[d] EXCEPT !.status = outcome, !.result = req])

------------------------------------------------------------------------------
(* Commit, rollback and replay.                                              *)

(* The history counters saturate at 2, which is enough to tell one from many. *)
Bump(n) == IF n < 2 THEN n + 1 ELSE n

(* The counters after a client receives the answer to request req.           *)
Granted(req, should, count) ==
    /\ execGrants' =
         IF req.op = "run.claim" /\ should
         THEN [execGrants EXCEPT ![req.run] = Bump(@)]
         ELSE execGrants
    /\ sendGrants' =
         IF req.op = "delivery.claim" /\ should
         THEN [sendGrants EXCEPT ![req.intent][count] = Bump(@)]
         ELSE sendGrants

(* INSERT into orchestration_api_request: the key column is unique.          *)
add_api_request(t, count) ==
    /\ requests[t.key] = None
    /\ requests' = [requests EXCEPT
                      ![t.key] = [req |-> t.req, should |-> t.should, count |-> count]]

Close(s) == sess' = [sess EXCEPT ![s] = None]

commit_run(s) ==
    LET t == sess[s]
        r == t.req.run
    IN  /\ t # None
        /\ t.req.op \in {"run.claim", "run.heartbeat", "run.finish"}
        /\ \/ /\ t.old = None           \* INSERT: (job_id, run_key) is unique
              /\ runs[r] = None
              /\ runs' = [runs EXCEPT ![r] = t.new]
           \/ /\ t.old # None
              /\ runs' = [runs EXCEPT ![r] = save_run(t.old, t.new, @)]
        /\ add_api_request(t, 0)
        /\ Granted(t.req, t.should, 0)
        /\ Close(s)
        /\ UNCHANGED <<intents, attempts, now>>

(* UPDATE of the loaded intent row, located by its primary key.              *)
UpdateIntent(t, d) ==
    intents' = [intents EXCEPT ![d] = save_delivery_intent(t.old, t.new, @)]

commit_claim_delivery(s) ==
    LET t == sess[s]
        d == t.req.intent
        n == t.attempt
    IN  /\ t # None
        /\ t.req.op = "delivery.claim"
        /\ n # None
        /\ \/ /\ t.old = None           \* INSERT: the dedupe key is unique
              /\ intents[d] = None
              /\ intents' = [intents EXCEPT ![d] = t.new]
           \/ /\ t.old # None
              /\ UpdateIntent(t, d)
        /\ \/ /\ t.should               \* INSERT: (intent, number) is unique
              /\ attempts[d][n] = None
              /\ attempts' = [attempts EXCEPT
                                ![d][n] = [worker |-> t.req.worker, outcome |-> None]]
           \/ /\ ~t.should
              /\ n # 0
              /\ attempts' = [attempts EXCEPT ![d][n].outcome = "unknown"]
           \/ /\ ~t.should
              /\ n = 0
              /\ UNCHANGED attempts
        /\ add_api_request(t, t.new.count)
        /\ Granted(t.req, t.should, t.new.count)
        /\ Close(s)
        /\ UNCHANGED <<runs, now>>

(* The SELECT of the open attempt flushes the intent's UPDATE first, so it   *)
(* runs under the row lock and sees what the commit sees.                    *)
commit_finish_delivery(s) ==
    LET t == sess[s]
        d == t.req.intent
        n == get_open_delivery_attempt(d)
    IN  /\ t # None
        /\ t.req.op = "delivery.finish"
        /\ UpdateIntent(t, d)
        /\ IF t.new # t.old /\ n # 0
           THEN attempts' = [attempts EXCEPT ![d][n].outcome = t.req.outcome]
           ELSE UNCHANGED attempts
        /\ add_api_request(t, t.new.count)
        /\ Granted(t.req, t.should, t.new.count)
        /\ Close(s)
        /\ UNCHANGED <<runs, now>>

(* IntegrityError (409), SQLAlchemyError (503), a lost connection or a crash *)
(* of the service process: the transaction leaves no trace.                  *)
rollback(s) ==
    /\ sess[s] # None
    /\ Close(s)
    /\ UNCHANGED <<requests, runs, intents, attempts, now, execGrants, sendGrants>>

(* A repeated request is acknowledged and never grants permission again.     *)
MutReplayKeepsPermission(row) == row.should
ReplayedShould(row) == FALSE

idempotent_replay(k, req) ==
    /\ requests[k] # None
    /\ requests[k].req = req
    /\ Granted(req, ReplayedShould(requests[k]), requests[k].count)
    /\ UNCHANGED <<requests, runs, intents, attempts, sess, now>>

Tick ==
    /\ now < MaxTime
    /\ now' = now + 1
    /\ UNCHANGED <<requests, runs, intents, attempts, sess, execGrants, sendGrants>>

------------------------------------------------------------------------------
RunHandler(s, k) ==
    \E r \in Runs, w \in Workers :
        \/ \E input \in Inputs : claim_run(s, k, r, input, w)
        \/ heartbeat_run(s, k, r, w)
        \/ \E status \in RunOutcomes : finish_run(s, k, r, w, status)

DeliveryHandler(s, k) ==
    \E d \in Intents, w \in Workers :
        \/ \E r \in Runs, content \in Contents, max \in AttemptLimits :
               claim_delivery(s, k, r, d, content, w, max)
        \/ \E outcome \in DeliveryOutcomes : finish_delivery(s, k, d, w, outcome)

Next ==
    \/ \E s \in Sessions, k \in Keys : RunHandler(s, k) \/ DeliveryHandler(s, k)
    \/ \E s \in Sessions : read_open_attempt(s)
    \/ \E s \in Sessions : commit_run(s)
    \/ \E s \in Sessions : commit_claim_delivery(s)
    \/ \E s \in Sessions : commit_finish_delivery(s)
    \/ \E s \in Sessions : rollback(s)
    \/ \E k \in Keys, req \in RunRequest \cup DeliveryRequest :
           idempotent_replay(k, req)
    \/ Tick

Spec == Init /\ [][Next]_vars

------------------------------------------------------------------------------
(* Safety with any number of concurrent sessions and any clients.            *)

(* At most one claim of a run is ever answered should_execute = true,        *)
(* whatever keys, workers, races, rollbacks and replays are involved: the    *)
(* job body runs at most once per (job_id, run_key).                         *)
AtMostOneExecutor == \A r \in Runs : execGrants[r] <= 1

(* Each attempt number of a delivery is granted to at most one claim: two    *)
(* workers never hold permission for the same send.                          *)
SendPermittedOncePerAttempt ==
    \A d \in Intents, n \in AttemptNumbers : sendGrants[d][n] <= 1

(* The attempt rows of a delivery are numbered 1..attempts_count without a   *)
(* gap, although the counter and the rows are written from stale reads.      *)
AttemptsMatchCounter ==
    \A d \in Intents, n \in AttemptNumbers :
        attempts[d][n] # None <=> intents[d] # None /\ n <= intents[d].count

------------------------------------------------------------------------------
(* What the service's checks promise, and what holds when requests are       *)
(* served one at a time (Sessions a singleton).                              *)

(* Once a finish_run has been acknowledged, the run keeps the reported       *)
(* status: an active-run check refuses later heartbeats and a result check   *)
(* refuses a different result.                                               *)
AcknowledgedFinishHolds ==
    \A k \in Keys :
        requests[k] # None /\ requests[k].req.op = "run.finish"
            => LET run == runs[requests[k].req.run]
               IN  run.status = requests[k].req.status /\ run.result = requests[k].req

(* A delivery attempt whose outcome is unknown is never followed by          *)
(* permission to send again: unknown deliveries wait for manual review.      *)
UnknownIsNeverResent ==
    \A d \in Intents, n \in AttemptNumbers :
        attempts[d][n] # None /\ attempts[d][n].outcome = "unknown"
            => \A m \in AttemptNumbers : m > n => sendGrants[d][m] = 0

(* A delivery is in state sending exactly while its latest attempt row is    *)
(* open, and no earlier attempt is left open.                                *)
OpenAttemptMatchesStatus ==
    \A d \in Intents :
        intents[d] # None =>
            OpenAttempts(d) =
                IF intents[d].status = "sending" THEN {intents[d].count} ELSE {}

=============================================================================
