# Verification of the pricing service

TLA+ models of the parts of this repository in which several actors share
state and a mistake shows only in an unlucky order: the orchestration ledger,
the customer-return registry and its outbox with the Bitrix24 worker, the order
closure queue that 1C polls and the automatic prepayment expiry on top of it,
the queue that carries site orders through the stages of their deals, and the
replies of the support team to requests of the site. TLC checks them on small
instances; TLAPS proves all their safety properties for every instance, those that
need it under the condition that one session, poller or worker is at work at a time.

    tlc -workers 2 -config OrderClosureQueue.cfg MCOrderClosure.tla
    tlapm OrderClosureProofs.tla

Paths below are relative to the repository root.

## 1. The system and its parts

The service is a FastAPI application on PostgreSQL (SQLAlchemy), a set of
cron-driven workers, and integrations with 1C, Bitrix24 and the web site. Almost
all of its state is in tables; handlers read rows, compute, and write at commit.
Two habits of the code decide what can go wrong:

- **Read without lock, write at commit.** Most handlers load rows with a plain
  SELECT. SQLAlchemy then sends an UPDATE with only the columns whose value
  differs from the value loaded, addressed by primary key. Two handlers that
  loaded the same row therefore merge *column by column*, and neither notices.
- **Leases instead of locks around external calls.** Before something is done in
  Bitrix24, 1C or by a worker, a row is leased for a time. The lease can run out
  while the work is still going on.

### Inventory

| Component (code) | State | Operations | Interacts with | Hard behaviour | Correct when |
|---|---|---|---|---|---|
| Orchestration ledger (`app/domains/management/orchestration`, `app/infrastructure/orchestration.py`, `app/api/orchestration.py`) | job runs, delivery intents, delivery attempts, idempotency keys | claim, heartbeat, finish a run; claim, finish a delivery; replay | job runners over HTTP | concurrent sessions without locks, lost answers, expired leases | a run executes once, an attempt is sent once, an unknown outcome is never resent |
| Customer-return outbox and worker (`app/services/customer_return_bitrix.py`, `tasks/customer_return_bitrix_worker.py`) | actions with lease, attempts, backoff; tasks and comments in Bitrix24 | claim batch, deliver, complete, fail; schedule, skip, complete by hand | registry, Bitrix24 | lost answers, crashes, batches that outlive the lease | one task, one comment per action, every action settles and stays settled |
| Order closure queue (`app/services/order_closure.py`, `app/api/order_closure.py`) | batches, rows, audit events | create, request diagnosis, confirm, lease, acknowledge | employee, 1C | stale diagnosis, late and repeated acknowledgements, two pollers | 1C closes what the author confirmed; the recorded outcome is what 1C did |
| Automatic prepayment expiry (`app/services/order_prepay_expiry.py`) | one closure batch per unpaid site order | observe (tick), pending work | closure queue, site adapter | site tick interleaves with 1C, lost cancel answer | an order is completed only when 1C closed it and the site cancelled it; a refused one stays with people |
| Customer-return registry (`app/services/customer_returns.py` and its API) | shipments, links, events, transport status | register, link to deal and service request, carrier event, pickup, 1C return | outbox, carriers, Bitrix24 | events out of order and repeated, links checked against stored copies | the latest event governs; the business status holds; every status has its action |
| Site service requests (`app/services/site_service_requests*.py`, `integrations/master_mobile_site/service_ticket_bridge.php`) | requests, conversations, replies, files, checkpoints | ingest; reply, lease, acknowledge, retry; collect from the card | site, Bitrix24, e-mail | retried replies, overlapping agents, a card edited between two calls | a reply reaches the customer once; its outcome is recorded and shown truly |
| Site order stage outbox (`app/services/site_order_stage_outbox.py`) | rows per order and stage | process, retry, supersede, manual review | Bitrix24 deals | predecessors, one transaction around many calls, several workers | one comment per row; what is recorded was done; nobody overwrites a stage he did not see |
| Site order fulfilment (`app/services/site_order_*.py`) | cases, scans, shipments | ingest, reconcile, poll | 1C, chats | mostly reads and rendering | - |
| Customer settlements, receivables | snapshots, work items, credit decisions | import, reconcile, alert | 1C | import of partial data | - |
| Customer price types (`app/domains/customer_price_types`) | proposals, review batches | compute, review | 1C | rule order, boundaries | rules agree with a reference |
| Logistics, expertise, procurement, matching, bank payments, telephony, reports, scraping | registries and imports | see `PROJECT.json` | 1C, Bitrix24 | little concurrency of their own | - |

`PROJECT.json` lists every component with its sources and status, and under
`hazards` the places where this code is hard to test, each with the properties
that cover it or the reason why none does.

## 2. Modules

| Module | What it is |
|---|---|
| `Orchestration` | the ledger; `MCOrchestration` instantiates it |
| `OrchestrationProofs` | four invariants of the ledger, for all constants |
| `OrchestrationSerialProofs` | three more, with requests served one at a time |
| `CustomerReturnOutbox` | outbox, worker processes, Bitrix24; `MCCustomerReturnOutbox` instantiates it |
| `ActionLifecycle` | abstract specification: a scheduled action is settled once, and in the end |
| `CustomerReturnOutboxProofs` | the five invariants of the outbox and the safety half of the refinement |
| `OrderClosure` | the queue, API sessions, 1C; `MCOrderClosure` instantiates it |
| `OrderClosureProofs` | the five invariants of the queue |
| `OrderPrepayExpiry` | the automation on top of the queue, the site and its adapter; EXTENDS `OrderClosure`; `MCOrderPrepayExpiry` instantiates it |
| `OrderPrepayExpiryProofs` | three invariants and an action property of the automation; EXTENDS `OrderClosureProofs` |
| `CustomerReturns` | the registry that feeds the outbox; `MCCustomerReturns` instantiates it |
| `CustomerReturnsProofs` | the five invariants of the registry |
| `SiteOrderStageOutbox` | the stage rows of one site order, their workers, the deal; `MCSiteOrderStageOutbox` instantiates it |
| `SiteOrderStageOutboxProofs` | three invariants and an action property of the stage rows, for all constants |
| `SiteServiceReplies` | the replies to one request: tables, collector, agents of the site; `MCSiteServiceReplies` instantiates it |
| `SiteServiceRepliesProofs` | three invariants and two action properties of the replies, for all constants |

Definitions named `Mut...` are plausible mistakes in the code. No specification
uses them; putting one in the place of the definition it stands beside must break
the property `PROJECT.json` pairs it with.

### Orchestration

`requests`, `runs`, `intents`, `attempts` are the four tables, `sess` the open
database sessions, `now` the service clock; `execGrants` and `sendGrants` record
how often a client was told to execute or to send (history only).

- A request is a handler action (`claim_run`, `heartbeat_run`, `finish_run`,
  `claim_delivery`, `finish_delivery`), which loads and computes on a copy, and a
  commit action, which writes the changed columns (`Column`, `save_run`,
  `save_delivery_intent`) under the unique constraints. `read_open_attempt` is
  the second SELECT of a claim that found an expired lease. `rollback` covers
  IntegrityError, database errors and a crash of the process.
- `idempotent_replay` answers a repeated key from the stored request.
- A handler that raises changes nothing, so it is simply not enabled. A SHA-256 is
  the thing hashed.
- `finish_delivery` writes its attempt row under the lock its own flushed UPDATE
  takes, so that part is one step with the commit.
- The lease ends when `lease < now`, as in the code; ticks stand for seconds.

### CustomerReturnOutbox

One shipment. `actions` is `customer_return_action` by action type (the dedupe
key); `reg` is the registry's open session; `worker` the local state of each
process: its program counter, the claims left in its batch, the row it loaded and
the time since the batch began. `tasks`, `comments`, `closed` are Bitrix24.

- `claim_due_actions` is the two UPDATE statements of the claim (release expired
  leases, lease the due ones); attempts are counted there. Then each claim is
  delivered in program order: `load_claimed_action`, `find_task` / `add_task` or
  `find_comment` / `add_comment`, `ensure_completed`, and
  `complete_claimed_action` or `fail_claimed_action`.
- Each Bitrix24 call is a step of its own. It may take effect and lose its answer
  (`add_task`, `add_comment`, `ensure_completed` may go on to `fail`), or raise
  without effect (`bitrix_error`). `crash` loses the process.
- Recording the outcome re-reads the row in the session that holds it already.
  SQLAlchemy's identity map returns the loaded values, so the lease is compared
  with itself (`Reloaded`) and the UPDATE goes to the row as it is by then.
- Times are countdowns (`due`, `wait`, `lease`), zero meaning past. The backoff is
  counted from the start of the batch, as in the code (`Backoff`).
- The registry's handlers (`record_carrier_event`, `confirm_pickup`,
  `confirm_onec_return`, `complete_action`) are modelled as far as they write
  actions, one handler at a time, each as a load and `commit_registry`.
- `ByHand` names the action types employees complete (`POST /actions/{id}/complete`);
  what is promised of deliveries in general is stated of the others (`Promised`).

### OrderClosure

`batches` and `items` are the tables, `sess` the open API sessions, `executor`
the command each 1C session works on, `confirmations` the `batch_confirmed`
events. `ledger` and `receipts` are 1C's accounts and closed rows; `closures`
records what each `apply` wrote.

- `request_diagnosis`, `confirm_batch` and `acknowledge_command` load without a
  lock and `commit` merges changed columns. `lease_commands` selects FOR UPDATE
  and is one step. The answer to a poll may be lost with the lease standing; the
  answer to an acknowledgement may be lost, and 1C then sends it again.
- A snapshot of 1C's accounts is the set of rows it allows to close, and a
  diagnosis hash is the snapshot it was computed from.
- 1C (`diagnose`, `apply`, `replay_receipt`, `refuse`, `lose_command`,
  `accounts_change`) is external. It follows
  `docs/IntegrationContract.CustomerOrderClosureQueue1C.md`: one transaction per
  batch, a receipt is returned again, a changed snapshot is stale.
- Abstractions: a handler loads batch and rows at one point; a poll leases one
  batch; one author; batches made from a filter (their rows come with the
  diagnosis) are left out.

### OrderPrepayExpiry

Composes the queue with the automation. A step is a step of the queue that leaves
the site alone (`QueueStep`), a request of the adapter, or a step of the site.

- `tick` is `POST /prepay72/tick`: `observe` for each snapshot (`observation`,
  `CancellationVerified`, `Observed`, `Confirmed`), one commit. It locks its batches,
  so it is one step. A refusal of any snapshot undoes all (`tick_refused`); the
  answer of a tick may be lost. `pending_work` is the list of `GET /work`.
- The facts of a snapshot are reduced to what the code's checks tell apart: the
  order is new, paid, edited (another amount) or cancelled, and the snapshot is
  fresh or older than two minutes.
- 1C polls with or without `allow_auto_apply`; employees cannot touch these batches.
- The adapter (`take_snapshot`, `cancel_site`) is external, after the contract. It
  looks at an order again before it cancels it.

### CustomerReturns

`shipments`, `events`, `actions` are the registry's tables (events by dedupe key),
`sess` the open sessions, `cards` the deal of each service request in Bitrix24.

- `get_return` takes no lock, so every handler is a load that computes on its copy
  and a `commit` that writes the changed columns, adds the events under their unique
  keys and schedules actions. Actions are looked up after the row of the shipment was
  written: one that the session had not loaded is seen as committed (`Action`).
- `collide` is the IntegrityError: a registration goes on with the winner's row, any
  other handler answers with an error. A registration with a service request is two
  transactions (`link_registered`).
- An action that is not pending any more counts as completed; what the worker does
  to it is `CustomerReturnOutbox`.
- `edit_card` is Bitrix24: a user gives a card a deal, another one or none, at any time,
  also while it is linked and between the read of the card and the commit.

### SiteOrderStageOutbox

One order. `events`, `case`, `rows` are the tables, `wk` the workers (position in the
batch, uncommitted rows, what they read), `deal` and `comments` Bitrix24.

- `Learn` is the arrival of evidence (`upsert_execution_event` and the two
  reconciliations): an event, perhaps the case's latest evidence, perhaps a row. Evidence of
  logistics and signals of the site from which no stage follows are left out (`Targets`).
- `todo` is the set of the batch's rows still to do; the worker takes the oldest (`Current`).
- `process_stage_outbox` claims a batch with SKIP LOCKED; `Check` supersedes older
  shipment rows and looks for predecessors; `Read`, `Assemble`, `Write`, `Readback`,
  `Comment` are the Bitrix24 calls of a row; `Commit` ends the batch. A call that
  writes may take effect and lose its answer. `Crash` forgets all the batch decided.
- Row locks count where they are held across calls: a worker that wants to supersede
  a row another has claimed waits (`HoldsUp`), and so does whoever needs the case
  while a worker holds it (`CaseLockedFor`). A deadlock of the two is a `Crash`.
- `been` and `mover` are history.

### SiteServiceReplies

The replies to one request. `cmds` is the command table, `card` the reply fields of
the Bitrix24 card, `col` the collector, `agents` the overlapping runs of the site's
job, `ticket` the messages the customer sees; `wanted` is history.

- A handler of the API locks the case and is one step: `get_commands` (lease and
  quarantine), `acknowledge`, `create_ui_reply`, `retry_ui_command`. Damaged rows are
  put aside only if another row decrypts.
- The collector holds the case over several Bitrix24 calls: it reads the card
  (`collect_case`), creates the command and commits (`create_command`), locks again
  (`relock_case`), clears SEND and reads back (`clear_action`), and restores SEND if
  the text is no longer the one it took (`restore_send`).
- The agent of the site (PHP, `service_ticket_bridge.php`) takes a command, gets its
  lock, searches for the marker, looks at its lease again, writes the message and
  searches once more (`check_command`, `write_message`).
- Abstractions: no attachments; the clocks of site and service agree; a text is a
  model value; a request's conversation is one case. A write to the card and its readback
  (`site_service_requests_worker.py:783-791`) are one step: an edit between
  the two counts as coming before or after both. `relock_case` compares whether the command
  has been cleared where the code compares when (line 2619), so it goes on in more cases
  than the code.

## 3. What TLC checks

`CHECK_DEADLOCK FALSE` appears in every configuration because each system may
really stop: no request need ever come, and the bounds use themselves up.

| Run | Question | Bounds |
|---|---|---|
| `deliveries` | Can two sessions hand out a run or an attempt twice, or leave a gap in the attempt rows? | 1 run, 1 delivery, 5 keys, 2 sessions, 2 attempts, 2 ticks |
| `serial` | Do the service's checks keep what they promise when requests are served one at a time? | as above, 1 session, both attempt limits, outcome `unknown` |
| `run_race` (violated) | Does an acknowledged final status hold with two sessions? | 3 keys |
| `outbox_single` | One worker, lost answers, one crash, a control completed by hand or skipped: one task, one comment each, every other action settles once | 3 action types, 2 attempts, 4 claims, one delay |
| `outbox_overlap` | Two workers whose batches outlive their leases: is `completed` true, is nothing given up early? | 3 action types, 2 attempts, 2 claims, two delays |
| `closure_queue` | Lost commands and answers, changing accounts, repeated diagnosis: does 1C close what was confirmed, is the outcome recorded the outcome, does every confirmed batch get one? | 1 batch, 2 rows, 1 API session, 1 poller, 6 leases, 1 change, 1 loss |
| `prepay_expiry` | Automation, 1C and the site on one order: is it completed only when closed and cancelled, does a refused one stay refused, is a closed one completed? | 1 order, 1 session, 3 leases, 1 late snapshot, 1 change, 1 loss |
| `returns_registry` | Do status, source event and actions of a parcel agree after any sequence of requests, and do links and changes of the deal keep shipment and service request together, whatever happens to the card? | 1 parcel, 2 deals, 1 service request, 1 session, 2 carrier events, 2 event times, 1 action worked off |
| `returns_relink` (violated) | Does the deal of a linked service request fill in the shipment's? | as above, 1 carrier event at one time |
| `stage_outbox` | Rows of all kinds, two workers, a manager, lost answers and a crash: one comment per row, what is recorded was done, ordered rows write undisturbed, every row settles | 2 of 6 pieces of evidence, 1 edit, 1 failed call, 1 crash, batches of 2 |
| `stage_race` (violated) | Does a deal in a final stage stay there? | 2 pieces of evidence, nothing else goes wrong |
| `replies` | Overlapping agents, a collector, an operator in the card and in the conversation tab: each reply once, its outcome and what is shown of it true, a SEND lost only in two named ways, every readable reply settles | 2 agents, 2 commands, 2 texts, 1 save, 1 retry, 1 fault, 3 leases |

Why the bounds are enough to be interesting:

- Every race of the ledger needs two open sessions and at most three more
  requests that set the scene (claim the run, claim and fail the delivery), hence
  five keys. Two attempts are the first number where a later attempt, the limit
  and an expired earlier attempt all occur. `LeaseSeconds = 1` and two ticks let
  a lease run out after being live.
- The outbox has two attempts, so that the last retry and exhaustion are reached. With one
  worker, four claims leave room for attempts that a crash or a lost batch cost; the run
  checks liveness and has a single delay. With two workers the delays grow; two claims let
  each overtake the other. `Horizon` is the longest delay, and no countdown goes beyond it.
  `MaxTasks` and `MaxComments` are 2, one more than what is promised, so a duplicate is
  visible. All three kinds of delivery (task, comment, comment with closing) are in both
  runs; the comments are the reminder in one and the control in the other. `ByHand` names
  the control, which is also what the registry skips: the promises beside it are checked.
  What completion by hand of a promised action would break is listed below.
- Two rows are the least with which a choice can be partial. Six leases leave
  room for a repeated diagnosis, a lost command and the apply; `MaxRepeats` keeps
  back leases for the confirmation that must be settled.
- An automatic batch has one row. Three leases are a diagnosis, an apply and one
  that is handed out again; one change of the accounts makes an apply stale.
- Two carrier events at two times give every order and a tie; the deadline lies
  beyond both reminders. Two deals are needed for a disagreement. One service request can
  be linked, unlinked and linked again; what a second one would add, a link that replaces
  another directly, is left to the theorem `DealIsKept`. Cards are edited without a bound.
- Two pieces of evidence out of six (both steps of logistics, an invoice by 1C, a
  dispatched shipment, a snapshot without a stage, a delivery reported by the site)
  make every pair in which a row blocks, supersedes or overtakes another. The deal
  starts in either of the stages from which these rows start.
- Two commands are the least for an order among replies, for a damaged row beside a
  readable one and for a second SEND; a command is retried after its failure. The single
  fault is any one of: a crash of an agent or of the collector, a lost poll or
  acknowledgement, a lease that runs out under its agent, a refusal, a failed write,
  a damaged row. `MaxLeases` bounds only how often a wait for the lock may be given up.
- Symmetry is used only where no liveness is checked, over values the code only
  compares for equality.

### The properties

Ledger: `AtMostOneExecutor`, `SendPermittedOncePerAttempt`,
`AttemptsMatchCounter` hold with concurrent sessions. `AcknowledgedFinishHolds`,
`UnknownIsNeverResent`, `OpenAttemptMatchesStatus` hold when requests are served one
at a time, and only then.

Outbox: `OneTaskPerShipment`, `EachMessageOnce` and the refinement
`EveryActionSettles` hold for one worker with crashes, beside a control that is completed
by hand; `CompletedMeansDelivered` and
`GivesUpOnlyWhenExhausted` also with overlapping workers.

Queue: `ClosedRowsWereChosen`, `ClosedAsConfirmed`, `AppliedMeansClosed`,
`FailedMeansNothingClosed`, `ConfirmedIsSettled` hold with one API session at a time
and one poller. The first is proved without either restriction, the second needs the first
of them, the third and fourth need both (two pollers violate the third from `MaxRepeats = 3` on).

Prepayment: `CompletedMeansClosed` ties the mark `site_canceled` to 1C's receipt and
to the site. `ReviewIsFinal` says that what was put up for manual review is neither
retried nor closed by a late answer. `ClosedIsCompleted`, under fairness, covers the
cancel whose answer was lost and the customer who cancels first.

Registry: `BusinessStatusHolds` (no carrier event takes a pickup or 1C's confirmation
back), `LatestEventGoverns` (in whatever order the events come), `StatusHasItsAction`
(what the outbox needs is there, whichever way the status was reached).
`DealFollowsRequest` is what the code keeps of the links when cards are edited at any time:
a change of the request takes no deal away, a deal changes only to that of the active
request, and a link brings no other deal. Its two exceptions are a registration that fills
in a deal (below, known disagreements) and the relink of a card that has got its first deal
(finding 3).

Stage outbox: `CommentOnce` and `SettledMeansTold` hold although a crash forgets a
whole batch; `OrderedRowsWriteAlone` says that for rows of logistics and of the site's
signals nobody else moves the deal between their read and their write. For
reconciliation rows this is not so, which is what `stage_race` shows.

Replies: `OneMessagePerCommand`, `RecordedAsDelivered` (an applied reply names its
message, a failed one has none, also when two agents and a retry report late),
`ShownStatusIsCurrent`, `SendIsLostOnlySo` (the only steps that lose an operator's SEND
are the two described below under the known disagreements), `EveryReplySettles`. One save
and one fault are too few for either loss; the theorem has no such bounds.

### Refinement and fairness

`EveryActionSettles` is `ActionLifecycle!FairSpec` under the mapping in which an
action that nobody completes by hand (`Promised`) is *none* (no row), *open* (pending or
leased) or *settled*. A step of the outbox is a step of the life cycle or a stutter; the
fairness of the abstract specification becomes the claim that retries, leases and crashes
lose no action.

- Outbox: weak fairness of each worker's steps and of time. The worker is a
  scheduled program (`python -m tasks.customer_return_bitrix_worker`,
  `docs/specs/customer-return-carrier-control.md:288`) and is started again
  after a crash. Nothing is asked of the registry, of employees or of Bitrix24:
  every call may fail every time, and actions then end as `failed`.
- Queue: 1C polls from a regular job and works off what it received (contract,
  lines 57 and 77), accepted requests commit, leases run out. 1C is taken to poll with
  apply allowed. Employees owe nothing. Crashes and losses are finite in number.
- Prepayment: as the queue, and the adapter's job, which runs every minute (contract,
  line 127), takes snapshots, posts them one order at a time and asks for work. The
  customer owes nothing: an order that is paid or edited is excepted.
- Stage outbox: a timer starts the workers every 15 seconds
  (`infra/systemd/pricing-site-order-stage-outbox.timer:6`), and waits (`next_attempt_at`) pass.
  Failed calls are finite in number, because the code has no limit on retries: with a call that
  fails for ever a row is retried for ever.
- Replies: the site's agent is a scheduled job and the collector a cron job of the
  service (every minute, `infra/cron/site_service_requests_worker.cron`, a template to be
  installed at roll-out); leases run out. Faults are finite in number.
- Ledger and registry: no fairness, since they promise no progress of their own.

### Findings

1. `run_race`: a first heartbeat that loaded the run before `finish_run` committed
   sets the status back to `running`. A second heartbeat would not, because the
   ORM then sees no change of status.
2. `stage_race`: a shipment row reads the deal, a row of 1C's snapshot closes the order
   (a reconciliation row is not blocked by an older one), and the shipment row then writes
   its stage over `WON`. Each worker had compared the live stage. The evidence of 1C is the
   later one by its own time; its row may be older or younger than the shipment's.
3. `returns_relink`: a parcel and a card without a deal are linked; the card gets its deal
   in Bitrix24; the card is linked once more. The shipment stores the deal of the card
   (`service_request_deal_id`) and stays without one of its own, against
   `docs/specs/customer-return-carrier-control.md:131`: filling in comes after the early
   return for an unchanged card (`customer_returns.py:578-588`).

### Known disagreements that are not kept as runs

Met while modelling, each reproducible by changing the bounds of a configuration as
described; most have the cause of finding 1, a row read without a lock.

- Ledger, two sessions (`deliveries` with `UnknownIsNeverResent`): a `finish` that read
  `sending` overwrites an `unknown` that a claim committed meanwhile, and the next claim
  is told to send again.
- Outbox, two workers (`outbox_overlap` with `OneTaskPerShipment`): searching for the
  marker and adding are two calls; a worker that takes over after the lease ran out finds
  none and adds a second task.
- Outbox (`outbox_single` with the arrival in `ByHand`, or the control out of it): an
  action completed by hand while its delivery was under way is put back to `pending` when
  that delivery fails; the lease check cannot see the change (`Reloaded`). A control
  skipped by `confirm_onec_return` can be overwritten likewise.
- Queue, two API sessions: a confirmation overtaken by a repeated diagnosis commits, and
  1C applies under a diagnosis the author never saw (`ClosedAsConfirmed`).
- Queue, two pollers: a batch recorded `failed` whose rows 1C has closed, when the first
  poller applies after the second reported the failure (`FailedMeansNothingClosed`).
- Prepayment, two sessions: late acknowledgements of 1C take back a review
  (`ReviewIsFinal`). A batch once confirmed stays approved when later snapshots are
  refused, although the contract (line 102) asks for a fresh snapshot before the apply.
- Registry, two sessions: a carrier event that loaded the shipment before a pickup
  committed writes the transport status over it, against the invariant of
  `docs/specs/customer-return-carrier-control.md:303`.
- Registry, two sessions: a change of the deal that loaded the shipment before a link
  committed removes or replaces the deal that the link relied on (`DealFollowsRequest`).
- Registry, after finding 3: the same parcel is registered with another deal. The
  registration compares it only with the shipment's own, which is empty
  (`customer_returns.py:267-271`), and fills it in: two different deals, which
  `docs/specs/customer-return-carrier-control.md:132` says are blocked.
- Registry: the dedupe key of a deal taken over from a card (`customer_returns.py:616`)
  has no timestamp: taking over the same deal a second time collides.
- Replies: a draft edited without SEND, in the moment between the collector's read and
  its clearing, is sent, because restoring SEND stands for the new text. After a change of the
  encryption key the first new reply has all older ones quarantined.
- Replies, two saves (`replies` with the invariant `SendIsKept` and `MaxSaves = 2`):
  `docs/specs/site-service-requests-mvp.md:386-389` says that a restore that fails leaves the
  previous command uncleared, so that the new text is not lost. That command may have been
  cleared already: the operator repeats SEND of a text still under way, then saves another
  text with SEND between the collector's calls, and a collector that fails after its clearing
  loses it. With `MaxFaults = 2` a SEND is also lost when the uncleared row is quarantined.

## 4. What is proved

Every invariant and every action property that a run checks, but for the three that the code
violates, is a theorem: for any sets of runs, keys, workers, batches, rows, sessions, pollers,
agents, texts and pieces of evidence, any lease length, batch size and table of delays, and
any bound on the number of steps. The assumptions on the constants are named in the modules
and say no more than this:

- bounds are natural numbers, a lease and the number of attempts are at least one, delays and
  leases lie within the horizon of the countdowns (`BoundsAssumption`, `OutboxAssumption`,
  `OrderClosureAssumption`, `ReturnsAssumption`, `RepliesAssumption`, `StageAssumption`); there
  are finitely many prepayment orders, each with one row (`PrepayAssumption`);
- outcomes are statuses that a worker may report (`OutcomesAssumption`), and evidence names
  stages that its handler can produce (`EvidenceAssumption`);
- `None` is a value of its own (`NoneAssumption` of three modules, `NoRowAssumption`,
  `PrepayNoneAssumption`, `StageNoneAssumption`), and a manager is not a worker
  (`ManagerAssumption`).

Some theorems have a hypothesis besides, in the last column of the table. None is there for
the sake of the proof: for each pair of theorem and hypothesis, TLC finds the property
violated on a small instance without it (a second session, poller or worker, completion by
hand, the control). The instructive ones are described in section 3.

| Hypothesis | Meaning, and why the code can give no more |
|---|---|
| `OneSession` | requests of the API are served one at a time, beside any pollers and workers: a handler checks rows it has read without a lock, and a second session makes the check stale |
| `OnePoller` | one 1C session works on commands at a time: a second may report a failure under a new lease before the first has applied |
| `OneWorker` | one process delivers at a time: looking for a marker in Bitrix24 and adding it are two calls |
| `NoCompletionByHand` | no employee completes an action (`POST /actions/{id}/complete`): the late outcome of a delivery overwrites what he wrote |
| arrival not by hand | no employee completes the arrival's action, naming a task that need not be the shipment's |
| control not promised | the kind of action that 1C's confirmation skips is completed by hand or not in play: a skip under way can be overwritten likewise |

| Theorem | Statement | Under |
|---|---|---|
| `OrchestrationProofs!TypeCorrect` | `Spec => []TypeOK` | |
| `OrchestrationProofs!SingleExecutor` | `Spec => []AtMostOneExecutor` | |
| `OrchestrationProofs!SingleSender` | `Spec => []SendPermittedOncePerAttempt` | |
| `OrchestrationProofs!AttemptsAreCounted` | `Spec => []AttemptsMatchCounter` | |
| `OrchestrationSerialProofs!FinishIsFinal` | `Spec => []AcknowledgedFinishHolds` | `OneSession` |
| `OrchestrationSerialProofs!UnknownEndsSending` | `Spec => []UnknownIsNeverResent` | `OneSession` |
| `OrchestrationSerialProofs!SendingIsOpen` | `Spec => []OpenAttemptMatchesStatus` | `OneSession` |
| `CustomerReturnOutboxProofs!TypeCorrect` | `Spec => []TypeOK` | |
| `CustomerReturnOutboxProofs!CompletedWasDelivered` | `Spec => []CompletedMeansDelivered` | `NoCompletionByHand` |
| `CustomerReturnOutboxProofs!GivenUpWasExhausted` | `Spec => []GivesUpOnlyWhenExhausted` | `NoCompletionByHand` |
| `CustomerReturnOutboxProofs!TaskOnce` | `Spec => []OneTaskPerShipment` | `OneWorker` |
| `CustomerReturnOutboxProofs!MessageOnce` | `Spec => []EachMessageOnce` | `OneWorker`, arrival not by hand |
| `CustomerReturnOutboxProofs!ImplementsLifecycle` | `Spec => Lifecycle!Spec` | `OneWorker`, control not promised |
| `OrderClosureProofs!TypeCorrect` | `Spec => []TypeOK` | |
| `OrderClosureProofs!OnlyChosenRowsAreClosed` | `Spec => []ClosedRowsWereChosen` | |
| `OrderClosureProofs!ClosesAsConfirmed` | `Spec => []ClosedAsConfirmed` | `OneSession` |
| `OrderClosureProofs!AppliedIsExact` | `Spec => []AppliedMeansClosed` | `OneSession`, `OnePoller` |
| `OrderClosureProofs!FailedClosedNothing` | `Spec => []FailedMeansNothingClosed` | `OneSession`, `OnePoller` |
| `OrderPrepayExpiryProofs!PrepayTypeCorrect` | `PrepaySpec => []PrepayTypeOK` | |
| `OrderPrepayExpiryProofs!CompletedIsClosed` | `PrepaySpec => []CompletedMeansClosed` | |
| `OrderPrepayExpiryProofs!AutomationClosesAsConfirmed` | `PrepaySpec => []ClosedAsConfirmed` | |
| `OrderPrepayExpiryProofs!ReviewStays` | `PrepaySpec => ReviewIsFinal` | `OneSession`, `OnePoller` |
| `CustomerReturnsProofs!TypeCorrect` | `Spec => []TypeOK` | |
| `CustomerReturnsProofs!BusinessStatusIsKept` | `Spec => []BusinessStatusHolds` | `OneSession` |
| `CustomerReturnsProofs!LatestEventDecides` | `Spec => []LatestEventGoverns` | `OneSession` |
| `CustomerReturnsProofs!ActionsFollowStatus` | `Spec => []StatusHasItsAction` | `OneSession` |
| `CustomerReturnsProofs!DealIsKept` | `Spec => DealFollowsRequest` | `OneSession` |
| `SiteOrderStageOutboxProofs!RowsAreHeld` | `Spec => []HoldsInv` | |
| `SiteOrderStageOutboxProofs!TypeCorrect` | `Spec => []TypeOK` | |
| `SiteOrderStageOutboxProofs!CommentsOnce` | `Spec => []CommentOnce` | |
| `SiteOrderStageOutboxProofs!SettledIsTold` | `Spec => []SettledMeansTold` | |
| `SiteOrderStageOutboxProofs!OrderedRowsAreAlone` | `Spec => OrderedRowsWriteAlone` | |
| `SiteServiceRepliesProofs!TypeCorrect` | `Spec => []TypeOK` | |
| `SiteServiceRepliesProofs!RepliedOnce` | `Spec => []OneMessagePerCommand` | |
| `SiteServiceRepliesProofs!OutcomesAreTrue` | `Spec => []RecordedAsDelivered` | |
| `SiteServiceRepliesProofs!ShownAlwaysCurrent` | `Spec => ShownStatusIsCurrent` | |
| `SiteServiceRepliesProofs!NoOtherStepLosesSend` | `Spec => SendIsLostOnlySo` | |

**The ledger.** None of the invariants is inductive alone, because a commit merges
into a row other sessions have changed since it was loaded. `IInv` adds what an
open session still knows (`SessionsOK`): a row it loaded still exists,
`attempts_count` has not fallen behind the value it loaded, and a session that
will answer "send" wants to insert exactly the attempt after that value; and
`GrantsRecorded`: where there is no row, no permission was given. The unique
constraints then do the rest. If two claims race for attempt *n*, the row *n*
exists once the first has committed, the second cannot insert it, and its counter
write is lost with its transaction. `LargestAttempt` shows by well-foundedness that
the ORDER BY ... DESC of `get_open_delivery_attempt` has an answer.

**The ledger, served serially.** With one session a transaction is *fresh*: the row it loaded
is the row as it is, so the merge writes exactly what the handler computed. `SerialInv` says
what each handler's transaction would write, and that between transactions a run with an
acknowledged finish carries its report, the only open attempt is the one the counter names
and an `unknown` attempt is the last. With two sessions the first of these is false, which is
what `run_race` shows.

**The outbox.** A worker writes by its own copies of rows that others change. `Effects` says
what its program counter proves about *Bitrix24*: past a search that found the marker, or an
add that answered, the task or comment is there, and nothing there is ever removed. That is
why `CompletedMeansDelivered` needs no lease to be valid. `GivesUpOnlyWhenExhausted` rests on
the attempts a worker loaded never exceeding those of the row. For one worker,
`TaskLookedFor` adds that an add follows a search after which nobody else can have added;
leases then stand while they are worked under, and the refinement is shown action by action:
each step of the outbox moves any set of promised actions from none to open or from open to
settled, or leaves all phases alone. Completion by hand touches only the rows it may name
(`RegistryOK`), so what is said of the others needs no hypothesis about it.

**The queue.** `ClosedRowsWereChosen` speaks of 1C's receipts only. `IInv` follows a
choice to them: confirmation prepared in a session (`SessionsQueueChosen`), queued
rows (`QueuedWereChosen`), command in 1C's hands (`CommandsCarryChosen`), receipts.
The delicate step is `commit`: the merged rows may be a mix of two sessions, but
each column is one of the two values (`ColumnIsOneOf`), so a row is queued only if
it was already, or if this session queues it and records the confirmation in
the same commit.

**The queue, one session.** Again transactions are fresh but for the lease, which runs down
meanwhile (`Fresh`). `AsConfirmed` ties rows, transactions and commands together: a batch to
be applied has as its queued rows a selection confirmed under its hash; a command carries
such a selection; so 1C can only close one. With one poller in addition, `AsRecorded` says
what was recorded is what was closed (`Recorded`), that a command not yet reported still
stands under its lease (`CommandStands`), and that a report agrees with the receipts
until it is settled (`Settling`).

**The prepayment automation.** The steps of the queue are steps of `OrderClosure`, so `IInv`
carries over. That the sessions carry acknowledgements only makes the rest hold for any
number of sessions and pollers: whichever acknowledgement commits, and over whatever row, the
merged row has no command left (`MergedRow`), so a row to be applied is as its last
confirmation left it (`BatchSound`), and `applied` is written only from a report of 1C, after
the receipt (`AckSound`, `CommandSound`). `SnapshotsHold` says a snapshot that shows an order
cancelled cannot become untrue on its way, because an order leaves `new` for good.
`ReviewStays` needs the serial invariants of the queue: no lease stands on an order under
review and no acknowledgement of it is on its way.

**The registry.** Rows are never deleted, so every merge meets a row (`StillThere`), and dedupe
keys keep their types; that is all `TypeCorrect` needs. With one session the invariant is
about rows between transactions and about what the open transaction would make of them:
status and source event agree (`RowAgrees`), each status has its action (`HasActions`), and a
fresh transaction commits the row it computed. `DealIsKept` follows from the last: each
handler leaves its copy with the deal kept (`KeepsLink`), whatever the card became since it
was read, and only commits write (`OnlyCommitsWrite`), over the very row the handler had
read. Nothing is assumed of the cards.

**The stage outbox.** `HoldsInv` is about who holds what: the drafts of two workers have no row
in common, the rows of a draft are still open, and those not yet touched are as they were
taken. `ToldInv` adds what has been told: whatever a draft or a row claims was done in
Bitrix24, and nothing there is taken back, so a crash forgets work but never invents it.
`AloneInv` is the ordering argument: if a worker is at a row and an earlier row of the order
would block it, both are rows of a reconciliation. Two workers at rows of one order are
therefore both at reconciliation rows, and a row of another kind is written over the very
stage its worker had read.

**The replies.** That a reply is posted once rests on the lock and the marker, and that
its record is true on the tokens. `IInv` says what an agent can rely on: the tokens it
holds were issued (`TokensIssued`) and no two agents hold the same one (`LeasesApart`); an
agent about to write is the only one for its command and the marker is not in the ticket
(`OneWriter`); a reported success names a message that is there, and a failure reported
under the *current* token means that nothing was posted or is about to be (`ReportsTrue`).
The last holds because a failure is reported by the holder of the lock, and whoever
takes the lock later with an older token finds its lease gone. `RecordsTrue` carries both to
the table. `ShownAlwaysCurrent` adds what the collector has read (`SeenShown`): the lock on
the case holds off polls, acknowledgements and retries until it has written.
`NoOtherStepLosesSend` goes through the actions: one that touches the card leaves the SEND,
restores it, or leaves an uncleared row of another text.

**Only model-checked.** Liveness under fairness is beyond the prover, as is ENABLED:
`ConfirmedIsSettled`, `ClosedIsCompleted`, `EveryRowSettles`, `EveryReplySettles`, and of
`EveryActionSettles` the half that says each action is settled in the end (its other half is
`ImplementsLifecycle`). For an action completed by hand only `OneTaskPerShipment` and
`EachMessageOnce` are claimed, since the other promises fail. Nothing is proved of
`FinalStaysFinal` and `RequestFillsDeal`, which the code violates.

## 5. Not modelled

Within the modelled parts: health endpoints, `preview_due_actions` and other reads
change no state; pages of comment searches beyond the first are not reached; filter
batches of the closure queue are left out. Of the prepayment automation, several
orders in one tick and a full work list are in the specification but in no run. Of the
registry, links of expertise cases. Of the stage outbox, SMS fields, feature flags and
pilot warehouses (taken as on), the ordering of historical logistics rows, and other
orders in a batch, whose only effect is a longer wait. Of the site service requests,
the intake of events and files, attachments, e-mail and the assignment of cards:
the intake is idempotent by unique keys and has no second actor.

The remaining components are imports, reports, calculations over imported rows,
rendering, scraping, language-model heuristics and user interface: their difficulty
is in data, not in the order of steps. They make up almost all of the
repository's lines, so that the share of lines modelled here is small by
nature. Migrations appear only through the constraints that the commit actions meet.

## 6. Plan

The order of work was: who may execute and send (`Orchestration`), what reaches
Bitrix24 (`CustomerReturnOutbox`), what 1C does in the service's name (`OrderClosure`),
then the automation on top of it, the registry before the outbox, the stages of orders,
and the replies to customers. What would come next:

1. Intake of site service requests, with staged files, as a second module beside
   `SiteServiceReplies`.
2. Site order fulfilment: shipments and scans as the source of the evidence that
   `SiteOrderStageOutbox` takes as given.
3. The alert outbox of the customer settlements, and the life cycle of a credit decision.
4. The price-type rules as operators checked against a reference definition.

Proofs: what the properties that need one session keep when there are two, stated as
invariants of their own (for instance, whether a run set back to `running` may be finished
with another report, and whether an applied batch still has a receipt); the inner order of the
collector's calls in the replies as a refinement of a single, indivisible one.
