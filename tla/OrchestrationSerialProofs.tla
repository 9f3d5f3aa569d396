----------------------- MODULE OrchestrationSerialProofs -----------------------
(***************************************************************************)
(* What the service's own checks promise when requests are served one at a *)
(* time.  A single session reads the rows it will write over, so a check   *)
(* made while handling still holds at the commit: an acknowledged finish   *)
(* is final, an attempt is open exactly while its delivery is sending, and *)
(* nothing is sent again after an unknown outcome.                         *)
(*                                                                         *)
(* With a second session AcknowledgedFinishHolds is false (the run         *)
(* OrchestrationRunRace shows it), so OneSession is a hypothesis here and  *)
(* not a convenience.                                                      *)
(***************************************************************************)
EXTENDS OrchestrationProofs

OneSession == \A s, u \in Sessions : s = u

(* A run request between its handler and its commit: the row it loaded is    *)
(* still the row, a final run is not written, a finish writes its report.    *)
RunFresh(t) ==
    /\ t.old = runs[t.req.run]
    /\ t.old # None => t.new.input = t.old.input
    /\ t.old # None /\ t.old.status \in FINAL_RUN_STATUSES => t.new = t.old
    /\ t.req.op = "run.finish" =>
           t.old # None /\ t.new.status = t.req.status /\ t.new.result = t.req
    /\ t.new.result # None => t.new.status = t.new.result.status

(* A claim that was not answered should_send leaves the status alone, sends  *)
(* the delivery to manual review, or closes the lapsed attempt as unknown.   *)
RefusalFresh(t) ==
    /\ t.attempt # 0 => t.old.status = "sending" /\ t.new.status = "unknown"
    /\ t.attempt \in AttemptNumbers => t.attempt = t.old.count
    /\ t.attempt = 0 => /\ t.new.status = "sending" <=> t.old.status = "sending"
                        /\ t.new.status = "unknown" <=> t.old.status = "unknown"

(* A delivery request between its handler and its commit.                    *)
DeliveryFresh(t) ==
    /\ t.old = intents[t.req.intent]
    /\ t.old # None => t.new.run = t.old.run /\ t.new.content = t.old.content
    /\ t.should =>
           /\ t.new.status = "sending"
           /\ t.old # None => t.old.status \notin FINAL_DELIVERY_STATUSES \cup {"sending"}
    /\ t.req.op = "delivery.claim" /\ ~t.should => RefusalFresh(t)
    /\ t.req.op = "delivery.finish" =>
           \/ t.new = t.old
           \/ t.old.status = "sending" /\ t.new.status = t.req.outcome

SessionsFresh ==
    \A s \in Sessions : sess[s] # None =>
        /\ sess[s] \in RunTransaction => RunFresh(sess[s])
        /\ sess[s] \in DeliveryTransaction => DeliveryFresh(sess[s])

(* A run that holds a result has the status which that result reported.      *)
ResultGivesStatus ==
    \A r \in Runs : runs[r] # None /\ runs[r].result # None
        => runs[r].status = runs[r].result.status

(* An acknowledged finish is still on its run.                               *)
FinishRecorded ==
    \A k \in Keys :
        requests[k] # None /\ requests[k].req.op = "run.finish"
            => LET run == runs[requests[k].req.run]
               IN  /\ run # None
                   /\ run.status = requests[k].req.status
                   /\ run.result = requests[k].req

(* An attempt with an unknown outcome is the last one, and its delivery      *)
(* waits in state unknown.                                                   *)
UnknownIsLast ==
    \A d \in Intents, n \in AttemptNumbers :
        attempts[d][n] # None /\ attempts[d][n].outcome = "unknown"
            => intents[d].status = "unknown" /\ intents[d].count = n

RunsSerial == ResultGivesStatus /\ FinishRecorded
DeliveriesSerial == OpenAttemptMatchesStatus /\ UnknownIsLast

SerialInv == IInv /\ SessionsFresh /\ RunsSerial /\ DeliveriesSerial

------------------------------------------------------------------------------
LEMMA SerialInit == Init => SerialInv
<1> SUFFICES ASSUME Init PROVE SerialInv
    OBVIOUS
<1>1. IInv
    BY InitIInv
<1>2. SessionsFresh /\ RunsSerial
    BY DEF Init, SessionsFresh, RunsSerial, ResultGivesStatus, FinishRecorded
<1>3. DeliveriesSerial
    BY DEF Init, DeliveriesSerial, OpenAttemptMatchesStatus, UnknownIsLast
<1> QED BY <1>1, <1>2, <1>3 DEF SerialInv

(* A handler writes no table: it only has to load a fresh transaction.       *)
LEMMA LoadSerial ==
    ASSUME SerialInv, OneSession, NEW s \in Sessions, NEW t, Load(s, t),
           \/ t \in RunTransaction /\ RunFresh(t)
           \/ t \in DeliveryTransaction /\ DeliveryFresh(t)
    PROVE  SessionsFresh' /\ RunsSerial' /\ DeliveriesSerial'
<1> USE DEF Load
<1>1. SessionsFresh'
    <2> SUFFICES ASSUME NEW x \in Sessions, sess'[x] # None
                 PROVE  /\ sess'[x] \in RunTransaction => RunFresh(sess[x])'
                        /\ sess'[x] \in DeliveryTransaction => DeliveryFresh(sess[x])'
        BY DEF SessionsFresh
    <2>1. x = s /\ sess'[x] = t
        BY DEF OneSession, SerialInv, IInv, TypeOK
    <2>2. ~(t \in RunTransaction /\ t \in DeliveryTransaction)
        BY OperationKinds DEF RunOps, DeliveryOps
    <2>3. /\ sess'[x] \in RunTransaction => RunFresh(sess'[x])
          /\ sess'[x] \in DeliveryTransaction => DeliveryFresh(sess'[x])
        BY <2>1, <2>2
    <2> QED BY <2>3 DEF RunFresh, DeliveryFresh, RefusalFresh
<1>2. RunsSerial'
    BY DEF SerialInv, RunsSerial, ResultGivesStatus, FinishRecorded
<1>3. DeliveriesSerial'
    BY DEF SerialInv, DeliveriesSerial, OpenAttemptMatchesStatus, OpenAttempts, UnknownIsLast
<1> QED BY <1>1, <1>2, <1>3

------------------------------------------------------------------------------
(* What the run handlers load.                                               *)

LEMMA ClaimRunSerial ==
    ASSUME SerialInv, OneSession, NEW s \in Sessions, NEW k \in Keys, NEW r \in Runs,
           NEW input \in Inputs, NEW w \in Workers, claim_run(s, k, r, input, w)
    PROVE  SessionsFresh' /\ RunsSerial' /\ DeliveriesSerial'
<1> DEFINE req == [op |-> "run.claim", run |-> r, input |-> input, worker |-> w]
           run == [input |-> input, worker |-> w, status |-> "claimed",
                   lease |-> now + LeaseSeconds, result |-> None]
           inserted == [key |-> k, req |-> req, should |-> TRUE,
                        old |-> None, new |-> run]
           found == [key |-> k, req |-> req, should |-> FALSE,
                     old |-> runs[r], new |-> runs[r]]
<1>1. req \in RunRequest
    BY DEF RunRequest, ClaimRunRequest
<1>2. CASE runs[r] = None
    <2>1. run \in OrchestrationJobRun
        BY BoundsAssumption DEF OrchestrationJobRun, RunStatuses, SerialInv, IInv, TypeOK
    <2>2. inserted \in RunTransaction /\ RunFresh(inserted)
        BY <1>1, <1>2, <2>1 DEF RunTransaction, RunFresh
    <2>3. Load(s, inserted)
        BY <1>2 DEF claim_run
    <2> QED BY <2>2, <2>3, LoadSerial
<1>3. CASE runs[r] # None
    <2>1. runs[r] \in OrchestrationJobRun
        BY <1>3 DEF SerialInv, IInv, TypeOK
    <2>2. runs[r].result # None => runs[r].status = runs[r].result.status
        BY <1>3 DEF SerialInv, RunsSerial, ResultGivesStatus
    <2>3. found \in RunTransaction /\ RunFresh(found)
        BY <1>1, <1>3, <2>1, <2>2 DEF RunTransaction, RunFresh
    <2>4. Load(s, found)
        BY <1>3 DEF claim_run
    <2> QED BY <2>3, <2>4, LoadSerial
<1> QED BY <1>2, <1>3

(* An active run holds no result, so its heartbeat contradicts none.         *)
LEMMA HeartbeatRunSerial ==
    ASSUME SerialInv, OneSession, NEW s \in Sessions, NEW k \in Keys, NEW r \in Runs,
           NEW w \in Workers, heartbeat_run(s, k, r, w)
    PROVE  SessionsFresh' /\ RunsSerial' /\ DeliveriesSerial'
<1> DEFINE req == [op |-> "run.heartbeat", run |-> r, worker |-> w]
           run == [runs[r] EXCEPT !.status = "running", !.lease = now + LeaseSeconds]
           t == [key |-> k, req |-> req, should |-> TRUE, old |-> runs[r], new |-> run]
<1>1. req \in RunRequest
    BY DEF RunRequest, HeartbeatRequest
<1>2. runs[r] # None /\ runs[r] \in OrchestrationJobRun
    BY DEF SerialInv, IInv, TypeOK, heartbeat_run
<1>3. now + LeaseSeconds \in Nat
    BY BoundsAssumption DEF SerialInv, IInv, TypeOK
<1>4. run \in OrchestrationJobRun
    BY <1>2, <1>3 DEF OrchestrationJobRun, RunStatuses
<1>5. runs[r].status \in {"claimed", "running"}
    BY DEF heartbeat_run
<1>6. runs[r].result = None
    <2>1. runs[r].result \in FinishRunRequest => runs[r].result.status \in FINAL_RUN_STATUSES
        BY OutcomesAssumption DEF FinishRunRequest
    <2>2. runs[r].result \in FinishRunRequest \cup {None}
        BY <1>2 DEF OrchestrationJobRun
    <2>3. runs[r].result # None => runs[r].status = runs[r].result.status
        BY <1>2 DEF SerialInv, RunsSerial, ResultGivesStatus
    <2> QED BY <1>5, <2>1, <2>2, <2>3 DEF FINAL_RUN_STATUSES
<1>7. run.result = None /\ run.input = runs[r].input
    BY <1>2, <1>6 DEF OrchestrationJobRun
<1>8. t \in RunTransaction /\ RunFresh(t)
    BY <1>1, <1>2, <1>4, <1>5, <1>7 DEF RunTransaction, RunFresh, FINAL_RUN_STATUSES
<1>9. Load(s, t)
    BY DEF heartbeat_run
<1> QED BY <1>8, <1>9, LoadSerial

(* A repeated finish meets the result it reported before; a first one meets  *)
(* an active run.                                                            *)
LEMMA FinishRunSerial ==
    ASSUME SerialInv, OneSession, NEW s \in Sessions, NEW k \in Keys, NEW r \in Runs,
           NEW w \in Workers, NEW status \in RunOutcomes,
           finish_run(s, k, r, w, status)
    PROVE  SessionsFresh' /\ RunsSerial' /\ DeliveriesSerial'
<1> DEFINE req == [op |-> "run.finish", run |-> r, worker |-> w, status |-> status]
           run == [runs[r] EXCEPT !.status = status, !.result = req]
           T(new) == [key |-> k, req |-> req, should |-> FALSE,
                      old |-> runs[r], new |-> new]
<1>1. req \in FinishRunRequest /\ req \in RunRequest /\ req.status = status
      /\ req.op = "run.finish" /\ req.run = r
    BY DEF FinishRunRequest, RunRequest
<1>2. runs[r] # None /\ runs[r] \in OrchestrationJobRun
    BY DEF SerialInv, IInv, TypeOK, finish_run
<1>3. status \in RunStatuses
    BY OutcomesAssumption DEF RunStatuses
<1>4. \/ runs[r].result = req /\ Load(s, T(runs[r]))
      \/ runs[r].status \notin FINAL_RUN_STATUSES /\ Load(s, T(run))
    BY DEF finish_run
<1> HIDE DEF req
<1>5. run \in OrchestrationJobRun /\ run.input = runs[r].input
      /\ run.status = status /\ run.result = req
    BY <1>1, <1>2, <1>3 DEF OrchestrationJobRun
<1> HIDE DEF run
<1>6. CASE runs[r].result = req /\ Load(s, T(runs[r]))
    <2>1. runs[r].status = status
        BY <1>1, <1>2, <1>6, NoneAssumption DEF SerialInv, RunsSerial, ResultGivesStatus
    <2>2. T(runs[r]) \in RunTransaction /\ RunFresh(T(runs[r]))
        BY <1>1, <1>2, <1>6, <2>1 DEF RunTransaction, RunFresh
    <2> QED BY <1>6, <2>2, LoadSerial
<1>7. CASE runs[r].status \notin FINAL_RUN_STATUSES /\ Load(s, T(run))
    <2>1. T(run) \in RunTransaction /\ RunFresh(T(run))
        BY <1>1, <1>2, <1>5, <1>7 DEF RunTransaction, RunFresh
    <2> QED BY <1>7, <2>1, LoadSerial
<1> QED BY <1>4, <1>6, <1>7

------------------------------------------------------------------------------
(* What the delivery handlers load.                                          *)

(* A claim that is answered should_send goes out on a delivery that is new,  *)
(* or failed before; any other claim sends nothing.                          *)
LEMMA ClaimDeliverySerial ==
    ASSUME SerialInv, OneSession, NEW s \in Sessions, NEW k \in Keys, NEW r \in Runs,
           NEW d \in Intents, NEW content \in Contents, NEW w \in Workers,
           NEW max \in AttemptLimits,
           claim_delivery(s, k, r, d, content, w, max)
    PROVE  SessionsFresh' /\ RunsSerial' /\ DeliveriesSerial'
<1> DEFINE req == [op |-> "delivery.claim", run |-> r, intent |-> d,
                   content |-> content, worker |-> w, max_attempts |-> max]
           T(should, new, attempt) ==
               [key |-> k, req |-> req, should |-> should,
                old |-> intents[d], new |-> new, attempt |-> attempt]
           next == intents[d].count + 1
<1>1. req \in DeliveryRequest /\ req.op = "delivery.claim" /\ req.intent = d
    BY DEF DeliveryRequest, ClaimDeliveryRequest
<1>2. TypeOK
    BY DEF SerialInv, IInv
<1>3. max \in Nat /\ max <= MaxAttempts /\ MaxAttempts \in Nat \ {0}
    BY BoundsAssumption
<1>4. CASE intents[d] = None
    <2> DEFINE new == Sending(r, content, w, 1, None)
    <2>1. 1 \in AttemptNumbers
        BY <1>3 DEF AttemptNumbers
    <2>2. new \in OrchestrationDeliveryIntent /\ new.status = "sending"
        BY <2>1, <1>2, SendingType DEF Sending
    <2>3. Load(s, T(TRUE, new, 1))
        BY <1>4 DEF claim_delivery
    <2> HIDE DEF new, req
    <2>4. DeliveryFresh(T(TRUE, new, 1))
        BY <1>1, <1>4, <2>2 DEF DeliveryFresh
    <2>5. T(TRUE, new, 1) \in DeliveryTransaction
        BY <1>1, <1>3, <1>4, <2>2 DEF DeliveryTransaction
    <2> HIDE DEF T
    <2> QED BY <2>3, <2>4, <2>5, LoadSerial
<1>5. CASE intents[d] # None
    <2>1. intents[d] \in OrchestrationDeliveryIntent
        BY <1>2, <1>5 DEF TypeOK
    <2>2. intents[d].count \in AttemptNumbers /\ intents[d].count \in Nat
        BY <2>1, <1>3 DEF OrchestrationDeliveryIntent, AttemptNumbers
    <2>3. ASSUME NEW new \in OrchestrationDeliveryIntent,
                 new.run = intents[d].run, new.content = intents[d].content,
                 new.status = "sending" <=> intents[d].status = "sending",
                 new.status = "unknown" <=> intents[d].status = "unknown",
                 Load(s, T(FALSE, new, 0))
          PROVE  SessionsFresh' /\ RunsSerial' /\ DeliveriesSerial'
        <3> HIDE DEF req
        <3>1. 0 \notin AttemptNumbers
            BY DEF AttemptNumbers
        <3>2. RefusalFresh(T(FALSE, new, 0))
            BY <2>3, <3>1 DEF RefusalFresh
        <3>3. DeliveryFresh(T(FALSE, new, 0))
            BY <1>1, <1>5, <2>3, <3>2 DEF DeliveryFresh
        <3>4. T(FALSE, new, 0) \in DeliveryTransaction
            BY <1>1, <1>3, <2>1 DEF DeliveryTransaction
        <3> QED BY <2>3, <3>3, <3>4, LoadSerial
    <2>4. CASE Load(s, T(FALSE, intents[d], 0))
        BY <2>1, <2>3, <2>4
    <2>5. CASE /\ LeaseExpired(intents[d])
               /\ Load(s, T(FALSE, [intents[d] EXCEPT !.status = "unknown"], None))
        <3> DEFINE new == [intents[d] EXCEPT !.status = "unknown"]
        <3>1. /\ new \in OrchestrationDeliveryIntent /\ new.status = "unknown"
              /\ new.run = intents[d].run /\ new.content = intents[d].content
            BY <2>1 DEF OrchestrationDeliveryIntent, DeliveryStatuses
        <3>2. intents[d].status = "sending"
            BY <2>5 DEF LeaseExpired
        <3>3. Load(s, T(FALSE, new, None))
            BY <2>5
        <3> HIDE DEF new, req
        <3>4. None \notin AttemptNumbers /\ None # 0
            BY NoneAssumption DEF AttemptNumbers
        <3>5. RefusalFresh(T(FALSE, new, None))
            BY <3>1, <3>2, <3>4 DEF RefusalFresh
        <3>6. DeliveryFresh(T(FALSE, new, None))
            BY <1>1, <1>5, <3>1, <3>5 DEF DeliveryFresh
        <3>7. T(FALSE, new, None) \in DeliveryTransaction
            BY <1>1, <2>1, <3>1 DEF DeliveryTransaction
        <3> QED BY <3>3, <3>6, <3>7, LoadSerial
    <2>6. CASE /\ intents[d].status \notin FINAL_DELIVERY_STATUSES \cup {"sending"}
               /\ Load(s, T(FALSE, [intents[d] EXCEPT !.status = "manual_review"], 0))
        <3> DEFINE new == [intents[d] EXCEPT !.status = "manual_review"]
        <3>1. /\ new \in OrchestrationDeliveryIntent /\ new.status = "manual_review"
              /\ new.run = intents[d].run /\ new.content = intents[d].content
            BY <2>1 DEF OrchestrationDeliveryIntent, DeliveryStatuses
        <3>2. intents[d].status # "sending" /\ intents[d].status # "unknown"
            BY <2>6 DEF FINAL_DELIVERY_STATUSES
        <3>3. Load(s, T(FALSE, new, 0))
            BY <2>6
        <3> HIDE DEF new
        <3> QED BY <2>3, <3>1, <3>2, <3>3
    <2>7. CASE /\ intents[d].status \notin FINAL_DELIVERY_STATUSES \cup {"sending"}
               /\ ~AttemptLimitReached(intents[d], max)
               /\ intents[d].run = r /\ intents[d].content = content
               /\ Load(s, T(TRUE, Sending(r, content, w, next, intents[d].result), next))
        <3> DEFINE new == Sending(r, content, w, next, intents[d].result)
        <3>1. next \in AttemptNumbers /\ next \in 0..MaxAttempts
            BY <1>3, <2>2, <2>7 DEF AttemptLimitReached, AttemptNumbers
        <3>2. intents[d].result \in FinishDeliveryRequest \cup {None}
            BY <2>1 DEF OrchestrationDeliveryIntent
        <3>3. new \in OrchestrationDeliveryIntent
            BY <1>2, <3>1, <3>2, SendingType
        <3>4. new.status = "sending" /\ new.run = r /\ new.content = content
            BY DEF Sending
        <3>5. Load(s, T(TRUE, new, next))
            BY <2>7
        <3> HIDE DEF new, req, next
        <3>6. DeliveryFresh(T(TRUE, new, next))
            BY <1>1, <1>5, <2>7, <3>4 DEF DeliveryFresh
        <3>7. T(TRUE, new, next) \in DeliveryTransaction
            BY <1>1, <2>1, <3>1, <3>3 DEF DeliveryTransaction
        <3> HIDE DEF T
        <3> QED BY <3>5, <3>6, <3>7, LoadSerial
    <2> QED BY <1>5, <2>4, <2>5, <2>6, <2>7 DEF claim_delivery
<1> QED BY <1>4, <1>5

(* A finish keeps what was reported before, or reports the open sending.     *)
LEMMA FinishDeliverySerial ==
    ASSUME SerialInv, OneSession, NEW s \in Sessions, NEW k \in Keys,
           NEW d \in Intents, NEW w \in Workers, NEW outcome \in DeliveryOutcomes,
           finish_delivery(s, k, d, w, outcome)
    PROVE  SessionsFresh' /\ RunsSerial' /\ DeliveriesSerial'
<1> DEFINE req == [op |-> "delivery.finish", intent |-> d, worker |-> w,
                   outcome |-> outcome]
           reported == [intents[d] EXCEPT !.status = outcome, !.result = req]
           T(new) == [key |-> k, req |-> req, should |-> FALSE,
                      old |-> intents[d], new |-> new, attempt |-> 0]
<1>1. /\ req \in FinishDeliveryRequest /\ req \in DeliveryRequest
      /\ req.op = "delivery.finish" /\ req.intent = d /\ req.outcome = outcome
    BY DEF FinishDeliveryRequest, DeliveryRequest
<1>2. intents[d] # None /\ intents[d] \in OrchestrationDeliveryIntent
    BY DEF SerialInv, IInv, TypeOK, finish_delivery
<1>3. outcome \in DeliveryStatuses
    BY OutcomesAssumption
<1>4. \/ Load(s, T(intents[d]))
      \/ intents[d].status = "sending" /\ Load(s, T(reported))
    BY DEF finish_delivery
<1> HIDE DEF req
<1>5. /\ reported \in OrchestrationDeliveryIntent /\ reported.status = outcome
      /\ reported.run = intents[d].run /\ reported.content = intents[d].content
    BY <1>1, <1>2, <1>3 DEF OrchestrationDeliveryIntent
<1> HIDE DEF reported
<1>6. 0 \in 0..MaxAttempts
    BY BoundsAssumption
<1>7. CASE Load(s, T(intents[d]))
    <2>1. T(intents[d]) \in DeliveryTransaction /\ DeliveryFresh(T(intents[d]))
        BY <1>1, <1>2, <1>6 DEF DeliveryTransaction, DeliveryFresh
    <2> QED BY <1>7, <2>1, LoadSerial
<1>8. CASE intents[d].status = "sending" /\ Load(s, T(reported))
    <2>1. T(reported) \in DeliveryTransaction
        BY <1>1, <1>2, <1>5, <1>6 DEF DeliveryTransaction
    <2>2. DeliveryFresh(T(reported))
        BY <1>1, <1>2, <1>5, <1>8 DEF DeliveryFresh
    <2> QED BY <1>8, <2>1, <2>2, LoadSerial
<1> QED BY <1>4, <1>7, <1>8

(* The open attempt of a sending delivery is the one the counter names.      *)
LEMMA OpenAttemptIsLatest ==
    ASSUME IInv, OpenAttemptMatchesStatus, NEW d \in Intents,
           intents[d] # None, intents[d].status = "sending"
    PROVE  /\ get_open_delivery_attempt(d) = intents[d].count
           /\ intents[d].count \in AttemptNumbers
<1>1. intents[d].count \in AttemptNumbers
    BY DEF IInv, TypeOK, OrchestrationDeliveryIntent
<1>2. OpenAttempts(d) = {intents[d].count}
    BY DEF OpenAttemptMatchesStatus
<1>3. intents[d].count <= intents[d].count
    BY <1>1, BoundsAssumption DEF AttemptNumbers
<1> QED BY <1>1, <1>2, <1>3 DEF get_open_delivery_attempt

LEMMA ReadOpenAttemptSerial ==
    ASSUME SerialInv, OneSession, NEW s \in Sessions, read_open_attempt(s)
    PROVE  SessionsFresh' /\ RunsSerial' /\ DeliveriesSerial'
<1> DEFINE n == get_open_delivery_attempt(sess[s].req.intent)
           new == [sess[s] EXCEPT !.attempt = n]
<1>1. PICK t : t = sess[s]
    OBVIOUS
<1>2. /\ t # None /\ t.req.op = "delivery.claim" /\ t.attempt = None
      /\ Load(s, new)
    BY <1>1 DEF read_open_attempt
<1>3. /\ t \in DeliveryTransaction /\ DeliveryTransactionOK(t)
      /\ t.req.intent \in Intents /\ t.new.count \in AttemptNumbers
    BY <1>1, <1>2, CommitDeliveryFacts DEF SerialInv, DeliveryOps
<1>4. DeliveryFresh(t)
    BY <1>1, <1>2, <1>3 DEF SerialInv, SessionsFresh
<1>5. ~t.should /\ t.old # None
    <2>1. None \notin AttemptNumbers
        BY NoneAssumption DEF AttemptNumbers
    <2> QED BY <1>2, <1>3, <2>1 DEF DeliveryTransactionOK
<1>6. t.old.status = "sending" /\ t.new.status = "unknown"
    BY <1>2, <1>4, <1>5, NoneAssumption DEF DeliveryFresh, RefusalFresh
<1>7. n = t.old.count /\ n \in AttemptNumbers
    BY <1>1, <1>3, <1>4, <1>5, <1>6, OpenAttemptIsLatest
       DEF DeliveryFresh, SerialInv, DeliveriesSerial
<1>8. n # 0 /\ n \in 0..MaxAttempts
    BY <1>7, BoundsAssumption DEF AttemptNumbers
<1> HIDE DEF n
<1>9. /\ new \in DeliveryTransaction /\ new.attempt = n /\ new.req = t.req
      /\ new.old = t.old /\ new.new = t.new /\ new.should = t.should
    BY <1>1, <1>3, <1>8 DEF DeliveryTransaction
<1> HIDE DEF new
<1>10. DeliveryFresh(new)
    BY <1>2, <1>4, <1>5, <1>6, <1>7, <1>8, <1>9 DEF DeliveryFresh, RefusalFresh
<1> QED BY <1>2, <1>9, <1>10, LoadSerial

------------------------------------------------------------------------------
(* Commits.  What is read is what is written over, so the merge of columns   *)
(* writes exactly the row that the handler computed.                         *)

LEMMA SaveRunFresh ==
    ASSUME NEW old \in OrchestrationJobRun, NEW new \in OrchestrationJobRun,
           new.input = old.input
    PROVE  save_run(old, new, old) = new
BY DEF save_run, Column, OrchestrationJobRun

LEMMA SaveIntentFresh ==
    ASSUME NEW old \in OrchestrationDeliveryIntent,
           NEW new \in OrchestrationDeliveryIntent,
           new.run = old.run, new.content = old.content
    PROVE  save_delivery_intent(old, new, old) = new
BY DEF save_delivery_intent, Column, OrchestrationDeliveryIntent

(* The only session is closed: no transaction is left to be fresh.           *)
LEMMA CloseSerial ==
    ASSUME SerialInv, OneSession, NEW s \in Sessions, Close(s)
    PROVE  SessionsFresh'
BY DEF Close, SessionsFresh, OneSession, SerialInv, IInv, TypeOK

(* Serving one at a time, a commit cannot bring back an active status or     *)
(* another result: the handler saw the final row.                            *)
LEMMA CommitRunSerial ==
    ASSUME SerialInv, OneSession, NEW s \in Sessions, commit_run(s)
    PROVE  SessionsFresh' /\ RunsSerial' /\ DeliveriesSerial'
<1>1. PICK t : t = sess[s]
    OBVIOUS
<1>2. PICK r : r = t.req.run
    OBVIOUS
<1>3. IInv
    BY DEF SerialInv
<1>4. t # None /\ t.req.op \in RunOps
    BY <1>1 DEF commit_run, RunOps
<1>5. t \in RunTransaction /\ r \in Runs /\ t.key \in Keys
      /\ t.new \in OrchestrationJobRun
      /\ t.old \in OrchestrationJobRun \cup {None}
    <2>1. t \in RunTransaction
        BY <1>1, <1>3, <1>4, OperationKinds DEF IInv, TypeOK, RunOps, DeliveryOps
    <2>2. t.req \in RunRequest
        BY <2>1, OperationKinds
    <2>3. r \in Runs
        BY <1>2, <2>2, OperationKinds
    <2> QED BY <2>1, <2>3 DEF RunTransaction
<1>6. RunFresh(t)
    BY <1>1, <1>4, <1>5 DEF SerialInv, SessionsFresh
<1>7. runs' = [runs EXCEPT ![r] = t.new]
    <2>1. CASE t.old = None /\ runs' = [runs EXCEPT ![r] = t.new]
        BY <2>1
    <2>2. CASE t.old # None /\ runs' = [runs EXCEPT ![r] = save_run(t.old, t.new, @)]
        <3>1. t.old \in OrchestrationJobRun /\ runs[r] = t.old /\ t.new.input = t.old.input
            BY <1>2, <1>5, <1>6, <2>2 DEF RunFresh
        <3>2. save_run(t.old, t.new, runs[r]) = t.new
            BY <1>5, <3>1, SaveRunFresh
        <3> QED BY <2>2, <3>2
    <2> QED BY <1>1, <1>2, <2>1, <2>2 DEF commit_run
<1>8. /\ UNCHANGED <<intents, attempts>>
      /\ Close(s)
      /\ requests' = [requests EXCEPT
             ![t.key] = [req |-> t.req, should |-> t.should, count |-> 0]]
    BY <1>1 DEF commit_run, add_api_request
<1>9. runs \in [Runs -> OrchestrationJobRun \cup {None}]
      /\ requests \in [Keys -> OrchestrationApiRequest \cup {None}]
    BY <1>3 DEF IInv, TypeOK
<1>10. ResultGivesStatus'
    <2> SUFFICES ASSUME NEW x \in Runs, runs'[x] # None, runs'[x].result # None
                 PROVE  runs'[x].status = runs'[x].result.status
        BY DEF ResultGivesStatus
    <2>1. CASE x = r
        BY <1>5, <1>6, <1>7, <1>9, <2>1 DEF RunFresh
    <2>2. CASE x # r
        BY <1>5, <1>7, <1>9, <2>2 DEF SerialInv, RunsSerial, ResultGivesStatus
    <2> QED BY <2>1, <2>2
<1>11. FinishRecorded'
    <2> SUFFICES ASSUME NEW k \in Keys, requests'[k] # None,
                        requests'[k].req.op = "run.finish"
                 PROVE  /\ runs'[requests'[k].req.run] # None
                        /\ runs'[requests'[k].req.run].status = requests'[k].req.status
                        /\ runs'[requests'[k].req.run].result = requests'[k].req
        BY DEF FinishRecorded
    <2>1. CASE k = t.key
        <3>1. requests'[k].req = t.req
            BY <1>5, <1>8, <1>9, <2>1
        <3>2. runs'[r] = t.new /\ t.new # None
            BY <1>5, <1>7, <1>9, NoneAssumption
        <3> QED BY <1>2, <1>6, <3>1, <3>2 DEF RunFresh
    <2>2. CASE k # t.key
        <3>1. PICK q : q = requests[k].req
            OBVIOUS
        <3>2. requests'[k] = requests[k] /\ requests[k] # None
            BY <1>5, <1>8, <1>9, <2>2
        <3>3. /\ q.op = "run.finish" /\ runs[q.run] # None
              /\ runs[q.run].status = q.status /\ runs[q.run].result = q
            BY <3>1, <3>2 DEF SerialInv, RunsSerial, FinishRecorded
        <3>4. q \in RunRequest \cup DeliveryRequest
            BY <1>9, <3>1, <3>2 DEF OrchestrationApiRequest
        <3>5. q \in FinishRunRequest
            BY <3>3, <3>4 DEF RunRequest, DeliveryRequest, ClaimRunRequest, HeartbeatRequest,
                              ClaimDeliveryRequest, FinishDeliveryRequest
        <3>6. q.run \in Runs /\ q.status \in FINAL_RUN_STATUSES
            BY <3>5, OutcomesAssumption DEF FinishRunRequest
        <3>7. runs'[q.run] = runs[q.run]
            BY <1>2, <1>5, <1>6, <1>7, <1>9, <3>3, <3>6 DEF RunFresh
        <3> QED BY <3>1, <3>2, <3>3, <3>7
    <2> QED BY <2>1, <2>2
<1>12. DeliveriesSerial'
    BY <1>8 DEF SerialInv, DeliveriesSerial, OpenAttemptMatchesStatus, OpenAttempts,
                UnknownIsLast
<1> QED BY <1>8, <1>10, <1>11, <1>12, CloseSerial DEF RunsSerial

(* A request about a delivery records no finish of a run.                    *)
LEMMA DeliveryCommitKeepsRuns ==
    ASSUME SerialInv, NEW key \in Keys, NEW row, row.req.op \in DeliveryOps,
           UNCHANGED runs, requests' = [requests EXCEPT ![key] = row]
    PROVE  RunsSerial'
<1>1. ResultGivesStatus'
    BY DEF SerialInv, RunsSerial, ResultGivesStatus
<1>2. FinishRecorded'
    <2> SUFFICES ASSUME NEW k \in Keys, requests'[k] # None,
                        requests'[k].req.op = "run.finish"
                 PROVE  /\ runs'[requests'[k].req.run] # None
                        /\ runs'[requests'[k].req.run].status = requests'[k].req.status
                        /\ runs'[requests'[k].req.run].result = requests'[k].req
        BY DEF FinishRecorded
    <2>1. k # key /\ requests'[k] = requests[k]
        BY DEF SerialInv, IInv, TypeOK, DeliveryOps
    <2> QED BY <2>1 DEF SerialInv, RunsSerial, FinishRecorded
<1> QED BY <1>1, <1>2 DEF RunsSerial

(* Which attempts are open, and which are unknown, is a matter of one intent. *)
LEMMA OneDeliveryChanges ==
    ASSUME SerialInv, NEW d \in Intents,
           \A x \in Intents : x # d => intents'[x] = intents[x] /\ attempts'[x] = attempts[x],
           intents'[d] # None,
           \A m \in AttemptNumbers :
               attempts'[d][m] # None /\ attempts'[d][m].outcome = None
                 <=> intents'[d].status = "sending" /\ m = intents'[d].count,
           \A m \in AttemptNumbers :
               attempts'[d][m] # None /\ attempts'[d][m].outcome = "unknown"
                 => intents'[d].status = "unknown" /\ intents'[d].count = m,
           intents'[d].count \in AttemptNumbers
    PROVE  DeliveriesSerial'
<1>1. OpenAttemptMatchesStatus'
    <2> SUFFICES ASSUME NEW x \in Intents, intents'[x] # None
                 PROVE  {m \in AttemptNumbers :
                             attempts'[x][m] # None /\ attempts'[x][m].outcome = None}
                          = IF intents'[x].status = "sending"
                            THEN {intents'[x].count} ELSE {}
        BY DEF OpenAttemptMatchesStatus, OpenAttempts
    <2>1. CASE x = d
        BY <2>1
    <2>2. CASE x # d
        <3>1. intents'[x] = intents[x] /\ attempts'[x] = attempts[x]
            BY <2>2
        <3>2. OpenAttempts(x) = IF intents[x].status = "sending"
                                THEN {intents[x].count} ELSE {}
            BY <3>1 DEF SerialInv, DeliveriesSerial, OpenAttemptMatchesStatus
        <3> QED BY <3>1, <3>2 DEF OpenAttempts
    <2> QED BY <2>1, <2>2
<1>2. UnknownIsLast'
    <2> SUFFICES ASSUME NEW x \in Intents, NEW m \in AttemptNumbers,
                        attempts'[x][m] # None, attempts'[x][m].outcome = "unknown"
                 PROVE  intents'[x].status = "unknown" /\ intents'[x].count = m
        BY DEF UnknownIsLast
    <2>1. CASE x = d
        BY <2>1
    <2>2. CASE x # d
        BY <2>2 DEF SerialInv, DeliveriesSerial, UnknownIsLast
    <2> QED BY <2>1, <2>2
<1> QED BY <1>1, <1>2 DEF DeliveriesSerial

(* The attempts of a delivery, read off its row.                             *)
LEMMA AttemptsOf ==
    ASSUME SerialInv, NEW d \in Intents
    PROVE  /\ attempts \in [Intents ->
                 [AttemptNumbers -> OrchestrationDeliveryAttempt \cup {None}]]
           /\ intents \in [Intents -> OrchestrationDeliveryIntent \cup {None}]
           /\ \A m \in AttemptNumbers : attempts[d][m] # None =>
                 /\ intents[d] # None
                 /\ attempts[d][m].outcome = None
                      <=> intents[d].status = "sending" /\ m = intents[d].count
                 /\ attempts[d][m].outcome = "unknown"
                      => intents[d].status = "unknown" /\ m = intents[d].count
           /\ intents[d] # None =>
                 /\ intents[d].count \in AttemptNumbers
                 /\ attempts[d][intents[d].count] # None
<1>1. IInv
    BY DEF SerialInv
<1>2. /\ attempts \in [Intents ->
            [AttemptNumbers -> OrchestrationDeliveryAttempt \cup {None}]]
      /\ intents \in [Intents -> OrchestrationDeliveryIntent \cup {None}]
    BY <1>1 DEF IInv, TypeOK
<1>3. ASSUME NEW m \in AttemptNumbers, attempts[d][m] # None
      PROVE  intents[d] # None
    BY <1>1, <1>3 DEF IInv, AttemptsMatchCounter
<1>4. ASSUME NEW m \in AttemptNumbers, attempts[d][m] # None
      PROVE  attempts[d][m].outcome = None
               <=> intents[d].status = "sending" /\ m = intents[d].count
    <2>1. OpenAttempts(d) = IF intents[d].status = "sending" THEN {intents[d].count} ELSE {}
        BY <1>3, <1>4 DEF SerialInv, DeliveriesSerial, OpenAttemptMatchesStatus
    <2>2. m \in OpenAttempts(d) <=> attempts[d][m].outcome = None
        BY <1>4 DEF OpenAttempts
    <2> QED BY <2>1, <2>2
<1>5. ASSUME NEW m \in AttemptNumbers, attempts[d][m] # None,
             attempts[d][m].outcome = "unknown"
      PROVE  intents[d].status = "unknown" /\ m = intents[d].count
    BY <1>5 DEF SerialInv, DeliveriesSerial, UnknownIsLast
<1>6. ASSUME intents[d] # None
      PROVE  intents[d].count \in AttemptNumbers /\ attempts[d][intents[d].count] # None
    <2>1. intents[d].count \in AttemptNumbers
        BY <1>2, <1>6 DEF OrchestrationDeliveryIntent
    <2>2. intents[d].count <= intents[d].count
        BY <2>1, BoundsAssumption DEF AttemptNumbers
    <2> QED BY <1>1, <1>6, <2>1, <2>2 DEF IInv, AttemptsMatchCounter
<1> QED BY <1>2, <1>3, <1>4, <1>5, <1>6

(* Committing a claim opens the attempt it counts, closes the lapsed one as  *)
(* unknown together with its delivery, or touches no attempt.                *)
LEMMA CommitClaimDeliverySerial ==
    ASSUME SerialInv, OneSession, NEW s \in Sessions, commit_claim_delivery(s)
    PROVE  SessionsFresh' /\ RunsSerial' /\ DeliveriesSerial'
<1>1. PICK t : t = sess[s]
    OBVIOUS
<1>2. PICK d, n : d = t.req.intent /\ n = t.attempt
    OBVIOUS
<1>3. t # None /\ t.req.op = "delivery.claim" /\ n # None
    BY <1>1, <1>2 DEF commit_claim_delivery
<1>4. /\ t \in DeliveryTransaction /\ DeliveryTransactionOK(t) /\ d \in Intents
      /\ t.key \in Keys /\ t.new \in OrchestrationDeliveryIntent
      /\ t.new.count \in AttemptNumbers
    BY <1>1, <1>2, <1>3, CommitDeliveryFacts DEF SerialInv, DeliveryOps
<1>5. t.old \in OrchestrationDeliveryIntent \cup {None} /\ n \in 0..MaxAttempts
    BY <1>2, <1>3, <1>4 DEF DeliveryTransaction
<1>6. DeliveryFresh(t) /\ t.old = intents[d]
    BY <1>1, <1>2, <1>3, <1>4 DEF SerialInv, SessionsFresh, DeliveryFresh
<1>7. /\ UNCHANGED runs
      /\ Close(s)
      /\ requests' = [requests EXCEPT
             ![t.key] = [req |-> t.req, should |-> t.should, count |-> t.new.count]]
    BY <1>1, <1>2 DEF commit_claim_delivery, add_api_request
<1>8. intents' = [intents EXCEPT ![d] = t.new]
    <2>1. CASE t.old = None /\ intents' = [intents EXCEPT ![d] = t.new]
        BY <2>1
    <2>2. CASE t.old # None /\ UpdateIntent(t, d)
        <3>1. save_delivery_intent(t.old, t.new, intents[d]) = t.new
            BY <1>4, <1>5, <1>6, <2>2, SaveIntentFresh DEF DeliveryFresh
        <3> QED BY <2>2, <3>1 DEF UpdateIntent
    <2> QED BY <1>1, <1>2, <2>1, <2>2 DEF commit_claim_delivery
<1>9. /\ attempts \in [Intents ->
            [AttemptNumbers -> OrchestrationDeliveryAttempt \cup {None}]]
      /\ intents \in [Intents -> OrchestrationDeliveryIntent \cup {None}]
    BY <1>4, AttemptsOf
<1>10. intents'[d] = t.new /\ intents'[d] # None
       /\ \A x \in Intents : x # d => intents'[x] = intents[x]
    BY <1>4, <1>8, <1>9, NoneAssumption
<1>11. RunsSerial'
    <2> DEFINE row == [req |-> t.req, should |-> t.should, count |-> t.new.count]
    <2>1. row.req.op \in DeliveryOps
        BY <1>3 DEF DeliveryOps
    <2>2. requests' = [requests EXCEPT ![t.key] = row]
        BY <1>7
    <2> HIDE DEF row
    <2> QED BY <1>4, <1>7, <2>1, <2>2, DeliveryCommitKeepsRuns
<1>12. \A m \in AttemptNumbers : attempts[d][m] # None =>
           /\ intents[d] # None
           /\ attempts[d][m].outcome = None
                <=> intents[d].status = "sending" /\ m = intents[d].count
           /\ attempts[d][m].outcome = "unknown"
                => intents[d].status = "unknown" /\ m = intents[d].count
    BY <1>4, AttemptsOf
<1>13. intents[d] # None => attempts[d][intents[d].count] # None
    BY <1>4, AttemptsOf
<1>14. CASE t.should /\ attempts' = [attempts EXCEPT
                ![d][n] = [worker |-> t.req.worker, outcome |-> None]]
    <2>1. n = t.new.count /\ t.new.status = "sending"
        BY <1>2, <1>4, <1>6, <1>14 DEF DeliveryTransactionOK, DeliveryFresh
    <2>2. intents[d] # None =>
              intents[d].status \notin FINAL_DELIVERY_STATUSES \cup {"sending"}
        BY <1>6, <1>14 DEF DeliveryFresh
    <2>3. \A m \in AttemptNumbers : attempts[d][m] # None =>
              attempts[d][m].outcome # None /\ attempts[d][m].outcome # "unknown"
        BY <1>12, <2>2 DEF FINAL_DELIVERY_STATUSES
    <2> DEFINE row == [worker |-> t.req.worker, outcome |-> None]
    <2>4. row.outcome = None /\ row # None
        <3>1. t.req.worker \in Workers
            BY <1>4, OperationKinds
        <3>2. row \in OrchestrationDeliveryAttempt
            BY <3>1 DEF OrchestrationDeliveryAttempt
        <3> QED BY <3>2, NoneAssumption
    <2>5. attempts' = [attempts EXCEPT ![d][n] = row]
        BY <1>14
    <2> HIDE DEF row
    <2>6. /\ \A x \in Intents : x # d => attempts'[x] = attempts[x]
          /\ \A m \in AttemptNumbers :
                 attempts'[d][m] = IF m = n THEN row ELSE attempts[d][m]
        BY <1>4, <1>9, <2>1, <2>5
    <2>7. None # "unknown"
        BY NoneAssumption DEF DeliveryStatuses
    <2>8. \A m \in AttemptNumbers :
              /\ attempts'[d][m] # None /\ attempts'[d][m].outcome = None
                   <=> intents'[d].status = "sending" /\ m = intents'[d].count
              /\ ~(attempts'[d][m] # None /\ attempts'[d][m].outcome = "unknown")
        BY <1>10, <2>1, <2>3, <2>4, <2>6, <2>7
    <2>9. DeliveriesSerial'
        BY <1>4, <1>10, <2>6, <2>8, OneDeliveryChanges
    <2> QED BY <1>7, <1>11, <2>9, CloseSerial
<1>15. CASE ~t.should /\ n # 0
            /\ attempts' = [attempts EXCEPT ![d][n].outcome = "unknown"]
    <2>1. n \in AttemptNumbers
        BY <1>5, <1>15, BoundsAssumption DEF AttemptNumbers
    <2>2. /\ intents[d] # None /\ n = intents[d].count /\ intents[d].status = "sending"
          /\ t.new.status = "unknown" /\ t.new.count = n
        BY <1>2, <1>3, <1>4, <1>6, <1>15, <2>1
           DEF DeliveryTransactionOK, DeliveryFresh, RefusalFresh
    <2> DEFINE closed == [attempts[d][n] EXCEPT !.outcome = "unknown"]
    <2>3. attempts[d][n] # None /\ attempts[d][n] \in OrchestrationDeliveryAttempt
        BY <1>4, <1>9, <1>13, <2>1, <2>2
    <2>4. closed \in OrchestrationDeliveryAttempt /\ closed.outcome = "unknown"
        BY <2>3 DEF OrchestrationDeliveryAttempt, DeliveryStatuses
    <2>5. attempts' = [attempts EXCEPT ![d] = [attempts[d] EXCEPT ![n] = closed]]
        BY <1>4, <1>9, <1>15, <2>1
    <2> HIDE DEF closed
    <2>6. /\ \A x \in Intents : x # d => attempts'[x] = attempts[x]
          /\ \A m \in AttemptNumbers :
                 attempts'[d][m] = IF m = n THEN closed ELSE attempts[d][m]
        BY <1>4, <1>9, <2>1, <2>5
    <2>7. None # "unknown"
        BY NoneAssumption DEF DeliveryStatuses
    <2>8. \A m \in AttemptNumbers : attempts[d][m] # None /\ m # n =>
              attempts[d][m].outcome # None /\ attempts[d][m].outcome # "unknown"
        BY <1>12, <2>2
    <2>9. /\ \A m \in AttemptNumbers :
                 attempts'[d][m] # None /\ attempts'[d][m].outcome = None
                   <=> intents'[d].status = "sending" /\ m = intents'[d].count
          /\ \A m \in AttemptNumbers :
                 attempts'[d][m] # None /\ attempts'[d][m].outcome = "unknown"
                   => intents'[d].status = "unknown" /\ intents'[d].count = m
        BY <1>10, <2>2, <2>4, <2>6, <2>7, <2>8
    <2>10. DeliveriesSerial'
        BY <1>4, <1>10, <2>6, <2>9, OneDeliveryChanges
    <2> QED BY <1>7, <1>11, <2>10, CloseSerial
<1>16. CASE ~t.should /\ n = 0 /\ UNCHANGED attempts
    <2>1. t.old # None /\ t.new.count = t.old.count
        BY <1>4, <1>16 DEF DeliveryTransactionOK
    <2>2. /\ t.new.status = "sending" <=> t.old.status = "sending"
          /\ t.new.status = "unknown" <=> t.old.status = "unknown"
        BY <1>2, <1>3, <1>6, <1>16 DEF DeliveryFresh, RefusalFresh
    <2>3. /\ \A m \in AttemptNumbers :
                 attempts'[d][m] # None /\ attempts'[d][m].outcome = None
                   <=> intents'[d].status = "sending" /\ m = intents'[d].count
          /\ \A m \in AttemptNumbers :
                 attempts'[d][m] # None /\ attempts'[d][m].outcome = "unknown"
                   => intents'[d].status = "unknown" /\ intents'[d].count = m
        BY <1>6, <1>10, <1>12, <1>13, <1>16, <2>1, <2>2
    <2>4. DeliveriesSerial'
        BY <1>4, <1>10, <1>16, <2>3, OneDeliveryChanges
    <2> QED BY <1>7, <1>11, <2>4, CloseSerial
<1> QED BY <1>1, <1>2, <1>14, <1>15, <1>16 DEF commit_claim_delivery

(* Committing a finish closes the open attempt with the outcome it gives to  *)
(* the delivery, or repeats a report and changes nothing.                    *)
LEMMA CommitFinishDeliverySerial ==
    ASSUME SerialInv, OneSession, NEW s \in Sessions, commit_finish_delivery(s)
    PROVE  SessionsFresh' /\ RunsSerial' /\ DeliveriesSerial'
<1>1. PICK t : t = sess[s]
    OBVIOUS
<1>2. PICK d : d = t.req.intent
    OBVIOUS
<1>3. t # None /\ t.req.op = "delivery.finish"
    BY <1>1 DEF commit_finish_delivery
<1>4. /\ t \in DeliveryTransaction /\ DeliveryTransactionOK(t) /\ d \in Intents
      /\ t.key \in Keys /\ t.new \in OrchestrationDeliveryIntent
    BY <1>1, <1>2, <1>3, CommitDeliveryFacts DEF SerialInv, DeliveryOps
<1>5. /\ t.old \in OrchestrationDeliveryIntent /\ t.old # None
      /\ t.new.count = t.old.count
    BY <1>3, <1>4 DEF DeliveryTransaction, DeliveryTransactionOK
<1>6. DeliveryFresh(t) /\ t.old = intents[d]
    BY <1>1, <1>2, <1>3, <1>4 DEF SerialInv, SessionsFresh, DeliveryFresh
<1>7. /\ UNCHANGED runs
      /\ Close(s)
      /\ requests' = [requests EXCEPT
             ![t.key] = [req |-> t.req, should |-> t.should, count |-> t.new.count]]
    BY <1>1, <1>2 DEF commit_finish_delivery, add_api_request
<1>8. intents' = [intents EXCEPT ![d] = t.new]
    <2>1. save_delivery_intent(t.old, t.new, intents[d]) = t.new
        BY <1>4, <1>5, <1>6, SaveIntentFresh DEF DeliveryFresh
    <2>2. UpdateIntent(t, d)
        BY <1>1, <1>2 DEF commit_finish_delivery
    <2> QED BY <2>1, <2>2 DEF UpdateIntent
<1>9. /\ attempts \in [Intents ->
            [AttemptNumbers -> OrchestrationDeliveryAttempt \cup {None}]]
      /\ intents \in [Intents -> OrchestrationDeliveryIntent \cup {None}]
    BY <1>4, AttemptsOf
<1>10. intents'[d] = t.new /\ intents'[d] # None
       /\ \A x \in Intents : x # d => intents'[x] = intents[x]
    BY <1>4, <1>8, <1>9, NoneAssumption
<1>11. RunsSerial'
    <2> DEFINE row == [req |-> t.req, should |-> t.should, count |-> t.new.count]
    <2>1. row.req.op \in DeliveryOps
        BY <1>3 DEF DeliveryOps
    <2>2. requests' = [requests EXCEPT ![t.key] = row]
        BY <1>7
    <2> HIDE DEF row
    <2> QED BY <1>4, <1>7, <2>1, <2>2, DeliveryCommitKeepsRuns
<1>12. \A m \in AttemptNumbers : attempts[d][m] # None =>
           /\ attempts[d][m].outcome = None
                <=> intents[d].status = "sending" /\ m = intents[d].count
           /\ attempts[d][m].outcome = "unknown"
                => intents[d].status = "unknown" /\ m = intents[d].count
    BY <1>4, AttemptsOf
<1>13. intents[d].count \in AttemptNumbers /\ attempts[d][intents[d].count] # None
    BY <1>4, <1>5, <1>6, AttemptsOf
<1>14. CASE t.new = t.old
    <2>1. UNCHANGED attempts
        BY <1>1, <1>2, <1>14 DEF commit_finish_delivery
    <2>2. intents'[d] = intents[d]
        BY <1>6, <1>10, <1>14
    <2>3. DeliveriesSerial'
        BY <1>4, <1>10, <1>12, <1>13, <2>1, <2>2, OneDeliveryChanges
    <2> QED BY <1>7, <1>11, <2>3, CloseSerial
<1>15. CASE t.new # t.old
    <2>1. intents[d].status = "sending" /\ t.new.status = t.req.outcome
        BY <1>3, <1>6, <1>15 DEF DeliveryFresh
    <2>2. t.req.outcome \in DeliveryStatuses \ {"sending"}
        BY <1>3, <1>4, OutcomesAssumption
           DEF DeliveryTransaction, DeliveryRequest, ClaimDeliveryRequest,
               FinishDeliveryRequest
    <2>3. get_open_delivery_attempt(d) = intents[d].count
        BY <1>4, <1>5, <1>6, <2>1, OpenAttemptIsLatest DEF SerialInv, DeliveriesSerial
    <2>4. PICK n \in AttemptNumbers : n = intents[d].count
        BY <1>13
    <2>5. n # 0
        BY <2>4 DEF AttemptNumbers
    <2>6. attempts' = [attempts EXCEPT ![d][n].outcome = t.req.outcome]
        BY <1>1, <1>2, <1>15, <2>3, <2>4, <2>5 DEF commit_finish_delivery
    <2> DEFINE closed == [attempts[d][n] EXCEPT !.outcome = t.req.outcome]
    <2>7. attempts[d][n] # None /\ attempts[d][n] \in OrchestrationDeliveryAttempt
        BY <1>4, <1>9, <1>13, <2>4
    <2>8. closed.outcome = t.req.outcome
        BY <2>7 DEF OrchestrationDeliveryAttempt
    <2>9. attempts' = [attempts EXCEPT ![d] = [attempts[d] EXCEPT ![n] = closed]]
        BY <1>4, <1>9, <2>4, <2>6
    <2> HIDE DEF closed
    <2>10. /\ \A x \in Intents : x # d => attempts'[x] = attempts[x]
           /\ \A m \in AttemptNumbers :
                  attempts'[d][m] = IF m = n THEN closed ELSE attempts[d][m]
        BY <1>4, <1>9, <2>4, <2>9
    <2>11. t.req.outcome # None /\ t.req.outcome # "sending"
        BY <2>2, NoneAssumption
    <2>12. \A m \in AttemptNumbers : attempts[d][m] # None /\ m # n =>
               attempts[d][m].outcome # None /\ attempts[d][m].outcome # "unknown"
        BY <1>12, <2>1, <2>4
    <2>13. intents'[d].status = t.req.outcome /\ intents'[d].count = n
        BY <1>5, <1>6, <1>10, <2>1, <2>4
    <2>14. /\ \A m \in AttemptNumbers :
                  attempts'[d][m] # None /\ attempts'[d][m].outcome = None
                    <=> intents'[d].status = "sending" /\ m = intents'[d].count
           /\ \A m \in AttemptNumbers :
                  attempts'[d][m] # None /\ attempts'[d][m].outcome = "unknown"
                    => intents'[d].status = "unknown" /\ intents'[d].count = m
        BY <2>8, <2>10, <2>11, <2>12, <2>13
    <2>15. DeliveriesSerial'
        BY <1>4, <1>10, <2>10, <2>13, <2>14, OneDeliveryChanges
    <2> QED BY <1>7, <1>11, <2>15, CloseSerial
<1> QED BY <1>14, <1>15

(* Rollbacks, replays and the clock change no row.                           *)
LEMMA QuietSerial ==
    ASSUME SerialInv, UNCHANGED <<requests, runs, intents, attempts, sess>>
    PROVE  SessionsFresh' /\ RunsSerial' /\ DeliveriesSerial'
<1>1. SessionsFresh'
    BY DEF SerialInv, SessionsFresh, RunFresh, DeliveryFresh, RefusalFresh
<1>2. RunsSerial' /\ DeliveriesSerial'
    BY DEF SerialInv, RunsSerial, ResultGivesStatus, FinishRecorded, DeliveriesSerial,
           OpenAttemptMatchesStatus, OpenAttempts, UnknownIsLast
<1> QED BY <1>1, <1>2

LEMMA RollbackSerial ==
    ASSUME SerialInv, OneSession, NEW s \in Sessions, rollback(s)
    PROVE  SessionsFresh' /\ RunsSerial' /\ DeliveriesSerial'
<1>1. Close(s) /\ UNCHANGED <<requests, runs, intents, attempts>>
    BY DEF rollback
<1>2. RunsSerial' /\ DeliveriesSerial'
    BY <1>1 DEF SerialInv, RunsSerial, ResultGivesStatus, FinishRecorded, DeliveriesSerial,
                OpenAttemptMatchesStatus, OpenAttempts, UnknownIsLast
<1> QED BY <1>1, <1>2, CloseSerial

------------------------------------------------------------------------------
LEMMA SerialNext == OneSession /\ SerialInv /\ [Next]_vars => SerialInv'
<1> SUFFICES ASSUME OneSession, SerialInv, [Next]_vars PROVE SerialInv'
    OBVIOUS
<1>1. IInv'
    BY NextIInv DEF SerialInv
<1>2. CASE \E s \in Sessions, k \in Keys : RunHandler(s, k)
    BY <1>1, <1>2, ClaimRunSerial, HeartbeatRunSerial, FinishRunSerial
       DEF RunHandler, SerialInv
<1>3. CASE \E s \in Sessions, k \in Keys : DeliveryHandler(s, k)
    BY <1>1, <1>3, ClaimDeliverySerial, FinishDeliverySerial DEF DeliveryHandler, SerialInv
<1>4. CASE \E s \in Sessions : read_open_attempt(s)
    BY <1>1, <1>4, ReadOpenAttemptSerial DEF SerialInv
<1>5. CASE \E s \in Sessions : commit_run(s)
    BY <1>1, <1>5, CommitRunSerial DEF SerialInv
<1>6. CASE \E s \in Sessions : commit_claim_delivery(s)
    BY <1>1, <1>6, CommitClaimDeliverySerial DEF SerialInv
<1>7. CASE \E s \in Sessions : commit_finish_delivery(s)
    BY <1>1, <1>7, CommitFinishDeliverySerial DEF SerialInv
<1>8. CASE \E s \in Sessions : rollback(s)
    BY <1>1, <1>8, RollbackSerial DEF SerialInv
<1>9. CASE \E k \in Keys, req \in RunRequest \cup DeliveryRequest :
               idempotent_replay(k, req)
    <2>1. UNCHANGED <<requests, runs, intents, attempts, sess>>
        BY <1>9 DEF idempotent_replay
    <2> QED BY <1>1, <2>1, QuietSerial DEF SerialInv
<1>10. CASE Tick
    <2>1. UNCHANGED <<requests, runs, intents, attempts, sess>>
        BY <1>10 DEF Tick
    <2> QED BY <1>1, <2>1, QuietSerial DEF SerialInv
<1>11. CASE UNCHANGED vars
    <2>1. UNCHANGED <<requests, runs, intents, attempts, sess>>
        BY <1>11 DEF vars
    <2> QED BY <1>1, <2>1, QuietSerial DEF SerialInv
<1> QED
    BY <1>2, <1>3, <1>4, <1>5, <1>6, <1>7, <1>8, <1>9, <1>10, <1>11 DEF Next

LEMMA SerialInvariant ==
    ASSUME OneSession
    PROVE  Spec => []SerialInv
<1>1. Init => SerialInv
    BY SerialInit
<1>2. SerialInv /\ [Next]_vars => SerialInv'
    BY SerialNext
<1> QED BY <1>1, <1>2, PTL DEF Spec

(* Serving one request at a time, a run keeps the status of the finish that  *)
(* was acknowledged: the active-run check refuses later heartbeats and the   *)
(* result check a different report.                                          *)
THEOREM FinishIsFinal ==
    ASSUME OneSession
    PROVE  Spec => []AcknowledgedFinishHolds
<1>1. SerialInv => AcknowledgedFinishHolds
    BY DEF SerialInv, RunsSerial, FinishRecorded, AcknowledgedFinishHolds
<1> QED BY <1>1, SerialInvariant, PTL

(* An attempt with an unknown outcome is its delivery's last, so no later    *)
(* number was ever answered should_send = true.                              *)
THEOREM UnknownEndsSending ==
    ASSUME OneSession
    PROVE  Spec => []UnknownIsNeverResent
<1>1. SerialInv => UnknownIsNeverResent
    <2> SUFFICES ASSUME SerialInv, NEW d \in Intents, NEW n \in AttemptNumbers,
                        attempts[d][n] # None, attempts[d][n].outcome = "unknown",
                        NEW m \in AttemptNumbers, m > n
                 PROVE  sendGrants[d][m] = 0
        BY DEF UnknownIsNeverResent
    <2>1. intents[d].count = n
        BY DEF SerialInv, DeliveriesSerial, UnknownIsLast
    <2>2. ~(m <= intents[d].count)
        BY <2>1, BoundsAssumption DEF AttemptNumbers
    <2>3. attempts[d][m] = None
        BY <2>2 DEF SerialInv, IInv, AttemptsMatchCounter
    <2> QED BY <2>3 DEF SerialInv, IInv, GrantsRecorded
<1> QED BY <1>1, SerialInvariant, PTL

(* A delivery is sending exactly while its latest attempt row is open.       *)
THEOREM SendingIsOpen ==
    ASSUME OneSession
    PROVE  Spec => []OpenAttemptMatchesStatus
<1>1. SerialInv => OpenAttemptMatchesStatus
    BY DEF SerialInv, DeliveriesSerial
<1> QED BY <1>1, SerialInvariant, PTL

=============================================================================
