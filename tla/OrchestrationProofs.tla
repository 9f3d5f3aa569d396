-------------------------- MODULE OrchestrationProofs --------------------------
(***************************************************************************)
(* Machine-checked safety of the orchestration ledger for every set of     *)
(* runs, intents, keys, workers and concurrent sessions.                   *)
(*                                                                         *)
(* TypeOK is not inductive: a commit merges columns into the row that is   *)
(* current by then, so the proof must know that a loaded row still exists  *)
(* and that attempts_count has not fallen behind the value the session     *)
(* loaded.  IInv adds these facts about open sessions, and ties the answers *)
(* already given to the rows that record them.                             *)
(***************************************************************************)
EXTENDS Orchestration, TLAPS, WellFoundedInduction

RunOps == {"run.claim", "run.heartbeat", "run.finish"}
DeliveryOps == {"delivery.claim", "delivery.finish"}

(* What an open session that handles a run request still knows.              *)
RunTransactionOK(t) ==
    /\ t.old # None => runs[t.req.run] # None
    /\ t.should /\ t.req.op = "run.claim" => t.old = None

(* What an open session that handles a delivery request still knows.         *)
DeliveryTransactionOK(t) ==
    LET d == t.req.intent
    IN  /\ t.old # None => intents[d] # None /\ t.old.count <= intents[d].count
        /\ t.req.op = "delivery.finish" => ~t.should
        /\ t.should => /\ t.attempt = t.new.count
                       /\ t.old = None => t.new.count = 1
                       /\ t.old # None => t.new.count = t.old.count + 1
        /\ ~t.should => /\ t.old # None
                        /\ t.new.count = t.old.count
                        /\ t.attempt \in AttemptNumbers => attempts[d][t.attempt] # None

SessionsOK ==
    \A s \in Sessions : sess[s] # None =>
        /\ sess[s] \in RunTransaction => RunTransactionOK(sess[s])
        /\ sess[s] \in DeliveryTransaction => DeliveryTransactionOK(sess[s])

(* Permission is answered only together with the row that records it.        *)
GrantsRecorded ==
    /\ \A r \in Runs : runs[r] = None => execGrants[r] = 0
    /\ \A d \in Intents, n \in AttemptNumbers :
           attempts[d][n] = None => sendGrants[d][n] = 0

IInv ==
    /\ TypeOK
    /\ SessionsOK
    /\ GrantsRecorded
    /\ AtMostOneExecutor
    /\ SendPermittedOncePerAttempt
    /\ AttemptsMatchCounter

------------------------------------------------------------------------------
(* A bounded non-empty set of attempt numbers has a largest element, so the  *)
(* ORDER BY ... DESC of get_open_delivery_attempt is well defined.           *)
LEMMA LargestAttempt ==
    ASSUME NEW S \in SUBSET AttemptNumbers, S # {}
    PROVE  \E n \in S : \A m \in S : m <= n
<1> DEFINE T == {i \in Nat : MaxAttempts - i \in S}
<1>1. T \subseteq Nat
    OBVIOUS
<1>2. T # {}
    <2>1. PICK n \in S : TRUE
        OBVIOUS
    <2>2. n \in 1..MaxAttempts /\ MaxAttempts \in Nat
        BY BoundsAssumption DEF AttemptNumbers
    <2>3. MaxAttempts - n \in Nat /\ MaxAttempts - (MaxAttempts - n) = n
        BY <2>2
    <2> QED BY <2>3
<1>3. PICK x \in T : \A y \in T : ~(<<y, x>> \in OpToRel(<, Nat))
    BY <1>1, <1>2, NatLessThanWellFounded, WFMin, Zenon
<1>4. \A y \in T : ~(y < x)
    BY <1>3, <1>1 DEF OpToRel
<1>5. MaxAttempts - x \in S
    OBVIOUS
<1>6. ASSUME NEW m \in S PROVE m <= MaxAttempts - x
    <2>1. m \in 1..MaxAttempts /\ MaxAttempts \in Nat
        BY BoundsAssumption DEF AttemptNumbers
    <2>2. MaxAttempts - m \in T
        BY <2>1
    <2>3. ~(MaxAttempts - m < x)
        BY <2>2, <1>4
    <2> QED BY <2>1, <2>3, <1>1
<1> QED BY <1>5, <1>6

(* get_open_delivery_attempt returns 0 or the number of an open attempt.     *)
LEMMA OpenAttemptFound ==
    ASSUME NEW d \in Intents
    PROVE  \/ get_open_delivery_attempt(d) = 0
           \/ /\ get_open_delivery_attempt(d) \in AttemptNumbers
              /\ attempts[d][get_open_delivery_attempt(d)] # None
<1>1. CASE OpenAttempts(d) = {}
    BY <1>1 DEF get_open_delivery_attempt
<1>2. CASE OpenAttempts(d) # {}
    <2>1. OpenAttempts(d) \in SUBSET AttemptNumbers
        BY DEF OpenAttempts
    <2>2. \E n \in OpenAttempts(d) : \A m \in OpenAttempts(d) : m <= n
        BY <2>1, <1>2, LargestAttempt
    <2>3. get_open_delivery_attempt(d) \in OpenAttempts(d)
        BY <2>2, <1>2 DEF get_open_delivery_attempt
    <2> QED BY <2>3 DEF OpenAttempts
<1> QED BY <1>1, <1>2

(* The operation name separates the two kinds of open transactions.          *)
LEMMA OperationKinds ==
    /\ \A t \in RunTransaction : t.req \in RunRequest /\ t.req.op \in RunOps
    /\ \A t \in DeliveryTransaction :
           t.req \in DeliveryRequest /\ t.req.op \in DeliveryOps
    /\ \A q \in RunRequest : q.op \in RunOps /\ q.run \in Runs
    /\ \A q \in DeliveryRequest :
           q.op \in DeliveryOps /\ q.intent \in Intents /\ q.worker \in Workers
BY DEF RunTransaction, DeliveryTransaction, RunRequest, DeliveryRequest, RunOps,
       DeliveryOps, ClaimRunRequest, HeartbeatRequest, FinishRunRequest,
       ClaimDeliveryRequest, FinishDeliveryRequest

(* The inductive invariant holds before any request was served.              *)
LEMMA InitIInv == Init => IInv
<1> SUFFICES ASSUME Init PROVE IInv
    OBVIOUS
<1>1. TypeOK
    BY DEF Init, TypeOK
<1>2. SessionsOK
    BY DEF Init, SessionsOK
<1>3. GrantsRecorded /\ AtMostOneExecutor /\ SendPermittedOncePerAttempt
    BY DEF Init, GrantsRecorded, AtMostOneExecutor, SendPermittedOncePerAttempt
<1>4. AttemptsMatchCounter
    BY DEF Init, AttemptsMatchCounter
<1> QED BY <1>1, <1>2, <1>3, <1>4 DEF IInv

------------------------------------------------------------------------------
(* A handler only opens a transaction: it preserves IInv when what it loaded *)
(* is well formed.                                                           *)
LEMMA LoadIInv ==
    ASSUME IInv, NEW s \in Sessions, NEW t, Load(s, t),
           \/ t \in RunTransaction /\ RunTransactionOK(t)
           \/ t \in DeliveryTransaction /\ DeliveryTransactionOK(t)
    PROVE  IInv'
<1> USE DEF Load
<1>1. TypeOK'
    BY DEF IInv, TypeOK
<1>2. SessionsOK'
    <2> SUFFICES ASSUME NEW x \in Sessions, sess'[x] # None
                 PROVE  /\ sess'[x] \in RunTransaction => RunTransactionOK(sess[x])'
                        /\ sess'[x] \in DeliveryTransaction
                             => DeliveryTransactionOK(sess[x])'
        BY DEF SessionsOK
    <2>1. sess'[x] = t \/ sess'[x] = sess[x]
        BY DEF IInv, TypeOK
    <2>2. ~(t \in RunTransaction /\ t \in DeliveryTransaction)
        BY OperationKinds DEF RunOps, DeliveryOps
    <2>3. /\ sess'[x] \in RunTransaction => RunTransactionOK(sess'[x])
          /\ sess'[x] \in DeliveryTransaction => DeliveryTransactionOK(sess'[x])
        BY <2>1, <2>2 DEF IInv, SessionsOK
    <2> QED BY <2>3 DEF RunTransactionOK, DeliveryTransactionOK
<1>3. (GrantsRecorded /\ AtMostOneExecutor /\ SendPermittedOncePerAttempt
         /\ AttemptsMatchCounter)'
    BY DEF IInv, GrantsRecorded, AtMostOneExecutor, SendPermittedOncePerAttempt,
           AttemptsMatchCounter
<1> QED BY <1>1, <1>2, <1>3 DEF IInv

(* A claim of a run loads a well-formed transaction.                         *)
LEMMA ClaimRunIInv ==
    ASSUME IInv, NEW s \in Sessions, NEW k \in Keys, NEW r \in Runs,
           NEW input \in Inputs, NEW w \in Workers, claim_run(s, k, r, input, w)
    PROVE  IInv'
<1> DEFINE req == [op |-> "run.claim", run |-> r, input |-> input, worker |-> w]
           run == [input |-> input, worker |-> w, status |-> "claimed",
                   lease |-> now + LeaseSeconds, result |-> None]
           inserted == [key |-> k, req |-> req, should |-> TRUE,
                        old |-> None, new |-> run]
           found == [key |-> k, req |-> req, should |-> FALSE,
                     old |-> runs[r], new |-> runs[r]]
<1>1. req \in RunRequest
    BY DEF RunRequest, ClaimRunRequest
<1>2. CASE runs[r] = None
    <2>1. run \in OrchestrationJobRun
        BY BoundsAssumption DEF OrchestrationJobRun, RunStatuses, IInv, TypeOK
    <2>2. inserted \in RunTransaction /\ RunTransactionOK(inserted)
        BY <1>1, <2>1 DEF RunTransaction, RunTransactionOK
    <2>3. Load(s, inserted)
        BY <1>2 DEF claim_run
    <2> QED BY <2>2, <2>3, LoadIInv
<1>3. CASE runs[r] # None
    <2>1. runs[r] \in OrchestrationJobRun
        BY <1>3 DEF IInv, TypeOK
    <2>2. found \in RunTransaction /\ RunTransactionOK(found)
        BY <1>1, <1>3, <2>1 DEF RunTransaction, RunTransactionOK
    <2>3. Load(s, found)
        BY <1>3 DEF claim_run
    <2> QED BY <2>2, <2>3, LoadIInv
<1> QED BY <1>2, <1>3

(* A heartbeat loads a well-formed transaction.                              *)
LEMMA HeartbeatRunIInv ==
    ASSUME IInv, NEW s \in Sessions, NEW k \in Keys, NEW r \in Runs,
           NEW w \in Workers, heartbeat_run(s, k, r, w)
    PROVE  IInv'
<1> DEFINE req == [op |-> "run.heartbeat", run |-> r, worker |-> w]
           run == [runs[r] EXCEPT !.status = "running", !.lease = now + LeaseSeconds]
           t == [key |-> k, req |-> req, should |-> TRUE, old |-> runs[r], new |-> run]
<1>1. req \in RunRequest
    BY DEF RunRequest, HeartbeatRequest
<1>2. runs[r] # None /\ runs[r] \in OrchestrationJobRun
    BY DEF IInv, TypeOK, heartbeat_run
<1>3. now + LeaseSeconds \in Nat
    BY BoundsAssumption DEF IInv, TypeOK
<1>4. run \in OrchestrationJobRun
    BY <1>2, <1>3 DEF OrchestrationJobRun, RunStatuses
<1>5. t \in RunTransaction /\ RunTransactionOK(t)
    BY <1>1, <1>2, <1>4 DEF RunTransaction, RunTransactionOK
<1>6. Load(s, t)
    BY DEF heartbeat_run
<1> QED BY <1>5, <1>6, LoadIInv

(* A finish of a run loads a well-formed transaction.                        *)
LEMMA FinishRunIInv ==
    ASSUME IInv, NEW s \in Sessions, NEW k \in Keys, NEW r \in Runs,
           NEW w \in Workers, NEW status \in RunOutcomes,
           finish_run(s, k, r, w, status)
    PROVE  IInv'
<1> DEFINE req == [op |-> "run.finish", run |-> r, worker |-> w, status |-> status]
           run == [runs[r] EXCEPT !.status = status, !.result = req]
           T(new) == [key |-> k, req |-> req, should |-> FALSE,
                      old |-> runs[r], new |-> new]
<1>1. req \in FinishRunRequest /\ req \in RunRequest
    BY DEF RunRequest, FinishRunRequest
<1>2. runs[r] # None /\ runs[r] \in OrchestrationJobRun
    BY DEF IInv, TypeOK, finish_run
<1>3. status \in RunStatuses
    BY OutcomesAssumption DEF RunStatuses
<1>4. RunTransactionOK(T(run)) /\ RunTransactionOK(T(runs[r]))
    BY <1>2 DEF RunTransactionOK
<1> HIDE DEF req
<1>5. run \in OrchestrationJobRun
    BY <1>1, <1>2, <1>3 DEF OrchestrationJobRun
<1> HIDE DEF run
<1>6. T(run) \in RunTransaction /\ T(runs[r]) \in RunTransaction
    BY <1>1, <1>2, <1>5 DEF RunTransaction
<1>7. Load(s, T(run)) \/ Load(s, T(runs[r]))
    BY DEF finish_run, req, run
<1> HIDE DEF T
<1> QED BY <1>4, <1>6, <1>7, LoadIInv

(* The row that a granted claim of attempt n writes.                         *)
LEMMA SendingType ==
    ASSUME TypeOK, NEW r \in Runs, NEW content \in Contents, NEW w \in Workers,
           NEW n \in AttemptNumbers, NEW result \in FinishDeliveryRequest \cup {None}
    PROVE  /\ Sending(r, content, w, n, result) \in OrchestrationDeliveryIntent
           /\ Sending(r, content, w, n, result).count = n
<1>1. now + LeaseSeconds \in Nat
    BY BoundsAssumption DEF TypeOK
<1> QED BY <1>1 DEF Sending, OrchestrationDeliveryIntent, DeliveryStatuses

(* A claim of a delivery loads a well-formed transaction.                    *)
LEMMA ClaimDeliveryIInv ==
    ASSUME IInv, NEW s \in Sessions, NEW k \in Keys, NEW r \in Runs,
           NEW d \in Intents, NEW content \in Contents, NEW w \in Workers,
           NEW max \in AttemptLimits,
           claim_delivery(s, k, r, d, content, w, max)
    PROVE  IInv'
<1> DEFINE req == [op |-> "delivery.claim", run |-> r, intent |-> d,
                   content |-> content, worker |-> w, max_attempts |-> max]
           T(should, new, attempt) ==
               [key |-> k, req |-> req, should |-> should,
                old |-> intents[d], new |-> new, attempt |-> attempt]
           next == intents[d].count + 1
<1>1. req \in DeliveryRequest
    BY DEF DeliveryRequest, ClaimDeliveryRequest
<1>2. TypeOK
    BY DEF IInv
<1>3. max \in Nat /\ max <= MaxAttempts /\ MaxAttempts \in Nat \ {0}
    BY BoundsAssumption
<1>4. CASE intents[d] = None
    <2> DEFINE new == Sending(r, content, w, 1, None)
    <2>1. 1 \in AttemptNumbers
        BY <1>3 DEF AttemptNumbers
    <2>2. new \in OrchestrationDeliveryIntent /\ new.count = 1
        BY <2>1, <1>2, SendingType
    <2>3. Load(s, T(TRUE, new, 1))
        BY <1>4 DEF claim_delivery
    <2> HIDE DEF new
    <2>4. DeliveryTransactionOK(T(TRUE, new, 1))
        BY <1>4, <2>2 DEF DeliveryTransactionOK
    <2>5. T(TRUE, new, 1) \in DeliveryTransaction
        BY <1>1, <1>3, <1>4, <2>2 DEF DeliveryTransaction
    <2> QED BY <2>3, <2>4, <2>5, LoadIInv
<1>5. CASE intents[d] # None
    <2>1. intents[d] \in OrchestrationDeliveryIntent
        BY <1>2, <1>5 DEF TypeOK
    <2>2. intents[d].count \in AttemptNumbers /\ intents[d].count \in Nat
        BY <2>1, <1>3 DEF OrchestrationDeliveryIntent, AttemptNumbers
    <2>3. ASSUME NEW new, new \in OrchestrationDeliveryIntent,
                 new.count = intents[d].count,
                 Load(s, T(FALSE, new, 0)) \/ Load(s, T(FALSE, new, None))
          PROVE  IInv'
        <3>1. /\ DeliveryTransactionOK(T(FALSE, new, 0))
              /\ DeliveryTransactionOK(T(FALSE, new, None))
            BY <1>5, <2>2, <2>3, NoneAssumption DEF DeliveryTransactionOK, AttemptNumbers
        <3>2. T(FALSE, new, 0) \in DeliveryTransaction
            BY <1>1, <1>3, <2>1, <2>3 DEF DeliveryTransaction
        <3>3. T(FALSE, new, None) \in DeliveryTransaction
            BY <1>1, <2>1, <2>3 DEF DeliveryTransaction
        <3> QED BY <2>3, <3>1, <3>2, <3>3, LoadIInv
    <2>4. CASE Load(s, T(FALSE, intents[d], 0))
        BY <2>1, <2>3, <2>4
    <2>5. CASE Load(s, T(FALSE, [intents[d] EXCEPT !.status = "unknown"], None))
        <3>1. [intents[d] EXCEPT !.status = "unknown"] \in OrchestrationDeliveryIntent
            BY <2>1 DEF OrchestrationDeliveryIntent, DeliveryStatuses
        <3>2. [intents[d] EXCEPT !.status = "unknown"].count = intents[d].count
            BY <2>1 DEF OrchestrationDeliveryIntent
        <3> QED BY <2>3, <2>5, <3>1, <3>2
    <2>6. CASE Load(s, T(FALSE, [intents[d] EXCEPT !.status = "manual_review"], 0))
        <3>1. [intents[d] EXCEPT !.status = "manual_review"]
                 \in OrchestrationDeliveryIntent
            BY <2>1 DEF OrchestrationDeliveryIntent, DeliveryStatuses
        <3>2. [intents[d] EXCEPT !.status = "manual_review"].count = intents[d].count
            BY <2>1 DEF OrchestrationDeliveryIntent
        <3> QED BY <2>3, <2>6, <3>1, <3>2
    <2>7. CASE /\ ~AttemptLimitReached(intents[d], max)
               /\ Load(s, T(TRUE, Sending(r, content, w, next, intents[d].result), next))
        <3> DEFINE new == Sending(r, content, w, next, intents[d].result)
        <3>1. next \in AttemptNumbers /\ next \in 0..MaxAttempts
            BY <1>3, <2>2, <2>7 DEF AttemptLimitReached, AttemptNumbers
        <3>2. intents[d].result \in FinishDeliveryRequest \cup {None}
            BY <2>1 DEF OrchestrationDeliveryIntent
        <3>3. new \in OrchestrationDeliveryIntent /\ new.count = next
            BY <1>2, <3>1, <3>2, SendingType
        <3>4. Load(s, T(TRUE, new, next))
            BY <2>7
        <3> HIDE DEF new
        <3>5. DeliveryTransactionOK(T(TRUE, new, next))
            BY <1>5, <2>2, <3>3 DEF DeliveryTransactionOK
        <3>6. T(TRUE, new, next) \in DeliveryTransaction
            BY <1>1, <2>1, <3>1, <3>3 DEF DeliveryTransaction
        <3> QED BY <3>4, <3>5, <3>6, LoadIInv
    <2> QED BY <1>5, <2>4, <2>5, <2>6, <2>7 DEF claim_delivery
<1> QED BY <1>4, <1>5

(* Reading the open attempt completes a transaction with an existing row.    *)
LEMMA ReadOpenAttemptIInv ==
    ASSUME IInv, NEW s \in Sessions, read_open_attempt(s)
    PROVE  IInv'
<1> DEFINE n == get_open_delivery_attempt(sess[s].req.intent)
           t == [sess[s] EXCEPT !.attempt = n]
<1>1. sess[s] \in DeliveryTransaction
    BY OperationKinds DEF IInv, TypeOK, read_open_attempt, RunOps
<1>2. DeliveryTransactionOK(sess[s])
    BY <1>1 DEF IInv, SessionsOK, read_open_attempt
<1>3. sess[s].req.intent \in Intents
    BY <1>1, OperationKinds
<1>4. n = 0 \/ (n \in AttemptNumbers /\ attempts[sess[s].req.intent][n] # None)
    BY <1>3, OpenAttemptFound
<1>5. n \in 0..MaxAttempts
    BY <1>4, BoundsAssumption DEF AttemptNumbers
<1>6. ~sess[s].should
    <2>1. sess[s].new.count \in AttemptNumbers /\ sess[s].attempt = None
        BY <1>1 DEF DeliveryTransaction, OrchestrationDeliveryIntent, read_open_attempt
    <2> QED BY <2>1, <1>2, NoneAssumption DEF DeliveryTransactionOK, AttemptNumbers
<1>7. Load(s, t)
    BY DEF read_open_attempt
<1> HIDE DEF n
<1>8. t \in DeliveryTransaction
    BY <1>1, <1>5 DEF DeliveryTransaction
<1>9. DeliveryTransactionOK(t)
    <2>1. /\ t.req = sess[s].req /\ t.old = sess[s].old /\ t.new = sess[s].new
          /\ t.should = sess[s].should /\ t.attempt = n
        BY <1>1 DEF DeliveryTransaction
    <2> HIDE DEF t
    <2> QED BY <1>2, <1>4, <1>6, <2>1 DEF DeliveryTransactionOK, AttemptNumbers
<1> QED BY <1>7, <1>8, <1>9, LoadIInv

(* A finish of a delivery loads a well-formed transaction.                   *)
LEMMA FinishDeliveryIInv ==
    ASSUME IInv, NEW s \in Sessions, NEW k \in Keys, NEW d \in Intents,
           NEW w \in Workers, NEW outcome \in DeliveryOutcomes,
           finish_delivery(s, k, d, w, outcome)
    PROVE  IInv'
<1> DEFINE req == [op |-> "delivery.finish", intent |-> d, worker |-> w,
                   outcome |-> outcome]
           intent == [intents[d] EXCEPT !.status = outcome, !.result = req]
           T(new) == [key |-> k, req |-> req, should |-> FALSE,
                      old |-> intents[d], new |-> new, attempt |-> 0]
<1>1. req \in FinishDeliveryRequest /\ req \in DeliveryRequest
    BY DEF DeliveryRequest, FinishDeliveryRequest
<1>2. intents[d] # None /\ intents[d] \in OrchestrationDeliveryIntent
    BY DEF IInv, TypeOK, finish_delivery
<1>3. outcome \in DeliveryStatuses
    BY OutcomesAssumption
<1>4. intents[d].count \in Nat /\ intent.count = intents[d].count
    BY <1>2, BoundsAssumption DEF OrchestrationDeliveryIntent, AttemptNumbers
<1>5. ASSUME NEW new, new.count = intents[d].count
      PROVE  DeliveryTransactionOK(T(new))
    BY <1>2, <1>4, <1>5 DEF DeliveryTransactionOK, AttemptNumbers
<1>6. Load(s, T(intent)) \/ Load(s, T(intents[d]))
    BY DEF finish_delivery
<1> HIDE DEF req
<1>7. intent \in OrchestrationDeliveryIntent
    BY <1>1, <1>2, <1>3 DEF OrchestrationDeliveryIntent
<1> HIDE DEF intent
<1>8. DeliveryTransactionOK(T(intent)) /\ DeliveryTransactionOK(T(intents[d]))
    BY <1>4, <1>5
<1>9. T(intent) \in DeliveryTransaction /\ T(intents[d]) \in DeliveryTransaction
    BY <1>1, <1>2, <1>7, BoundsAssumption DEF DeliveryTransaction
<1> HIDE DEF T
<1> QED BY <1>6, <1>8, <1>9, LoadIInv

------------------------------------------------------------------------------
(* A commit of session s leaves what the other sessions know intact, since   *)
(* rows are never deleted and attempts_count never falls.                    *)
LEMMA OthersKeepSessionsOK ==
    ASSUME IInv, NEW s \in Sessions, Close(s),
           TypeOK',
           \A r \in Runs : runs[r] # None => runs'[r] # None,
           \A d \in Intents : intents[d] # None =>
               intents'[d] # None /\ intents[d].count <= intents'[d].count,
           \A d \in Intents, n \in AttemptNumbers :
               attempts[d][n] # None => attempts'[d][n] # None
    PROVE  SessionsOK'
<1> SUFFICES ASSUME NEW x \in Sessions, sess'[x] # None
             PROVE  /\ sess'[x] \in RunTransaction => RunTransactionOK(sess[x])'
                    /\ sess'[x] \in DeliveryTransaction => DeliveryTransactionOK(sess[x])'
    BY DEF SessionsOK
<1>1. sess'[x] = sess[x] /\ sess[x] # None
    BY DEF Close, IInv, TypeOK
<1>2. CASE sess[x] \in RunTransaction
    <2>1. RunTransactionOK(sess[x]) /\ sess[x].req.run \in Runs
        BY <1>1, <1>2, OperationKinds DEF IInv, SessionsOK
    <2>2. RunTransactionOK(sess[x])'
        BY <1>1, <2>1 DEF RunTransactionOK
    <2>3. sess[x] \notin DeliveryTransaction
        BY <1>2, OperationKinds DEF RunOps, DeliveryOps
    <2> QED BY <1>1, <2>2, <2>3
<1>3. CASE sess[x] \in DeliveryTransaction
    <2> DEFINE t == sess[x]
               d == t.req.intent
    <2>1. DeliveryTransactionOK(t) /\ d \in Intents
        BY <1>1, <1>3, OperationKinds DEF IInv, SessionsOK
    <2>2. t.old # None => /\ intents'[d] # None
                          /\ t.old.count <= intents'[d].count
        <3> SUFFICES ASSUME t.old # None
                     PROVE  intents'[d] # None /\ t.old.count <= intents'[d].count
            OBVIOUS
        <3>1. t.old \in OrchestrationDeliveryIntent
            BY <1>3 DEF DeliveryTransaction
        <3>2. intents[d] # None /\ t.old.count <= intents[d].count
            BY <2>1 DEF DeliveryTransactionOK
        <3>3. intents'[d] # None /\ intents[d].count <= intents'[d].count
            BY <2>1, <3>2
        <3>4. /\ intents[d] \in OrchestrationDeliveryIntent
              /\ intents'[d] \in OrchestrationDeliveryIntent
            BY <2>1, <3>2, <3>3 DEF IInv, TypeOK
        <3>5. t.old.count \in Nat /\ intents[d].count \in Nat /\ intents'[d].count \in Nat
            BY <3>1, <3>4 DEF OrchestrationDeliveryIntent, AttemptNumbers
        <3> QED BY <3>2, <3>3, <3>5
    <2>3. t.attempt \in AttemptNumbers /\ attempts[d][t.attempt] # None
             => attempts'[d][t.attempt] # None
        BY <2>1
    <2>4. DeliveryTransactionOK(sess[x])'
        BY <1>1, <2>1, <2>2, <2>3 DEF DeliveryTransactionOK
    <2>5. sess[x] \notin RunTransaction
        BY <1>3, OperationKinds DEF RunOps, DeliveryOps
    <2> QED BY <1>1, <2>4, <2>5
<1> QED BY <1>1, <1>2, <1>3 DEF IInv, TypeOK

(* The counter of every existing intent is a number.                         *)
LEMMA CountsAreNumbers ==
    ASSUME IInv
    PROVE  \A x \in Intents : intents[x] # None => intents[x].count \in Nat
<1> SUFFICES ASSUME NEW x \in Intents, intents[x] # None
             PROVE  intents[x].count \in Nat
    OBVIOUS
<1>1. intents[x] \in OrchestrationDeliveryIntent
    BY DEF IInv, TypeOK
<1>2. intents[x].count \in AttemptNumbers
    BY <1>1 DEF OrchestrationDeliveryIntent
<1> QED BY <1>2 DEF AttemptNumbers

(* The merge of columns keeps rows well typed.                               *)
LEMMA SaveRunType ==
    ASSUME NEW old \in OrchestrationJobRun, NEW new \in OrchestrationJobRun,
           NEW current \in OrchestrationJobRun
    PROVE  save_run(old, new, current) \in OrchestrationJobRun
BY DEF save_run, Column, OrchestrationJobRun

LEMMA SaveIntentType ==
    ASSUME NEW old \in OrchestrationDeliveryIntent,
           NEW new \in OrchestrationDeliveryIntent,
           NEW current \in OrchestrationDeliveryIntent
    PROVE  /\ save_delivery_intent(old, new, current) \in OrchestrationDeliveryIntent
           /\ save_delivery_intent(old, new, current).count =
                 IF new.count = old.count THEN current.count ELSE new.count
BY DEF save_delivery_intent, Column, OrchestrationDeliveryIntent

(* A history counter stays a number, and one bump from 0 gives 1.            *)
LEMMA BumpFacts == Bump(0) = 1 /\ \A n \in Nat : Bump(n) \in Nat
BY DEF Bump

(* Committing a run request preserves the invariant: a claim answered        *)
(* should_execute inserts the row, so no claim was answered so before.       *)
LEMMA CommitRunIInv ==
    ASSUME IInv, NEW s \in Sessions, commit_run(s)
    PROVE  IInv'
<1> DEFINE t == sess[s]
           r == t.req.run
<1>1. t # None /\ t.req.op \in RunOps
    BY DEF commit_run, RunOps
<1>2. t \in RunTransaction /\ t \notin DeliveryTransaction
    BY <1>1, OperationKinds DEF IInv, TypeOK, RunOps, DeliveryOps
<1>3. RunTransactionOK(t)
    BY <1>1, <1>2 DEF IInv, SessionsOK
<1>4. r \in Runs /\ t.key \in Keys /\ t.req \in RunRequest /\ t.should \in BOOLEAN
      /\ t.new \in OrchestrationJobRun
    BY <1>2, OperationKinds DEF RunTransaction
<1>5. /\ runs' \in [Runs -> OrchestrationJobRun \cup {None}]
      /\ runs'[r] \in OrchestrationJobRun
      /\ \A x \in Runs : runs[x] # None => runs'[x] # None
      /\ \A x \in Runs : x # r => runs'[x] = runs[x]
      /\ runs'[r] # None
      /\ t.should /\ t.req.op = "run.claim" => runs[r] = None
    <2>1. CASE t.old = None /\ runs[r] = None /\ runs' = [runs EXCEPT ![r] = t.new]
        BY <1>4, <2>1, NoneAssumption DEF IInv, TypeOK
    <2>2. CASE t.old # None /\ runs' = [runs EXCEPT ![r] = save_run(t.old, t.new, @)]
        <3>1. runs[r] # None /\ ~(t.should /\ t.req.op = "run.claim")
            BY <1>3, <2>2 DEF RunTransactionOK
        <3>2. t.old \in OrchestrationJobRun /\ runs[r] \in OrchestrationJobRun
            BY <1>2, <1>4, <2>2, <3>1 DEF RunTransaction, IInv, TypeOK
        <3>3. save_run(t.old, t.new, runs[r]) \in OrchestrationJobRun
            BY <1>4, <3>2, SaveRunType
        <3> QED BY <1>4, <2>2, <3>1, <3>3, NoneAssumption DEF IInv, TypeOK
    <2> QED BY <2>1, <2>2 DEF commit_run
<1>6. sess' = [sess EXCEPT ![s] = None] /\ UNCHANGED <<intents, attempts, now>>
    BY DEF commit_run, Close
<1>7. requests' = [requests EXCEPT ![t.key] =
                     [req |-> t.req, should |-> t.should, count |-> 0]]
    BY DEF commit_run, add_api_request
<1>8. /\ execGrants' = IF t.req.op = "run.claim" /\ t.should
                       THEN [execGrants EXCEPT ![r] = Bump(@)] ELSE execGrants
      /\ sendGrants' = sendGrants
    <2>1. t.req.op # "delivery.claim"
        BY <1>1 DEF RunOps
    <2> QED BY <2>1 DEF commit_run, Granted
<1>9. TypeOK'
    <2>1. [req |-> t.req, should |-> t.should, count |-> 0] \in OrchestrationApiRequest
        BY <1>4, BoundsAssumption DEF OrchestrationApiRequest
    <2>2. requests' \in [Keys -> OrchestrationApiRequest \cup {None}]
        BY <1>4, <1>7, <2>1 DEF IInv, TypeOK
    <2>3. execGrants' \in [Runs -> Nat]
        BY <1>4, <1>8, BumpFacts DEF IInv, TypeOK
    <2>4. sess' \in [Sessions -> RunTransaction \cup DeliveryTransaction \cup {None}]
        BY <1>6 DEF IInv, TypeOK
    <2> QED BY <1>5, <1>6, <1>8, <2>2, <2>3, <2>4 DEF IInv, TypeOK
<1>10. SessionsOK'
    <2>1. \A d \in Intents : intents[d] # None =>
              intents'[d] # None /\ intents[d].count <= intents'[d].count
        BY <1>6 DEF IInv, TypeOK, OrchestrationDeliveryIntent, AttemptNumbers
    <2> QED BY <1>5, <1>6, <1>9, <2>1, OthersKeepSessionsOK DEF Close
<1>11. AtMostOneExecutor'
    <2>1. t.should /\ t.req.op = "run.claim" => execGrants[r] = 0
        BY <1>4, <1>5 DEF IInv, GrantsRecorded
    <2>2. \A x \in Runs : execGrants'[x] = execGrants[x] \/ execGrants'[x] = 1
        BY <1>4, <1>8, <2>1, BumpFacts DEF IInv, TypeOK
    <2> QED BY <2>2 DEF IInv, AtMostOneExecutor
<1>12. GrantsRecorded'
    <2>1. \A x \in Runs : runs'[x] = None => runs[x] = None /\ x # r
        BY <1>5
    <2>2. \A x \in Runs : x # r => execGrants'[x] = execGrants[x]
        BY <1>4, <1>8 DEF IInv, TypeOK
    <2> QED BY <1>6, <1>8, <2>1, <2>2 DEF IInv, GrantsRecorded
<1>13. (SendPermittedOncePerAttempt /\ AttemptsMatchCounter)'
    BY <1>6, <1>8 DEF IInv, SendPermittedOncePerAttempt, AttemptsMatchCounter
<1> QED BY <1>9, <1>10, <1>11, <1>12, <1>13 DEF IInv

(* What both commits of a delivery request need: the attempt rows stay       *)
(* aligned with the counter when either nothing is counted, or exactly the   *)
(* next attempt is inserted together with its count.                         *)
LEMMA CommitDeliveryFacts ==
    ASSUME IInv, NEW s \in Sessions, sess[s] # None,
           sess[s].req.op \in DeliveryOps
    PROVE  LET t == sess[s]
               d == t.req.intent
           IN  /\ t \in DeliveryTransaction /\ t \notin RunTransaction
               /\ DeliveryTransactionOK(t)
               /\ d \in Intents /\ t.key \in Keys /\ t.req \in DeliveryRequest
               /\ t.should \in BOOLEAN
               /\ t.new \in OrchestrationDeliveryIntent
               /\ t.new.count \in AttemptNumbers
               /\ [req |-> t.req, should |-> t.should, count |-> t.new.count]
                     \in OrchestrationApiRequest
<1> DEFINE t == sess[s]
<1>1. t \in DeliveryTransaction /\ t \notin RunTransaction
    BY OperationKinds DEF IInv, TypeOK, RunOps, DeliveryOps
<1>2. DeliveryTransactionOK(t)
    BY <1>1 DEF IInv, SessionsOK
<1>3. t.req.intent \in Intents /\ t.req \in DeliveryRequest
    BY <1>1, OperationKinds
<1>4. t.key \in Keys /\ t.should \in BOOLEAN /\ t.new \in OrchestrationDeliveryIntent
    BY <1>1 DEF DeliveryTransaction
<1>5. t.new.count \in AttemptNumbers /\ t.new.count \in 0..MaxAttempts
    BY <1>4, BoundsAssumption DEF OrchestrationDeliveryIntent, AttemptNumbers
<1>6. [req |-> t.req, should |-> t.should, count |-> t.new.count]
          \in OrchestrationApiRequest
    BY <1>3, <1>4, <1>5 DEF OrchestrationApiRequest
<1> QED BY <1>1, <1>2, <1>3, <1>4, <1>5, <1>6

(* Updating a loaded intent row keeps its type and never lowers its count.   *)
LEMMA UpdateIntentFacts ==
    ASSUME IInv, NEW t \in DeliveryTransaction, NEW d \in Intents,
           d = t.req.intent, DeliveryTransactionOK(t), t.old # None, UpdateIntent(t, d)
    PROVE  /\ intents[d] \in OrchestrationDeliveryIntent
           /\ t.old.count \in Nat
           /\ t.old.count <= intents[d].count
           /\ intents' \in [Intents -> OrchestrationDeliveryIntent \cup {None}]
           /\ intents'[d] \in OrchestrationDeliveryIntent
           /\ \A x \in Intents : x # d => intents'[x] = intents[x]
           /\ intents'[d].count = IF t.new.count = t.old.count
                                  THEN intents[d].count ELSE t.new.count
<1>1. intents[d] # None /\ t.old.count <= intents[d].count
    BY DEF DeliveryTransactionOK
<1>2. /\ intents[d] \in OrchestrationDeliveryIntent
      /\ t.old \in OrchestrationDeliveryIntent
      /\ t.new \in OrchestrationDeliveryIntent
    BY <1>1 DEF IInv, TypeOK, DeliveryTransaction
<1>3. t.old.count \in Nat
    BY <1>2, BoundsAssumption DEF OrchestrationDeliveryIntent, AttemptNumbers
<1> DEFINE row == save_delivery_intent(t.old, t.new, intents[d])
<1>4. /\ row \in OrchestrationDeliveryIntent
      /\ row.count = IF t.new.count = t.old.count THEN intents[d].count ELSE t.new.count
    BY <1>2, SaveIntentType
<1>5. intents' = [intents EXCEPT ![d] = row]
    BY DEF UpdateIntent
<1> HIDE DEF row
<1> QED BY <1>1, <1>2, <1>3, <1>4, <1>5 DEF IInv, TypeOK

(* Committing a claim: a granted attempt n is inserted only when attempt n   *)
(* does not exist, hence n was never granted and the counter is n - 1.       *)
LEMMA CommitClaimDeliveryIInv ==
    ASSUME IInv, NEW s \in Sessions, commit_claim_delivery(s)
    PROVE  IInv'
<1> DEFINE t == sess[s]
           d == t.req.intent
           n == t.attempt
           row == [worker |-> t.req.worker, outcome |-> None]
<1>1. t # None /\ t.req.op = "delivery.claim" /\ n # None
    BY DEF commit_claim_delivery
<1>2. t \in DeliveryTransaction /\ DeliveryTransactionOK(t) /\ d \in Intents
      /\ t.new \in OrchestrationDeliveryIntent /\ t.new.count \in AttemptNumbers
      /\ t.key \in Keys /\ t.should \in BOOLEAN /\ t.req.worker \in Workers
    BY <1>1, CommitDeliveryFacts, OperationKinds DEF DeliveryOps
<1>3. /\ UNCHANGED <<runs, now>>
      /\ sess' = [sess EXCEPT ![s] = None]
      /\ execGrants' = execGrants
      /\ sendGrants' = IF t.should THEN [sendGrants EXCEPT ![d][t.new.count] = Bump(@)]
                       ELSE sendGrants
      /\ requests' = [requests EXCEPT ![t.key] =
             [req |-> t.req, should |-> t.should, count |-> t.new.count]]
    <2>1. t.req.op # "run.claim"
        BY <1>1
    <2> QED BY <1>1, <2>1 DEF commit_claim_delivery, Granted, Close, add_api_request
<1>4. n \in 0..MaxAttempts
    BY <1>1, <1>2 DEF DeliveryTransaction
<1>5. t.old = None => t.should
    BY <1>2 DEF DeliveryTransactionOK
<1>6. t.should => n = t.new.count /\ attempts[d][n] = None /\ n \in AttemptNumbers
    BY <1>2 DEF commit_claim_delivery, DeliveryTransactionOK
<1>7. \A m \in AttemptNumbers :
          attempts[d][m] # None <=> intents[d] # None /\ m <= intents[d].count
    BY <1>2 DEF IInv, AttemptsMatchCounter
<1>8. /\ intents' \in [Intents -> OrchestrationDeliveryIntent \cup {None}]
      /\ intents'[d] \in OrchestrationDeliveryIntent
      /\ \A x \in Intents : x # d => intents'[x] = intents[x]
      /\ t.should => /\ intents'[d].count = n
                     /\ intents[d] = None => n = 1
                     /\ intents[d] # None => intents[d].count = n - 1
      /\ ~t.should => intents[d] # None /\ intents'[d].count = intents[d].count
    <2>1. CASE t.old = None /\ intents[d] = None /\ intents' = [intents EXCEPT ![d] = t.new]
        <3>1. t.should /\ t.new.count = 1
            BY <1>2, <2>1, <1>5 DEF DeliveryTransactionOK
        <3> QED BY <1>2, <1>6, <2>1, <3>1 DEF IInv, TypeOK
    <2>2. CASE t.old # None /\ UpdateIntent(t, d)
        <3>1. /\ intents[d] \in OrchestrationDeliveryIntent
              /\ t.old.count \in Nat
              /\ t.old.count <= intents[d].count
              /\ intents' \in [Intents -> OrchestrationDeliveryIntent \cup {None}]
              /\ intents'[d] \in OrchestrationDeliveryIntent
              /\ \A x \in Intents : x # d => intents'[x] = intents[x]
              /\ intents'[d].count = IF t.new.count = t.old.count
                                     THEN intents[d].count ELSE t.new.count
            BY <1>2, <2>2, UpdateIntentFacts
        <3>2. intents[d] # None /\ intents[d].count \in Nat
            BY <3>1, NoneAssumption, BoundsAssumption
               DEF OrchestrationDeliveryIntent, AttemptNumbers
        <3>3. ~t.should => t.new.count = t.old.count
            BY <1>2 DEF DeliveryTransactionOK
        <3>4. t.should => t.new.count = t.old.count + 1
            BY <1>2, <2>2 DEF DeliveryTransactionOK
        <3>5. t.should => /\ intents'[d].count = n
                          /\ intents[d].count = n - 1
            BY <1>6, <1>7, <3>1, <3>2, <3>4
        <3> QED BY <3>1, <3>2, <3>3, <3>5
    <2> QED BY <2>1, <2>2 DEF commit_claim_delivery
<1>9. /\ attempts' \in [Intents ->
                          [AttemptNumbers -> OrchestrationDeliveryAttempt \cup {None}]]
      /\ \A x \in Intents, m \in AttemptNumbers :
             attempts'[x][m] # None <=>
                 attempts[x][m] # None \/ (t.should /\ x = d /\ m = n)
    <2>1. row \in OrchestrationDeliveryAttempt
        BY <1>2 DEF OrchestrationDeliveryAttempt
    <2>2. CASE t.should /\ attempts' = [attempts EXCEPT ![d][n] = row]
        BY <1>2, <1>6, <2>1, <2>2, NoneAssumption DEF IInv, TypeOK
    <2>3. CASE ~t.should /\ n # 0 /\ attempts' = [attempts EXCEPT ![d][n].outcome = "unknown"]
        <3>1. n \in AttemptNumbers
            BY <1>4, <2>3, BoundsAssumption DEF AttemptNumbers
        <3>2. attempts[d][n] # None
            BY <1>2, <2>3, <3>1 DEF DeliveryTransactionOK
        <3>3. attempts[d][n] \in OrchestrationDeliveryAttempt
            BY <1>2, <3>1, <3>2 DEF IInv, TypeOK
        <3>4. [attempts[d][n] EXCEPT !.outcome = "unknown"] \in OrchestrationDeliveryAttempt
            BY <3>3 DEF OrchestrationDeliveryAttempt, DeliveryStatuses
        <3>5. attempts' = [attempts EXCEPT ![d] = [attempts[d] EXCEPT ![n] =
                              [attempts[d][n] EXCEPT !.outcome = "unknown"]]]
            BY <1>2, <2>3, <3>1 DEF IInv, TypeOK
        <3> DEFINE closed == [attempts[d][n] EXCEPT !.outcome = "unknown"]
        <3> HIDE DEF closed
        <3>6. attempts' = [attempts EXCEPT ![d] = [attempts[d] EXCEPT ![n] = closed]]
            BY <3>5 DEF closed
        <3>7. closed \in OrchestrationDeliveryAttempt /\ closed # None
            BY <3>4, NoneAssumption DEF closed
        <3>8. attempts \in [Intents ->
                              [AttemptNumbers -> OrchestrationDeliveryAttempt \cup {None}]]
            BY DEF IInv, TypeOK
        <3>9. [attempts[d] EXCEPT ![n] = closed]
                 \in [AttemptNumbers -> OrchestrationDeliveryAttempt \cup {None}]
            BY <1>2, <3>1, <3>7, <3>8
        <3>10. attempts' \in [Intents ->
                               [AttemptNumbers -> OrchestrationDeliveryAttempt \cup {None}]]
            BY <1>2, <3>6, <3>8, <3>9
        <3>11. \A x \in Intents, m \in AttemptNumbers :
                   attempts'[x][m] = IF x = d /\ m = n THEN closed ELSE attempts[x][m]
            BY <1>2, <3>1, <3>6, <3>8
        <3>12. ~t.should
            BY <2>3
        <3> QED BY <3>2, <3>7, <3>10, <3>11, <3>12
    <2>4. CASE ~t.should /\ n = 0 /\ UNCHANGED attempts
        BY <2>4 DEF IInv, TypeOK
    <2> QED BY <2>2, <2>3, <2>4 DEF commit_claim_delivery
<1>10. TypeOK'
    <2>1. requests' \in [Keys -> OrchestrationApiRequest \cup {None}]
        BY <1>1, <1>3, CommitDeliveryFacts DEF IInv, TypeOK, DeliveryOps
    <2>2. sendGrants' \in [Intents -> [AttemptNumbers -> Nat]]
        BY <1>2, <1>3, BumpFacts DEF IInv, TypeOK
    <2>3. sess' \in [Sessions -> RunTransaction \cup DeliveryTransaction \cup {None}]
        BY <1>3 DEF IInv, TypeOK
    <2> QED BY <1>3, <1>8, <1>9, <2>1, <2>2, <2>3 DEF IInv, TypeOK
<1>11. \A x \in Intents : intents[x] # None =>
           intents'[x] # None /\ intents[x].count <= intents'[x].count
    <2>1. \A x \in Intents : intents[x] # None => intents[x].count \in Nat
        BY CountsAreNumbers
    <2>2. intents[d] # None =>
              intents'[d] # None /\ intents[d].count <= intents'[d].count
        BY <1>2, <1>4, <1>8, <2>1, BoundsAssumption, NoneAssumption
    <2> QED BY <1>8, <2>1, <2>2
<1>12. SessionsOK'
    BY <1>3, <1>9, <1>10, <1>11, OthersKeepSessionsOK DEF Close
<1>13. AttemptsMatchCounter'
    <2> SUFFICES ASSUME NEW x \in Intents, NEW m \in AttemptNumbers
                 PROVE  attempts'[x][m] # None <=>
                            intents'[x] # None /\ m <= intents'[x].count
        BY DEF AttemptsMatchCounter
    <2>1. CASE x # d
        BY <1>8, <1>9, <2>1 DEF IInv, AttemptsMatchCounter
    <2>2. CASE x = d /\ t.should
        <3>1. m \in Nat /\ m >= 1 /\ n \in Nat /\ intents'[d] # None
            BY <1>4, <1>8, NoneAssumption, BoundsAssumption DEF AttemptNumbers
        <3> QED BY <1>7, <1>8, <1>9, <2>2, <3>1
    <2>3. CASE x = d /\ ~t.should
        BY <1>7, <1>8, <1>9, <2>3, NoneAssumption
    <2> QED BY <1>2, <2>1, <2>2, <2>3
<1>14. \A x \in Intents, m \in AttemptNumbers :
           \/ sendGrants'[x][m] = sendGrants[x][m]
           \/ sendGrants'[x][m] = 1 /\ t.should /\ x = d /\ m = n
    <2>1. t.should => sendGrants[d][n] = 0
        BY <1>2, <1>6 DEF IInv, GrantsRecorded
    <2> QED BY <1>2, <1>3, <1>6, <2>1, BumpFacts DEF IInv, TypeOK
<1>15. SendPermittedOncePerAttempt'
    BY <1>14 DEF IInv, SendPermittedOncePerAttempt
<1>16. GrantsRecorded' /\ AtMostOneExecutor'
    BY <1>3, <1>9, <1>14 DEF IInv, GrantsRecorded, AtMostOneExecutor
<1> QED BY <1>10, <1>12, <1>13, <1>15, <1>16 DEF IInv

(* Committing a finish closes at most one existing attempt row and leaves    *)
(* the counter alone, however stale the loaded intent was.                   *)
LEMMA CommitFinishDeliveryIInv ==
    ASSUME IInv, NEW s \in Sessions, commit_finish_delivery(s)
    PROVE  IInv'
<1> DEFINE t == sess[s]
           d == t.req.intent
           n == get_open_delivery_attempt(d)
           closed == [attempts[d][n] EXCEPT !.outcome = t.req.outcome]
<1>1. t # None /\ t.req.op = "delivery.finish"
    BY DEF commit_finish_delivery
<1>2. t \in DeliveryTransaction /\ DeliveryTransactionOK(t) /\ d \in Intents
      /\ t.new \in OrchestrationDeliveryIntent /\ t.key \in Keys
    BY <1>1, CommitDeliveryFacts DEF DeliveryOps
<1>3. ~t.should /\ t.old # None /\ t.new.count = t.old.count
    BY <1>1, <1>2 DEF DeliveryTransactionOK
<1>4. t.req \in FinishDeliveryRequest /\ t.req.outcome \in DeliveryStatuses
    BY <1>1, <1>2, OutcomesAssumption
       DEF DeliveryTransaction, DeliveryRequest, ClaimDeliveryRequest, FinishDeliveryRequest
<1>5. /\ UNCHANGED <<runs, now>>
      /\ sess' = [sess EXCEPT ![s] = None]
      /\ UNCHANGED <<execGrants, sendGrants>>
      /\ requests' = [requests EXCEPT ![t.key] =
             [req |-> t.req, should |-> t.should, count |-> t.new.count]]
    BY <1>1, <1>3 DEF commit_finish_delivery, Granted, Close, add_api_request
<1>6. /\ intents' \in [Intents -> OrchestrationDeliveryIntent \cup {None}]
      /\ \A x \in Intents : intents'[x] # None <=> intents[x] # None
      /\ \A x \in Intents : intents[x] # None => intents'[x].count = intents[x].count
    <2>1. UpdateIntent(t, d)
        BY DEF commit_finish_delivery
    <2>2. /\ intents[d] \in OrchestrationDeliveryIntent
          /\ intents' \in [Intents -> OrchestrationDeliveryIntent \cup {None}]
          /\ intents'[d] \in OrchestrationDeliveryIntent
          /\ \A x \in Intents : x # d => intents'[x] = intents[x]
          /\ intents'[d].count = intents[d].count
        BY <1>2, <1>3, <2>1, UpdateIntentFacts
    <2> QED BY <2>2, NoneAssumption
<1>7. /\ attempts' \in [Intents ->
                          [AttemptNumbers -> OrchestrationDeliveryAttempt \cup {None}]]
      /\ \A x \in Intents, m \in AttemptNumbers :
             attempts'[x][m] # None <=> attempts[x][m] # None
    <2>1. attempts \in [Intents ->
                          [AttemptNumbers -> OrchestrationDeliveryAttempt \cup {None}]]
        BY DEF IInv, TypeOK
    <2>2. CASE UNCHANGED attempts
        BY <2>1, <2>2
    <2>3. CASE n # 0 /\ attempts' = [attempts EXCEPT ![d][n].outcome = t.req.outcome]
        <3>1. n \in AttemptNumbers /\ attempts[d][n] # None
            BY <1>2, <2>3, OpenAttemptFound
        <3>2. attempts[d][n] \in OrchestrationDeliveryAttempt
            BY <1>2, <2>1, <3>1
        <3>3. closed \in OrchestrationDeliveryAttempt /\ closed # None
            BY <1>4, <3>2, NoneAssumption DEF OrchestrationDeliveryAttempt
        <3> HIDE DEF n
        <3>4. attempts' = [attempts EXCEPT ![d] = [attempts[d] EXCEPT ![n] = closed]]
            BY <1>2, <2>1, <2>3, <3>1
        <3> HIDE DEF closed
        <3>5. [attempts[d] EXCEPT ![n] = closed]
                 \in [AttemptNumbers -> OrchestrationDeliveryAttempt \cup {None}]
            BY <1>2, <2>1, <3>1, <3>3
        <3>6. attempts' \in [Intents ->
                               [AttemptNumbers -> OrchestrationDeliveryAttempt \cup {None}]]
            BY <1>2, <2>1, <3>4, <3>5
        <3>7. \A x \in Intents, m \in AttemptNumbers :
                  attempts'[x][m] = IF x = d /\ m = n THEN closed ELSE attempts[x][m]
            BY <1>2, <2>1, <3>1, <3>4
        <3> QED BY <3>1, <3>3, <3>6, <3>7
    <2> QED BY <2>2, <2>3 DEF commit_finish_delivery
<1>8. TypeOK'
    <2>1. requests' \in [Keys -> OrchestrationApiRequest \cup {None}]
        BY <1>1, <1>5, CommitDeliveryFacts DEF IInv, TypeOK, DeliveryOps
    <2>2. sess' \in [Sessions -> RunTransaction \cup DeliveryTransaction \cup {None}]
        BY <1>5 DEF IInv, TypeOK
    <2> QED BY <1>5, <1>6, <1>7, <2>1, <2>2 DEF IInv, TypeOK
<1>9. SessionsOK'
    <2>1. \A x \in Intents : intents[x] # None => intents[x].count \in Nat
        BY CountsAreNumbers
    <2>2. \A x \in Intents : intents[x] # None =>
              intents'[x] # None /\ intents[x].count <= intents'[x].count
        BY <1>6, <2>1
    <2>3. \A r \in Runs : runs[r] # None => runs'[r] # None
        BY <1>5
    <2>4. Close(s)
        BY <1>5 DEF Close
    <2> QED BY <1>7, <1>8, <2>2, <2>3, <2>4, OthersKeepSessionsOK
<1>10. AttemptsMatchCounter'
    <2>1. \A x \in Intents, m \in AttemptNumbers :
              attempts[x][m] # None <=> intents[x] # None /\ m <= intents[x].count
        BY DEF IInv, AttemptsMatchCounter
    <2> QED BY <1>6, <1>7, <2>1 DEF AttemptsMatchCounter
<1>11. (GrantsRecorded /\ AtMostOneExecutor /\ SendPermittedOncePerAttempt)'
    BY <1>5, <1>7 DEF IInv, GrantsRecorded, AtMostOneExecutor, SendPermittedOncePerAttempt
<1> QED BY <1>8, <1>9, <1>10, <1>11 DEF IInv

(* A rolled-back session leaves no trace.                                    *)
LEMMA RollbackIInv ==
    ASSUME IInv, NEW s \in Sessions, rollback(s)
    PROVE  IInv'
<1>1. Close(s) /\ UNCHANGED <<requests, runs, intents, attempts, now, execGrants, sendGrants>>
    BY DEF rollback
<1>2. TypeOK'
    BY <1>1 DEF Close, IInv, TypeOK
<1>3. SessionsOK'
    <2>1. \A x \in Intents : intents[x] # None => intents[x].count \in Nat
        BY CountsAreNumbers
    <2> QED BY <1>1, <1>2, <2>1, OthersKeepSessionsOK
<1>4. (GrantsRecorded /\ AtMostOneExecutor /\ SendPermittedOncePerAttempt
         /\ AttemptsMatchCounter)'
    BY <1>1 DEF IInv, GrantsRecorded, AtMostOneExecutor, SendPermittedOncePerAttempt,
                AttemptsMatchCounter
<1> QED BY <1>2, <1>3, <1>4 DEF IInv

(* Steps that touch neither a table, a session nor a counter keep IInv.      *)
LEMMA QuietIInv ==
    ASSUME IInv, now' \in Nat,
           UNCHANGED <<requests, runs, intents, attempts, sess, execGrants, sendGrants>>
    PROVE  IInv'
<1>1. TypeOK'
    BY DEF IInv, TypeOK
<1>2. SessionsOK'
    BY DEF IInv, SessionsOK, RunTransactionOK, DeliveryTransactionOK
<1>3. (GrantsRecorded /\ AtMostOneExecutor /\ SendPermittedOncePerAttempt
         /\ AttemptsMatchCounter)'
    BY DEF IInv, GrantsRecorded, AtMostOneExecutor, SendPermittedOncePerAttempt,
           AttemptsMatchCounter
<1> QED BY <1>1, <1>2, <1>3 DEF IInv

------------------------------------------------------------------------------
(* The invariant is inductive, one step per action.                          *)
LEMMA NextIInv == IInv /\ [Next]_vars => IInv'
<1> SUFFICES ASSUME IInv, [Next]_vars PROVE IInv'
    OBVIOUS
<1>1. CASE \E s \in Sessions, k \in Keys : RunHandler(s, k)
    BY <1>1, ClaimRunIInv, HeartbeatRunIInv, FinishRunIInv DEF RunHandler
<1>2. CASE \E s \in Sessions, k \in Keys : DeliveryHandler(s, k)
    BY <1>2, ClaimDeliveryIInv, FinishDeliveryIInv DEF DeliveryHandler
<1>3. CASE \E s \in Sessions : read_open_attempt(s)
    BY <1>3, ReadOpenAttemptIInv
<1>4. CASE \E s \in Sessions : commit_run(s)
    BY <1>4, CommitRunIInv
<1>5. CASE \E s \in Sessions : commit_claim_delivery(s)
    BY <1>5, CommitClaimDeliveryIInv
<1>6. CASE \E s \in Sessions : commit_finish_delivery(s)
    BY <1>6, CommitFinishDeliveryIInv
<1>7. CASE \E s \in Sessions : rollback(s)
    BY <1>7, RollbackIInv
<1>8. CASE \E k \in Keys, req \in RunRequest \cup DeliveryRequest :
               idempotent_replay(k, req)
    <2>1. UNCHANGED <<requests, runs, intents, attempts, sess, now, execGrants, sendGrants>>
        BY <1>8 DEF idempotent_replay, ReplayedShould, Granted
    <2>2. now' \in Nat
        BY <2>1 DEF IInv, TypeOK
    <2> QED BY <2>1, <2>2, QuietIInv
<1>9. CASE Tick
    <2>1. now' \in Nat
        BY <1>9 DEF Tick, IInv, TypeOK
    <2> QED BY <1>9, <2>1, QuietIInv DEF Tick
<1>10. CASE UNCHANGED vars
    <2>1. now' \in Nat
        BY <1>10 DEF vars, IInv, TypeOK
    <2> QED BY <1>10, <2>1, QuietIInv DEF vars
<1> QED BY <1>1, <1>2, <1>3, <1>4, <1>5, <1>6, <1>7, <1>8, <1>9, <1>10 DEF Next

LEMMA InvariantIInv == Spec => []IInv
<1>1. Init => IInv
    BY InitIInv
<1>2. IInv /\ [Next]_vars => IInv'
    BY NextIInv
<1> QED BY <1>1, <1>2, PTL DEF Spec

(* Tables, open transactions and answers keep their types.                   *)
THEOREM TypeCorrect == Spec => []TypeOK
<1>1. IInv => TypeOK
    BY DEF IInv
<1> QED BY <1>1, InvariantIInv, PTL

(* For any number of workers, keys and concurrent sessions, at most one claim *)
(* of a (job_id, run_key) is answered should_execute = true.                 *)
THEOREM SingleExecutor == Spec => []AtMostOneExecutor
<1>1. IInv => AtMostOneExecutor
    BY DEF IInv
<1> QED BY <1>1, InvariantIInv, PTL

(* No attempt of a delivery is granted to two claims.                        *)
THEOREM SingleSender == Spec => []SendPermittedOncePerAttempt
<1>1. IInv => SendPermittedOncePerAttempt
    BY DEF IInv
<1> QED BY <1>1, InvariantIInv, PTL

(* The attempt rows of a delivery are always exactly 1..attempts_count.      *)
THEOREM AttemptsAreCounted == Spec => []AttemptsMatchCounter
<1>1. IInv => AttemptsMatchCounter
    BY DEF IInv
<1> QED BY <1>1, InvariantIInv, PTL

=============================================================================
