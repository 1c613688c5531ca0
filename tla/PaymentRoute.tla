---------------------------- MODULE PaymentRoute ----------------------------
(***************************************************************************)
(* The paid-service route (control-plane/routes/x402-service.ts) for one   *)
(* payment identifier: every POST that carries a PAYMENT-SIGNATURE with    *)
(* that identifier is a process of its own, and each of its awaited D1     *)
(* statements, facilitator calls and executor calls is one step, so that   *)
(* requests interleave between any two of them and a Worker may die after  *)
(* any of them.  Shared state is what D1 keeps (the payment_attempts row,  *)
(* the job, the x402_service_results row) and what the settlement chain    *)
(* knows; everything else is local to a request.                           *)
(***************************************************************************)
EXTENDS Naturals, PaymentLifecycle

CONSTANTS
  Requests,    \* POSTs that may be in flight at once
  Bindings,    \* the immutable bindings a buyer may present
  NoRequest,   \* "no request": a null author, body or transaction reference
  NoBinding,   \* "no payment_attempts row yet"
  Rail,        \* "cdp" or "nevermined"
  Upto,        \* config.scheme = 'upto': the usage check may refuse
  Checker,     \* the read-only reconciliation client or receipt checker is set
  MayLapse,    \* the quote and the attempt may outlive their TTL
  CrashAt,     \* the steps at which a Worker may die or a D1 call may throw
  Faults,      \* "stage", "job": writes whose reported failure the route sees
  MaxTries     \* bound on cdp_facilitator_settle_attempt_count at a retry

ASSUME RailAssumption == Rail \in {"cdp", "nevermined"}
ASSUME FlagAssumption == Upto \in BOOLEAN /\ Checker \in BOOLEAN
ASSUME BoundAssumption == MaxTries \in Nat
ASSUME NullAssumption == NoRequest \notin Requests /\ NoBinding \notin Bindings

VARIABLES
  stage,     \* payment_attempts.lifecycle_stage, "none" before the row exists
  bound,     \* the binding the row was acquired with
  consumed,  \* consumed_at IS NOT NULL
  kind,      \* settlement_outcome_kind
  txRef,     \* settlement_transaction_reference: whose settle call it names
  tries,     \* cdp_facilitator_settle_attempt_count
  wins,      \* cdp_successful_economic_settlement_count
  job,       \* jobs.current_state, "none" before the job exists
  result,    \* the x402_service_results row: none, draft or final
  author,    \* the request whose response body a final row holds
  call,      \* the settle call of each request, as the facilitator has it
  charges,   \* how many of them moved the buyer's money
  runs,      \* how often the paid service was executed
  lapsed,    \* the quote or the attempt has expired
  req,       \* the binding each request carries
  pc,        \* the next step of each request
  resp,      \* the answer each request got
  body,      \* the body of a 200: the request that composed it
  seen,      \* what a recovery read from the row and the job
  ev         \* the settlement evidence a request holds

attempt == <<stage, bound, consumed, kind, txRef, tries, wins>>
store   == <<job, result, author>>
world   == <<call, charges, runs, lapsed>>
local   == <<req, seen, ev>>
flow    == <<pc, resp, body>>
vars    == <<attempt, store, world, local, flow>>

Refs  == Requests \cup {NoRequest}
Kinds == {"none", "explicit_rejection", "ambiguous"}

NotSeen    == [stage |-> "none", kind |-> "none", tx |-> NoRequest, job |-> "none"]
NoEvidence == [kind |-> "none", tx |-> NoRequest]

-----------------------------------------------------------------------------
(* The steps of a request, in the order the handler takes them. *)

\* Transitions of the job with nothing to decide: state written, next step.
JobWrites ==
  [toValidated  |-> [to |-> "VALIDATED",          then |-> "toQuoted"],
   toQuoted     |-> [to |-> "QUOTED",             then |-> "toChallenged"],
   toChallenged |-> [to |-> "PAYMENT_CHALLENGED", then |-> "verify"],
   toVerified   |-> [to |-> "PAYMENT_VERIFIED",   then |-> "stageVerified"],
   toLocked     |-> [to |-> "LOCKED",             then |-> "toRouted"],
   toRouted     |-> [to |-> "ROUTED",             then |-> "toExecuting"],
   toExecuting  |-> [to |-> "EXECUTING",          then |-> "execute"],
   toQuarantine |-> [to |-> "QUARANTINED",        then |-> "toRejected"],
   toVerifying  |-> [to |-> "VERIFYING",          then |-> "stageExecuted"],
   toSettling   |-> [to |-> "SETTLING",           then |-> "createPending"]]

FirstSeenSteps ==
  DOMAIN JobWrites \cup
  {"createJob", "verify", "toUnpaid", "stageUnpaid", "stageVerified",
   "execute", "toRejected", "stageExecuted", "createPending", "recordPending",
   "callSettle", "awaitSettle", "toRefund", "recordFailure", "recordSettled",
   "finalize", "linkVerified", "settled", "consume", "toDelivered"}

RecoverySteps ==
  {"readAttempt", "readJob", "reconcile", "chainCheck", "countTry",
   "callRetry", "awaitRetry", "recordRetryFailure", "recoverSettled",
   "rLinkVerified", "rSettled", "rConsume", "rCountWin", "rDeliver",
   "rFinalize"}

ReplaySteps == {"readConsumed", "reconstructJob", "reconstructResult"}

Working == {"acquire"} \cup FirstSeenSteps \cup RecoverySteps \cup ReplaySteps
Steps   == {"idle", "done"} \cup Working

\* HTTP answers: 200, 202, 402 expired, 402 rejected, 409 conflict,
\* 409 consumed-but-missing, 503 manual, 5xx or no answer.
Answers ==
  {"none", "ok", "processing", "expired", "rejected", "conflict", "missing",
   "manual", "error"}

Goto(r, p) ==
  /\ pc' = [pc EXCEPT ![r] = p]
  /\ UNCHANGED <<resp, body>>

Finish(r, answer) ==
  /\ pc' = [pc EXCEPT ![r] = "done"]
  /\ resp' = [resp EXCEPT ![r] = answer]
  /\ UNCHANGED body

Serve(r, b) ==
  /\ pc' = [pc EXCEPT ![r] = "done"]
  /\ resp' = [resp EXCEPT ![r] = "ok"]
  /\ body' = [body EXCEPT ![r] = b]

-----------------------------------------------------------------------------
(* The D1 statements the route is made of. *)

\* An UPDATE of payment_attempts that matched the row or did not; a failing
\* one is caught and reported like one that did not match.
Outcomes(matches) ==
  IF ~matches THEN {FALSE}
  ELSE IF "stage" \in Faults THEN BOOLEAN ELSE {TRUE}

\* transitionLifecycleStage: legal edge, then compare-and-set.
TransitionOutcomes(from, to) ==
  Outcomes(<<from, to>> \in LifecycleTransitions /\ stage = from)

\* recordSettledExternal: compare-and-set from a stage the caller names.
SettledOutcomes(from) == Outcomes(stage = from)

StageUnless(applied, to) == stage' = IF applied THEN to ELSE stage

\* The job half of transition(): an UPDATE by id alone, its outcome unused.
WriteJob(to) == job' \in IF "job" \in Faults THEN {job, to} ELSE {to}

-----------------------------------------------------------------------------
(* Arrival and classification. *)

\* A POST with a valid signature arrives.  Its clock is read once: once the
\* quote or the row has expired it is refused, here or by the duplicate check,
\* and writes nothing.
Arrive(r, b) ==
  /\ pc[r] = "idle"
  /\ req' = [req EXCEPT ![r] = b]
  /\ IF lapsed THEN Finish(r, "expired") ELSE Goto(r, "acquire")
  /\ UNCHANGED <<attempt, store, world, seen, ev>>

\* acquirePaymentAttempt on an identifier nobody holds: the INSERT wins.
FirstSeen(r) ==
  /\ pc[r] = "acquire"
  /\ stage = "none"
  /\ stage' = "acquired"
  /\ bound' = req[r]
  /\ Goto(r, "createJob")
  /\ UNCHANGED <<consumed, kind, txRef, tries, wins, store, world, local>>

\* Mutant: the route trusts already_consumed without comparing bindings.
DuplicateUnbound(r) ==
  /\ pc[r] = "acquire"
  /\ stage # "none"
  /\ IF consumed THEN Goto(r, "readConsumed")
     ELSE IF req[r] # bound THEN Finish(r, "conflict")
     ELSE Goto(r, "readAttempt")
  /\ UNCHANGED <<attempt, store, world, local>>

\* The INSERT hits the unique index: the stored row decides.  The consumed
\* flag is looked at before the binding, and the route compares the binding
\* of a consumed row itself.
Duplicate(r) ==
  /\ pc[r] = "acquire"
  /\ stage # "none"
  /\ IF req[r] # bound THEN Finish(r, "conflict")
     ELSE Goto(r, IF consumed THEN "readConsumed" ELSE "readAttempt")
  /\ UNCHANGED <<attempt, store, world, local>>

-----------------------------------------------------------------------------
(* The first request: job, verification, execution. *)

CreateJob(r) ==
  /\ pc[r] = "createJob"
  /\ job' = "RECEIVED"
  /\ Goto(r, "toValidated")
  /\ UNCHANGED <<attempt, result, author, world, local>>

AdvanceJob(r) ==
  /\ pc[r] \in DOMAIN JobWrites
  /\ WriteJob(JobWrites[pc[r]].to)
  /\ Goto(r, JobWrites[pc[r]].then)
  /\ UNCHANGED <<attempt, result, author, world, local>>

\* The facilitator verifies the authorization; nothing is charged.
Verify(r) ==
  /\ pc[r] = "verify"
  /\ \E accepted \in BOOLEAN : Goto(r, IF accepted THEN "toVerified" ELSE "toUnpaid")
  /\ UNCHANGED <<attempt, store, world, local>>

RejectUnpaid(r) ==
  /\ pc[r] = "toUnpaid"
  /\ WriteJob("REJECTED")
  /\ Goto(r, "stageUnpaid")
  /\ UNCHANGED <<attempt, result, author, world, local>>

StageUnpaid(r) ==
  /\ pc[r] = "stageUnpaid"
  /\ \E applied \in TransitionOutcomes("acquired", "verification_failed") :
       StageUnless(applied, "verification_failed")
  /\ Finish(r, "rejected")
  /\ UNCHANGED <<bound, consumed, kind, txRef, tries, wins, store, world, local>>

StageVerified(r) ==
  /\ pc[r] = "stageVerified"
  /\ \E applied \in TransitionOutcomes("acquired", "verified") :
       StageUnless(applied, "verified")
  /\ Goto(r, "toLocked")
  /\ UNCHANGED <<bound, consumed, kind, txRef, tries, wins, store, world, local>>

\* The paid service runs: success with a receipt, or a failure or throw.
Execute(r) ==
  /\ pc[r] = "execute"
  /\ runs' = runs + 1
  /\ \E success \in BOOLEAN : Goto(r, IF success THEN "toVerifying" ELSE "toQuarantine")
  /\ UNCHANGED <<attempt, store, call, charges, lapsed, local>>

RejectJob(r) ==
  /\ pc[r] = "toRejected"
  /\ WriteJob("REJECTED")
  /\ Finish(r, "error")
  /\ UNCHANGED <<attempt, result, author, world, local>>

\* verified -> executed, its outcome unused; then, for upto, the usage check.
StageExecuted(r) ==
  /\ pc[r] = "stageExecuted"
  /\ \E applied \in TransitionOutcomes("verified", "executed") :
       StageUnless(applied, "executed")
  /\ \E within \in IF Upto THEN BOOLEAN ELSE {TRUE} :
       Goto(r, IF within THEN "toSettling" ELSE "toRejected")
  /\ UNCHANGED <<bound, consumed, kind, txRef, tries, wins, store, world, local>>

-----------------------------------------------------------------------------
(* The first request: settlement. *)

\* Mutant: no durable draft before the settle call.
CreatePendingSkipped(r) ==
  /\ pc[r] = "createPending"
  /\ Goto(r, "recordPending")
  /\ UNCHANGED <<attempt, store, world, local>>

\* results.createPending: the draft a recovery rebuilds the response from.
CreatePending(r) ==
  /\ pc[r] = "createPending"
  /\ result' = "draft"
  /\ Goto(r, "recordPending")
  /\ UNCHANGED <<attempt, job, author, world, local>>

\* Mutant: the settle call does not wait for the write to be confirmed.
RecordPendingUnchecked(r) ==
  /\ pc[r] = "recordPending"
  /\ \E applied \in Outcomes(stage = "executed") :
       StageUnless(applied, "settlement_pending")
  /\ Goto(r, "callSettle")
  /\ UNCHANGED <<bound, consumed, kind, txRef, tries, wins, store, world, local>>

\* recordSettlementPending: no settle call unless this write committed.
RecordPending(r) ==
  /\ pc[r] = "recordPending"
  /\ \E applied \in Outcomes(stage = "executed") :
       /\ StageUnless(applied, "settlement_pending")
       /\ IF applied THEN Goto(r, "callSettle") ELSE Finish(r, "error")
  /\ UNCHANGED <<bound, consumed, kind, txRef, tries, wins, store, world, local>>

\* evidenceProvider.settle() leaves the Worker.
CallSettle(r) ==
  /\ pc[r] \in {"callSettle", "callRetry"}
  /\ call' = [call EXCEPT ![r] = "live"]
  /\ Goto(r, IF pc[r] = "callSettle" THEN "awaitSettle" ELSE "awaitRetry")
  /\ UNCHANGED <<attempt, store, charges, runs, lapsed, local>>

\* External: a live call moves the buyer's money, with or without its caller
\* still there, and whatever other calls did: a call settles the payload of
\* its own POST, and the binding holds no nonce, signature or payload hash, so
\* a replay may carry an authorization of its own.  The call of one that
\* carries a spent authorization is among those that Drop.
Land(r) ==
  /\ call[r] = "live"
  /\ call' = [call EXCEPT ![r] = "landed"]
  /\ charges' = charges + 1
  /\ UNCHANGED <<attempt, store, runs, lapsed, local, flow>>

\* External: a live call is refused or lost and will never move money.
Drop(r) ==
  /\ call[r] = "live"
  /\ call' = [call EXCEPT ![r] = "dropped"]
  /\ UNCHANGED <<attempt, store, charges, runs, lapsed, local, flow>>

\* What settle() may return: success evidence of a payment that is on chain,
\* an explicit refusal of this call, or nothing the gate accepts (a timeout,
\* a malformed answer), with or without a transaction reference.
Evidence(r) ==
       {e \in [kind : {"ok"}, tx : {r}] : charges > 0 /\ call[r] # "live"}
  \cup {e \in [kind : {"explicit"}, tx : {r, NoRequest}] : call[r] = "dropped"}
  \cup [kind : {"ambiguous"}, tx : {r, NoRequest}]

SettleAnswer(r) ==
  /\ pc[r] = "awaitSettle"
  /\ \E e \in Evidence(r) :
       /\ ev' = [ev EXCEPT ![r] = e]
       /\ Goto(r, IF e.kind = "ok" THEN "recordSettled" ELSE "toRefund")
  /\ UNCHANGED <<attempt, store, world, req, seen>>

RefundJob(r) ==
  /\ pc[r] = "toRefund"
  /\ WriteJob("REFUND_REQUIRED")
  /\ Goto(r, "recordFailure")
  /\ UNCHANGED <<attempt, result, author, world, local>>

\* Nevermined: only an explicit refusal leaves settlement_pending.
NeverminedFailure(r) ==
  /\ pc[r] = "recordFailure"
  /\ Rail = "nevermined"
  /\ IF ev[r].kind = "explicit"
     THEN \E applied \in TransitionOutcomes("settlement_pending", "settlement_failed") :
            StageUnless(applied, "settlement_failed")
     ELSE UNCHANGED stage
  /\ Finish(r, "rejected")
  /\ UNCHANGED <<bound, consumed, kind, txRef, tries, wins, store, world, local>>

\* Mutant: the UPDATE without AND lifecycle_stage = ?.
CdpOutcomeAnyStage(r, from) ==
  /\ stage' = "settlement_failed"
  /\ kind' = IF ev[r].kind = "explicit" THEN "explicit_rejection" ELSE "ambiguous"
  /\ txRef' = IF ev[r].tx = NoRequest THEN txRef ELSE ev[r].tx
  /\ tries' = tries + 1

\* recordCdpSettlementOutcome, from the stage its caller names: the kind, the
\* COALESCEd transaction reference and the attempt counter in one statement.
CdpOutcome(r, from) ==
  \E applied \in Outcomes(stage = from) :
    IF applied
    THEN /\ stage' = "settlement_failed"
         /\ kind' = IF ev[r].kind = "explicit" THEN "explicit_rejection" ELSE "ambiguous"
         /\ txRef' = IF ev[r].tx = NoRequest THEN txRef ELSE ev[r].tx
         /\ tries' = tries + 1
    ELSE UNCHANGED <<stage, kind, txRef, tries>>

CdpFailure(r) ==
  /\ pc[r] = "recordFailure"
  /\ Rail = "cdp"
  /\ CdpOutcome(r, "settlement_pending")
  /\ Finish(r, "rejected")
  /\ UNCHANGED <<bound, consumed, wins, store, world, local>>

-----------------------------------------------------------------------------
(* The first request: finalization. *)

\* Mutant: the outcome of recordSettledExternal is not looked at.
RecordSettledAnyway(r) ==
  /\ pc[r] = "recordSettled"
  /\ \E applied \in SettledOutcomes("settlement_pending") :
       /\ StageUnless(applied, "settled_external")
       /\ txRef' = IF applied THEN ev[r].tx ELSE txRef
  /\ Goto(r, "finalize")
  /\ UNCHANGED <<bound, consumed, kind, tries, wins, store, world, local>>

\* Only the request whose write moves the row to settled_external goes on.
RecordSettled(r) ==
  /\ pc[r] = "recordSettled"
  /\ \E applied \in SettledOutcomes("settlement_pending") :
       /\ StageUnless(applied, "settled_external")
       /\ txRef' = IF applied THEN ev[r].tx ELSE txRef
       /\ IF applied THEN Goto(r, "finalize") ELSE Finish(r, "error")
  /\ UNCHANGED <<bound, consumed, kind, tries, wins, store, world, local>>

\* results.finalize overwrites the draft with the response of this request.
StoreResult(r) ==
  /\ result' = "final"
  /\ author' = r

Finalize(r) ==
  /\ pc[r] = "finalize"
  /\ StoreResult(r)
  /\ Goto(r, "linkVerified")
  /\ UNCHANGED <<attempt, job, world, local>>

LinkVerified(r) ==
  /\ pc[r] = "linkVerified"
  /\ \E applied \in TransitionOutcomes("settled_external", "link_verified") :
       /\ StageUnless(applied, "link_verified")
       /\ IF applied THEN Goto(r, "settled") ELSE Finish(r, "error")
  /\ UNCHANGED <<bound, consumed, kind, txRef, tries, wins, store, world, local>>

\* Mutant: markConsumed is forgotten.
SettledUnconsumed(r) ==
  /\ pc[r] = "settled"
  /\ \E applied \in TransitionOutcomes("link_verified", "settled") :
       /\ StageUnless(applied, "settled")
       /\ IF applied THEN Goto(r, "toDelivered") ELSE Finish(r, "error")
  /\ UNCHANGED <<bound, consumed, kind, txRef, tries, wins, store, world, local>>

Settled(r) ==
  /\ pc[r] = "settled"
  /\ \E applied \in TransitionOutcomes("link_verified", "settled") :
       /\ StageUnless(applied, "settled")
       /\ IF applied THEN Goto(r, "consume") ELSE Finish(r, "error")
  /\ UNCHANGED <<bound, consumed, kind, txRef, tries, wins, store, world, local>>

Consume(r) ==
  /\ pc[r] = "consume"
  /\ consumed' = TRUE
  /\ Goto(r, "toDelivered")
  /\ UNCHANGED <<stage, bound, kind, txRef, tries, wins, store, world, local>>

Deliver(r) ==
  /\ pc[r] = "toDelivered"
  /\ WriteJob("DELIVERED")
  /\ Serve(r, r)
  /\ UNCHANGED <<attempt, result, author, world, local>>

-----------------------------------------------------------------------------
(* A duplicate of an unconsumed identifier: recovery. *)

\* Mutant: the recovery of a crash between the two writes is missing.
RecoverableFailedOnly == stage = "settlement_failed"

\* getSettlementRecoveryRecord: Nevermined recovers from settlement_pending
\* and settlement_failed, CDP from settlement_failed alone.
Recoverable ==
  IF Rail = "nevermined"
  THEN Checker /\ stage \in {"settlement_pending", "settlement_failed"}
  ELSE stage = "settlement_failed"

ReadAttempt(r) ==
  /\ pc[r] = "readAttempt"
  /\ IF Recoverable
     THEN /\ seen' = [seen EXCEPT ![r] =
                        [stage |-> stage, kind |-> kind, tx |-> txRef, job |-> "none"]]
          /\ Goto(r, "readJob")
     ELSE Goto(r, "reconstructJob") /\ UNCHANGED seen
  /\ UNCHANGED <<attempt, store, world, req, ev>>

\* The job and its draft; on the CDP rail the outcome kind decides: explicit
\* is answered 402 again, ambiguous goes to the receipt checker when there is
\* a reference to check, otherwise to one more settle call.
ReadJob(r) ==
  /\ pc[r] = "readJob"
  /\ seen' = [seen EXCEPT ![r].job = job]
  /\ IF job = "none" \/ result # "draft" THEN Goto(r, "reconstructJob")
     ELSE IF Rail = "nevermined" THEN Goto(r, "reconcile")
     ELSE IF seen[r].kind = "explicit_rejection" THEN Finish(r, "rejected")
     ELSE IF seen[r].kind = "none" THEN Goto(r, "reconstructJob")
     ELSE Goto(r, IF Checker /\ seen[r].tx # NoRequest THEN "chainCheck" ELSE "countTry")
  /\ UNCHANGED <<attempt, store, world, req, ev>>

\* reconcileNeverminedSettlementForRecovery finds exactly one transaction of
\* the delegation, and it succeeded.
ReconcileSettled(r) ==
  /\ pc[r] = "reconcile"
  /\ charges = 1
  /\ \E t \in Requests :
       call[t] = "landed" /\ ev' = [ev EXCEPT ![r] = [kind |-> "ok", tx |-> t]]
  /\ Goto(r, "recoverSettled")
  /\ UNCHANGED <<attempt, store, world, req, seen>>

\* Mutant: NOT_SETTLED is taken as leave to settle again.
ReconcileOpenRetries(r) ==
  /\ pc[r] = "reconcile"
  /\ Goto(r, "callSettle")
  /\ UNCHANGED <<attempt, store, world, local>>

\* NOT_SETTLED or AMBIGUOUS: nothing changes, nothing is retried.
ReconcileOpen(r) ==
  /\ pc[r] = "reconcile"
  /\ Goto(r, "reconstructJob")
  /\ UNCHANGED <<attempt, store, world, local>>

\* Mutant: a transaction without a receipt yet counts as settled.
ChainCheckTrusting(r) ==
  /\ pc[r] = "chainCheck"
  /\ call[seen[r].tx] # "dropped"
  /\ ev' = [ev EXCEPT ![r] = [kind |-> "ok", tx |-> seen[r].tx]]
  /\ Goto(r, "recoverSettled")
  /\ UNCHANGED <<attempt, store, world, req, seen>>

\* cdpChainReceiptChecker on the reference read from the row.
ChainCheck(r) ==
  /\ pc[r] = "chainCheck"
  /\ \/ /\ call[seen[r].tx] = "landed"
        /\ ev' = [ev EXCEPT ![r] = [kind |-> "ok", tx |-> seen[r].tx]]
        /\ Goto(r, "recoverSettled")
     \/ /\ call[seen[r].tx] = "dropped"
        /\ ev' = [ev EXCEPT ![r] = [kind |-> "explicit", tx |-> seen[r].tx]]
        /\ Goto(r, "recordRetryFailure")
     \/ /\ Goto(r, "countTry")
        /\ UNCHANGED ev
  /\ UNCHANGED <<attempt, store, world, req, seen>>

\* incrementCdpSettleAttemptCount, before the call it counts.
CountTry(r) ==
  /\ pc[r] = "countTry"
  /\ tries < MaxTries
  /\ tries' = tries + 1
  /\ Goto(r, "callRetry")
  /\ UNCHANGED <<stage, bound, consumed, kind, txRef, wins, store, world, local>>

\* The retry's answer: an ambiguous one is recorded only with a reference.
RetryAnswer(r) ==
  /\ pc[r] = "awaitRetry"
  /\ \E e \in Evidence(r) :
       /\ ev' = [ev EXCEPT ![r] = e]
       /\ IF e.kind = "ok" THEN Goto(r, "recoverSettled")
          ELSE IF e.kind = "ambiguous" /\ e.tx = NoRequest THEN Finish(r, "manual")
          ELSE Goto(r, "recordRetryFailure")
  /\ UNCHANGED <<attempt, store, world, req, seen>>

RecordRetryFailure(r) ==
  /\ pc[r] = "recordRetryFailure"
  /\ CdpOutcome(r, "settlement_failed")
  /\ Finish(r, IF ev[r].kind = "explicit" THEN "rejected" ELSE "manual")
  /\ UNCHANGED <<bound, consumed, wins, store, world, local>>

\* Mutant: a recovery that lost the race goes on.
RecoverSettledAnyway(r) ==
  /\ pc[r] = "recoverSettled"
  /\ \E applied \in SettledOutcomes(seen[r].stage) :
       /\ StageUnless(applied, "settled_external")
       /\ txRef' = IF applied THEN ev[r].tx ELSE txRef
  /\ Goto(r, "rLinkVerified")
  /\ UNCHANGED <<bound, consumed, kind, tries, wins, store, world, local>>

\* Compare-and-set from the stage this request itself observed: of several
\* recoveries, and of a recovery and the first request, one goes on.
RecoverSettled(r) ==
  /\ pc[r] = "recoverSettled"
  /\ \E applied \in SettledOutcomes(seen[r].stage) :
       /\ StageUnless(applied, "settled_external")
       /\ txRef' = IF applied THEN ev[r].tx ELSE txRef
       /\ Goto(r, IF applied THEN "rLinkVerified" ELSE "reconstructJob")
  /\ UNCHANGED <<bound, consumed, kind, tries, wins, store, world, local>>

\* Mutant: the recovery stops at link_verified.
RecoverLinkVerifiedLast(r) ==
  /\ pc[r] = "rLinkVerified"
  /\ \E applied \in TransitionOutcomes("settled_external", "link_verified") :
       StageUnless(applied, "link_verified")
  /\ Goto(r, "rConsume")
  /\ UNCHANGED <<bound, consumed, kind, txRef, tries, wins, store, world, local>>

\* The two stage writes of a recovery: their outcomes are not looked at.
RecoverLinkVerified(r) ==
  /\ pc[r] = "rLinkVerified"
  /\ \E applied \in TransitionOutcomes("settled_external", "link_verified") :
       StageUnless(applied, "link_verified")
  /\ Goto(r, "rSettled")
  /\ UNCHANGED <<bound, consumed, kind, txRef, tries, wins, store, world, local>>

RecoverStageSettled(r) ==
  /\ pc[r] = "rSettled"
  /\ \E applied \in TransitionOutcomes("link_verified", "settled") :
       StageUnless(applied, "settled")
  /\ Goto(r, "rConsume")
  /\ UNCHANGED <<bound, consumed, kind, txRef, tries, wins, store, world, local>>

RecoverConsume(r) ==
  /\ pc[r] = "rConsume"
  /\ consumed' = TRUE
  /\ Goto(r, IF Rail = "cdp" THEN "rCountWin" ELSE "rDeliver")
  /\ UNCHANGED <<stage, bound, kind, txRef, tries, wins, store, world, local>>

CountWin(r) ==
  /\ pc[r] = "rCountWin"
  /\ wins' = wins + 1
  /\ Goto(r, "rDeliver")
  /\ UNCHANGED <<stage, bound, consumed, kind, txRef, tries, store, world, local>>

\* Mutant: the recovery delivers the job whatever state it is in.
RecoverDeliverAlways(r) ==
  /\ pc[r] = "rDeliver"
  /\ WriteJob("DELIVERED")
  /\ Goto(r, "rFinalize")
  /\ UNCHANGED <<attempt, result, author, world, local>>

\* The job is delivered if it was SETTLING when this recovery read it.
RecoverDeliver(r) ==
  /\ pc[r] = "rDeliver"
  /\ IF seen[r].job = "SETTLING" THEN WriteJob("DELIVERED") ELSE UNCHANGED job
  /\ Goto(r, "rFinalize")
  /\ UNCHANGED <<attempt, result, author, world, local>>

RecoverFinalize(r) ==
  /\ pc[r] = "rFinalize"
  /\ StoreResult(r)
  /\ Serve(r, r)
  /\ UNCHANGED <<attempt, job, world, local>>

-----------------------------------------------------------------------------
(* Replays: reconstructFromJob. *)

\* already_consumed: whatever the job says, a final result is returned.
ReplayConsumed(r) ==
  /\ pc[r] = "readConsumed"
  /\ IF result = "final" THEN Serve(r, author) ELSE Finish(r, "missing")
  /\ UNCHANGED <<attempt, store, world, local>>

\* duplicate_same, nothing to recover: only a delivered job is replayed.
ReconstructJob(r) ==
  /\ pc[r] = "reconstructJob"
  /\ IF job = "DELIVERED" THEN Goto(r, "reconstructResult") ELSE Finish(r, "processing")
  /\ UNCHANGED <<attempt, store, world, local>>

ReconstructResult(r) ==
  /\ pc[r] = "reconstructResult"
  /\ IF result = "final" THEN Serve(r, author) ELSE Finish(r, "processing")
  /\ UNCHANGED <<attempt, store, world, local>>

-----------------------------------------------------------------------------
(* The world around the route. *)

\* The Worker is evicted or a D1 statement throws: the request ends with a
\* 5xx or no answer, and what it wrote and what it sent stay.
Crash(r) ==
  /\ pc[r] \in CrashAt
  /\ Finish(r, "error")
  /\ UNCHANGED <<attempt, store, world, local>>

\* A finished request that sent no settle call is reused for another POST.
Again(r) ==
  /\ pc[r] = "done"
  /\ call[r] = "none"
  /\ pc' = [pc EXCEPT ![r] = "idle"]
  /\ resp' = [resp EXCEPT ![r] = "none"]
  /\ body' = [body EXCEPT ![r] = NoRequest]
  /\ req' = [req EXCEPT ![r] = NoBinding]
  /\ seen' = [seen EXCEPT ![r] = NotSeen]
  /\ ev' = [ev EXCEPT ![r] = NoEvidence]
  /\ UNCHANGED <<attempt, store, world>>

\* quote.expires_at, or the attempt's expires_at, passes.
Lapse ==
  /\ MayLapse
  /\ ~lapsed
  /\ lapsed' = TRUE
  /\ UNCHANGED <<attempt, store, call, charges, runs, local, flow>>

-----------------------------------------------------------------------------
(* The specification. *)

Init ==
  /\ stage = "none" /\ bound = NoBinding /\ consumed = FALSE
  /\ kind = "none" /\ txRef = NoRequest /\ tries = 0 /\ wins = 0
  /\ job = "none" /\ result = "none" /\ author = NoRequest
  /\ call = [r \in Requests |-> "none"] /\ charges = 0 /\ runs = 0
  /\ lapsed = FALSE
  /\ req = [r \in Requests |-> NoBinding]
  /\ seen = [r \in Requests |-> NotSeen]
  /\ ev = [r \in Requests |-> NoEvidence]
  /\ pc = [r \in Requests |-> "idle"]
  /\ resp = [r \in Requests |-> "none"]
  /\ body = [r \in Requests |-> NoRequest]

Prepare(r) ==
  \/ FirstSeen(r) \/ Duplicate(r)
  \/ CreateJob(r) \/ AdvanceJob(r) \/ Verify(r) \/ RejectUnpaid(r)
  \/ StageUnpaid(r) \/ StageVerified(r) \/ Execute(r) \/ RejectJob(r)
  \/ StageExecuted(r) \/ CreatePending(r) \/ RecordPending(r)

Settle(r) ==
  \/ CallSettle(r) \/ SettleAnswer(r) \/ RefundJob(r)
  \/ NeverminedFailure(r) \/ CdpFailure(r)
  \/ RecordSettled(r) \/ Finalize(r) \/ LinkVerified(r) \/ Settled(r)
  \/ Consume(r) \/ Deliver(r)

Recover(r) ==
  \/ ReadAttempt(r) \/ ReadJob(r) \/ ReconcileSettled(r) \/ ReconcileOpen(r)
  \/ ChainCheck(r) \/ CountTry(r) \/ RetryAnswer(r) \/ RecordRetryFailure(r)
  \/ RecoverSettled(r) \/ RecoverLinkVerified(r) \/ RecoverStageSettled(r)
  \/ RecoverConsume(r) \/ CountWin(r) \/ RecoverDeliver(r)
  \/ RecoverFinalize(r)

Replay(r) == ReplayConsumed(r) \/ ReconstructJob(r) \/ ReconstructResult(r)

Handle(r) == Prepare(r) \/ Settle(r) \/ Recover(r) \/ Replay(r)

Next ==
  \/ \E r \in Requests :
       \/ \E b \in Bindings : Arrive(r, b)
       \/ Handle(r)
       \/ Land(r) \/ Drop(r)
       \/ Crash(r) \/ Again(r)
  \/ Lapse

Spec == Init /\ [][Next]_vars

(* A Worker that is not killed runs its handler to the end, and settle()   *)
(* returns within its timeout, so every step of Handle is weakly fair; the *)
(* buyer goes on sending the request.  A recovery may be killed, or the    *)
(* read-only reconciliation may fail, any number of times, but not at the  *)
(* same step of every retry: those steps are strongly fair.                *)
Fairness ==
  \A r \in Requests :
    /\ WF_vars(Handle(r))
    /\ WF_vars(Again(r))
    /\ \A b \in Bindings : WF_vars(Arrive(r, b))
    /\ SF_vars(ReadAttempt(r))
    /\ SF_vars(ReadJob(r))
    /\ SF_vars(ReconcileSettled(r))
    /\ SF_vars(RecoverSettled(r))

FairSpec == Spec /\ Fairness

-----------------------------------------------------------------------------
(* Properties. *)

TypeOK ==
  /\ stage \in Stages \cup {"none"}
  /\ bound \in Bindings \cup {NoBinding}
  /\ consumed \in BOOLEAN
  /\ kind \in Kinds
  /\ txRef \in Refs
  /\ tries \in Nat
  /\ wins \in Nat
  /\ job \in JobStates \cup {"none"}
  /\ result \in {"none", "draft", "final"}
  /\ author \in Refs
  /\ call \in [Requests -> {"none", "live", "landed", "dropped"}]
  /\ charges \in Nat
  /\ runs \in Nat
  /\ lapsed \in BOOLEAN
  /\ req \in [Requests -> Bindings \cup {NoBinding}]
  /\ pc \in [Requests -> Steps]
  /\ resp \in [Requests -> Answers]
  /\ body \in [Requests -> Refs]
  /\ seen \in [Requests -> [stage : Stages \cup {"none"}, kind : Kinds,
                            tx : Refs, job : JobStates \cup {"none"}]]
  /\ ev \in [Requests -> [kind : {"none", "ok", "explicit", "ambiguous"},
                          tx : Refs]]

\* One payment identifier costs the buyer one charge, however its requests
\* interleave, crash and are replayed: on the Nevermined rail always, by the
\* unique insert and the compare-and-set of recordSettlementPending; on the
\* CDP rail until the row says that a settle call failed, after which each
\* replay may settle again with the authorization it brings.
ChargedAtMostOnce == charges > 1 => Rail = "cdp" /\ kind # "none"

\* Money moves only for a service that was run once and whose output is
\* already in D1, in a row a later request can rebuild the response from.
PaidHasResult ==
  charges > 0 => /\ runs = 1
                 /\ result # "none"
                 /\ stage \notin {"none", "acquired", "verified", "executed"}

\* Every 200 answers a request with the binding the identifier was acquired
\* with, is paid for on chain, and carries the one body that is stored: the
\* original response, the recovered one and every replay agree.
ServedIsPaidAndFinal ==
  \A r \in Requests :
    resp[r] = "ok" =>
      /\ charges > 0
      /\ req[r] = bound
      /\ result = "final"
      /\ body[r] = author

\* A stored final result is never overwritten, by a second recovery or by the
\* first request finishing late.
FinalResultStays ==
  [][result = "final" => result' = "final" /\ author' = author]_<<result, author>>

\* The stage takes only edges of PAYMENT_LIFECYCLE_TRANSITIONS, although the
\* three statements that record settlement outcomes never consult the table.
StageMovesLegally ==
  [][stage = "none" \/ <<stage, stage'>> \in LifecycleTransitions]_stage

\* The job takes only edges of AllowedTransitions, although the UPDATE that
\* writes it matches the job's id alone.
JobMovesLegally ==
  [][job = "none" \/ <<job, job'>> \in AllowedTransitions]_job

\* An identifier is consumed only when its payment went all the way: charged,
\* and the stage at its last value.
ConsumedIsSettled == consumed => stage = "settled" /\ charges > 0

\* A job is delivered only under a consumed identifier, so a replay that is
\* not allowed to settle can never meet a delivered job with an open payment.
DeliveredIsConsumed == job = "DELIVERED" => consumed

\* The CDP accounting of recovered settlements: at most one, and only of a
\* consumed identifier.
WinsCountOnce == wins <= 1 /\ (wins = 1 => consumed)

\* A buyer who was charged and keeps sending the request is answered 200,
\* although the first request may die at any step between its settle call and
\* the record of its outcome.
PaidIsServed == charges > 0 ~> \E r \in Requests : resp[r] = "ok"

\* The route implements PaymentPromise: one charge, unless a failed settlement
\* is on record, then one outcome, then that outcome in every 200.
Promise == INSTANCE PaymentPromise
             WITH Retries <- Rail = "cdp", Failures <- Kinds \ {"none"},
                  charged <- charges, failure <- kind, outcome <- author,
                  answers <- body

KeepsPromise == Promise!Spec

(* What comments and documents of the repository say and the code does not *)
(* do.                                                                     *)

\* types/index.ts: DELIVERED and TOMBSTONED are terminal.
TerminalJobStays == [][job \notin TerminalStates]_job

\* x402-service.ts: the payment remains unconsumed until its link is durably
\* stored, in the row every replay is answered from.
ConsumedIsStored == consumed => result = "final"

\* x402-service.ts: explicit_rejection is permanently terminal.
ExplicitStays ==
  [][kind = "explicit_rejection" => kind' = kind /\ stage' = stage]_<<kind, stage>>

\* A settle call that moved the money is not left in settlement_pending: the
\* durable write before it makes a crash after it recoverable, on both rails.
PendingIsResolved ==
  stage = "settlement_pending" /\ charges > 0 ~> stage # "settlement_pending"

=============================================================================
