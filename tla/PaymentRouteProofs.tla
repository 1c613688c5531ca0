------------------------- MODULE PaymentRouteProofs -------------------------
(***************************************************************************)
(* What the inductive invariant of PaymentRoute is for: one charge unless  *)
(* the CDP rail settles again, no 200 that is not paid for, one result,    *)
(* and the refinement of PaymentPromise.                                   *)
(* Then the accounts of a payment identifier: a service that was paid for  *)
(* was run once and its output kept, a delivered job is consumed, a        *)
(* recovered settlement is counted once, and, as long as the stage writes  *)
(* report their outcome, a consumed identifier is settled.  Accounts is    *)
(* inductive relative to IndInv, whose phases it refines.  Last, the moves *)
(* of the two state machines: the stage takes only the edges of its table, *)
(* and so does the job on the CDP rail.                                    *)
(***************************************************************************)
EXTENDS PaymentRouteInduction

\* However many requests with the identifier are in flight, wherever they die
\* and whatever the rail answers, the buyer is charged at most once, until a
\* failed settlement is on record, which on Nevermined never is.
THEOREM ChargedOnce == Spec => []ChargedAtMostOnce
<1>1. IndInv => ChargedAtMostOnce
  BY RailAssumption
  DEF IndInv, TypeOK, OneCallUnlessFailed, ChargesAreLanded, ChargedAtMostOnce
<1> QED
  BY <1>1, Invariance, PTL

\* Every 200 is for the binding of the row, paid for, and carries the one
\* stored body.
THEOREM ServedOnlyPaid == Spec => []ServedIsPaidAndFinal
<1>1. IndInv => ServedIsPaidAndFinal
  BY DEF IndInv
<1> QED
  BY <1>1, Invariance, PTL

-----------------------------------------------------------------------------
(* Refinement. *)

\* Steps that neither charge, nor record a failure, nor store, nor serve.
LEMMA SilentStep ==
  ASSUME NEW r \in Requests, Handle(r),
         ~ Finalize(r), ~ Deliver(r), ~ RecoverFinalize(r),
         ~ ReplayConsumed(r), ~ ReconstructResult(r),
         ~ CdpFailure(r), ~ RecordRetryFailure(r)
  PROVE  UNCHANGED <<charges, kind, author, body>>
<1> USE DEF attempt, store, world, local, Goto, Finish
<1>1. CASE Prepare(r)
  BY <1>1
  DEF Prepare, FirstSeen, Duplicate, CreateJob, AdvanceJob, Verify,
      RejectUnpaid, StageUnpaid, StageVerified, Execute, RejectJob,
      StageExecuted, CreatePending, RecordPending
<1>2. CASE Settle(r)
  BY <1>2
  DEF Settle, CallSettle, SettleAnswer, RefundJob, NeverminedFailure,
      RecordSettled, LinkVerified, Settled, Consume
<1>3. CASE Recover(r)
  BY <1>3
  DEF Recover, ReadAttempt, ReadJob, ReconcileSettled, ReconcileOpen,
      ChainCheck, CountTry, RetryAnswer, RecoverSettled,
      RecoverLinkVerified, RecoverStageSettled, RecoverConsume, CountWin,
      RecoverDeliver
<1>4. CASE Replay(r)
  BY <1>4 DEF Replay, ReconstructJob
<1> QED
  BY <1>1, <1>2, <1>3, <1>4 DEF Handle

\* Every step of the route is a step of PaymentPromise or is invisible to it.
LEMMA PromiseStep ==
  IndInv /\ [Next]_vars => [Promise!Next]_<<charges, kind, author, body>>
<1> SUFFICES ASSUME IndInv, [Next]_vars
             PROVE  [Promise!Next]_<<charges, kind, author, body>>
  OBVIOUS
<1> USE DEF attempt, store, world, local, flow, IndInv, TypeOK
<1>1. ASSUME NEW r \in Requests, Finalize(r)
      PROVE  Promise!Fulfil(r)
  <2>1. result # "final" /\ stage \in SettledStages
    BY <1>1 DEF Finalize, OneFinalizer, FinishSteps
  <2> QED
    BY <1>1, <2>1
    DEF Finalize, StoreResult, Goto, Promise!Fulfil, OneFinalizer,
        SettledIsCharged
<1>2. ASSUME NEW r \in Requests, RecoverFinalize(r)
      PROVE  Promise!Fulfil(r)
  <2>1. result # "final" /\ stage \in SettledStages
    BY <1>2 DEF RecoverFinalize, OneFinalizer, ConvergeSteps
  <2> QED
    BY <1>2, <2>1
    DEF RecoverFinalize, StoreResult, Serve, Promise!Fulfil, OneFinalizer,
        SettledIsCharged
<1>3. ASSUME NEW r \in Requests, Deliver(r)
      PROVE  Promise!Answer(r)
  <2>1. result = "final" /\ author = r
    BY <1>3 DEF Deliver, OneFinalizer, FinishSteps
  <2> QED
    BY <1>3, <2>1, NullAssumption DEF Deliver, Serve, Promise!Answer
<1>4. ASSUME NEW r \in Requests, ReplayConsumed(r) \/ ReconstructResult(r)
      PROVE  Promise!Answer(r) \/ UNCHANGED <<charges, kind, author, body>>
  <2>1. CASE result = "final"
    BY <1>4, <2>1, NullAssumption
    DEF ReplayConsumed, ReconstructResult, Serve, Promise!Answer, OneFinalizer
  <2>2. CASE result # "final"
    BY <1>4, <2>2 DEF ReplayConsumed, ReconstructResult, Finish
  <2> QED
    BY <2>1, <2>2
<1>11. ASSUME NEW r \in Requests, CdpFailure(r) \/ RecordRetryFailure(r)
       PROVE  Promise!Fail \/ UNCHANGED <<charges, kind, author, body>>
  <2>1. Rail = "cdp"
    BY <1>11, RailAssumption
    DEF CdpFailure, RecordRetryFailure, OneCallUnlessFailed, CdpSteps, RetrySteps
  <2>2. UNCHANGED <<charges, author, body>>
    BY <1>11 DEF CdpFailure, RecordRetryFailure, Finish
  <2>3. \/ kind' = kind
        \/ stage \in OpenStages /\ kind' \in Kinds \ {"none"}
    BY <1>11
    DEF CdpFailure, RecordRetryFailure, CdpOutcome, Outcomes, OpenStages, Kinds
  <2>4. stage \in OpenStages => author = NoRequest
    BY DEF OneFinalizer, OpenStages, SettledStages
  <2> QED
    BY <2>1, <2>2, <2>3, <2>4 DEF Promise!Fail
<1>5. ASSUME NEW r \in Requests, Handle(r)
      PROVE  [Promise!Next]_<<charges, kind, author, body>>
  BY <1>1, <1>2, <1>3, <1>4, <1>5, <1>11, SilentStep DEF Promise!Next
<1>6. ASSUME NEW r \in Requests, NEW b \in Bindings, Arrive(r, b)
      PROVE  UNCHANGED <<charges, kind, author, body>>
  BY <1>6 DEF Arrive, Goto, Finish
<1>7. ASSUME NEW r \in Requests, Land(r)
      PROVE  Promise!Charge
  <2>1. charges = 0 \/ kind # "none"
    BY <1>7 DEF Land, OneCallUnlessFailed, ChargesAreLanded
  <2> QED
    BY <1>7, <2>1 DEF Land, Promise!Charge
<1>8. ASSUME NEW r \in Requests, Drop(r) \/ Crash(r)
      PROVE  UNCHANGED <<charges, kind, author, body>>
  BY <1>8 DEF Drop, Crash, Finish
<1>9. ASSUME NEW r \in Requests, Again(r)
      PROVE  Promise!Forget(r)
  BY <1>9 DEF Again, Promise!Forget
<1>10. CASE Lapse \/ UNCHANGED vars
  BY <1>10 DEF Lapse, vars
<1> QED
  BY <1>5, <1>6, <1>7, <1>8, <1>9, <1>10 DEF Next, Promise!Next

\* The route implements PaymentPromise, for every number of requests: one
\* charge, unless a failed settlement is on record, then one stored outcome,
\* then that outcome in every 200.
THEOREM Refinement == Spec => KeepsPromise
<1>1. Init => Promise!Init
  BY DEF Init, Promise!Init
<1>2. IndInv /\ [Next]_vars => [Promise!Next]_<<charges, kind, author, body>>
  BY PromiseStep
<1> QED
  BY <1>1, <1>2, Invariance, PTL
  DEF Spec, KeepsPromise, Promise!Spec, Promise!promise

\* A stored final result is never overwritten, by a second recovery or by the
\* first request finishing late.
THEOREM ResultStays == Spec => FinalResultStays
<1> DEFINE Stays == result = "final" => result' = "final" /\ author' = author
<1>1. IndInv /\ IndInv' /\ [Next]_vars => [Stays]_<<result, author>>
  <2> SUFFICES ASSUME IndInv, IndInv', [Next]_vars, result = "final"
               PROVE  result' = "final" /\ author' = author
    OBVIOUS
  <2>1. author # NoRequest
    BY NullAssumption DEF IndInv, OneFinalizer
  <2>2. author' = author
    BY <2>1, PromiseStep
    DEF Promise!Next, Promise!Charge, Promise!Fail, Promise!Fulfil,
        Promise!Answer, Promise!Forget, IndInv, OneFinalizer
  <2> QED
    BY <2>1, <2>2 DEF IndInv, OneFinalizer
<1> QED
  BY <1>1, Invariance, PTL DEF Spec, FinalResultStays

-----------------------------------------------------------------------------
(* The accounts.                                                           *)

\* The first request before it has run the service, and after.
BeforeRun ==
  {"createJob", "toValidated", "toQuoted", "toChallenged", "verify", "toUnpaid",
   "stageUnpaid", "toVerified", "stageVerified", "toLocked", "toRouted",
   "toExecuting", "execute"}
AfterRun == FirstSeenSteps \ BeforeRun

UnrunStages == {"none", "acquired", "verified", "verification_failed"}

\* The service runs once: the first request runs it, and nothing is executed
\* in the row that was not.
RanOnce ==
  /\ runs \in {0, 1}
  /\ stage = "none" => runs = 0
  /\ stage \notin UnrunStages => runs = 1
  /\ \A r \in Requests :
       /\ pc[r] \in BeforeRun => runs = 0
       /\ pc[r] \in AfterRun => runs = 1

\* The output is stored before the row says that it may be settled.
Drafted ==
  /\ stage \notin EarlyStages => result # "none"
  /\ \A r \in Requests :
       pc[r] \in {"recordPending"} \cup SettleSteps \cup FinishSteps => result # "none"

\* Whoever delivers the job has consumed the identifier.
ConsumedFirst ==
  /\ job = "DELIVERED" => consumed
  /\ \A r \in Requests :
       pc[r] \in {"toDelivered", "rCountWin", "rDeliver", "rFinalize"} => consumed

\* A recovered settlement is counted by the recovery that consumed.
CountedOnce ==
  /\ wins \in {0, 1}
  /\ wins = 1 => consumed /\ stage \in SettledStages
  /\ \A r \in Requests :
       pc[r] \in {"rLinkVerified", "rSettled", "rConsume", "rCountWin"} => wins = 0

\* Whoever finalizes knows the stage, if its writes report their outcome.
StageIsKnown ==
  "stage" \notin Faults =>
    /\ consumed => stage = "settled"
    /\ \A r \in Requests :
         /\ pc[r] \in {"rLinkVerified", "finalize", "linkVerified"} => stage = "settled_external"
         /\ pc[r] \in {"rSettled", "settled"} => stage = "link_verified"
         /\ pc[r] \in {"consume", "toDelivered", "rConsume", "rCountWin", "rDeliver", "rFinalize"} =>
              stage = "settled"

Accounts == RanOnce /\ Drafted /\ ConsumedFirst /\ CountedOnce /\ StageIsKnown

\* What Accounts needs of IndInv.
Phases == TypeOK /\ OneFirstSeen /\ OneFinalizer /\ SeenIsOpen /\ EarlyIsUncharged

-----------------------------------------------------------------------------
(* Steps of the handler. *)

\* Nothing is in the accounts of an identifier nobody has acquired.
LEMMA AccountsInit == Init => Accounts
BY DEF Init, Accounts, RanOnce, Drafted, ConsumedFirst, CountedOnce, StageIsKnown,
       BeforeRun, AfterRun, FirstSeenSteps, JobWrites, UnrunStages, EarlyStages,
       SettleSteps, FinishSteps

\* From the insert to the durable write before the settle call.
LEMMA AccountsPrepare ==
  ASSUME Phases, Accounts, NEW r \in Requests, Prepare(r)
  PROVE  Accounts'
<1> USE JobWriteSteps, StepClasses
    DEF Phases, TypeOK, attempt, store, world, local, flow, Goto, Finish,
        Accounts, RanOnce, Drafted, ConsumedFirst, CountedOnce, StageIsKnown,
        BeforeRun, AfterRun, UnrunStages, EarlyStages, SettleSteps, FinishSteps
<1>1. CASE FirstSeen(r)
  BY <1>1 DEF FirstSeen, OneFirstSeen, SettledStages, FirstSeenSteps, JobWrites
<1>2. CASE Duplicate(r)
  BY <1>2 DEF Duplicate
<1>3. CASE CreateJob(r)
  BY <1>3 DEF CreateJob
<1>4. CASE AdvanceJob(r)
  <2>1. /\ pc[r] \in DOMAIN JobWrites
        /\ pc' = [pc EXCEPT ![r] = JobWrites[pc[r]].then]
        /\ UNCHANGED <<stage, consumed, wins, result, runs>>
    BY <1>4 DEF AdvanceJob
  <2>2. job' \in {job, JobWrites[pc[r]].to} /\ JobWrites[pc[r]].to # "DELIVERED"
    BY <1>4, <2>1 DEF AdvanceJob, WriteJob, JobWrites
  <2>3. JobWrites[pc[r]].then \in PrepareSteps \ {"recordPending"}
    BY <2>1 DEF JobWrites
  <2>4. JobWrites[pc[r]].then \in BeforeRun <=> pc[r] \in BeforeRun
    BY <2>1 DEF JobWrites
  <2>5. RanOnce'
    BY <2>1, <2>3, <2>4
  <2>6. Drafted' /\ ConsumedFirst' /\ CountedOnce' /\ StageIsKnown'
    BY <2>1, <2>2, <2>3
  <2> QED
    BY <2>5, <2>6
<1>5. CASE Verify(r)
  BY <1>5 DEF Verify
<1>6. CASE RejectUnpaid(r)
  BY <1>6 DEF RejectUnpaid, WriteJob
<1>7. CASE StageUnpaid(r)
  BY <1>7 DEF StageUnpaid, StageUnless, TransitionOutcomes, OneFinalizer, SettledStages
<1>8. CASE StageVerified(r)
  BY <1>8 DEF StageVerified, StageUnless, TransitionOutcomes, OneFinalizer, SettledStages
<1>9. CASE Execute(r)
  <2>1. \E q \in {"toVerifying", "toQuarantine"} : pc' = [pc EXCEPT ![r] = q]
    BY <1>9 DEF Execute
  <2>2. pc[r] = "execute" /\ UNCHANGED <<stage, consumed, wins, job, result>>
    BY <1>9 DEF Execute
  <2>3. runs = 0 /\ runs' = 1
    BY <1>9, <2>2 DEF Execute
  <2>4. stage # "none"
    BY <2>2 DEF OneFirstSeen
  <2>5. \A s \in Requests \ {r} : pc[s] \notin FirstSeenSteps /\ pc'[s] = pc[s]
    BY <2>1, <2>2 DEF OneFirstSeen
  <2>6. RanOnce'
    BY <2>1, <2>2, <2>3, <2>4, <2>5
  <2>7. Drafted'
    BY <2>1, <2>2
  <2>8. ConsumedFirst' /\ CountedOnce' /\ StageIsKnown'
    BY <2>1, <2>2
  <2> QED
    BY <2>6, <2>7, <2>8
<1>10. CASE RejectJob(r)
  BY <1>10 DEF RejectJob, WriteJob
<1>11. CASE StageExecuted(r)
  <2>1. \E q \in {"toSettling", "toRejected"} : pc' = [pc EXCEPT ![r] = q]
    BY <1>11 DEF StageExecuted
  <2>2. stage' = stage \/ (stage = "verified" /\ stage' = "executed")
    BY <1>11 DEF StageExecuted, StageUnless, TransitionOutcomes, Outcomes
  <2>3. pc[r] = "stageExecuted" /\ UNCHANGED <<consumed, wins, job, result, runs>>
    BY <1>11 DEF StageExecuted
  <2>4. RanOnce'
    BY <2>1, <2>2, <2>3
  <2>5. Drafted'
    BY <2>1, <2>2, <2>3
  <2> QED
    BY <2>1, <2>2, <2>3, <2>4, <2>5 DEF OneFinalizer, SettledStages
<1>12. CASE CreatePending(r)
  BY <1>12 DEF CreatePending
<1>13. CASE RecordPending(r)
  <2>1. \E q \in {"callSettle", "done"} : pc' = [pc EXCEPT ![r] = q]
    BY <1>13 DEF RecordPending
  <2>2. stage' = stage \/ (stage = "executed" /\ stage' = "settlement_pending")
    BY <1>13 DEF RecordPending, StageUnless, Outcomes
  <2>3. pc[r] = "recordPending" /\ UNCHANGED <<consumed, wins, job, result, runs>>
    BY <1>13 DEF RecordPending
  <2>4. RanOnce'
    BY <2>1, <2>2, <2>3
  <2>5. Drafted'
    BY <2>1, <2>2, <2>3
  <2> QED
    BY <2>1, <2>2, <2>3, <2>4, <2>5 DEF OneFinalizer, SettledStages
<1> QED
  BY <1>1, <1>2, <1>3, <1>4, <1>5, <1>6, <1>7, <1>8, <1>9, <1>10, <1>11,
     <1>12, <1>13
  DEF Prepare

\* From the settle call to the delivered job.
LEMMA AccountsSettle ==
  ASSUME Phases, Accounts, NEW r \in Requests, Settle(r)
  PROVE  Accounts'
<1> USE JobWriteSteps, StepClasses
    DEF Phases, TypeOK, attempt, store, world, local, flow, Goto, Finish, Serve,
        Accounts, RanOnce, Drafted, ConsumedFirst, CountedOnce, StageIsKnown,
        BeforeRun, AfterRun, UnrunStages, EarlyStages, SettleSteps, FinishSteps
<1>1. CASE CallSettle(r)
  BY <1>1 DEF CallSettle
<1>2. CASE SettleAnswer(r)
  BY <1>2 DEF SettleAnswer
<1>3. CASE RefundJob(r)
  BY <1>3 DEF RefundJob, WriteJob
<1>4. CASE NeverminedFailure(r)
  <2>1. pc[r] = "recordFailure" /\ UNCHANGED <<consumed, wins, job, result, runs>>
    BY <1>4 DEF NeverminedFailure
  <2>2. \/ pc' = [pc EXCEPT ![r] = "done"] /\ stage' = stage
        \/ pc' = [pc EXCEPT ![r] = "done"] /\ stage = "settlement_pending" /\ stage' = "settlement_failed"
    BY <1>4 DEF NeverminedFailure, StageUnless, TransitionOutcomes, Outcomes
  <2>3. RanOnce'
    BY <2>1, <2>2 DEF RecoverySteps
  <2>4. Drafted'
    BY <2>1, <2>2 DEF RecoverySteps
  <2>5. CountedOnce'
    BY <2>1, <2>2 DEF SettledStages, OneFinalizer, ConvergeSteps, RecoverySteps
  <2>6. ConsumedFirst'
    BY <2>1, <2>2
  <2>7. StageIsKnown'
    BY <2>1, <2>2 DEF SettledStages, OneFinalizer, ConvergeSteps, RecoverySteps
  <2> QED
    BY <2>3, <2>4, <2>5, <2>6, <2>7
<1>5. CASE CdpFailure(r)
  <2>1. pc[r] = "recordFailure" /\ pc' = [pc EXCEPT ![r] = "done"]
        /\ UNCHANGED <<consumed, wins, job, result, runs>>
    BY <1>5 DEF CdpFailure
  <2>2. stage' = stage \/ (stage = "settlement_pending" /\ stage' = "settlement_failed")
    BY <1>5 DEF CdpFailure, CdpOutcome, Outcomes
  <2>3. RanOnce'
    BY <2>1, <2>2 DEF RecoverySteps
  <2>4. Drafted'
    BY <2>1, <2>2 DEF RecoverySteps
  <2>5. CountedOnce'
    BY <2>1, <2>2 DEF SettledStages, OneFinalizer, ConvergeSteps, RecoverySteps
  <2>6. ConsumedFirst'
    BY <2>1, <2>2
  <2>7. StageIsKnown'
    BY <2>1, <2>2 DEF SettledStages, OneFinalizer, ConvergeSteps, RecoverySteps
  <2> QED
    BY <2>3, <2>4, <2>5, <2>6, <2>7
<1>6. CASE RecordSettled(r)
  <2>1. pc[r] = "recordSettled" /\ UNCHANGED <<consumed, wins, job, result, runs>>
    BY <1>6 DEF RecordSettled
  <2>2. \/ pc' = [pc EXCEPT ![r] = "done"] /\ stage' = stage
        \/ pc' = [pc EXCEPT ![r] = "finalize"] /\ stage = "settlement_pending" /\ stage' = "settled_external"
    BY <1>6 DEF RecordSettled, StageUnless, SettledOutcomes, Outcomes
  <2>3. RanOnce'
    BY <2>1, <2>2 DEF RecoverySteps
  <2>4. Drafted'
    BY <2>1, <2>2 DEF RecoverySteps
  <2>5. CountedOnce'
    BY <2>1, <2>2 DEF SettledStages, OneFinalizer, ConvergeSteps, RecoverySteps
  <2>6. ConsumedFirst'
    BY <2>1, <2>2
  <2>7. StageIsKnown'
    BY <2>1, <2>2 DEF SettledStages, OneFinalizer, ConvergeSteps, RecoverySteps
  <2> QED
    BY <2>3, <2>4, <2>5, <2>6, <2>7
<1>7. CASE Finalize(r)
  BY <1>7 DEF Finalize, StoreResult
<1>8. CASE LinkVerified(r)
  BY <1>8 DEF LinkVerified, StageUnless, TransitionOutcomes, Outcomes, OneFinalizer, SettledStages, ConvergeSteps
<1>9. CASE Settled(r)
  BY <1>9 DEF Settled, StageUnless, TransitionOutcomes, Outcomes, OneFinalizer, SettledStages, ConvergeSteps
<1>10. CASE Consume(r)
  BY <1>10 DEF Consume, OneFinalizer, ConvergeSteps
<1>11. CASE Deliver(r)
  BY <1>11 DEF Deliver, WriteJob
<1> QED
  BY <1>1, <1>2, <1>3, <1>4, <1>5, <1>6, <1>7, <1>8, <1>9, <1>10, <1>11 DEF Settle

\* A recovery: it consumes what it has settled itself.
LEMMA AccountsRecover ==
  ASSUME Phases, Accounts, NEW r \in Requests, Recover(r)
  PROVE  Accounts'
<1> USE JobWriteSteps, StepClasses
    DEF Phases, TypeOK, attempt, store, world, local, flow, Goto, Finish, Serve,
        Accounts, RanOnce, Drafted, ConsumedFirst, CountedOnce, StageIsKnown,
        BeforeRun, AfterRun, UnrunStages, EarlyStages, SettleSteps, FinishSteps
<1>1. CASE ReadAttempt(r)
  BY <1>1 DEF ReadAttempt
<1>2. CASE ReadJob(r)
  <2>1. \E q \in {"reconstructJob", "reconcile", "done", "chainCheck", "countTry"} : pc' = [pc EXCEPT ![r] = q]
    BY <1>2 DEF ReadJob
  <2>2. UNCHANGED <<stage, consumed, wins, job, result, runs>>
    BY <1>2 DEF ReadJob
  <2> QED
    BY <2>1, <2>2
<1>3. CASE ReconcileSettled(r)
  BY <1>3 DEF ReconcileSettled
<1>4. CASE ReconcileOpen(r)
  BY <1>4 DEF ReconcileOpen
<1>5. CASE ChainCheck(r)
  <2>1. \E q \in {"recoverSettled", "recordRetryFailure", "countTry"} : pc' = [pc EXCEPT ![r] = q]
    BY <1>5 DEF ChainCheck
  <2>2. pc[r] = "chainCheck" /\ UNCHANGED <<stage, consumed, wins, job, result, runs>>
    BY <1>5 DEF ChainCheck
  <2> QED
    BY <2>1, <2>2
<1>6. CASE CountTry(r)
  BY <1>6 DEF CountTry
<1>7. CASE RetryAnswer(r)
  <2>1. \E q \in {"recoverSettled", "done", "recordRetryFailure"} : pc' = [pc EXCEPT ![r] = q]
    BY <1>7 DEF RetryAnswer
  <2>2. UNCHANGED <<stage, consumed, wins, job, result, runs>>
    BY <1>7 DEF RetryAnswer
  <2> QED
    BY <2>1, <2>2
<1>8. CASE RecordRetryFailure(r)
  <2>1. pc[r] = "recordRetryFailure" /\ UNCHANGED <<consumed, wins, job, result, runs>>
    BY <1>8 DEF RecordRetryFailure
  <2>2. \/ pc' = [pc EXCEPT ![r] = "done"] /\ stage' = stage
    BY <1>8 DEF RecordRetryFailure, CdpOutcome, Outcomes
  <2>3. RanOnce'
    BY <2>1, <2>2 DEF RecoverySteps
  <2>4. Drafted'
    BY <2>1, <2>2 DEF RecoverySteps
  <2>5. CountedOnce'
    BY <2>1, <2>2 DEF SettledStages, OneFinalizer, ConvergeSteps, RecoverySteps
  <2>6. ConsumedFirst'
    BY <2>1, <2>2
  <2>7. StageIsKnown'
    BY <2>1, <2>2 DEF SettledStages, OneFinalizer, ConvergeSteps, RecoverySteps
  <2> QED
    BY <2>3, <2>4, <2>5, <2>6, <2>7
<1>9. CASE RecoverSettled(r)
  <2>1. pc[r] = "recoverSettled" /\ UNCHANGED <<consumed, wins, job, result, runs>>
    BY <1>9 DEF RecoverSettled
  <2>8. seen[r].stage \in OpenStages
    BY <2>1 DEF SeenIsOpen, RecoverySteps
  <2>2. \/ pc' = [pc EXCEPT ![r] = "reconstructJob"] /\ stage' = stage
        \/ pc' = [pc EXCEPT ![r] = "rLinkVerified"] /\ stage \in OpenStages /\ stage' = "settled_external"
    BY <1>9, <2>8 DEF RecoverSettled, StageUnless, SettledOutcomes, Outcomes
  <2>3. RanOnce'
    BY <2>1, <2>2 DEF OpenStages, RecoverySteps
  <2>4. Drafted'
    BY <2>1, <2>2 DEF OpenStages, RecoverySteps
  <2>5. CountedOnce'
    BY <2>1, <2>2 DEF OpenStages, SettledStages, OneFinalizer, ConvergeSteps, RecoverySteps
  <2>6. ConsumedFirst'
    BY <2>1, <2>2
  <2>7. StageIsKnown'
    BY <2>1, <2>2 DEF OpenStages, SettledStages, OneFinalizer, ConvergeSteps, RecoverySteps
  <2> QED
    BY <2>3, <2>4, <2>5, <2>6, <2>7
<1>10. CASE RecoverLinkVerified(r)
  <2>1. pc[r] = "rLinkVerified" /\ UNCHANGED <<consumed, wins, job, result, runs>>
    BY <1>10 DEF RecoverLinkVerified
  <2>2. \/ pc' = [pc EXCEPT ![r] = "rSettled"] /\ stage = "settled_external" /\ stage' = "link_verified"
        \/ pc' = [pc EXCEPT ![r] = "rSettled"] /\ ("stage" \in Faults \/ stage # "settled_external") /\ stage' = stage
    BY <1>10 DEF RecoverLinkVerified, StageUnless, TransitionOutcomes, Outcomes, LifecycleTransitions
  <2>3. RanOnce'
    <3>1. runs = 1
      BY <2>1 DEF OneFinalizer, ConvergeSteps, SettledStages
    <3> QED
      BY <2>1, <2>2, <3>1 DEF RecoverySteps
  <2>4. Drafted'
    BY <2>1, <2>2 DEF RecoverySteps
  <2>5. CountedOnce'
    BY <2>1, <2>2 DEF SettledStages, OneFinalizer, ConvergeSteps, RecoverySteps
  <2>6. ConsumedFirst'
    BY <2>1, <2>2
  <2>7. StageIsKnown'
    BY <2>1, <2>2 DEF SettledStages, OneFinalizer, ConvergeSteps, RecoverySteps
  <2> QED
    BY <2>3, <2>4, <2>5, <2>6, <2>7
<1>11. CASE RecoverStageSettled(r)
  <2>1. pc[r] = "rSettled" /\ UNCHANGED <<consumed, wins, job, result, runs>>
    BY <1>11 DEF RecoverStageSettled
  <2>2. \/ pc' = [pc EXCEPT ![r] = "rConsume"] /\ stage = "link_verified" /\ stage' = "settled"
        \/ pc' = [pc EXCEPT ![r] = "rConsume"] /\ ("stage" \in Faults \/ stage # "link_verified") /\ stage' = stage
    BY <1>11 DEF RecoverStageSettled, StageUnless, TransitionOutcomes, Outcomes, LifecycleTransitions
  <2>3. RanOnce'
    <3>1. runs = 1
      BY <2>1 DEF OneFinalizer, ConvergeSteps, SettledStages
    <3> QED
      BY <2>1, <2>2, <3>1 DEF RecoverySteps
  <2>4. Drafted'
    BY <2>1, <2>2 DEF RecoverySteps
  <2>5. CountedOnce'
    BY <2>1, <2>2 DEF SettledStages, OneFinalizer, ConvergeSteps, RecoverySteps
  <2>6. ConsumedFirst'
    BY <2>1, <2>2
  <2>7. StageIsKnown'
    <3>1. CASE "stage" \in Faults
      BY <3>1
    <3>2. CASE "stage" \notin Faults
      <4>1. pc' = [pc EXCEPT ![r] = "rConsume"] /\ stage' = "settled"
        BY <2>1, <2>2, <3>2
      <4>2. \A q \in Requests \ {r} : pc[q] \notin FinishSteps \cup ConvergeSteps
        BY <2>1 DEF OneFinalizer, ConvergeSteps
      <4> QED
        BY <4>1, <4>2 DEF ConvergeSteps
    <3> QED
      BY <3>1, <3>2
  <2> QED
    BY <2>3, <2>4, <2>5, <2>6, <2>7
<1>12. CASE RecoverConsume(r)
  BY <1>12 DEF RecoverConsume, OneFinalizer, ConvergeSteps
<1>13. CASE CountWin(r)
  BY <1>13 DEF CountWin, OneFinalizer, ConvergeSteps
<1>14. CASE RecoverDeliver(r)
  BY <1>14 DEF RecoverDeliver, WriteJob
<1>15. CASE RecoverFinalize(r)
  BY <1>15 DEF RecoverFinalize, StoreResult
<1> QED
  BY <1>1, <1>2, <1>3, <1>4, <1>5, <1>6, <1>7, <1>8, <1>9, <1>10, <1>11, <1>12, <1>13, <1>14, <1>15 DEF Recover

\* A replay changes nothing.
LEMMA AccountsReplay ==
  ASSUME Phases, Accounts, NEW r \in Requests, Replay(r)
  PROVE  Accounts'
<1> USE JobWriteSteps, StepClasses
    DEF Phases, TypeOK, attempt, store, world, local, flow, Goto, Finish, Serve,
        Accounts, RanOnce, Drafted, ConsumedFirst, CountedOnce, StageIsKnown,
        BeforeRun, AfterRun, UnrunStages, EarlyStages, SettleSteps, FinishSteps
<1>1. CASE ReplayConsumed(r)
  BY <1>1 DEF ReplayConsumed
<1>2. CASE ReconstructJob(r)
  BY <1>2 DEF ReconstructJob
<1>3. CASE ReconstructResult(r)
  BY <1>3 DEF ReconstructResult
<1> QED
  BY <1>1, <1>2, <1>3 DEF Replay

\* The steps outside the handler leave the accounts alone.
LEMMA AccountsWorld ==
  ASSUME Phases, Accounts,
         \/ \E r \in Requests :
              (\E b \in Bindings : Arrive(r, b)) \/ Land(r) \/ Drop(r) \/ Crash(r) \/ Again(r)
         \/ Lapse
         \/ UNCHANGED vars
  PROVE  Accounts'
<1> USE JobWriteSteps, StepClasses
    DEF Phases, TypeOK, attempt, store, world, local, flow, Goto, Finish,
        Accounts, RanOnce, Drafted, ConsumedFirst, CountedOnce, StageIsKnown,
        BeforeRun, AfterRun, UnrunStages, EarlyStages, SettleSteps, FinishSteps
<1>1. ASSUME NEW r \in Requests, NEW b \in Bindings, Arrive(r, b)
      PROVE  Accounts'
  <2>1. \E q \in {"done", "acquire"} : pc' = [pc EXCEPT ![r] = q]
    BY <1>1 DEF Arrive
  <2>2. UNCHANGED <<stage, consumed, wins, job, result, runs>>
    BY <1>1 DEF Arrive
  <2> QED
    BY <2>1, <2>2
<1>2. ASSUME NEW r \in Requests, Land(r) \/ Drop(r)
      PROVE  Accounts'
  BY <1>2 DEF Land, Drop
<1>3. ASSUME NEW r \in Requests, Crash(r)
      PROVE  Accounts'
  BY <1>3 DEF Crash
<1>4. ASSUME NEW r \in Requests, Again(r)
      PROVE  Accounts'
  BY <1>4 DEF Again
<1>5. CASE Lapse \/ UNCHANGED vars
  BY <1>5 DEF Lapse, vars
<1> QED
  BY <1>1, <1>2, <1>3, <1>4, <1>5

\* The accounts hold in every reachable state.
THEOREM AccountsHold == Spec => []Accounts
<1>1. IndInv => Phases
  BY DEF IndInv, Phases
<1>2. IndInv /\ Accounts /\ [Next]_vars => Accounts'
  BY <1>1, AccountsPrepare, AccountsSettle, AccountsRecover, AccountsReplay,
     AccountsWorld
  DEF Next, Handle
<1> QED
  BY <1>2, AccountsInit, Invariance, PTL DEF Spec

-----------------------------------------------------------------------------
(* What the accounts mean. *)

\* Whoever was charged has a service that ran once and whose output is kept.
THEOREM PaidHasItsResult == Spec => []PaidHasResult
<1>1. IndInv /\ Accounts => PaidHasResult
  BY DEF IndInv, Accounts, RanOnce, Drafted, PaidHasResult, EarlyIsUncharged,
         ChargesAreLanded, EarlyStages, UnrunStages
<1> QED
  BY <1>1, AccountsHold, Invariance, PTL

\* A delivered job is the job of a consumed identifier.
THEOREM DeliveredOnlyConsumed == Spec => []DeliveredIsConsumed
<1>1. Accounts => DeliveredIsConsumed
  BY DEF Accounts, ConsumedFirst, DeliveredIsConsumed
<1> QED
  BY <1>1, AccountsHold, PTL

\* A recovered settlement is counted at most once, and only of a consumed
\* identifier.
THEOREM WinsAreCountedOnce == Spec => []WinsCountOnce
<1>1. Accounts => WinsCountOnce
  BY DEF Accounts, CountedOnce, WinsCountOnce
<1> QED
  BY <1>1, AccountsHold, PTL

\* A consumed identifier is settled and charged, if the stage writes
\* report their outcome: under failing ones a recovery consumes a row that is
\* short of settled.
THEOREM ConsumedOnlySettled == Spec => []("stage" \notin Faults => ConsumedIsSettled)
<1>1. IndInv /\ Accounts => ("stage" \notin Faults => ConsumedIsSettled)
  BY DEF IndInv, Accounts, StageIsKnown, ConsumedIsSettled, SettledIsCharged, SettledStages
<1> QED
  BY <1>1, AccountsHold, Invariance, PTL

-----------------------------------------------------------------------------
(* The moves of the stage and of the job.                                  *)

\* A stage write lands only on the row its own compare-and-set matched.
LEMMA StageStep ==
  ASSUME IndInv, [Next]_vars
  PROVE  stage' = stage \/ stage = "none" \/ <<stage, stage'>> \in LifecycleTransitions
<1> USE DEF attempt, store, world, local, flow, StageUnless, TransitionOutcomes,
            SettledOutcomes, Outcomes, CdpOutcome
<1>1. ASSUME NEW r \in Requests, Prepare(r)
      PROVE  stage' = stage \/ stage = "none" \/ <<stage, stage'>> \in LifecycleTransitions
  BY <1>1
  DEF Prepare, FirstSeen, Duplicate, CreateJob, AdvanceJob, Verify, RejectUnpaid,
      StageUnpaid, StageVerified, Execute, RejectJob, StageExecuted,
      CreatePending, RecordPending, LifecycleTransitions
<1>2. ASSUME NEW r \in Requests, Settle(r)
      PROVE  stage' = stage \/ <<stage, stage'>> \in LifecycleTransitions
  BY <1>2
  DEF Settle, CallSettle, SettleAnswer, RefundJob, NeverminedFailure, CdpFailure,
      RecordSettled, Finalize, LinkVerified, Settled, Consume, Deliver,
      LifecycleTransitions
<1>3. ASSUME NEW r \in Requests, RecoverSettled(r)
      PROVE  stage' = stage \/ <<stage, stage'>> \in LifecycleTransitions
  <2>1. seen[r].stage \in OpenStages
    BY <1>3 DEF RecoverSettled, IndInv, SeenIsOpen, RecoverySteps
  <2> QED
    BY <1>3, <2>1 DEF RecoverSettled, OpenStages, LifecycleTransitions
<1>4. ASSUME NEW r \in Requests, Recover(r)
      PROVE  stage' = stage \/ <<stage, stage'>> \in LifecycleTransitions
  BY <1>3, <1>4
  DEF Recover, ReadAttempt, ReadJob, ReconcileSettled, ReconcileOpen, ChainCheck,
      CountTry, RetryAnswer, RecordRetryFailure, RecoverLinkVerified,
      RecoverStageSettled, RecoverConsume, CountWin, RecoverDeliver,
      RecoverFinalize, LifecycleTransitions
<1>5. ASSUME NEW r \in Requests, Replay(r) \/ Land(r) \/ Drop(r) \/ Crash(r) \/ Again(r)
      PROVE  stage' = stage
  BY <1>5
  DEF Replay, ReplayConsumed, ReconstructJob, ReconstructResult, Land, Drop,
      Crash, Again
<1>6. ASSUME NEW r \in Requests, NEW b \in Bindings, Arrive(r, b)
      PROVE  stage' = stage
  BY <1>6 DEF Arrive
<1>7. CASE Lapse \/ UNCHANGED vars
  BY <1>7 DEF Lapse, vars
<1> QED
  BY <1>1, <1>2, <1>4, <1>5, <1>6, <1>7 DEF Next, Handle

\* Under failing and lost writes, crashes and competing recoveries, the stage
\* takes only the edges of PAYMENT_LIFECYCLE_TRANSITIONS.
THEOREM StagesMoveLegally == Spec => StageMovesLegally
<1>1. IndInv /\ [Next]_vars =>
        [stage = "none" \/ <<stage, stage'>> \in LifecycleTransitions]_stage
  BY StageStep
<1> QED
  BY <1>1, Invariance, PTL DEF Spec, StageMovesLegally

\* What the job is while the first request is at a step: JobWrites, read as a
\* table of states.
KnownJobs ==
  {<<"createJob", "none">>, <<"toValidated", "RECEIVED">>, <<"toQuoted", "VALIDATED">>,
   <<"toChallenged", "QUOTED">>, <<"verify", "PAYMENT_CHALLENGED">>,
   <<"toUnpaid", "PAYMENT_CHALLENGED">>, <<"stageUnpaid", "REJECTED">>,
   <<"toVerified", "PAYMENT_CHALLENGED">>, <<"stageVerified", "PAYMENT_VERIFIED">>,
   <<"toLocked", "PAYMENT_VERIFIED">>, <<"toRouted", "LOCKED">>,
   <<"toExecuting", "ROUTED">>, <<"execute", "EXECUTING">>,
   <<"toQuarantine", "EXECUTING">>, <<"toVerifying", "EXECUTING">>,
   <<"toRejected", "QUARANTINED">>, <<"toRejected", "VERIFYING">>,
   <<"stageExecuted", "VERIFYING">>, <<"toSettling", "VERIFYING">>,
   <<"recordFailure", "REFUND_REQUIRED">>}
  \cup ({"createPending", "recordPending", "callSettle", "awaitSettle", "toRefund",
         "recordSettled"} \cup FinishSteps) \X {"SETTLING"}

\* The CDP rail, as long as the writes of the job are kept.  A recovery starts
\* from settlement_failed alone, which only the first request's last step
\* writes, after the job has left SETTLING: no recovery writes the job.
JobKnown ==
  /\ stage = "none" => job = "none"
  /\ stage = "settlement_failed" => job # "SETTLING"
  /\ \A r \in Requests :
       /\ pc[r] \in FirstSeenSteps => <<pc[r], job>> \in KnownJobs
       /\ pc[r] \in SettleSteps => stage = "settlement_pending"
       /\ pc[r] \in RecoverySteps \ {"readAttempt"} => seen[r].stage = "settlement_failed"
       /\ pc[r] = "readJob" => job # "SETTLING"
       /\ pc[r] \in RecoverySteps \ {"readAttempt", "readJob"} => seen[r].job # "SETTLING"

JobMove == job' = job \/ job = "none" \/ <<job, job'>> \in AllowedTransitions

\* Nothing is known of the job of an identifier nobody has acquired.
LEMMA JobInit == Init => JobKnown
BY StepClasses DEF Init, JobKnown, RecoverySteps, SettleSteps, FinishSteps

\* The table agrees with JobWrites, and its edges are legal.
LEMMA JobWritesKnown ==
  \A p \in DOMAIN JobWrites :
    /\ JobWrites[p].then \notin SettleSteps
    /\ <<JobWrites[p].then, JobWrites[p].to>> \in KnownJobs
    /\ \A j : <<p, j>> \in KnownJobs => <<j, JobWrites[p].to>> \in AllowedTransitions
BY DEF JobWrites, KnownJobs, FinishSteps, SettleSteps, AllowedTransitions

\* While the first request prepares, whatever it does to the job is for the
\* table to say: every other request is before its first read.
LEMMA PreparedJob ==
  ASSUME IndInv, JobKnown, NEW r \in Requests, pc[r] \in PrepareSteps,
         NEW q \in FirstSeenSteps \cup {"done"}, pc' = [pc EXCEPT ![r] = q],
         seen' = seen, stage' \notin {"none", "settlement_failed"},
         q \in FirstSeenSteps => <<q, job'>> \in KnownJobs,
         q \in SettleSteps => stage' = "settlement_pending"
  PROVE  JobKnown'
<1> USE StepClasses DEF IndInv, TypeOK
<1>1. \A s \in Requests \ {r} :
        /\ pc'[s] = pc[s]
        /\ pc[s] \notin FirstSeenSteps
        /\ pc[s] \in RecoverySteps => pc[s] = "readAttempt"
  BY DEF OneFirstSeen, EarlyIsUncharged, EarlyStages
<1>2. pc'[r] = q /\ q \notin RecoverySteps
  BY DEF FirstSeenSteps, JobWrites, RecoverySteps
<1>3. \A s \in Requests :
        /\ pc'[s] \in FirstSeenSteps => <<pc'[s], job'>> \in KnownJobs
        /\ pc'[s] \in SettleSteps => stage' = "settlement_pending"
        /\ pc'[s] \in RecoverySteps => pc'[s] = "readAttempt"
  BY <1>1, <1>2
<1> QED
  BY <1>3 DEF JobKnown, RecoverySteps

\* From the insert to the durable write before the settle call: the job is
\* written by the one request that prepares, and no recovery has read it.
LEMMA JobPrepare ==
  ASSUME "job" \notin Faults, IndInv, JobKnown, NEW r \in Requests, Prepare(r)
  PROVE  JobKnown' /\ JobMove
<1> USE StepClasses, JobWriteSteps
    DEF attempt, store, world, local, flow, Goto, Finish, WriteJob, JobMove
<1>1. CASE FirstSeen(r)
  BY <1>1 DEF FirstSeen, JobKnown, KnownJobs, OneFirstSeen, SettleSteps, RecoverySteps,
      IndInv, TypeOK
<1>2. CASE Duplicate(r)
  <2>1. \E q \in {"done", "readConsumed", "readAttempt"} : pc' = [pc EXCEPT ![r] = q]
    BY <1>2 DEF Duplicate
  <2>2. UNCHANGED <<stage, job, seen>>
    BY <1>2 DEF Duplicate
  <2> QED
    BY <2>1, <2>2 DEF JobKnown, SettleSteps, FinishSteps, RecoverySteps, IndInv, TypeOK
<1>3. SUFFICES ASSUME pc[r] \in PrepareSteps, ~ FirstSeen(r), ~ Duplicate(r)
               PROVE  JobKnown' /\ JobMove
  BY <1>1, <1>2
  DEF Prepare, CreateJob, AdvanceJob, Verify, RejectUnpaid, StageUnpaid,
      StageVerified, Execute, RejectJob, StageExecuted, CreatePending, RecordPending
<1>0. "done" \notin FirstSeenSteps \cup SettleSteps
  BY DEF SettleSteps, FinishSteps
<1>4. <<pc[r], job>> \in KnownJobs /\ stage \in {"acquired", "verified", "executed"}
  BY <1>3 DEF JobKnown, IndInv, EarlyIsUncharged
<1> DEFINE First(q) == pc' = [pc EXCEPT ![r] = q] /\ seen' = seen
<1>5. ASSUME NEW q \in FirstSeenSteps \cup {"done"}, First(q),
             stage' \notin {"none", "settlement_failed"},
             q \in FirstSeenSteps => <<q, job'>> \in KnownJobs,
             q \in SettleSteps => stage' = "settlement_pending"
      PROVE  JobKnown'
  BY <1>3, <1>5, PreparedJob
<1> HIDE DEF First
<1>6. CASE CreateJob(r)
  <2>1. job' = "RECEIVED" /\ job = "none" /\ First("toValidated") /\ stage' = stage
    BY <1>4, <1>6 DEF CreateJob, First, KnownJobs, FinishSteps
  <2> QED
    BY <1>4, <1>5, <2>1 DEF KnownJobs, SettleSteps
<1>7. CASE AdvanceJob(r)
  <2>1. job' = JobWrites[pc[r]].to /\ First(JobWrites[pc[r]].then) /\ stage' = stage
    BY <1>7 DEF AdvanceJob, First
  <2> QED
    BY <1>4, <1>5, <1>7, <2>1, JobWritesKnown DEF AdvanceJob
<1>8. CASE Verify(r)
  <2>1. \E q \in {"toVerified", "toUnpaid"} : First(q)
    BY <1>8 DEF Verify, First
  <2>2. pc[r] = "verify" /\ UNCHANGED <<job, stage>>
    BY <1>8 DEF Verify
  <2>3. job = "PAYMENT_CHALLENGED"
    BY <1>4, <2>2 DEF KnownJobs, FinishSteps
  <2> QED
    BY <1>4, <1>5, <2>1, <2>2, <2>3 DEF KnownJobs, SettleSteps
<1>9. CASE RejectUnpaid(r)
  <2>1. pc[r] = "toUnpaid" /\ job' = "REJECTED" /\ First("stageUnpaid") /\ stage' = stage
    BY <1>9 DEF RejectUnpaid, First
  <2>2. job = "PAYMENT_CHALLENGED"
    BY <1>4, <2>1 DEF KnownJobs, FinishSteps
  <2> QED
    BY <1>4, <1>5, <2>1, <2>2 DEF KnownJobs, SettleSteps, AllowedTransitions
<1>10. CASE StageUnpaid(r)
  <2>1. First("done") /\ job' = job /\ stage' \in {stage, "verification_failed"}
    BY <1>10 DEF StageUnpaid, StageUnless, First
  <2> QED
    BY <1>4, <1>5, <2>1, <1>0
<1>11. CASE StageVerified(r)
  <2>1. /\ pc[r] = "stageVerified" /\ First("toLocked") /\ job' = job
        /\ stage' \in {stage, "verified"}
    BY <1>11 DEF StageVerified, StageUnless, First
  <2>2. job = "PAYMENT_VERIFIED"
    BY <1>4, <2>1 DEF KnownJobs, FinishSteps
  <2> QED
    BY <1>4, <1>5, <2>1, <2>2 DEF KnownJobs, SettleSteps
<1>12. CASE Execute(r)
  <2>1. \E q \in {"toVerifying", "toQuarantine"} : First(q)
    BY <1>12 DEF Execute, First
  <2>2. pc[r] = "execute" /\ UNCHANGED <<job, stage>>
    BY <1>12 DEF Execute
  <2>3. job = "EXECUTING"
    BY <1>4, <2>2 DEF KnownJobs, FinishSteps
  <2> QED
    BY <1>4, <1>5, <2>1, <2>2, <2>3 DEF KnownJobs, SettleSteps
<1>13. CASE RejectJob(r)
  <2>1. pc[r] = "toRejected" /\ job' = "REJECTED" /\ First("done") /\ stage' = stage
    BY <1>13 DEF RejectJob, First
  <2>2. job \in {"QUARANTINED", "VERIFYING"}
    BY <1>4, <2>1 DEF KnownJobs, FinishSteps
  <2> QED
    BY <1>0, <1>4, <1>5, <2>1, <2>2 DEF AllowedTransitions
<1>14. CASE StageExecuted(r)
  <2>1. \E q \in {"toSettling", "toRejected"} : First(q)
    BY <1>14 DEF StageExecuted, First
  <2>2. pc[r] = "stageExecuted" /\ job' = job /\ stage' \in {stage, "executed"}
    BY <1>14 DEF StageExecuted, StageUnless
  <2>3. job = "VERIFYING"
    BY <1>4, <2>2 DEF KnownJobs, FinishSteps
  <2> QED
    BY <1>4, <1>5, <2>1, <2>2, <2>3 DEF KnownJobs, SettleSteps
<1>15. CASE CreatePending(r)
  <2>1. pc[r] = "createPending" /\ First("recordPending") /\ UNCHANGED <<job, stage>>
    BY <1>15 DEF CreatePending, First
  <2>2. job = "SETTLING"
    BY <1>4, <2>1 DEF KnownJobs, FinishSteps
  <2> QED
    BY <1>4, <1>5, <2>1, <2>2 DEF KnownJobs, SettleSteps
<1>16. CASE RecordPending(r)
  <2>1. \/ First("done") /\ stage' = stage
        \/ First("callSettle") /\ stage' = "settlement_pending"
    BY <1>16 DEF RecordPending, StageUnless, First
  <2>2. pc[r] = "recordPending" /\ job' = job
    BY <1>16 DEF RecordPending
  <2>3. job = "SETTLING"
    BY <1>4, <2>2 DEF KnownJobs, FinishSteps
  <2> QED
    BY <1>4, <1>5, <2>1, <2>2, <2>3 DEF KnownJobs, SettleSteps
<1> QED
  BY <1>3, <1>6, <1>7, <1>8, <1>9, <1>10, <1>11, <1>12, <1>13, <1>14, <1>15, <1>16
  DEF Prepare

\* From the settle call on the first request leaves SETTLING and does not
\* come back to it.
LEMMA SettlingJob ==
  ASSUME IndInv, JobKnown, NEW r \in Requests, pc[r] \in SettleSteps \cup FinishSteps,
         NEW q \in SettleSteps \cup FinishSteps \cup {"done"},
         pc' = [pc EXCEPT ![r] = q], seen' = seen,
         job' = job \/ job' # "SETTLING",
         stage' # "none", stage' = "settlement_failed" => job' # "SETTLING",
         q # "done" => <<q, job'>> \in KnownJobs,
         q \in SettleSteps => stage' = "settlement_pending"
  PROVE  JobKnown'
<1>1. \A s \in Requests \ {r} : pc'[s] = pc[s] /\ pc[s] \notin FirstSeenSteps
  BY StepClasses DEF OneFirstSeen, IndInv, TypeOK
<1>2. pc'[r] = q /\ q \notin RecoverySteps /\ "done" \notin FirstSeenSteps
  BY StepClasses DEF FinishSteps, SettleSteps, RecoverySteps, IndInv, TypeOK
<1>3. \A s \in Requests :
        /\ pc'[s] \in FirstSeenSteps => <<pc'[s], job'>> \in KnownJobs
        /\ pc'[s] \in SettleSteps => stage' = "settlement_pending"
        /\ pc'[s] \in RecoverySteps => pc'[s] = pc[s]
  BY <1>1, <1>2, StepClasses
<1>4. "readJob" \in RecoverySteps
  BY DEF RecoverySteps
<1> QED
  BY <1>3, <1>4 DEF JobKnown

\* A recovery leaves the job alone.
LEMMA RecoveringJob ==
  ASSUME IndInv, JobKnown, NEW r \in Requests,
         NEW q \in Steps \ FirstSeenSteps, pc' = [pc EXCEPT ![r] = q], job' = job,
         \A s \in Requests \ {r} : seen'[s] = seen[s],
         \/ stage' = stage
         \/ stage # "settlement_pending" /\ stage' \notin {"none", "settlement_failed"},
         q \in RecoverySteps \ {"readAttempt"} => seen'[r].stage = "settlement_failed",
         q = "readJob" => job # "SETTLING",
         q \in RecoverySteps \ {"readAttempt", "readJob"} => seen'[r].job # "SETTLING"
  PROVE  JobKnown'
<1>1. /\ pc'[r] = q /\ q \notin SettleSteps
      /\ \A s \in Requests \ {r} : pc'[s] = pc[s]
  BY StepClasses DEF IndInv, TypeOK
<1>2. \A s \in Requests :
        /\ pc'[s] \in FirstSeenSteps => <<pc'[s], job'>> \in KnownJobs
        /\ pc'[s] \in SettleSteps => stage' = "settlement_pending"
  BY <1>1 DEF JobKnown
<1>3. /\ stage' = "none" => job' = "none"
      /\ stage' = "settlement_failed" => job' # "SETTLING"
  BY DEF JobKnown
<1>4. \A s \in Requests :
       /\ pc'[s] \in RecoverySteps \ {"readAttempt"} => seen'[s].stage = "settlement_failed"
       /\ pc'[s] = "readJob" => job' # "SETTLING"
       /\ pc'[s] \in RecoverySteps \ {"readAttempt", "readJob"} => seen'[s].job # "SETTLING"
  <2> SUFFICES ASSUME NEW s \in Requests
               PROVE  /\ pc'[s] \in RecoverySteps \ {"readAttempt"} =>
                           seen'[s].stage = "settlement_failed"
                      /\ pc'[s] = "readJob" => job' # "SETTLING"
                      /\ pc'[s] \in RecoverySteps \ {"readAttempt", "readJob"} =>
                           seen'[s].job # "SETTLING"
    OBVIOUS
  <2>1. CASE s = r
    BY <1>1, <2>1
  <2>2. CASE s # r
    <3>1. pc'[s] = pc[s] /\ seen'[s] = seen[s]
      BY <1>1, <2>2
    <3> QED
      BY <3>1 DEF JobKnown
  <2> QED
    BY <2>1, <2>2
<1> QED
  BY <1>2, <1>3, <1>4 DEF JobKnown

\* From the settle call to the delivered job.
LEMMA JobSettle ==
  ASSUME "job" \notin Faults, IndInv, JobKnown, NEW r \in Requests, Settle(r),
         pc[r] # "callRetry", Rail = "cdp"
  PROVE  JobKnown' /\ JobMove
<1> USE StepClasses
    DEF attempt, store, world, local, flow, Goto, Finish, Serve, WriteJob, JobMove
<1>1. pc[r] \in SettleSteps \cup FinishSteps
  BY DEF Settle, CallSettle, SettleAnswer, RefundJob, NeverminedFailure, CdpFailure,
     RecordSettled, Finalize, LinkVerified, Settled, Consume, Deliver, SettleSteps, FinishSteps
<1>2. <<pc[r], job>> \in KnownJobs /\ (pc[r] \in SettleSteps => stage = "settlement_pending")
  BY <1>1 DEF JobKnown
<1>3. pc[r] \in FinishSteps => stage \in SettledStages
  BY DEF IndInv, OneFinalizer
<1>4. pc[r] # "recordFailure" => job = "SETTLING"
  BY <1>1, <1>2 DEF KnownJobs, SettleSteps, FinishSteps
<1> DEFINE First(q) == pc' = [pc EXCEPT ![r] = q] /\ seen' = seen
<1>5. ASSUME NEW q \in SettleSteps \cup FinishSteps \cup {"done"}, First(q),
             job' = job \/ job' # "SETTLING",
             stage' # "none", stage' = "settlement_failed" => job' # "SETTLING",
             q # "done" => <<q, job'>> \in KnownJobs,
             q \in SettleSteps => stage' = "settlement_pending"
      PROVE  JobKnown'
  BY <1>1, <1>5, SettlingJob
<1> HIDE DEF First
<1>6. CASE CallSettle(r)
  <2>1. First("awaitSettle") /\ UNCHANGED <<job, stage>> /\ pc[r] = "callSettle"
    BY <1>6 DEF CallSettle, First
  <2> QED
    BY <1>2, <1>4, <1>5, <2>1 DEF KnownJobs, SettleSteps
<1>7. CASE SettleAnswer(r)
  <2>1. \E q \in {"recordSettled", "toRefund"} : First(q)
    BY <1>7 DEF SettleAnswer, First
  <2>2. UNCHANGED <<job, stage>> /\ pc[r] = "awaitSettle"
    BY <1>7 DEF SettleAnswer
  <2> QED
    BY <1>2, <1>4, <1>5, <2>1, <2>2 DEF KnownJobs, SettleSteps
<1>8. CASE RefundJob(r)
  <2>1. First("recordFailure") /\ job' = "REFUND_REQUIRED" /\ stage' = stage /\ pc[r] = "toRefund"
    BY <1>8 DEF RefundJob, First
  <2> QED
    BY <1>2, <1>4, <1>5, <2>1 DEF KnownJobs, SettleSteps, AllowedTransitions
<1>9. CASE CdpFailure(r)
  <2>1. First("done") /\ job' = job /\ stage' \in {stage, "settlement_failed"} /\ pc[r] = "recordFailure"
    BY <1>9 DEF CdpFailure, CdpOutcome, First
  <2>2. job = "REFUND_REQUIRED"
    BY <1>2, <2>1 DEF KnownJobs, FinishSteps
  <2> QED
    BY <1>2, <1>5, <2>1, <2>2 DEF SettleSteps
<1>10. CASE RecordSettled(r)
  <2>1. \/ First("done") /\ stage' = stage
        \/ First("finalize") /\ stage' = "settled_external"
    BY <1>10 DEF RecordSettled, StageUnless, First
  <2>2. job' = job /\ pc[r] = "recordSettled"
    BY <1>10 DEF RecordSettled
  <2> QED
    BY <1>2, <1>4, <1>5, <2>1, <2>2 DEF KnownJobs, SettleSteps, FinishSteps
<1>11. CASE Finalize(r)
  <2>1. First("linkVerified") /\ UNCHANGED <<job, stage>> /\ pc[r] = "finalize"
    BY <1>11 DEF Finalize, StoreResult, First
  <2> QED
    BY <1>3, <1>4, <1>5, <2>1 DEF KnownJobs, SettleSteps, FinishSteps, SettledStages
<1>12. CASE LinkVerified(r)
  <2>1. \/ First("done") /\ stage' = stage
        \/ First("settled") /\ stage' = "link_verified"
    BY <1>12 DEF LinkVerified, StageUnless, First
  <2>2. job' = job /\ pc[r] = "linkVerified"
    BY <1>12 DEF LinkVerified
  <2> QED
    BY <1>3, <1>4, <1>5, <2>1, <2>2 DEF KnownJobs, SettleSteps, FinishSteps, SettledStages
<1>13. CASE Settled(r)
  <2>1. \/ First("done") /\ stage' = stage
        \/ First("consume") /\ stage' = "settled"
    BY <1>13 DEF Settled, StageUnless, First
  <2>2. job' = job /\ pc[r] = "settled"
    BY <1>13 DEF Settled
  <2> QED
    BY <1>3, <1>4, <1>5, <2>1, <2>2 DEF KnownJobs, SettleSteps, FinishSteps, SettledStages
<1>14. CASE Consume(r)
  <2>1. First("toDelivered") /\ UNCHANGED <<job, stage>> /\ pc[r] = "consume"
    BY <1>14 DEF Consume, First
  <2> QED
    BY <1>3, <1>4, <1>5, <2>1 DEF KnownJobs, SettleSteps, FinishSteps, SettledStages
<1>15. CASE Deliver(r)
  <2>1. First("done") /\ job' = "DELIVERED" /\ stage' = stage /\ pc[r] = "toDelivered"
    BY <1>15 DEF Deliver, First
  <2> QED
    BY <1>3, <1>4, <1>5, <2>1 DEF SettleSteps, FinishSteps, SettledStages, AllowedTransitions
<1> QED
  BY <1>6, <1>7, <1>8, <1>9, <1>10, <1>11, <1>12, <1>13, <1>14, <1>15
  DEF Settle, NeverminedFailure

\* The steps of recoveries and replays are not the first request's.
LEMMA LaterSteps ==
  RecoverySteps \cup ReplaySteps \cup {"done"} \subseteq Steps \ FirstSeenSteps
BY JobWriteSteps DEF RecoverySteps, ReplaySteps, Steps, Working, FirstSeenSteps

\* A recovery, and the retried settle call it makes.
LEMMA JobRecover ==
  ASSUME Rail = "cdp", IndInv, JobKnown, NEW r \in Requests,
         Recover(r) \/ Replay(r) \/ (CallSettle(r) /\ pc[r] = "callRetry")
  PROVE  JobKnown' /\ job' = job
<1> USE DEF attempt, store, world, local, flow, Goto, Finish, Serve
<1>1. /\ pc[r] \in RecoverySteps \cup ReplaySteps
      /\ pc[r] \in RecoverySteps \ {"readAttempt"} => seen[r].stage = "settlement_failed"
      /\ pc[r] = "readJob" => job # "SETTLING"
      /\ pc[r] \in RecoverySteps \ {"readAttempt", "readJob"} => seen[r].job # "SETTLING"
  BY DEF JobKnown, Recover, Replay, ReadAttempt, ReadJob, ReconcileSettled, ReconcileOpen,
     ChainCheck, CountTry, RetryAnswer, RecordRetryFailure, RecoverSettled,
     RecoverLinkVerified, RecoverStageSettled, RecoverConsume, CountWin, RecoverDeliver,
     RecoverFinalize, ReplayConsumed, ReconstructJob, ReconstructResult, RecoverySteps,
     ReplaySteps
<1>2. stage # "none"
  BY <1>1 DEF IndInv, OneFirstSeen, RecoverySteps, ReplaySteps
<1>3. pc[r] \in ConvergeSteps => stage \in SettledStages
  BY DEF IndInv, OneFinalizer
<1>0. RecoverySteps \cup ReplaySteps \cup {"done"} \subseteq Steps \ FirstSeenSteps
  BY LaterSteps
<1>4. seen \in [Requests -> [stage : Stages \cup {"none"}, kind : Kinds,
                             tx : Refs, job : JobStates \cup {"none"}]]
  BY DEF IndInv, TypeOK
<1> DEFINE Moves(q) ==
             /\ pc' = [pc EXCEPT ![r] = q]
             /\ job' = job
             /\ \A s \in Requests \ {r} : seen'[s] = seen[s]
           Known(q) ==
             /\ q \in RecoverySteps \ {"readAttempt"} => seen'[r].stage = "settlement_failed"
             /\ q = "readJob" => job # "SETTLING"
             /\ q \in RecoverySteps \ {"readAttempt", "readJob"} => seen'[r].job # "SETTLING"
             /\ \/ stage' = stage
                \/ stage # "settlement_pending" /\ stage' \notin {"none", "settlement_failed"}
<1>5. ASSUME NEW q \in Steps \ FirstSeenSteps, Moves(q), Known(q)
      PROVE  JobKnown' /\ job' = job
  BY <1>5, RecoveringJob
<1> HIDE DEF Moves, Known
<1>6. CASE ReadAttempt(r)
  <2>1. CASE Recoverable
    <3>1. /\ Moves("readJob") /\ stage' = stage /\ stage = "settlement_failed"
          /\ seen'[r].stage = "settlement_failed"
      BY <1>4, <1>6, <2>1 DEF ReadAttempt, Recoverable, Moves
    <3>2. job # "SETTLING"
      BY <3>1 DEF JobKnown
    <3> QED
      BY <1>0, <1>5, <3>1, <3>2 DEF Known, RecoverySteps
  <2>2. CASE ~ Recoverable
    <3>1. Moves("reconstructJob") /\ stage' = stage
      BY <1>6, <2>2 DEF ReadAttempt, Moves
    <3> QED
      BY <1>0, <1>5, <3>1 DEF Known, RecoverySteps, ReplaySteps
  <2> QED
    BY <2>1, <2>2
<1>7. CASE ReadJob(r)
  <2>1. \E q \in {"reconstructJob", "reconcile", "done", "chainCheck", "countTry"} : Moves(q)
    BY <1>4, <1>7 DEF ReadJob, Moves
  <2>2. stage' = stage /\ seen'[r].stage = "settlement_failed" /\ seen'[r].job # "SETTLING"
    BY <1>1, <1>4, <1>7 DEF ReadJob, RecoverySteps
  <2> QED
    BY <1>0, <1>5, <2>1, <2>2 DEF Known, RecoverySteps, ReplaySteps
<1>8. ASSUME seen' = seen, pc[r] \in RecoverySteps \ {"readAttempt", "readJob"},
             NEW q \in (RecoverySteps \ {"readAttempt", "readJob"}) \cup ReplaySteps \cup {"done"},
             Moves(q),
             \/ stage' = stage
             \/ stage # "settlement_pending" /\ stage' \notin {"none", "settlement_failed"}
      PROVE  JobKnown' /\ job' = job
  <2>1. Known(q)
    BY <1>1, <1>8 DEF Known, RecoverySteps, ReplaySteps
  <2> QED
    BY <1>0, <1>5, <1>8, <2>1
<1>9. CASE ReconcileSettled(r) \/ ReconcileOpen(r) \/ ChainCheck(r) \/ CountTry(r)
           \/ (CallSettle(r) /\ pc[r] = "callRetry") \/ RetryAnswer(r)
  <2>1. \E q \in {"recoverSettled", "reconstructJob", "recordRetryFailure", "countTry",
                  "callRetry", "awaitRetry", "done"} : Moves(q)
    BY <1>9 DEF ReconcileSettled, ReconcileOpen, ChainCheck, CountTry, CallSettle, RetryAnswer, Moves
  <2>2. /\ UNCHANGED <<stage, seen>>
        /\ pc[r] \in {"reconcile", "chainCheck", "countTry", "callRetry", "awaitRetry"}
    BY <1>9 DEF ReconcileSettled, ReconcileOpen, ChainCheck, CountTry, CallSettle, RetryAnswer
  <2> QED
    BY <1>8, <2>1, <2>2 DEF RecoverySteps, ReplaySteps
<1>10. CASE RecordRetryFailure(r)
  <2>1. Moves("done") /\ UNCHANGED <<stage, seen>> /\ pc[r] = "recordRetryFailure"
    BY <1>10 DEF RecordRetryFailure, CdpOutcome, Outcomes, Moves
  <2> QED
    BY <1>8, <2>1 DEF RecoverySteps
<1>11. CASE RecoverSettled(r)
  <2>1. pc[r] = "recoverSettled" /\ seen' = seen
    BY <1>11 DEF RecoverSettled
  <2>2. seen[r].stage = "settlement_failed"
    BY <1>1, <2>1 DEF RecoverySteps
  <2>3. \/ Moves("reconstructJob") /\ stage' = stage
        \/ Moves("rLinkVerified") /\ stage = "settlement_failed" /\ stage' = "settled_external"
    BY <1>11, <2>2 DEF RecoverSettled, StageUnless, SettledOutcomes, Outcomes, Moves
  <2> QED
    BY <1>8, <2>1, <2>3 DEF RecoverySteps, ReplaySteps
<1>12. CASE RecoverLinkVerified(r) \/ RecoverStageSettled(r)
  <2>1. /\ seen' = seen /\ stage' \in {stage, "link_verified", "settled"}
        /\ pc[r] \in {"rLinkVerified", "rSettled"}
    BY <1>12 DEF RecoverLinkVerified, RecoverStageSettled, StageUnless
  <2>2. \E q \in {"rSettled", "rConsume"} : Moves(q)
    BY <1>12 DEF RecoverLinkVerified, RecoverStageSettled, Moves
  <2>3. stage # "settlement_pending"
    BY <1>3, <2>1 DEF ConvergeSteps, SettledStages
  <2> QED
    BY <1>8, <2>1, <2>2, <2>3 DEF RecoverySteps
<1>13. CASE RecoverConsume(r) \/ CountWin(r) \/ RecoverFinalize(r)
  <2>1. \E q \in {"rCountWin", "rDeliver", "done"} : Moves(q)
    BY <1>13 DEF RecoverConsume, CountWin, RecoverFinalize, StoreResult, Moves
  <2>2. /\ UNCHANGED <<stage, seen>>
        /\ pc[r] \in {"rConsume", "rCountWin", "rFinalize"}
    BY <1>13 DEF RecoverConsume, CountWin, RecoverFinalize
  <2> QED
    BY <1>8, <2>1, <2>2 DEF RecoverySteps
<1>14. CASE RecoverDeliver(r)
  <2>1. pc[r] = "rDeliver" /\ UNCHANGED <<stage, seen>>
    BY <1>14 DEF RecoverDeliver
  <2>2. Moves("rFinalize")
    BY <1>1, <1>14, <2>1 DEF RecoverDeliver, RecoverySteps, Moves
  <2> QED
    BY <1>8, <2>1, <2>2 DEF RecoverySteps
<1>15. CASE Replay(r)
  <2>1. \E q \in {"done", "reconstructResult"} : Moves(q)
    BY <1>15 DEF Replay, ReplayConsumed, ReconstructJob, ReconstructResult, Moves
  <2>2. UNCHANGED <<stage, seen>>
    BY <1>15 DEF Replay, ReplayConsumed, ReconstructJob, ReconstructResult
  <2> QED
    BY <1>0, <1>5, <2>1, <2>2 DEF Known, RecoverySteps, ReplaySteps
<1> QED
  BY <1>6, <1>7, <1>9, <1>10, <1>11, <1>12, <1>13, <1>14, <1>15 DEF Recover

\* Every step.
LEMMA JobStep ==
  ASSUME Rail = "cdp", "job" \notin Faults, IndInv, JobKnown, [Next]_vars
  PROVE  JobKnown' /\ JobMove
<1>1. ASSUME NEW r \in Requests, Handle(r)
      PROVE  JobKnown' /\ JobMove
  <2>1. CASE Prepare(r)
    BY <2>1, JobPrepare
  <2>2. CASE Settle(r) /\ pc[r] # "callRetry"
    BY <2>2, JobSettle
  <2>3. CASE Settle(r) /\ pc[r] = "callRetry"
    <3>1. CallSettle(r)
      BY <2>3
      DEF Settle, SettleAnswer, RefundJob, NeverminedFailure, CdpFailure, RecordSettled,
          Finalize, LinkVerified, Settled, Consume, Deliver
    <3> QED
      BY <2>3, <3>1, JobRecover DEF JobMove
  <2>4. CASE Recover(r) \/ Replay(r)
    BY <2>4, JobRecover DEF JobMove
  <2> QED
    BY <1>1, <2>1, <2>2, <2>3, <2>4 DEF Handle
<1>2. ASSUME NEW r \in Requests, NEW q \in {"idle", "done", "acquire"},
             pc' = [pc EXCEPT ![r] = q], UNCHANGED <<stage, job>>,
             \A s \in Requests \ {r} : seen'[s] = seen[s]
      PROVE  JobKnown' /\ JobMove
  <2>1. q \in Steps \ FirstSeenSteps /\ q \notin RecoverySteps
    BY StepClasses DEF RecoverySteps, Working, SettleSteps, FinishSteps
  <2> QED
    BY <1>2, <2>1, RecoveringJob DEF JobMove, RecoverySteps
<1>3. ASSUME NEW r \in Requests, NEW b \in Bindings, Arrive(r, b)
      PROVE  JobKnown' /\ JobMove
  BY <1>2, <1>3 DEF Arrive, attempt, store, world, Goto, Finish
<1>4. ASSUME NEW r \in Requests, Crash(r) \/ Again(r)
      PROVE  JobKnown' /\ JobMove
  BY <1>2, <1>4 DEF Crash, Again, attempt, store, local, Finish, IndInv, TypeOK
<1>5. ASSUME UNCHANGED <<stage, job, pc, seen>>
      PROVE  JobKnown' /\ JobMove
  BY <1>5 DEF JobKnown, JobMove
<1>6. ASSUME NEW r \in Requests, Land(r) \/ Drop(r)
      PROVE  JobKnown' /\ JobMove
  BY <1>5, <1>6 DEF Land, Drop, attempt, store, local, flow
<1>7. CASE Lapse \/ UNCHANGED vars
  BY <1>5, <1>7 DEF Lapse, vars, attempt, store, local, flow
<1> QED
  BY <1>1, <1>3, <1>4, <1>6, <1>7 DEF Next

\* On the CDP rail the job takes only edges of AllowedTransitions, as long as
\* its writes are kept, whatever happens to those of the stage and however many
\* recoveries race, although the UPDATE matches the job's id alone.  On the
\* Nevermined rail it does not: a recovery may deliver the job the first
\* request is about to refund.
THEOREM JobsMoveLegally ==
  ASSUME Rail = "cdp", "job" \notin Faults
  PROVE  Spec => JobMovesLegally
<1>1. Init => JobKnown
  BY JobInit
<1>2. IndInv /\ JobKnown /\ [Next]_vars => JobKnown'
  BY JobStep
<1>3. IndInv /\ JobKnown /\ [Next]_vars =>
        [job = "none" \/ <<job, job'>> \in AllowedTransitions]_job
  BY JobStep DEF JobMove
<1> QED
  BY <1>1, <1>2, <1>3, Invariance, PTL DEF Spec, JobMovesLegally

=============================================================================
