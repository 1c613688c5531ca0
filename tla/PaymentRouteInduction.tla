------------------------ MODULE PaymentRouteInduction -----------------------
(***************************************************************************)
(* IndInv is an invariant of PaymentRoute, for every set of requests and   *)
(* bindings, either rail, any faults and any steps at which a Worker dies. *)
(*                                                                         *)
(* Most steps of the handler are routine: they move one request within its *)
(* phase and keep what the invariant relates.  RoutineStep says so once;   *)
(* the dozen steps that do more are proved one by one.                     *)
(***************************************************************************)
EXTENDS PaymentRouteInvariant, TLAPS

-----------------------------------------------------------------------------
(* The steps, spelled out. *)

\* The transitions of AdvanceJob write job states and stay in preparation.
LEMMA JobWriteSteps ==
  /\ DOMAIN JobWrites =
       {"toValidated", "toQuoted", "toChallenged", "toVerified", "toLocked",
        "toRouted", "toExecuting", "toQuarantine", "toVerifying", "toSettling"}
  /\ \A p \in DOMAIN JobWrites :
       /\ JobWrites[p].to \in JobStates
       /\ JobWrites[p].then \in PrepareSteps
BY DEF JobWrites, JobStates, PrepareSteps, FirstSeenSteps, SettleSteps, FinishSteps

\* The phases of a request and how they nest.
LEMMA StepClasses ==
  /\ PrepareSteps =
       {"toValidated", "toQuoted", "toChallenged", "toVerified", "toLocked",
        "toRouted", "toExecuting", "toQuarantine", "toVerifying", "toSettling",
        "createJob", "verify", "toUnpaid", "stageUnpaid", "stageVerified",
        "execute", "toRejected", "stageExecuted", "createPending",
        "recordPending"}
  /\ FirstSeenSteps = PrepareSteps \cup SettleSteps \cup FinishSteps
  /\ ConvergeSteps \subseteq RecoverySteps \ {"readAttempt"}
  /\ CdpSteps \subseteq RecoverySteps \ {"readAttempt"}
  /\ "idle" \notin Working /\ "done" \notin Working
  /\ Steps = Working \cup {"idle", "done"}
BY JobWriteSteps
DEF PrepareSteps, FirstSeenSteps, SettleSteps, FinishSteps, ConvergeSteps,
    CdpSteps, RetrySteps, RecoverySteps, ReplaySteps, Working, Steps

-----------------------------------------------------------------------------
(* Types. *)

\* The empty database and the idle requests are well typed.
LEMMA TypeInit == Init => TypeOK
<1> SUFFICES ASSUME Init PROVE TypeOK
  OBVIOUS
<1>1. NotSeen \in [stage : Stages \cup {"none"}, kind : Kinds,
                   tx : Refs, job : JobStates \cup {"none"}]
  BY DEF NotSeen, Kinds, Refs
<1>2. NoEvidence \in [kind : {"none", "ok", "explicit", "ambiguous"}, tx : Refs]
  BY DEF NoEvidence, Refs
<1>3. pc \in [Requests -> Steps] /\ resp \in [Requests -> Answers]
  BY DEF Init, Steps, Answers
<1>4. seen \in [Requests -> [stage : Stages \cup {"none"}, kind : Kinds,
                             tx : Refs, job : JobStates \cup {"none"}]]
  BY <1>1 DEF Init
<1>5. ev \in [Requests -> [kind : {"none", "ok", "explicit", "ambiguous"},
                           tx : Refs]]
  BY <1>2 DEF Init
<1> QED
  BY <1>3, <1>4, <1>5 DEF Init, TypeOK, Refs, Kinds

\* The steps up to the write that precedes the settle call keep the types.
LEMMA TypePrepare ==
  ASSUME TypeOK, NEW r \in Requests, Prepare(r)
  PROVE  TypeOK'
<1> USE JobWriteSteps
    DEF TypeOK, attempt, store, world, local, flow, Goto, Finish, Serve, Steps,
        Working, FirstSeenSteps, RecoverySteps, ReplaySteps, Answers, Refs
<1>1. CASE FirstSeen(r)
  BY <1>1
  DEF FirstSeen, Stages
<1>2. CASE Duplicate(r)
  BY <1>2
  DEF Duplicate
<1>3. CASE CreateJob(r)
  BY <1>3
  DEF CreateJob, JobStates
<1>4. CASE AdvanceJob(r)
  BY <1>4
  DEF AdvanceJob, WriteJob, JobStates, PrepareSteps
<1>5. CASE Verify(r)
  BY <1>5
  DEF Verify
<1>6. CASE RejectUnpaid(r)
  BY <1>6
  DEF RejectUnpaid, WriteJob, JobStates
<1>7. CASE StageUnpaid(r)
  BY <1>7
  DEF StageUnpaid, StageUnless, Stages
<1>8. CASE StageVerified(r)
  BY <1>8
  DEF StageVerified, StageUnless, Stages
<1>9. CASE Execute(r)
  BY <1>9
  DEF Execute
<1>10. CASE RejectJob(r)
  BY <1>10
  DEF RejectJob, WriteJob, JobStates
<1>11. CASE StageExecuted(r)
  BY <1>11
  DEF StageExecuted, StageUnless, Stages
<1>12. CASE CreatePending(r)
  BY <1>12
  DEF CreatePending
<1>13. CASE RecordPending(r)
  BY <1>13
  DEF RecordPending, StageUnless, Stages
<1> QED
  BY <1>1, <1>2, <1>3, <1>4, <1>5, <1>6, <1>7, <1>8, <1>9, <1>10, <1>11,
     <1>12, <1>13
  DEF Prepare

\* The steps from the settle call to the delivered job keep the types.
LEMMA TypeSettle ==
  ASSUME TypeOK, NEW r \in Requests, Settle(r)
  PROVE  TypeOK'
<1> USE JobWriteSteps
    DEF TypeOK, attempt, store, world, local, flow, Goto, Finish, Serve, Steps,
        Working, FirstSeenSteps, RecoverySteps, ReplaySteps, Answers, Refs
<1>1. CASE CallSettle(r)
  BY <1>1
  DEF CallSettle
<1>2. CASE SettleAnswer(r)
  BY <1>2
  DEF SettleAnswer, Evidence
<1>3. CASE RefundJob(r)
  BY <1>3
  DEF RefundJob, WriteJob, JobStates
<1>4. CASE NeverminedFailure(r)
  <2>1. stage' \in Stages \cup {"none"}
    BY <1>4 DEF NeverminedFailure, StageUnless, Stages
  <2> QED
    BY <1>4, <2>1 DEF NeverminedFailure
<1>5. CASE CdpFailure(r)
  BY <1>5
  DEF CdpFailure, CdpOutcome, Stages, Kinds
<1>6. CASE RecordSettled(r)
  BY <1>6
  DEF RecordSettled, StageUnless, Stages
<1>7. CASE Finalize(r)
  BY <1>7
  DEF Finalize, StoreResult
<1>8. CASE LinkVerified(r)
  BY <1>8
  DEF LinkVerified, StageUnless, Stages
<1>9. CASE Settled(r)
  BY <1>9
  DEF Settled, StageUnless, Stages
<1>10. CASE Consume(r)
  BY <1>10
  DEF Consume
<1>11. CASE Deliver(r)
  BY <1>11
  DEF Deliver, WriteJob, JobStates
<1> QED
  BY <1>1, <1>2, <1>3, <1>4, <1>5, <1>6, <1>7, <1>8, <1>9, <1>10, <1>11
  DEF Settle

\* The steps of a recovery keep the types.
LEMMA TypeRecover ==
  ASSUME TypeOK, NEW r \in Requests, Recover(r)
  PROVE  TypeOK'
<1> USE JobWriteSteps
    DEF TypeOK, attempt, store, world, local, flow, Goto, Finish, Serve, Steps,
        Working, FirstSeenSteps, RecoverySteps, ReplaySteps, Answers, Refs
<1>1. CASE ReadAttempt(r)
  BY <1>1
  DEF ReadAttempt
<1>2. CASE ReadJob(r)
  <2>1. seen' \in [Requests -> [stage : Stages \cup {"none"}, kind : Kinds,
                              tx : Refs, job : JobStates \cup {"none"}]]
    BY <1>2 DEF ReadJob
  <2>2. pc' \in [Requests -> Steps] /\ resp' \in [Requests -> Answers]
    BY <1>2 DEF ReadJob
  <2> QED
    BY <1>2, <2>1, <2>2 DEF ReadJob
<1>3. CASE ReconcileSettled(r)
  BY <1>3
  DEF ReconcileSettled
<1>4. CASE ReconcileOpen(r)
  BY <1>4
  DEF ReconcileOpen
<1>5. CASE ChainCheck(r)
  BY <1>5
  DEF ChainCheck
<1>6. CASE CountTry(r)
  BY <1>6
  DEF CountTry
<1>7. CASE RetryAnswer(r)
  BY <1>7
  DEF RetryAnswer, Evidence
<1>8. CASE RecordRetryFailure(r)
  BY <1>8
  DEF RecordRetryFailure, CdpOutcome, Stages, Kinds
<1>9. CASE RecoverSettled(r)
  BY <1>9
  DEF RecoverSettled, StageUnless, Stages
<1>10. CASE RecoverLinkVerified(r)
  BY <1>10
  DEF RecoverLinkVerified, StageUnless, Stages
<1>11. CASE RecoverStageSettled(r)
  BY <1>11
  DEF RecoverStageSettled, StageUnless, Stages
<1>12. CASE RecoverConsume(r)
  BY <1>12
  DEF RecoverConsume
<1>13. CASE CountWin(r)
  BY <1>13
  DEF CountWin
<1>14. CASE RecoverDeliver(r)
  BY <1>14
  DEF RecoverDeliver, WriteJob, JobStates
<1>15. CASE RecoverFinalize(r)
  BY <1>15
  DEF RecoverFinalize, StoreResult
<1> QED
  BY <1>1, <1>2, <1>3, <1>4, <1>5, <1>6, <1>7, <1>8, <1>9, <1>10, <1>11,
     <1>12, <1>13, <1>14, <1>15
  DEF Recover

\* The steps of a replay keep the types.
LEMMA TypeReplay ==
  ASSUME TypeOK, NEW r \in Requests, Replay(r)
  PROVE  TypeOK'
<1> USE JobWriteSteps
    DEF TypeOK, attempt, store, world, local, flow, Goto, Finish, Serve, Steps,
        Working, FirstSeenSteps, RecoverySteps, ReplaySteps, Answers, Refs
<1>1. CASE ReplayConsumed(r)
  <2>1. pc' \in [Requests -> Steps] /\ resp' \in [Requests -> Answers]
    BY <1>1 DEF ReplayConsumed
  <2>2. body' \in [Requests -> Refs]
    BY <1>1 DEF ReplayConsumed
  <2> QED
    BY <1>1, <2>1, <2>2 DEF ReplayConsumed
<1>2. CASE ReconstructJob(r)
  BY <1>2
  DEF ReconstructJob
<1>3. CASE ReconstructResult(r)
  BY <1>3
  DEF ReconstructResult
<1> QED
  BY <1>1, <1>2, <1>3
  DEF Replay

\* Every step, the crashes and the chain's included, keeps the types.
LEMMA TypeNext == TypeOK /\ [Next]_vars => TypeOK'
<1> SUFFICES ASSUME TypeOK, [Next]_vars PROVE TypeOK'
  OBVIOUS
<1> USE DEF TypeOK, attempt, store, world, local, flow
<1>1. ASSUME NEW r \in Requests, NEW b \in Bindings, Arrive(r, b)
      PROVE  TypeOK'
  BY <1>1 DEF Arrive, Goto, Finish, Steps, Working, Answers
<1>2. ASSUME NEW r \in Requests, Handle(r)
      PROVE  TypeOK'
  BY <1>2, TypePrepare, TypeSettle, TypeRecover, TypeReplay DEF Handle
<1>3. ASSUME NEW r \in Requests, Land(r) \/ Drop(r)
      PROVE  TypeOK'
  BY <1>3 DEF Land, Drop
<1>4. ASSUME NEW r \in Requests, Crash(r)
      PROVE  TypeOK'
  BY <1>4 DEF Crash, Finish, Steps, Answers
<1>5. ASSUME NEW r \in Requests, Again(r)
      PROVE  TypeOK'
  BY <1>5 DEF Again, NotSeen, NoEvidence, Kinds, Refs, Steps, Answers
<1>6. CASE Lapse
  BY <1>6 DEF Lapse
<1>7. CASE UNCHANGED vars
  BY <1>7 DEF vars
<1> QED
  BY <1>1, <1>2, <1>3, <1>4, <1>5, <1>6, <1>7 DEF Next

\* Every reachable state is well typed: no write of the route puts a value
\* into a row or a local that its column or enum does not have.
THEOREM TypeCorrect == Spec => []TypeOK
<1>1. Init => TypeOK
  BY TypeInit
<1>2. TypeOK /\ [Next]_vars => TypeOK'
  BY TypeNext
<1> QED
  BY <1>1, <1>2, PTL DEF Spec

-----------------------------------------------------------------------------
(* Routine steps. *)

\* Moving from p to q starts no phase: no preparation, settle call,
\* finalization or convergence begins, and no call is sent again.
Advances(p, q) ==
  /\ q \in FirstSeenSteps => p \in FirstSeenSteps
  /\ q \in PrepareSteps => p \in PrepareSteps
  /\ q \in SettleSteps => p \in SettleSteps
  /\ q \in FinishSteps => p \in FinishSteps \ {"finalize"}
  /\ q \in ConvergeSteps => p \in ConvergeSteps
  /\ q \notin {"finalize", "callSettle"}
  /\ p \in SentSteps => q \in SentSteps

\* The stage stays in its phase.
Kin(s, t) ==
  \/ t = s
  \/ {s, t} \subseteq {"acquired", "verified", "executed"}
  \/ {s, t} \subseteq OpenStages
  \/ {s, t} \subseteq SettledStages

\* Nothing the other requests rely on changes.
Keeps(r, q) ==
  /\ pc' = [pc EXCEPT ![r] = q]
  /\ Kin(stage, stage')
  /\ UNCHANGED <<bound, call, charges, author, req>>
  /\ kind' = "none" => kind = "none"
  /\ Rail = "nevermined" => kind' = kind
  /\ result' = "final" <=> result = "final"
  /\ \A s \in Requests \ {r} :
       /\ seen'[s] = seen[s] /\ ev'[s] = ev[s]
       /\ resp'[s] = resp[s] /\ body'[s] = body[s]

\* What the request itself has read, holds and answers is true.
Justified(r, q) ==
  /\ q \in Working => \/ pc[r] \in Working \ {"acquire"}
                      \/ req[r] = bound /\ stage # "none"
  /\ q \in RecoverySteps \ {"readAttempt"} =>
       \/ {stage, seen'[r].stage} \subseteq OpenStages
       \/ /\ pc[r] \in RecoverySteps \ {"readAttempt"}
          /\ seen'[r].stage = seen[r].stage
  /\ q = "chainCheck" => seen'[r].tx # NoRequest
  /\ q \in CdpSteps => Rail = "cdp"
  /\ q \in RetrySteps => kind # "none"
  /\ seen'[r].kind = "none" \/ kind # "none"
  /\ q \in {"recordSettled", "recoverSettled"} => ev'[r].kind = "ok"
  /\ ev'[r].kind = "ok" => charges > 0
  /\ resp'[r] = "none" \/ q = "done"
  /\ resp'[r] = "ok" => result = "final" /\ req[r] = bound /\ body'[r] = author

Routine(r, q) == Advances(pc[r], q) /\ Keeps(r, q) /\ Justified(r, q)

\* A routine step keeps the inductive invariant.
LEMMA RoutineStep ==
  ASSUME IndInv, NEW r \in Requests, NEW q \in Steps, Routine(r, q), TypeOK'
  PROVE  IndInv'
<1>1. (\A s \in Requests \ {r} : pc'[s] = pc[s]) /\ pc'[r] = q
  BY DEF Routine, Keeps, IndInv, TypeOK
<1>2. /\ stage' = "none" => stage = "none"
      /\ stage \in SettledStages <=> stage' \in SettledStages
      /\ stage' \in EarlyStages => stage \in EarlyStages
      /\ stage \in {"acquired", "verified", "executed"} =>
           stage' \in {"acquired", "verified", "executed"}
  BY DEF Routine, Keeps, Kin, OpenStages, SettledStages, EarlyStages
<1> USE DEF TypeOK, Routine, Advances, Keeps, Justified, IndInv
<1>3. OneFirstSeen'
  <2>1. \A s, t \in Requests :
          pc'[s] \in FirstSeenSteps /\ pc'[t] \in FirstSeenSteps => s = t
    BY <1>1 DEF OneFirstSeen
  <2>2. ASSUME stage' = "none", NEW s \in Requests
        PROVE  pc'[s] \in {"idle", "done", "acquire"}
    BY <2>2, <1>1, <1>2, StepClasses DEF OneFirstSeen
  <2> QED
    BY <2>1, <2>2 DEF OneFirstSeen
<1>4. BoundRequests'
  BY <1>1 DEF BoundRequests
<1>5. AnsweredIsDone'
  BY <1>1 DEF AnsweredIsDone
<1>6. SeenIsOpen'
  BY <1>1 DEF SeenIsOpen
<1>7. OneCallEach'
  BY <1>1 DEF OneCallEach
<1>8. EarlyIsUncharged'
  BY <1>1, <1>2 DEF EarlyIsUncharged, OpenStages, EarlyStages
<1>9. OneCallUnlessFailed'
  <2>1. Rail = "nevermined" =>
          kind' = "none" /\ \A s \in Requests : pc'[s] \notin CdpSteps
    BY <1>1, RailAssumption DEF OneCallUnlessFailed
  <2>2. ASSUME kind' = "none"
        PROVE  kind = "none" /\ q \notin RetrySteps /\ seen'[r].kind = "none"
    BY <2>2
  <2>3. kind' = "none" =>
          \A s \in Requests : pc'[s] \notin RetrySteps /\ seen'[s].kind = "none"
    BY <1>1, <2>2 DEF OneCallUnlessFailed
  <2>4. kind' = "none" =>
          \A s, t \in Requests : pc'[s] = "callSettle" => call'[t] = "none"
    BY <1>1, <2>2 DEF OneCallUnlessFailed
  <2> QED
    BY <2>1, <2>2, <2>3, <2>4 DEF OneCallUnlessFailed
<1>10. ChargesAreLanded'
  BY DEF ChargesAreLanded
<1>11. SettledIsCharged'
  <2>1. \A s \in Requests : ev'[s].kind = "ok" => charges > 0
    BY DEF SettledIsCharged
  <2>2. \A s \in Requests :
          pc'[s] \in {"recordSettled", "recoverSettled"} => ev'[s].kind = "ok"
    BY <1>1 DEF SettledIsCharged
  <2>3. stage' \in SettledStages => charges > 0
    BY <1>2 DEF SettledIsCharged
  <2> QED
    BY <2>1, <2>2, <2>3 DEF SettledIsCharged
<1>12. OneFinalizer'
  BY <1>1, <1>2 DEF OneFinalizer, FinishSteps
<1>13. ServedIsPaidAndFinal'
  BY <1>1 DEF ServedIsPaidAndFinal, SettledIsCharged, OneFinalizer
<1> QED
  BY <1>3, <1>4, <1>5, <1>6, <1>7, <1>8, <1>9, <1>10, <1>11, <1>12, <1>13

\* What a recovery read of an outcome is still on record, and whoever retries
\* acts on one.
LEMMA FailureIsKept ==
  ASSUME IndInv, NEW r \in Requests
  PROVE  /\ seen[r].kind = "none" \/ kind # "none"
         /\ pc[r] \in RetrySteps => kind # "none"
BY DEF IndInv, OneCallUnlessFailed

\* All preparation steps but FirstSeen, StageUnpaid and RecordPending are
\* routine: they only advance the first request and its stage and job.
LEMMA RoutinePrepare ==
  ASSUME IndInv, NEW r \in Requests,
         \/ Duplicate(r) \/ CreateJob(r) \/ AdvanceJob(r) \/ Verify(r)
         \/ RejectUnpaid(r) \/ StageVerified(r) \/ Execute(r)
         \/ RejectJob(r) \/ StageExecuted(r) \/ CreatePending(r)
  PROVE  Routine(r, pc'[r])
<1> USE DEF Goto, Finish, Serve, IndInv, TypeOK
<1>0. /\ seen[r].kind = "none" \/ kind # "none"
      /\ pc[r] \in RetrySteps => kind # "none"
  BY FailureIsKept
<1>1. CASE Duplicate(r)
  <2>1. Advances(pc[r], pc'[r])
    BY <1>1, StepClasses, JobWriteSteps
    DEF Duplicate, Advances, SettleSteps, FinishSteps, ConvergeSteps,
        SentSteps
  <2>2. Keeps(r, pc'[r])
    BY <1>1
    DEF Duplicate, Keeps, Kin, attempt, store, world, local
  <2>3. Justified(r, pc'[r])
    <3>1. /\ seen' = seen /\ ev' = ev
          /\ stage # "none" /\ pc[r] = "acquire"
      BY <1>1 DEF Duplicate, local
    <3>2. \/ /\ pc'[r] \in {"readConsumed", "readAttempt"}
             /\ req[r] = bound
             /\ resp'[r] = resp[r]
          \/ pc'[r] = "done" /\ resp'[r] = "conflict"
      BY <1>1 DEF Duplicate
    <3>3. resp[r] = "none"
      BY <3>1 DEF AnsweredIsDone
    <3>4. ev[r].kind = "ok" => charges > 0
      BY DEF SettledIsCharged
    <3> QED
      BY <1>0, <3>1, <3>2, <3>3, <3>4, StepClasses
      DEF Justified, Working, RecoverySteps, CdpSteps, RetrySteps
  <2> QED
    BY <2>1, <2>2, <2>3
    DEF Routine
<1>2. CASE CreateJob(r)
  <2>1. Advances(pc[r], pc'[r])
    BY <1>2, StepClasses, JobWriteSteps
    DEF CreateJob, Advances, SettleSteps, FinishSteps, ConvergeSteps,
        SentSteps
  <2>2. Keeps(r, pc'[r])
    BY <1>2
    DEF CreateJob, Keeps, Kin, attempt, store, world, local
  <2>3. Justified(r, pc'[r])
    BY <1>0, <1>2, StepClasses, JobWriteSteps, RailAssumption
    DEF CreateJob, Justified, local, Working, RecoverySteps, ReplaySteps,
        CdpSteps, RetrySteps, SettleSteps, FinishSteps, SettledIsCharged,
        AnsweredIsDone
  <2> QED
    BY <2>1, <2>2, <2>3
    DEF Routine
<1>3. CASE AdvanceJob(r)
  <2>1. Advances(pc[r], pc'[r])
    BY <1>3, StepClasses, JobWriteSteps
    DEF AdvanceJob, Advances, SettleSteps, FinishSteps, ConvergeSteps,
        SentSteps
  <2>2. Keeps(r, pc'[r])
    BY <1>3
    DEF AdvanceJob, Keeps, Kin, attempt, store, world, local
  <2>3. Justified(r, pc'[r])
    BY <1>0, <1>3, StepClasses, JobWriteSteps, RailAssumption
    DEF AdvanceJob, Justified, local, Working, RecoverySteps, ReplaySteps,
        CdpSteps, RetrySteps, SettleSteps, FinishSteps, SettledIsCharged,
        AnsweredIsDone
  <2> QED
    BY <2>1, <2>2, <2>3
    DEF Routine
<1>4. CASE Verify(r)
  <2>1. Advances(pc[r], pc'[r])
    BY <1>4, StepClasses, JobWriteSteps
    DEF Verify, Advances, SettleSteps, FinishSteps, ConvergeSteps, SentSteps
  <2>2. Keeps(r, pc'[r])
    BY <1>4
    DEF Verify, Keeps, Kin, attempt, store, world, local
  <2>3. Justified(r, pc'[r])
    BY <1>0, <1>4, StepClasses, JobWriteSteps, RailAssumption
    DEF Verify, Justified, local, Working, RecoverySteps, ReplaySteps,
        CdpSteps, RetrySteps, SettleSteps, FinishSteps, SettledIsCharged,
        AnsweredIsDone
  <2> QED
    BY <2>1, <2>2, <2>3
    DEF Routine
<1>5. CASE RejectUnpaid(r)
  <2>1. Advances(pc[r], pc'[r])
    BY <1>5, StepClasses, JobWriteSteps
    DEF RejectUnpaid, Advances, SettleSteps, FinishSteps, ConvergeSteps,
        SentSteps
  <2>2. Keeps(r, pc'[r])
    BY <1>5
    DEF RejectUnpaid, Keeps, Kin, attempt, store, world, local
  <2>3. Justified(r, pc'[r])
    BY <1>0, <1>5, StepClasses, JobWriteSteps, RailAssumption
    DEF RejectUnpaid, Justified, local, Working, RecoverySteps, ReplaySteps,
        CdpSteps, RetrySteps, SettleSteps, FinishSteps, SettledIsCharged,
        AnsweredIsDone
  <2> QED
    BY <2>1, <2>2, <2>3
    DEF Routine
<1>6. CASE StageVerified(r)
  <2>1. Advances(pc[r], pc'[r])
    BY <1>6, StepClasses, JobWriteSteps
    DEF StageVerified, Advances, SettleSteps, FinishSteps, ConvergeSteps,
        SentSteps
  <2>2. Keeps(r, pc'[r])
    BY <1>6
    DEF StageVerified, Keeps, Kin, attempt, store, world, local, StageUnless,
        TransitionOutcomes, Outcomes, OpenStages, SettledStages
  <2>3. Justified(r, pc'[r])
    BY <1>0, <1>6, StepClasses, JobWriteSteps, RailAssumption
    DEF StageVerified, Justified, local, Working, RecoverySteps, ReplaySteps,
        CdpSteps, RetrySteps, SettleSteps, FinishSteps, SettledIsCharged,
        AnsweredIsDone
  <2> QED
    BY <2>1, <2>2, <2>3
    DEF Routine
<1>7. CASE Execute(r)
  <2>1. Advances(pc[r], pc'[r])
    BY <1>7, StepClasses, JobWriteSteps
    DEF Execute, Advances, SettleSteps, FinishSteps, ConvergeSteps, SentSteps
  <2>2. Keeps(r, pc'[r])
    BY <1>7
    DEF Execute, Keeps, Kin, attempt, store, world, local
  <2>3. Justified(r, pc'[r])
    BY <1>0, <1>7, StepClasses, JobWriteSteps, RailAssumption
    DEF Execute, Justified, local, Working, RecoverySteps, ReplaySteps,
        CdpSteps, RetrySteps, SettleSteps, FinishSteps, SettledIsCharged,
        AnsweredIsDone
  <2> QED
    BY <2>1, <2>2, <2>3
    DEF Routine
<1>8. CASE RejectJob(r)
  <2>1. Advances(pc[r], pc'[r])
    BY <1>8, StepClasses, JobWriteSteps
    DEF RejectJob, Advances, SettleSteps, FinishSteps, ConvergeSteps,
        SentSteps
  <2>2. Keeps(r, pc'[r])
    BY <1>8
    DEF RejectJob, Keeps, Kin, attempt, store, world, local
  <2>3. Justified(r, pc'[r])
    BY <1>0, <1>8, StepClasses, JobWriteSteps, RailAssumption
    DEF RejectJob, Justified, local, Working, RecoverySteps, ReplaySteps,
        CdpSteps, RetrySteps, SettleSteps, FinishSteps, SettledIsCharged,
        AnsweredIsDone
  <2> QED
    BY <2>1, <2>2, <2>3
    DEF Routine
<1>9. CASE StageExecuted(r)
  <2>1. Advances(pc[r], pc'[r])
    BY <1>9, StepClasses, JobWriteSteps
    DEF StageExecuted, Advances, SettleSteps, FinishSteps, ConvergeSteps,
        SentSteps
  <2>2. Keeps(r, pc'[r])
    BY <1>9
    DEF StageExecuted, Keeps, Kin, attempt, store, world, local, StageUnless,
        TransitionOutcomes, Outcomes, OpenStages, SettledStages
  <2>3. Justified(r, pc'[r])
    BY <1>0, <1>9, StepClasses, JobWriteSteps, RailAssumption
    DEF StageExecuted, Justified, local, Working, RecoverySteps, ReplaySteps,
        CdpSteps, RetrySteps, SettleSteps, FinishSteps, SettledIsCharged,
        AnsweredIsDone
  <2> QED
    BY <2>1, <2>2, <2>3
    DEF Routine
<1>10. CASE CreatePending(r)
  <2>1. Advances(pc[r], pc'[r])
    BY <1>10, StepClasses, JobWriteSteps
    DEF CreatePending, Advances, SettleSteps, FinishSteps, ConvergeSteps,
        SentSteps
  <2>2. result # "final"
    BY <1>10, StepClasses
    DEF CreatePending, EarlyIsUncharged, OneFinalizer, SettledStages
  <2>3. Keeps(r, pc'[r])
    BY <1>10, <2>2
    DEF CreatePending, Keeps, Kin, attempt, store, world, local
  <2>4. Justified(r, pc'[r])
    BY <1>0, <1>10, StepClasses, JobWriteSteps, RailAssumption
    DEF CreatePending, Justified, local, Working, RecoverySteps, ReplaySteps,
        CdpSteps, RetrySteps, SettleSteps, FinishSteps, SettledIsCharged,
        AnsweredIsDone
  <2> QED
    BY <2>1, <2>3, <2>4
    DEF Routine
<1> QED
  BY <1>1, <1>2, <1>3, <1>4, <1>5, <1>6, <1>7, <1>8, <1>9, <1>10

\* The answer of the settle call, the record of its failure and the writes
\* after a stored result are routine.
LEMMA RoutineSettle ==
  ASSUME IndInv, NEW r \in Requests,
         \/ SettleAnswer(r) \/ RefundJob(r) \/ NeverminedFailure(r)
         \/ CdpFailure(r) \/ LinkVerified(r) \/ Settled(r)
         \/ Consume(r) \/ Deliver(r)
  PROVE  Routine(r, pc'[r])
<1> USE DEF Goto, Finish, Serve, IndInv, TypeOK
<1>0. /\ seen[r].kind = "none" \/ kind # "none"
      /\ pc[r] \in RetrySteps => kind # "none"
  BY FailureIsKept
<1>1. CASE SettleAnswer(r)
  <2>1. Advances(pc[r], pc'[r])
    BY <1>1, StepClasses, JobWriteSteps
    DEF SettleAnswer, Advances, SettleSteps, FinishSteps, ConvergeSteps,
        SentSteps
  <2>2. Keeps(r, pc'[r])
    BY <1>1
    DEF SettleAnswer, Keeps, Kin, attempt, store, world, local
  <2>3. Justified(r, pc'[r])
    BY <1>0, <1>1, StepClasses, JobWriteSteps, RailAssumption
    DEF SettleAnswer, Justified, local, Working, RecoverySteps, ReplaySteps,
        CdpSteps, RetrySteps, SettleSteps, FinishSteps, SettledIsCharged,
        AnsweredIsDone, Evidence, ChargesAreLanded
  <2> QED
    BY <2>1, <2>2, <2>3
    DEF Routine
<1>2. CASE RefundJob(r)
  <2>1. Advances(pc[r], pc'[r])
    BY <1>2, StepClasses, JobWriteSteps
    DEF RefundJob, Advances, SettleSteps, FinishSteps, ConvergeSteps,
        SentSteps
  <2>2. Keeps(r, pc'[r])
    BY <1>2
    DEF RefundJob, Keeps, Kin, attempt, store, world, local
  <2>3. Justified(r, pc'[r])
    BY <1>0, <1>2, StepClasses, JobWriteSteps, RailAssumption
    DEF RefundJob, Justified, local, Working, RecoverySteps, ReplaySteps,
        CdpSteps, RetrySteps, SettleSteps, FinishSteps, SettledIsCharged,
        AnsweredIsDone
  <2> QED
    BY <2>1, <2>2, <2>3
    DEF Routine
<1>3. CASE NeverminedFailure(r)
  <2>1. Advances(pc[r], pc'[r])
    BY <1>3, StepClasses, JobWriteSteps
    DEF NeverminedFailure, Advances, SettleSteps, FinishSteps, ConvergeSteps,
        SentSteps
  <2>2. Keeps(r, pc'[r])
    BY <1>3
    DEF NeverminedFailure, Keeps, Kin, attempt, store, world, local,
        StageUnless, TransitionOutcomes, Outcomes, OpenStages, SettledStages
  <2>3. Justified(r, pc'[r])
    BY <1>0, <1>3, StepClasses, JobWriteSteps, RailAssumption
    DEF NeverminedFailure, Justified, local, Working, RecoverySteps,
        ReplaySteps, CdpSteps, RetrySteps, SettleSteps, FinishSteps, SettledIsCharged,
        AnsweredIsDone
  <2> QED
    BY <2>1, <2>2, <2>3
    DEF Routine
<1>4. CASE CdpFailure(r)
  <2>1. Advances(pc[r], pc'[r])
    BY <1>4, StepClasses, JobWriteSteps
    DEF CdpFailure, Advances, SettleSteps, FinishSteps, ConvergeSteps,
        SentSteps
  <2>2. Keeps(r, pc'[r])
    BY <1>4
    DEF CdpFailure, Keeps, Kin, attempt, store, world, local, CdpOutcome,
        Outcomes, OpenStages
  <2>3. Justified(r, pc'[r])
    BY <1>0, <1>4, StepClasses, JobWriteSteps, RailAssumption
    DEF CdpFailure, Justified, local, Working, RecoverySteps, ReplaySteps,
        CdpSteps, RetrySteps, SettleSteps, FinishSteps, SettledIsCharged,
        AnsweredIsDone
  <2> QED
    BY <2>1, <2>2, <2>3
    DEF Routine
<1>5. CASE LinkVerified(r)
  <2>1. Advances(pc[r], pc'[r])
    BY <1>5, StepClasses, JobWriteSteps
    DEF LinkVerified, Advances, SettleSteps, FinishSteps, ConvergeSteps,
        SentSteps
  <2>2. Keeps(r, pc'[r])
    BY <1>5
    DEF LinkVerified, Keeps, Kin, attempt, store, world, local, StageUnless,
        TransitionOutcomes, Outcomes, OpenStages, SettledStages
  <2>3. Justified(r, pc'[r])
    BY <1>0, <1>5, StepClasses, JobWriteSteps, RailAssumption
    DEF LinkVerified, Justified, local, Working, RecoverySteps, ReplaySteps,
        CdpSteps, RetrySteps, SettleSteps, FinishSteps, SettledIsCharged,
        AnsweredIsDone
  <2> QED
    BY <2>1, <2>2, <2>3
    DEF Routine
<1>6. CASE Settled(r)
  <2>1. Advances(pc[r], pc'[r])
    BY <1>6, StepClasses, JobWriteSteps
    DEF Settled, Advances, SettleSteps, FinishSteps, ConvergeSteps, SentSteps
  <2>2. Keeps(r, pc'[r])
    BY <1>6
    DEF Settled, Keeps, Kin, attempt, store, world, local, StageUnless,
        TransitionOutcomes, Outcomes, OpenStages, SettledStages
  <2>3. Justified(r, pc'[r])
    BY <1>0, <1>6, StepClasses, JobWriteSteps, RailAssumption
    DEF Settled, Justified, local, Working, RecoverySteps, ReplaySteps,
        CdpSteps, RetrySteps, SettleSteps, FinishSteps, SettledIsCharged,
        AnsweredIsDone
  <2> QED
    BY <2>1, <2>2, <2>3
    DEF Routine
<1>7. CASE Consume(r)
  <2>1. Advances(pc[r], pc'[r])
    BY <1>7, StepClasses, JobWriteSteps
    DEF Consume, Advances, SettleSteps, FinishSteps, ConvergeSteps, SentSteps
  <2>2. Keeps(r, pc'[r])
    BY <1>7
    DEF Consume, Keeps, Kin, attempt, store, world, local
  <2>3. Justified(r, pc'[r])
    BY <1>0, <1>7, StepClasses, JobWriteSteps, RailAssumption
    DEF Consume, Justified, local, Working, RecoverySteps, ReplaySteps,
        CdpSteps, RetrySteps, SettleSteps, FinishSteps, SettledIsCharged,
        AnsweredIsDone
  <2> QED
    BY <2>1, <2>2, <2>3
    DEF Routine
<1>8. CASE Deliver(r)
  <2>1. Advances(pc[r], pc'[r])
    BY <1>8, StepClasses, JobWriteSteps
    DEF Deliver, Advances, SettleSteps, FinishSteps, ConvergeSteps, SentSteps
  <2>2. Keeps(r, pc'[r])
    BY <1>8
    DEF Deliver, Keeps, Kin, attempt, store, world, local
  <2>3. Justified(r, pc'[r])
    BY <1>0, <1>8, StepClasses, JobWriteSteps, RailAssumption
    DEF Deliver, Justified, local, Working, RecoverySteps, ReplaySteps,
        CdpSteps, RetrySteps, SettleSteps, FinishSteps, SettledIsCharged,
        AnsweredIsDone, OneFinalizer, BoundRequests
  <2> QED
    BY <2>1, <2>2, <2>3
    DEF Routine
<1> QED
  BY <1>1, <1>2, <1>3, <1>4, <1>5, <1>6, <1>7, <1>8

\* A recovery is routine except for its write to settled_external and for
\* the result it stores.
LEMMA RoutineRecover ==
  ASSUME IndInv, NEW r \in Requests,
         \/ ReadAttempt(r) \/ ReadJob(r) \/ ReconcileSettled(r)
         \/ ReconcileOpen(r) \/ ChainCheck(r) \/ CountTry(r)
         \/ RetryAnswer(r) \/ RecordRetryFailure(r)
         \/ RecoverLinkVerified(r) \/ RecoverStageSettled(r)
         \/ RecoverConsume(r) \/ CountWin(r) \/ RecoverDeliver(r)
  PROVE  Routine(r, pc'[r])
<1> USE DEF Goto, Finish, Serve, IndInv, TypeOK
<1>0. /\ seen[r].kind = "none" \/ kind # "none"
      /\ pc[r] \in RetrySteps => kind # "none"
  BY FailureIsKept
<1>1. CASE ReadAttempt(r)
  <2>1. Advances(pc[r], pc'[r])
    BY <1>1, StepClasses, JobWriteSteps
    DEF ReadAttempt, Advances, SettleSteps, FinishSteps, ConvergeSteps,
        SentSteps
  <2>2. Keeps(r, pc'[r])
    BY <1>1
    DEF ReadAttempt, Keeps, Kin, attempt, store, world, local
  <2>3. Justified(r, pc'[r])
    BY <1>0, <1>1, StepClasses, JobWriteSteps, RailAssumption
    DEF ReadAttempt, Justified, local, Working, RecoverySteps, ReplaySteps,
        CdpSteps, RetrySteps, SettleSteps, FinishSteps, SettledIsCharged,
        AnsweredIsDone, Recoverable, OpenStages, NotSeen
  <2> QED
    BY <2>1, <2>2, <2>3
    DEF Routine
<1>2. CASE ReadJob(r)
  <2>1. Advances(pc[r], pc'[r])
    BY <1>2, StepClasses, JobWriteSteps
    DEF ReadJob, Advances, SettleSteps, FinishSteps, ConvergeSteps, SentSteps
  <2>2. Keeps(r, pc'[r])
    BY <1>2
    DEF ReadJob, Keeps, Kin, attempt, store, world, local
  <2>3. Justified(r, pc'[r])
    BY <1>0, <1>2, StepClasses, JobWriteSteps, RailAssumption
    DEF ReadJob, Justified, local, Working, RecoverySteps, ReplaySteps,
        CdpSteps, RetrySteps, SettleSteps, FinishSteps, SettledIsCharged,
        AnsweredIsDone
  <2> QED
    BY <2>1, <2>2, <2>3
    DEF Routine
<1>3. CASE ReconcileSettled(r)
  <2>1. Advances(pc[r], pc'[r])
    BY <1>3, StepClasses, JobWriteSteps
    DEF ReconcileSettled, Advances, SettleSteps, FinishSteps, ConvergeSteps,
        SentSteps
  <2>2. Keeps(r, pc'[r])
    BY <1>3
    DEF ReconcileSettled, Keeps, Kin, attempt, store, world, local
  <2>3. Justified(r, pc'[r])
    BY <1>0, <1>3, StepClasses, JobWriteSteps, RailAssumption
    DEF ReconcileSettled, Justified, local, Working, RecoverySteps,
        ReplaySteps, CdpSteps, RetrySteps, SettleSteps, FinishSteps, SettledIsCharged,
        AnsweredIsDone, ChargesAreLanded
  <2> QED
    BY <2>1, <2>2, <2>3
    DEF Routine
<1>4. CASE ReconcileOpen(r)
  <2>1. Advances(pc[r], pc'[r])
    BY <1>4, StepClasses, JobWriteSteps
    DEF ReconcileOpen, Advances, SettleSteps, FinishSteps, ConvergeSteps,
        SentSteps
  <2>2. Keeps(r, pc'[r])
    BY <1>4
    DEF ReconcileOpen, Keeps, Kin, attempt, store, world, local
  <2>3. Justified(r, pc'[r])
    BY <1>0, <1>4, StepClasses, JobWriteSteps, RailAssumption
    DEF ReconcileOpen, Justified, local, Working, RecoverySteps, ReplaySteps,
        CdpSteps, RetrySteps, SettleSteps, FinishSteps, SettledIsCharged,
        AnsweredIsDone
  <2> QED
    BY <2>1, <2>2, <2>3
    DEF Routine
<1>5. CASE ChainCheck(r)
  <2>1. Advances(pc[r], pc'[r])
    BY <1>5, StepClasses, JobWriteSteps
    DEF ChainCheck, Advances, SettleSteps, FinishSteps, ConvergeSteps,
        SentSteps
  <2>2. Keeps(r, pc'[r])
    BY <1>5
    DEF ChainCheck, Keeps, Kin, attempt, store, world, local
  <2>3. ev'[r].kind = "ok" => charges > 0
    BY <1>5
    DEF ChainCheck, SettledIsCharged, SeenIsOpen, ChargesAreLanded, Refs,
        local
  <2>4. pc[r] \in CdpSteps /\ Rail = "cdp"
    BY <1>5, RailAssumption
    DEF ChainCheck, CdpSteps, RetrySteps, OneCallUnlessFailed
  <2>5. kind # "none"
    BY <1>0, <1>5 DEF ChainCheck, RetrySteps
  <2>6. Justified(r, pc'[r])
    BY <1>5, <2>3, <2>4, <2>5
    DEF ChainCheck, Justified, local, Working, RecoverySteps, AnsweredIsDone
  <2> QED
    BY <2>1, <2>2, <2>6
    DEF Routine
<1>6. CASE CountTry(r)
  <2>1. Advances(pc[r], pc'[r])
    BY <1>6, StepClasses, JobWriteSteps
    DEF CountTry, Advances, SettleSteps, FinishSteps, ConvergeSteps, SentSteps
  <2>2. Keeps(r, pc'[r])
    BY <1>6
    DEF CountTry, Keeps, Kin, attempt, store, world, local
  <2>3. Justified(r, pc'[r])
    BY <1>0, <1>6, StepClasses, JobWriteSteps, RailAssumption
    DEF CountTry, Justified, local, Working, RecoverySteps, ReplaySteps,
        CdpSteps, RetrySteps, SettleSteps, FinishSteps, SettledIsCharged,
        AnsweredIsDone, OneCallUnlessFailed
  <2> QED
    BY <2>1, <2>2, <2>3
    DEF Routine
<1>7. CASE RetryAnswer(r)
  <2>1. Advances(pc[r], pc'[r])
    BY <1>7, StepClasses, JobWriteSteps
    DEF RetryAnswer, Advances, SettleSteps, FinishSteps, ConvergeSteps,
        SentSteps
  <2>2. Keeps(r, pc'[r])
    BY <1>7
    DEF RetryAnswer, Keeps, Kin, attempt, store, world, local
  <2>3. Justified(r, pc'[r])
    BY <1>0, <1>7, StepClasses, JobWriteSteps, RailAssumption
    DEF RetryAnswer, Justified, local, Working, RecoverySteps, ReplaySteps,
        CdpSteps, RetrySteps, SettleSteps, FinishSteps, SettledIsCharged,
        AnsweredIsDone, Evidence, ChargesAreLanded, OneCallUnlessFailed
  <2> QED
    BY <2>1, <2>2, <2>3
    DEF Routine
<1>8. CASE RecordRetryFailure(r)
  <2>1. Advances(pc[r], pc'[r])
    BY <1>8, StepClasses, JobWriteSteps
    DEF RecordRetryFailure, Advances, SettleSteps, FinishSteps, ConvergeSteps,
        SentSteps
  <2> Rail # "nevermined"
    BY <1>8 DEF RecordRetryFailure, OneCallUnlessFailed, CdpSteps, RetrySteps
  <2>2. Keeps(r, pc'[r])
    BY <1>8
    DEF RecordRetryFailure, Keeps, Kin, attempt, store, world, local,
        CdpOutcome, Outcomes, OpenStages
  <2>3. Justified(r, pc'[r])
    BY <1>0, <1>8, StepClasses, JobWriteSteps, RailAssumption
    DEF RecordRetryFailure, Justified, local, Working, RecoverySteps,
        ReplaySteps, CdpSteps, RetrySteps, SettleSteps, FinishSteps, SettledIsCharged,
        AnsweredIsDone
  <2> QED
    BY <2>1, <2>2, <2>3
    DEF Routine
<1>9. CASE RecoverLinkVerified(r)
  <2>1. Advances(pc[r], pc'[r])
    BY <1>9, StepClasses, JobWriteSteps
    DEF RecoverLinkVerified, Advances, SettleSteps, FinishSteps,
        ConvergeSteps, SentSteps
  <2>2. Keeps(r, pc'[r])
    BY <1>9
    DEF RecoverLinkVerified, Keeps, Kin, attempt, store, world, local,
        StageUnless, TransitionOutcomes, Outcomes, OpenStages, SettledStages
  <2>3. Justified(r, pc'[r])
    BY <1>0, <1>9, StepClasses, JobWriteSteps, RailAssumption
    DEF RecoverLinkVerified, Justified, local, Working, RecoverySteps,
        ReplaySteps, CdpSteps, RetrySteps, SettleSteps, FinishSteps, SettledIsCharged,
        AnsweredIsDone
  <2> QED
    BY <2>1, <2>2, <2>3
    DEF Routine
<1>10. CASE RecoverStageSettled(r)
  <2>1. Advances(pc[r], pc'[r])
    BY <1>10, StepClasses, JobWriteSteps
    DEF RecoverStageSettled, Advances, SettleSteps, FinishSteps,
        ConvergeSteps, SentSteps
  <2>2. Keeps(r, pc'[r])
    BY <1>10
    DEF RecoverStageSettled, Keeps, Kin, attempt, store, world, local,
        StageUnless, TransitionOutcomes, Outcomes, OpenStages, SettledStages
  <2>3. Justified(r, pc'[r])
    BY <1>0, <1>10, StepClasses, JobWriteSteps, RailAssumption
    DEF RecoverStageSettled, Justified, local, Working, RecoverySteps,
        ReplaySteps, CdpSteps, RetrySteps, SettleSteps, FinishSteps, SettledIsCharged,
        AnsweredIsDone
  <2> QED
    BY <2>1, <2>2, <2>3
    DEF Routine
<1>11. CASE RecoverConsume(r)
  <2>1. Advances(pc[r], pc'[r])
    BY <1>11, StepClasses, JobWriteSteps
    DEF RecoverConsume, Advances, SettleSteps, FinishSteps, ConvergeSteps,
        SentSteps
  <2>2. Keeps(r, pc'[r])
    BY <1>11
    DEF RecoverConsume, Keeps, Kin, attempt, store, world, local
  <2>3. Justified(r, pc'[r])
    BY <1>0, <1>11, StepClasses, JobWriteSteps, RailAssumption
    DEF RecoverConsume, Justified, local, Working, RecoverySteps, ReplaySteps,
        CdpSteps, RetrySteps, SettleSteps, FinishSteps, SettledIsCharged,
        AnsweredIsDone
  <2> QED
    BY <2>1, <2>2, <2>3
    DEF Routine
<1>12. CASE CountWin(r)
  <2>1. Advances(pc[r], pc'[r])
    BY <1>12, StepClasses, JobWriteSteps
    DEF CountWin, Advances, SettleSteps, FinishSteps, ConvergeSteps, SentSteps
  <2>2. Keeps(r, pc'[r])
    BY <1>12
    DEF CountWin, Keeps, Kin, attempt, store, world, local
  <2>3. Justified(r, pc'[r])
    BY <1>0, <1>12, StepClasses, JobWriteSteps, RailAssumption
    DEF CountWin, Justified, local, Working, RecoverySteps, ReplaySteps,
        CdpSteps, RetrySteps, SettleSteps, FinishSteps, SettledIsCharged,
        AnsweredIsDone
  <2> QED
    BY <2>1, <2>2, <2>3
    DEF Routine
<1>13. CASE RecoverDeliver(r)
  <2>1. Advances(pc[r], pc'[r])
    BY <1>13, StepClasses, JobWriteSteps
    DEF RecoverDeliver, Advances, SettleSteps, FinishSteps, ConvergeSteps,
        SentSteps
  <2>2. Keeps(r, pc'[r])
    BY <1>13
    DEF RecoverDeliver, Keeps, Kin, attempt, store, world, local
  <2>3. Justified(r, pc'[r])
    BY <1>0, <1>13, StepClasses, JobWriteSteps, RailAssumption
    DEF RecoverDeliver, Justified, local, Working, RecoverySteps, ReplaySteps,
        CdpSteps, RetrySteps, SettleSteps, FinishSteps, SettledIsCharged,
        AnsweredIsDone
  <2> QED
    BY <2>1, <2>2, <2>3
    DEF Routine
<1> QED
  BY <1>1, <1>2, <1>3, <1>4, <1>5, <1>6, <1>7, <1>8, <1>9, <1>10, <1>11,
     <1>12, <1>13

\* A replay writes nothing and serves only the stored result.
LEMMA RoutineReplay ==
  ASSUME IndInv, NEW r \in Requests,
         \/ ReplayConsumed(r) \/ ReconstructJob(r)
         \/ ReconstructResult(r)
  PROVE  Routine(r, pc'[r])
<1> USE DEF Goto, Finish, Serve, IndInv, TypeOK
<1>0. /\ seen[r].kind = "none" \/ kind # "none"
      /\ pc[r] \in RetrySteps => kind # "none"
  BY FailureIsKept
<1>1. CASE ReplayConsumed(r)
  <2>1. Advances(pc[r], pc'[r])
    BY <1>1, StepClasses, JobWriteSteps
    DEF ReplayConsumed, Advances, SettleSteps, FinishSteps, ConvergeSteps,
        SentSteps
  <2>2. Keeps(r, pc'[r])
    BY <1>1
    DEF ReplayConsumed, Keeps, Kin, attempt, store, world, local
  <2>3. Justified(r, pc'[r])
    BY <1>0, <1>1, StepClasses, JobWriteSteps, RailAssumption
    DEF ReplayConsumed, Justified, local, Working, RecoverySteps, ReplaySteps,
        CdpSteps, RetrySteps, SettleSteps, FinishSteps, SettledIsCharged,
        AnsweredIsDone, BoundRequests
  <2> QED
    BY <2>1, <2>2, <2>3
    DEF Routine
<1>2. CASE ReconstructJob(r)
  <2>1. Advances(pc[r], pc'[r])
    BY <1>2, StepClasses, JobWriteSteps
    DEF ReconstructJob, Advances, SettleSteps, FinishSteps, ConvergeSteps,
        SentSteps
  <2>2. Keeps(r, pc'[r])
    BY <1>2
    DEF ReconstructJob, Keeps, Kin, attempt, store, world, local
  <2>3. Justified(r, pc'[r])
    BY <1>0, <1>2, StepClasses, JobWriteSteps, RailAssumption
    DEF ReconstructJob, Justified, local, Working, RecoverySteps, ReplaySteps,
        CdpSteps, RetrySteps, SettleSteps, FinishSteps, SettledIsCharged,
        AnsweredIsDone
  <2> QED
    BY <2>1, <2>2, <2>3
    DEF Routine
<1>3. CASE ReconstructResult(r)
  <2>1. Advances(pc[r], pc'[r])
    BY <1>3, StepClasses, JobWriteSteps
    DEF ReconstructResult, Advances, SettleSteps, FinishSteps, ConvergeSteps,
        SentSteps
  <2>2. Keeps(r, pc'[r])
    BY <1>3
    DEF ReconstructResult, Keeps, Kin, attempt, store, world, local
  <2>3. Justified(r, pc'[r])
    BY <1>0, <1>3, StepClasses, JobWriteSteps, RailAssumption
    DEF ReconstructResult, Justified, local, Working, RecoverySteps,
        ReplaySteps, CdpSteps, RetrySteps, SettleSteps, FinishSteps, SettledIsCharged,
        AnsweredIsDone, BoundRequests
  <2> QED
    BY <2>1, <2>2, <2>3
    DEF Routine
<1> QED
  BY <1>1, <1>2, <1>3

\* A Worker that dies leaves everything it wrote and answers nothing.
LEMMA RoutineCrash ==
  ASSUME IndInv, NEW r \in Requests, Crash(r)
  PROVE  Routine(r, pc'[r])
<1> USE DEF Crash, Finish, IndInv, TypeOK
<1>0. seen[r].kind = "none" \/ kind # "none"
  BY FailureIsKept
<1>1. Advances(pc[r], pc'[r])
  BY StepClasses
  DEF Advances, SettleSteps, FinishSteps, ConvergeSteps, SentSteps
<1>2. Keeps(r, pc'[r])
  BY DEF Keeps, Kin, attempt, store, world, local
<1>3. Justified(r, pc'[r])
  BY <1>0, StepClasses
  DEF Justified, local, RecoverySteps, CdpSteps, RetrySteps, SettledIsCharged
<1> QED
  BY <1>1, <1>2, <1>3 DEF Routine

-----------------------------------------------------------------------------
(* The steps that change phase. *)

\* The insert that wins: from here on one request prepares, and every other
\* one is compared with its binding.
LEMMA FirstSeenStep ==
  ASSUME IndInv, NEW r \in Requests, FirstSeen(r), TypeOK'
  PROVE  IndInv'
<1> USE DEF IndInv, TypeOK, attempt, store, world, local, Goto, FirstSeen
<1>1. /\ stage = "none" /\ stage' = "acquired"
      /\ pc'[r] = "createJob" /\ \A s \in Requests \ {r} : pc'[s] = pc[s]
  OBVIOUS
<1>2. \A s \in Requests : pc[s] \in {"idle", "done", "acquire"}
  BY DEF OneFirstSeen
<1>3. /\ {"idle", "done", "acquire"} \cap FirstSeenSteps = {}
      /\ "createJob" \in PrepareSteps \ RecoverySteps
  BY StepClasses
  DEF SettleSteps, FinishSteps, RecoverySteps
<1>4. OneFirstSeen'
  BY <1>1, <1>2, <1>3
  DEF OneFirstSeen
<1>5. BoundRequests'
  BY <1>1, <1>2, <1>3, StepClasses
  DEF BoundRequests, Working
<1>6. AnsweredIsDone'
  BY <1>1, <1>2, <1>3
  DEF AnsweredIsDone
<1>7. SeenIsOpen'
  BY <1>1, <1>2, <1>3
  DEF SeenIsOpen, RecoverySteps, NotSeen
<1>8. OneCallEach'
  BY <1>1, <1>2, <1>3
  DEF OneCallEach, EarlyIsUncharged, EarlyStages
<1>9. EarlyIsUncharged'
  BY <1>1, <1>2, <1>3, StepClasses
  DEF EarlyIsUncharged, EarlyStages, SettleSteps, FinishSteps, RecoverySteps
<1>10. OneCallUnlessFailed'
  BY <1>1, <1>2, <1>3
  DEF OneCallUnlessFailed, CdpSteps, RetrySteps
<1>11. ChargesAreLanded'
  BY <1>1, <1>2, <1>3
  DEF ChargesAreLanded
<1>12. SettledIsCharged'
  BY <1>1, <1>2, <1>3
  DEF SettledIsCharged, SettledStages
<1>13. OneFinalizer'
  BY <1>1, <1>2, <1>3
  DEF OneFinalizer, SettledStages, FinishSteps, ConvergeSteps
<1>14. ServedIsPaidAndFinal'
  BY <1>1, <1>2, <1>3
  DEF ServedIsPaidAndFinal, OneFinalizer, SettledStages
<1> QED
  BY <1>4, <1>5, <1>6, <1>7, <1>8, <1>9, <1>10, <1>11, <1>12, <1>13, <1>14

\* A payment that does not verify ends before anything was sent.
LEMMA StageUnpaidStep ==
  ASSUME IndInv, NEW r \in Requests, StageUnpaid(r), TypeOK'
  PROVE  IndInv'
<1> USE DEF IndInv, TypeOK, store, world, local, Finish, StageUnpaid
<1>1. /\ stage' \in {stage, "verification_failed"}
      /\ pc'[r] = "done" /\ \A s \in Requests \ {r} : pc'[s] = pc[s]
  BY DEF StageUnless
<1>2. /\ stage \in {"acquired", "verified", "executed"}
      /\ pc[r] \in FirstSeenSteps /\ "done" \notin FirstSeenSteps \cup RecoverySteps
  BY StepClasses
  DEF EarlyIsUncharged, SettleSteps, FinishSteps, RecoverySteps
<1>3. OneFirstSeen'
  BY <1>1, <1>2
  DEF OneFirstSeen
<1>4. BoundRequests'
  BY <1>1, <1>2, StepClasses
  DEF BoundRequests
<1>5. AnsweredIsDone'
  BY <1>1, <1>2
  DEF AnsweredIsDone
<1>6. SeenIsOpen'
  BY <1>1, <1>2
  DEF SeenIsOpen, RecoverySteps, NotSeen
<1>7. OneCallEach'
  BY <1>1, <1>2
  DEF OneCallEach, SentSteps, FinishSteps, ConvergeSteps
<1>8. EarlyIsUncharged'
  BY <1>1, <1>2, StepClasses
  DEF EarlyIsUncharged, EarlyStages, OneFirstSeen
<1>9. OneCallUnlessFailed'
  BY <1>1, <1>2
  DEF OneCallUnlessFailed, CdpSteps, RetrySteps
<1>10. ChargesAreLanded'
  BY <1>1, <1>2
  DEF ChargesAreLanded
<1>11. SettledIsCharged'
  BY <1>1, <1>2
  DEF SettledIsCharged, SettledStages, NoEvidence
<1>12. OneFinalizer'
  BY <1>1, <1>2
  DEF OneFinalizer, SettledStages, FinishSteps, ConvergeSteps
<1>13. ServedIsPaidAndFinal'
  BY <1>1, <1>2
  DEF ServedIsPaidAndFinal, AnsweredIsDone, OneFinalizer, SettledIsCharged,
      SettledStages, BoundRequests, FinishSteps, ConvergeSteps, Working,
      RecoverySteps
<1> QED
  BY <1>3, <1>4, <1>5, <1>6, <1>7, <1>8, <1>9, <1>10, <1>11, <1>12, <1>13

\* The durable write before the settle call: the stage leaves "executed",
\* so no second request can make it.
LEMMA RecordPendingStep ==
  ASSUME IndInv, NEW r \in Requests, RecordPending(r), TypeOK'
  PROVE  IndInv'
<1> USE DEF IndInv, TypeOK, store, world, local, Goto, Finish
<1>1. /\ \/ pc'[r] = "callSettle" /\ stage' = "settlement_pending"
         \/ pc'[r] = "done" /\ stage' = stage
      /\ \A s \in Requests \ {r} : pc'[s] = pc[s]
  BY DEF RecordPending, StageUnless
<1>2. UNCHANGED <<bound, consumed, kind, call, charges, result, author, req, seen, ev, body>>
  BY DEF RecordPending
<1>3. /\ resp' = resp \/ resp' = [resp EXCEPT ![r] = "error"]
      /\ pc'[r] = "callSettle" => resp' = resp
  BY DEF RecordPending
<1>4. /\ stage \in {"acquired", "verified", "executed"} /\ pc[r] = "recordPending"
      /\ pc[r] \in PrepareSteps /\ PrepareSteps \subseteq FirstSeenSteps
      /\ {"callSettle", "done"} \cap PrepareSteps = {}
  BY StepClasses
  DEF EarlyIsUncharged, RecordPending, SettleSteps, FinishSteps
<1>5. \A s \in Requests : call[s] = "none" /\ pc[s] # "callSettle"
  BY <1>4
  DEF EarlyIsUncharged, EarlyStages, SettleSteps
<1>6. OneFirstSeen'
  BY <1>1, <1>2, <1>3, <1>4, <1>5
  DEF OneFirstSeen
<1>7. BoundRequests'
  BY <1>1, <1>2, <1>3, <1>4, <1>5, StepClasses
  DEF BoundRequests, Working
<1>8. AnsweredIsDone'
  BY <1>1, <1>2, <1>3, <1>4, <1>5
  DEF AnsweredIsDone
<1>9. SeenIsOpen'
  BY <1>1, <1>2, <1>3, <1>4, <1>5
  DEF SeenIsOpen, RecoverySteps
<1>10. OneCallEach'
  BY <1>1, <1>2, <1>3, <1>4, <1>5
  DEF OneCallEach
<1>11. EarlyIsUncharged'
  BY <1>1, <1>2, <1>3, <1>4, <1>5
  DEF EarlyIsUncharged, EarlyStages, OneFirstSeen, SettleSteps, FinishSteps,
      RecoverySteps
<1>12. OneCallUnlessFailed'
  BY <1>1, <1>2, <1>3, <1>4, <1>5
  DEF OneCallUnlessFailed, CdpSteps, RetrySteps
<1>13. ChargesAreLanded'
  BY <1>1, <1>2, <1>3, <1>4, <1>5
  DEF ChargesAreLanded
<1>14. SettledIsCharged'
  BY <1>1, <1>2, <1>3, <1>4, <1>5
  DEF SettledIsCharged, SettledStages, NoEvidence
<1>15. OneFinalizer'
  BY <1>1, <1>2, <1>3, <1>4, <1>5
  DEF OneFinalizer, SettledStages, FinishSteps, ConvergeSteps
<1>16. ServedIsPaidAndFinal'
  BY <1>1, <1>2, <1>3, <1>4, <1>5
  DEF ServedIsPaidAndFinal, AnsweredIsDone
<1> QED
  BY <1>6, <1>7, <1>8, <1>9, <1>10, <1>11, <1>12, <1>13, <1>14, <1>15, <1>16

\* A request sends its settle call; on the Nevermined rail no other one has.
LEMMA CallSettleStep ==
  ASSUME IndInv, NEW r \in Requests, CallSettle(r), TypeOK'
  PROVE  IndInv'
<1> USE DEF IndInv, TypeOK, attempt, store, local, Goto
<1>1. \/ pc[r] = "callSettle" /\ pc'[r] = "awaitSettle"
      \/ pc[r] = "callRetry" /\ pc'[r] = "awaitRetry"
  BY DEF CallSettle
<1>2. \A s \in Requests \ {r} : pc'[s] = pc[s]
  BY DEF CallSettle
<1>3. /\ call' = [call EXCEPT ![r] = "live"]
      /\ UNCHANGED <<stage, bound, kind, charges, result, author, req, seen, ev, resp, body>>
  BY DEF CallSettle
<1>4. call[r] = "none"
  BY DEF CallSettle, OneCallEach, SentSteps, FinishSteps, ConvergeSteps
<1>5. stage \notin EarlyStages
  BY <1>1
  DEF EarlyIsUncharged, SettleSteps, RecoverySteps
<1>6. /\ {"callSettle", "awaitSettle"} \subseteq FirstSeenSteps \ PrepareSteps
      /\ {"callRetry", "awaitRetry"} \cap FirstSeenSteps = {}
  BY StepClasses
  DEF SettleSteps, FinishSteps
<1>7. OneFirstSeen'
  BY <1>1, <1>2, <1>3, <1>4, <1>5, <1>6
  DEF OneFirstSeen, EarlyStages
<1>8. BoundRequests'
  BY <1>1, <1>2, <1>3, <1>4, <1>5, <1>6, StepClasses
  DEF BoundRequests, Working, RecoverySteps
<1>9. AnsweredIsDone'
  BY <1>1, <1>2, <1>3, <1>4, <1>5, <1>6
  DEF AnsweredIsDone
<1>10. SeenIsOpen'
  BY <1>1, <1>2, <1>3, <1>4, <1>5, <1>6
  DEF SeenIsOpen, RecoverySteps
<1>11. OneCallEach'
  BY <1>1, <1>2, <1>3, <1>4, <1>5, <1>6
  DEF OneCallEach, SentSteps
<1>12. EarlyIsUncharged'
  BY <1>1, <1>2, <1>3, <1>4, <1>5, <1>6, StepClasses
  DEF EarlyIsUncharged
<1>13. OneCallUnlessFailed'
  <2>1. \A s \in Requests : pc'[s] \in CdpSteps => pc[s] \in CdpSteps
    BY <1>1, <1>2 DEF CdpSteps, RetrySteps
  <2>2. \A s \in Requests : pc'[s] \in RetrySteps => pc[s] \in RetrySteps
    BY <1>1, <1>2 DEF RetrySteps
  <2>3. ASSUME kind = "none"
        PROVE  /\ \A s \in Requests \ {r} : call'[s] = "none"
               /\ \A s \in Requests : pc'[s] # "callSettle"
    <3>1. pc[r] = "callSettle"
      BY <1>1, <2>3 DEF OneCallUnlessFailed, RetrySteps
    <3>2. \A s \in Requests \ {r} : call'[s] = "none"
      BY <1>3, <2>3, <3>1 DEF OneCallUnlessFailed
    <3>3. ASSUME NEW s \in Requests, pc'[s] = "callSettle" PROVE FALSE
      <4>1. s # r /\ pc[s] = "callSettle"
        BY <1>1, <1>2, <3>3
      <4> QED
        BY <1>6, <3>1, <4>1 DEF OneFirstSeen
    <3> QED
      BY <3>2, <3>3
  <2> QED
    BY <1>3, <2>1, <2>2, <2>3 DEF OneCallUnlessFailed
<1>14. ChargesAreLanded'
  BY <1>1, <1>2, <1>3, <1>4, <1>5, <1>6
  DEF ChargesAreLanded
<1>15. SettledIsCharged'
  BY <1>1, <1>2, <1>3, <1>4, <1>5, <1>6
  DEF SettledIsCharged
<1>16. OneFinalizer'
  BY <1>1, <1>2, <1>3, <1>4, <1>5, <1>6
  DEF OneFinalizer, FinishSteps, ConvergeSteps
<1>17. ServedIsPaidAndFinal'
  BY <1>1, <1>2, <1>3, <1>4, <1>5, <1>6
  DEF ServedIsPaidAndFinal, AnsweredIsDone
<1> QED
  BY <1>7, <1>8, <1>9, <1>10, <1>11, <1>12, <1>13, <1>14, <1>15, <1>16, <1>17

\* A call moves the money: the first one that does, or a retry's.
LEMMA LandStep ==
  ASSUME IndInv, NEW r \in Requests, Land(r), TypeOK'
  PROVE  IndInv'
<1> USE DEF IndInv, TypeOK, attempt, store, local, flow, Land
<1>1. /\ charges' > 0
      /\ kind = "none" => charges = 0
  BY DEF OneCallUnlessFailed, ChargesAreLanded
<1>2. OneFirstSeen'
  BY <1>1
  DEF OneFirstSeen
<1>3. BoundRequests'
  BY <1>1
  DEF BoundRequests
<1>4. AnsweredIsDone'
  BY <1>1
  DEF AnsweredIsDone
<1>5. SeenIsOpen'
  BY <1>1
  DEF SeenIsOpen
<1>6. OneCallEach'
  BY <1>1
  DEF OneCallEach
<1>7. EarlyIsUncharged'
  BY <1>1
  DEF EarlyIsUncharged
<1>8. OneCallUnlessFailed'
  BY <1>1
  DEF OneCallUnlessFailed
<1>9. ChargesAreLanded'
  BY <1>1
  DEF ChargesAreLanded
<1>10. SettledIsCharged'
  BY <1>1
  DEF SettledIsCharged
<1>11. OneFinalizer'
  BY <1>1
  DEF OneFinalizer
<1>12. ServedIsPaidAndFinal'
  BY <1>1
  DEF ServedIsPaidAndFinal
<1> QED
  BY <1>2, <1>3, <1>4, <1>5, <1>6, <1>7, <1>8, <1>9, <1>10, <1>11, <1>12

\* A call that is refused or lost charges nobody.
LEMMA DropStep ==
  ASSUME IndInv, NEW r \in Requests, Drop(r), TypeOK'
  PROVE  IndInv'
<1> USE DEF IndInv, TypeOK, attempt, store, local, flow, Drop
<1>1. OneFirstSeen'
  BY DEF OneFirstSeen
<1>2. BoundRequests'
  BY DEF BoundRequests
<1>3. AnsweredIsDone'
  BY DEF AnsweredIsDone
<1>4. SeenIsOpen'
  BY DEF SeenIsOpen
<1>5. OneCallEach'
  BY DEF OneCallEach
<1>6. EarlyIsUncharged'
  BY DEF EarlyIsUncharged
<1>7. OneCallUnlessFailed'
  BY DEF OneCallUnlessFailed
<1>8. ChargesAreLanded'
  BY DEF ChargesAreLanded
<1>9. SettledIsCharged'
  BY DEF SettledIsCharged
<1>10. OneFinalizer'
  BY DEF OneFinalizer
<1>11. ServedIsPaidAndFinal'
  BY DEF ServedIsPaidAndFinal
<1> QED
  BY <1>1, <1>2, <1>3, <1>4, <1>5, <1>6, <1>7, <1>8, <1>9, <1>10, <1>11

\* The first request wins or loses the write to settled_external.
LEMMA RecordSettledStep ==
  ASSUME IndInv, NEW r \in Requests, RecordSettled(r), TypeOK'
  PROVE  IndInv'
<1> USE DEF IndInv, TypeOK, store, world, local, Goto, Finish
<1>1. \/ /\ stage = "settlement_pending" /\ stage' = "settled_external"
         /\ pc'[r] = "finalize" /\ resp' = resp
      \/ /\ stage' = stage /\ pc'[r] = "done"
         /\ resp' = [resp EXCEPT ![r] = "error"]
  <2>1. PICK applied \in SettledOutcomes("settlement_pending") :
          /\ StageUnless(applied, "settled_external")
          /\ IF applied THEN Goto(r, "finalize") ELSE Finish(r, "error")
    BY DEF RecordSettled
  <2>2. applied \in BOOLEAN /\ (applied => stage = "settlement_pending")
    BY <2>1 DEF SettledOutcomes, Outcomes
  <2>3. CASE applied
    BY <2>1, <2>2, <2>3 DEF StageUnless
  <2>4. CASE ~applied
    BY <2>1, <2>4 DEF StageUnless
  <2> QED
    BY <2>2, <2>3, <2>4
<1>2. /\ UNCHANGED <<bound, kind, call, charges, result, author, req, seen, ev, body>>
      /\ pc[r] = "recordSettled" /\ \A s \in Requests \ {r} : pc'[s] = pc[s]
  BY DEF RecordSettled
<1>3. /\ charges > 0
      /\ "settled_external" \in SettledStages
      /\ "settlement_pending" \notin SettledStages
  BY <1>2
  DEF SettledIsCharged, SettledStages
<1>4. OneFirstSeen'
  BY <1>1, <1>2, <1>3, StepClasses
  DEF OneFirstSeen, FinishSteps, SettleSteps
<1>5. BoundRequests'
  BY <1>1, <1>2, <1>3, StepClasses
  DEF BoundRequests, Working
<1>6. AnsweredIsDone'
  BY <1>1, <1>2, <1>3
  DEF AnsweredIsDone
<1>7. SeenIsOpen'
  BY <1>1, <1>2, <1>3
  DEF SeenIsOpen, RecoverySteps
<1>8. OneCallEach'
  BY <1>1, <1>2, <1>3
  DEF OneCallEach, SentSteps, FinishSteps
<1>9. EarlyIsUncharged'
  BY <1>1, <1>2, <1>3, StepClasses
  DEF EarlyIsUncharged, EarlyStages, FinishSteps, SettleSteps
<1>10. OneCallUnlessFailed'
  BY <1>1, <1>2, <1>3
  DEF OneCallUnlessFailed, CdpSteps, RetrySteps
<1>11. ChargesAreLanded'
  BY <1>1, <1>2, <1>3
  DEF ChargesAreLanded
<1>12. SettledIsCharged'
  BY <1>1, <1>2, <1>3
  DEF SettledIsCharged
<1>13. OneFinalizer'
  BY <1>1, <1>2, <1>3
  DEF OneFinalizer, FinishSteps, ConvergeSteps
<1>14. ServedIsPaidAndFinal'
  BY <1>1, <1>2, <1>3
  DEF ServedIsPaidAndFinal, AnsweredIsDone
<1> QED
  BY <1>4, <1>5, <1>6, <1>7, <1>8, <1>9, <1>10, <1>11, <1>12, <1>13, <1>14

\* A recovery wins or loses the write to settled_external, from the stage
\* it observed, which is one of the two open ones.
LEMMA RecoverSettledStep ==
  ASSUME IndInv, NEW r \in Requests, RecoverSettled(r), TypeOK'
  PROVE  IndInv'
<1> USE DEF IndInv, TypeOK, store, world, local, Goto
<1>1. /\ UNCHANGED <<bound, kind, call, charges, result, author, req, seen, ev, resp, body>>
      /\ pc[r] = "recoverSettled" /\ \A s \in Requests \ {r} : pc'[s] = pc[s]
  BY DEF RecoverSettled
<1>2. seen[r].stage \in OpenStages
  BY <1>1
  DEF SeenIsOpen, RecoverySteps
<1>3. \/ /\ stage \in OpenStages /\ stage' = "settled_external"
         /\ pc'[r] = "rLinkVerified"
      \/ stage' = stage /\ pc'[r] = "reconstructJob"
  BY <1>2
  DEF RecoverSettled, SettledOutcomes, Outcomes, StageUnless
<1>4. /\ charges > 0
      /\ "settled_external" \in SettledStages
      /\ OpenStages \cap (SettledStages \cup EarlyStages) = {}
  BY <1>1
  DEF SettledIsCharged, SettledStages, OpenStages, EarlyStages
<1>5. OneFirstSeen'
  BY <1>1, <1>2, <1>3, <1>4, StepClasses
  DEF OneFirstSeen, FinishSteps, SettleSteps, OpenStages
<1>6. BoundRequests'
  BY <1>1, <1>2, <1>3, <1>4, StepClasses
  DEF BoundRequests, Working, RecoverySteps, ReplaySteps
<1>7. AnsweredIsDone'
  BY <1>1, <1>2, <1>3, <1>4
  DEF AnsweredIsDone
<1>8. SeenIsOpen'
  BY <1>1, <1>2, <1>3, <1>4
  DEF SeenIsOpen, RecoverySteps
<1>9. OneCallEach'
  BY <1>1, <1>2, <1>3, <1>4
  DEF OneCallEach, SentSteps, ConvergeSteps
<1>10. EarlyIsUncharged'
  BY <1>1, <1>2, <1>3, <1>4, StepClasses
  DEF EarlyIsUncharged, EarlyStages, FinishSteps, SettleSteps, RecoverySteps,
      ConvergeSteps, OpenStages
<1>11. OneCallUnlessFailed'
  BY <1>1, <1>2, <1>3, <1>4
  DEF OneCallUnlessFailed, CdpSteps, RetrySteps
<1>12. ChargesAreLanded'
  BY <1>1, <1>2, <1>3, <1>4
  DEF ChargesAreLanded
<1>13. SettledIsCharged'
  BY <1>1, <1>2, <1>3, <1>4
  DEF SettledIsCharged
<1>14. OneFinalizer'
  BY <1>1, <1>2, <1>3, <1>4
  DEF OneFinalizer, FinishSteps, ConvergeSteps
<1>15. ServedIsPaidAndFinal'
  BY <1>1, <1>2, <1>3, <1>4
  DEF ServedIsPaidAndFinal, AnsweredIsDone
<1> QED
  BY <1>5, <1>6, <1>7, <1>8, <1>9, <1>10, <1>11, <1>12, <1>13, <1>14, <1>15

\* The first request stores the result, which nobody has stored.
LEMMA FinalizeStep ==
  ASSUME IndInv, NEW r \in Requests, Finalize(r), TypeOK'
  PROVE  IndInv'
<1> USE DEF IndInv, TypeOK, attempt, world, local, Goto, StoreResult, Finalize
<1>1. /\ pc[r] = "finalize" /\ pc'[r] = "linkVerified"
      /\ \A s \in Requests \ {r} : pc'[s] = pc[s]
  OBVIOUS
<1>2. result # "final" /\ stage \in SettledStages
  BY <1>1
  DEF OneFinalizer, FinishSteps
<1>3. OneFirstSeen'
  BY <1>1, <1>2, StepClasses
  DEF OneFirstSeen, FinishSteps
<1>4. BoundRequests'
  BY <1>1, <1>2, StepClasses
  DEF BoundRequests, Working, FinishSteps
<1>5. AnsweredIsDone'
  BY <1>1, <1>2
  DEF AnsweredIsDone
<1>6. SeenIsOpen'
  BY <1>1, <1>2
  DEF SeenIsOpen, RecoverySteps
<1>7. OneCallEach'
  BY <1>1, <1>2
  DEF OneCallEach, SentSteps, FinishSteps
<1>8. EarlyIsUncharged'
  BY <1>1, <1>2, StepClasses
  DEF EarlyIsUncharged, FinishSteps, SettleSteps
<1>9. OneCallUnlessFailed'
  BY <1>1, <1>2
  DEF OneCallUnlessFailed, CdpSteps, RetrySteps
<1>10. ChargesAreLanded'
  BY <1>1, <1>2
  DEF ChargesAreLanded
<1>11. SettledIsCharged'
  BY <1>1, <1>2
  DEF SettledIsCharged
<1>12. OneFinalizer'
  BY <1>1, <1>2
  DEF OneFinalizer, FinishSteps, ConvergeSteps
<1>13. ServedIsPaidAndFinal'
  BY <1>1, <1>2
  DEF ServedIsPaidAndFinal, AnsweredIsDone
<1> QED
  BY <1>3, <1>4, <1>5, <1>6, <1>7, <1>8, <1>9, <1>10, <1>11, <1>12, <1>13

\* A recovery stores the result, which nobody has stored, and serves it.
LEMMA RecoverFinalizeStep ==
  ASSUME IndInv, NEW r \in Requests, RecoverFinalize(r), TypeOK'
  PROVE  IndInv'
<1> USE DEF IndInv, TypeOK, attempt, world, local, Serve, StoreResult,
    RecoverFinalize
<1>1. /\ pc[r] = "rFinalize" /\ pc'[r] = "done"
      /\ \A s \in Requests \ {r} : pc'[s] = pc[s]
  OBVIOUS
<1>2. result # "final" /\ stage \in SettledStages
  BY <1>1
  DEF OneFinalizer, ConvergeSteps
<1>3. req[r] = bound
  BY <1>1
  DEF BoundRequests, Working, RecoverySteps
<1>4. OneFirstSeen'
  BY <1>1, <1>2, <1>3, StepClasses
  DEF OneFirstSeen, FinishSteps, SettleSteps
<1>5. BoundRequests'
  BY <1>1, <1>2, <1>3, StepClasses
  DEF BoundRequests
<1>6. AnsweredIsDone'
  BY <1>1, <1>2, <1>3
  DEF AnsweredIsDone
<1>7. SeenIsOpen'
  BY <1>1, <1>2, <1>3
  DEF SeenIsOpen, RecoverySteps
<1>8. OneCallEach'
  BY <1>1, <1>2, <1>3
  DEF OneCallEach, SentSteps
<1>9. EarlyIsUncharged'
  BY <1>1, <1>2, <1>3, StepClasses
  DEF EarlyIsUncharged, FinishSteps, SettleSteps, RecoverySteps
<1>10. OneCallUnlessFailed'
  BY <1>1, <1>2, <1>3
  DEF OneCallUnlessFailed, CdpSteps, RetrySteps
<1>11. ChargesAreLanded'
  BY <1>1, <1>2, <1>3
  DEF ChargesAreLanded
<1>12. SettledIsCharged'
  BY <1>1, <1>2, <1>3
  DEF SettledIsCharged
<1>13. OneFinalizer'
  BY <1>1, <1>2, <1>3
  DEF OneFinalizer, FinishSteps, ConvergeSteps
<1>14. ServedIsPaidAndFinal'
  BY <1>1, <1>2, <1>3
  DEF ServedIsPaidAndFinal, SettledIsCharged
<1> QED
  BY <1>4, <1>5, <1>6, <1>7, <1>8, <1>9, <1>10, <1>11, <1>12, <1>13, <1>14

\* A POST arrives or is refused as expired.
LEMMA ArriveStep ==
  ASSUME IndInv, NEW r \in Requests, NEW b \in Bindings, Arrive(r, b), TypeOK'
  PROVE  IndInv'
<1> USE DEF IndInv, TypeOK, attempt, store, world, Goto, Finish
<1>1. /\ pc[r] = "idle" /\ \A s \in Requests \ {r} : pc'[s] = pc[s]
      /\ \/ pc'[r] = "acquire" /\ resp' = resp
         \/ pc'[r] = "done" /\ resp' = [resp EXCEPT ![r] = "expired"]
  BY DEF Arrive
<1>2. /\ UNCHANGED <<stage, bound, kind, call, charges, result, author, seen, ev, body>>
      /\ \A s \in Requests \ {r} : req'[s] = req[s]
  BY DEF Arrive
<1>3. {"acquire", "done"} \cap (FirstSeenSteps \cup (Working \ {"acquire"})) = {}
  BY StepClasses
  DEF FinishSteps, SettleSteps
<1>4. OneFirstSeen'
  <2>1. ASSUME NEW s \in Requests, pc'[s] \in FirstSeenSteps
        PROVE  pc[s] \in FirstSeenSteps
    BY <2>1, <1>1, <1>3
  <2>2. ASSUME stage' = "none", NEW s \in Requests
        PROVE  pc'[s] \in {"idle", "done", "acquire"}
    BY <2>2, <1>1, <1>2 DEF OneFirstSeen
  <2> QED
    BY <2>1, <2>2 DEF OneFirstSeen
<1>5. BoundRequests'
  BY <1>1, <1>2, <1>3, StepClasses
  DEF BoundRequests
<1>6. AnsweredIsDone'
  BY <1>1, <1>2, <1>3
  DEF AnsweredIsDone
<1>7. SeenIsOpen'
  BY <1>1, <1>2, <1>3
  DEF SeenIsOpen, RecoverySteps
<1>8. OneCallEach'
  BY <1>1, <1>2, <1>3
  DEF OneCallEach, SentSteps, FinishSteps, ConvergeSteps
<1>9. EarlyIsUncharged'
  BY StepClasses, <1>1, <1>2, <1>3
  DEF EarlyIsUncharged, FinishSteps, SettleSteps, RecoverySteps
<1>10. OneCallUnlessFailed'
  BY <1>1, <1>2, <1>3
  DEF OneCallUnlessFailed, CdpSteps, RetrySteps
<1>11. ChargesAreLanded'
  BY <1>1, <1>2, <1>3
  DEF ChargesAreLanded
<1>12. SettledIsCharged'
  BY <1>1, <1>2, <1>3
  DEF SettledIsCharged
<1>13. OneFinalizer'
  BY <1>1, <1>2, <1>3
  DEF OneFinalizer, FinishSteps, ConvergeSteps
<1>14. ServedIsPaidAndFinal'
  BY <1>1, <1>2, <1>3
  DEF ServedIsPaidAndFinal, AnsweredIsDone
<1> QED
  BY <1>4, <1>5, <1>6, <1>7, <1>8, <1>9, <1>10, <1>11, <1>12, <1>13, <1>14

\* The buyer sends another POST in place of one that sent no settle call.
LEMMA AgainStep ==
  ASSUME IndInv, NEW r \in Requests, Again(r), TypeOK'
  PROVE  IndInv'
<1> USE DEF IndInv, TypeOK, attempt, store, world, Again
<1>1. /\ pc[r] = "done" /\ pc'[r] = "idle" /\ \A s \in Requests \ {r} : pc'[s] = pc[s]
  OBVIOUS
<1>2. "idle" \notin FirstSeenSteps \cup Working
  BY StepClasses
  DEF FinishSteps, SettleSteps
<1>3. OneFirstSeen'
  BY <1>1, <1>2
  DEF OneFirstSeen
<1>4. BoundRequests'
  BY <1>1, <1>2, StepClasses
  DEF BoundRequests
<1>5. AnsweredIsDone'
  BY <1>1, <1>2
  DEF AnsweredIsDone
<1>6. SeenIsOpen'
  BY <1>1, <1>2
  DEF SeenIsOpen, RecoverySteps
<1>7. OneCallEach'
  BY <1>1, <1>2
  DEF OneCallEach
<1>8. EarlyIsUncharged'
  BY StepClasses, <1>1, <1>2
  DEF EarlyIsUncharged, FinishSteps, SettleSteps, RecoverySteps
<1>9. OneCallUnlessFailed'
  BY <1>1, <1>2
  DEF OneCallUnlessFailed, CdpSteps, RetrySteps, NotSeen
<1>10. ChargesAreLanded'
  BY <1>1, <1>2
  DEF ChargesAreLanded
<1>11. SettledIsCharged'
  BY <1>1, <1>2
  DEF SettledIsCharged, NoEvidence
<1>12. OneFinalizer'
  BY <1>1, <1>2
  DEF OneFinalizer, FinishSteps, ConvergeSteps
<1>13. ServedIsPaidAndFinal'
  BY <1>1, <1>2
  DEF ServedIsPaidAndFinal
<1> QED
  BY <1>3, <1>4, <1>5, <1>6, <1>7, <1>8, <1>9, <1>10, <1>11, <1>12, <1>13

-----------------------------------------------------------------------------
(* The invariant. *)

\* The inductive invariant holds before the first POST.
LEMMA IndInvInit == Init => IndInv
<1> SUFFICES ASSUME Init PROVE IndInv
  OBVIOUS
<1>1. TypeOK
  BY TypeInit
<1>2. "idle" \notin Working \cup FirstSeenSteps \cup RecoverySteps
  BY StepClasses DEF SettleSteps, FinishSteps, RecoverySteps
<1>3. OneFirstSeen /\ BoundRequests /\ AnsweredIsDone /\ SeenIsOpen /\ OneCallEach
  BY <1>2
  DEF Init, OneFirstSeen, BoundRequests, AnsweredIsDone, SeenIsOpen, OneCallEach
<1>4. EarlyIsUncharged /\ OneCallUnlessFailed
  BY <1>2, StepClasses
  DEF Init, EarlyIsUncharged, OneCallUnlessFailed, SettleSteps, FinishSteps,
      CdpSteps, RetrySteps, NotSeen
<1>5. ChargesAreLanded /\ SettledIsCharged
  BY DEF Init, ChargesAreLanded, SettledIsCharged, NoEvidence, SettledStages
<1>6. OneFinalizer /\ ServedIsPaidAndFinal
  BY DEF Init, OneFinalizer, ServedIsPaidAndFinal, FinishSteps, ConvergeSteps
<1> QED
  BY <1>1, <1>3, <1>4, <1>5, <1>6 DEF IndInv

\* A step that leaves alone all that the invariant speaks of.
LEMMA UnchangedStep ==
  ASSUME IndInv, TypeOK',
         UNCHANGED <<stage, bound, kind, call, charges, result, author, req, pc, resp,
                     body, seen, ev>>
  PROVE  IndInv'
BY DEF IndInv, OneFirstSeen, BoundRequests, AnsweredIsDone, SeenIsOpen,
       OneCallEach, EarlyIsUncharged, OneCallUnlessFailed, ChargesAreLanded,
       SettledIsCharged, OneFinalizer, ServedIsPaidAndFinal

\* Every step of the handler, and a crash at it, keeps the invariant.
LEMMA IndInvHandle ==
  ASSUME IndInv, NEW r \in Requests, Handle(r) \/ Crash(r), TypeOK'
  PROVE  IndInv'
<1>1. ASSUME Routine(r, pc'[r])
      PROVE  IndInv'
  BY <1>1, RoutineStep DEF TypeOK
<1>2. CASE Prepare(r)
  BY <1>1, <1>2, RoutinePrepare, FirstSeenStep, StageUnpaidStep,
     RecordPendingStep
  DEF Prepare
<1>3. CASE Settle(r)
  BY <1>1, <1>3, RoutineSettle, CallSettleStep, RecordSettledStep, FinalizeStep
  DEF Settle
<1>4. CASE Recover(r)
  BY <1>1, <1>4, RoutineRecover, RecoverSettledStep, RecoverFinalizeStep
  DEF Recover
<1>5. CASE Replay(r)
  BY <1>1, <1>5, RoutineReplay DEF Replay
<1>6. CASE Crash(r)
  BY <1>1, <1>6, RoutineCrash
<1> QED
  BY <1>2, <1>3, <1>4, <1>5, <1>6 DEF Handle

\* Every step keeps the inductive invariant.
LEMMA IndInvNext == IndInv /\ [Next]_vars => IndInv'
<1> SUFFICES ASSUME IndInv, [Next]_vars PROVE IndInv'
  OBVIOUS
<1>1. TypeOK'
  BY TypeNext DEF IndInv
<1>2. ASSUME NEW r \in Requests, NEW b \in Bindings, Arrive(r, b)
      PROVE  IndInv'
  BY <1>1, <1>2, ArriveStep
<1>3. ASSUME NEW r \in Requests, Handle(r) \/ Crash(r)
      PROVE  IndInv'
  BY <1>1, <1>3, IndInvHandle
<1>4. ASSUME NEW r \in Requests, Land(r) \/ Drop(r)
      PROVE  IndInv'
  BY <1>1, <1>4, LandStep, DropStep
<1>5. ASSUME NEW r \in Requests, Again(r)
      PROVE  IndInv'
  BY <1>1, <1>5, AgainStep
<1>6. CASE Lapse
  BY <1>1, <1>6, UnchangedStep DEF Lapse, attempt, store, local, flow
<1>7. CASE UNCHANGED vars
  BY <1>1, <1>7, UnchangedStep DEF vars, attempt, store, world, local, flow
<1> QED
  BY <1>2, <1>3, <1>4, <1>5, <1>6, <1>7 DEF Next

\* Along every behaviour one request at a time may prepare, settle or
\* finalize, and no stage, call, charge, result or answer contradicts it.
THEOREM Invariance == Spec => []IndInv
<1>1. Init => IndInv
  BY IndInvInit
<1>2. IndInv /\ [Next]_vars => IndInv'
  BY IndInvNext
<1> QED
  BY <1>1, <1>2, PTL DEF Spec

=============================================================================
