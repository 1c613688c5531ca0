----------------------- MODULE PaymentRouteInvariant ------------------------
(***************************************************************************)
(* Why the route keeps its promise: an inductive invariant of PaymentRoute *)
(* that implies ChargedAtMostOnce, ServedIsPaidAndFinal and the steps of   *)
(* PaymentPromise.  Its argument is that of the code: one request wins the *)
(* unique insert, the stage leaves "executed" once and settlement_pending  *)
(* or settlement_failed for settled_external once, and whoever makes that  *)
(* last write is the only one that stores a result.                        *)
(***************************************************************************)
EXTENDS PaymentRoute

\* Before the row says settlement_pending nothing can have been charged.
EarlyStages == {"none", "acquired", "verified", "verification_failed", "executed"}

\* The stages from which a recovery may record a settlement.
OpenStages == {"settlement_pending", "settlement_failed"}

\* Steps of the first request from the settle call to its recorded outcome.
SettleSteps ==
  {"callSettle", "awaitSettle", "toRefund", "recordFailure", "recordSettled"}

\* The first request, once its write moved the row to settled_external.
FinishSteps == {"finalize", "linkVerified", "settled", "consume", "toDelivered"}

\* A recovery, once its write moved the row to settled_external.
ConvergeSteps ==
  {"rLinkVerified", "rSettled", "rConsume", "rCountWin", "rDeliver", "rFinalize"}

\* The steps before recordSettlementPending has committed.
PrepareSteps == FirstSeenSteps \ (SettleSteps \cup FinishSteps)

\* Steps of a recovery that acts on an ambiguous outcome.
RetrySteps ==
  {"chainCheck", "countTry", "callRetry", "awaitRetry", "recordRetryFailure"}

\* Steps that only the CDP rail takes.
CdpSteps == RetrySteps \cup {"rCountWin"}

\* The steps of a request whose settle call has been sent.
SentSteps ==
  {"done", "awaitSettle", "toRefund", "recordFailure", "recordSettled",
   "awaitRetry", "recordRetryFailure", "recoverSettled", "reconstructJob",
   "reconstructResult"} \cup FinishSteps \cup ConvergeSteps

\* One request wins the insert; until the row exists nobody is past acquire.
OneFirstSeen ==
  /\ \A r, s \in Requests :
       pc[r] \in FirstSeenSteps /\ pc[s] \in FirstSeenSteps => r = s
  /\ stage = "none" =>
       \A r \in Requests : pc[r] \in {"idle", "done", "acquire"}

\* Whoever is past acquire presented the binding the row was acquired with.
BoundRequests ==
  \A r \in Requests :
    (pc[r] \in Working \ {"acquire"} => req[r] = bound)

\* Only a request that is done has an answer.
AnsweredIsDone == \A r \in Requests : resp[r] # "none" => pc[r] = "done"

\* A recovery past its read saw a stage from which it may record a settlement,
\* and checks a receipt only of a transaction it has the reference of.
SeenIsOpen ==
  \A r \in Requests :
    /\ pc[r] \in RecoverySteps \ {"readAttempt"} => seen[r].stage \in OpenStages
    /\ pc[r] = "chainCheck" => seen[r].tx # NoRequest

\* A request sends one settle call and never gets back before it.
OneCallEach == \A r \in Requests : call[r] # "none" => pc[r] \in SentSteps

\* As long as the first request prepares, the stage is early, and as long as
\* the stage is early nothing was sent and nothing is settling.
EarlyIsUncharged ==
  /\ \A r \in Requests :
       pc[r] \in PrepareSteps => stage \in {"acquired", "verified", "executed"}
  /\ stage \in EarlyStages =>
       \A r \in Requests :
         /\ call[r] = "none"
         /\ pc[r] \notin SettleSteps
         /\ pc[r] \notin FinishSteps
         /\ pc[r] \in RecoverySteps => pc[r] = "readAttempt"

\* Until a failed settlement is on record, which the Nevermined rail never
\* writes, one settle call is made, by the first request, and nobody retries.
OneCallUnlessFailed ==
  /\ Rail = "nevermined" => kind = "none" /\ \A r \in Requests : pc[r] \notin CdpSteps
  /\ kind = "none" =>
       /\ \A r \in Requests : pc[r] \notin RetrySteps /\ seen[r].kind = "none"
       /\ \A r, s \in Requests : call[r] # "none" /\ call[s] # "none" => r = s
       /\ \A r, s \in Requests : pc[r] = "callSettle" => call[s] = "none"

\* The buyer was charged by calls that landed, and until a failed settlement
\* is on record by one at most.
ChargesAreLanded ==
  /\ charges = 0 <=> \A r \in Requests : call[r] # "landed"
  /\ kind = "none" => charges <= 1

\* Success evidence is evidence of a charge, and so is a settled stage.
SettledIsCharged ==
  /\ \A r \in Requests : ev[r].kind = "ok" => charges > 0
  /\ \A r \in Requests :
       pc[r] \in {"recordSettled", "recoverSettled"} => ev[r].kind = "ok"
  /\ stage \in SettledStages => charges > 0

\* One request finalizes, and only it stores the result, once.
OneFinalizer ==
  /\ \A r, s \in Requests :
       /\ pc[r] \in FinishSteps \cup ConvergeSteps
       /\ pc[s] \in FinishSteps \cup ConvergeSteps
       => r = s
  /\ \A r \in Requests :
       /\ pc[r] \in FinishSteps \cup ConvergeSteps => stage \in SettledStages
       /\ pc[r] \in ConvergeSteps \cup {"finalize"} => result # "final"
       /\ pc[r] \in FinishSteps \ {"finalize"} => result = "final" /\ author = r
  /\ result = "final" => stage \in SettledStages /\ author \in Requests
  /\ result # "final" => author = NoRequest

IndInv ==
  /\ TypeOK
  /\ OneFirstSeen
  /\ BoundRequests
  /\ AnsweredIsDone
  /\ SeenIsOpen
  /\ OneCallEach
  /\ EarlyIsUncharged
  /\ OneCallUnlessFailed
  /\ ChargesAreLanded
  /\ SettledIsCharged
  /\ OneFinalizer
  /\ ServedIsPaidAndFinal

=============================================================================
