--------------------------- MODULE ProviderAdapter --------------------------
(***************************************************************************)
(* One provider adapter of packages/provider-adapters and the three guards *)
(* its executions share: the token bucket limiter, the circuit breaker and *)
(* the backoff.  JavaScript runs one callback at a time, so an action is   *)
(* what an execution does between two awaits, and executions interleave at *)
(* each of them.  All adapters of the package have this execute loop; the  *)
(* lines are those of the public HTTP adapter.                             *)
(***************************************************************************)
EXTENDS Naturals, FiniteSets

CONSTANTS
  Requests,          \* executions that may be under way at once
  MaxConcurrency,    \* maximumConcurrency
  MaxTokens,         \* maximumTokens
  FailureThreshold,  \* failureThreshold
  SuccessThreshold,  \* successThreshold
  HalfOpenMax,       \* halfOpenMaxRequests
  MaxRetries,        \* maxRetries
  Operated           \* forceOpen, forceClosed and reset may be called

ASSUME RequestsAssumption == IsFiniteSet(Requests)
ASSUME LimiterAssumption == MaxConcurrency \in Nat \ {0} /\ MaxTokens \in Nat \ {0}
ASSUME BreakerAssumption ==
  /\ FailureThreshold \in Nat \ {0}
  /\ SuccessThreshold \in Nat \ {0}
  /\ HalfOpenMax \in Nat
  /\ SuccessThreshold <= HalfOpenMax
ASSUME RetryAssumption == MaxRetries \in Nat /\ Operated \in BOOLEAN

VARIABLES
  active,     \* activeRequests
  tokens,     \* tokens, in whole ones: acquire only asks for >= 1
  queued,     \* queuedRequests
  circuit,    \* the breaker's state
  failures,   \* failures, counted up to FailureThreshold
  successes,  \* successes
  probes,     \* halfOpenRequests
  cooled,     \* timeoutMs have passed since lastStateChangeAt
  attempt,    \* the backoff's attempt, one for all executions
  pc,         \* where each execution is
  tries       \* how often it asked the provider, up to MaxRetries + 2

limiter == <<active, tokens, queued>>
breaker == <<circuit, failures, successes, probes, cooled>>
vars    == <<limiter, breaker, attempt, pc, tries>>

Locations ==
  {"idle", "slotWait", "tokenWait", "admit", "call", "returned", "retryable",
   "fatal", "backoff", "done"}

Goto(r, p) == pc' = [pc EXCEPT ![r] = p]

-----------------------------------------------------------------------------
(* The token bucket limiter. *)

Take ==
  /\ active' = active + 1
  /\ tokens' = tokens - 1

\* release(): never below zero.
Release == active' = IF active > 0 THEN active - 1 ELSE 0

\* acquire(): a caller waits for a slot and a token, or for a token alone.
Acquire(r) ==
  /\ pc[r] = "idle"
  /\ \/ /\ active < MaxConcurrency /\ tokens >= 1
        /\ Take
        /\ Goto(r, "admit")
        /\ UNCHANGED queued
     \/ /\ active >= MaxConcurrency \/ tokens < 1
        /\ queued' = queued + 1
        /\ Goto(r, IF active >= MaxConcurrency THEN "slotWait" ELSE "tokenWait")
        /\ UNCHANGED <<active, tokens>>
  /\ UNCHANGED <<breaker, attempt, tries>>

\* Mutant: a caller in the second loop leaves the queue uncounted.
PollUncounted(r) ==
  /\ \/ pc[r] = "slotWait" /\ active < MaxConcurrency
     \/ pc[r] = "tokenWait"
  /\ tokens >= 1
  /\ queued' = IF pc[r] = "slotWait" THEN queued - 1 ELSE queued
  /\ Take
  /\ Goto(r, "admit")
  /\ UNCHANGED <<breaker, attempt, tries>>

\* The check of a waiting caller that succeeds; one that fails sets the timer
\* again.  Whoever waits for a token does not look at activeRequests again.
Poll(r) ==
  /\ \/ pc[r] = "slotWait" /\ active < MaxConcurrency
     \/ pc[r] = "tokenWait"
  /\ tokens >= 1
  /\ queued' = queued - 1
  /\ Take
  /\ Goto(r, "admit")
  /\ UNCHANGED <<breaker, attempt, tries>>

\* refill(): enough time has passed for one more token.
Refill ==
  /\ tokens < MaxTokens
  /\ tokens' = tokens + 1
  /\ UNCHANGED <<active, queued, breaker, attempt, pc, tries>>

-----------------------------------------------------------------------------
(* The circuit breaker. *)

\* transition(): lastStateChangeAt moves only if the state does.
Transition(to) ==
  /\ circuit' = to
  /\ cooled' = (cooled /\ circuit = to)

\* One more try of an execution.
Count(r) == tries' = [tries EXCEPT ![r] = IF @ < MaxRetries + 2 THEN @ + 1 ELSE @]

\* Mutant: halfOpenRequests is not set back when the breaker half opens.
AdmitUnreset(r) ==
  /\ pc[r] = "admit"
  /\ LET half == circuit = "half_open" \/ (circuit = "open" /\ cooled)
     IN  IF circuit = "closed" \/ (half /\ probes < HalfOpenMax)
         THEN /\ Transition(IF half THEN "half_open" ELSE circuit)
              /\ probes' = IF half THEN probes + 1 ELSE probes
              /\ Goto(r, "call")
         ELSE /\ Goto(r, "fatal")
              /\ UNCHANGED <<circuit, cooled, probes>>
  /\ Count(r)
  /\ UNCHANGED <<limiter, failures, successes, attempt>>

\* execute() up to its operation: an open breaker whose timeout has passed
\* half opens, and a half open one admits HalfOpenMax probes.  Its refusals
\* are errors no adapter retries.
Admit(r) ==
  /\ pc[r] = "admit"
  /\ \/ /\ circuit = "closed"
        /\ Goto(r, "call")
        /\ UNCHANGED <<circuit, cooled, probes>>
     \/ /\ circuit = "open" /\ cooled
        /\ Transition("half_open")
        /\ probes' = 1
        /\ Goto(r, "call")
     \/ /\ circuit = "half_open" /\ probes < HalfOpenMax
        /\ probes' = probes + 1
        /\ Goto(r, "call")
        /\ UNCHANGED <<circuit, cooled>>
     \/ /\ \/ circuit = "open" /\ ~cooled
           \/ circuit = "half_open" /\ probes >= HalfOpenMax
        /\ Goto(r, "fatal")
        /\ UNCHANGED <<circuit, cooled, probes>>
  /\ Count(r)
  /\ UNCHANGED <<limiter, failures, successes, attempt>>

\* onSuccess(), whenever the call was admitted.
Succeed(r) ==
  /\ pc[r] = "call"
  /\ failures' = 0
  /\ IF circuit # "half_open" THEN UNCHANGED <<circuit, cooled, successes>>
     ELSE IF successes + 1 >= SuccessThreshold
          THEN Transition("closed") /\ successes' = 0
          ELSE successes' = successes + 1 /\ UNCHANGED <<circuit, cooled>>
  /\ Goto(r, "returned")
  /\ UNCHANGED <<limiter, probes, attempt, tries>>

\* Mutant: a failure is compared with the threshold before it is counted.
FailOffByOne(r) ==
  /\ pc[r] = "call"
  /\ failures' = IF failures < FailureThreshold THEN failures + 1 ELSE failures
  /\ IF circuit = "half_open" THEN Transition("open") /\ successes' = 0
     ELSE IF circuit = "closed" /\ failures >= FailureThreshold
          THEN Transition("open") /\ UNCHANGED successes
          ELSE UNCHANGED <<circuit, cooled, successes>>
  /\ \E p \in {"retryable", "fatal"} : Goto(r, p)
  /\ UNCHANGED <<limiter, probes, attempt, tries>>

\* onFailure(), whenever the call was admitted: a timeout, a network error or
\* a 429 may be retried, the others may not.
Fail(r) ==
  /\ pc[r] = "call"
  /\ failures' = IF failures < FailureThreshold THEN failures + 1 ELSE failures
  /\ IF circuit = "half_open" THEN Transition("open") /\ successes' = 0
     ELSE IF circuit = "closed" /\ failures + 1 >= FailureThreshold
          THEN Transition("open") /\ UNCHANGED successes
          ELSE UNCHANGED <<circuit, cooled, successes>>
  /\ \E p \in {"retryable", "fatal"} : Goto(r, p)
  /\ UNCHANGED <<limiter, probes, attempt, tries>>

\* timeoutMs pass.
Cool ==
  /\ circuit = "open"
  /\ ~cooled
  /\ cooled' = TRUE
  /\ UNCHANGED <<limiter, circuit, failures, successes, probes, attempt, pc, tries>>

ForceOpen ==
  /\ Operated
  /\ Transition("open")
  /\ UNCHANGED <<limiter, failures, successes, probes, attempt, pc, tries>>

ForceClosed ==
  /\ Operated
  /\ Transition("closed")
  /\ failures' = 0 /\ successes' = 0
  /\ UNCHANGED <<limiter, probes, attempt, pc, tries>>

Reset ==
  /\ Operated
  /\ circuit' = "closed" /\ cooled' = FALSE
  /\ failures' = 0 /\ successes' = 0 /\ probes' = 0
  /\ UNCHANGED <<limiter, attempt, pc, tries>>

-----------------------------------------------------------------------------
(* The execute loop. *)

\* The result is there: release, and the shared backoff starts anew.
Return(r) ==
  /\ pc[r] = "returned"
  /\ Release
  /\ attempt' = 0
  /\ Goto(r, "done")
  /\ UNCHANGED <<tokens, queued, breaker, tries>>

\* Mutant: an error that is not retried returns without release().
CatchUnreleased(r) ==
  /\ pc[r] \in {"retryable", "fatal"}
  /\ IF pc[r] = "retryable" /\ attempt < MaxRetries
     THEN Release /\ attempt' = attempt + 1 /\ Goto(r, "backoff")
     ELSE Goto(r, "done") /\ UNCHANGED <<active, attempt>>
  /\ UNCHANGED <<tokens, queued, breaker, tries>>

\* Every error releases, the retried ones too.
Catch(r) ==
  /\ pc[r] \in {"retryable", "fatal"}
  /\ Release
  /\ IF pc[r] = "retryable" /\ attempt < MaxRetries
     THEN attempt' = attempt + 1 /\ Goto(r, "backoff")
     ELSE Goto(r, "done") /\ UNCHANGED attempt
  /\ UNCHANGED <<tokens, queued, breaker, tries>>

\* The backoff's timer: the next try goes straight to the breaker.
Retry(r) ==
  /\ pc[r] = "backoff"
  /\ Goto(r, "admit")
  /\ UNCHANGED <<limiter, breaker, attempt, tries>>

\* The next execution that misses the cache.
Again(r) ==
  /\ pc[r] = "done"
  /\ Goto(r, "idle")
  /\ tries' = [tries EXCEPT ![r] = 0]
  /\ UNCHANGED <<limiter, breaker, attempt>>

-----------------------------------------------------------------------------
(* The specification. *)

Init ==
  /\ active = 0 /\ tokens = MaxTokens /\ queued = 0
  /\ circuit = "closed" /\ failures = 0 /\ successes = 0 /\ probes = 0
  /\ cooled = FALSE
  /\ attempt = 0
  /\ pc = [r \in Requests |-> "idle"]
  /\ tries = [r \in Requests |-> 0]

Execute(r) ==
  \/ Acquire(r) \/ Poll(r) \/ Admit(r) \/ Succeed(r) \/ Fail(r)
  \/ Return(r) \/ Catch(r) \/ Retry(r) \/ Again(r)

Next ==
  \/ \E r \in Requests : Execute(r)
  \/ Refill \/ Cool
  \/ ForceOpen \/ ForceClosed \/ Reset

Spec == Init /\ [][Next]_vars

(* Timers fire, time passes, every fetch ends within its own timeout, and  *)
(* executions keep coming.                                                 *)
Fairness ==
  /\ \A r \in Requests : WF_vars(Execute(r))
  /\ WF_vars(Refill)
  /\ WF_vars(Cool)

FairSpec == Spec /\ Fairness

-----------------------------------------------------------------------------
(* Properties. *)

TypeOK ==
  /\ active \in Nat
  /\ tokens \in 0 .. MaxTokens
  /\ queued \in Nat
  /\ circuit \in {"closed", "open", "half_open"}
  /\ failures \in 0 .. FailureThreshold
  /\ successes \in 0 .. SuccessThreshold - 1
  /\ probes \in 0 .. HalfOpenMax
  /\ cooled \in BOOLEAN
  /\ attempt \in 0 .. MaxRetries
  /\ pc \in [Requests -> Locations]
  /\ tries \in [Requests -> 0 .. MaxRetries + 2]

Waiting == {r \in Requests : pc[r] \in {"slotWait", "tokenWait"}}
Calling == {r \in Requests : pc[r] = "call"}

\* Executions that have acquired and not yet released for the first time.
Holding ==
  {r \in Requests :
     \/ pc[r] = "admit" /\ tries[r] = 0
     \/ pc[r] \in {"call", "returned", "retryable", "fatal"} /\ tries[r] = 1}

\* queuedRequests is the number of callers that wait, whichever of the two
\* loops of acquire() they wait in.
QueuedIsWaiting == queued = Cardinality(Waiting)

\* No slot is lost: activeRequests never counts more than the executions that
\* hold one, so a caller never waits for a slot that nobody will release,
\* although release() is called once for each failed try.
ActiveIsHeld == active <= Cardinality(Holding)

\* A closed breaker is below its threshold, whatever order the results of
\* calls admitted in earlier states come back in.
ClosedBelowThreshold == circuit = "closed" => failures < FailureThreshold

\* A half open breaker can always close: successes counted, calls under way
\* and probes it would still admit add up to the threshold, although
\* halfOpenRequests is never given back.
HalfOpenCanClose ==
  circuit = "half_open" =>
    SuccessThreshold + probes <= successes + Cardinality(Calling) + HalfOpenMax

\* A half open breaker does not refuse calls for ever: as executions keep
\* coming it closes or opens again.
HalfOpenResolves == circuit = "half_open" ~> circuit # "half_open"

(* What tests of the repository say and the code does not do.              *)

\* terms-rate-cache-circuit.test.ts: the limiter enforces the configured
\* concurrency limit, here for the calls it exists to limit.
ConcurrencyIsLimited == Cardinality(Calling) <= MaxConcurrency

=============================================================================
