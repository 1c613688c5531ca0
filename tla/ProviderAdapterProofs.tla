------------------------ MODULE ProviderAdapterProofs -----------------------
(***************************************************************************)
(* What the guards of a provider adapter keep for any number of            *)
(* executions and any limits: the waiting callers are counted, no slot is  *)
(* lost, a closed breaker is below its threshold and a half open one can   *)
(* close.                                                                  *)
(***************************************************************************)
EXTENDS ProviderAdapter, FiniteSetTheorems, TLAPS

\* An execution that has not acquired has not asked the provider, and one that
\* has been admitted has asked at least once.
TriesFollow ==
  \A r \in Requests :
    /\ pc[r] \in {"idle", "slotWait", "tokenWait"} => tries[r] = 0
    /\ pc[r] \in {"call", "returned", "retryable", "fatal", "backoff"} =>
         tries[r] > 0

Safe ==
  /\ TypeOK
  /\ TriesFollow
  /\ QueuedIsWaiting
  /\ ActiveIsHeld
  /\ ClosedBelowThreshold
  /\ HalfOpenCanClose

-----------------------------------------------------------------------------
(* The three sets the counters are compared with.                          *)

\* Requests is finite, and so are the sets the counters are compared with.
LEMMA SetsAreFinite ==
  /\ IsFiniteSet(Waiting) /\ Cardinality(Waiting) \in Nat
  /\ IsFiniteSet(Calling) /\ Cardinality(Calling) \in Nat
  /\ IsFiniteSet(Holding) /\ Cardinality(Holding) \in Nat
<1>1. Waiting \in SUBSET Requests /\ Calling \in SUBSET Requests /\ Holding \in SUBSET Requests
  BY DEF Waiting, Calling, Holding
<1> QED
  BY <1>1, RequestsAssumption, FS_Subset, FS_CardinalityType

\* What one element more does to a counter.
LEMMA OneMore ==
  ASSUME NEW S, IsFiniteSet(S), NEW x, x \notin S
  PROVE  Cardinality(S \cup {x}) = Cardinality(S) + 1
BY FS_AddElement

\* What one element less does to a counter.
LEMMA OneLess ==
  ASSUME NEW S, IsFiniteSet(S), NEW x, x \in S
  PROVE  Cardinality(S \ {x}) = Cardinality(S) - 1
BY FS_RemoveElement

-----------------------------------------------------------------------------
(* One lemma for each action.                                              *)

\* acquire() at once: a slot for the holder, or one more in the queue.
LEMMA AcquireStep ==
  ASSUME Safe, NEW r \in Requests, Acquire(r)
  PROVE  Safe'
<1> USE DEF Safe, Acquire, Take, Goto, breaker, TypeOK
<1>1. TypeOK'
  BY LimiterAssumption DEF Locations
<1>2. TriesFollow'
  BY DEF TriesFollow
<1>3. Calling' = Calling
  BY DEF Calling
<1>4. ClosedBelowThreshold' /\ HalfOpenCanClose'
  BY <1>3 DEF ClosedBelowThreshold, HalfOpenCanClose
<1>5. r \notin Waiting /\ r \notin Holding
  BY DEF Waiting, Holding
<1>6. CASE pc'[r] = "admit"
  <2>1. Waiting' = Waiting
    BY <1>6 DEF Waiting
  <2>2. Holding' = Holding \cup {r}
    BY <1>6 DEF Holding, TriesFollow
  <2>3. active' = active + 1 /\ queued' = queued
    BY <1>6
  <2>4. Cardinality(Holding') = Cardinality(Holding) + 1
    BY <2>2, <1>5, OneMore, SetsAreFinite
  <2>5. active' <= Cardinality(Holding')
    BY <2>3, <2>4, SetsAreFinite DEF ActiveIsHeld
  <2> QED
    BY <1>1, <1>2, <1>4, <2>1, <2>3, <2>5 DEF QueuedIsWaiting, ActiveIsHeld
<1>7. CASE pc'[r] # "admit"
  <2>1. Waiting' = Waiting \cup {r}
    BY <1>7 DEF Waiting
  <2>2. Holding' = Holding
    BY <1>7 DEF Holding
  <2>3. active' = active /\ queued' = queued + 1
    BY <1>7
  <2>4. Cardinality(Waiting') = Cardinality(Waiting) + 1
    BY <2>1, <1>5, OneMore, SetsAreFinite
  <2> QED
    BY <1>1, <1>2, <1>4, <2>2, <2>3, <2>4 DEF QueuedIsWaiting, ActiveIsHeld
<1> QED
  BY <1>6, <1>7

\* A waiting caller becomes a holder, from either loop.
LEMMA PollStep ==
  ASSUME Safe, NEW r \in Requests, Poll(r)
  PROVE  Safe'
<1> USE DEF Safe, Poll, Take, Goto, breaker, TypeOK
<1>1. r \in Waiting /\ r \notin Holding
  BY DEF Waiting, Holding
<1>2. Waiting' = Waiting \ {r}
  BY DEF Waiting
<1>3. Holding' = Holding \cup {r}
  BY DEF Holding, TriesFollow
<1>4. Calling' = Calling
  BY DEF Calling
<1>5. Cardinality(Waiting') = Cardinality(Waiting) - 1 /\ Cardinality(Waiting') \in Nat
  <2>1. Cardinality(Waiting \ {r}) = Cardinality(Waiting) - 1
    BY <1>1, OneLess, SetsAreFinite
  <2>2. Cardinality(Waiting \ {r}) \in Nat
    BY SetsAreFinite, FS_RemoveElement, FS_CardinalityType
  <2> QED
    BY <1>2, <2>1, <2>2
<1>6. QueuedIsWaiting'
  BY <1>5 DEF QueuedIsWaiting
<1>7. queued' \in Nat
  BY <1>5, <1>6 DEF QueuedIsWaiting
<1>8. TypeOK'
  BY <1>7, LimiterAssumption DEF Locations
<1>9. TriesFollow'
  BY DEF TriesFollow
<1>10. Cardinality(Holding') = Cardinality(Holding) + 1
  BY <1>1, <1>3, OneMore, SetsAreFinite
<1>11. ActiveIsHeld'
  BY <1>10, SetsAreFinite DEF ActiveIsHeld
<1>12. ClosedBelowThreshold' /\ HalfOpenCanClose'
  BY <1>4 DEF ClosedBelowThreshold, HalfOpenCanClose
<1> QED
  BY <1>6, <1>8, <1>9, <1>11, <1>12

\* The breaker admits a call as a probe, or refuses it.
LEMMA AdmitStep ==
  ASSUME Safe, NEW r \in Requests, Admit(r)
  PROVE  Safe'
<1> USE DEF Safe, Admit, Count, Transition, Goto, limiter, TypeOK
<1>1. pc'[r] \in {"call", "fatal"} /\ \A q \in Requests \ {r} : pc'[q] = pc[q] /\ tries'[q] = tries[q]
  OBVIOUS
<1>2. tries'[r] = IF tries[r] < MaxRetries + 2 THEN tries[r] + 1 ELSE tries[r]
  OBVIOUS
<1>3. TypeOK'
  <2>1. tries' \in [Requests -> 0 .. MaxRetries + 2]
    BY RetryAssumption
  <2>2. probes' \in 0 .. HalfOpenMax
    BY BreakerAssumption
  <2>3. pc' \in [Requests -> Locations]
    BY DEF Locations
  <2>4. circuit' \in {"closed", "open", "half_open"} /\ cooled' \in BOOLEAN
    OBVIOUS
  <2> QED
    BY <2>1, <2>2, <2>3, <2>4
<1>4. TriesFollow'
  BY <1>1, <1>2, RetryAssumption DEF TriesFollow
<1>5. Waiting' = Waiting
  BY <1>1 DEF Waiting
<1>6. Holding' = Holding
  <2>1. r \in Holding <=> tries[r] = 0
    BY DEF Holding
  <2>2. tries'[r] = 1 <=> tries[r] = 0
    BY <1>2, RetryAssumption
  <2>3. r \in Holding' <=> tries'[r] = 1
    BY <1>1 DEF Holding
  <2>4. \A q \in Requests \ {r} : q \in Holding' <=> q \in Holding
    BY <1>1 DEF Holding
  <2>5. Holding \subseteq Requests /\ Holding' \subseteq Requests
    BY DEF Holding
  <2>6. \A q \in Requests : q \in Holding' <=> q \in Holding
    BY <2>1, <2>2, <2>3, <2>4
  <2> QED
    BY ONLY <2>5, <2>6
<1>7. QueuedIsWaiting' /\ ActiveIsHeld'
  BY <1>5, <1>6 DEF QueuedIsWaiting, ActiveIsHeld
<1>8. ClosedBelowThreshold'
  BY DEF ClosedBelowThreshold
<1>9. HalfOpenCanClose'
  <2>1. r \notin Calling
    BY DEF Calling
  <2>2. CASE pc'[r] = "fatal"
    <3>1. Calling' = Calling
      BY <2>2 DEF Calling
    <3> QED
      BY <2>2, <3>1 DEF HalfOpenCanClose
  <2>3. CASE pc'[r] = "call"
    <3>1. Calling' = Calling \cup {r}
      BY <2>3 DEF Calling
    <3>2. Cardinality(Calling') = Cardinality(Calling) + 1
      BY <2>1, <3>1, OneMore, SetsAreFinite
    <3> QED
      BY <2>3, <3>2, SetsAreFinite, BreakerAssumption DEF HalfOpenCanClose
  <2> QED
    BY <1>1, <2>2, <2>3
<1> QED
  BY <1>3, <1>4, <1>7, <1>8, <1>9

\* A late success closes a half open breaker or leaves a closed one closed.
LEMMA SucceedStep ==
  ASSUME Safe, NEW r \in Requests, Succeed(r)
  PROVE  Safe'
<1> USE DEF Safe, Succeed, Transition, Goto, limiter, TypeOK
<1>1. TypeOK'
  <2>1. successes' \in 0 .. SuccessThreshold - 1
    BY BreakerAssumption
  <2>2. failures' \in 0 .. FailureThreshold
    BY BreakerAssumption
  <2> QED
    BY <2>1, <2>2 DEF Locations
<1>2. TriesFollow'
  BY DEF TriesFollow
<1>3. Waiting' = Waiting /\ Holding' = Holding
  BY DEF Waiting, Holding
<1>4. QueuedIsWaiting' /\ ActiveIsHeld'
  BY <1>3 DEF QueuedIsWaiting, ActiveIsHeld
<1>5. ClosedBelowThreshold'
  BY BreakerAssumption DEF ClosedBelowThreshold
<1>6. HalfOpenCanClose'
  <2>1. r \in Calling /\ Calling' = Calling \ {r}
    BY DEF Calling
  <2>2. Cardinality(Calling') = Cardinality(Calling) - 1
    BY <2>1, OneLess, SetsAreFinite
  <2>3. circuit' = "half_open" => circuit = "half_open" /\ successes' = successes + 1
    OBVIOUS
  <2> QED
    BY <2>2, <2>3, SetsAreFinite, BreakerAssumption DEF HalfOpenCanClose
<1> QED
  BY <1>1, <1>2, <1>4, <1>5, <1>6

\* A late failure never leaves a half open breaker half open.
LEMMA FailStep ==
  ASSUME Safe, NEW r \in Requests, Fail(r)
  PROVE  Safe'
<1> USE DEF Safe, Fail, Transition, Goto, limiter, TypeOK
<1>1. TypeOK'
  <2>1. successes' \in 0 .. SuccessThreshold - 1
    BY BreakerAssumption
  <2>2. failures' \in 0 .. FailureThreshold
    BY BreakerAssumption
  <2> QED
    BY <2>1, <2>2 DEF Locations
<1>2. TriesFollow'
  BY DEF TriesFollow
<1>3. Waiting' = Waiting /\ Holding' = Holding
  BY DEF Waiting, Holding
<1>4. QueuedIsWaiting' /\ ActiveIsHeld'
  BY <1>3 DEF QueuedIsWaiting, ActiveIsHeld
<1>5. ClosedBelowThreshold'
  BY BreakerAssumption DEF ClosedBelowThreshold
<1>6. circuit' # "half_open"
  OBVIOUS
<1> QED
  BY <1>1, <1>2, <1>4, <1>5, <1>6 DEF HalfOpenCanClose

\* release() gives back what its execution holds, or the slot of another one:
\* never one that is not there.
LEMMA Releases ==
  ASSUME Safe, NEW r \in Requests, Release,
         Holding' = Holding \ {r}
  PROVE  ActiveIsHeld'
<1> USE DEF Safe, Release, TypeOK, ActiveIsHeld
<1>1. Cardinality(Holding \ {r}) = IF r \in Holding THEN Cardinality(Holding) - 1 ELSE Cardinality(Holding)
  BY SetsAreFinite, FS_RemoveElement
<1>2. Cardinality(Holding \ {r}) \in Nat
  BY SetsAreFinite, FS_RemoveElement, FS_CardinalityType
<1> QED
  BY <1>1, <1>2, SetsAreFinite

\* A result releases the slot of its execution.
LEMMA ReturnStep ==
  ASSUME Safe, NEW r \in Requests, Return(r)
  PROVE  Safe'
<1> USE DEF Safe, Return, Goto, breaker, TypeOK
<1>1. TypeOK'
  BY RetryAssumption DEF Locations, Release
<1>2. TriesFollow'
  BY DEF TriesFollow
<1>3. Waiting' = Waiting /\ Calling' = Calling /\ Holding' = Holding \ {r}
  BY DEF Waiting, Calling, Holding
<1>4. ActiveIsHeld'
  BY <1>3, Releases
<1> QED
  BY <1>1, <1>2, <1>3, <1>4
  DEF QueuedIsWaiting, ClosedBelowThreshold, HalfOpenCanClose

\* An error releases a slot, whether it is retried or not.
LEMMA CatchStep ==
  ASSUME Safe, NEW r \in Requests, Catch(r)
  PROVE  Safe'
<1> USE DEF Safe, Catch, Goto, breaker, TypeOK
<1>1. TypeOK'
  BY RetryAssumption DEF Locations, Release
<1>2. TriesFollow'
  BY DEF TriesFollow
<1>3. Waiting' = Waiting /\ Calling' = Calling /\ Holding' = Holding \ {r}
  BY DEF Waiting, Calling, Holding
<1>4. ActiveIsHeld'
  BY <1>3, Releases
<1> QED
  BY <1>1, <1>2, <1>3, <1>4
  DEF QueuedIsWaiting, ClosedBelowThreshold, HalfOpenCanClose

\* A retry asks the breaker without a slot of its own.
LEMMA RetryStep ==
  ASSUME Safe, NEW r \in Requests, Retry(r)
  PROVE  Safe'
<1> USE DEF Safe, Retry, Goto, limiter, breaker, TypeOK
<1>1. TypeOK' /\ TriesFollow'
  BY DEF TriesFollow, Locations
<1>2. Waiting' = Waiting /\ Calling' = Calling
  BY DEF Waiting, Calling
<1>3. Holding' = Holding
  BY DEF Holding, TriesFollow
<1> QED
  BY <1>1, <1>2, <1>3
  DEF QueuedIsWaiting, ActiveIsHeld, ClosedBelowThreshold, HalfOpenCanClose

\* An execution that ended holds nothing when the next one starts.
LEMMA AgainStep ==
  ASSUME Safe, NEW r \in Requests, Again(r)
  PROVE  Safe'
<1> USE DEF Safe, Again, Goto, limiter, breaker, TypeOK
<1>1. TypeOK' /\ TriesFollow'
  BY RetryAssumption DEF TriesFollow, Locations
<1>2. Waiting' = Waiting /\ Calling' = Calling /\ Holding' = Holding
  BY DEF Waiting, Calling, Holding
<1> QED
  BY <1>1, <1>2
  DEF QueuedIsWaiting, ActiveIsHeld, ClosedBelowThreshold, HalfOpenCanClose

\* Time passes, or somebody operates the breaker.
LEMMA OutsideStep ==
  ASSUME Safe, Refill \/ Cool \/ ForceOpen \/ ForceClosed \/ Reset
  PROVE  Safe'
<1> USE DEF Safe, limiter, Transition, TypeOK
<1>1. pc' = pc /\ tries' = tries /\ active' = active /\ queued' = queued
  BY DEF Refill, Cool, ForceOpen, ForceClosed, Reset
<1>2. TypeOK'
  <2> USE DEF Refill, Cool, ForceOpen, ForceClosed, Reset, breaker
  <2>1. cooled' \in BOOLEAN
    BY Zenon
  <2>2. tokens' \in 0 .. MaxTokens
    BY LimiterAssumption
  <2>3. failures' \in 0 .. FailureThreshold /\ successes' \in 0 .. SuccessThreshold - 1
    BY BreakerAssumption
  <2>4. probes' \in 0 .. HalfOpenMax
    BY BreakerAssumption
  <2>5. circuit' \in {"closed", "open", "half_open"} /\ attempt' = attempt
    OBVIOUS
  <2> HIDE DEF Refill, Cool, ForceOpen, ForceClosed, Reset
  <2> QED
    BY <1>1, <2>1, <2>2, <2>3, <2>4, <2>5
<1>3. TriesFollow' /\ QueuedIsWaiting' /\ ActiveIsHeld' /\ Calling' = Calling
  BY <1>1
  DEF TriesFollow, QueuedIsWaiting, ActiveIsHeld, Waiting, Holding, Calling
<1>4. ClosedBelowThreshold' /\ HalfOpenCanClose'
  BY <1>3, BreakerAssumption
  DEF Refill, Cool, ForceOpen, ForceClosed, Reset, breaker,
      ClosedBelowThreshold, HalfOpenCanClose
<1> QED
  BY <1>2, <1>3, <1>4

-----------------------------------------------------------------------------

\* The counters of the limiter and the breaker agree with where the executions
\* are, for any number of executions and any limits.
THEOREM SafeAlways == Spec => []Safe
<1>1. Init => Safe
  <2> SUFFICES ASSUME Init PROVE Safe
    OBVIOUS
  <2>1. Waiting = {} /\ Holding = {}
    BY DEF Init, Waiting, Holding
  <2>2. Cardinality({}) = 0
    BY FS_EmptySet
  <2>3. TypeOK
    <3>1. cooled \in BOOLEAN
      BY Zenon DEF Init
    <3>2. pc \in [Requests -> Locations]
      BY DEF Init, Locations
    <3>3. tries \in [Requests -> 0 .. MaxRetries + 2]
      BY RetryAssumption DEF Init
    <3>4. /\ active \in Nat /\ tokens \in 0 .. MaxTokens /\ queued \in Nat
          /\ attempt \in 0 .. MaxRetries
      BY LimiterAssumption, RetryAssumption DEF Init
    <3>5. /\ circuit \in {"closed", "open", "half_open"}
          /\ failures \in 0 .. FailureThreshold
          /\ successes \in 0 .. SuccessThreshold - 1
          /\ probes \in 0 .. HalfOpenMax
      BY BreakerAssumption DEF Init
    <3> QED
      BY <3>1, <3>2, <3>3, <3>4, <3>5 DEF TypeOK
  <2>4. QueuedIsWaiting /\ ActiveIsHeld
    BY <2>1, <2>2 DEF Init, QueuedIsWaiting, ActiveIsHeld
  <2> QED
    BY <2>3, <2>4, BreakerAssumption
    DEF Init, Safe, TriesFollow, ClosedBelowThreshold, HalfOpenCanClose
<1>2. Safe /\ [Next]_vars => Safe'
  <2> SUFFICES ASSUME Safe, [Next]_vars PROVE Safe'
    OBVIOUS
  <2>1. ASSUME NEW r \in Requests, Execute(r) PROVE Safe'
    BY <2>1, AcquireStep, PollStep, AdmitStep, SucceedStep, FailStep,
       ReturnStep, CatchStep, RetryStep, AgainStep DEF Execute
  <2>2. CASE UNCHANGED vars
    BY <2>2
    DEF vars, limiter, breaker, Safe, TypeOK, TriesFollow, QueuedIsWaiting,
        ActiveIsHeld, ClosedBelowThreshold, HalfOpenCanClose, Waiting,
        Holding, Calling
  <2> QED
    BY <2>1, <2>2, OutsideStep DEF Next
<1> QED
  BY <1>1, <1>2, PTL DEF Spec

\* The counters, the breaker and the executions keep their types.
THEOREM AdapterTypesKept == Spec => []TypeOK
BY SafeAlways, PTL DEF Safe

\* No slot of the limiter is lost: what activeRequests counts is held by an
\* execution that will release it.
THEOREM NoSlotIsLost == Spec => []ActiveIsHeld
BY SafeAlways, PTL DEF Safe

\* queuedRequests counts the callers in both waiting loops of acquire().
THEOREM QueueIsCounted == Spec => []QueuedIsWaiting
BY SafeAlways, PTL DEF Safe

\* A result that comes late never leaves a closed breaker at its threshold.
THEOREM ClosedIsBelow == Spec => []ClosedBelowThreshold
BY SafeAlways, PTL DEF Safe

\* A half open breaker can close, although it never gives a probe back.
THEOREM HalfOpenMayClose == Spec => []HalfOpenCanClose
BY SafeAlways, PTL DEF Safe

=============================================================================
