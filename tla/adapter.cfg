SPECIFICATION FairSpec
CONSTANTS
  Requests = {r1, r2}
  MaxConcurrency = 1
  MaxTokens = 2
  FailureThreshold = 3
  SuccessThreshold = 2
  HalfOpenMax = 3
  MaxRetries = 2
  Operated = TRUE
INVARIANT QueuedIsWaiting ActiveIsHeld ClosedBelowThreshold HalfOpenCanClose
PROPERTY HalfOpenResolves
