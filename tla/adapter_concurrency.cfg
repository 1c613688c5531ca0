SPECIFICATION Spec
CONSTANTS
  Requests = {r1, r2, r3}
  MaxConcurrency = 2
  MaxTokens = 2
  FailureThreshold = 3
  SuccessThreshold = 2
  HalfOpenMax = 3
  MaxRetries = 0
  Operated = FALSE
SYMMETRY Symmetric
INVARIANT ConcurrencyIsLimited
