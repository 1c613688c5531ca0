SPECIFICATION ComponentsSpec
CONSTANTS
  Callers = {c1, c2}
  Inputs = {i1, i2}
  Workers = {w1, w2}
  MaxRetries = 1
  Faults = TRUE
  Live = FALSE
  MaxSlow = 1
  Waves <- MeshWaves
  Outcomes <- ServiceOutcomes
SYMMETRY Symmetric
CHECK_DEADLOCK FALSE
INVARIANT TypesOK OneJobPerKey AnswersAgree NothingLost NoLateRun
INVARIANT OutputIsVerified RefusedForAReason
PROPERTY KeepsJobPromise
