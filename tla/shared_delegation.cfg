SPECIFICATION EvidenceSpec
CONSTANTS
  Payments = {p1, p2}
  Inputs = {i1}
  Shared = TRUE
  MaxNow = 1
  MaxQuotes = 1
CHECK_DEADLOCK FALSE
INVARIANT SettledWasCharged
