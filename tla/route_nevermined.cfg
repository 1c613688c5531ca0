SPECIFICATION Spec
CONSTANTS
  Requests = {r1, r2, r3}
  Bindings = {b1, b2}
  NoRequest = NoRequest
  NoBinding = NoBinding
  Rail = "nevermined"
  Upto = TRUE
  Checker = TRUE
  MayLapse = TRUE
  CrashAt <- Anywhere
  Faults = {"job"}
  MaxTries = 0
SYMMETRY Symmetric
INVARIANT ChargedAtMostOnce PaidHasResult ServedIsPaidAndFinal ConsumedIsSettled DeliveredIsConsumed
PROPERTY FinalResultStays
