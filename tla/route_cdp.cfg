SPECIFICATION Spec
CONSTANTS
  Requests = {r1, r2, r3}
  Bindings = {b1, b2}
  NoRequest = NoRequest
  NoBinding = NoBinding
  Rail = "cdp"
  Upto = TRUE
  Checker = TRUE
  MayLapse = TRUE
  CrashAt <- Anywhere
  Faults = {"stage"}
  MaxTries = 3
SYMMETRY Symmetric
INVARIANT IndInv WinsCountOnce
PROPERTY JobMovesLegally StageMovesLegally KeepsPromise
\* With every request spent on a settle call of its own the buyer stops.
CHECK_DEADLOCK FALSE
