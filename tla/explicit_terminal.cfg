SPECIFICATION Spec
CONSTANTS
  Requests = {r1, r2, r3}
  Bindings = {b1}
  NoRequest = NoRequest
  NoBinding = NoBinding
  Rail = "cdp"
  Upto = TRUE
  Checker = TRUE
  MayLapse = FALSE
  CrashAt <- Nowhere
  Faults = {}
  MaxTries = 3
PROPERTY ExplicitStays
\* With every request spent on a settle call of its own the buyer stops.
CHECK_DEADLOCK FALSE
