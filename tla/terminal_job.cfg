SPECIFICATION Spec
CONSTANTS
  Requests = {r1, r2}
  Bindings = {b1}
  NoRequest = NoRequest
  NoBinding = NoBinding
  Rail = "nevermined"
  Upto = TRUE
  Checker = TRUE
  MayLapse = FALSE
  CrashAt <- Nowhere
  Faults = {}
  MaxTries = 3
PROPERTY TerminalJobStays
