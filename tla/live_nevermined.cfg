SPECIFICATION FairSpec
CONSTANTS
  Requests = {r1, r2}
  Bindings = {b1}
  NoRequest = NoRequest
  NoBinding = NoBinding
  Rail = "nevermined"
  Upto = TRUE
  Checker = TRUE
  MayLapse = FALSE
  CrashAt <- WhileSettling
  Faults = {}
  MaxTries = 3
PROPERTY PaidIsServed
