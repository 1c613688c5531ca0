SPECIFICATION LibrariesSpec
CONSTANTS
  Payments = {p1}
  Inputs = {i1, i2}
  Shared = FALSE
  Identifiers = {p1}
  VerifyReplies <- Verifies
  SettleReplies <- Settles
  MaxNow = 2
  MaxQuotes = 2
  Urls <- Web
  MaxRedirects = 2
  PolicyRedirects = 2
  MaxBytes = 2
  HopBytes = 2
  MaxSize = 3
  Askers = {c1, c2}
  Questions = {i1, i2}
  MaxKept = 1
  Ttl = 1
  MaxTime = 1
  Visitors = {c1, c2}
  Gates = {"PAYMENT_ENVIRONMENT", "PRODUCTION_ENABLED"}
  Databases = {d1, d2}
  MaxChanges = 2
  Attempts = 2
  MaxPairs = 2
  MaxHarnessRuns = 2
  Artifacts = {c1, c2}
  Hashes = {i1, i2}
  MaxPuts = 2
  MaxScriptRuns = 2
  RowIds = {1, 2}
  RowKeys = {1, 2}
  RowTimes = {0, 1}
  MaxClock = 2
  CreditAmounts = {0, 1, 2}
SYMMETRY Symmetric
CHECK_DEADLOCK FALSE
INVARIANT LibraryTypesOK
INVARIANT ChargedAsQuoted RetryIsTheSame SettledWasCharged OutcomeIsSaid
INVARIANT FetchedAsChecked AnswersTheQuestion ServedByGates DiscoveryIsTrue SurfacesAgree
INVARIANT RegisteredOnce ProofsProve StoresAgree ContentsAreTheirHash ChecksAreSound
