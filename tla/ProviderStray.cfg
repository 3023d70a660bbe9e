SPECIFICATION Spec
CONSTANTS
  Acct = {1, 2}
  Ops = 3
  Opening <- OneEach
  Delta <- Deltas
  Step <- OneStep
  Failing = {"refused", "unknown", "flush"}
  StrayCrash = TRUE
  MaxFailures = 1
  MaxCrashes = 1
INVARIANTS ProviderAgrees
CHECK_DEADLOCK FALSE
