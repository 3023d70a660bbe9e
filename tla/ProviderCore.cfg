SPECIFICATION Spec
CONSTANTS
  Acct = {1, 2}
  Ops = 3
  Opening <- OneEach
  Delta <- Deltas
  Step <- OneStep
  Failing = {"refused", "unknown", "flush"}
  StrayCrash = FALSE
  MaxFailures = 1
  MaxCrashes = 1
INVARIANTS Consistent AdjustResolved ProviderAgrees
CHECK_DEADLOCK FALSE
