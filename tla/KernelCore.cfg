SPECIFICATION FairSpec
CONSTANTS
  t1 = t1
  t2 = t2
  a = a
  b = b
  Tx = {t1, t2}
  Key = {a, b}
  KeysOf <- SameScope
  Steps = 2
  MaxFaults = 2
  MaxCrashes = 1
  MaxFailures <- NoneLive
  LiveScan = {TRUE, FALSE}
  LateParentError = FALSE
\* A run ends when every command is answered.
CHECK_DEADLOCK FALSE
INVARIANTS
  Consistent
  WriteAhead
  AtomicOutcome
  NeverUndoneUnderParent
PROPERTIES CommandEnds
  OutcomeIsFinal
