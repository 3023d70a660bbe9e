SPECIFICATION Spec
CONSTANTS
  t1 = t1
  t2 = t2
  a = a
  b = b
  Tx = {t1, t2}
  Key = {a, b}
  KeysOf <- OwnScopes
  Steps = 1
  MaxFaults = 0
  MaxCrashes = 0
  MaxFailures <- NoneLive
  LiveScan = {TRUE}
  LateParentError = FALSE
\* A run ends when every command is answered.
CHECK_DEADLOCK FALSE
PROPERTIES
  OutcomeIsFinal
