SPECIFICATION Spec
CONSTANTS
  d1 = d1
  d2 = d2
  gold = gold
  food = food
  Domain = {d1, d2}
  Resource = {gold, food}
  Acct <- Accounts
  Opening <- Balances
  Limit <- Limits
  Ops = 3
  Amount = {1}
  Part = {1, 2}
  Keyed <- OneKey
  Reopening = {}
  Reversible = {"transfer-debit", "transfer-credit", "conversion-debit", "conversion-credit", "adjustment", "consumption", "opening-balance", "reversal"}
  Kinds = {"adjust", "reverse"}
  CrashSafe = {}
  StrayCrash = FALSE
  Failing = {}
  MaxFailures = 0
  MaxCrashes = 0
\* A run ends when every command has been given its keys and is done.
CHECK_DEADLOCK FALSE
INVARIANTS
  BooksAgree
