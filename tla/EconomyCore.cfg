SPECIFICATION Spec
CONSTANTS
  d1 = d1
  d2 = d2
  gold = gold
  food = food
  Domain = {d1, d2}
  Resource = {gold, food}
  Acct <- Accounts
  Opening <- Balances
  Limit <- Full
  Ops = 3
  Amount = {1}
  Part = {1, 2}
  Keyed <- OneKey
  Reopening = {}
  Reversible = {"transfer-debit", "transfer-credit", "conversion-debit", "conversion-credit", "adjustment", "consumption", "opening-balance"}
  Kinds = {"transfer", "convert", "adjust", "keyed", "open", "shut", "reserve", "consume", "release", "reverse"}
  CrashSafe = {"transfer", "convert", "keyed"}
  StrayCrash = FALSE
  Failing = {"write", "rollback", "flush"}
  MaxFailures = 1
  MaxCrashes = 1
\* A run ends when every command has been given its keys and is done.
CHECK_DEADLOCK FALSE
INVARIANTS
  Consistent
  BooksAgree
  KeyedOnce
PROPERTIES ImplementsBank
