SPECIFICATION Spec
CONSTANTS
  Project = {1, 2}
  Facility = {"hall", "mill"}
  Activity = {1, 2}
  Design <- Designs
  Upkeep <- Upkeeps
  Full = 3
  Direct = 2
  Pursuit <- Pursuits
  Opening = 6
  Workforce = 1
  Delta <- Forward
  Unsure = {"pay", "reserve", "hire", "release", "letgo", "build"}
  Torn = {}
  LateSaves = {"maintain", "repair", "complete"}
  AnyLifecycle = FALSE
  Scenes <- AllScenes
  MaxFailures = 1
  MaxCrashes = 1
INVARIANTS Consistent Settled PledgesMatch
PROPERTIES EndedForGood TransactionsEnd
CHECK_DEADLOCK FALSE
