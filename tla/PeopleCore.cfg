SPECIFICATION Spec
CONSTANTS
  Id = {"p", "g", "h", "n", "m", "l", "x"}
  NotableId = {"n", "m", "l"}
  Trade <- Trades
  Actor = {"a"}
  Role <- Roles
  RoleMax <- RoleMaxima
  Never = 9
  Scenes <- CoreScenes
  MaxNow = 1
INVARIANT Consistent
PROPERTIES PromisedWithinMeans
CHECK_DEADLOCK FALSE
