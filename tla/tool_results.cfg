SPECIFICATION BodiesSpec
CONSTANTS
  Functions = {"f", "g"}
  Autogen <- Made
  Budget <- Budgets
  DefaultLimit = 3
  Headroom = 1
  MaxMessages = 3
  MaxItems = 0
  CallIds <- Four
  CallLists <- Lists
  MaxLines = 0
  Dialects <- Outputs
  BudgetPercent = 50
  BudgetMin = 1
  BudgetMax = 3
  Radius = 1
  MaxStack = 2
  MinLines = 3
  SignalPercent = 30
  MarkerSize = 3
  Limits = {0}
INVARIANT ResultsTogether
CHECK_DEADLOCK FALSE
