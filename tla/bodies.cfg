SPECIFICATION BodiesSpec
CONSTANTS
  Functions = {"f", "g"}
  Autogen <- Made
  Budget <- Budgets
  DefaultLimit = 3
  Headroom = 1
  MaxMessages = 4
  MaxItems = 4
  CallIds <- Four
  CallLists <- Lists
  MaxLines = 5
  Dialects <- Outputs
  BudgetPercent = 50
  BudgetMin = 1
  BudgetMax = 3
  Radius = 1
  MaxStack = 2
  MinLines = 3
  SignalPercent = 30
  MarkerSize = 1
  Limits = {0, 1, 2, 3, 4, 5}
INVARIANTS ToolTurnsWhole NothingLost BreakpointsKept ChoiceSurvives ThinkingFits AnswersTold LogFaithful
CHECK_DEADLOCK FALSE
