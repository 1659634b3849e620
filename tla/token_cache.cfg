SPECIFICATION TokenSpec
CONSTANTS
  Requests = {r1, r2}
  MaxTokens = 3
  Lifetimes = {0, 3}
  DefaultLifetime = 4
  Margin = 2
  FetchTimeout = 1
  MaxTransient = 1
  NoRequest = NoRequest
INVARIANT OneExchange
PROPERTIES CacheHitUnexpired RejectedLeavesCache Termination
CHECK_DEADLOCK FALSE
