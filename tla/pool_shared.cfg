SPECIFICATION Spec
CONSTANTS
  Requests = {r1, r2}
  a1 = a1
  a2 = a2
  b1 = b1
  Instances = {a1}
  Names <- MCNames
  Asked = {"claude-opus-4-8"}
  Modes = {"call", "stream", "direct", "orchestrate", "models"}
  ModelOf <- MCModelOf
  Alias <- MCAlias
  Bare <- MCBare
  LatestOf <- MCLatestOf
  FamilyOf <- MCFamilyOf
  VersionOf <- MCVersionOf
  NoName = ""
  NoFamily = "none"
  OrchScenario = {}
  OrchNamed = {a1}
  MaxRetries = 1
  CacheTTL = 2
  BlacklistTTL = 1
  RecoveryGap = 1
  Cancellable = {}
  NoInstance = NoInstance
  NoRequest = NoRequest
INVARIANTS OnlyRetiredBlacklisted NeverRecalled
PROPERTIES FreshListStable FailoverBlacklists Termination
CHECK_DEADLOCK FALSE
