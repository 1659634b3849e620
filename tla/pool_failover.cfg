SPECIFICATION Spec
CONSTANTS
  Requests = {r1}
  a1 = a1
  a2 = a2
  b1 = b1
  Instances = {a1, a2, b1}
  Names <- MCNames
  Asked = {"claude-opus-latest", "claude-opus-4-8"}
  Modes = {"call", "stream"}
  ModelOf <- MCModelOf
  Alias <- MCAlias
  Bare <- MCBare
  LatestOf <- MCLatestOf
  FamilyOf <- MCFamilyOf
  VersionOf <- MCVersionOf
  NoName = ""
  NoFamily = "none"
  OrchScenario = {}
  OrchNamed = {}
  MaxRetries = 2
  CacheTTL = 3
  BlacklistTTL = 2
  RecoveryGap = 1
  Cancellable = {r1}
  NoInstance = NoInstance
  NoRequest = NoRequest
PROPERTY FailoverKeepsModel
CHECK_DEADLOCK FALSE
