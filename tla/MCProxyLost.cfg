SPECIFICATION Spec
CONSTANTS
  Listeners <- MCListeners
  SslPolicies = {"old", "new"}
  Tags = {"t"}
  Attributes = {"default", "custom"}
  HealthChecks = {"default", "http", "moved"}
  Defaults <- MCDefaults
  Configs <- SameNodePort
  ProxyPolicy = "proxy"
  None = None
  MaxFailures = 0
  MaxEdits = 2
  MaxNodeSyncs = 0
INVARIANTS
  EnsureProxies
CHECK_DEADLOCK FALSE
