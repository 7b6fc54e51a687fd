SPECIFICATION FairSpec
CONSTANTS
  Listeners <- MCListeners
  SslPolicies = {"old", "new"}
  Tags = {"t"}
  Attributes = {"default", "custom"}
  HealthChecks = {"default", "http", "moved"}
  Defaults <- MCDefaults
  Configs <- MCConfigs
  ProxyPolicy = "proxy"
  None = None
  MaxFailures = 2
  MaxEdits = 2
  MaxNodeSyncs = 1
INVARIANTS
  TypeOK
  EnsureConfigures
  EnsureProxies
PROPERTIES
  ListenersKept
  Settles
CHECK_DEADLOCK FALSE
