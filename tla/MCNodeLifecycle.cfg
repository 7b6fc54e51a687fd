SPECIFICATION FairSpec
CONSTANTS
  n1 = n1
  n2 = n2
  v1 = v1
  v2 = v2
  v3 = v3
  v4 = v4
  home = home
  other = other
  None = None
  Nodes = {n1, n2}
  VMs = {v1, v2, v3, v4}
  Dns <- MCDns
  NodeTag <- MCNodeTag
  Hostname <- MCHostname
  KubeletId <- MCKubeletId
  Zone <- MCZone
  ValidAddresses = {v1, v2, v3, v4}
  Clusters = {home, other}
  Home = home
  KubernetesClusterTag = None
  KubernetesClusterID = None
  OwnTags <- MCOwnTags
  MaxEvents = 3
INVARIANTS
  TypeOK
  HomeOnly
  ProviderTruthful
PROPERTIES
  DeletedIfMissing
  TaintedIfStopped
  Initialised
  Removed
CHECK_DEADLOCK FALSE
