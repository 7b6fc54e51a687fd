SPECIFICATION FairSpec
CONSTANTS
  a = a
  b = b
  k = k
  l = l
  None = None
  Callers = {a, b}
  Clusters = {k, l}
  Cluster <- MCCluster
  LegacyClusters = {k}
  AdditionalTags <- MCAdditionalTags
  Permissions <- MCPermissions
  Preexisting <- MCPreexisting
  MaxReadThenCreateRetries = 2
  CreateTagSteps = 2
  MaxEvents = 2
INVARIANTS
  TypeOK
  UsedTagged
  IngressExact
  CreatorTags
PROPERTIES
  Returns
  Ensured
CHECK_DEADLOCK FALSE
