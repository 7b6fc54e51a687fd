SPECIFICATION FairSpec
CONSTANTS
  a = a
  b = b
  v1 = v1
  v2 = v2
  ga = ga
  gb = gb
  n1 = n1
  n2 = n2
  public = public
  None = None
  Services = {a}
  VMs = {v1, v2}
  Groups = {ga, gb, n1, n2, public}
  ElbGroup <- MCElbGroup
  VmGroups <- MCVmGroups
  MainGroups = {n1, n2}
  ClusterTagged = {n1, n2}
  Specs <- TwoSpecs
  ElbSecurityGroup = None
  DisableSecurityGroupIngress = FALSE
  Vpc = FALSE
  DefaultSrcSg = public
  FaultyCalls <- ReportedCalls
  MaxFailures = 1
  MaxCrashes = 1
  MaxEdits = 3
  MaxMoves = 1
INVARIANTS
  EnsureExact
PROPERTIES
  Converges
CHECK_DEADLOCK FALSE
