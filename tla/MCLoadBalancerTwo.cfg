SPECIFICATION FairSpec
CONSTANTS
  a = a
  b = b
  v1 = v1
  v2 = v2
  ga = ga
  gb = gb
  n1 = n1
  n2 = n2
  public = public
  None = None
  Services = {a, b}
  VMs = {v1, v2}
  Groups = {ga, gb, n1, n2, public}
  ElbGroup <- MCElbGroup
  VmGroups <- MCVmGroups
  MainGroups = {n1, n2}
  ClusterTagged = {n1, n2}
  Specs <- OneSpec
  ElbSecurityGroup = None
  DisableSecurityGroupIngress = FALSE
  Vpc = TRUE
  DefaultSrcSg = public
  FaultyCalls <- AllCalls
  MaxFailures = 1
  MaxCrashes = 1
  MaxEdits = 3
  MaxMoves = 0
INVARIANTS
  QuietReachable
PROPERTIES
  Converges
CHECK_DEADLOCK FALSE
