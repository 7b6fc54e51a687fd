SPECIFICATION Spec
CONSTANTS
  a = a
  b = b
  v1 = v1
  v2 = v2
  ga = ga
  gb = gb
  n1 = n1
  n2 = n2
  public = public
  None = None
  Services = {a}
  VMs = {v1, v2}
  Groups = {ga, gb, n1, n2, public}
  ElbGroup <- MCElbGroup
  VmGroups <- MCVmGroups
  MainGroups = {n1, n2}
  ClusterTagged = {n1, n2}
  Specs <- TwoSpecs
  ElbSecurityGroup = None
  DisableSecurityGroupIngress = FALSE
  Vpc = TRUE
  DefaultSrcSg = public
  FaultyCalls <- AllCalls
  MaxFailures = 1
  MaxCrashes = 0
  MaxEdits = 2
  MaxMoves = 1
INVARIANTS
  UpdateExact
CHECK_DEADLOCK FALSE
