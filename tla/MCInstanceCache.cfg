SPECIFICATION MCSpec
CONSTANTS
  n1 = n1
  n2 = n2
  v1 = v1
  v2 = v2
  Callers = {c1, c2}
  Nodes = {n1, n2}
  VMs = {v1, v2}
  VmOf <- MCVmOf
  MaxAge = 0
  MaxClock = 1
  NoVm = NoVm
  NoSnapshot = NoSnapshot
INVARIANTS
  TypeOK
  CacheTruthful
  AnswerComplete
PROPERTIES
  CacheMonotone
  ImplementsLookup
SYMMETRY Symmetry
CHECK_DEADLOCK FALSE
