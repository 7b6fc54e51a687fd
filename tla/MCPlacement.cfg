SPECIFICATION FairSpec
CONSTANTS
  s = s
  t = t
  None = None
  Junk = Junk
  Services = {s, t}
  UID <- MCUID
  Specs <- MCSpecs
  Zones = {"east", "west"}
  Networks <- MCNetworks
  SelfSubnet = 1
  Vpc = TRUE
  Alphanumeric = {"1", "2", "3", "a", "b"}
  LbNameMaxLength = 3
  MaxEdits = 3
INVARIANTS
  ChoiceBest
  NamesWellFormed
  Owned
PROPERTIES
  Placed
CHECK_DEADLOCK FALSE
