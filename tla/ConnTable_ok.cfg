SPECIFICATION FairSpec
CONSTANTS
  k1 = k1
  k2 = k2
  k3 = k3
  k4 = k4
  Clients = {k1, k2, k3, k4}
  None = None
  MaxFd = 3
INVARIANTS TypeOK NoCrossTalk NoDanglingEntry GivenUpClosed PlainOnlyAfterReuse
PROPERTY DescriptorsReturned
CHECK_DEADLOCK FALSE
