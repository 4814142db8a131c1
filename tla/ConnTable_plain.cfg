SPECIFICATION Spec
CONSTANTS
  k1 = k1
  k2 = k2
  k3 = k3
  k4 = k4
  Clients = {k1, k2, k3, k4}
  None = None
  MaxFd = 3
INVARIANTS ServedOverTLS
CHECK_DEADLOCK FALSE
