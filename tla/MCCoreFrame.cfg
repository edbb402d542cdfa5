\* A frame's wait that ends in the cycle in which the core has been idle for
\* LOWPOWER_ENTER_TIME.
CONSTANTS
  Addrs <- MCAddrs
  Insns = {1}
  Waits = {0}
  FpsStalls = {8}
  MAX_TRANSACTIONS = 2
  issue_width = 1
  DEADLOCK_PERIOD = 2
  LOWPOWER_ENTER_TIME = 8
  LOWPOWER_EXIT_TIME = 2
  MAX_PENDING = 2
SPECIFICATION Spec
INVARIANT ActiveWhenReading
CHECK_DEADLOCK FALSE
