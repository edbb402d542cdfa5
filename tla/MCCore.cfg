\* A core on a memory that answers in time, and on one that may answer late or
\* never; every frame's wait is long enough for the core to power down and wake
\* up.  An assertion ends the simulation, so behaviours may stop.
CONSTANTS
  Addrs <- MCAddrs
  Insns = {1}
  Waits = {0, 1}
  FpsStalls = {11}
  MAX_TRANSACTIONS = 3
  issue_width = 2
  DEADLOCK_PERIOD = 2
  LOWPOWER_ENTER_TIME = 8
  LOWPOWER_EXIT_TIME = 2
  MAX_PENDING = 2
SPECIFICATION FairSpec
INVARIANTS OneOutstanding Coalesced ActiveWhenReading
PROPERTIES WakesUp HeadReleased
CHECK_DEADLOCK FALSE
