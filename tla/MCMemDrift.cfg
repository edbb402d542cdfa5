\* MEMSCALE with the memory at 500 MHz, the default of GemDroid.py: rounding takes
\* it past the maximum.  An assertion ends the simulation.
CONSTANTS
  Configs <- SlowConfigs
  IPs <- MCIPs
  optDVFSState <- MCOpt
  CORE_DVFS_STATES = 5
  IP_DVFS_STATES = 4
  INTERACTIVE_GOVERNOR_LAT = 2
SPECIFICATION Spec
INVARIANT AssertionsHold
CHECK_DEADLOCK FALSE
