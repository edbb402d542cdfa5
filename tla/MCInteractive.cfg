\* INTERACTIVE with an epoch every millisecond, the default, and a unit that
\* becomes active in the middle of an epoch.
CONSTANTS
  Configs <- MCConfigs
  IPs <- MCIPs
  optDVFSState <- MCOpt
  CORE_DVFS_STATES = 3
  IP_DVFS_STATES = 2
  INTERACTIVE_GOVERNOR_LAT = 5
  MILLISEC = 2
SPECIFICATION TimedSpec
INVARIANT HoldsMax
