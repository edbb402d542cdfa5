\* Every governor on tables of five and four frequencies.  An assertion ends the
\* simulation, and some governors never act.
CONSTANTS
  Configs <- MCConfigs
  IPs <- MCIPs
  optDVFSState <- MCOpt
  CORE_DVFS_STATES = 5
  IP_DVFS_STATES = 4
  INTERACTIVE_GOVERNOR_LAT = 2
SPECIFICATION Spec
INVARIANTS InTable Survives NoDrift ClocksFollow
CHECK_DEADLOCK FALSE
