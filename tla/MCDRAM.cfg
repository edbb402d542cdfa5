\* Delays in the order of those of LPDDR3, a few cycles long.
CONSTANTS
  transactionSize = 8
  NUM_CHANS = 2
  NUM_RANKS = 1
  NUM_BANKS = 2
  NUM_ROWS = 4
  COL_HIGH = 2
  addressMappingScheme = 7
  systemID = 0
  Senders = {"s1", "s2", "s3"}
  Traffic <- MCTraffic
  TRANS_QUEUE_DEPTH = 2
  CMD_QUEUE_DEPTH = 4
  TOTAL_ROW_ACCESSES = 1
  REFRESH_CYCLES = 20
  RL = 2
  HALF_BL = 2
  tRAS = 4
  tRCD = 2
  tRRD = 2
  tRC = 6
  tRP = 2
  tCCD = 2
  tRTP = 3
  tWTR = 1
  tWR = 1
  tRTRS = 1
  tRFC = 4
  tFAW = 7
  tCKE = 2
  tXP = 2
SPECIFICATION Spec
INVARIANTS Allows RowKept RightReader
PROPERTIES NoOvertaking Served RefreshComes
