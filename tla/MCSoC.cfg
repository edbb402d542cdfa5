CONSTANTS
  c1 = c1
  ip1 = ip1
  Cores <- MCCores
  IPs <- MCIPs
  Traffic <- MCTraffic
  NUM_CHANS = 2
  MAX_MEM_REQS = 1
  MAX_IP_MEM_REQS = 1
  MAX_MEM_RESPS = 1
  MAX_IP_OUTSTANDING_REQS = 2
  MEM_RESP_TRANSMIT_CYCLES = 2
  TRANS_QUEUE_DEPTH = 1
  ISSUED_DEPTH = 1
  Options <- MCOptions
  app <- MCArGame
  core0 = c1
  Ops = {"FB-UP", "CAM"}
  GpuEnabled = TRUE
  MIN_SERVICE = 3
SPECIFICATION MCSpec
INVARIANTS Conservation Separation RequestBound InFlightBound CallQueueBound FlowsFollowed
PROPERTIES ImplementsMemPort Answered CallsServed DroppedOnlyIfFull
