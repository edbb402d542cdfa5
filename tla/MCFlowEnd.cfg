CONSTANTS
  c1 = c1
  ip1 = ip1
  Cores <- MCCores
  IPs = {}
  Traffic = {}
  NUM_CHANS = 1
  MAX_MEM_REQS = 1
  MAX_IP_MEM_REQS = 1
  MAX_MEM_RESPS = 1
  MAX_IP_OUTSTANDING_REQS = 2
  MEM_RESP_TRANSMIT_CYCLES = 2
  TRANS_QUEUE_DEPTH = 1
  ISSUED_DEPTH = 1
  Options <- MCOptions
  app <- MCSkype
  core0 = c1
  Ops = {"SND-OUT"}
  GpuEnabled = FALSE
  MIN_SERVICE = 3
SPECIFICATION Spec
INVARIANT FlowsFollowed
