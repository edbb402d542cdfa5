\* Two lines and a half: three requests, and two responses end the call.
SPECIFICATION FairSpec
CONSTANTS
  PSTATE_ENTER_TIME = 3
  LOWPOWER_EXIT_TIME = 4
  IDLE_EXIT_TIME = 5
  CACHE_LINE_SIZE = 4
  ioLatency = 1
  MAX_PENDING = 4
  Sizes <- MCPacket
PROPERTY CallsFinish
