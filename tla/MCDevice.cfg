\* Waking up takes longer than falling asleep, as in the code.
SPECIFICATION FairSpec
CONSTANTS
  PSTATE_ENTER_TIME = 5
  LOWPOWER_EXIT_TIME = 7
  IDLE_EXIT_TIME = 9
  CACHE_LINE_SIZE = 4
  ioLatency = 2
  MAX_PENDING = 5
  Sizes <- MCFrames
INVARIANTS AwakeWhenBusy LinesAccounted OneResponsePerCall
PROPERTIES CallsFinish FrameMeasured
