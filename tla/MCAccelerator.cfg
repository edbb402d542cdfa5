\* Waking up takes longer than falling asleep, as in the code.
SPECIFICATION FairSpec
CONSTANTS
  PSTATE_ENTER_TIME = 2
  LOWPOWER_EXIT_TIME = 3
  IDLE_EXIT_TIME = 3
  Accelerators <- MCAccelerators
INVARIANTS BuffersFit LinesAccounted OutputComplete
PROPERTIES CallsFinish FrameMeasured
