\* Frames that are late, and waits of every kind: shorter than the entry time,
\* just as long, and long enough for low power or idle.
SPECIFICATION FairSpec
CONSTANTS
  FRAME_LINES = 3
  Insns = {1, 2}
  FpsStalls = {0, 1, 3, 4, 6, 9, 12}
  PSTATE_ENTER_TIME = 4
  LOWPOWER_EXIT_TIME = 5
  IDLE_EXIT_TIME = 5
INVARIANTS LinesWritten WaitNotMeasured
PROPERTIES DisplayedWhenWritten AwakeAfterStall ReadsOn
