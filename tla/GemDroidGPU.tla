----------------------------- MODULE GemDroidGPU -----------------------------
(***************************************************************************)
(* The GPU (gemdroid_ip_gpu.cc).  No one calls it: it replays a trace of   *)
(* its own.  When a frame is rendered it waits for the end of the frame    *)
(* time, writes the frame line by line to the memory of the second display *)
(* controller and reports to SA (GemDroidSoC!GPUFrame).  It powers down    *)
(* in the wait.  The memory's answers do not concern it (memIPResponse     *)
(* has no case for it); only whether SA accepts a request does.            *)
(***************************************************************************)
EXTENDS Integers

CONSTANTS
  FRAME_LINES,            \* FRAME_SIZE in lines
  Insns,                  \* instructions of a GPU line
  FpsStalls,              \* what is left of a rendered frame's time, in ticks;
                          \* 0 when the frame is late
  PSTATE_ENTER_TIME,
  LOWPOWER_EXIT_TIME,
  IDLE_EXIT_TIME

ASSUME GPUAssumption ==
  /\ FRAME_LINES \in Nat \ {0}
  /\ Insns \subseteq Nat /\ FpsStalls \subseteq Nat
  /\ PSTATE_ENTER_TIME \in Nat \ {0}
  /\ LOWPOWER_EXIT_TIME \in Nat \ {0}
  /\ IDLE_EXIT_TIME \in Nat \ {0}

VARIABLES
  power_state, idleCycles, cyclesToWake,
  frameStarted,           \* of GemDroid: the frame's time and power are being measured
  m_reqCount,             \* 1: a request that SA has refused waits
  cyclesToSkip,           \* instructions left of the line
  fpsStalls,
  writeToDCFlag,
  m_addrToDC,             \* lines of the frame handed to processMMURequest
  unwritten               \* history: lines of the frame SA has not accepted

power == <<power_state, idleCycles, cyclesToWake, frameStarted>>
frame == <<writeToDCFlag, m_addrToDC>>
vars == <<power, m_reqCount, cyclesToSkip, fpsStalls, frame, unwritten>>

(* cyclesToSkip is not initialised; it reads as zero.  GemDroidIP::init    *)
(* has called setPStateActive.                                             *)
Init ==
  /\ power_state = "active" /\ idleCycles = 0 /\ cyclesToWake = 0
  /\ frameStarted = TRUE
  /\ m_reqCount = 0 /\ cyclesToSkip = 0 /\ fpsStalls = 0
  /\ writeToDCFlag = FALSE /\ m_addrToDC = 0 /\ unwritten = 0

-----------------------------------------------------------------------------
(* updatePower, entered with the given idle and wake-up counts and the     *)
(* given mark.  A GPU that is awake again starts a frame.                  *)
CountedIdle(idle) == IF power_state = "lowpower" THEN idle + 1 ELSE idle

LowerState == IF power_state = "active" THEN "lowpower" ELSE "idle"

MutNoCountdown(idle, wake, marked) ==  \* mutant of updatePower: the wake-up never ends
  /\ frameStarted' = marked
  /\ cyclesToWake' = wake
  /\ IF wake = 0 /\ CountedIdle(idle) >= PSTATE_ENTER_TIME
       THEN power_state' = LowerState /\ idleCycles' = 0
       ELSE UNCHANGED power_state /\ idleCycles' = IF wake = 0 THEN CountedIdle(idle) ELSE 0

updatePower(idle, wake, marked) ==
  \/ /\ wake > 0
     /\ cyclesToWake' = wake - 1
     /\ frameStarted' = (marked \/ wake = 1)
     /\ IF wake = 1 THEN power_state' = "active" /\ idleCycles' = 0
                    ELSE idleCycles' = CountedIdle(idle) /\ UNCHANGED power_state
  \/ /\ wake = 0 /\ cyclesToWake' = 0
     /\ frameStarted' = marked
     /\ IF CountedIdle(idle) >= PSTATE_ENTER_TIME
          THEN power_state' = LowerState /\ idleCycles' = 0
          ELSE idleCycles' = CountedIdle(idle) /\ UNCHANGED power_state

(* updatePower returns true. *)
Working == power_state = "active" /\ cyclesToWake = 0 /\ idleCycles < PSTATE_ENTER_TIME

-----------------------------------------------------------------------------
(* The retry at the start of a tick; the tick goes on if SA accepts it.    *)
MutGoOn(retry) == TRUE            \* mutant of GoesOn: the return is dropped

GoesOn(retry) == m_reqCount = 0 \/ retry

Pending(retry) == IF retry THEN 0 ELSE m_reqCount

Unwritten(retry) ==
  IF retry /\ m_reqCount = 1 /\ unwritten > 0 THEN unwritten - 1 ELSE unwritten

RetryOnly(retry) == m_reqCount' = Pending(retry) /\ unwritten' = Unwritten(retry)

(* processMMURequest: what SA does not accept waits for the next tick. *)
processMMURequest(accepted) == m_reqCount' = IF accepted THEN 0 ELSE 1

(* The wait for the end of the frame; its last tick wakes a GPU that sleeps*)
(* before updatePower, which may send an active one to sleep in that tick, *)
(* and starts the next frame of one that does not.                         *)
MutNoWake == cyclesToWake         \* mutant of StallWake: no one wakes the GPU

StallWake ==
  CASE fpsStalls = 1 /\ power_state = "lowpower" -> LOWPOWER_EXIT_TIME
    [] fpsStalls = 1 /\ power_state = "idle"     -> IDLE_EXIT_TIME
    [] OTHER                                     -> cyclesToWake

FrameStall(retry) ==
  /\ fpsStalls > 0
  /\ fpsStalls' = fpsStalls - 1
  /\ updatePower(idleCycles + 1, StallWake,
                 frameStarted \/ (fpsStalls = 1 /\ power_state = "active"))
  /\ RetryOnly(retry)
  /\ UNCHANGED <<cyclesToSkip, frame>>

(* One line of the frame, also by a GPU that sleeps; after the last one    *)
(* the GPU reports the frame, and SA takes it for the end of the one that  *)
(* has been started (enqueueIPResponse).                                   *)
MutLastLine == m_addrToDC + 2 >= FRAME_LINES    \* mutant of LastLine

LastLine == m_addrToDC + 1 >= FRAME_LINES

WriteFrame(retry, accepted) ==
  /\ fpsStalls = 0 /\ writeToDCFlag
  /\ processMMURequest(accepted)
  /\ unwritten' = IF accepted THEN Unwritten(retry) - 1 ELSE Unwritten(retry)
  /\ m_addrToDC' = m_addrToDC + 1
  /\ writeToDCFlag' = ~LastLine
  /\ frameStarted' = (frameStarted /\ ~LastLine)
  /\ UNCHANGED <<power_state, idleCycles, cyclesToWake, cyclesToSkip, fpsStalls>>

Sleep(retry) ==
  /\ fpsStalls = 0 /\ ~writeToDCFlag /\ ~Working
  /\ updatePower(idleCycles, cyclesToWake, frameStarted)
  /\ RetryOnly(retry)
  /\ UNCHANGED <<cyclesToSkip, fpsStalls, frame>>

Execute(retry) ==
  /\ fpsStalls = 0 /\ ~writeToDCFlag /\ Working
  /\ cyclesToSkip > 0
  /\ cyclesToSkip' = cyclesToSkip - 1
  /\ RetryOnly(retry)
  /\ UNCHANGED <<power, fpsStalls, frame>>

(* markIPRequestCompleted at a Rendered line *)
MutStaysMarked == UNCHANGED frameStarted        \* mutant of Rendered

Rendered == frameStarted' = FALSE

(* readLine: instructions, a load, a store (ignored), or a frame.          *)
readLine(retry, accepted) ==
  /\ fpsStalls = 0 /\ ~writeToDCFlag /\ Working
  /\ cyclesToSkip = 0
  /\ \/ /\ cyclesToSkip' \in Insns \cup {0}
        /\ RetryOnly(retry)
        /\ UNCHANGED <<fpsStalls, frame, frameStarted>>
     \/ /\ processMMURequest(accepted)
        /\ unwritten' = Unwritten(retry)
        /\ UNCHANGED <<cyclesToSkip, fpsStalls, frame, frameStarted>>
     \/ /\ Rendered
        /\ fpsStalls' \in FpsStalls
        /\ writeToDCFlag' = TRUE /\ m_addrToDC' = 0
        /\ unwritten' = Unwritten(retry) + FRAME_LINES
        /\ m_reqCount' = Pending(retry)
        /\ UNCHANGED cyclesToSkip
  /\ UNCHANGED <<power_state, idleCycles, cyclesToWake>>

tick(retry, accepted) ==
  \/ ~GoesOn(retry) /\ UNCHANGED vars
  \/ /\ GoesOn(retry)
     /\ \/ FrameStall(retry)
        \/ WriteFrame(retry, accepted)
        \/ Sleep(retry)
        \/ Execute(retry)
        \/ readLine(retry, accepted)

Next == \E retry, accepted \in BOOLEAN : tick(retry, accepted)

Spec == Init /\ [][Next]_vars

(* The clock of the GPU never stops and SA does not refuse it forever. *)
FairSpec == Spec /\ WF_vars(\E accepted \in BOOLEAN : tick(TRUE, accepted))
-----------------------------------------------------------------------------
(* No line of a frame is lost when SA refuses it: the lines that were not  *)
(* accepted are those still to come and the one that waits.  This is what  *)
(* the early return of tick ("Not really needed?") is for.                 *)
LinesWritten ==
  unwritten > 0 =>
    unwritten = FRAME_LINES - m_addrToDC + (IF m_addrToDC > 0 THEN m_reqCount ELSE 0)

(* When the GPU reports a frame, on which SA calls the display controller, *)
(* SA has accepted all lines of it but perhaps the last one.               *)
DisplayedWhenWritten == [][writeToDCFlag /\ ~writeToDCFlag' => unwritten' <= 1]_vars

(* The wait for the end of a frame is not measured as part of one: its     *)
(* time and the power of a GPU that waits or sleeps do not go into what    *)
(* the governors are told of a frame.                                      *)
WaitNotMeasured == fpsStalls > 0 => ~frameStarted

(* The GPU powered down in the last tick of a wait: the code that wakes it *)
(* ("Last stall for FPS. Display frame.") has found it active.             *)
Overslept == fpsStalls = 0 /\ power_state # "active" /\ cyclesToWake = 0

(* A wait ends with a GPU that is active or waking up, unless the idle     *)
(* count reaches the entry time of low power in the last tick.             *)
AwakeAfterStall ==
  [][Overslept' => Overslept \/ /\ fpsStalls = 1 /\ power_state = "active"
                                /\ idleCycles + 1 = PSTATE_ENTER_TIME]_vars

(* After every frame the GPU goes on with its trace or has overslept.      *)
ReadsOn == fpsStalls > 0 ~> (Working /\ fpsStalls = 0 /\ ~writeToDCFlag) \/ Overslept
=============================================================================
