-------------------------- MODULE GemDroidGPUProofs --------------------------
(***************************************************************************)
(* The GPU writes every line of its frames, does not measure its waits and *)
(* wakes up after them, whatever the frames, waits and power-state times   *)
(* are.  LinesWritten is not inductive: it says nothing of a frame that is *)
(* done.  FrameInv says where the lines are while the frame is written and *)
(* that at most the last one may wait when it is not.                      *)
(***************************************************************************)
EXTENDS GemDroidGPU, TLAPS

TypeOK ==
  /\ power_state \in {"active", "lowpower", "idle"}
  /\ idleCycles \in Nat /\ cyclesToWake \in Nat
  /\ frameStarted \in BOOLEAN /\ writeToDCFlag \in BOOLEAN
  /\ m_reqCount \in {0, 1}
  /\ cyclesToSkip \in Nat /\ fpsStalls \in Nat
  /\ m_addrToDC \in 0..FRAME_LINES
  /\ unwritten \in Nat

(* While a frame is written, and after it. *)
FrameInv ==
  IF writeToDCFlag
    THEN /\ m_addrToDC < FRAME_LINES
         /\ m_addrToDC = 0 => m_reqCount = 0
         /\ unwritten = FRAME_LINES - m_addrToDC + m_reqCount
    ELSE unwritten = 0 \/ (unwritten = 1 /\ m_reqCount = 1 /\ m_addrToDC = FRAME_LINES)

(* A wait is that of a frame, and no one wakes the GPU in it.  *)
WaitInv == fpsStalls > 0 => writeToDCFlag /\ cyclesToWake = 0 /\ ~frameStarted

(* Only a GPU that sleeps wakes up; an active one has counted fewer idle   *)
(* cycles than it takes to fall asleep.                                    *)
PowerInv ==
  /\ cyclesToWake > 0 => power_state # "active"
  /\ power_state = "active" => idleCycles < PSTATE_ENTER_TIME

GPUInv == TypeOK /\ FrameInv /\ WaitInv /\ PowerInv

-----------------------------------------------------------------------------
LEMMA PowerStep ==
  ASSUME TypeOK, PowerInv, NEW idle \in Nat, NEW wake \in Nat, NEW marked \in BOOLEAN,
         wake > 0 => power_state # "active", updatePower(idle, wake, marked)
  PROVE  /\ power_state' \in {"active", "lowpower", "idle"}
         /\ idleCycles' \in Nat /\ cyclesToWake' \in Nat /\ frameStarted' \in BOOLEAN
         /\ PowerInv'
         /\ wake = 0 => cyclesToWake' = 0
         /\ wake # 1 => (frameStarted' <=> marked)
         /\ power_state' # "active" /\ cyclesToWake' = 0 =>
              wake = 0 /\ (power_state # "active" \/ CountedIdle(idle) >= PSTATE_ENTER_TIME)
<1>0. PSTATE_ENTER_TIME \in Nat \ {0} /\ CountedIdle(idle) \in Nat
  BY GPUAssumption DEF CountedIdle
<1>1. CASE wake > 0
  <2>1. frameStarted' = (marked \/ wake = 1)
    BY <1>1 DEF updatePower
  <2>2. frameStarted' \in BOOLEAN /\ (wake # 1 => (frameStarted' <=> marked))
    BY <2>1, Zenon
  <2>3. /\ cyclesToWake' = wake - 1
        /\ IF wake = 1 THEN power_state' = "active" /\ idleCycles' = 0
                       ELSE idleCycles' = CountedIdle(idle) /\ UNCHANGED power_state
    BY <1>1 DEF updatePower
  <2> QED BY <1>0, <1>1, <2>2, <2>3 DEF TypeOK, PowerInv
<1>2. CASE wake = 0
  <2>1. frameStarted' = marked
    BY <1>2 DEF updatePower
  <2>2. frameStarted' \in BOOLEAN /\ (frameStarted' <=> marked)
    BY <2>1, Zenon
  <2>3. /\ cyclesToWake' = 0
        /\ IF CountedIdle(idle) >= PSTATE_ENTER_TIME
             THEN power_state' = LowerState /\ idleCycles' = 0
             ELSE idleCycles' = CountedIdle(idle) /\ UNCHANGED power_state
    BY <1>2 DEF updatePower
  <2> QED BY <1>0, <1>2, <2>2, <2>3 DEF TypeOK, PowerInv, LowerState
<1> QED BY <1>1, <1>2

(* A retry that is accepted takes one line off the frame. *)
LEMMA RetryStep ==
  ASSUME GPUInv, NEW retry \in BOOLEAN, GoesOn(retry)
  PROVE  /\ Pending(retry) = 0
         /\ Unwritten(retry) \in Nat
         /\ writeToDCFlag => Unwritten(retry) = FRAME_LINES - m_addrToDC
         /\ ~writeToDCFlag => Unwritten(retry) = 0
BY GPUAssumption DEF GPUInv, TypeOK, FrameInv, GoesOn, Pending, Unwritten

LEMMA TickStep ==
  ASSUME GPUInv, NEW retry \in BOOLEAN, NEW accepted \in BOOLEAN, tick(retry, accepted)
  PROVE  /\ GPUInv'
         /\ writeToDCFlag /\ ~writeToDCFlag' => unwritten' <= 1
         /\ Overslept' => Overslept \/ /\ fpsStalls = 1 /\ power_state = "active"
                                       /\ idleCycles + 1 = PSTATE_ENTER_TIME
<1> DEFINE Goal ==
      /\ GPUInv'
      /\ writeToDCFlag /\ ~writeToDCFlag' => unwritten' <= 1
      /\ Overslept' => Overslept \/ /\ fpsStalls = 1 /\ power_state = "active"
                                    /\ idleCycles + 1 = PSTATE_ENTER_TIME
<1>a. /\ FRAME_LINES \in Nat \ {0} /\ PSTATE_ENTER_TIME \in Nat \ {0}
      /\ LOWPOWER_EXIT_TIME \in Nat \ {0} /\ IDLE_EXIT_TIME \in Nat \ {0}
      /\ Insns \subseteq Nat /\ FpsStalls \subseteq Nat
  BY GPUAssumption
<1>t. TypeOK /\ PowerInv /\ WaitInv /\ FrameInv
  BY DEF GPUInv
<1>1. CASE UNCHANGED vars
  BY <1>1 DEF vars, power, frame, GPUInv, TypeOK, FrameInv, WaitInv, PowerInv, Overslept
<1>2. ASSUME GoesOn(retry), FrameStall(retry) PROVE Goal
  <2>1. /\ writeToDCFlag /\ writeToDCFlag' = writeToDCFlag /\ cyclesToWake = 0
        /\ m_reqCount' = 0 /\ unwritten' = FRAME_LINES - m_addrToDC
        /\ m_addrToDC' = m_addrToDC /\ cyclesToSkip' = cyclesToSkip
        /\ fpsStalls > 0 /\ fpsStalls' = fpsStalls - 1
    BY <1>2, <1>t, RetryStep DEF FrameStall, RetryOnly, frame, WaitInv
  <2> DEFINE marked == frameStarted \/ (fpsStalls = 1 /\ power_state = "active")
  <2>2. marked \in BOOLEAN /\ (fpsStalls # 1 => (marked <=> frameStarted))
    BY <1>t, Zenon DEF TypeOK
  <2>3. /\ StallWake \in Nat
        /\ StallWake > 0 => power_state # "active"
        /\ fpsStalls # 1 => StallWake = 0
        /\ fpsStalls = 1 /\ StallWake = 0 => power_state = "active"
    BY <1>a, <1>t, <2>1 DEF StallWake, TypeOK
  <2>4. updatePower(idleCycles + 1, StallWake, marked) /\ idleCycles + 1 \in Nat
    BY <1>2, <1>t DEF FrameStall, TypeOK
  <2> HIDE DEF marked
  <2>5. /\ power_state' \in {"active", "lowpower", "idle"}
        /\ idleCycles' \in Nat /\ cyclesToWake' \in Nat /\ frameStarted' \in BOOLEAN
        /\ PowerInv'
        /\ StallWake = 0 => cyclesToWake' = 0
        /\ StallWake # 1 => (frameStarted' <=> marked)
        /\ power_state' # "active" /\ cyclesToWake' = 0 =>
              /\ StallWake = 0
              /\ power_state # "active" \/ CountedIdle(idleCycles + 1) >= PSTATE_ENTER_TIME
    BY <1>t, <2>2, <2>3, <2>4, PowerStep
  <2>6. TypeOK'
    BY <1>a, <1>t, <2>1, <2>5 DEF TypeOK
  <2>7. FrameInv'
    BY <1>a, <1>t, <2>1 DEF TypeOK, FrameInv
  <2>8. WaitInv'
    <3>1. fpsStalls' > 0 => fpsStalls # 1 /\ fpsStalls > 0
      BY <1>t, <2>1 DEF TypeOK
    <3> QED BY <1>t, <2>1, <2>2, <2>3, <2>5, <3>1 DEF WaitInv
  <2>9. ASSUME Overslept' PROVE fpsStalls = 1 /\ power_state = "active"
                                /\ idleCycles + 1 = PSTATE_ENTER_TIME
    BY <1>a, <1>t, <2>1, <2>3, <2>5, <2>9 DEF Overslept, TypeOK, CountedIdle, PowerInv
  <2> QED BY <2>1, <2>5, <2>6, <2>7, <2>8, <2>9 DEF GPUInv
<1>3. ASSUME GoesOn(retry), WriteFrame(retry, accepted) PROVE Goal
  <2>1. /\ writeToDCFlag /\ fpsStalls = 0 /\ fpsStalls' = 0
        /\ m_addrToDC' = m_addrToDC + 1 /\ m_addrToDC < FRAME_LINES
        /\ m_reqCount' \in {0, 1}
        /\ unwritten' = FRAME_LINES - m_addrToDC' + m_reqCount'
        /\ UNCHANGED <<power_state, idleCycles, cyclesToWake, cyclesToSkip>>
    BY <1>3, <1>a, <1>t, RetryStep DEF WriteFrame, processMMURequest, FrameInv, TypeOK
  <2>2. /\ writeToDCFlag' \in BOOLEAN /\ frameStarted' \in BOOLEAN
        /\ writeToDCFlag' <=> ~LastLine
    BY <1>3, Zenon DEF WriteFrame
  <2>n. m_addrToDC \in Nat /\ m_addrToDC' \in 0..FRAME_LINES /\ unwritten' \in Nat
    <3>1. m_addrToDC \in Nat
      BY <1>a, <1>t DEF TypeOK
    <3>2. m_addrToDC' \in 0..FRAME_LINES
      BY <1>a, <2>1, <3>1
    <3>3. FRAME_LINES - m_addrToDC' \in Nat /\ m_reqCount' \in Nat
      BY <1>a, <2>1, <3>2
    <3> QED BY <2>1, <3>1, <3>2, <3>3
  <2>3. TypeOK'
    BY <1>t, <2>1, <2>2, <2>n DEF TypeOK
  <2>4. FrameInv' /\ (~writeToDCFlag' => unwritten' <= 1)
    <3>1. CASE LastLine
      <4>1. m_addrToDC' = FRAME_LINES
        BY <1>a, <2>1, <2>n, <3>1 DEF LastLine
      <4>2. unwritten' = m_reqCount'
        BY <1>a, <2>1, <4>1
      <4> QED BY <2>1, <2>2, <3>1, <4>1, <4>2 DEF FrameInv
    <3>2. CASE ~LastLine
      <4>1. m_addrToDC' < FRAME_LINES /\ m_addrToDC' # 0
        BY <1>a, <2>1, <2>n, <3>2 DEF LastLine
      <4> QED BY <2>1, <2>2, <3>2, <4>1 DEF FrameInv
    <3> QED BY <3>1, <3>2
  <2>5. PowerInv' /\ WaitInv' /\ (Overslept' => Overslept)
    BY <1>t, <2>1 DEF PowerInv, WaitInv, Overslept
  <2> QED BY <2>3, <2>4, <2>5 DEF GPUInv
<1>4. ASSUME GoesOn(retry), Sleep(retry) PROVE Goal
  <2>1. /\ ~writeToDCFlag /\ writeToDCFlag' = writeToDCFlag /\ ~Working
        /\ fpsStalls = 0 /\ fpsStalls' = 0
        /\ m_reqCount' = 0 /\ unwritten' = 0
        /\ m_addrToDC' = m_addrToDC /\ cyclesToSkip' = cyclesToSkip
        /\ updatePower(idleCycles, cyclesToWake, frameStarted)
    BY <1>4, RetryStep DEF Sleep, RetryOnly, frame
  <2>2. power_state # "active"
    BY <1>t, <2>1 DEF Working, PowerInv, TypeOK
  <2>3. /\ power_state' \in {"active", "lowpower", "idle"}
        /\ idleCycles' \in Nat /\ cyclesToWake' \in Nat /\ frameStarted' \in BOOLEAN
        /\ PowerInv'
        /\ power_state' # "active" /\ cyclesToWake' = 0 => cyclesToWake = 0
    BY <1>t, <2>1, <2>2, PowerStep DEF TypeOK
  <2>4. TypeOK'
    BY <1>a, <1>t, <2>1, <2>3 DEF TypeOK
  <2>5. FrameInv' /\ WaitInv' /\ (Overslept' => Overslept)
    BY <2>1, <2>2, <2>3 DEF FrameInv, WaitInv, Overslept
  <2> QED BY <2>1, <2>3, <2>4, <2>5 DEF GPUInv
<1>5. ASSUME GoesOn(retry), Execute(retry) PROVE Goal
  <2>1. /\ ~writeToDCFlag /\ writeToDCFlag' = writeToDCFlag
        /\ fpsStalls = 0 /\ fpsStalls' = 0
        /\ m_reqCount' = 0 /\ unwritten' = 0
        /\ m_addrToDC' = m_addrToDC /\ cyclesToSkip' \in Nat
        /\ UNCHANGED power
    BY <1>5, <1>t, RetryStep DEF Execute, RetryOnly, frame, TypeOK
  <2> QED
    BY <1>a, <1>t, <2>1 DEF power, GPUInv, TypeOK, FrameInv, WaitInv, PowerInv, Overslept
<1>6. ASSUME GoesOn(retry), readLine(retry, accepted) PROVE Goal
  <2>1. /\ ~writeToDCFlag /\ fpsStalls = 0 /\ Working
        /\ UNCHANGED <<power_state, idleCycles, cyclesToWake>>
        /\ Pending(retry) = 0 /\ Unwritten(retry) = 0
    BY <1>6, RetryStep DEF readLine
  <2>2. PowerInv' /\ ~Overslept'
    BY <1>t, <2>1 DEF PowerInv, Overslept, Working
  <2>3. CASE /\ cyclesToSkip' \in Insns \cup {0}
             /\ RetryOnly(retry)
             /\ UNCHANGED <<fpsStalls, frame, frameStarted>>
    BY <1>a, <1>t, <2>1, <2>2, <2>3 DEF RetryOnly, frame, GPUInv, TypeOK, FrameInv, WaitInv
  <2>4. CASE /\ processMMURequest(accepted)
             /\ unwritten' = Unwritten(retry)
             /\ UNCHANGED <<cyclesToSkip, fpsStalls, frame, frameStarted>>
    BY <1>a, <1>t, <2>1, <2>2, <2>4
    DEF processMMURequest, frame, GPUInv, TypeOK, FrameInv, WaitInv
  <2>5. CASE /\ Rendered
             /\ fpsStalls' \in FpsStalls
             /\ writeToDCFlag' = TRUE /\ m_addrToDC' = 0
             /\ unwritten' = Unwritten(retry) + FRAME_LINES
             /\ m_reqCount' = Pending(retry)
             /\ UNCHANGED cyclesToSkip
    <3>1. writeToDCFlag' /\ writeToDCFlag' \in BOOLEAN /\ ~frameStarted' /\ frameStarted' \in BOOLEAN
      BY <2>5, Zenon DEF Rendered
    <3>2. fpsStalls' \in Nat /\ m_addrToDC' = 0 /\ unwritten' = FRAME_LINES /\ m_reqCount' = 0
          /\ cyclesToSkip' = cyclesToSkip /\ cyclesToWake' = 0
      BY <1>a, <2>1, <2>5 DEF Working
    <3> QED
      BY <1>a, <1>t, <2>1, <2>2, <3>1, <3>2 DEF GPUInv, TypeOK, FrameInv, WaitInv
  <2> QED BY <1>6, <2>3, <2>4, <2>5 DEF readLine
<1> HIDE DEF Goal
<1>7. Goal
  BY <1>1, <1>2, <1>3, <1>4, <1>5, <1>6 DEF tick, Goal
<1> QED BY <1>7 DEF Goal

-----------------------------------------------------------------------------
LEMMA GPUInvariant == Spec => []GPUInv
<1>1. Init => GPUInv
  <2> SUFFICES ASSUME Init PROVE GPUInv
    OBVIOUS
  <2>1. ~writeToDCFlag /\ writeToDCFlag \in BOOLEAN /\ frameStarted \in BOOLEAN
    BY Zenon DEF Init
  <2> QED
    BY <2>1, GPUAssumption DEF Init, GPUInv, TypeOK, FrameInv, WaitInv, PowerInv
<1>2. GPUInv /\ [Next]_vars => GPUInv'
  <2> SUFFICES ASSUME GPUInv, [Next]_vars PROVE GPUInv'
    OBVIOUS
  <2>1. CASE Next
    BY <2>1, TickStep DEF Next
  <2>2. CASE UNCHANGED vars
    BY <2>2 DEF vars, power, frame, GPUInv, TypeOK, FrameInv, WaitInv, PowerInv
  <2> QED BY <2>1, <2>2
<1> QED
  BY <1>1, <1>2, PTL DEF Spec

(* No line of a frame is lost when SA refuses it, whatever is refused and  *)
(* whenever: the early return of tick makes the line wait, and nothing     *)
(* takes its place.                                                        *)
THEOREM NoLineLost == Spec => []LinesWritten
<1>1. GPUInv => LinesWritten
  BY GPUAssumption DEF GPUInv, TypeOK, FrameInv, LinesWritten
<1> QED
  BY <1>1, GPUInvariant, PTL

(* The wait for the end of a frame is never measured as part of one: the   *)
(* GPU is not woken in it and marks no frame before its last tick.         *)
THEOREM WaitsNotMeasured == Spec => []WaitNotMeasured
<1>1. GPUInv => WaitNotMeasured
  BY DEF GPUInv, WaitInv, WaitNotMeasured
<1> QED
  BY <1>1, GPUInvariant, PTL

(* When the GPU reports a frame, SA has accepted all lines of it but       *)
(* perhaps the last one.                                                   *)
THEOREM FramesWritten == Spec => DisplayedWhenWritten
<1>1. GPUInv /\ [Next]_vars => [writeToDCFlag /\ ~writeToDCFlag' => unwritten' <= 1]_vars
  BY TickStep DEF Next
<1> QED
  BY <1>1, GPUInvariant, PTL DEF Spec, DisplayedWhenWritten

(* A wait ends with a GPU that is active or waking up, for every length of *)
(* the wait but the one with which the idle count reaches the entry time   *)
(* of low power in the last tick.                                          *)
THEOREM WokenAfterWait == Spec => AwakeAfterStall
<1>1. GPUInv /\ [Next]_vars =>
        [Overslept' => Overslept \/ /\ fpsStalls = 1 /\ power_state = "active"
                                    /\ idleCycles + 1 = PSTATE_ENTER_TIME]_vars
  <2>1. ASSUME GPUInv, Next
        PROVE  Overslept' => Overslept \/ /\ fpsStalls = 1 /\ power_state = "active"
                                          /\ idleCycles + 1 = PSTATE_ENTER_TIME
    BY <2>1, TickStep DEF Next
  <2> QED BY <2>1
<1> QED
  BY <1>1, GPUInvariant, PTL DEF Spec, AwakeAfterStall
=============================================================================
