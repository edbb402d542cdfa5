------------------------ MODULE GemDroidDeviceProofs ------------------------
(***************************************************************************)
(* A device called with whole lines counts them right, whatever the sizes, *)
(* latencies and power-state times are.  The inductive invariant adds to   *)
(* the properties which sizes a device can hold and that a busy device     *)
(* does not count idle cycles.                                             *)
(***************************************************************************)
EXTENDS GemDroidDevice, TLAPS

SizeKnown ==
  m_dataSize \in Sizes \/ (m_dataSize = 0 /\ power_state = "idle" /\ ~is_busy)

NotDozing == is_busy /\ cyclesToWake = 0 => idleCycles = 0

PowerInv == TypeOK /\ AwakeWhenBusy /\ NotDozing
CountInv == SizeKnown /\ LinesAccounted /\ OneResponsePerCall

LEMMA LinesNat == ASSUME NEW size \in Nat PROVE Lines(size) \in Nat
BY DeviceAssumption, Z3 DEF Lines

LEMMA WholeLine ==
  ASSUME WholeLines, NEW size \in Sizes
  PROVE  /\ size \div CACHE_LINE_SIZE \in Nat \ {0}
         /\ Lines(size) = size \div CACHE_LINE_SIZE
BY DeviceAssumption, Z3 DEF WholeLines, Lines

LEMMA SkipNat == ASSUME NEW n \in Nat PROVE ioLatency * n \in Nat
BY DeviceAssumption

-----------------------------------------------------------------------------
LEMMA PowerStep ==
  ASSUME PowerInv, NotWorking, UNCHANGED is_busy
  PROVE  IPTypeOK' /\ AwakeWhenBusy' /\ NotDozing'
<1>0. frameStarted \in BOOLEAN
  BY DEF PowerInv, TypeOK, IPTypeOK
<1>1. CASE WakingUp
  <2>1. frameStarted' \in BOOLEAN
    BY <1>0, <1>1, Zenon DEF WakingUp, markIPRequestStarted
  <2> QED
    BY <1>1, <2>1
    DEF PowerInv, TypeOK, IPTypeOK, AwakeWhenBusy, NotDozing, WakingUp, CountedIdle,
        PowerStates
<1>2. CASE PoweringDown
  BY <1>2, PStateAssumption
  DEF PowerInv, TypeOK, IPTypeOK, AwakeWhenBusy, NotDozing, PoweringDown, CountedIdle,
      PowerStates
<1>3. CASE Asleep
  BY <1>3 DEF PowerInv, TypeOK, IPTypeOK, AwakeWhenBusy, NotDozing, Asleep, CountedIdle,
              PowerStates
<1> QED
  BY <1>1, <1>2, <1>3 DEF NotWorking

LEMMA NextPowerInv == PowerInv /\ [Next]_vars => PowerInv'
<1> SUFFICES ASSUME PowerInv, [Next]_vars PROVE PowerInv'
  OBVIOUS
<1>1. ASSUME NEW size \in Sizes, enqueueIPReq(size) PROVE PowerInv'
  <2>1. size \in Nat /\ Lines(size) \in Nat /\ ioLatency * Lines(size) \in Nat
    BY LinesNat, SkipNat, DeviceAssumption
  <2>m. frameStarted' \in BOOLEAN
    <3>1. frameStarted \in BOOLEAN
      BY DEF PowerInv, TypeOK, IPTypeOK
    <3> QED BY <1>1, <3>1, Zenon DEF enqueueIPReq, WakeForCall, markIPRequestStarted
  <2>2. IPTypeOK' /\ AwakeWhenBusy' /\ NotDozing'
    BY <1>1, <2>m, PStateAssumption
    DEF enqueueIPReq, WakeForCall, PowerInv, TypeOK, IPTypeOK, AwakeWhenBusy, NotDozing,
        PowerStates
  <2> QED BY <1>1, <2>1, <2>2 DEF enqueueIPReq, PowerInv, TypeOK
<1>2. CASE memResponse
  BY <1>2 DEF memResponse, powerVars, PowerInv, TypeOK, IPTypeOK, AwakeWhenBusy, NotDozing
<1>3. ASSUME NEW accepted \in BOOLEAN, tick(accepted) PROVE PowerInv'
  <2>1. CASE NotWorking /\ UNCHANGED <<is_busy, jobVars, pending, unanswered>>
    BY <2>1, PowerStep DEF jobVars, PowerInv, TypeOK
  <2>s. ASSUME m_cyclesToSkip' = IF m_cyclesToSkip > 0 THEN m_cyclesToSkip - 1 ELSE 0
        PROVE  m_cyclesToSkip' \in Nat
    BY <2>s DEF PowerInv, TypeOK
  <2>2. CASE Working /\ m_cyclesToSkip' \in Nat /\ Skip
    BY <2>2 DEF Skip, powerVars, PowerInv, TypeOK, IPTypeOK, AwakeWhenBusy, NotDozing
  <2>3. CASE Working /\ m_cyclesToSkip' \in Nat /\ Complete
    <3>0. ~is_busy' /\ is_busy' \in BOOLEAN /\ frameStarted' \in BOOLEAN
      BY <2>3, Zenon DEF Complete, markIPRequestCompleted
    <3>1. IPTypeOK' /\ AwakeWhenBusy' /\ NotDozing'
      BY <2>3, <3>0 DEF Complete, Working, PowerInv, TypeOK, IPTypeOK, AwakeWhenBusy, NotDozing
    <3> QED BY <2>3, <3>1 DEF Complete, PowerInv, TypeOK
  <2>4. CASE Working /\ m_cyclesToSkip' \in Nat /\ NothingToDo
    BY <2>4 DEF NothingToDo, Working, PowerInv, TypeOK, IPTypeOK, AwakeWhenBusy, NotDozing
  <2>5. CASE Working /\ m_cyclesToSkip' \in Nat /\ Transfer(accepted)
    <3>1. IPTypeOK' /\ AwakeWhenBusy' /\ NotDozing'
      BY <2>5 DEF Transfer, powerVars, PowerInv, TypeOK, IPTypeOK, AwakeWhenBusy, NotDozing
    <3>2. m_reqCount' \in Nat \cup {-1} /\ pending' \in Nat
      BY <2>5 DEF Transfer, PowerInv, TypeOK
    <3> QED BY <2>5, <3>1, <3>2 DEF Transfer, PowerInv, TypeOK
  <2> QED BY <1>3, <2>1, <2>s, <2>2, <2>3, <2>4, <2>5 DEF tick, Skipped
<1>4. CASE UNCHANGED vars
  BY <1>4 DEF vars, powerVars, jobVars, PowerInv, TypeOK, IPTypeOK, AwakeWhenBusy, NotDozing
<1> QED
  BY <1>1, <1>2, <1>3, <1>4 DEF Next

LEMMA PowerInvariant == Spec => []PowerInv
<1>1. Init => PowerInv
  <2> SUFFICES ASSUME Init PROVE PowerInv
    OBVIOUS
  <2>0. ~is_busy /\ is_busy \in BOOLEAN /\ frameStarted \in BOOLEAN
    BY Zenon DEF Init, IPInit
  <2>1. IPTypeOK /\ AwakeWhenBusy /\ NotDozing
    BY <2>0 DEF Init, IPInit, IPTypeOK, AwakeWhenBusy, NotDozing, PowerStates
  <2> QED BY <2>1 DEF Init, PowerInv, TypeOK
<1> QED
  BY <1>1, NextPowerInv, PTL DEF Spec

(* Every state of a device is well typed. *)
THEOREM DeviceTypeCorrect == Spec => []TypeOK
BY PowerInvariant, PTL DEF PowerInv

(* A device that has a call is awake or waking up, and wakes up only for a *)
(* call: no order of calls, ticks and responses puts a busy device to      *)
(* sleep, and the assertions on the power state hold.                      *)
THEOREM NeverAsleepWhenBusy == Spec => []AwakeWhenBusy
BY PowerInvariant, PTL DEF PowerInv

-----------------------------------------------------------------------------
LEMMA NextCountInv == WholeLines /\ PowerInv /\ CountInv /\ [Next]_vars => CountInv'
<1> SUFFICES ASSUME WholeLines, PowerInv, CountInv, [Next]_vars PROVE CountInv'
  OBVIOUS
<1>0. m_reqCount \in Int /\ m_respCount \in Nat /\ pending \in Nat /\ unanswered \in Int
  BY DEF PowerInv, TypeOK
<1>1. ASSUME NEW size \in Sizes, enqueueIPReq(size) PROVE CountInv'
  <2>1. Lines(size) = size \div CACHE_LINE_SIZE /\ Lines(size) \in Nat \ {0}
    BY WholeLine
  <2> QED
    BY <1>0, <1>1, <2>1 DEF enqueueIPReq, CountInv, SizeKnown, LinesAccounted, OneResponsePerCall
<1>2. CASE memResponse
  BY <1>0, <1>2 DEF memResponse, powerVars, CountInv, SizeKnown, LinesAccounted,
                    OneResponsePerCall
<1>3. ASSUME NEW accepted \in BOOLEAN, tick(accepted) PROVE CountInv'
  <2>1. CASE NotWorking /\ UNCHANGED <<is_busy, jobVars, pending, unanswered>>
    <3>1. power_state = "idle" /\ ~is_busy => power_state' = "idle"
      BY <2>1 DEF NotWorking, WakingUp, PoweringDown, Asleep, CountedIdle, PowerInv, AwakeWhenBusy
    <3> QED
      BY <2>1, <3>1 DEF jobVars, CountInv, SizeKnown, LinesAccounted, OneResponsePerCall
  <2>2. CASE Skip
    BY <2>2 DEF Skip, powerVars, CountInv, SizeKnown, LinesAccounted, OneResponsePerCall
  <2>3. CASE Working /\ Complete
    <3>1. m_dataSize \in Sizes
      BY <2>3 DEF Working, CountInv, SizeKnown
    <3>2. m_dataSize \div CACHE_LINE_SIZE \in Nat \ {0}
      BY <3>1, WholeLine
    <3>3. is_busy
      BY <2>3, <3>2 DEF Complete, AllResponded, CountInv, LinesAccounted
    <3> DEFINE n == m_dataSize \div CACHE_LINE_SIZE
    <3>4. (IF m_reqCount > 0 THEN m_reqCount ELSE 0) + pending + m_respCount = n /\ m_respCount = n
      BY <2>3, <3>3 DEF Complete, AllResponded, CountInv, LinesAccounted
    <3> HIDE DEF n
    <3>5. pending = 0
      BY <1>0, <3>4
    <3> QED
      BY <1>0, <2>3, <3>1, <3>3, <3>5
      DEF Complete, CountInv, SizeKnown, LinesAccounted, OneResponsePerCall
  <2>4. CASE NothingToDo
    BY <2>4 DEF NothingToDo, CountInv, SizeKnown, LinesAccounted, OneResponsePerCall
  <2>5. CASE Transfer(accepted)
    <3>1. is_busy
      BY <1>0, <2>5 DEF Transfer, CountInv, LinesAccounted
    <3> DEFINE n == m_dataSize \div CACHE_LINE_SIZE
    <3>2. (IF m_reqCount > 0 THEN m_reqCount ELSE 0) + pending + m_respCount = n
      BY <3>1 DEF CountInv, LinesAccounted
    <3>3. n' = n /\ is_busy' /\ m_respCount' = m_respCount
      BY <2>5, <3>1 DEF Transfer
    <3> HIDE DEF n
    <3>4. (IF m_reqCount' > 0 THEN m_reqCount' ELSE 0) + pending' + m_respCount' = n'
      BY <1>0, <2>5, <3>2, <3>3 DEF Transfer
    <3>5. LinesAccounted'
      BY <3>3, <3>4 DEF LinesAccounted, n
    <3> QED
      BY <2>5, <3>5 DEF Transfer, powerVars, CountInv, SizeKnown, OneResponsePerCall
  <2> QED BY <1>3, <2>1, <2>2, <2>3, <2>4, <2>5 DEF tick, Skipped
<1>4. CASE UNCHANGED vars
  BY <1>4 DEF vars, powerVars, jobVars, CountInv, SizeKnown, LinesAccounted, OneResponsePerCall
<1> QED
  BY <1>1, <1>2, <1>3, <1>4 DEF Next

LEMMA CountInvariant == ASSUME WholeLines PROVE Spec => []CountInv
<1>1. Init => CountInv
  BY DEF Init, IPInit, CountInv, SizeKnown, LinesAccounted, OneResponsePerCall
<1> QED
  BY <1>1, PowerInvariant, NextCountInv, PTL DEF Spec

(* With whole lines, no line of a call is forgotten or counted twice, so   *)
(* a call ends when the last response has come: not earlier, and the count *)
(* that ends it is not jumped over.                                        *)
THEOREM LinesAreAccounted == ASSUME WholeLines PROVE Spec => []LinesAccounted
BY CountInvariant, PTL DEF CountInv

(* With whole lines, the caller of a device gets one response for a call.  *)
THEOREM CallsAnsweredOnce == ASSUME WholeLines PROVE Spec => []OneResponsePerCall
BY CountInvariant, PTL DEF CountInv

-----------------------------------------------------------------------------
Marked == Serving => frameStarted
Agree == frameStarted <=> Serving

LEMMA NextMarked ==
  PowerInv /\ [Next]_vars => (Marked => Marked') /\ (Agree => Agree')
<1> SUFFICES ASSUME PowerInv, [Next]_vars
             PROVE  (Marked => Marked') /\ (Agree => Agree')
  OBVIOUS
<1>0. cyclesToWake \in Nat /\ power_state \in PowerStates
  BY DEF PowerInv, TypeOK, IPTypeOK
<1>1. ASSUME NEW size \in Sizes, enqueueIPReq(size)
      PROVE  (Marked => Marked') /\ (Agree => Agree')
  <2>1. ~is_busy /\ cyclesToWake = 0 /\ is_busy'
    BY <1>0, <1>1 DEF enqueueIPReq, PowerInv, AwakeWhenBusy
  <2>2. CASE power_state = "active"
    <3>1. frameStarted'
      BY <1>1, <2>2, Zenon DEF enqueueIPReq, WakeForCall, markIPRequestStarted
    <3>2. cyclesToWake' = 0
      BY <1>1, <2>1, <2>2 DEF enqueueIPReq, WakeForCall
    <3> QED BY <2>1, <3>1, <3>2 DEF Marked, Agree, Serving
  <2>3. CASE power_state # "active"
    <3>1. frameStarted' = frameStarted
      BY <1>1, <2>3 DEF enqueueIPReq, WakeForCall
    <3>2. cyclesToWake' # 0
      BY <1>0, <1>1, <2>3, PStateAssumption DEF enqueueIPReq, WakeForCall, PowerStates
    <3> QED BY <2>1, <3>1, <3>2 DEF Marked, Agree, Serving
  <2> QED BY <2>2, <2>3
<1>2. CASE UNCHANGED <<is_busy, cyclesToWake, frameStarted>>
  BY <1>2 DEF Marked, Agree, Serving
<1>3. ASSUME NEW accepted \in BOOLEAN, tick(accepted)
      PROVE  (Marked => Marked') /\ (Agree => Agree')
  <2>1. CASE WakingUp /\ UNCHANGED <<is_busy, jobVars, pending, unanswered>>
    <3>1. is_busy /\ is_busy'
      BY <1>0, <2>1 DEF WakingUp, PowerInv, AwakeWhenBusy
    <3>2. CASE cyclesToWake = 1
      <4>1. frameStarted'
        BY <2>1, <3>2, Zenon DEF WakingUp, markIPRequestStarted
      <4>2. cyclesToWake' = 0
        BY <2>1, <3>2 DEF WakingUp
      <4> QED BY <3>1, <4>1, <4>2 DEF Marked, Agree, Serving
    <3>3. CASE cyclesToWake # 1
      <4>1. cyclesToWake # 0 /\ cyclesToWake' # 0 /\ frameStarted' = frameStarted
        BY <1>0, <2>1, <3>3 DEF WakingUp
      <4> QED BY <3>1, <4>1 DEF Marked, Agree, Serving
    <3> QED BY <3>2, <3>3
  <2>2. CASE (PoweringDown \/ Asleep) /\ UNCHANGED <<is_busy, jobVars, pending, unanswered>>
    BY <1>2, <2>2 DEF PoweringDown, Asleep
  <2>3. CASE Skip \/ NothingToDo \/ Transfer(accepted)
    BY <1>2, <2>3 DEF Skip, NothingToDo, Transfer, powerVars
  <2>4. CASE Complete
    <3>1. ~is_busy' /\ ~frameStarted'
      BY <2>4, Zenon DEF Complete, markIPRequestCompleted
    <3> QED BY <3>1 DEF Marked, Agree, Serving
  <2> QED BY <1>3, <2>1, <2>2, <2>3, <2>4 DEF tick, NotWorking
<1>4. CASE memResponse
  BY <1>2, <1>4 DEF memResponse, powerVars
<1>5. CASE UNCHANGED vars
  BY <1>2, <1>5 DEF vars, powerVars
<1> QED
  BY <1>1, <1>3, <1>4, <1>5 DEF Next

(* Whatever the sizes, the time and the power of every call of a device    *)
(* are measured and, once the first call is served, nothing else is: the   *)
(* mark that markIPRequestStarted sets and markIPRequestCompleted takes    *)
(* away is there exactly while the device serves a call.                   *)
THEOREM FramesAreMeasured == Spec => FrameMeasured
<1>1. Init => Marked
  <2> SUFFICES ASSUME Init PROVE Marked
    OBVIOUS
  <2>1. ~is_busy
    BY Zenon DEF Init, IPInit
  <2> QED BY <2>1 DEF Marked, Serving
<1>2. Marked /\ Serving => Agree
  BY DEF Marked, Agree
<1>3. Agree <=> (frameStarted <=> Serving)
  BY DEF Agree
<1> QED
  BY <1>1, <1>2, <1>3, PowerInvariant, NextMarked, PTL
  DEF Spec, FrameMeasured
=============================================================================
