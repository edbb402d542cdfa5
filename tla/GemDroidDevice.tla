--------------------------- MODULE GemDroidDevice ---------------------------
(***************************************************************************)
(* A device: display, sound, microphone, network, camera or flash          *)
(* (GemDroidIP itself, gemdroid_ip.cc).  A call moves m_dataSize bytes     *)
(* between device and memory, line by line; the device is busy until the   *)
(* memory has answered.  The memory is the MemPort that GemDroidSoC        *)
(* implements: it may refuse a request, and answers in any order.          *)
(***************************************************************************)
EXTENDS GemDroidIP

CONSTANTS
  CACHE_LINE_SIZE,
  ioLatency,              \* cycles per line before a call's requests start
  Sizes,                  \* the sizes, in bytes, this device is called with
  MAX_PENDING             \* bound: requests the port holds for this device

ASSUME DeviceAssumption ==
  /\ CACHE_LINE_SIZE \in Nat \ {0}
  /\ ioLatency \in Nat
  /\ Sizes \subseteq Nat
  /\ MAX_PENDING \in Nat \ {0}

VARIABLES
  m_reqCount,             \* lines still to be requested; -1 after the last
  m_respCount,            \* responses of this call
  m_dataSize,
  m_cyclesToSkip,
  pending,                \* of the port: requests the memory has not answered
  unanswered              \* history: calls accepted minus responses to callers

jobVars == <<m_reqCount, m_respCount, m_dataSize, m_cyclesToSkip>>
vars == <<powerVars, is_busy, frameStarted, jobVars, pending, unanswered>>

Init ==
  /\ IPInit
  /\ m_reqCount = -1
  /\ m_respCount = 0 /\ m_dataSize = 0 /\ m_cyclesToSkip = 0
  /\ pending = 0
  /\ unanswered = 0

Lines(size) == (size + CACHE_LINE_SIZE - 1) \div CACHE_LINE_SIZE

(* A busy device refuses the call; SA offers it again in a later tick.     *)
enqueueIPReq(size) ==
  /\ ~is_busy
  /\ is_busy' = TRUE
  /\ m_reqCount' = Lines(size)
  /\ m_respCount' = 0
  /\ m_dataSize' = size
  /\ m_cyclesToSkip' = ioLatency * Lines(size)
  /\ WakeForCall
  /\ unanswered' = unanswered + 1
  /\ UNCHANGED pending

(* Mutant of memResponse: a response of the memory is counted twice. *)
MutCountTwice ==
  /\ pending > 0
  /\ pending' = pending - 1
  /\ m_respCount' = m_respCount + 2
  /\ UNCHANGED <<powerVars, is_busy, frameStarted, m_reqCount, m_dataSize, m_cyclesToSkip, unanswered>>

memResponse ==
  /\ pending > 0
  /\ pending' = pending - 1
  /\ m_respCount' = m_respCount + 1
  /\ UNCHANGED <<powerVars, is_busy, frameStarted, m_reqCount, m_dataSize, m_cyclesToSkip, unanswered>>

(* Integer division: for a size that is not a whole number of lines this   *)
(* is one less than what was requested.                                    *)
AllResponded == m_respCount = m_dataSize \div CACHE_LINE_SIZE

(* Mutant of Complete: the count of responses stays. *)
MutKeepCount ==
  /\ AllResponded
  /\ is_busy' = FALSE /\ m_reqCount' = 0
  /\ idleCycles' = idleCycles + 1
  /\ unanswered' = unanswered - 1
  /\ markIPRequestCompleted
  /\ UNCHANGED <<power_state, cyclesToWake, m_respCount, m_dataSize, pending>>

(* The last response has come: the device tells SA and is free. *)
Complete ==
  /\ AllResponded
  /\ is_busy' = FALSE /\ m_respCount' = 0 /\ m_reqCount' = 0
  /\ idleCycles' = idleCycles + 1
  /\ unanswered' = unanswered - 1
  /\ markIPRequestCompleted
  /\ UNCHANGED <<power_state, cyclesToWake, m_dataSize, pending>>

NothingToDo ==
  /\ ~AllResponded
  /\ m_reqCount <= 0 /\ ~is_busy
  /\ idleCycles' = idleCycles + 1
  /\ UNCHANGED <<power_state, cyclesToWake, is_busy, frameStarted, m_reqCount,
                 m_respCount, m_dataSize, pending, unanswered>>

(* sendMemoryReq, if there is a line left to request. *)
Transfer(accepted) ==
  /\ ~AllResponded
  /\ m_reqCount > 0 \/ is_busy
  /\ IF m_reqCount > 0 /\ accepted /\ pending < MAX_PENDING
       THEN /\ m_reqCount' = IF m_reqCount = 1 THEN -1 ELSE m_reqCount - 1
            /\ pending' = pending + 1
       ELSE UNCHANGED <<m_reqCount, pending>>
  /\ UNCHANGED <<powerVars, is_busy, frameStarted, m_respCount, m_dataSize, unanswered>>

(* process returns true as long as cycles are left to skip. *)
Skip ==
  /\ m_cyclesToSkip > 1
  /\ UNCHANGED <<powerVars, is_busy, frameStarted, m_reqCount, m_respCount, m_dataSize, pending,
                 unanswered>>

Skipped == IF m_cyclesToSkip > 0 THEN m_cyclesToSkip - 1 ELSE 0

tick(accepted) ==
  \/ NotWorking /\ UNCHANGED <<is_busy, jobVars, pending, unanswered>>
  \/ /\ Working
     /\ m_cyclesToSkip' = Skipped
     /\ \/ Skip
        \/ m_cyclesToSkip <= 1 /\ (Complete \/ NothingToDo \/ Transfer(accepted))

Next ==
  \/ \E size \in Sizes : enqueueIPReq(size)
  \/ \E accepted \in BOOLEAN : tick(accepted)
  \/ memResponse

Spec == Init /\ [][Next]_vars

(* The clock of the device never stops, the port answers (MemPort!Fairness)*)
(* and does not refuse a request forever.                                  *)
Fairness ==
  /\ WF_vars(\E accepted \in BOOLEAN : tick(accepted))
  /\ SF_vars(tick(TRUE) /\ pending' = pending + 1)
  /\ WF_vars(memResponse)

FairSpec == Spec /\ Fairness

-----------------------------------------------------------------------------
(* Every variable has its type. *)
TypeOK ==
  /\ IPTypeOK
  /\ m_reqCount \in Nat \cup {-1}
  /\ m_respCount \in Nat /\ m_dataSize \in Nat /\ m_cyclesToSkip \in Nat
  /\ pending \in Nat
  /\ unanswered \in Int

(* Only whole lines: what all calls but the network's are. *)
WholeLines == \A size \in Sizes : size > 0 /\ size % CACHE_LINE_SIZE = 0

(* While a call is served, every line is still to be requested, on its way *)
(* or answered: the count that ends the call cannot be reached early or be *)
(* missed.  A free device waits for nothing.                               *)
LinesAccounted ==
  IF is_busy
    THEN (IF m_reqCount > 0 THEN m_reqCount ELSE 0) + pending + m_respCount
           = m_dataSize \div CACHE_LINE_SIZE
    ELSE pending = 0 /\ m_respCount = 0 /\ m_reqCount <= 0

(* A caller gets one response for each call, no more: the next IP of the   *)
(* flow is called once per frame.                                          *)
OneResponsePerCall == unanswered = IF is_busy THEN 1 ELSE 0

(* "eventually this IP call will be serviced": a busy device becomes free. *)
CallsFinish == is_busy ~> ~is_busy
=============================================================================
