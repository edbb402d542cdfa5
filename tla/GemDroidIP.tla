----------------------------- MODULE GemDroidIP -----------------------------
(***************************************************************************)
(* What every IP has (gemdroid_ip.cc): it is busy with one call at a time, *)
(* moves a number of cache lines through the memory port, and falls asleep *)
(* in two steps when it has nothing to do.  GemDroidDevice and             *)
(* GemDroidAccelerator extend it with what they do in a tick.              *)
(***************************************************************************)
EXTENDS Integers

CONSTANTS
  PSTATE_ENTER_TIME,         \* idle ticks before the next lower power state
  LOWPOWER_EXIT_TIME,        \* ticks to wake up from low power
  IDLE_EXIT_TIME             \* ticks to wake up from idle

ASSUME PStateAssumption ==
  /\ PSTATE_ENTER_TIME \in Nat \ {0}
  /\ LOWPOWER_EXIT_TIME \in Nat \ {0}
  /\ IDLE_EXIT_TIME \in Nat \ {0}

VARIABLES
  power_state, idleCycles, cyclesToWake,
  is_busy,
  frameStarted               \* of GemDroid: the frame's time and power are being measured

powerVars == <<power_state, idleCycles, cyclesToWake>>

PowerStates == {"active", "lowpower", "idle"}

(* init: an IP starts asleep, but a frame is marked as started by the call *)
(* of setPStateActive.  is_busy is not set there and reads as the zero of  *)
(* the fresh pages the simulator object is allocated in.                   *)
IPInit ==
  /\ power_state = "idle"
  /\ idleCycles = 0
  /\ cyclesToWake = 0
  /\ is_busy = FALSE
  /\ frameStarted = TRUE

IPTypeOK ==
  /\ power_state \in PowerStates
  /\ idleCycles \in Nat
  /\ cyclesToWake \in Nat
  /\ is_busy \in BOOLEAN
  /\ frameStarted \in BOOLEAN

-----------------------------------------------------------------------------
markIPRequestStarted == frameStarted' = TRUE

(* Mutant of markIPRequestCompleted: the frame stays marked. *)
MutStaysMarked == UNCHANGED frameStarted

markIPRequestCompleted == frameStarted' = FALSE

(* updatePower: a tick either works or is spent on the power state.        *)

(* Idle cycles in low power are counted here, those of an active IP in its *)
(* tick.                                                                   *)
CountedIdle == IF power_state = "lowpower" THEN idleCycles + 1 ELSE idleCycles

WakingUp ==
  /\ cyclesToWake > 0
  /\ cyclesToWake' = cyclesToWake - 1
  /\ IF cyclesToWake = 1
       THEN power_state' = "active" /\ idleCycles' = 0 /\ markIPRequestStarted
       ELSE idleCycles' = CountedIdle /\ UNCHANGED <<power_state, frameStarted>>

PoweringDown ==
  /\ cyclesToWake = 0 /\ CountedIdle >= PSTATE_ENTER_TIME
  /\ power_state' = CASE power_state = "active"   -> "lowpower"
                      [] power_state = "lowpower" -> "idle"
                      [] OTHER                    -> power_state
  /\ idleCycles' = 0
  /\ UNCHANGED <<cyclesToWake, frameStarted>>

Asleep ==
  /\ cyclesToWake = 0 /\ CountedIdle < PSTATE_ENTER_TIME
  /\ power_state # "active"
  /\ idleCycles' = CountedIdle
  /\ UNCHANGED <<power_state, cyclesToWake, frameStarted>>

NotWorking == WakingUp \/ PoweringDown \/ Asleep

Working ==
  /\ cyclesToWake = 0 /\ idleCycles < PSTATE_ENTER_TIME
  /\ power_state = "active"

-----------------------------------------------------------------------------
(* Mutant of WakeForCall: the idle count goes on. *)
MutKeepIdleCount ==
  /\ cyclesToWake' = CASE power_state = "lowpower" -> LOWPOWER_EXIT_TIME
                       [] power_state = "idle"     -> IDLE_EXIT_TIME
                       [] OTHER                    -> cyclesToWake
  /\ IF power_state = "active" THEN markIPRequestStarted ELSE UNCHANGED frameStarted
  /\ UNCHANGED <<power_state, idleCycles>>

(* Mutant of WakeForCall: only waking up starts a frame. *)
MutNotMarked ==
  /\ cyclesToWake' = CASE power_state = "lowpower" -> LOWPOWER_EXIT_TIME
                       [] power_state = "idle"     -> IDLE_EXIT_TIME
                       [] OTHER                    -> cyclesToWake
  /\ idleCycles' = 0
  /\ UNCHANGED <<power_state, frameStarted>>

(* enqueueIPReq, what it does to the power state.  A sleeping IP starts to *)
(* wake up; the frame of an active one starts.                             *)
WakeForCall ==
  /\ cyclesToWake' = CASE power_state = "lowpower" -> LOWPOWER_EXIT_TIME
                       [] power_state = "idle"     -> IDLE_EXIT_TIME
                       [] OTHER                    -> cyclesToWake
  /\ idleCycles' = 0
  /\ IF power_state = "active" THEN markIPRequestStarted ELSE UNCHANGED frameStarted
  /\ UNCHANGED power_state

(* A call never waits for an IP that sleeps: a busy IP is active, or it is *)
(* waking up; and only an IP that was called wakes up, so that the         *)
(* assertions on the power state in updatePower and tick hold.             *)
AwakeWhenBusy ==
  /\ is_busy => power_state = "active" \/ cyclesToWake > 0
  /\ cyclesToWake > 0 => is_busy /\ power_state # "active"

(* An IP serves a call: it is called and awake. *)
Serving == is_busy /\ cyclesToWake = 0

(* The time and the power of every call are measured, from the tick in     *)
(* which the IP is ready for it to the one in which it responds, and       *)
(* nothing else once the first call is served: markIPRequestCompleted      *)
(* never finds a frame that was not started, and powerCalculator1us adds   *)
(* no power of an IP that sleeps or idles.                                 *)
FrameMeasured == [](Serving => [](frameStarted <=> Serving))
=============================================================================
