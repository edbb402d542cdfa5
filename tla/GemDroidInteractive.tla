------------------------ MODULE GemDroidInteractive ------------------------
(***************************************************************************)
(* The governors in time.  GemDroid::tick counts ticks; every dvfsPeriod   *)
(* of them is an epoch.  Units leave the active state and come back to it  *)
(* in any tick between two epochs.  As only distances in time matter, the  *)
(* ticks since the last epoch and since a unit became active are kept, the *)
(* latter up to the time INTERACTIVE promises.                             *)
(***************************************************************************)
EXTENDS GemDroidDVFS

CONSTANT MILLISEC         \* ticks in a millisecond

VARIABLES
  sinceEpoch,             \* ticks - dvfsLastTick
  inactive,               \* units whose P-state is idle or low power
  sinceActive             \* ticks since a unit became active, capped

time == <<sinceEpoch, inactive, sinceActive>>
timedVars == <<vars, time>>

dvfsPeriod == config.governor_timing * MILLISEC
HoldTime == INTERACTIVE_GOVERNOR_LAT * MILLISEC

(* The constructors call setPStateActive. *)
TimedInit ==
  /\ Init
  /\ sinceEpoch = 0
  /\ inactive = {}
  /\ sinceActive = [u \in Units |-> 0]

-----------------------------------------------------------------------------
tick ==
  /\ sinceEpoch < dvfsPeriod
  /\ sinceEpoch' = sinceEpoch + 1
  /\ sinceActive' = [u \in Units |-> IF sinceActive[u] < HoldTime THEN sinceActive[u] + 1
                                     ELSE sinceActive[u]]
  /\ UNCHANGED <<vars, inactive>>

(* The epoch is the first thing tick does when dvfsPeriod is over. *)
TimedEpoch ==
  /\ sinceEpoch = dvfsPeriod
  /\ Epoch
  /\ sinceEpoch' = 0
  /\ UNCHANGED <<inactive, sinceActive>>

(* setPStateIdle, setPStateLowPower *)
LeaveActive(u) ==
  /\ sinceEpoch < dvfsPeriod /\ u \notin inactive
  /\ inactive' = inactive \cup {u}
  /\ UNCHANGED <<vars, sinceEpoch, sinceActive>>

(* setPStateActive, which leaves the frequency of a VD alone. *)
BecomeActive(u) ==
  /\ sinceEpoch < dvfsPeriod /\ u \in inactive
  /\ IF u = "VD" THEN UNCHANGED vars ELSE setPStateActive(u)
  /\ inactive' = inactive \ {u}
  /\ sinceActive' = [sinceActive EXCEPT ![u] = 0]
  /\ UNCHANGED sinceEpoch

TimedNext == tick \/ TimedEpoch \/ \E u \in Units : LeaveActive(u) \/ BecomeActive(u)

TimedSpec == TimedInit /\ [][TimedNext]_timedVars

-----------------------------------------------------------------------------
(* "Goes to highest dvfs state when becoming active and stays there for    *)
(* atleast INTERACTIVE_GOVERNOR_LAT ms", of GOVERNOR_TYPE_INTERACTIVE: for *)
(* that long after it became active every unit is at its maximum.          *)
HoldsMax ==
  governor = "INTERACTIVE" =>
    \A u \in Units : sinceActive[u] < HoldTime => dvfsState[u] = MaxInd(u)
=============================================================================
