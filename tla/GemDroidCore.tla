----------------------------- MODULE GemDroidCore -----------------------------
(***************************************************************************)
(* A core replaying its trace in order (gemdroid_core.cc, IN_ORDER true).  *)
(* The reorder buffer outstanding_transactions holds at most               *)
(* MAX_TRANSACTIONS lines of the trace; a load or store at its head is     *)
(* sent to the memory and commits once answered.  The core waits at the    *)
(* end of a frame, powers down when it has been idle for long, and gives   *)
(* up on a request that is not answered within DEADLOCK_PERIOD ticks.      *)
(*                                                                         *)
(* Lengths are in ticks of the core.  The memory is the MemPort of         *)
(* GemDroidSoC; the IPs a line calls are in GemDroidSoC!processIPCall.     *)
(***************************************************************************)
EXTENDS Integers, SequencesExt

CONSTANTS
  Addrs,                  \* the addresses of the trace
  Insns,                  \* instructions of a CPU line
  Waits,                  \* idleStalls of a CPU line: its wait over the ratio of
                          \* setIdleRatio; 0 stands for a negative one, too
  FpsStalls,              \* what is left of a frame at its FB-UP or SND-IN line;
                          \* 0 stands for any other line, too
  MAX_TRANSACTIONS,
  issue_width,
  DEADLOCK_PERIOD,
  LOWPOWER_ENTER_TIME,
  LOWPOWER_EXIT_TIME,
  MAX_PENDING             \* bound: requests for an address the port holds

ASSUME CoreAssumption ==
  /\ Insns \subseteq Nat /\ Waits \subseteq Nat /\ FpsStalls \subseteq Nat
  /\ MAX_TRANSACTIONS \in Nat \ {0}
  /\ issue_width \in Nat \ {0}
  /\ DEADLOCK_PERIOD \in Nat \ {0}
  /\ LOWPOWER_ENTER_TIME \in Nat \ {0}
  /\ LOWPOWER_EXIT_TIME \in Nat \ {0}
  /\ MAX_PENDING \in Nat \ {0}

VARIABLES
  timely,                 \* the memory answers within DEADLOCK_PERIOD; fixed for a run
  ticks,                  \* modulo DEADLOCK_PERIOD
  outstanding_transactions,
  waited,                 \* ticks since the head was issued to the memory
  cpu_pstate,
  idleCycles,
  cyclesToWake,
  idleStalls,
  fpsStalls,              \* fpsStalls or audFpsStalls: a core has one of them
  inMemory,               \* requests the port has not answered, by address
  aborted                 \* an assertion has ended the simulation

power == <<cpu_pstate, cyclesToWake>>
vars == <<timely, ticks, outstanding_transactions, waited, power, idleCycles, idleStalls,
          fpsStalls, inMemory, aborted>>

Init ==
  /\ timely \in BOOLEAN
  /\ ticks = 0
  /\ outstanding_transactions = <<>>
  /\ waited = 0
  /\ cpu_pstate = "active" /\ cyclesToWake = 0
  /\ idleCycles = 0 /\ idleStalls = 0 /\ fpsStalls = 0
  /\ inMemory = [a \in Addrs |-> 0]
  /\ aborted = FALSE

NoAddr == "none"
Instructions(n) == [type |-> "CPU", insns |-> n, addr |-> NoAddr,
                    ready |-> FALSE, issued |-> FALSE]
Access(op, a) == [type |-> op, insns |-> 0, addr |-> a,
                  ready |-> FALSE, issued |-> FALSE]

HeadWaits(rob) == rob # <<>> /\ Head(rob).issued /\ ~Head(rob).ready

-----------------------------------------------------------------------------
(* Idle cycles count up to the bound at which a core powers down: beyond   *)
(* it they are only compared with it, or not read before they are reset.   *)
Counted(n) == IF n < LOWPOWER_ENTER_TIME THEN n + 1 ELSE n

(* Mutant of checkDeadlock: it gives up a tick early. *)
MutImpatient ==
  IF HeadWaits(outstanding_transactions) /\ waited + 1 >= DEADLOCK_PERIOD
    THEN Tail(outstanding_transactions) ELSE outstanding_transactions

(* Mutant of checkDeadlock: the check is never made. *)
MutNoCheck == outstanding_transactions

(* The buffer after checkDeadlock, which every tick starts with but the    *)
(* one in DEADLOCK_PERIOD that "ticks % DEADLOCK_PERIOD" skips.            *)
checkDeadlock ==
  LET now == (ticks + 1) % DEADLOCK_PERIOD
      late == HeadWaits(outstanding_transactions) /\ waited + 1 > DEADLOCK_PERIOD
  IN IF now # 0 /\ late THEN Tail(outstanding_transactions)
     ELSE outstanding_transactions

(* One of the issue_width slots of inOrderProcess: what it makes of the    *)
(* buffer, of idleCycles and of the requests sent to SA.                   *)
Slot(s, accepted) ==
  LET h == Head(s.rob)
  IN CASE s.rob = <<>> -> [s EXCEPT !.idle = Counted(@)]
       [] s.rob # <<>> /\ h.type = "CPU" /\ h.insns > 0 ->
            [s EXCEPT !.rob[1].insns = @ - 1]
       [] s.rob # <<>> /\ h.type = "CPU" /\ h.insns = 0 ->
            [s EXCEPT !.rob = Tail(@)]
       [] s.rob # <<>> /\ h.type # "CPU" /\ h.ready ->
            [s EXCEPT !.rob = Tail(@), !.idle = 0]
       [] s.rob # <<>> /\ h.type # "CPU" /\ ~h.ready /\ ~h.issued ->
            IF accepted THEN [s EXCEPT !.rob[1].issued = TRUE, !.sent = @ \cup {h.addr}]
            ELSE s
       [] s.rob # <<>> /\ h.type # "CPU" /\ ~h.ready /\ h.issued ->
            [s EXCEPT !.idle = Counted(@)]

inOrderProcess(rob, idle, accepted) ==
  LET after[j \in 0..issue_width] ==
        IF j = 0 THEN [rob |-> rob, idle |-> idle, sent |-> {}]
        ELSE Slot(after[j - 1], accepted)
  IN after[issue_width]

-----------------------------------------------------------------------------
(* Mutant of searchInROB: only the head is looked at. *)
MutHeadOnly(rob, a) == rob # <<>> /\ Head(rob).addr = a /\ ~Head(rob).ready

(* An access to an address that is already waited for is not added again. *)
searchInROB(rob, a) == \E i \in DOMAIN rob : rob[i].addr = a /\ ~rob[i].ready

processMMURequest(rob, op, a) ==
  IF searchInROB(rob, a) THEN rob ELSE Append(rob, Access(op, a))

(* The line the trace goes on with.  An FB-UP or SND-IN line stalls the    *)
(* core for what is left of the frame, or for nothing when the frame is    *)
(* late and dropped; other lines leave the core as it is.                  *)
CPULine(rob) ==
  \E n \in Insns, w \in Waits :
    /\ outstanding_transactions' = Append(rob, Instructions(n))
    /\ idleStalls' = w
    /\ UNCHANGED fpsStalls

MMULine(rob) ==
  \E op \in {"LD", "ST"}, a \in Addrs :
    /\ outstanding_transactions' = processMMURequest(rob, op, a)
    /\ UNCHANGED <<idleStalls, fpsStalls>>

FrameLine(rob) ==
  /\ fpsStalls' \in FpsStalls
  /\ outstanding_transactions' = rob
  /\ UNCHANGED idleStalls

(* The buffer is checked when the line is in it. *)
readLine(rob, pstate) ==
  IF pstate # "active"
    THEN /\ aborted' = TRUE
         /\ outstanding_transactions' = rob
         /\ UNCHANGED <<idleStalls, fpsStalls>>
    ELSE /\ CPULine(rob) \/ MMULine(rob) \/ FrameLine(rob)
         /\ aborted' = (Len(outstanding_transactions') > MAX_TRANSACTIONS)

-----------------------------------------------------------------------------
(* Mutant of WakeUp: the countdown stands still. *)
MutNoCountdown(rob) ==
  /\ cyclesToWake > 0
  /\ outstanding_transactions' = rob
  /\ UNCHANGED <<power, idleCycles, idleStalls, fpsStalls, inMemory, aborted>>

(* Waking up takes all of the tick. *)
WakeUp(rob) ==
  /\ cyclesToWake > 0
  /\ cyclesToWake' = cyclesToWake - 1
  /\ IF cyclesToWake = 1
       THEN cpu_pstate' = "active" /\ idleCycles' = 0
       ELSE UNCHANGED <<cpu_pstate, idleCycles>>
  /\ outstanding_transactions' = rob
  /\ UNCHANGED <<idleStalls, fpsStalls, inMemory, aborted>>

(* Idle for long enough: the core powers down and goes on with the tick. *)
PowersDown == cpu_pstate = "active" /\ idleCycles >= LOWPOWER_ENTER_TIME
PState == IF PowersDown THEN "lowpower" ELSE cpu_pstate
Idle == IF PowersDown THEN 0 ELSE idleCycles

IdleStall(rob) ==
  /\ cyclesToWake = 0 /\ idleStalls > 0
  /\ idleStalls' = idleStalls - 1
  /\ cpu_pstate' = PState /\ idleCycles' = Idle
  /\ outstanding_transactions' = rob
  /\ UNCHANGED <<cyclesToWake, fpsStalls, inMemory, aborted>>

(* Mutant of FrameStall: the end of the frame does not wake the core. *)
MutSleepOn(rob) ==
  /\ cyclesToWake = 0 /\ idleStalls = 0 /\ fpsStalls > 0
  /\ fpsStalls' = fpsStalls - 1
  /\ cpu_pstate' = PState /\ idleCycles' = Counted(Idle)
  /\ outstanding_transactions' = rob
  /\ UNCHANGED <<cyclesToWake, idleStalls, inMemory, aborted>>

(* The wait for the end of the frame, which wakes a core that sleeps. *)
FrameStall(rob) ==
  /\ cyclesToWake = 0 /\ idleStalls = 0 /\ fpsStalls > 0
  /\ fpsStalls' = fpsStalls - 1
  /\ cpu_pstate' = PState /\ idleCycles' = Counted(Idle)
  /\ cyclesToWake' = IF fpsStalls = 1 /\ PState = "lowpower" THEN LOWPOWER_EXIT_TIME ELSE 0
  /\ outstanding_transactions' = rob
  /\ UNCHANGED <<idleStalls, inMemory, aborted>>

HasRoom(rob) == Len(rob) < MAX_TRANSACTIONS

(* The core works on its buffer, then reads the next line of the trace. *)
Run(rob, accepted) ==
  LET room == \A a \in Addrs : inMemory[a] < MAX_PENDING
  IN /\ cyclesToWake = 0 /\ idleStalls = 0 /\ fpsStalls = 0
     /\ \E s \in {inOrderProcess(rob, Idle, accepted /\ room)} :
          /\ cpu_pstate' = PState /\ idleCycles' = s.idle
          /\ inMemory' = [a \in Addrs |-> inMemory[a] + IF a \in s.sent THEN 1 ELSE 0]
          /\ IF HasRoom(s.rob)
               THEN readLine(s.rob, PState)
               ELSE /\ outstanding_transactions' = s.rob
                    /\ UNCHANGED <<idleStalls, fpsStalls, aborted>>
     /\ UNCHANGED cyclesToWake

(* waited need not count beyond what checkDeadlock compares it with.       *)
(* With a timely memory no tick finds its answer overdue.                     *)
tick(accepted) ==
  LET rob == checkDeadlock
  IN /\ ~aborted
     /\ timely /\ HeadWaits(outstanding_transactions) => waited < DEADLOCK_PERIOD
     /\ ticks' = (ticks + 1) % DEADLOCK_PERIOD
     /\ WakeUp(rob) \/ IdleStall(rob) \/ FrameStall(rob) \/ Run(rob, accepted)
     /\ waited' = IF HeadWaits(rob) /\ HeadWaits(outstanding_transactions')
                    THEN (IF waited <= DEADLOCK_PERIOD THEN waited + 1 ELSE waited)
                    ELSE 0
     /\ UNCHANGED timely

(* markTransactionCompleted: the first entry with the address, if any. *)
memResponse(a) ==
  LET rob == outstanding_transactions
      i == SelectInSeq(rob, LAMBDA t : t.addr = a)
  IN /\ ~aborted /\ inMemory[a] > 0
     /\ inMemory' = [inMemory EXCEPT ![a] = @ - 1]
     /\ outstanding_transactions' = IF i = 0 THEN rob ELSE [rob EXCEPT ![i].ready = TRUE]
     /\ waited' = IF HeadWaits(outstanding_transactions') THEN waited ELSE 0
     /\ UNCHANGED <<timely, ticks, power, idleCycles, idleStalls, fpsStalls, aborted>>

Next ==
  \/ \E accepted \in BOOLEAN : tick(accepted)
  \/ \E a \in Addrs : memResponse(a)

Spec == Init /\ [][Next]_vars

(* The clock of the core never stops. *)
FairSpec == Spec /\ WF_vars(\E accepted \in BOOLEAN : tick(accepted))

-----------------------------------------------------------------------------
(* With a timely memory a core has one request in the memory system, that  *)
(* of the load or store at the head of its buffer, and none otherwise: an  *)
(* answer never finds its transaction gone ("FATAL ERROR" of               *)
(* memCoreResponse) or marks another one.                                  *)
OneOutstanding ==
  timely => \A a \in Addrs :
    inMemory[a] = IF /\ HeadWaits(outstanding_transactions)
                     /\ Head(outstanding_transactions).addr = a
                  THEN 1 ELSE 0

(* However often an address is accessed while it is waited for, the buffer *)
(* holds one access to it that is not ready: searchInROB coalesces.        *)
Coalesced ==
  \A i, j \in DOMAIN outstanding_transactions :
    LET t == outstanding_transactions[i]
        u == outstanding_transactions[j]
    IN t.addr # NoAddr /\ t.addr = u.addr /\ ~t.ready /\ ~u.ready => i = j

(* "assert(isPStateActive())" of readLine: a core that has powered down    *)
(* does not go on with its trace, as long as its memory is timely.  The    *)
(* assertion that the buffer has room for the line holds, too.             *)
ActiveWhenReading == timely => ~aborted

(* A core that powers down in a frame's wait is awake again later. *)
WakesUp == timely /\ cpu_pstate = "lowpower" ~> cpu_pstate = "active"

(* checkDeadlock: no head of the buffer waits forever for the memory, even *)
(* if the answer never comes.                                              *)
HeadReleased == ~timely /\ waited > 0 ~> (waited = 0 \/ aborted)
=============================================================================
