--------------------------- MODULE DRAMSimChannel ---------------------------
(***************************************************************************)
(* One channel of DRAMSim2 (MemorySystem) as gemdroid.ini sets it up: one  *)
(* rank, open pages, a command queue per bank, FRFCFS, low power, no       *)
(* posted CAS.  MemorySystem::update is one clock cycle: the rank and the  *)
(* buses (Transfer), the command queue (Command), then transactions, power *)
(* and returned data (Finish).                                             *)
(*                                                                         *)
(* Controller and rank each keep a state of every bank with the times from *)
(* which a command is allowed; the rank ends the program when it receives  *)
(* one that it does not allow.  A time is kept as the number of cycles     *)
(* left, 0 once it has passed.  An address is kept in the bank and row that *)
(* addressMapping says.                                                    *)
(***************************************************************************)
EXTENDS DRAMSimMapping, Integers, Sequences, SequencesExt, FiniteSetsExt

CONSTANTS
  systemID,               \* of this channel
  Senders,
  Traffic,                \* what each sender may ask for
  TRANS_QUEUE_DEPTH, CMD_QUEUE_DEPTH, TOTAL_ROW_ACCESSES,
  REFRESH_CYCLES,         \* REFRESH_PERIOD/tCK
  RL, HALF_BL,            \* BL/2
  tRAS, tRCD, tRRD, tRC, tRP, tCCD, tRTP, tWTR, tWR, tRTRS, tRFC, tFAW, tCKE, tXP

Banks == 0..(NUM_BANKS - 1)
Accesses == {"READ", "WRITE"}

Later(a, b) == IF a > b THEN a ELSE b
Sooner(n) == IF n > 0 THEN n - 1 ELSE 0

WL == RL - 1
READ_TO_PRE_DELAY == HALF_BL + Later(tRTP, tCCD) - tCCD
WRITE_TO_PRE_DELAY == WL + HALF_BL + tWR
READ_TO_WRITE_DELAY == RL + HALF_BL + tRTRS - WL
WRITE_TO_READ_DELAY_B == WL + HALF_BL + tWTR

(* tCMD is 1 in every device file. *)
ASSUME ChannelAssumption ==
  /\ \A s \in Senders : \A t \in Traffic[s] : t.type \in Accesses /\ t.address \in Nat
  /\ systemID \in 0..(NUM_CHANS - 1) /\ NUM_RANKS = 1
  /\ TRANS_QUEUE_DEPTH \in Nat \ {0} /\ TOTAL_ROW_ACCESSES \in Nat \ {0}
  /\ CMD_QUEUE_DEPTH \in Nat /\ CMD_QUEUE_DEPTH > 1
  /\ REFRESH_CYCLES \in Nat \ {0}
  /\ \A t \in {tRAS, tRCD, tRRD, tRC, tRP, tCCD, tRTP, tWTR, tWR, tRTRS, tRFC, tFAW, tCKE, tXP} :
       t \in Nat \ {0}
  /\ RL \in Nat /\ RL > 1 /\ HALF_BL \in Nat \ {0}

VARIABLES
  phase,                  \* part of the cycle that is next
  transactionQueue,
  queues,                 \* commands per bank
  bankStates,             \* of the controller
  rowAccessCounters,
  tFAWCountdown,          \* cycles left of each recent activation
  nextBank, nextBankPRE,
  refreshWaiting,         \* of the command queue
  refreshCountdown,
  powerDown,
  outgoingCmd,            \* command bus: at most one command
  outgoingData,           \* data bus: at most one write, with its cycles left
  writeData,              \* writes to put on it, with their countdowns
  pendingReads, returned, \* pendingReadTransactions, returnTransaction
  rankStates,             \* bank states of the rank
  rankRefresh,            \* its refreshWaiting
  rankReads, rankOut,     \* its reads to send, and the one it sends, with countdowns
  waiting,                \* history: senders without an answer
  failed                  \* a check has ended the program

queueVars == <<queues, rowAccessCounters, tFAWCountdown, nextBank, nextBankPRE, refreshWaiting>>
readVars == <<pendingReads, returned>>
rankVars == <<rankStates, rankReads, rankOut>>
vars == <<phase, transactionQueue, queueVars, bankStates, refreshCountdown, powerDown,
          outgoingCmd, outgoingData, writeData, readVars, rankVars, rankRefresh,
          waiting, failed>>

IdleBank ==
  [state |-> "Idle", row |-> 0, nextRead |-> 0, nextWrite |-> 0, nextActivate |-> 0,
   nextPrecharge |-> 0, nextPowerUp |-> 0, change |-> 0]

Init ==
  /\ phase = "transfer"
  /\ transactionQueue = <<>>
  /\ queues = [b \in Banks |-> <<>>]
  /\ bankStates = [b \in Banks |-> IdleBank] /\ rankStates = bankStates
  /\ rowAccessCounters = [b \in Banks |-> 0] /\ tFAWCountdown = <<>>
  /\ nextBank = 0 /\ nextBankPRE = 0
  /\ refreshWaiting = FALSE /\ refreshCountdown = REFRESH_CYCLES
  /\ powerDown = FALSE /\ rankRefresh = FALSE
  /\ outgoingCmd = <<>> /\ outgoingData = <<>> /\ writeData = <<>>
  /\ pendingReads = <<>> /\ returned = <<>>
  /\ rankReads = <<>> /\ rankOut = <<>>
  /\ waiting = {} /\ failed = FALSE

-----------------------------------------------------------------------------
(* addTransaction, called between two cycles with an address of this       *)
(* channel.  A sender waits for its answer before it asks again.           *)
addTransaction(s) ==
  /\ phase = "transfer" /\ ~failed
  /\ s \notin waiting
  /\ Len(transactionQueue) < TRANS_QUEUE_DEPTH
  /\ \E t \in Traffic[s] :
       /\ findChannelNumber(t.address) = systemID
       /\ transactionQueue' = Append(transactionQueue,
            [type |-> t.type, address |-> t.address, sender |-> s])
  /\ waiting' = waiting \cup {s}
  /\ UNCHANGED <<phase, queueVars, bankStates, refreshCountdown, powerDown, outgoingCmd,
                 outgoingData, writeData, readVars, rankVars, rankRefresh, failed>>

-----------------------------------------------------------------------------
(* What the controller (MemoryController::update) and the rank             *)
(* (receiveFromBus) make of a command at bank b.                           *)
Activated(S, b, row, exact) ==
  LET at(old, t) == IF exact THEN t ELSE Later(old, t)
  IN [i \in Banks |->
        IF i = b
        THEN [S[i] EXCEPT !.state = "RowActive", !.row = row,
                !.nextActivate = at(@, tRC), !.nextPrecharge = at(@, tRAS),
                !.nextRead = at(@, tRCD), !.nextWrite = at(@, tRCD)]
        ELSE [S[i] EXCEPT !.nextActivate = Later(@, tRRD)]]

Accessed(S, b, toPre, toRead, toWrite) ==
  [i \in Banks |->
     [S[i] EXCEPT !.nextPrecharge = IF i = b THEN Later(@, toPre) ELSE @,
                  !.nextRead = Later(@, toRead), !.nextWrite = Later(@, toWrite)]]

ReadFrom(S, b) ==
  Accessed(S, b, READ_TO_PRE_DELAY, Later(tCCD, HALF_BL), READ_TO_WRITE_DELAY)

WrittenTo(S, b) ==
  Accessed(S, b, WRITE_TO_PRE_DELAY, WRITE_TO_READ_DELAY_B, Later(HALF_BL, tCCD))

Precharged(S, b, state, change) ==
  [S EXCEPT ![b].state = state, ![b].row = 0, ![b].change = change,
            ![b].nextActivate = Later(@, tRP)]

Refreshed(S, state, change) ==
  [i \in Banks |-> [S[i] EXCEPT !.state = state, !.change = change, !.nextActivate = tRFC]]

(* A cycle passes. *)
Stepped(S) ==
  [i \in Banks |->
     [S[i] EXCEPT !.nextRead = Sooner(@), !.nextWrite = Sooner(@), !.nextActivate = Sooner(@),
                  !.nextPrecharge = Sooner(@), !.nextPowerUp = Sooner(@)]]

-----------------------------------------------------------------------------
(* Rank::receiveFromBus: what the rank allows, and what it does. *)
Allowed(c) ==
  LET s == rankStates[c.bank]
  IN CASE c.type = "READ" -> s.state = "RowActive" /\ s.nextRead = 0 /\ s.row = c.row
       [] c.type = "WRITE" -> s.state = "RowActive" /\ s.nextWrite = 0 /\ s.row = c.row
       [] c.type = "ACTIVATE" -> s.state = "Idle" /\ s.nextActivate = 0
       [] c.type = "PRECHARGE" -> s.state = "RowActive" /\ s.nextPrecharge = 0
       [] c.type = "REFRESH" -> \A b \in Banks : rankStates[b].state = "Idle"

Received(c) ==
  CASE c.type = "READ" -> ReadFrom(rankStates, c.bank)
    [] c.type = "WRITE" -> WrittenTo(rankStates, c.bank)
    [] c.type = "ACTIVATE" -> Activated(rankStates, c.bank, c.row, TRUE)
    [] c.type = "PRECHARGE" -> Precharged(rankStates, c.bank, "Idle", 0)
    [] c.type = "REFRESH" -> Refreshed(rankStates, "Idle", 0)

(* Entries with a countdown, one cycle later; the first of them leaves     *)
(* when its time has come.                                                 *)
Entry(c, left) == [cmd |-> c, left |-> left]
Counted(q) == [i \in DOMAIN q |-> [q[i] EXCEPT !.left = Sooner(@)]]
Due(q) == q # <<>> /\ q[1].left = 1
Rest(q) == IF Due(q) THEN Tail(Counted(q)) ELSE Counted(q)
OnBus(q) == IF Due(q) THEN <<[q[1] EXCEPT !.left = HALF_BL]>> ELSE <<>>

Arrives(type) == outgoingCmd # <<>> /\ outgoingCmd[1].type = type

(* The activations of the last tFAW cycles. *)
Window ==
  LET w == [i \in DOMAIN tFAWCountdown |-> tFAWCountdown[i] - 1]
  IN IF w # <<>> /\ w[1] = 0 THEN Tail(w) ELSE w

(* Rank::update, the bank countdowns of the controller, the command and    *)
(* the data on its buses, a refresh that is due, and the window that pop   *)
(* looks at.                                                               *)
Transfer ==
  /\ phase = "transfer" /\ ~failed
  /\ returned' = IF Due(rankOut) THEN Append(returned, rankOut[1].cmd) ELSE returned
  /\ rankOut' = IF Due(rankReads) THEN OnBus(rankReads) ELSE Rest(rankOut)
  /\ rankReads' = IF Arrives("READ") THEN Append(Rest(rankReads), Entry(outgoingCmd[1], RL))
                  ELSE Rest(rankReads)
  /\ bankStates' = [b \in Banks |->
       [bankStates[b] EXCEPT !.change = Sooner(@),
          !.state = IF bankStates[b].change = 1 THEN "Idle" ELSE @]]
  /\ rankStates' = IF outgoingCmd = <<>> THEN rankStates ELSE Received(outgoingCmd[1])
  /\ refreshWaiting' = (refreshWaiting \/ refreshCountdown = 0)
  /\ refreshCountdown' = IF refreshCountdown = 0 THEN REFRESH_CYCLES ELSE refreshCountdown
  /\ rankRefresh' = \/ rankRefresh /\ ~Arrives("REFRESH")
                    \/ refreshCountdown = 0
                    \/ powerDown /\ refreshCountdown <= tXP
  /\ tFAWCountdown' = Window
  /\ outgoingCmd' = <<>>
  /\ outgoingData' = IF Due(writeData) THEN OnBus(writeData) ELSE Rest(outgoingData)
  /\ waiting' = IF Due(outgoingData) THEN waiting \ {outgoingData[1].cmd.sender} ELSE waiting
  /\ writeData' = Rest(writeData)
  /\ failed' = \/ outgoingCmd # <<>> /\ ~Allowed(outgoingCmd[1])
               \/ Due(writeData) /\ Rest(outgoingData) # <<>>
  /\ phase' = "command"
  /\ UNCHANGED <<transactionQueue, queues, rowAccessCounters, nextBank, nextBankPRE,
                 powerDown, pendingReads>>

-----------------------------------------------------------------------------
(* CommandQueue::isIssuable for a command of the queue of bank b. *)
isIssuable(c, b) ==
  LET s == bankStates[b]
      open == s.state = "RowActive" /\ s.row = c.row
              /\ rowAccessCounters[b] < TOTAL_ROW_ACCESSES
  IN CASE c.type = "ACTIVATE" ->
            s.state \in {"Idle", "Refreshing"} /\ s.nextActivate = 0 /\ Len(tFAWCountdown) < 4
       [] c.type = "WRITE" -> open /\ s.nextWrite = 0
       [] c.type = "READ" -> open /\ s.nextRead = 0

(* Mutant of checkDependency: an access may overtake another of its row. *)
MutNoDependency(q, i) == FALSE

checkDependency(q, i) == \E j \in 1..(i - 1) : q[j].type # "ACTIVATE" /\ q[j].row = q[i].row

(* The banks from first on, round-robin. *)
InTurn(first) == [k \in 1..NUM_BANKS |-> (first + k - 1) % NUM_BANKS]

(* What pop makes of the queues: cmd is the command popped, if any. *)
Nothing == [cmd |-> <<>>, queues |-> queues, counters |-> rowAccessCounters,
            bank |-> nextBank, bankPRE |-> nextBankPRE, refresh |-> refreshWaiting]

Packet(type, t, b, row) ==
  [type |-> type, address |-> t.address, sender |-> t.sender, bank |-> b, row |-> row]

Bare(type, b) == <<Packet(type, [address |-> 0, sender |-> "none"], b, 0)>>

PopPRE(b) == [Nothing EXCEPT !.cmd = Bare("PRECHARGE", b), !.counters[b] = 0]

(* Mutant of PopForRefresh: an open bank is closed without a look at its   *)
(* queue.                                                                  *)
MutCloseAny ==
  LET held == {b \in Banks : bankStates[b].state = "RowActive"
                             \/ bankStates[b].nextActivate > 0}
      b == Min(held)
  IN IF held = {}
       THEN IF bankStates[0].state = "PowerDown" THEN Nothing
            ELSE [Nothing EXCEPT !.cmd = Bare("REFRESH", 0), !.refresh = FALSE]
     ELSE IF bankStates[b].state = "RowActive" /\ bankStates[b].nextPrecharge = 0
       THEN PopPRE(b) ELSE Nothing

(* A refresh waits: the first bank that is open or not ready decides.  An  *)
(* access whose row has been activated for it goes first.                  *)
PopForRefresh ==
  LET held == {b \in Banks : bankStates[b].state = "RowActive"
                             \/ bankStates[b].nextActivate > 0}
      b == Min(held)
      q == queues[b]
      first == SelectInSeq(q, LAMBDA c : c.row = bankStates[b].row)
  IN IF held = {}
       THEN IF bankStates[0].state = "PowerDown" THEN Nothing
            ELSE [Nothing EXCEPT !.cmd = Bare("REFRESH", 0), !.refresh = FALSE]
     ELSE IF bankStates[b].state # "RowActive" THEN Nothing
     ELSE IF first # 0 /\ q[first].type # "ACTIVATE"
       THEN IF isIssuable(q[first], b)
              THEN [Nothing EXCEPT !.cmd = <<q[first]>>, !.queues[b] = RemoveAt(q, first)]
              ELSE Nothing
     ELSE IF bankStates[b].nextPrecharge = 0 THEN PopPRE(b) ELSE Nothing

(* FRFCFS: after the searches for accesses of cores and for row hits, the  *)
(* last one is always made, finds whatever they found, and takes the first *)
(* command that can be issued.  An activation in front of an access that   *)
(* no longer needs it goes with it.                                        *)
Issuable(b) ==
  {i \in DOMAIN queues[b] : isIssuable(queues[b][i], b) /\ ~checkDependency(queues[b], i)}

PopFrom(b) ==
  LET q == queues[b]
      i == Min(Issuable(b))
      hit == i > 1 /\ q[i - 1].type = "ACTIVATE"
  IN [Nothing EXCEPT !.cmd = <<q[i]>>, !.bank = b,
        !.queues[b] = IF hit THEN RemoveAt(RemoveAt(q, i), i - 1) ELSE RemoveAt(q, i),
        !.counters[b] = IF hit THEN @ + 1 ELSE @]

(* A bank to close: nothing waits for its row, or the row has had its      *)
(* share of accesses.                                                      *)
Closable(b) ==
  /\ bankStates[b].state = "RowActive" /\ bankStates[b].nextPrecharge = 0
  /\ \/ \A i \in DOMAIN queues[b] : queues[b][i].row # bankStates[b].row
     \/ rowAccessCounters[b] = TOTAL_ROW_ACCESSES

PopInTurn ==
  LET serve == SelectSeq(InTurn(nextBank), LAMBDA b : Issuable(b) # {})
      close == SelectSeq(InTurn(nextBankPRE), Closable)
  IN IF ~refreshWaiting /\ serve # <<>> THEN PopFrom(serve[1])
     ELSE IF close # <<>> THEN [PopPRE(close[1]) EXCEPT !.bankPRE = close[1]]
     ELSE Nothing

pop ==
  LET r == IF refreshWaiting THEN PopForRefresh ELSE Nothing
  IN IF r.cmd # <<>> THEN r ELSE PopInTurn

(* Mutant of Noted: the delay from a write to a precharge is that of a read. *)
MutNoted(c) ==
  CASE c.type \in Accesses -> ReadFrom(bankStates, c.bank)
    [] c.type = "ACTIVATE" -> Activated(bankStates, c.bank, c.row, FALSE)
    [] c.type = "PRECHARGE" -> Precharged(bankStates, c.bank, "Precharging", tRP)
    [] c.type = "REFRESH" -> Refreshed(bankStates, "Refreshing", tRFC)

Noted(c) ==
  CASE c.type = "READ" -> ReadFrom(bankStates, c.bank)
    [] c.type = "WRITE" -> WrittenTo(bankStates, c.bank)
    [] c.type = "ACTIVATE" -> Activated(bankStates, c.bank, c.row, FALSE)
    [] c.type = "PRECHARGE" -> Precharged(bankStates, c.bank, "Precharging", tRP)
    [] c.type = "REFRESH" -> Refreshed(bankStates, "Refreshing", tRFC)

(* The command popped goes to the bus, and the controller takes note of it. *)
Command ==
  /\ phase = "command" /\ ~failed
  /\ \E p \in {pop} :
       /\ queues' = p.queues /\ rowAccessCounters' = p.counters
       /\ nextBankPRE' = p.bankPRE /\ refreshWaiting' = p.refresh
       /\ outgoingCmd' = p.cmd
       /\ IF p.cmd = <<>>
          THEN UNCHANGED <<nextBank, bankStates, tFAWCountdown, writeData>>
          ELSE LET c == p.cmd[1]
               IN /\ nextBank' = (p.bank + 1) % NUM_BANKS
                  /\ tFAWCountdown' = IF c.type = "ACTIVATE" THEN Append(tFAWCountdown, tFAW)
                                      ELSE tFAWCountdown
                  /\ writeData' = IF c.type = "WRITE" THEN Append(writeData, Entry(c, WL))
                                  ELSE writeData
                  /\ bankStates' = Noted(c)
  /\ phase' = "finish"
  /\ UNCHANGED <<transactionQueue, refreshCountdown, powerDown, outgoingData, readVars,
                 rankVars, rankRefresh, waiting, failed>>

-----------------------------------------------------------------------------
hasRoomFor(n, b) == CMD_QUEUE_DEPTH - Len(queues[b]) >= n

(* The first transaction with room in its command queue becomes an         *)
(* activation and an access.                                               *)
Chosen ==
  SelectInSeq(transactionQueue, LAMBDA t : hasRoomFor(2, addressMapping(t.address).bank))

Schedule ==
  LET t == transactionQueue[Chosen]
      place == addressMapping(t.address)
      packet(type) == Packet(type, t, place.bank, place.row)
  IN IF Chosen = 0 THEN UNCHANGED <<transactionQueue, queues>>
     ELSE /\ transactionQueue' = RemoveAt(transactionQueue, Chosen)
          /\ queues' = [queues EXCEPT ![place.bank] = @ \o <<packet("ACTIVATE"), packet(t.type)>>]

(* Data from the rank answers the first read of that address. *)
Pending ==
  IF Chosen # 0 /\ transactionQueue[Chosen].type = "READ"
    THEN Append(pendingReads, transactionQueue[Chosen]) ELSE pendingReads

(* Mutant of Match: the oldest read is answered. *)
MutMatch == IF Pending = <<>> THEN 0 ELSE 1

Match == SelectInSeq(Pending, LAMBDA t : t.address = returned[1].address)

returnReadData ==
  IF returned = <<>> \/ Match = 0
    THEN pendingReads' = Pending /\ UNCHANGED <<returned, waiting>>
    ELSE /\ pendingReads' = RemoveAt(Pending, Match)
         /\ returned' = Tail(returned)
         /\ waiting' = waiting \ {Pending[Match].sender}

(* Mutant of Idle: a refresh does not wake the rank. *)
MutNoWake == \A b \in Banks : queues'[b] = <<>>

(* A rank without commands and with all banks idle is powered down, one    *)
(* that has a command or a refresh is powered up again.                    *)
Idle == (\A b \in Banks : queues'[b] = <<>>) /\ ~rankRefresh
PowersDown == Idle /\ \A b \in Banks : bankStates[b].state = "Idle"
PowersUp == ~Idle /\ powerDown /\ bankStates[0].nextPowerUp = 0

Powered(S) ==
  [b \in Banks |->
     IF PowersDown THEN [S[b] EXCEPT !.state = "PowerDown", !.nextPowerUp = tCKE]
     ELSE IF PowersUp THEN [S[b] EXCEPT !.state = "Idle", !.nextActivate = tXP]
     ELSE S[b]]

(* The rest of the cycle, then the clocks advance. *)
Finish ==
  /\ phase = "finish" /\ ~failed
  /\ Schedule
  /\ powerDown' = (PowersDown \/ (powerDown /\ ~PowersUp))
  /\ bankStates' = Stepped(Powered(bankStates))
  /\ rankStates' = Stepped(Powered(rankStates))
  /\ returnReadData
  /\ refreshCountdown' = refreshCountdown - 1
  /\ failed' = \/ PowersDown /\ \E b \in Banks : rankStates[b].state # "Idle"
               \/ PowersUp /\ \E b \in Banks : rankStates[b].nextPowerUp > 0
               \/ returned # <<>> /\ Match = 0
               \/ \E b \in Banks : Len(queues'[b]) > CMD_QUEUE_DEPTH
  /\ phase' = "transfer"
  /\ UNCHANGED <<rowAccessCounters, tFAWCountdown, nextBank, nextBankPRE, refreshWaiting,
                 outgoingCmd, outgoingData, writeData, rankReads, rankOut, rankRefresh>>

Next == Transfer \/ Command \/ Finish \/ \E s \in Senders : addTransaction(s)

(* The memory clock goes on: the part of the cycle that is next is done.   *)
ClockGoesOn ==
  /\ ~failed
  /\ phase' = CASE phase = "transfer" -> "command"
                [] phase = "command" -> "finish"
                [] phase = "finish" -> "transfer"

Spec == Init /\ [][Next]_vars /\ WF_phase(ClockGoesOn)

-----------------------------------------------------------------------------
(* No check fails: the rank allows every command it receives, it is idle   *)
(* when it is powered down, writes do not collide on the data bus, every   *)
(* read that returns has been asked for and no command queue overflows.    *)
Allows == ~failed

(* An activation in a queue is followed by its own access: it is that      *)
(* activation that pop deletes in front of a row hit.  An access without   *)
(* its activation in front finds its row open until it is issued itself;   *)
(* nothing would open that row again for it.                               *)
RowKept ==
  \A b \in Banks : \A i \in DOMAIN queues[b] :
    LET q == queues[b]
    IN IF q[i].type = "ACTIVATE"
         THEN /\ i < Len(q) /\ q[i + 1].type # "ACTIVATE"
              /\ q[i + 1].row = q[i].row /\ q[i + 1].sender = q[i].sender
         ELSE \/ i > 1 /\ q[i - 1].type = "ACTIVATE"
              \/ bankStates[b].state = "RowActive" /\ bankStates[b].row = q[i].row

(* Reads are answered by address alone.  The answer goes to the right one, *)
(* because reads of one address come back in the order they are asked.     *)
RightReader ==
  LET travelling == returned \o [i \in DOMAIN rankOut |-> rankOut[i].cmd]
                    \o [i \in DOMAIN rankReads |-> rankReads[i].cmd]
                    \o outgoingCmd
      reads(s, a) == SelectSeq(s, LAMBDA c : c.type = "READ" /\ c.address = a)
      senders(s) == [i \in DOMAIN s |-> s[i].sender]
  IN \A a \in {t.address : t \in Range(pendingReads)} :
       senders(reads(pendingReads, a)) =
         senders(reads(travelling \o queues[addressMapping(a).bank], a))

(* No access overtakes another one to its row, also not when a refresh     *)
(* lets only some of them go first.                                        *)
NoOvertaking ==
  [][\A c \in Range(outgoingCmd') :
       outgoingCmd = <<>> /\ c.type \in Accesses =>
         c = Head(SelectSeq(queues[c.bank], LAMBDA d : d.type # "ACTIVATE" /\ d.row = c.row))
    ]_<<phase, outgoingCmd, queues>>

(* Whoever asks is answered, whatever rows the others keep open and        *)
(* however often the memory is refreshed.                                  *)
Served == \A s \in Senders : s \in waiting ~> s \notin waiting

(* A refresh is not put off forever. *)
RefreshComes == refreshWaiting ~> ~refreshWaiting
=============================================================================
