--------------------------- MODULE GemDroidMemory ---------------------------
(***************************************************************************)
(* The memory (gemdroid_mem.cc) and the DRAMSim2 controller behind it.     *)
(* `dram` holds the transactions that were accepted and have not been      *)
(* answered, of all channels, oldest first.  A transaction waits in the    *)
(* transaction queue of its channel until it is broken into commands; from *)
(* then on it is issued, and completes at any later update.  Bank timing,  *)
(* refresh and row policy decide when: here that choice is free.           *)
(***************************************************************************)
EXTENDS GemDroidSA, FiniteSets

CONSTANTS
  TRANS_QUEUE_DEPTH,    \* transactions waiting per channel
  ISSUED_DEPTH          \* bound: transactions issued per channel, held by the
                        \* command queues and the banks

ASSUME DepthAssumption ==
  /\ TRANS_QUEUE_DEPTH \in Nat \ {0}
  /\ ISSUED_DEPTH \in Nat \ {0}

VARIABLE dram

Transaction == [msg : MemMsg, issued : BOOLEAN]

MemInit == dram = << >>

(* transactionQueue of channel c, and what the channel is working on *)
Waiting(c) == {i \in DOMAIN dram : dram[i].msg.chan = c /\ ~dram[i].issued}
Issued(c)  == {i \in DOMAIN dram : dram[i].msg.chan = c /\ dram[i].issued}

(* canAccept: the wrapper asks without an address, so every channel must   *)
(* have room.                                                              *)
canAccept == \A c \in Channels : Cardinality(Waiting(c)) < TRANS_QUEUE_DEPTH

(* enqueueMemReq, when it returns true: a perfect memory answers at once.  *)
enqueueMemReq(m) ==
  IF perfectMemory
    THEN memResponse(m) /\ UNCHANGED dram
    ELSE /\ canAccept
         /\ dram' = Append(dram, [msg |-> m, issued |-> FALSE])
         /\ UNCHANGED <<memCoreResp, memIpResp>>

(* Mutant of complete: the transaction stays in the controller. *)
MutAnswerTwice(i) == UNCHANGED dram /\ memResponse(dram[i].msg)

(* MemoryController::update of channel c, the parts that move transactions.*)
(* writeComplete, readComplete: transaction i leaves for SA.               *)
complete(i) ==
  /\ dram' = SubSeq(dram, 1, i - 1) \o SubSeq(dram, i + 1, Len(dram))
  /\ memResponse(dram[i].msg)

WriteDataDone(c)  == {i \in Issued(c) : ~dram[i].msg.isRead}
ReturnReadData(c) == {i \in Issued(c) : dram[i].msg.isRead}

(* One waiting transaction per update is broken into commands, if its bank *)
(* has room for them.                                                      *)
Schedulable(c) == IF Cardinality(Issued(c)) < ISSUED_DEPTH THEN Waiting(c) ELSE {}

schedule(i) == dram' = [dram EXCEPT ![i].issued = TRUE]
=============================================================================
