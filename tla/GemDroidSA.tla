----------------------------- MODULE GemDroidSA -----------------------------
(***************************************************************************)
(* The System Agent (gemdroid_sa.cc): the queues between the cores and the *)
(* IPs on one side and the memory on the other, and the queues of IP calls.*)
(* Each operator is one member function; GemDroidSoC runs them in the      *)
(* order of process() and joins them with the memory and the requesters.   *)
(***************************************************************************)
EXTENDS GemDroidFlows

CONSTANTS
  Cores,                    \* the core ids
  IPs,                      \* the IP instances that issue memory requests
  NUM_CHANS,                \* getNumChannels(): the channels of the memory
  MAX_MEM_REQS,
  MAX_IP_MEM_REQS,          \* floor of MAX_MEM_REQS * 0.9: sizes are integers
  MAX_MEM_RESPS,
  MAX_IP_OUTSTANDING_REQS,
  MEM_RESP_TRANSMIT_CYCLES

ASSUME LimitsAssumption ==
  /\ NUM_CHANS \in Nat \ {0}
  /\ MAX_MEM_REQS \in Nat
  /\ MAX_IP_MEM_REQS \in Nat
  /\ MAX_MEM_RESPS \in Nat
  /\ MAX_IP_OUTSTANDING_REQS \in Nat
  /\ MEM_RESP_TRANSMIT_CYCLES \in Nat \ {0}

ASSUME RequestersAssumption == Cores \cap IPs = {}

Requesters == Cores \cup IPs
Channels == 1 .. NUM_CHANS

(* GemDroidMemMsg: who asks, a read or a write, and the channel of the     *)
(* address.                                                                *)
MemMsg == [src : Requesters, isRead : BOOLEAN, chan : Channels]

(* GemDroidIPRequest: who calls, for which core, in which type of flow.    *)
IPCall == [sender : 0 .. IP_TYPE_GPU, core : Cores, flowType : 0 .. IP_TYPE_END]

VARIABLES
  coreMemReq, ipMemReq,     \* requests for the memory, from cores and IPs
  memCoreResp, memIpResp,   \* responses of the memory, to cores and IPs
  ipReq,                    \* ipReq[t]: calls waiting for an IP of type t
  saCyclesToSkip,           \* m_cyclesToSkip of the System Agent
  perfectMemory             \* the option of that name, fixed for a run

saVars == <<coreMemReq, ipMemReq, memCoreResp, memIpResp, ipReq, saCyclesToSkip>>

(* The constructor; m_cyclesToSkip is not set there and reads as the zero  *)
(* of the fresh pages the simulator object is allocated in.                *)
SAInit ==
  /\ coreMemReq = << >> /\ ipMemReq = << >>
  /\ memCoreResp = << >> /\ memIpResp = << >>
  /\ ipReq = [t \in IPTypes |-> << >>]
  /\ saCyclesToSkip = 0

SATypeOK ==
  /\ coreMemReq \in Seq(MemMsg) /\ ipMemReq \in Seq(MemMsg)
  /\ memCoreResp \in Seq(MemMsg) /\ memIpResp \in Seq(MemMsg)
  /\ ipReq \in [IPTypes -> Seq(IPCall)]
  /\ saCyclesToSkip \in 0 .. MEM_RESP_TRANSMIT_CYCLES

-----------------------------------------------------------------------------
(* Requests for the memory *)

(* Mutant of RespsBelowLimit: the response queues are not looked at. *)
MutNoRespLimit == TRUE

RespsBelowLimit == Len(memCoreResp) + Len(memIpResp) <= MAX_MEM_RESPS

(* A request that is not taken leaves the queues alone (numRejected only). *)
enqueueCoreMemRequest(m) ==
  /\ Len(coreMemReq) + Len(ipMemReq) <= MAX_MEM_REQS
  /\ RespsBelowLimit
  /\ coreMemReq' = Append(coreMemReq, m)
  /\ UNCHANGED <<ipMemReq, memCoreResp, memIpResp, ipReq, saCyclesToSkip>>

(* Mutant of enqueueIPMemRequest: the limit is off by one more. *)
MutIPLimit(m) ==
  /\ Len(ipMemReq) <= MAX_IP_MEM_REQS + 1
  /\ RespsBelowLimit
  /\ ipMemReq' = Append(ipMemReq, m)
  /\ UNCHANGED <<coreMemReq, memCoreResp, memIpResp, ipReq, saCyclesToSkip>>

enqueueIPMemRequest(m) ==
  /\ Len(ipMemReq) <= MAX_IP_MEM_REQS
  /\ RespsBelowLimit
  /\ ipMemReq' = Append(ipMemReq, m)
  /\ UNCHANGED <<coreMemReq, memCoreResp, memIpResp, ipReq, saCyclesToSkip>>

(* The request sendMemoryRequests offers to the memory: the head of the    *)
(* core queue, and the head of the IP queue only when no core waits.       *)
HasRequest == coreMemReq # << >> \/ ipMemReq # << >>
Offered    == IF coreMemReq # << >> THEN Head(coreMemReq) ELSE Head(ipMemReq)

(* Mutant of PopOffered: pops the other queue first. *)
MutPopIP ==
  IF ipMemReq # << >>
    THEN ipMemReq' = Tail(ipMemReq) /\ UNCHANGED coreMemReq
    ELSE coreMemReq' = Tail(coreMemReq) /\ UNCHANGED ipMemReq

PopOffered ==
  IF coreMemReq # << >>
    THEN coreMemReq' = Tail(coreMemReq) /\ UNCHANGED ipMemReq
    ELSE ipMemReq' = Tail(ipMemReq) /\ UNCHANGED coreMemReq

-----------------------------------------------------------------------------
(* Responses of the memory *)

(* Mutant of memResponse: the sender type is not looked at. *)
MutOneQueue(m) == memIpResp' = Append(memIpResp, m) /\ UNCHANGED memCoreResp

memResponse(m) ==
  IF m.src \in Cores
    THEN memCoreResp' = Append(memCoreResp, m) /\ UNCHANGED memIpResp
    ELSE memIpResp' = Append(memIpResp, m) /\ UNCHANGED memCoreResp

(* Mutant of HasResponse: returns before the IP queue is looked at. *)
MutCoresOnly == memCoreResp # << >>

(* The response sendMemoryResponses hands over: cores before IPs. *)
HasResponse == memCoreResp # << >> \/ memIpResp # << >>
Response    == IF memCoreResp # << >> THEN Head(memCoreResp) ELSE Head(memIpResp)

sendMemoryResponses ==
  /\ IF memCoreResp # << >>
       THEN memCoreResp' = Tail(memCoreResp) /\ UNCHANGED memIpResp
       ELSE memIpResp' = Tail(memIpResp) /\ UNCHANGED memCoreResp
  /\ saCyclesToSkip' = CASE perfectMemory   -> 0
                         [] Response.isRead -> MEM_RESP_TRANSMIT_CYCLES
                         [] OTHER           -> 1
  /\ UNCHANGED <<coreMemReq, ipMemReq, ipReq>>

-----------------------------------------------------------------------------
(* IP calls *)

isIPReqLimitReached(t) == Len(ipReq[t]) >= MAX_IP_OUTSTANDING_REQS

(* Without a test of its own: it asserts that the caller has made it, and  *)
(* CallQueueBound is that assertion.                                       *)
enqueueCoreIPRequest(t, call) ==
  /\ ipReq' = [ipReq EXCEPT ![t] = Append(@, call)]
  /\ UNCHANGED <<coreMemReq, ipMemReq, memCoreResp, memIpResp, saCyclesToSkip>>

(* Mutant of enqueueIPIPRequest: no limit. *)
MutNoCallLimit(queues, t, call) == [queues EXCEPT ![t] = Append(@, call)]

(* Mutant of enqueueIPIPRequest: the last place of the queue is not used. *)
MutDropEarly(queues, t, call) ==
  IF Len(queues[t]) >= MAX_IP_OUTSTANDING_REQS - 1 THEN queues
  ELSE [queues EXCEPT ![t] = Append(@, call)]

(* enqueueIPIPRequest on a given state of the queues: a full queue drops   *)
(* the call.                                                               *)
enqueueIPIPRequest(queues, t, call) ==
  IF Len(queues[t]) >= MAX_IP_OUTSTANDING_REQS THEN queues
  ELSE [queues EXCEPT ![t] = Append(@, call)]

(* enqueueIPResponse: the sender's successors are called one by one (at    *)
(* most three, from a camera).                                             *)
enqueueIPResponse(sender, core, app, flow_type) ==
  LET calls == ChainedCalls(sender, app, flow_type)
      call  == [sender |-> sender, core |-> core, flowType |-> flow_type]
      step(queues, n) == IF n > Len(calls) THEN queues
                         ELSE enqueueIPIPRequest(queues, calls[n], call)
  IN  /\ ipReq' = step(step(step(ipReq, 1), 2), 3)
      /\ UNCHANGED <<coreMemReq, ipMemReq, memCoreResp, memIpResp, saCyclesToSkip>>

(* Mutant of FirstOf: gives up when the first waiting call is not accepted.*)
MutFirstOnly(accepting) ==
  accepting \cap {t \in IPTypes : /\ ipReq[t] # << >>
                                  /\ \A u \in 1 .. t - 1 : ipReq[u] = << >>}

(* sendIPRequests: the types are tried in order, the first whose head call *)
(* is accepted hands it over, and the loop ends.                           *)
FirstOf(accepting) == {t \in accepting : \A u \in accepting : t <= u}

sendIPRequests(taken) ==
  ipReq' = [t \in IPTypes |-> IF t \in taken THEN Tail(ipReq[t]) ELSE ipReq[t]]
=============================================================================
