---------------------------- MODULE GemDroidSoC ----------------------------
(***************************************************************************)
(* Cores, IPs, System Agent and memory together.  Cores and IPs are        *)
(* reduced to what the System Agent sees of them: they issue memory        *)
(* requests, cores call IPs, an IP accepts a call when it is not busy and  *)
(* reports when it is done.                                                *)
(*                                                                         *)
(* GemDroid::tick runs the components one after the other, each at its own *)
(* frequency; gemdroid_sa.tick() and gemdroid_memory.tick() run back to    *)
(* back.  `stage` and `turn` walk through that block, one call of the loop *)
(* bodies of process() and update() at a time; cores and IPs act only      *)
(* while the block is not running (stage = "idle").                        *)
(***************************************************************************)
EXTENDS GemDroidMemory

CONSTANTS
  Traffic,           \* the kinds of memory requests the cores and IPs issue
  Options,           \* the combinations of options a run may be started with
  app,               \* app[c]: the application core c runs
  core0,             \* the first core: the GPU works for it
  Ops,               \* the trace lines with IP calls the traces contain
  GpuEnabled,        \* a GPU trace is attached
  MIN_SERVICE        \* an IP needs at least this many System Agent ticks for
                     \* a call: it moves every line of a frame through SA

ASSUME TrafficAssumption ==
  /\ Traffic \subseteq MemMsg
  /\ Options \subseteq [perfectMemory : BOOLEAN, coreWindow : Nat]

ASSUME AppAssumption ==
  /\ app \in [Cores -> Apps] /\ core0 \in Cores
  /\ Ops \subseteq TraceOps
  /\ GpuEnabled \in BOOLEAN
  /\ MIN_SERVICE \in Nat

VARIABLES
  coreWindow,        \* option: requests a core has outstanding at most
                     \* (an in-order core: 1)
  stage, turn,       \* where gemdroid_sa.tick(); gemdroid_memory.tick() is
  outstanding,       \* history: requests accepted from r and not answered
  m_readFBLine,      \* per core: a frame was shown since the last CAM line
  serving,           \* per IP instance: the calls it is busy with (0 or 1)
  age                \* per IP instance: SA ticks it has been busy, capped

callVars == <<m_readFBLine, serving, age>>
options == <<perfectMemory, coreWindow>>
vars == <<saVars, dram, stage, turn, outstanding, callVars, options>>

(* Instance 1 of the display controller serves the GPU. *)
Instances == (IPTypes \X {0}) \cup {<<IP_TYPE_DC, 1>>}

InstanceOf(t, call) ==
  IF t = IP_TYPE_DC /\ call.sender = IP_TYPE_GPU THEN <<t, 1>> ELSE <<t, 0>>

Init ==
  /\ SAInit
  /\ MemInit
  /\ stage = "idle" /\ turn = 0
  /\ outstanding = [r \in Requesters |-> 0]
  /\ m_readFBLine = [c \in Cores |-> FALSE]
  /\ serving = [i \in Instances |-> << >>]
  /\ age = [i \in Instances |-> 0]
  /\ \E o \in Options : perfectMemory = o.perfectMemory /\ coreWindow = o.coreWindow

-----------------------------------------------------------------------------
(* Cores and IPs *)

CoreMemRequest(m) ==
  /\ stage = "idle" /\ m.src \in Cores
  /\ outstanding[m.src] < coreWindow
  /\ enqueueCoreMemRequest(m)
  /\ outstanding' = [outstanding EXCEPT ![m.src] = @ + 1]
  /\ UNCHANGED <<dram, stage, turn, callVars>>

IPMemRequest(m) ==
  /\ stage = "idle" /\ m.src \in IPs
  /\ enqueueIPMemRequest(m)
  /\ outstanding' = [outstanding EXCEPT ![m.src] = @ + 1]
  /\ UNCHANGED <<dram, stage, turn, callVars>>

(* processIPCall: a CAM line counts only after a frame line.               *)
processIPCall(c, op, shouldFrameDrop) ==
  LET call == CallOf(op, app[c], shouldFrameDrop) IN
  /\ stage = "idle"
  /\ op = "CAM" => m_readFBLine[c]
  /\ m_readFBLine' = [m_readFBLine EXCEPT ![c] =
                        IF op \in {"FB-UP", "CAM"} THEN op = "FB-UP" ELSE @]
  /\ IF call.ip = NoIP \/ isIPReqLimitReached(call.ip)
       THEN UNCHANGED saVars
       ELSE enqueueCoreIPRequest(call.ip, [sender |-> IP_TYPE_CPU, core |-> c,
                                           flowType |-> call.flowType])
  /\ UNCHANGED <<dram, stage, turn, outstanding, serving, age>>

(* An IP is done with its call and becomes free. *)
IPDone(i) ==
  /\ stage = "idle"
  /\ serving[i] # << >> /\ age[i] >= MIN_SERVICE
  /\ LET call == serving[i][1]
     IN  enqueueIPResponse(i[1], call.core, app[call.core], call.flowType)
  /\ serving' = [serving EXCEPT ![i] = << >>]
  /\ age' = [age EXCEPT ![i] = 0]
  /\ UNCHANGED <<dram, stage, turn, outstanding, m_readFBLine>>

(* The GPU has rendered a frame: it is not called, its own trace drives it.*)
(* It reports to core 0.                                                   *)
GPUFrame ==
  /\ stage = "idle" /\ GpuEnabled
  /\ enqueueIPResponse(IP_TYPE_GPU, core0, app[core0], IP_TYPE_DC)
  /\ UNCHANGED <<dram, stage, turn, outstanding, callVars>>

-----------------------------------------------------------------------------
(* gemdroid_sa.tick() *)

(* The loops run once per channel, then control moves on. *)
LoopIn(s, next) ==
  IF turn + 1 < NUM_CHANS THEN stage' = s /\ turn' = turn + 1
                            ELSE stage' = next /\ turn' = 0

SATick ==
  /\ stage = "idle"
  /\ stage' = "requests"
  /\ age' = [i \in Instances |-> IF serving[i] # << >> /\ age[i] < MIN_SERVICE
                                   THEN age[i] + 1 ELSE age[i]]
  /\ UNCHANGED <<saVars, dram, turn, outstanding, m_readFBLine, serving>>

sendMemoryRequests ==
  /\ stage = "requests"
  /\ \/ /\ HasRequest
        /\ enqueueMemReq(Offered)
        /\ PopOffered
        /\ UNCHANGED <<ipReq, saCyclesToSkip>>
     \/ /\ ~HasRequest \/ ~(perfectMemory \/ canAccept)
        /\ UNCHANGED <<saVars, dram>>
  /\ LoopIn("requests", "calls")
  /\ UNCHANGED <<outstanding, callVars>>

(* sendIPRequests, then the test of m_cyclesToSkip.  GemDroid::enqueueIPReq*)
(* hands the call to its instance, which accepts it when it is not busy.   *)
Accepting == {t \in IPTypes : /\ ipReq[t] # << >>
                              /\ serving[InstanceOf(t, Head(ipReq[t]))] = << >>}

SendCalls ==
  LET taken == FirstOf(Accepting)
      by(i) == {t \in taken : InstanceOf(t, Head(ipReq[t])) = i}
  IN
  /\ stage = "calls"
  /\ sendIPRequests(taken)
  /\ serving' = [i \in Instances |-> IF by(i) = {} THEN serving[i]
                                     ELSE <<Head(ipReq[i[1]])>>]
  /\ IF saCyclesToSkip > 0
       THEN saCyclesToSkip' = saCyclesToSkip - 1 /\ stage' = "writes"
       ELSE UNCHANGED saCyclesToSkip /\ stage' = "responses"
  /\ UNCHANGED <<coreMemReq, ipMemReq, memCoreResp, memIpResp, dram, turn,
                 outstanding, m_readFBLine, age>>

SendResponse ==
  /\ stage = "responses"
  /\ IF HasResponse
       THEN /\ sendMemoryResponses
            /\ outstanding' = [outstanding EXCEPT ![Response.src] = @ - 1]
       ELSE UNCHANGED <<saVars, outstanding>>
  /\ LoopIn("responses", "writes")
  /\ UNCHANGED <<dram, callVars>>

-----------------------------------------------------------------------------
(* gemdroid_memory.tick(): every channel updates in turn.  A write is done,*)
(* a waiting transaction is scheduled and a read returns, each if the      *)
(* timing of the banks lets it.                                            *)

WriteComplete ==
  /\ stage = "writes"
  /\ \/ \E i \in WriteDataDone(turn + 1) : complete(i)
     \/ UNCHANGED <<dram, memCoreResp, memIpResp>>
  /\ stage' = "schedule"
  /\ UNCHANGED <<coreMemReq, ipMemReq, ipReq, saCyclesToSkip, turn, outstanding,
                 callVars>>

Schedule ==
  /\ stage = "schedule"
  /\ \/ \E i \in Schedulable(turn + 1) : schedule(i)
     \/ UNCHANGED dram
  /\ stage' = "reads"
  /\ UNCHANGED <<saVars, turn, outstanding, callVars>>

ReadComplete ==
  /\ stage = "reads"
  /\ \/ \E i \in ReturnReadData(turn + 1) : complete(i)
     \/ UNCHANGED <<dram, memCoreResp, memIpResp>>
  /\ LoopIn("writes", "idle")
  /\ UNCHANGED <<coreMemReq, ipMemReq, ipReq, saCyclesToSkip, outstanding, callVars>>

-----------------------------------------------------------------------------
Environment ==
  /\ UNCHANGED options
  /\ \/ \E m \in Traffic : CoreMemRequest(m) \/ IPMemRequest(m)
     \/ \E c \in Cores, op \in Ops, drop \in BOOLEAN : processIPCall(c, op, drop)
     \/ \E i \in Instances : IPDone(i)
     \/ GPUFrame

MemoryClock ==
  /\ UNCHANGED options
  /\ \/ SATick \/ sendMemoryRequests \/ SendCalls \/ SendResponse
     \/ WriteComplete \/ Schedule \/ ReadComplete

Next == Environment \/ MemoryClock

Spec == Init /\ [][Next]_vars

(***************************************************************************)
(* Fairness.  The tick event reschedules itself, so the memory clock never *)
(* stops.  The controller serves every requester: a transaction that can   *)
(* be scheduled again and again is, and so is one that can complete.  An   *)
(* IP that was called finishes its frame.                                  *)
(***************************************************************************)
Serves(r, i) == dram[i].msg.src = r

MemoryFairness ==
  /\ WF_vars(MemoryClock)
  /\ \A r \in Requesters :
       /\ SF_vars(Schedule /\ UNCHANGED options
                  /\ \E i \in DOMAIN dram : Serves(r, i) /\ schedule(i))
       /\ SF_vars((WriteComplete \/ ReadComplete) /\ UNCHANGED options
                  /\ \E i \in DOMAIN dram : Serves(r, i) /\ complete(i))

CallFairness ==
  /\ WF_vars(MemoryClock)
  /\ \A i \in Instances : []<>(serving[i] = << >>)

-----------------------------------------------------------------------------
Stages == {"idle", "requests", "calls", "responses", "writes", "reads", "schedule"}

(* Every variable but the options, which no step changes, has its type;    *)
(* the loops of process() and of the channel updates stay within the       *)
(* channels.                                                               *)
TypeOK ==
  /\ SATypeOK
  /\ dram \in Seq(Transaction)
  /\ stage \in Stages /\ turn \in 0 .. NUM_CHANS - 1
  /\ outstanding \in [Requesters -> Int]
  /\ m_readFBLine \in [Cores -> BOOLEAN]
  /\ serving \in [Instances -> Seq(IPCall)]
  /\ age \in [Instances -> 0 .. MIN_SERVICE]

CountFrom(q, r) == Cardinality({n \in DOMAIN q : q[n].src = r})

(* Every request the System Agent has accepted from a core or an IP is in  *)
(* exactly one place on its way to the memory and back: none is lost, none *)
(* is answered twice, and the answer goes to the one who asked.            *)
Conservation ==
  \A r \in Requesters :
    outstanding[r] =
      CountFrom(coreMemReq, r) + CountFrom(ipMemReq, r)
        + Cardinality({n \in DOMAIN dram : dram[n].msg.src = r})
        + CountFrom(memCoreResp, r) + CountFrom(memIpResp, r)

(* The queues of the System Agent hold what they are for: requests and     *)
(* responses of cores are never mixed with those of IPs, whatever order    *)
(* the memory answers in.                                                  *)
Separation ==
  /\ \A n \in DOMAIN coreMemReq  : coreMemReq[n].src \in Cores
  /\ \A n \in DOMAIN memCoreResp : memCoreResp[n].src \in Cores
  /\ \A n \in DOMAIN ipMemReq    : ipMemReq[n].src \in IPs
  /\ \A n \in DOMAIN memIpResp   : memIpResp[n].src \in IPs

(* What the two admission tests really bound.  Both compare with ">", so a *)
(* queue exceeds its limit by one; the core test looks at both queues, the *)
(* IP test only at its own, so together they hold up to                    *)
(* MAX_MEM_REQS + MAX_IP_MEM_REQS + 2 requests.                            *)
RequestBound ==
  /\ Len(ipMemReq) <= MAX_IP_MEM_REQS + 1
  /\ Len(coreMemReq) <= MAX_MEM_REQS + 1
  /\ Len(coreMemReq) + Len(ipMemReq) <= MAX_MEM_REQS + MAX_IP_MEM_REQS + 2

(* The response queues are tested when a request is admitted, not when a   *)
(* response arrives.  They still cannot grow without bound: all requests   *)
(* in the system, wherever they are, fit in the limits of the places they  *)
(* had to pass.                                                            *)
InFlightLimit ==
  MAX_MEM_RESPS + MAX_MEM_REQS + MAX_IP_MEM_REQS + 2
    + NUM_CHANS * (TRANS_QUEUE_DEPTH + ISSUED_DEPTH)

InFlightBound ==
  Len(coreMemReq) + Len(ipMemReq) + Len(dram) + Len(memCoreResp) + Len(memIpResp)
    <= InFlightLimit

(* assert(ipReq[iptype].size() < MAX_IP_OUTSTANDING_REQS) of the core path *)
(* and the silent limit of the IP-to-IP path keep every call queue within  *)
(* its limit, also when one camera frame calls several IPs.                *)
CallQueueBound == \A t \in IPTypes : Len(ipReq[t]) <= MAX_IP_OUTSTANDING_REQS

(* The memory path is a memory port to everyone who uses it: a response    *)
(* goes only to a requester that waits for one.                            *)
Port == INSTANCE MemPort WITH pending <- outstanding

ImplementsMemPort == Port!Spec

(* The core queues have strict priority, for requests and for responses.   *)
(* In-order cores leave gaps: a requester that waits is answered again and *)
(* again, as long as there are fewer cores than channels and the memory    *)
(* serves everyone.                                                        *)
Answered == coreWindow = 1 /\ MemoryFairness => Port!Fairness

(* One call per System Agent tick, the lowest IP type first, and one queue *)
(* for both display controllers: still every IP that is called, by a trace *)
(* or in a flow, gets a call again and again, because an IP is busy for    *)
(* longer than the types before it need to be served.                      *)
CalledTypes ==
  {t \in IPTypes : \E c \in Cores :
     \/ \E flow \in Range(flowTable[app[c]]) : t \in Range(flow)
     \/ \E op \in Ops, drop \in BOOLEAN : CallOf(op, app[c], drop).ip = t}

CallsServed ==
  \A t \in CalledTypes :
    \/ []<>(ipReq[t] = << >>)
    \/ []<><<Len(ipReq'[t]) < Len(ipReq[t])>>_ipReq

(* "Dropper! ... unable to inject": a frame goes on to every IP that comes *)
(* next in a flow of the application, unless the queue of calls to it is   *)
(* full.                                                                   *)
CalledOrFull(sender, core) ==
  \A flow \in Range(flowTable[app[core]]) : \A j \in 1 .. Len(flow) - 1 :
    flow[j] = sender =>
      LET t == flow[j + 1]
      IN  \/ ipReq[t] = ipReq'[t] /\ Len(ipReq[t]) = MAX_IP_OUTSTANDING_REQS
          \/ /\ Len(ipReq'[t]) = Len(ipReq[t]) + 1
             /\ ipReq'[t][Len(ipReq'[t])].sender = sender

DroppedOnlyIfFull ==
  [][/\ GPUFrame => CalledOrFull(IP_TYPE_GPU, core0)
     /\ \A i \in Instances :
          serving[i] # << >> /\ serving'[i] = << >> =>
            CalledOrFull(i[1], serving[i][1].core)]_vars

(* "Find if another IP is to be called in the pipeline/flow": an IP calls  *)
(* only what follows it in a flow of the application it worked for.        *)
FlowsFollowed ==
  \A t \in IPTypes : \A n \in DOMAIN ipReq[t] :
    LET call == ipReq[t][n]
    IN  \/ call.sender = IP_TYPE_CPU
        \/ \E flow \in Range(flowTable[app[call.core]]) :
             \E j \in 1 .. Len(flow) - 1 : flow[j] = call.sender /\ flow[j + 1] = t
=============================================================================
