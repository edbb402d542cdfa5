------------------------- MODULE GemDroidSoCProofs -------------------------
(***************************************************************************)
(* Proofs about GemDroidSoC for every number of cores, IPs and channels    *)
(* and every limit: types, queue bounds and separation.                    *)
(***************************************************************************)
EXTENDS GemDroidSoC, SequenceTheorems, TLAPS

(* Sequences: what one end of a queue does to the other elements. *)
LEMMA AppendType ==
  ASSUME NEW S, NEW q \in Seq(S), NEW e \in S
  PROVE  /\ Append(q, e) \in Seq(S)
         /\ Len(Append(q, e)) = Len(q) + 1
         /\ \A n \in DOMAIN Append(q, e) :
              Append(q, e)[n] = IF n <= Len(q) THEN q[n] ELSE e
BY AppendProperties

LEMMA TailType ==
  ASSUME NEW S, NEW q \in Seq(S), q # << >>
  PROVE  /\ Tail(q) \in Seq(S)
         /\ Len(Tail(q)) = Len(q) - 1
         /\ \A n \in DOMAIN Tail(q) : n + 1 \in DOMAIN q /\ Tail(q)[n] = q[n + 1]
         /\ Head(q) \in S /\ Head(q) = q[1] /\ 1 \in DOMAIN q
BY HeadTailProperties, EmptySeq

LEMMA RemoveType ==
  ASSUME NEW S, NEW q \in Seq(S), NEW i \in DOMAIN q
  PROVE  SubSeq(q, 1, i - 1) \o SubSeq(q, i + 1, Len(q)) \in Seq(S)
<1>1. i \in 1 .. Len(q)
  BY LenProperties
<1>2. SubSeq(q, 1, i - 1) \in Seq(S) /\ SubSeq(q, i + 1, Len(q)) \in Seq(S)
  BY <1>1, SubSeqProperties
<1> QED
  BY <1>2, ConcatProperties

-----------------------------------------------------------------------------
(* What the operators of the System Agent return *)

LEMMA CallOfType ==
  ASSUME NEW op \in TraceOps, NEW a, NEW drop
  PROVE  CallOf(op, a, drop).flowType \in 0 .. IP_TYPE_END
BY DEF TraceOps, CallOf, IP_TYPE_END, IP_TYPE_DC, IP_TYPE_SND, IP_TYPE_MIC, IP_TYPE_CAM

(* Calling one IP more keeps the types and the limit of all queues. *)
LEMMA EnqueueIPIP ==
  ASSUME NEW queues \in [IPTypes -> Seq(IPCall)], NEW t, NEW call \in IPCall
  PROVE  /\ enqueueIPIPRequest(queues, t, call) \in [IPTypes -> Seq(IPCall)]
         /\ (\A u \in IPTypes : Len(queues[u]) <= MAX_IP_OUTSTANDING_REQS)
              => \A u \in IPTypes : Len(enqueueIPIPRequest(queues, t, call)[u])
                                      <= MAX_IP_OUTSTANDING_REQS
<1>1. \A u \in IPTypes : /\ Append(queues[u], call) \in Seq(IPCall)
                         /\ Len(Append(queues[u], call)) = Len(queues[u]) + 1
                         /\ Len(queues[u]) \in Nat
  BY AppendType, LenProperties
<1> DEFINE more == [queues EXCEPT ![t] = Append(@, call)]
<1>2. CASE Len(queues[t]) >= MAX_IP_OUTSTANDING_REQS
  BY <1>2 DEF enqueueIPIPRequest
<1>3. CASE ~(Len(queues[t]) >= MAX_IP_OUTSTANDING_REQS)
  <2>1. enqueueIPIPRequest(queues, t, call) = more
    BY <1>3 DEF enqueueIPIPRequest
  <2>2. \A u \in IPTypes : more[u] = IF u = t THEN Append(queues[u], call) ELSE queues[u]
    OBVIOUS
  <2>3. more \in [IPTypes -> Seq(IPCall)]
    <3>1. DOMAIN more = IPTypes /\ more = [u \in IPTypes |-> more[u]]
      OBVIOUS
    <3> QED BY <1>1, <2>2, <3>1
  <2>4. ASSUME NEW u \in IPTypes, Len(queues[u]) <= MAX_IP_OUTSTANDING_REQS
        PROVE  Len(more[u]) <= MAX_IP_OUTSTANDING_REQS
    <3> HIDE DEF more
    <3>1. CASE u = t
      <4>1. Len(more[u]) = Len(queues[u]) + 1
        BY <1>1, <2>2, <3>1
      <4>2. ~(Len(queues[u]) >= MAX_IP_OUTSTANDING_REQS)
        BY <1>3, <3>1
      <4> QED BY <1>1, <4>1, <4>2, LimitsAssumption
    <3>2. CASE u # t
      BY <2>2, <2>4, <3>2
    <3> QED BY <3>1, <3>2
  <2> HIDE DEF more
  <2> QED BY <2>1, <2>3, <2>4
<1> QED
  BY <1>2, <1>3

LEMMA EnqueueIPResponse ==
  ASSUME TypeOK, NEW sender \in 0 .. IP_TYPE_GPU, NEW c \in Cores, NEW a,
         NEW ft \in 0 .. IP_TYPE_END, enqueueIPResponse(sender, c, a, ft)
  PROVE  /\ ipReq' \in [IPTypes -> Seq(IPCall)]
         /\ CallQueueBound => CallQueueBound'
<1> DEFINE calls == ChainedCalls(sender, a, ft)
           call == [sender |-> sender, core |-> c, flowType |-> ft]
           step(queues, n) == IF n > Len(calls) THEN queues
                              ELSE enqueueIPIPRequest(queues, calls[n], call)
           Good(q) == \A u \in IPTypes : Len(q[u]) <= MAX_IP_OUTSTANDING_REQS
           q1 == step(ipReq, 1)
           q2 == step(q1, 2)
           q3 == step(q2, 3)
<1>1. call \in IPCall
  BY DEF IPCall
<1>2. ipReq \in [IPTypes -> Seq(IPCall)]
  BY DEF TypeOK, SATypeOK
<1>3. q1 \in [IPTypes -> Seq(IPCall)] /\ (Good(ipReq) => Good(q1))
  BY <1>1, <1>2, EnqueueIPIP
<1>4. q2 \in [IPTypes -> Seq(IPCall)] /\ (Good(q1) => Good(q2))
  <2> HIDE DEF q1
  <2> QED BY <1>1, <1>3, EnqueueIPIP
<1>5. q3 \in [IPTypes -> Seq(IPCall)] /\ (Good(q2) => Good(q3))
  <2> HIDE DEF q2
  <2> QED BY <1>1, <1>4, EnqueueIPIP
<1>6. ipReq' = q3
  BY DEF enqueueIPResponse
<1> HIDE DEF q1, q2, q3
<1> QED
  BY <1>3, <1>4, <1>5, <1>6 DEF CallQueueBound

-----------------------------------------------------------------------------
(* Types *)

USE DEF Channels

LEMMA InitTypeOK == Init => TypeOK
<1> SUFFICES ASSUME Init PROVE TypeOK
  OBVIOUS
<1>1. SATypeOK
  BY EmptySeq, LimitsAssumption DEF Init, SAInit, SATypeOK
<1> QED
  BY <1>1, EmptySeq, LimitsAssumption, AppAssumption
  DEF Init, MemInit, TypeOK, Stages

(* The two queues of responses, after one more response. *)
LEMMA MemResponseType ==
  ASSUME TypeOK, NEW m \in MemMsg, memResponse(m)
  PROVE  memCoreResp' \in Seq(MemMsg) /\ memIpResp' \in Seq(MemMsg)
<1>1. memCoreResp \in Seq(MemMsg) /\ memIpResp \in Seq(MemMsg)
  BY DEF TypeOK, SATypeOK
<1>2. Append(memCoreResp, m) \in Seq(MemMsg) /\ Append(memIpResp, m) \in Seq(MemMsg)
  BY <1>1, AppendType
<1> QED
  BY <1>1, <1>2 DEF memResponse

LEMMA LoopInType ==
  ASSUME TypeOK, NEW s \in Stages, NEW next \in Stages, LoopIn(s, next)
  PROVE  stage' \in Stages /\ turn' \in 0 .. NUM_CHANS - 1
BY LimitsAssumption DEF TypeOK, LoopIn

LEMMA CompleteType ==
  ASSUME TypeOK, NEW i \in DOMAIN dram, complete(i)
  PROVE  /\ dram' \in Seq(Transaction)
         /\ memCoreResp' \in Seq(MemMsg) /\ memIpResp' \in Seq(MemMsg)
<1>1. dram[i] \in Transaction
  BY ElementOfSeq, LenProperties DEF TypeOK
<1>2. dram' \in Seq(Transaction)
  BY RemoveType DEF TypeOK, complete
<1> QED
  BY <1>1, <1>2, MemResponseType DEF complete, Transaction

LEMMA NextTypeOK == TypeOK /\ [Next]_vars => TypeOK'
<1> SUFFICES ASSUME TypeOK, [Next]_vars PROVE TypeOK'
  OBVIOUS
<1>1. ASSUME NEW m \in Traffic, CoreMemRequest(m) PROVE TypeOK'
  <2>1. m \in MemMsg
    BY TrafficAssumption
  <2>2. coreMemReq' \in Seq(MemMsg)
    BY <1>1, <2>1, AppendType DEF CoreMemRequest, enqueueCoreMemRequest, TypeOK, SATypeOK
  <2>3. outstanding' \in [Requesters -> Int]
    <3>1. m.src \in Requesters
      BY <2>1 DEF MemMsg
    <3> QED BY <1>1, <3>1 DEF CoreMemRequest, TypeOK
  <2> QED
    BY <1>1, <2>2, <2>3 DEF CoreMemRequest, enqueueCoreMemRequest, TypeOK, SATypeOK, callVars
<1>2. ASSUME NEW m \in Traffic, IPMemRequest(m) PROVE TypeOK'
  <2>1. m \in MemMsg
    BY TrafficAssumption
  <2>2. ipMemReq' \in Seq(MemMsg)
    BY <1>2, <2>1, AppendType DEF IPMemRequest, enqueueIPMemRequest, TypeOK, SATypeOK
  <2>3. outstanding' \in [Requesters -> Int]
    <3>1. m.src \in Requesters
      BY <2>1 DEF MemMsg
    <3> QED BY <1>2, <3>1 DEF IPMemRequest, TypeOK
  <2> QED
    BY <1>2, <2>2, <2>3 DEF IPMemRequest, enqueueIPMemRequest, TypeOK, SATypeOK, callVars
<1>3. ASSUME NEW c \in Cores, NEW op \in Ops, NEW drop \in BOOLEAN, processIPCall(c, op, drop)
      PROVE  TypeOK'
  <2> DEFINE call == CallOf(op, app[c], drop)
             msg == [sender |-> IP_TYPE_CPU, core |-> c, flowType |-> call.flowType]
  <2>1. call.flowType \in 0 .. IP_TYPE_END
    BY CallOfType, AppAssumption
  <2> HIDE DEF call
  <2>2. msg \in IPCall
    BY <2>1 DEF IPCall, IP_TYPE_CPU, IP_TYPE_GPU
  <2> HIDE DEF msg
  <2>3. ipReq' \in [IPTypes -> Seq(IPCall)]
    <3>1. CASE UNCHANGED saVars
      BY <3>1 DEF saVars, TypeOK, SATypeOK
    <3>2. CASE enqueueCoreIPRequest(call.ip, msg)
      <4>1. \A u \in IPTypes : Append(ipReq[u], msg) \in Seq(IPCall)
        BY <2>2, AppendType DEF TypeOK, SATypeOK
      <4> QED BY <3>2, <4>1 DEF enqueueCoreIPRequest, TypeOK, SATypeOK
    <3> QED BY <1>3, <3>1, <3>2 DEF processIPCall, call, msg
  <2>4. UNCHANGED <<coreMemReq, ipMemReq, memCoreResp, memIpResp, saCyclesToSkip>>
    BY <1>3 DEF processIPCall, enqueueCoreIPRequest, saVars
  <2>5. m_readFBLine' \in [Cores -> BOOLEAN]
    BY <1>3 DEF processIPCall, TypeOK
  <2> QED
    BY <1>3, <2>3, <2>4, <2>5 DEF processIPCall, TypeOK, SATypeOK
<1>4. ASSUME NEW i \in Instances, IPDone(i) PROVE TypeOK'
  <2>1. serving[i] \in Seq(IPCall) /\ serving[i] # << >>
    BY <1>4 DEF IPDone, TypeOK
  <2>2. serving[i][1] \in IPCall
    BY <2>1, TailType
  <2>3. i[1] \in 0 .. IP_TYPE_GPU
    BY DEF Instances, IPTypes, IP_TYPE_GPU, IP_TYPE_DC
  <2>4. ipReq' \in [IPTypes -> Seq(IPCall)]
    BY <1>4, <2>2, <2>3, EnqueueIPResponse DEF IPDone, IPCall
  <2>5. /\ serving' \in [Instances -> Seq(IPCall)]
        /\ age' \in [Instances -> 0 .. MIN_SERVICE]
    BY <1>4, EmptySeq, AppAssumption DEF IPDone, TypeOK
  <2> QED
    BY <1>4, <2>4, <2>5 DEF IPDone, enqueueIPResponse, TypeOK, SATypeOK
<1>5. CASE GPUFrame
  <2>1. ipReq' \in [IPTypes -> Seq(IPCall)]
    BY <1>5, EnqueueIPResponse, AppAssumption
    DEF GPUFrame, IP_TYPE_GPU, IP_TYPE_DC, IP_TYPE_END
  <2> QED
    BY <1>5, <2>1 DEF GPUFrame, enqueueIPResponse, TypeOK, SATypeOK, callVars
<1>6. CASE SATick
  <2>1. age' \in [Instances -> 0 .. MIN_SERVICE]
    BY <1>6, AppAssumption DEF SATick, TypeOK
  <2> QED
    BY <1>6, <2>1 DEF SATick, TypeOK, SATypeOK, Stages, saVars
<1>7. CASE sendMemoryRequests
  <2>1. stage' \in Stages /\ turn' \in 0 .. NUM_CHANS - 1
    BY <1>7, LoopInType DEF sendMemoryRequests, Stages
  <2>2. CASE HasRequest /\ enqueueMemReq(Offered) /\ PopOffered
             /\ UNCHANGED <<ipReq, saCyclesToSkip>>
    <3>1. Offered \in MemMsg
      BY <2>2, TailType DEF HasRequest, Offered, TypeOK, SATypeOK
    <3>2. coreMemReq' \in Seq(MemMsg) /\ ipMemReq' \in Seq(MemMsg)
      <4>1. coreMemReq \in Seq(MemMsg) /\ ipMemReq \in Seq(MemMsg)
        BY DEF TypeOK, SATypeOK
      <4>2. CASE coreMemReq # << >>
        BY <2>2, <4>1, <4>2, TailType DEF PopOffered
      <4>3. CASE coreMemReq = << >> /\ ipMemReq # << >>
        BY <2>2, <4>1, <4>3, TailType DEF PopOffered
      <4> QED BY <2>2, <4>2, <4>3 DEF HasRequest
    <3>3. memCoreResp' \in Seq(MemMsg) /\ memIpResp' \in Seq(MemMsg)
      BY <2>2, <3>1, MemResponseType DEF enqueueMemReq, TypeOK, SATypeOK
    <3>4. dram' \in Seq(Transaction)
      <4>1. [msg |-> Offered, issued |-> FALSE] \in Transaction
        BY <3>1 DEF Transaction
      <4>2. Append(dram, [msg |-> Offered, issued |-> FALSE]) \in Seq(Transaction)
        BY <4>1, AppendType DEF TypeOK
      <4> QED BY <2>2, <4>2 DEF enqueueMemReq, TypeOK
    <3> QED
      BY <1>7, <2>1, <2>2, <3>2, <3>3, <3>4 DEF sendMemoryRequests, TypeOK, SATypeOK, callVars
  <2>3. CASE UNCHANGED <<saVars, dram>>
    BY <1>7, <2>1, <2>3 DEF sendMemoryRequests, TypeOK, SATypeOK, callVars, saVars
  <2> QED
    BY <1>7, <2>2, <2>3 DEF sendMemoryRequests
<1>8. CASE SendCalls
  <2> DEFINE taken == FirstOf(Accepting)
  <2>1. \A t \in taken : t \in IPTypes /\ ipReq[t] # << >>
    BY DEF FirstOf, Accepting
  <2>2. \A t \in taken : Tail(ipReq[t]) \in Seq(IPCall) /\ Head(ipReq[t]) \in IPCall
    BY <2>1, TailType DEF TypeOK, SATypeOK
  <2>3. ipReq' \in [IPTypes -> Seq(IPCall)]
    BY <1>8, <2>2 DEF SendCalls, sendIPRequests, TypeOK, SATypeOK
  <2>4. serving' \in [Instances -> Seq(IPCall)]
    <3> DEFINE by(i) == {t \in taken : InstanceOf(t, Head(ipReq[t])) = i}
    <3>1. ASSUME NEW i \in Instances, by(i) # {}
          PROVE  <<Head(ipReq[i[1]])>> \in Seq(IPCall)
      <4>1. PICK t \in taken : InstanceOf(t, Head(ipReq[t])) = i
        BY <3>1
      <4>2. i[1] = t
        BY <4>1 DEF InstanceOf
      <4> QED BY <2>2, <4>1, <4>2
    <3> QED BY <1>8, <3>1 DEF SendCalls, TypeOK
  <2>5. saCyclesToSkip' \in 0 .. MEM_RESP_TRANSMIT_CYCLES /\ stage' \in Stages
    BY <1>8, LimitsAssumption DEF SendCalls, TypeOK, SATypeOK, Stages
  <2> QED
    BY <1>8, <2>3, <2>4, <2>5 DEF SendCalls, TypeOK, SATypeOK
<1>9. CASE SendResponse
  <2>1. stage' \in Stages /\ turn' \in 0 .. NUM_CHANS - 1
    BY <1>9, LoopInType DEF SendResponse, Stages
  <2>2. CASE HasResponse /\ sendMemoryResponses
             /\ outstanding' = [outstanding EXCEPT ![Response.src] = @ - 1]
    <3>1. memCoreResp' \in Seq(MemMsg) /\ memIpResp' \in Seq(MemMsg)
      <4>1. memCoreResp \in Seq(MemMsg) /\ memIpResp \in Seq(MemMsg)
        BY DEF TypeOK, SATypeOK
      <4>2. CASE memCoreResp # << >>
        BY <2>2, <4>1, <4>2, TailType DEF sendMemoryResponses
      <4>3. CASE memCoreResp = << >> /\ memIpResp # << >>
        BY <2>2, <4>1, <4>3, TailType DEF sendMemoryResponses
      <4> QED BY <2>2, <4>2, <4>3 DEF HasResponse
    <3>2. saCyclesToSkip' \in 0 .. MEM_RESP_TRANSMIT_CYCLES
      BY <2>2, LimitsAssumption DEF sendMemoryResponses
    <3>3. outstanding' \in [Requesters -> Int]
      <4> DEFINE r == Response.src
      <4>1. outstanding' = [outstanding EXCEPT ![r] = @ - 1]
        BY <2>2
      <4>2. Response \in MemMsg
        BY <2>2, TailType DEF HasResponse, Response, TypeOK, SATypeOK
      <4>3. r \in Requesters
        BY <4>2 DEF MemMsg
      <4> HIDE DEF r
      <4> QED BY <4>1, <4>3 DEF TypeOK
    <3> QED
      BY <1>9, <2>1, <2>2, <3>1, <3>2, <3>3
      DEF SendResponse, sendMemoryResponses, TypeOK, SATypeOK, callVars
  <2>3. CASE UNCHANGED <<saVars, outstanding>>
    BY <1>9, <2>1, <2>3 DEF SendResponse, TypeOK, SATypeOK, callVars, saVars
  <2> QED
    BY <1>9, <2>2, <2>3 DEF SendResponse
<1>10. CASE WriteComplete
  <2>1. /\ dram' \in Seq(Transaction)
        /\ memCoreResp' \in Seq(MemMsg) /\ memIpResp' \in Seq(MemMsg)
    BY <1>10, CompleteType DEF WriteComplete, WriteDataDone, Issued, TypeOK, SATypeOK
  <2> QED
    BY <1>10, <2>1 DEF WriteComplete, TypeOK, SATypeOK, Stages, callVars
<1>11. CASE Schedule
  <2>1. dram' \in Seq(Transaction)
    <3>1. CASE UNCHANGED dram
      BY <3>1 DEF TypeOK
    <3>2. ASSUME NEW i \in Schedulable(turn + 1), schedule(i)
          PROVE  dram' \in Seq(Transaction)
      <4>1. i \in 1 .. Len(dram)
        BY LenProperties DEF Schedulable, Waiting, TypeOK
      <4>2. [dram[i] EXCEPT !.issued = TRUE] \in Transaction
        <5>1. dram[i] \in Transaction
          BY <4>1, ElementOfSeq DEF TypeOK
        <5> QED BY <5>1 DEF Transaction
      <4> QED BY <3>2, <4>1, <4>2, ExceptSeq DEF schedule, TypeOK
    <3> QED BY <1>11, <3>1, <3>2 DEF Schedule
  <2> QED
    BY <1>11, <2>1 DEF Schedule, TypeOK, SATypeOK, Stages, callVars, saVars
<1>12. CASE ReadComplete
  <2>1. /\ dram' \in Seq(Transaction)
        /\ memCoreResp' \in Seq(MemMsg) /\ memIpResp' \in Seq(MemMsg)
    BY <1>12, CompleteType DEF ReadComplete, ReturnReadData, Issued, TypeOK, SATypeOK
  <2>2. stage' \in Stages /\ turn' \in 0 .. NUM_CHANS - 1
    BY <1>12, LoopInType DEF ReadComplete, Stages
  <2> QED
    BY <1>12, <2>1, <2>2 DEF ReadComplete, TypeOK, SATypeOK, callVars
<1>13. CASE UNCHANGED vars
  BY <1>13 DEF vars, saVars, callVars, TypeOK, SATypeOK
<1> QED
  BY <1>1, <1>2, <1>3, <1>4, <1>5, <1>6, <1>7, <1>8, <1>9, <1>10, <1>11, <1>12, <1>13
  DEF Next, Environment, MemoryClock

(* Every state of the SoC is well typed: the micro-steps of the System     *)
(* Agent and of the channels stay in their loops, and every queue holds    *)
(* what it is declared for.                                                *)
THEOREM TypeCorrect == Spec => []TypeOK
BY InitTypeOK, NextTypeOK, PTL DEF Spec

-----------------------------------------------------------------------------
(* Bounds and separation *)

(* Only three actions touch the request queues. *)
LEMMA RequestQueuesFrame ==
  ASSUME [Next]_vars,
         ~\E m \in Traffic : CoreMemRequest(m) \/ IPMemRequest(m),
         ~sendMemoryRequests
  PROVE  UNCHANGED <<coreMemReq, ipMemReq>>
<1>1. ASSUME NEW c \in Cores, NEW op \in Ops, NEW drop \in BOOLEAN, processIPCall(c, op, drop)
      PROVE  UNCHANGED <<coreMemReq, ipMemReq>>
  BY <1>1 DEF processIPCall, enqueueCoreIPRequest, saVars
<1>2. ASSUME NEW i \in Instances, IPDone(i) PROVE UNCHANGED <<coreMemReq, ipMemReq>>
  BY <1>2 DEF IPDone, enqueueIPResponse
<1>3. CASE GPUFrame
  BY <1>3 DEF GPUFrame, enqueueIPResponse
<1>4. CASE SATick \/ SendCalls
  BY <1>4 DEF SATick, SendCalls, saVars
<1>5. CASE SendResponse
  BY <1>5 DEF SendResponse, sendMemoryResponses, saVars
<1>6. CASE WriteComplete \/ Schedule \/ ReadComplete
  BY <1>6 DEF WriteComplete, Schedule, ReadComplete, saVars
<1>7. CASE UNCHANGED vars
  BY <1>7 DEF vars, saVars
<1> QED
  BY <1>1, <1>2, <1>3, <1>4, <1>5, <1>6, <1>7 DEF Next, Environment, MemoryClock

LEMMA NextRequestBound == TypeOK /\ RequestBound /\ [Next]_vars => RequestBound'
<1> SUFFICES ASSUME TypeOK, RequestBound, [Next]_vars PROVE RequestBound'
  OBVIOUS
<1>0. /\ coreMemReq \in Seq(MemMsg) /\ Len(coreMemReq) \in Nat
      /\ ipMemReq \in Seq(MemMsg) /\ Len(ipMemReq) \in Nat
  BY LenProperties DEF TypeOK, SATypeOK
<1>1. ASSUME NEW m \in Traffic, CoreMemRequest(m) PROVE RequestBound'
  <2>1. Len(coreMemReq') = Len(coreMemReq) + 1 /\ ipMemReq' = ipMemReq
    BY <1>0, <1>1, AppendType, TrafficAssumption DEF CoreMemRequest, enqueueCoreMemRequest
  <2>2. Len(coreMemReq) + Len(ipMemReq) <= MAX_MEM_REQS
    BY <1>1 DEF CoreMemRequest, enqueueCoreMemRequest
  <2> QED
    BY <1>0, <2>1, <2>2, LimitsAssumption DEF RequestBound
<1>2. ASSUME NEW m \in Traffic, IPMemRequest(m) PROVE RequestBound'
  <2>1. Len(ipMemReq') = Len(ipMemReq) + 1 /\ coreMemReq' = coreMemReq
    BY <1>0, <1>2, AppendType, TrafficAssumption DEF IPMemRequest, enqueueIPMemRequest
  <2>2. Len(ipMemReq) <= MAX_IP_MEM_REQS
    BY <1>2 DEF IPMemRequest, enqueueIPMemRequest
  <2> QED
    BY <1>0, <2>1, <2>2, LimitsAssumption DEF RequestBound
<1>3. CASE sendMemoryRequests
  <2>1. CASE HasRequest /\ PopOffered
    <3>1. CASE coreMemReq # << >>
      <4>1. Len(coreMemReq') = Len(coreMemReq) - 1 /\ ipMemReq' = ipMemReq
        BY <1>0, <2>1, <3>1, TailType DEF PopOffered
      <4> QED BY <1>0, <4>1, LimitsAssumption DEF RequestBound
    <3>2. CASE coreMemReq = << >> /\ ipMemReq # << >>
      <4>1. Len(ipMemReq') = Len(ipMemReq) - 1 /\ coreMemReq' = coreMemReq
        BY <1>0, <2>1, <3>2, TailType DEF PopOffered
      <4> QED BY <1>0, <4>1, LimitsAssumption DEF RequestBound
    <3> QED BY <2>1, <3>1, <3>2 DEF HasRequest
  <2>2. CASE UNCHANGED saVars
    BY <2>2 DEF saVars, RequestBound
  <2> QED BY <1>3, <2>1, <2>2 DEF sendMemoryRequests
<1>4. CASE UNCHANGED <<coreMemReq, ipMemReq>>
  BY <1>4 DEF RequestBound
<1> QED
  BY <1>1, <1>2, <1>3, <1>4, RequestQueuesFrame

(* The request queues of the System Agent never hold more than one request *)
(* above their limits, whatever the limits are: enqueueCoreMemRequest and  *)
(* enqueueIPMemRequest compare with ">" and only the first looks at both.  *)
THEOREM RequestsBounded == Spec => []RequestBound
<1>1. Init => RequestBound
  BY LimitsAssumption, EmptySeq DEF Init, SAInit, RequestBound
<1> QED
  BY <1>1, TypeCorrect, NextRequestBound, PTL DEF Spec

(* Responses go to the queue of their sender, and only requests of cores   *)
(* enter the core queue.                                                   *)
From(q, S) == \A n \in DOMAIN q : q[n].src \in S

LEMMA FromAppend ==
  ASSUME NEW q \in Seq(MemMsg), NEW m \in MemMsg, NEW S, From(q, S), m.src \in S
  PROVE  From(Append(q, m), S)
<1>1. \A n \in DOMAIN Append(q, m) : Append(q, m)[n] = IF n <= Len(q) THEN q[n] ELSE m
  BY AppendType
<1>2. DOMAIN q = 1 .. Len(q) /\ DOMAIN Append(q, m) = 1 .. Len(q) + 1 /\ Len(q) \in Nat
  BY AppendType, LenProperties
<1> QED
  BY <1>1, <1>2 DEF From

LEMMA FromTail ==
  ASSUME NEW q \in Seq(MemMsg), q # << >>, NEW S, From(q, S)
  PROVE  From(Tail(q), S)
BY TailType DEF From

LEMMA MemResponseSeparation ==
  ASSUME TypeOK, Separation, NEW m \in MemMsg, memResponse(m)
  PROVE  From(memCoreResp', Cores) /\ From(memIpResp', IPs)
<1>1. memCoreResp \in Seq(MemMsg) /\ memIpResp \in Seq(MemMsg)
  BY DEF TypeOK, SATypeOK
<1>2. From(memCoreResp, Cores) /\ From(memIpResp, IPs)
  BY DEF Separation, From
<1>3. m.src \in Cores \/ m.src \in IPs
  BY DEF MemMsg, Requesters
<1> QED
  BY <1>1, <1>2, <1>3, FromAppend DEF memResponse

LEMMA NextSeparation == TypeOK /\ Separation /\ [Next]_vars => Separation'
<1> SUFFICES ASSUME TypeOK, Separation, [Next]_vars PROVE Separation'
  OBVIOUS
<1>0. /\ coreMemReq \in Seq(MemMsg) /\ ipMemReq \in Seq(MemMsg)
      /\ memCoreResp \in Seq(MemMsg) /\ memIpResp \in Seq(MemMsg)
      /\ dram \in Seq(Transaction)
  BY DEF TypeOK, SATypeOK
<1>s. /\ From(coreMemReq, Cores) /\ From(memCoreResp, Cores)
      /\ From(ipMemReq, IPs) /\ From(memIpResp, IPs)
  BY DEF Separation, From
<1>q. ASSUME From(coreMemReq', Cores), From(memCoreResp', Cores),
             From(ipMemReq', IPs), From(memIpResp', IPs)
      PROVE  Separation'
  BY <1>q DEF Separation, From
<1>c. ASSUME NEW i \in DOMAIN dram, complete(i)
      PROVE  From(memCoreResp', Cores) /\ From(memIpResp', IPs)
  <2>1. dram[i] \in Transaction
    BY <1>0, ElementOfSeq, LenProperties
  <2> QED BY <1>c, <2>1, MemResponseSeparation DEF complete, Transaction
<1>1. ASSUME NEW m \in Traffic, CoreMemRequest(m) PROVE Separation'
  BY <1>0, <1>s, <1>1, FromAppend, TrafficAssumption
  DEF CoreMemRequest, enqueueCoreMemRequest, Separation, From
<1>2. ASSUME NEW m \in Traffic, IPMemRequest(m) PROVE Separation'
  BY <1>0, <1>s, <1>2, FromAppend, TrafficAssumption
  DEF IPMemRequest, enqueueIPMemRequest, Separation, From
<1>3. CASE sendMemoryRequests
  <2>1. CASE HasRequest /\ enqueueMemReq(Offered) /\ PopOffered
    <3>1. From(coreMemReq', Cores) /\ From(ipMemReq', IPs)
      BY <1>0, <1>s, <2>1, FromTail DEF HasRequest, PopOffered
    <3>2. Offered \in MemMsg
      BY <1>0, <2>1, TailType DEF HasRequest, Offered
    <3>3. From(memCoreResp', Cores) /\ From(memIpResp', IPs)
      BY <1>s, <2>1, <3>2, MemResponseSeparation DEF enqueueMemReq
    <3> QED BY <1>q, <3>1, <3>3
  <2>2. CASE UNCHANGED saVars
    BY <2>2 DEF saVars, Separation
  <2> QED BY <1>3, <2>1, <2>2 DEF sendMemoryRequests
<1>4. CASE SendResponse
  <2>1. CASE HasResponse /\ sendMemoryResponses
    BY <1>0, <1>s, <1>q, <2>1, FromTail DEF HasResponse, sendMemoryResponses
  <2>2. CASE UNCHANGED saVars
    BY <2>2 DEF saVars, Separation
  <2> QED BY <1>4, <2>1, <2>2 DEF SendResponse
<1>5. CASE WriteComplete
  BY <1>s, <1>q, <1>c, <1>5 DEF WriteComplete, WriteDataDone, Issued
<1>6. CASE ReadComplete
  BY <1>s, <1>q, <1>c, <1>6 DEF ReadComplete, ReturnReadData, Issued
<1>7. CASE UNCHANGED <<coreMemReq, ipMemReq, memCoreResp, memIpResp>>
  BY <1>7 DEF Separation
<1>8. CASE SATick \/ SendCalls \/ Schedule \/ GPUFrame
  BY <1>7, <1>8 DEF SATick, SendCalls, Schedule, GPUFrame, enqueueIPResponse, saVars
<1>9. ASSUME NEW c \in Cores, NEW op \in Ops, NEW drop \in BOOLEAN, processIPCall(c, op, drop)
      PROVE  Separation'
  BY <1>7, <1>9 DEF processIPCall, enqueueCoreIPRequest, saVars
<1>10. ASSUME NEW i \in Instances, IPDone(i) PROVE Separation'
  BY <1>7, <1>10 DEF IPDone, enqueueIPResponse
<1>11. CASE UNCHANGED vars
  BY <1>7, <1>11 DEF vars, saVars
<1> QED
  BY <1>1, <1>2, <1>3, <1>4, <1>5, <1>6, <1>8, <1>9, <1>10, <1>11
  DEF Next, Environment, MemoryClock

(* Traffic of cores and traffic of IPs never mix in the System Agent.      *)
THEOREM Separated == Spec => []Separation
<1>1. Init => Separation
  BY DEF Init, SAInit, Separation
<1> QED
  BY <1>1, TypeCorrect, NextSeparation, PTL DEF Spec

LEMMA NextCallQueueBound == TypeOK /\ CallQueueBound /\ [Next]_vars => CallQueueBound'
<1> SUFFICES ASSUME TypeOK, CallQueueBound, [Next]_vars PROVE CallQueueBound'
  OBVIOUS
<1>0. /\ ipReq \in [IPTypes -> Seq(IPCall)]
      /\ \A t \in IPTypes : Len(ipReq[t]) \in Nat
  BY LenProperties DEF TypeOK, SATypeOK
<1>u. CASE UNCHANGED ipReq
  BY <1>u DEF CallQueueBound
<1>1. ASSUME NEW c \in Cores, NEW op \in Ops, NEW drop \in BOOLEAN, processIPCall(c, op, drop)
      PROVE  CallQueueBound'
  <2> DEFINE call == CallOf(op, app[c], drop)
             msg == [sender |-> IP_TYPE_CPU, core |-> c, flowType |-> call.flowType]
  <2>1. msg \in IPCall
    <3>1. call.flowType \in 0 .. IP_TYPE_END
      BY CallOfType, AppAssumption
    <3> HIDE DEF call
    <3> QED BY <3>1 DEF IPCall, IP_TYPE_CPU, IP_TYPE_GPU
  <2>2. \/ UNCHANGED ipReq
        \/ ~isIPReqLimitReached(call.ip) /\ enqueueCoreIPRequest(call.ip, msg)
    BY <1>1 DEF processIPCall, saVars
  <2> HIDE DEF call, msg
  <2>3. ASSUME NEW t \in IPTypes, enqueueCoreIPRequest(call.ip, msg),
               ~isIPReqLimitReached(call.ip)
        PROVE  Len(ipReq'[t]) <= MAX_IP_OUTSTANDING_REQS
    <3>1. CASE t = call.ip
      <4>1. ipReq'[t] = Append(ipReq[t], msg) /\ ~(Len(ipReq[t]) >= MAX_IP_OUTSTANDING_REQS)
        BY <1>0, <2>3, <3>1 DEF enqueueCoreIPRequest, isIPReqLimitReached
      <4>2. Len(ipReq'[t]) = Len(ipReq[t]) + 1
        BY <1>0, <2>1, <4>1, AppendType
      <4> QED BY <1>0, <4>1, <4>2, LimitsAssumption
    <3>2. CASE t # call.ip
      BY <1>0, <2>3, <3>2 DEF enqueueCoreIPRequest, CallQueueBound
    <3> QED BY <3>1, <3>2
  <2> QED BY <1>u, <2>2, <2>3 DEF CallQueueBound
<1>2. ASSUME NEW i \in Instances, IPDone(i) PROVE CallQueueBound'
  <2>1. serving[i][1] \in IPCall
    BY <1>2, TailType DEF IPDone, TypeOK
  <2>2. i[1] \in 0 .. IP_TYPE_GPU
    BY DEF Instances, IPTypes, IP_TYPE_GPU, IP_TYPE_DC
  <2> QED BY <1>2, <2>1, <2>2, EnqueueIPResponse DEF IPDone, IPCall
<1>3. CASE GPUFrame
  BY <1>3, EnqueueIPResponse, AppAssumption DEF GPUFrame, IP_TYPE_GPU, IP_TYPE_DC, IP_TYPE_END
<1>4. CASE SendCalls
  <2>1. ASSUME NEW t \in FirstOf(Accepting)
        PROVE  t \in IPTypes /\ Len(Tail(ipReq[t])) <= MAX_IP_OUTSTANDING_REQS
    <3>1. t \in IPTypes /\ ipReq[t] # << >>
      BY DEF FirstOf, Accepting
    <3>2. Len(Tail(ipReq[t])) = Len(ipReq[t]) - 1
      BY <1>0, <3>1, TailType
    <3> QED BY <1>0, <3>1, <3>2, LimitsAssumption DEF CallQueueBound
  <2> QED BY <1>4, <2>1 DEF SendCalls, sendIPRequests, CallQueueBound
<1>5. CASE SATick \/ sendMemoryRequests \/ SendResponse \/ WriteComplete \/ Schedule
           \/ ReadComplete
  BY <1>u, <1>5 DEF SATick, sendMemoryRequests, SendResponse, sendMemoryResponses,
                    WriteComplete, Schedule, ReadComplete, saVars
<1>6. ASSUME NEW m \in Traffic, CoreMemRequest(m) \/ IPMemRequest(m) PROVE CallQueueBound'
  BY <1>u, <1>6 DEF CoreMemRequest, IPMemRequest, enqueueCoreMemRequest, enqueueIPMemRequest
<1>7. CASE UNCHANGED vars
  BY <1>u, <1>7 DEF vars, saVars
<1> QED
  BY <1>1, <1>2, <1>3, <1>4, <1>5, <1>6, <1>7 DEF Next, Environment, MemoryClock

(* The queue of calls of an IP never exceeds MAX_IP_OUTSTANDING_REQS, so   *)
(* the assertion of enqueueCoreIPRequest holds: processIPCall tests the    *)
(* limit in the same tick, and a call between IPs is dropped at the limit. *)
THEOREM CallQueuesBounded == Spec => []CallQueueBound
<1>1. Init => CallQueueBound
  BY LimitsAssumption DEF Init, SAInit, CallQueueBound
<1> QED
  BY <1>1, TypeCorrect, NextCallQueueBound, PTL DEF Spec
=============================================================================
