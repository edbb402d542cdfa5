---------------------- MODULE GemDroidSoCConservation ----------------------
(***************************************************************************)
(* The memory path loses no request and answers none twice, for every      *)
(* number of cores, IPs and channels and every limit; so it implements     *)
(* MemPort.  The invariant is Conservation itself: with the types it is    *)
(* inductive, because every step moves one request from one place to the   *)
(* next.                                                                   *)
(***************************************************************************)
EXTENDS GemDroidSoCProofs, SeqCount, WellFoundedInduction

(* What belongs to requester r, as a message and as a transaction. *)
Of(r) == {m \in MemMsg : m.src = r}
OfT(r) == {t \in Transaction : t.msg.src = r}
One(m, r) == IF m.src = r THEN 1 ELSE 0

Asked(r) == Cnt(coreMemReq, Of(r)) + Cnt(ipMemReq, Of(r))
InDram(r) == Cnt(dram, OfT(r))
Replied(r) == Cnt(memCoreResp, Of(r)) + Cnt(memIpResp, Of(r))

LEMMA PlacesOf ==
  ASSUME TypeOK, NEW r
  PROVE  /\ CountFrom(coreMemReq, r) = Cnt(coreMemReq, Of(r))
         /\ CountFrom(ipMemReq, r) = Cnt(ipMemReq, Of(r))
         /\ CountFrom(memCoreResp, r) = Cnt(memCoreResp, Of(r))
         /\ CountFrom(memIpResp, r) = Cnt(memIpResp, Of(r))
         /\ Cardinality({n \in DOMAIN dram : dram[n].msg.src = r}) = Cnt(dram, OfT(r))
<1>1. ASSUME NEW q \in Seq(MemMsg) PROVE CountFrom(q, r) = Cnt(q, Of(r))
  <2>1. \A n \in DOMAIN q : q[n] \in MemMsg
    BY ElementOfSeq, LenProperties
  <2>2. {n \in DOMAIN q : q[n].src = r} = Places(q, Of(r))
    BY <2>1 DEF Places, Of
  <2> QED BY <2>2 DEF CountFrom, Cnt
<1>2. \A n \in DOMAIN dram : dram[n] \in Transaction
  BY ElementOfSeq, LenProperties DEF TypeOK
<1>3. {n \in DOMAIN dram : dram[n].msg.src = r} = Places(dram, OfT(r))
  BY <1>2 DEF Places, OfT
<1> QED
  BY <1>1, <1>3 DEF Cnt, TypeOK, SATypeOK

LEMMA SumsAreNat ==
  ASSUME TypeOK, NEW r
  PROVE  Asked(r) \in Nat /\ InDram(r) \in Nat /\ Replied(r) \in Nat
<1>1. /\ Cnt(coreMemReq, Of(r)) \in Nat /\ Cnt(ipMemReq, Of(r)) \in Nat
      /\ Cnt(memCoreResp, Of(r)) \in Nat /\ Cnt(memIpResp, Of(r)) \in Nat
      /\ Cnt(dram, OfT(r)) \in Nat
  BY CntType DEF TypeOK, SATypeOK
<1> QED
  BY <1>1 DEF Asked, InDram, Replied

LEMMA SumsStayNat ==
  ASSUME TypeOK', NEW r
  PROVE  Asked(r)' \in Nat /\ InDram(r)' \in Nat /\ Replied(r)' \in Nat
<1>0. /\ coreMemReq' \in Seq(MemMsg) /\ ipMemReq' \in Seq(MemMsg)
      /\ memCoreResp' \in Seq(MemMsg) /\ memIpResp' \in Seq(MemMsg)
      /\ dram' \in Seq(Transaction)
  BY DEF TypeOK, SATypeOK, MemMsg, Transaction, Requesters
<1>1. /\ Cnt(coreMemReq', Of(r)) \in Nat /\ Cnt(ipMemReq', Of(r)) \in Nat
      /\ Cnt(memCoreResp', Of(r)) \in Nat /\ Cnt(memIpResp', Of(r)) \in Nat
      /\ Cnt(dram', OfT(r)) \in Nat
  BY <1>0, CntType
<1> QED
  BY <1>1 DEF Asked, InDram, Replied, Of, OfT

SumsMatch == \A r \in Requesters : outstanding[r] = Asked(r) + InDram(r) + Replied(r)

LEMMA ConservationSums == TypeOK => (Conservation <=> SumsMatch)
<1> SUFFICES ASSUME TypeOK PROVE Conservation <=> SumsMatch
  OBVIOUS
<1>1. ASSUME NEW r \in Requesters
      PROVE  CountFrom(coreMemReq, r) + CountFrom(ipMemReq, r)
               + Cardinality({n \in DOMAIN dram : dram[n].msg.src = r})
               + CountFrom(memCoreResp, r) + CountFrom(memIpResp, r)
             = Asked(r) + InDram(r) + Replied(r)
  <2>1. /\ Cnt(coreMemReq, Of(r)) \in Nat /\ Cnt(ipMemReq, Of(r)) \in Nat
        /\ Cnt(memCoreResp, Of(r)) \in Nat /\ Cnt(memIpResp, Of(r)) \in Nat
        /\ Cnt(dram, OfT(r)) \in Nat
    BY CntType DEF TypeOK, SATypeOK
  <2> QED BY <2>1, PlacesOf DEF Asked, InDram, Replied
<1> QED
  BY <1>1 DEF Conservation, SumsMatch

-----------------------------------------------------------------------------
(* What the operators do to the three sums *)

LEMMA MemResponseSum ==
  ASSUME TypeOK, NEW m \in MemMsg, memResponse(m), NEW r
  PROVE  Replied(r)' = Replied(r) + One(m, r)
<1>1. memCoreResp \in Seq(MemMsg) /\ memIpResp \in Seq(MemMsg)
  BY DEF TypeOK, SATypeOK
<1>2. Cnt(memCoreResp, Of(r)) \in Nat /\ Cnt(memIpResp, Of(r)) \in Nat
  BY <1>1, CntType
<1>3. (m \in Of(r)) <=> m.src = r
  BY DEF Of
<1>4. CASE memCoreResp' = Append(memCoreResp, m) /\ UNCHANGED memIpResp
  <2>1. Cnt(Append(memCoreResp, m), Of(r)) = Cnt(memCoreResp, Of(r)) + One(m, r)
    BY <1>1, <1>3, CntAppend DEF One
  <2> QED BY <1>2, <1>4, <2>1 DEF Replied, One, Of
<1>5. CASE memIpResp' = Append(memIpResp, m) /\ UNCHANGED memCoreResp
  <2>1. Cnt(Append(memIpResp, m), Of(r)) = Cnt(memIpResp, Of(r)) + One(m, r)
    BY <1>1, <1>3, CntAppend DEF One
  <2> QED BY <1>2, <1>5, <2>1 DEF Replied, One, Of
<1> QED
  BY <1>4, <1>5 DEF memResponse

LEMMA PopSum ==
  ASSUME TypeOK, HasRequest, PopOffered, NEW r
  PROVE  Offered \in MemMsg /\ Asked(r)' = Asked(r) - One(Offered, r)
<1>1. coreMemReq \in Seq(MemMsg) /\ ipMemReq \in Seq(MemMsg)
  BY DEF TypeOK, SATypeOK
<1>2. Cnt(coreMemReq, Of(r)) \in Nat /\ Cnt(ipMemReq, Of(r)) \in Nat
  BY <1>1, CntType
<1>3. Offered \in MemMsg
  BY <1>1, TailType DEF HasRequest, Offered
<1>4. (Offered \in Of(r)) <=> Offered.src = r
  BY <1>3 DEF Of
<1>5. CASE coreMemReq # << >>
  <2>1. Cnt(Tail(coreMemReq), Of(r)) = Cnt(coreMemReq, Of(r)) - One(Offered, r)
    BY <1>1, <1>4, <1>5, CntTail DEF One, Offered
  <2>2. coreMemReq' = Tail(coreMemReq) /\ ipMemReq' = ipMemReq
    BY <1>5 DEF PopOffered
  <2> QED BY <1>2, <1>3, <2>1, <2>2 DEF Asked, One, Of
<1>6. CASE coreMemReq = << >> /\ ipMemReq # << >>
  <2>1. Cnt(Tail(ipMemReq), Of(r)) = Cnt(ipMemReq, Of(r)) - One(Offered, r)
    BY <1>1, <1>4, <1>6, CntTail DEF One, Offered
  <2>2. ipMemReq' = Tail(ipMemReq) /\ coreMemReq' = coreMemReq
    BY <1>6 DEF PopOffered
  <2> QED BY <1>2, <1>3, <2>1, <2>2 DEF Asked, One, Of
<1> QED
  BY <1>5, <1>6 DEF HasRequest

LEMMA AcceptSum ==
  ASSUME TypeOK, NEW m \in MemMsg, enqueueMemReq(m), NEW r
  PROVE  InDram(r)' + Replied(r)' = InDram(r) + Replied(r) + One(m, r)
<1>0. InDram(r) \in Nat /\ Replied(r) \in Nat /\ One(m, r) \in Nat
  BY SumsAreNat DEF One
<1>1. CASE perfectMemory
  <2>1. Replied(r)' = Replied(r) + One(m, r)
    BY <1>1, MemResponseSum DEF enqueueMemReq
  <2>2. InDram(r)' = InDram(r)
    BY <1>1 DEF enqueueMemReq, InDram, OfT
  <2> QED BY <1>0, <2>1, <2>2
<1>2. CASE ~perfectMemory
  <2> DEFINE t == [msg |-> m, issued |-> FALSE]
  <2>1. t \in Transaction /\ t.msg = m
    BY DEF Transaction
  <2>2. dram' = Append(dram, t) /\ UNCHANGED <<memCoreResp, memIpResp>>
    BY <1>2 DEF enqueueMemReq
  <2>3. (t \in OfT(r)) <=> m.src = r
    BY <2>1 DEF OfT
  <2> HIDE DEF t
  <2>4. Cnt(Append(dram, t), OfT(r)) = Cnt(dram, OfT(r)) + One(m, r)
    BY <2>1, <2>3, CntAppend DEF One, TypeOK
  <2>5. InDram(r)' = InDram(r) + One(m, r)
    BY <2>2, <2>4 DEF InDram, OfT
  <2>6. Replied(r)' = Replied(r)
    BY <2>2 DEF Replied, Of
  <2> QED BY <1>0, <2>5, <2>6
<1> QED
  BY <1>1, <1>2

LEMMA CompleteSum ==
  ASSUME TypeOK, NEW i \in DOMAIN dram, complete(i), NEW r
  PROVE  InDram(r)' + Replied(r)' = InDram(r) + Replied(r)
<1> DEFINE m == dram[i].msg
<1>1. dram \in Seq(Transaction) /\ dram[i] \in Transaction
  BY ElementOfSeq, LenProperties DEF TypeOK
<1>2. m \in MemMsg /\ (dram[i] \in OfT(r) <=> m.src = r)
  BY <1>1 DEF Transaction, OfT
<1>3. Cnt(dram', OfT(r)) = Cnt(dram, OfT(r)) - One(m, r)
  BY <1>1, <1>2, CntRemove DEF complete, One
<1>4. Replied(r)' = Replied(r) + One(m, r)
  BY <1>2, MemResponseSum DEF complete
<1>5. InDram(r) \in Nat /\ Replied(r) \in Nat /\ One(m, r) \in Nat
  BY SumsAreNat DEF One
<1> HIDE DEF m
<1>6. InDram(r)' = InDram(r) - One(m, r)
  BY <1>3 DEF InDram, OfT
<1> QED
  BY <1>4, <1>5, <1>6
LEMMA ResponseSum ==
  ASSUME TypeOK, HasResponse, sendMemoryResponses, NEW r
  PROVE  /\ Response \in MemMsg /\ Replied(r)' = Replied(r) - One(Response, r)
         /\ Response.src = r => Replied(r) > 0
<1>1. memCoreResp \in Seq(MemMsg) /\ memIpResp \in Seq(MemMsg)
  BY DEF TypeOK, SATypeOK
<1>2. Cnt(memCoreResp, Of(r)) \in Nat /\ Cnt(memIpResp, Of(r)) \in Nat
  BY <1>1, CntType
<1>3. Response \in MemMsg
  BY <1>1, TailType DEF HasResponse, Response
<1>4. (Response \in Of(r)) <=> Response.src = r
  BY <1>3 DEF Of
<1>5. CASE memCoreResp # << >>
  <2>1. Cnt(Tail(memCoreResp), Of(r)) = Cnt(memCoreResp, Of(r)) - One(Response, r)
    BY <1>1, <1>4, <1>5, CntTail DEF One, Response
  <2>2. memCoreResp' = Tail(memCoreResp) /\ memIpResp' = memIpResp
    BY <1>5 DEF sendMemoryResponses
  <2>3. Cnt(Tail(memCoreResp), Of(r)) \in Nat
    BY <1>1, <1>5, TailType, CntType
  <2> QED BY <1>2, <1>3, <2>1, <2>2, <2>3 DEF Replied, One, Of
<1>6. CASE memCoreResp = << >> /\ memIpResp # << >>
  <2>1. Cnt(Tail(memIpResp), Of(r)) = Cnt(memIpResp, Of(r)) - One(Response, r)
    BY <1>1, <1>4, <1>6, CntTail DEF One, Response
  <2>2. memIpResp' = Tail(memIpResp) /\ memCoreResp' = memCoreResp
    BY <1>6 DEF sendMemoryResponses
  <2>3. Cnt(Tail(memIpResp), Of(r)) \in Nat
    BY <1>1, <1>6, TailType, CntType
  <2> QED BY <1>2, <1>3, <2>1, <2>2, <2>3 DEF Replied, One, Of
<1> QED
  BY <1>5, <1>6 DEF HasResponse

(* A scheduled transaction stays where it is and whose it is. *)
LEMMA ScheduleSum ==
  ASSUME TypeOK, NEW i \in DOMAIN dram, schedule(i), NEW r
  PROVE  InDram(r)' = InDram(r)
<1>1. dram \in Seq(Transaction) /\ \A n \in DOMAIN dram : dram[n] \in Transaction
  BY ElementOfSeq, LenProperties DEF TypeOK
<1>2. DOMAIN dram' = DOMAIN dram
  BY <1>1 DEF schedule
<1>3. \A n \in DOMAIN dram : dram'[n] \in Transaction /\ dram'[n].msg = dram[n].msg
  BY <1>1 DEF schedule, Transaction
<1>4. Places(dram', OfT(r)) = Places(dram, OfT(r))
  BY <1>1, <1>2, <1>3 DEF Places, OfT
<1> QED
  BY <1>4 DEF InDram, Cnt, OfT
-----------------------------------------------------------------------------
(* Every request in the system, of requester r *)
Held(r) == Asked(r) + InDram(r) + Replied(r)

LEMMA RequestHeld ==
  ASSUME TypeOK, NEW m \in MemMsg, NEW r, UNCHANGED <<dram, memCoreResp, memIpResp>>,
         \/ coreMemReq' = Append(coreMemReq, m) /\ UNCHANGED ipMemReq
         \/ ipMemReq' = Append(ipMemReq, m) /\ UNCHANGED coreMemReq
  PROVE  Held(r)' = Held(r) + One(m, r)
<1>1. coreMemReq \in Seq(MemMsg) /\ ipMemReq \in Seq(MemMsg)
  BY DEF TypeOK, SATypeOK
<1>2. /\ Cnt(coreMemReq, Of(r)) \in Nat /\ Cnt(ipMemReq, Of(r)) \in Nat
      /\ InDram(r) \in Nat /\ Replied(r) \in Nat /\ Asked(r) \in Nat
  BY <1>1, CntType, SumsAreNat
<1>3. (m \in Of(r)) <=> m.src = r
  BY DEF Of
<1>4. /\ Cnt(Append(coreMemReq, m), Of(r)) = Cnt(coreMemReq, Of(r)) + One(m, r)
      /\ Cnt(Append(ipMemReq, m), Of(r)) = Cnt(ipMemReq, Of(r)) + One(m, r)
  BY <1>1, <1>3, CntAppend DEF One
<1>5. Asked(r)' = Asked(r) + One(m, r)
  <2>0. One(m, r) \in Nat
    BY DEF One
  <2>1. CASE coreMemReq' = Append(coreMemReq, m) /\ UNCHANGED ipMemReq
    BY <1>2, <1>4, <2>0, <2>1 DEF Asked, Of
  <2>2. CASE ipMemReq' = Append(ipMemReq, m) /\ UNCHANGED coreMemReq
    BY <1>2, <1>4, <2>0, <2>2 DEF Asked, Of
  <2> QED BY <2>1, <2>2
<1>6. InDram(r)' = InDram(r) /\ Replied(r)' = Replied(r)
  BY DEF InDram, Replied, Of, OfT
<1>7. One(m, r) \in Nat
  BY DEF One
<1> QED
  BY <1>2, <1>5, <1>6, <1>7 DEF Held

(* One step of the system asks for r, answers r, or leaves r alone; what   *)
(* is held for r and what r waits for change together.                     *)
LEMMA HeldStep ==
  ASSUME TypeOK, [Next]_vars, NEW r \in Requesters
  PROVE  Held(r)' - Held(r) = outstanding'[r] - outstanding[r]
<1>0. /\ Asked(r) \in Nat /\ InDram(r) \in Nat /\ Replied(r) \in Nat
      /\ outstanding \in [Requesters -> Int]
  BY SumsAreNat DEF TypeOK
<1>c. ASSUME NEW i \in DOMAIN dram, complete(i), UNCHANGED <<coreMemReq, ipMemReq, outstanding>>
      PROVE  Held(r)' - Held(r) = outstanding'[r] - outstanding[r]
  <2>1. InDram(r)' + Replied(r)' = InDram(r) + Replied(r)
    BY <1>c, CompleteSum
  <2>2. Asked(r)' = Asked(r)
    BY <1>c DEF Asked, Of
  <2>3. InDram(r)' \in Nat /\ Replied(r)' \in Nat
    BY NextTypeOK, SumsStayNat
  <2> QED BY <1>0, <1>c, <2>1, <2>2, <2>3 DEF Held
<1>u. CASE UNCHANGED <<coreMemReq, ipMemReq, dram, memCoreResp, memIpResp, outstanding>>
  <2>1. Held(r)' = Held(r) /\ Held(r) \in Int
    BY <1>0, <1>u DEF Held, Asked, InDram, Replied, Of, OfT
  <2> QED BY <1>0, <1>u, <2>1
<1>1. ASSUME NEW m \in Traffic, CoreMemRequest(m) \/ IPMemRequest(m)
      PROVE  Held(r)' - Held(r) = outstanding'[r] - outstanding[r]
  <2>1. m \in MemMsg /\ m.src \in Requesters
    BY TrafficAssumption DEF MemMsg
  <2>2. Held(r)' = Held(r) + One(m, r)
    BY <1>1, <2>1, RequestHeld
    DEF CoreMemRequest, IPMemRequest, enqueueCoreMemRequest, enqueueIPMemRequest
  <2>3. outstanding' = [outstanding EXCEPT ![m.src] = @ + 1]
    BY <1>1 DEF CoreMemRequest, IPMemRequest
  <2>4. outstanding'[r] = outstanding[r] + One(m, r)
    BY <1>0, <2>1, <2>3 DEF One
  <2>5. Held(r) \in Nat /\ One(m, r) \in Nat /\ outstanding[r] \in Int
    BY <1>0 DEF Held, One
  <2> QED BY <2>2, <2>4, <2>5
<1>2. CASE sendMemoryRequests
  <2>1. CASE HasRequest /\ enqueueMemReq(Offered) /\ PopOffered
    <3>1. Offered \in MemMsg /\ Asked(r)' = Asked(r) - One(Offered, r)
      BY <2>1, PopSum
    <3>2. InDram(r)' + Replied(r)' = InDram(r) + Replied(r) + One(Offered, r)
      BY <2>1, <3>1, AcceptSum
    <3>3. /\ Asked(r)' \in Nat /\ InDram(r)' \in Nat /\ Replied(r)' \in Nat
          /\ One(Offered, r) \in Nat /\ outstanding' = outstanding
      BY <1>2, NextTypeOK, SumsStayNat DEF sendMemoryRequests, One
    <3> QED BY <1>0, <3>1, <3>2, <3>3 DEF Held
  <2>2. CASE UNCHANGED <<saVars, dram>>
    BY <1>2, <1>u, <2>2 DEF saVars, sendMemoryRequests
  <2> QED BY <1>2, <2>1, <2>2 DEF sendMemoryRequests
<1>3. CASE SendResponse
  <2>1. CASE HasResponse /\ sendMemoryResponses
    <3>1. Response \in MemMsg /\ Replied(r)' = Replied(r) - One(Response, r)
      BY <2>1, ResponseSum
    <3>2. outstanding' = [outstanding EXCEPT ![Response.src] = @ - 1]
      BY <1>3, <2>1 DEF SendResponse
    <3>3. outstanding'[r] = outstanding[r] - One(Response, r)
      BY <1>0, <3>1, <3>2 DEF One, MemMsg
    <3>4. Asked(r)' = Asked(r) /\ InDram(r)' = InDram(r)
      BY <1>3, <2>1 DEF SendResponse, sendMemoryResponses, Asked, InDram, Of, OfT
    <3>5. One(Response, r) \in Nat /\ outstanding[r] \in Int
      BY <1>0 DEF One
    <3> QED BY <1>0, <3>1, <3>3, <3>4, <3>5 DEF Held
  <2>2. CASE UNCHANGED <<saVars, outstanding>>
    BY <1>3, <1>u, <2>2 DEF saVars, SendResponse
  <2> QED BY <1>3, <2>1, <2>2 DEF SendResponse
<1>4. CASE WriteComplete
  BY <1>4, <1>c, <1>u DEF WriteComplete, WriteDataDone, Issued
<1>5. CASE ReadComplete
  BY <1>5, <1>c, <1>u DEF ReadComplete, ReturnReadData, Issued
<1>6. CASE Schedule
  <2>1. InDram(r)' = InDram(r)
    BY <1>6, ScheduleSum DEF Schedule, Schedulable, Waiting, InDram, OfT
  <2>2. Asked(r)' = Asked(r) /\ Replied(r)' = Replied(r) /\ outstanding' = outstanding
    BY <1>6 DEF Schedule, saVars, Asked, Replied, Of
  <2> QED BY <1>0, <2>1, <2>2 DEF Held
<1>7. CASE SATick \/ SendCalls \/ GPUFrame
  BY <1>u, <1>7 DEF SATick, SendCalls, GPUFrame, enqueueIPResponse, saVars
<1>8. ASSUME NEW c \in Cores, NEW op \in Ops, NEW drop \in BOOLEAN, processIPCall(c, op, drop)
      PROVE  Held(r)' - Held(r) = outstanding'[r] - outstanding[r]
  BY <1>u, <1>8 DEF processIPCall, enqueueCoreIPRequest, saVars
<1>9. ASSUME NEW i \in Instances, IPDone(i)
      PROVE  Held(r)' - Held(r) = outstanding'[r] - outstanding[r]
  BY <1>u, <1>9 DEF IPDone, enqueueIPResponse
<1>10. CASE UNCHANGED vars
  BY <1>u, <1>10 DEF vars, saVars
<1> QED
  BY <1>1, <1>2, <1>3, <1>4, <1>5, <1>6, <1>7, <1>8, <1>9, <1>10
  DEF Next, Environment, MemoryClock

LEMMA NextConservation == TypeOK /\ Conservation /\ [Next]_vars => Conservation'
<1> SUFFICES ASSUME TypeOK, Conservation, [Next]_vars PROVE Conservation'
  OBVIOUS
<1>1. TypeOK'
  BY NextTypeOK
<1>2. ASSUME NEW r \in Requesters PROVE outstanding'[r] = Held(r)'
  <2>1. outstanding[r] = Held(r)
    BY ConservationSums DEF Held, SumsMatch
  <2>2. Held(r)' - Held(r) = outstanding'[r] - outstanding[r]
    BY HeldStep
  <2>3. Held(r)' \in Nat /\ outstanding[r] \in Int /\ outstanding'[r] \in Int
    BY <1>1, SumsStayNat DEF Held, TypeOK
  <2> QED BY <2>1, <2>2, <2>3
<1>3. SumsMatch'
  BY <1>2 DEF SumsMatch, Held
<1> QED
  BY <1>1, <1>3, ConservationSums, PTL

(* No memory request is lost and none is answered twice on its way through *)
(* the System Agent and the memory, for any number of cores, IPs, channels *)
(* and any limits.                                                         *)
THEOREM Conserved == Spec => []Conservation
<1>1. Init => Conservation
  <2> SUFFICES ASSUME Init PROVE Conservation
    OBVIOUS
  <2>1. TypeOK
    BY InitTypeOK
  <2>2. ASSUME NEW T PROVE Cnt(<< >>, T) = 0
    BY CntEmpty
  <2>3. SumsMatch
    BY <2>2 DEF Init, SAInit, MemInit, SumsMatch, Asked, InDram, Replied
  <2> QED BY <2>1, <2>3, ConservationSums
<1> QED
  BY <1>1, TypeCorrect, NextConservation, PTL DEF Spec

-----------------------------------------------------------------------------
(* A step of the system is a step of the abstract port or leaves it alone. *)
(* Conservation is what makes a response answer somebody who waits.        *)
LEMMA StepOfPort == TypeOK /\ Conservation /\ [Next]_vars => [Port!Next]_outstanding
<1> SUFFICES ASSUME TypeOK, Conservation, [Next]_vars PROVE [Port!Next]_outstanding
  OBVIOUS
<1>1. ASSUME NEW m \in Traffic, CoreMemRequest(m) \/ IPMemRequest(m)
      PROVE  Port!Next
  <2>1. m.src \in Requesters
    BY TrafficAssumption DEF MemMsg
  <2>2. Port!Request(m.src)
    BY <1>1 DEF CoreMemRequest, IPMemRequest, Port!Request
  <2> QED BY <2>1, <2>2 DEF Port!Next
<1>2. CASE SendResponse /\ HasResponse
  <2> DEFINE r == Response.src
  <2>1. sendMemoryResponses /\ outstanding' = [outstanding EXCEPT ![r] = @ - 1]
    BY <1>2 DEF SendResponse
  <2>2. r \in Requesters /\ Replied(r) > 0
    BY <1>2, <2>1, ResponseSum DEF MemMsg
  <2>3. Asked(r) \in Nat /\ InDram(r) \in Nat /\ Replied(r) \in Nat
    BY SumsAreNat
  <2>4. outstanding[r] = Asked(r) + InDram(r) + Replied(r)
    BY <2>2, ConservationSums DEF SumsMatch
  <2> HIDE DEF r
  <2>5. Port!Respond(r)
    BY <2>1, <2>2, <2>3, <2>4 DEF Port!Respond
  <2> QED BY <2>2, <2>5 DEF Port!Next
<1>3. CASE UNCHANGED outstanding
  BY <1>3
<1>4. CASE SendResponse /\ ~HasResponse
  BY <1>3, <1>4 DEF SendResponse
<1>5. CASE SATick \/ sendMemoryRequests \/ SendCalls \/ WriteComplete \/ Schedule
           \/ ReadComplete \/ GPUFrame
  BY <1>3, <1>5 DEF SATick, sendMemoryRequests, SendCalls, WriteComplete, Schedule,
                    ReadComplete, GPUFrame
<1>6. ASSUME NEW c \in Cores, NEW op \in Ops, NEW drop \in BOOLEAN, processIPCall(c, op, drop)
      PROVE  UNCHANGED outstanding
  BY <1>6 DEF processIPCall
<1>7. ASSUME NEW i \in Instances, IPDone(i) PROVE UNCHANGED outstanding
  BY <1>7 DEF IPDone
<1>8. CASE UNCHANGED vars
  BY <1>3, <1>8 DEF vars
<1> QED
  BY <1>1, <1>2, <1>4, <1>5, <1>6, <1>7, <1>8 DEF Next, Environment, MemoryClock

(* The System Agent and the memory together are a memory port: what cores  *)
(* and IPs may rely on is MemPort, and a response never reaches somebody   *)
(* who waits for none.                                                     *)
THEOREM PortImplemented == Spec => ImplementsMemPort
<1>1. Init => Port!Init
  BY DEF Init, Port!Init
<1> QED
  BY <1>1, TypeCorrect, Conserved, StepOfPort, PTL DEF Spec, ImplementsMemPort, Port!Spec
-----------------------------------------------------------------------------
(* How much fits into the system.  Only two places are tested when a       *)
(* request enters: its own queue and the response queues.  What the memory *)
(* holds is bounded per channel, by canAccept and by the room of the banks;*)
(* the channels are counted by the least channel where the sum goes wrong. *)

Wait(c) == {t \in Transaction : t.msg.chan = c /\ ~t.issued}
Work(c) == {t \in Transaction : t.msg.chan = c /\ t.issued}

ChannelBound ==
  \A c \in Channels : /\ Cnt(dram, Wait(c)) <= TRANS_QUEUE_DEPTH
                      /\ Cnt(dram, Work(c)) <= ISSUED_DEPTH

LEMMA ChannelSets ==
  ASSUME TypeOK, NEW c
  PROVE  Waiting(c) = Places(dram, Wait(c)) /\ Issued(c) = Places(dram, Work(c))
<1>1. \A n \in DOMAIN dram : dram[n] \in Transaction
  BY ElementOfSeq, LenProperties DEF TypeOK
<1> QED
  BY <1>1 DEF Waiting, Issued, Places, Wait, Work

LEMMA ChannelsFill ==
  ASSUME TypeOK, ChannelBound
  PROVE  Len(dram) <= NUM_CHANS * (TRANS_QUEUE_DEPTH + ISSUED_DEPTH)
<1> DEFINE D == TRANS_QUEUE_DEPTH + ISSUED_DEPTH
           Upto(k) == {n \in DOMAIN dram : dram[n].msg.chan <= k}
           Bad == {k \in Nat : k <= NUM_CHANS /\ ~(Cardinality(Upto(k)) <= k * D)}
<1>0. D \in Nat /\ NUM_CHANS \in Nat
  BY DepthAssumption, LimitsAssumption
<1>1. /\ dram \in Seq(Transaction) /\ DOMAIN dram = 1 .. Len(dram) /\ Len(dram) \in Nat
      /\ \A n \in DOMAIN dram : dram[n].msg.chan \in 1 .. NUM_CHANS
  <2>1. /\ dram \in Seq(Transaction) /\ DOMAIN dram = 1 .. Len(dram) /\ Len(dram) \in Nat
        /\ \A n \in DOMAIN dram : dram[n] \in Transaction
    BY ElementOfSeq, LenProperties DEF TypeOK
  <2> QED BY <2>1 DEF Transaction, MemMsg, Channels
<1>2. IsFiniteSet(DOMAIN dram) /\ Cardinality(DOMAIN dram) = Len(dram)
  BY <1>1, FS_Interval
<1>3. \A k : IsFiniteSet(Upto(k)) /\ Cardinality(Upto(k)) \in Nat
  BY <1>2, FS_Subset, FS_CardinalityType
<1>4. Bad = {}
  <2> SUFFICES ASSUME Bad # {} PROVE FALSE
    OBVIOUS
  <2>1. PICK k \in Bad : \A j \in Bad : ~(<<j, k>> \in OpToRel(<, Nat))
    <3>1. Bad \subseteq Nat
      OBVIOUS
    <3> HIDE DEF Bad
    <3> QED BY <3>1, NatLessThanWellFounded, WFMin
  <2>2. \A j \in Bad : ~(j < k)
    BY <2>1 DEF OpToRel
  <2>3. k # 0
    <3>1. Upto(0) = {}
      BY <1>1
    <3>2. Cardinality(Upto(0)) = 0
      BY <3>1, FS_EmptySet
    <3>3. Cardinality(Upto(0)) <= 0 * D
      BY <1>0, <3>2
    <3> QED BY <3>3
  <2> DEFINE j == k - 1
             here == Waiting(k) \cup Issued(k)
  <2>4. j \in Nat /\ k = j + 1 /\ k \in Channels /\ j < k /\ j <= NUM_CHANS
    BY <1>0, <2>3 DEF Channels
  <2>5. Cardinality(Upto(j)) <= j * D
    BY <2>2, <2>4
  <2>6. Upto(k) = Upto(j) \cup here
    BY <1>1, <2>4 DEF Waiting, Issued
  <2>7. IsFiniteSet(here) /\ Cardinality(here) <= D /\ Cardinality(here) \in Nat
    <3>1. IsFiniteSet(Waiting(k)) /\ IsFiniteSet(Issued(k))
      BY <1>1, CntType, ChannelSets
    <3>2. /\ Cardinality(Waiting(k)) \in Nat /\ Cardinality(Issued(k)) \in Nat
          /\ Cardinality(Waiting(k)) <= TRANS_QUEUE_DEPTH
          /\ Cardinality(Issued(k)) <= ISSUED_DEPTH
      BY <2>4, <3>1, ChannelSets, FS_CardinalityType DEF ChannelBound, Cnt
    <3>3. Waiting(k) \cap Issued(k) = {}
      BY DEF Waiting, Issued
    <3>4. IsFiniteSet(here) /\ Cardinality(here) =
            Cardinality(Waiting(k)) + Cardinality(Issued(k)) - Cardinality({})
      BY <3>1, <3>3, FS_Union
    <3> QED BY <3>2, <3>4, FS_EmptySet, DepthAssumption
  <2>8. Cardinality(Upto(k)) <= Cardinality(Upto(j)) + Cardinality(here)
    <3>1. Cardinality(Upto(j) \cup here) = Cardinality(Upto(j)) + Cardinality(here)
            - Cardinality(Upto(j) \cap here)
      BY <1>3, <2>7, FS_Union
    <3>2. Cardinality(Upto(j) \cap here) \in Nat
      BY <1>3, FS_Intersection, FS_CardinalityType, <2>7
    <3>3. Cardinality(Upto(j)) \in Nat
      BY <1>3
    <3> HIDE DEF Upto, here
    <3> QED BY <2>6, <2>7, <3>1, <3>2, <3>3
  <2>9. Cardinality(Upto(k)) <= j * D + D
    <3>1. Cardinality(Upto(j)) \in Nat /\ Cardinality(Upto(k)) \in Nat
      BY <1>3
    <3>2. j * D \in Nat
      <4> HIDE DEF j, D
      <4> QED BY <1>0, <2>4, Z3
    <3> HIDE DEF Upto, here, j, D
    <3> QED BY <1>0, <2>5, <2>7, <2>8, <3>1, <3>2
  <2>10. k * D = j * D + D
    <3> HIDE DEF D, j, Bad
    <3> QED BY <1>0, <2>4, Z3
  <2> QED BY <2>9, <2>10
<1>5. Upto(NUM_CHANS) = DOMAIN dram
  BY <1>1
<1>6. Cardinality(Upto(NUM_CHANS)) <= NUM_CHANS * D
  BY <1>0, <1>4
<1> QED
  BY <1>2, <1>5, <1>6

(* A step of the memory keeps every channel within its limits. *)
LEMMA NextChannelBound == TypeOK /\ ChannelBound /\ [Next]_vars => ChannelBound'
<1> SUFFICES ASSUME TypeOK, ChannelBound, [Next]_vars, NEW c \in Channels
             PROVE  Cnt(dram', Wait(c)) <= TRANS_QUEUE_DEPTH /\ Cnt(dram', Work(c)) <= ISSUED_DEPTH
  BY DEF ChannelBound, Wait, Work, Channels
<1>0. /\ dram \in Seq(Transaction) /\ TRANS_QUEUE_DEPTH \in Nat /\ ISSUED_DEPTH \in Nat
      /\ \A n \in DOMAIN dram : dram[n] \in Transaction
  BY ElementOfSeq, LenProperties, DepthAssumption DEF TypeOK
<1>1. /\ Cnt(dram, Wait(c)) \in Nat /\ Cnt(dram, Wait(c)) <= TRANS_QUEUE_DEPTH
      /\ Cnt(dram, Work(c)) \in Nat /\ Cnt(dram, Work(c)) <= ISSUED_DEPTH
  BY <1>0, CntType DEF ChannelBound
<1>2. /\ IsFiniteSet(Places(dram, Wait(c))) /\ IsFiniteSet(Places(dram, Work(c)))
      /\ Waiting(c) = Places(dram, Wait(c)) /\ Issued(c) = Places(dram, Work(c))
  BY <1>0, CntType, ChannelSets
<1>u. CASE dram' = dram
  BY <1>1, <1>u
<1>c. ASSUME NEW i \in DOMAIN dram, complete(i)
      PROVE  /\ Cnt(dram', Wait(c)) <= TRANS_QUEUE_DEPTH
             /\ Cnt(dram', Work(c)) <= ISSUED_DEPTH
  <2>1. /\ Cnt(dram', Wait(c)) = Cnt(dram, Wait(c)) - (IF dram[i] \in Wait(c) THEN 1 ELSE 0)
        /\ Cnt(dram', Work(c)) = Cnt(dram, Work(c)) - (IF dram[i] \in Work(c) THEN 1 ELSE 0)
    BY <1>0, <1>c, CntRemove DEF complete
  <2> QED BY <1>0, <1>1, <2>1
<1>3. CASE sendMemoryRequests
  <2>1. CASE HasRequest /\ enqueueMemReq(Offered) /\ ~perfectMemory
    <3> DEFINE t == [msg |-> Offered, issued |-> FALSE]
    <3>1. Offered \in MemMsg
      BY <2>1, TailType DEF HasRequest, Offered, TypeOK, SATypeOK
    <3>2. t \in Transaction /\ t \notin Work(c)
      BY <3>1 DEF Transaction, Work
    <3>3. dram' = Append(dram, t) /\ Cnt(dram, Wait(c)) < TRANS_QUEUE_DEPTH
      BY <1>2, <2>1 DEF enqueueMemReq, canAccept, Cnt
    <3> HIDE DEF t
    <3>4. /\ Cnt(dram', Wait(c)) = Cnt(dram, Wait(c)) + (IF t \in Wait(c) THEN 1 ELSE 0)
          /\ Cnt(dram', Work(c)) = Cnt(dram, Work(c)) + (IF t \in Work(c) THEN 1 ELSE 0)
      BY <1>0, <3>2, <3>3, CntAppend
    <3> QED BY <1>0, <1>1, <3>2, <3>3, <3>4
  <2>2. CASE UNCHANGED dram
    BY <1>u, <2>2
  <2> QED BY <1>3, <2>1, <2>2 DEF sendMemoryRequests, enqueueMemReq
<1>4. CASE WriteComplete
  BY <1>4, <1>c, <1>u DEF WriteComplete, WriteDataDone, Issued
<1>5. CASE ReadComplete
  BY <1>5, <1>c, <1>u DEF ReadComplete, ReturnReadData, Issued
<1>6. CASE Schedule
  <2>1. ASSUME NEW i \in Schedulable(turn + 1), schedule(i)
        PROVE  /\ Cnt(dram', Wait(c)) <= TRANS_QUEUE_DEPTH
               /\ Cnt(dram', Work(c)) <= ISSUED_DEPTH
    <3>1. i \in Waiting(turn + 1) /\ Cardinality(Issued(turn + 1)) < ISSUED_DEPTH
      BY <2>1 DEF Schedulable
    <3>2. /\ i \in DOMAIN dram /\ dram[i].msg.chan = turn + 1 /\ ~dram[i].issued
          /\ DOMAIN dram' = DOMAIN dram
          /\ dram'[i] = [dram[i] EXCEPT !.issued = TRUE]
          /\ \A n \in DOMAIN dram : n # i => dram'[n] = dram[n]
      BY <1>0, <2>1, <3>1 DEF schedule, Waiting
    <3>3. dram'[i] \in Transaction /\ dram'[i].msg = dram[i].msg /\ dram'[i].issued
      BY <1>0, <3>2 DEF Transaction
    <3>4. CASE c = turn + 1
      <4>1. /\ Places(dram', Wait(c)) = Places(dram, Wait(c)) \ {i}
            /\ Places(dram', Work(c)) = Places(dram, Work(c)) \cup {i}
        BY <1>0, <3>2, <3>3, <3>4 DEF Places, Wait, Work
      <4>2. /\ i \in Places(dram, Wait(c)) /\ i \notin Places(dram, Work(c))
            /\ Cardinality(Places(dram, Wait(c)) \ {i}) = Cardinality(Places(dram, Wait(c))) - 1
            /\ Cardinality(Places(dram, Work(c)) \cup {i}) = Cardinality(Places(dram, Work(c))) + 1
        <5>1. i \in Places(dram, Wait(c)) /\ i \notin Places(dram, Work(c))
          BY <1>0, <3>2, <3>4 DEF Places, Wait, Work
        <5> QED BY <1>2, <5>1, FS_AddElement, FS_RemoveElement
      <4>3. Cnt(dram, Work(c)) < ISSUED_DEPTH
        BY <1>2, <3>1, <3>4 DEF Cnt
      <4>4. /\ Cnt(dram', Wait(c)) = Cnt(dram, Wait(c)) - 1
            /\ Cnt(dram', Work(c)) = Cnt(dram, Work(c)) + 1
        BY <4>1, <4>2 DEF Cnt
      <4> QED BY <1>0, <1>1, <4>3, <4>4
    <3>5. CASE c # turn + 1
      <4>1. /\ Places(dram', Wait(c)) = Places(dram, Wait(c))
            /\ Places(dram', Work(c)) = Places(dram, Work(c))
        BY <1>0, <3>2, <3>3, <3>5 DEF Places, Wait, Work
      <4> QED BY <1>1, <4>1 DEF Cnt
    <3> QED BY <3>4, <3>5
  <2> QED BY <1>6, <1>u, <2>1 DEF Schedule
<1>7. CASE SATick \/ SendCalls \/ SendResponse \/ GPUFrame
  BY <1>u, <1>7 DEF SATick, SendCalls, SendResponse, GPUFrame
<1>8. ASSUME NEW m \in Traffic, CoreMemRequest(m) \/ IPMemRequest(m) PROVE UNCHANGED dram
  BY <1>8 DEF CoreMemRequest, IPMemRequest
<1>9. ASSUME NEW d \in Cores, NEW op \in Ops, NEW drop \in BOOLEAN, processIPCall(d, op, drop)
      PROVE  UNCHANGED dram
  BY <1>9 DEF processIPCall
<1>10. ASSUME NEW i \in Instances, IPDone(i) PROVE UNCHANGED dram
  BY <1>10 DEF IPDone
<1>11. CASE UNCHANGED vars
  BY <1>u, <1>11 DEF vars
<1> QED
  BY <1>3, <1>4, <1>5, <1>6, <1>7, <1>8, <1>9, <1>10, <1>11, <1>u
  DEF Next, Environment, MemoryClock

-----------------------------------------------------------------------------
Requests == Len(coreMemReq) + Len(ipMemReq)
Responses == Len(memCoreResp) + Len(memIpResp)
InFlight == Requests + Len(dram) + Responses

LEMMA LengthTypes ==
  ASSUME TypeOK
  PROVE  /\ Len(coreMemReq) \in Nat /\ Len(ipMemReq) \in Nat /\ Len(dram) \in Nat
         /\ Len(memCoreResp) \in Nat /\ Len(memIpResp) \in Nat
         /\ Requests \in Nat /\ Responses \in Nat /\ InFlight \in Nat
<1>1. /\ Len(coreMemReq) \in Nat /\ Len(ipMemReq) \in Nat /\ Len(dram) \in Nat
      /\ Len(memCoreResp) \in Nat /\ Len(memIpResp) \in Nat
  BY LenProperties DEF TypeOK, SATypeOK
<1> QED
  BY <1>1 DEF Requests, Responses, InFlight

LEMMA MemResponseLength ==
  ASSUME TypeOK, NEW m \in MemMsg, memResponse(m)
  PROVE  Responses' = Responses + 1
<1>1. /\ memCoreResp \in Seq(MemMsg) /\ memIpResp \in Seq(MemMsg)
      /\ Len(memCoreResp) \in Nat /\ Len(memIpResp) \in Nat
  BY LengthTypes DEF TypeOK, SATypeOK
<1>2. CASE memCoreResp' = Append(memCoreResp, m) /\ memIpResp' = memIpResp
  <2>1. Len(memCoreResp') = Len(memCoreResp) + 1
    BY <1>1, <1>2, AppendType
  <2> QED BY <1>1, <1>2, <2>1 DEF Responses
<1>3. CASE memIpResp' = Append(memIpResp, m) /\ memCoreResp' = memCoreResp
  <2>1. Len(memIpResp') = Len(memIpResp) + 1
    BY <1>1, <1>3, AppendType
  <2> QED BY <1>1, <1>3, <2>1 DEF Responses
<1> QED
  BY <1>2, <1>3 DEF memResponse

LEMMA CompleteLength ==
  ASSUME TypeOK, NEW i \in DOMAIN dram, complete(i), UNCHANGED <<coreMemReq, ipMemReq>>
  PROVE  InFlight' = InFlight
<1>1. /\ dram \in Seq(Transaction) /\ DOMAIN dram = 1 .. Len(dram)
      /\ dram[i] \in Transaction /\ i \in 1 .. Len(dram)
  BY ElementOfSeq, LenProperties DEF TypeOK
<1>2. Responses' = Responses + 1
  BY <1>1, MemResponseLength DEF complete, Transaction
<1>3. Len(dram') = Len(dram) - 1
  <2> DEFINE a == SubSeq(dram, 1, i - 1)
             b == SubSeq(dram, i + 1, Len(dram))
  <2>0. Len(dram) \in Nat /\ \A n \in 1 .. Len(dram) : dram[n] \in Transaction
    BY <1>1, LengthTypes, ElementOfSeq
  <2>a. a \in Seq(Transaction) /\ Len(a) = i - 1
    BY <1>1, <2>0, SubSeqProperties
  <2>b. b \in Seq(Transaction) /\ Len(b) = Len(dram) - i
    BY <1>1, <2>0, SubSeqProperties
  <2>2. dram' = a \o b
    BY DEF complete
  <2> HIDE DEF a, b
  <2>3. Len(dram') = Len(a) + Len(b)
    BY <2>a, <2>b, <2>2, ConcatProperties
  <2> QED BY <1>1, <2>0, <2>a, <2>b, <2>3
<1>4. Requests' = Requests
  BY DEF Requests
<1> QED
  BY <1>2, <1>3, <1>4, LengthTypes DEF InFlight

(* Only a core or an IP brings a new request. *)
LEMMA InFlightStep ==
  ASSUME TypeOK, [Next]_vars, ~\E m \in Traffic : CoreMemRequest(m) \/ IPMemRequest(m)
  PROVE  InFlight' <= InFlight
<1>0. /\ Len(dram) \in Nat /\ Requests \in Nat /\ Responses \in Nat /\ InFlight \in Nat
      /\ coreMemReq \in Seq(MemMsg) /\ ipMemReq \in Seq(MemMsg)
      /\ memCoreResp \in Seq(MemMsg) /\ memIpResp \in Seq(MemMsg)
      /\ Len(coreMemReq) \in Nat /\ Len(ipMemReq) \in Nat
      /\ Len(memCoreResp) \in Nat /\ Len(memIpResp) \in Nat
  BY LengthTypes DEF TypeOK, SATypeOK
<1>u. CASE UNCHANGED <<coreMemReq, ipMemReq, memCoreResp, memIpResp>> /\ Len(dram') = Len(dram)
  BY <1>0, <1>u DEF InFlight, Requests, Responses
<1>1. CASE sendMemoryRequests
  <2>1. CASE HasRequest /\ enqueueMemReq(Offered) /\ PopOffered
    <3>1. Requests' = Requests - 1
      <4>1. CASE coreMemReq # << >>
        <5>1. Len(coreMemReq') = Len(coreMemReq) - 1 /\ ipMemReq' = ipMemReq
          BY <1>0, <2>1, <4>1, TailType DEF PopOffered
        <5> QED BY <1>0, <5>1 DEF Requests
      <4>2. CASE coreMemReq = << >> /\ ipMemReq # << >>
        <5>1. Len(ipMemReq') = Len(ipMemReq) - 1 /\ coreMemReq' = coreMemReq
          BY <1>0, <2>1, <4>2, TailType DEF PopOffered
        <5> QED BY <1>0, <5>1 DEF Requests
      <4> QED BY <2>1, <4>1, <4>2 DEF HasRequest
    <3>2. Offered \in MemMsg
      BY <1>0, <2>1, TailType DEF HasRequest, Offered
    <3>3. CASE perfectMemory
      <4>1. Responses' = Responses + 1 /\ dram' = dram
        BY <2>1, <3>2, <3>3, MemResponseLength DEF enqueueMemReq
      <4> QED BY <1>0, <3>1, <4>1 DEF InFlight
    <3>4. CASE ~perfectMemory
      <4>1. Responses' = Responses
        BY <2>1, <3>4 DEF enqueueMemReq, Responses
      <4>2. [msg |-> Offered, issued |-> FALSE] \in Transaction
        BY <3>2 DEF Transaction
      <4>3. Len(dram') = Len(dram) + 1
        BY <2>1, <3>4, <4>2, AppendType DEF enqueueMemReq, TypeOK
      <4> QED BY <1>0, <3>1, <4>1, <4>3 DEF InFlight
    <3> QED BY <3>3, <3>4
  <2>2. CASE UNCHANGED <<saVars, dram>>
    BY <1>u, <2>2 DEF saVars
  <2> QED BY <1>1, <2>1, <2>2 DEF sendMemoryRequests
<1>2. CASE SendResponse
  <2>1. CASE HasResponse /\ sendMemoryResponses
    <3>1. Responses' = Responses - 1
      <4>1. CASE memCoreResp # << >>
        <5>1. Len(memCoreResp') = Len(memCoreResp) - 1 /\ memIpResp' = memIpResp
          BY <1>0, <2>1, <4>1, TailType DEF sendMemoryResponses
        <5> QED BY <1>0, <5>1 DEF Responses
      <4>2. CASE memCoreResp = << >> /\ memIpResp # << >>
        <5>1. Len(memIpResp') = Len(memIpResp) - 1 /\ memCoreResp' = memCoreResp
          BY <1>0, <2>1, <4>2, TailType DEF sendMemoryResponses
        <5> QED BY <1>0, <5>1 DEF Responses
      <4> QED BY <2>1, <4>1, <4>2 DEF HasResponse
    <3>2. Requests' = Requests /\ dram' = dram
      BY <1>2, <2>1 DEF SendResponse, sendMemoryResponses, Requests
    <3> QED BY <1>0, <3>1, <3>2 DEF InFlight
  <2>2. CASE UNCHANGED saVars
    BY <1>2, <1>u, <2>2 DEF SendResponse, saVars
  <2> QED BY <1>2, <2>1, <2>2 DEF SendResponse
<1>3. CASE WriteComplete
  BY <1>0, <1>3, <1>u, CompleteLength DEF WriteComplete, WriteDataDone, Issued
<1>4. CASE ReadComplete
  BY <1>0, <1>4, <1>u, CompleteLength DEF ReadComplete, ReturnReadData, Issued
<1>5. CASE Schedule
  <2>1. ASSUME NEW i \in Schedulable(turn + 1), schedule(i) PROVE Len(dram') = Len(dram)
    <3>1. DOMAIN dram' = DOMAIN dram
      BY <2>1 DEF schedule
    <3>2. dram \in Seq(Transaction) /\ dram' \in Seq(Transaction)
      <4>1. TypeOK'
        BY NextTypeOK
      <4> QED BY <4>1 DEF TypeOK, Transaction, MemMsg, Requesters, Channels
    <3> QED BY <3>1, <3>2, LenProperties
  <2> QED BY <1>5, <1>u, <2>1 DEF Schedule, saVars
<1>6. CASE SATick \/ SendCalls \/ GPUFrame
  BY <1>u, <1>6 DEF SATick, SendCalls, GPUFrame, enqueueIPResponse, saVars
<1>7. ASSUME NEW d \in Cores, NEW op \in Ops, NEW drop \in BOOLEAN, processIPCall(d, op, drop)
      PROVE  UNCHANGED <<coreMemReq, ipMemReq, memCoreResp, memIpResp, dram>>
  BY <1>7 DEF processIPCall, enqueueCoreIPRequest, saVars
<1>8. ASSUME NEW i \in Instances, IPDone(i)
      PROVE  UNCHANGED <<coreMemReq, ipMemReq, memCoreResp, memIpResp, dram>>
  BY <1>8 DEF IPDone, enqueueIPResponse
<1>9. CASE UNCHANGED vars
  BY <1>u, <1>9 DEF vars, saVars
<1> QED
  BY <1>1, <1>2, <1>3, <1>4, <1>5, <1>6, <1>7, <1>8, <1>9, <1>u DEF Next, Environment, MemoryClock

LEMMA NextInFlight ==
  TypeOK /\ RequestBound /\ ChannelBound /\ InFlightBound /\ [Next]_vars => InFlightBound'
<1> SUFFICES ASSUME TypeOK, RequestBound, ChannelBound, InFlightBound, [Next]_vars
             PROVE  InFlightBound'
  OBVIOUS
<1> DEFINE room == NUM_CHANS * (TRANS_QUEUE_DEPTH + ISSUED_DEPTH)
<1>0. TypeOK' /\ RequestBound'
  BY NextTypeOK, NextRequestBound
<1>1. room \in Nat /\ Len(dram) <= room
  BY ChannelsFill, DepthAssumption, LimitsAssumption, Z3
<1>2. InFlight \in Nat /\ InFlight' \in Nat
  <2>1. /\ Len(coreMemReq') \in Nat /\ Len(ipMemReq') \in Nat /\ Len(dram') \in Nat
        /\ Len(memCoreResp') \in Nat /\ Len(memIpResp') \in Nat
    BY <1>0, LenProperties DEF TypeOK, SATypeOK
  <2> QED BY <2>1, LengthTypes DEF InFlight, Requests, Responses
<1>3. /\ InFlightBound <=> InFlight <= InFlightLimit
      /\ InFlightBound' <=> InFlight' <= InFlightLimit
  <2>1. InFlightBound <=> InFlight <= InFlightLimit
    BY LengthTypes DEF InFlightBound, InFlight, Requests, Responses
  <2>2. /\ Len(coreMemReq') \in Nat /\ Len(ipMemReq') \in Nat /\ Len(dram') \in Nat
        /\ Len(memCoreResp') \in Nat /\ Len(memIpResp') \in Nat
    BY <1>0, LenProperties DEF TypeOK, SATypeOK
  <2> QED BY <2>1, <2>2 DEF InFlightBound, InFlight, Requests, Responses, InFlightLimit
<1>4. InFlightLimit = MAX_MEM_RESPS + MAX_MEM_REQS + MAX_IP_MEM_REQS + 2 + room
      /\ InFlightLimit \in Nat
  <2>1. InFlightLimit = MAX_MEM_RESPS + MAX_MEM_REQS + MAX_IP_MEM_REQS + 2 + room
    BY DEF InFlightLimit
  <2> HIDE DEF room
  <2> QED BY <1>1, <2>1, LimitsAssumption
<1> HIDE DEF room
<1>5. ASSUME NEW m \in Traffic, CoreMemRequest(m) \/ IPMemRequest(m) PROVE InFlightBound'
  <2>1. /\ Responses <= MAX_MEM_RESPS /\ Responses \in Nat
        /\ Responses' = Responses /\ dram' = dram
    BY <1>5, LengthTypes DEF CoreMemRequest, IPMemRequest, enqueueCoreMemRequest,
                             enqueueIPMemRequest, RespsBelowLimit, Responses
  <2>2. Requests' <= MAX_MEM_REQS + MAX_IP_MEM_REQS + 2 /\ Requests' \in Nat
    <3>1. Len(coreMemReq') \in Nat /\ Len(ipMemReq') \in Nat
      BY <1>0, LenProperties DEF TypeOK, SATypeOK
    <3> QED BY <1>0, <3>1 DEF RequestBound, Requests
  <2>3. InFlight' = Requests' + Len(dram) + Responses /\ Len(dram) \in Nat
    BY <2>1, LengthTypes DEF InFlight
  <2>4. InFlight' <= InFlightLimit
    BY <1>1, <1>4, <2>1, <2>2, <2>3, LimitsAssumption
  <2> QED BY <1>3, <2>4
<1>6. CASE ~\E m \in Traffic : CoreMemRequest(m) \/ IPMemRequest(m)
  <2>1. InFlight' <= InFlight
    BY <1>6, InFlightStep
  <2> QED BY <1>2, <1>3, <1>4, <2>1
<1> QED
  BY <1>5, <1>6

(* The response queues are looked at only when a request is admitted, yet  *)
(* all requests in the system, wherever they are, fit in the limits of the *)
(* places they passed: the response queues cannot grow without bound.      *)
THEOREM InFlightIsBounded == Spec => []InFlightBound
<1>1. Init => ChannelBound /\ InFlightBound
  <2> SUFFICES ASSUME Init PROVE ChannelBound /\ InFlightBound
    OBVIOUS
  <2>1. ChannelBound
    BY CntEmpty, DepthAssumption DEF Init, MemInit, ChannelBound
  <2>2. NUM_CHANS * (TRANS_QUEUE_DEPTH + ISSUED_DEPTH) \in Nat
    BY DepthAssumption, LimitsAssumption, Z3
  <2>3. InFlightLimit \in Nat
    BY <2>2, LimitsAssumption DEF InFlightLimit
  <2>4. /\ Len(coreMemReq) = 0 /\ Len(ipMemReq) = 0 /\ Len(dram) = 0
        /\ Len(memCoreResp) = 0 /\ Len(memIpResp) = 0
    BY EmptySeq DEF Init, SAInit, MemInit
  <2> QED BY <2>1, <2>3, <2>4 DEF InFlightBound
<1> QED
  BY <1>1, TypeCorrect, RequestsBounded, NextChannelBound, NextInFlight, PTL DEF Spec
=============================================================================
