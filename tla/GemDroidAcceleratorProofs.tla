---------------------- MODULE GemDroidAcceleratorProofs ----------------------
(***************************************************************************)
(* An accelerator's buffers never overflow, its input lines are accounted  *)
(* for and its output is complete, whatever the sizes, ratios, latencies   *)
(* and power-state times are.  The inductive invariant adds to the three   *)
(* properties the types, that a call in work brought one of the known      *)
(* frames, and how much output has appeared: so many chunks as the lines   *)
(* processed fill.                                                         *)
(***************************************************************************)
EXTENDS GemDroidAccelerator, TLAPS

(* The numbers with which the class of this accelerator works. *)
Chunk == IF acc.class = "decoder" THEN coding_ratio ELSE targetOutputChunkSizeInCL
Inputs == CASE acc.class = "decoder" -> 1
            [] acc.class = "encoder" -> targetOutputChunkSizeInCL * coding_ratio
            [] acc.class = "nocoder" -> targetOutputChunkSizeInCL
Latency == IF acc.class = "encoder" THEN computeLatency \div coding_ratio ELSE computeLatency

PipeTypeOK ==
  /\ acc \in Accelerators
  /\ is_busy \in BOOLEAN
  /\ m_dependenceCount \in Nat /\ m_reqCount \in Int /\ reqSent \in Nat
  /\ currInBuffer \in Nat /\ currOutBuffer \in Nat
  /\ m_cyclesToSkip \in Nat
  /\ inputProcessedInCL \in Nat /\ inputToBeProcessedInCL \in Nat
  /\ pending \in Nat /\ written \in Nat

FrameKnown ==
  is_busy => m_reqCount >= 0 /\ inputToBeProcessedInCL \in acc.frames

ChunksOut ==
  is_busy => written + currOutBuffer = (inputProcessedInCL \div Inputs) * Chunk

PipeInv ==
  PipeTypeOK /\ FrameKnown /\ BuffersFit /\ LinesAccounted /\ ChunksOut /\ OutputComplete

-----------------------------------------------------------------------------
(* A quotient is determined by what it leaves. *)
LEMMA QuotientIs ==
  ASSUME NEW d \in Nat \ {0}, NEW q \in Nat, NEW r \in 0..(d - 1)
  PROVE  (d * q + r) \div d = q /\ (d * q + r) % d = r
BY Z3

LEMMA Divide ==
  ASSUME NEW n \in Nat, NEW d \in Nat \ {0}
  PROVE  /\ n \div d \in Nat /\ n % d \in 0..(d - 1)
         /\ n = d * (n \div d) + (n % d)
BY Z3

(* One more line completes a chunk or leaves the number of chunks. *)
LEMMA OneMoreLine ==
  ASSUME NEW n \in Nat, NEW d \in Nat \ {0}
  PROVE  (n + 1) \div d = (n \div d) + (IF (n + 1) % d = 0 THEN 1 ELSE 0)
<1> DEFINE q == n \div d
           r == n % d
<1>1. q \in Nat /\ r \in 0..(d - 1) /\ n = d * q + r
  BY Divide
<1> HIDE DEF q, r
<1>2. CASE r + 1 < d
  <2>1. n + 1 = d * q + (r + 1) /\ r + 1 \in 0..(d - 1)
    BY <1>1, <1>2
  <2>2. (d * q + (r + 1)) \div d = q /\ (d * q + (r + 1)) % d = r + 1
    BY <1>1, <2>1, QuotientIs
  <2> QED BY <1>1, <2>1, <2>2 DEF q
<1>3. CASE r + 1 = d
  <2>1. n + 1 = d * (q + 1) + 0 /\ 0 \in 0..(d - 1) /\ q + 1 \in Nat
    BY <1>1, <1>3
  <2>2. (d * (q + 1) + 0) \div d = q + 1 /\ (d * (q + 1) + 0) % d = 0
    BY <1>1, <2>1, QuotientIs
  <2> QED BY <1>1, <2>1, <2>2 DEF q
<1> QED BY <1>1, <1>2, <1>3

(* The two parts of a P-frame are the frame. *)
LEMMA TenthsAddUp ==
  ASSUME NEW n \in Nat, n % 5 = 0
  PROVE  /\ CeilTenths(n, 4) \in Nat /\ CeilTenths(n, 6) \in Nat
         /\ CeilTenths(n, 4) + CeilTenths(n, 6) = n
BY DEF CeilTenths

LEMMA Numbers ==
  ASSUME acc \in Accelerators
  PROVE  /\ acc.class \in {"decoder", "encoder", "nocoder"} /\ acc.frames \subseteq Nat
         /\ inBufferSize \in Nat \ {0} /\ outBufferSize \in Nat
         /\ coding_ratio \in Nat \ {0} /\ targetOutputChunkSizeInCL \in Nat \ {0}
         /\ Chunk \in Nat \ {0} /\ Inputs \in Nat \ {0} /\ Latency \in Nat \ {0}
<1>1. acc \in Kind
  BY AcceleratorAssumption
<1>2. /\ acc.class \in {"decoder", "encoder", "nocoder"} /\ acc.frames \subseteq Nat
      /\ inBufferSize \in Nat \ {0} /\ outBufferSize \in Nat
      /\ coding_ratio \in Nat \ {0} /\ targetOutputChunkSizeInCL \in Nat \ {0}
      /\ computeLatency \in Nat
  BY <1>1 DEF Kind, inBufferSize, outBufferSize, coding_ratio, targetOutputChunkSizeInCL,
              computeLatency
<1>3. computeLatency > 0 /\ (acc.class = "encoder" => computeLatency \div coding_ratio > 0)
  BY FrameAssumption DEF computeLatency, coding_ratio
<1>4. targetOutputChunkSizeInCL * coding_ratio \in Nat \ {0}
  BY <1>2, Z3
<1>5. Latency \in Nat \ {0}
  <2>1. computeLatency \div coding_ratio \in Nat
    BY <1>2, Divide
  <2> QED BY <1>2, <1>3, <2>1 DEF Latency
<1> QED
  BY <1>2, <1>4, <1>5 DEF Chunk, Inputs

-----------------------------------------------------------------------------
(* What a tick of a busy accelerator leaves true before it looks whether   *)
(* the call is finished.                                                   *)
InWork ==
  /\ PipeTypeOK /\ m_reqCount >= 0 /\ inputToBeProcessedInCL \in acc.frames
  /\ currInBuffer + pending = reqSent /\ reqSent <= inBufferSize
  /\ currOutBuffer <= outBufferSize
  /\ m_dependenceCount + m_reqCount + pending + currInBuffer
       + (IF m_cyclesToSkip > 0 THEN 1 ELSE 0) + inputProcessedInCL
     = inputToBeProcessedInCL
  /\ written + currOutBuffer = (inputProcessedInCL \div Inputs) * Chunk

LEMMA BusyInWork == PipeInv /\ is_busy => InWork
BY DEF PipeInv, InWork, FrameKnown, BuffersFit, LinesAccounted, ChunksOut

(* sendDataOut, requestData and process move lines from one place to the   *)
(* next.                                                                   *)
LEMMA WorkStep ==
  ASSUME InWork, NEW out \in BOOLEAN, NEW in \in BOOLEAN,
         Work(out, in, Chunk, Inputs, Latency), is_busy' \in BOOLEAN,
         UNCHANGED <<acc, inputToBeProcessedInCL>>
  PROVE  InWork'
<1> DEFINE asked == IF requestDependentData(in) \/ requestData(in) THEN 1 ELSE 0
           buf == currOutBuffer - sendDataOut(out)
           sent == reqSent + asked
           total == m_dependenceCount + m_reqCount + pending
<1>n. /\ inBufferSize \in Nat \ {0} /\ outBufferSize \in Nat
      /\ Chunk \in Nat \ {0} /\ Inputs \in Nat \ {0} /\ Latency \in Nat \ {0}
  BY Numbers DEF InWork, PipeTypeOK
<1>c. /\ inBufferSize' = inBufferSize /\ outBufferSize' = outBufferSize
      /\ Chunk' = Chunk /\ Inputs' = Inputs
  BY DEF inBufferSize, outBufferSize, Chunk, Inputs, coding_ratio, targetOutputChunkSizeInCL
<1>t. /\ m_dependenceCount \in Nat /\ m_reqCount \in Nat /\ reqSent \in Nat
      /\ currInBuffer \in Nat /\ currOutBuffer \in Nat /\ m_cyclesToSkip \in Nat
      /\ inputProcessedInCL \in Nat /\ inputToBeProcessedInCL \in Nat
      /\ pending \in Nat /\ written \in Nat
  BY DEF InWork, PipeTypeOK
<1>1. /\ m_dependenceCount' \in Nat /\ m_reqCount' \in Nat /\ pending' \in Nat
      /\ total' = total
      /\ pending' = pending + asked /\ asked \in {0, 1} /\ sent <= inBufferSize
  BY <1>n, <1>t DEF InWork, Work, requestDependentData, requestData
<1>2. /\ buf \in Nat /\ written' \in Nat /\ written' + buf = written + currOutBuffer
      /\ buf <= outBufferSize
  BY <1>n, <1>t DEF InWork, Work, sendDataOut
<1>3. process(buf, sent, Chunk, Inputs, Latency)
  BY DEF Work
<1> DEFINE quot == inputProcessedInCL \div Inputs
<1>q. quot \in Nat /\ written' + buf = quot * Chunk
  BY <1>n, <1>t, <1>2, Divide DEF InWork
<1> HIDE DEF asked, buf, sent, total, quot
<1>s. sent \in Nat /\ currInBuffer + pending' = sent
  BY <1>1, <1>t DEF InWork, sent
<1>a. /\ total \in Nat
      /\ total + currInBuffer + (IF m_cyclesToSkip > 0 THEN 1 ELSE 0) + inputProcessedInCL
         = inputToBeProcessedInCL
  BY <1>t DEF InWork, total
<1> DEFINE Fits ==
      /\ reqSent' \in Nat /\ currInBuffer' \in Nat /\ currOutBuffer' \in Nat
      /\ m_cyclesToSkip' \in Nat /\ inputProcessedInCL' \in Nat
      /\ currInBuffer' + pending' = reqSent' /\ reqSent' <= inBufferSize
      /\ currOutBuffer' <= outBufferSize
           Accounted ==
      total + currInBuffer' + (IF m_cyclesToSkip' > 0 THEN 1 ELSE 0) + inputProcessedInCL'
      = inputToBeProcessedInCL
           Produced == written' + currOutBuffer' = (inputProcessedInCL' \div Inputs) * Chunk
<1>g. SUFFICES Fits /\ Accounted /\ Produced
  <2>1. PipeTypeOK'
    BY <1>1, <1>2 DEF InWork, PipeTypeOK
  <2> QED BY <1>1, <1>c, <2>1 DEF InWork, total, quot
<1>4. CASE Stall(buf, sent)
  <2>1. Fits /\ Accounted
    BY <1>4, <1>n, <1>t, <1>1, <1>2, <1>s, <1>a DEF Stall
  <2>2. Produced
    BY <1>4, <1>q, <1>c DEF Stall, quot
  <2> QED BY <2>1, <2>2
<1>5. CASE ~OutputFull(buf, Chunk) /\ Compute(buf, sent, Chunk, Inputs)
  <2>1. Fits
    BY <1>5, <1>n, <1>t, <1>1, <1>2, <1>s DEF Compute, OutputFull
  <2>2. Accounted
    BY <1>5, <1>t, <1>1, <1>a DEF Compute
  <2>3. ASSUME m_cyclesToSkip = 1 PROVE Produced
    <3>1. inputProcessedInCL' \div Inputs
          = quot + (IF (inputProcessedInCL + 1) % Inputs = 0 THEN 1 ELSE 0)
      BY <1>5, <1>n, <1>t, <1>c, <2>3, OneMoreLine DEF Compute, quot
    <3>2. currOutBuffer' = IF (inputProcessedInCL + 1) % Inputs = 0 THEN buf + Chunk ELSE buf
      BY <1>5, <2>3 DEF Compute
    <3>3. (quot + 1) * Chunk = quot * Chunk + Chunk
      BY <1>q, <1>n, Z3
    <3> DEFINE full == (inputProcessedInCL + 1) % Inputs = 0
    <3>4. CASE full
      <4>1. inputProcessedInCL' \div Inputs = quot + 1 /\ currOutBuffer' = buf + Chunk
        BY <3>1, <3>2, <3>4
      <4>2. /\ Chunk \in Nat /\ written' \in Nat /\ buf \in Nat
            /\ quot * Chunk = written' + buf
        BY <1>2, <1>n, <1>q
      <4>3. written' + (buf + Chunk) = (written' + buf) + Chunk
        BY <4>2
      <4> QED BY <3>3, <4>1, <4>2, <4>3
    <3>5. CASE ~full
      <4>1. inputProcessedInCL' \div Inputs = quot
        BY <1>q, <3>1, <3>5
      <4> QED BY <1>q, <3>2, <3>5, <4>1
    <3> QED BY <3>4, <3>5
  <2>4. ASSUME m_cyclesToSkip # 1 PROVE Produced
    BY <1>5, <1>q, <1>c, <2>4 DEF Compute, quot
  <2> QED BY <2>1, <2>2, <2>3, <2>4
<1>6. CASE TakeInput(buf, sent, Latency)
  <2>1. Fits /\ Accounted
    BY <1>6, <1>n, <1>t, <1>1, <1>2, <1>s, <1>a DEF TakeInput
  <2>2. Produced
    BY <1>6, <1>q, <1>c DEF TakeInput, quot
  <2> QED BY <2>1, <2>2
<1> HIDE DEF Fits, Accounted, Produced
<1> QED
  BY <1>3, <1>4, <1>5, <1>6 DEF process

-----------------------------------------------------------------------------
LEMMA NoOutputYet ==
  ASSUME NEW d \in Nat \ {0}, NEW c \in Nat PROVE (0 \div d) * c = 0
<1>1. d * 0 + 0 = 0 /\ 0 \in 0..(d - 1)
  OBVIOUS
<1>2. 0 \div d = 0
  BY <1>1, QuotientIs
<1> QED BY <1>2

(* The chunks of a whole frame are what the call must produce. *)
LEMMA WholeOutput ==
  ASSUME acc \in Accelerators, NEW n \in acc.frames
  PROVE  (n \div Inputs) * Chunk = OutputOf(n)
<1> DEFINE T == targetOutputChunkSizeInCL
           R == coding_ratio
<1>1. n \in Nat /\ T \in Nat \ {0} /\ R \in Nat \ {0}
      /\ acc.class \in {"decoder", "encoder", "nocoder"}
  BY Numbers
<1>f. CASE acc.class = "decoder"
  <2>1. Inputs = 1 /\ Chunk = R /\ OutputOf(n) = n * R
    BY <1>f DEF Inputs, Chunk, OutputOf
  <2>2. n \div 1 = n
    BY <1>1
  <2> QED BY <2>1, <2>2
<1>2. CASE acc.class = "encoder"
  <2>1. Inputs = T * R /\ Chunk = T /\ OutputOf(n) = n \div R
    BY <1>2 DEF Inputs, Chunk, OutputOf
  <2>2. n % (T * R) = 0
    BY <1>2, FrameAssumption DEF targetOutputChunkSizeInCL, coding_ratio
  <2> HIDE DEF T, R
  <2> DEFINE k == n \div (T * R)
  <2>3. T * R \in Nat \ {0}
    BY <1>1, Z3
  <2>4. k \in Nat /\ n = (T * R) * k + 0
    BY <1>1, <2>2, <2>3, Divide
  <2> HIDE DEF k
  <2>5. (T * R) * k + 0 = R * (k * T) + 0 /\ k * T \in Nat /\ 0 \in 0..(R - 1)
    BY <1>1, <2>4, Z3
  <2>6. (R * (k * T) + 0) \div R = k * T
    BY <1>1, <2>5, QuotientIs
  <2> QED BY <2>1, <2>4, <2>5, <2>6 DEF k
<1>3. CASE acc.class = "nocoder"
  <2>1. Inputs = T /\ Chunk = T /\ OutputOf(n) = n
    BY <1>3 DEF Inputs, Chunk, OutputOf
  <2>2. n % T = 0
    BY <1>3, FrameAssumption DEF targetOutputChunkSizeInCL
  <2> HIDE DEF T
  <2> DEFINE k == n \div T
  <2>3. k \in Nat /\ n = T * k + 0
    BY <1>1, <2>2, Divide
  <2> HIDE DEF k
  <2>4. k * T = T * k + 0
    BY <1>1, <2>3, Z3
  <2> QED BY <2>1, <2>3, <2>4 DEF k
<1> QED BY <1>1, <1>f, <1>2, <1>3

LEMMA InWorkBusy == InWork /\ is_busy => PipeInv
BY DEF PipeInv, InWork, FrameKnown, BuffersFit, LinesAccounted, ChunksOut, OutputComplete

(* A call that is finished leaves nothing behind and has written it all.   *)
LEMMA InWorkFinished ==
  InWork /\ ~is_busy /\ inputProcessedInCL = inputToBeProcessedInCL /\ currOutBuffer = 0
  => PipeInv
<1> SUFFICES ASSUME InWork, ~is_busy, inputProcessedInCL = inputToBeProcessedInCL,
                    currOutBuffer = 0
             PROVE  PipeInv
  OBVIOUS
<1>1. pending = 0 /\ m_dependenceCount = 0 /\ m_reqCount = 0 /\ currInBuffer = 0
      /\ m_cyclesToSkip = 0
  BY DEF InWork, PipeTypeOK
<1>2. written = OutputOf(inputToBeProcessedInCL)
  <2>1. acc \in Accelerators /\ inputToBeProcessedInCL \in acc.frames /\ written \in Nat
        /\ written + 0 = (inputToBeProcessedInCL \div Inputs) * Chunk
    BY DEF InWork, PipeTypeOK
  <2>2. (inputToBeProcessedInCL \div Inputs) * Chunk = OutputOf(inputToBeProcessedInCL)
    BY <2>1, WholeOutput
  <2> QED BY <2>1, <2>2
<1> QED
  BY <1>1, <1>2 DEF PipeInv, InWork, FrameKnown, BuffersFit, LinesAccounted, ChunksOut,
                    OutputComplete

LEMMA CallStep ==
  ASSUME PipeInv, UNCHANGED acc, NEW n \in acc.frames, enqueueIPReq(n)
  PROVE  PipeInv'
<1>n. /\ n \in Nat /\ inBufferSize \in Nat \ {0} /\ outBufferSize \in Nat
      /\ Chunk \in Nat \ {0} /\ Inputs \in Nat \ {0} /\ acc \in Accelerators
      /\ acc.class \in {"decoder", "encoder", "nocoder"}
  BY Numbers DEF PipeInv, PipeTypeOK
<1>c. /\ inBufferSize' = inBufferSize /\ outBufferSize' = outBufferSize
      /\ Chunk' = Chunk /\ Inputs' = Inputs
  BY DEF inBufferSize, outBufferSize, Chunk, Inputs, coding_ratio, targetOutputChunkSizeInCL
<1>1. /\ pending = 0 /\ m_dependenceCount = 0 /\ currInBuffer = 0 /\ currOutBuffer = 0
      /\ is_busy'
  BY Zenon DEF enqueueIPReq, PipeInv, LinesAccounted
<1>b. is_busy' \in BOOLEAN
  BY Zenon DEF enqueueIPReq
<1>2. m_dependenceCount' \in Nat /\ m_reqCount' \in Nat /\ n = m_dependenceCount' + m_reqCount'
  <2>1. CASE acc.class = "decoder"
    <3>1. PICK isPFrame \in BOOLEAN : DecoderCall(n, isPFrame)
      BY <2>1 DEF enqueueIPReq
    <3>2. CASE isVD /\ isPFrame
      <4>1. n % 5 = 0
        BY <1>n, <2>1, <3>2, FrameAssumption DEF isVD
      <4> QED BY <1>n, <3>1, <3>2, <4>1, TenthsAddUp DEF DecoderCall
    <3>3. CASE ~(isVD /\ isPFrame)
      BY <1>n, <1>1, <3>1, <3>3 DEF DecoderCall
    <3> QED BY <3>2, <3>3
  <2>2. CASE acc.class = "encoder"
    BY <1>n, <1>1, <2>2 DEF enqueueIPReq, EncoderCall
  <2>3. CASE acc.class = "nocoder"
    BY <1>n, <1>1, <2>3 DEF enqueueIPReq, NocoderCall
  <2> QED BY <1>n, <2>1, <2>2, <2>3
<1>3. /\ m_cyclesToSkip' = 0 /\ inputProcessedInCL' = 0 /\ inputToBeProcessedInCL' = n
      /\ reqSent' = 0 /\ written' = 0
      /\ currInBuffer' = 0 /\ currOutBuffer' = 0 /\ pending' = 0
  BY <1>1 DEF enqueueIPReq
<1>4. (0 \div Inputs) * Chunk = 0
  BY <1>n, NoOutputYet
<1>5. InWork'
  <2>0. m_dependenceCount' \in Nat /\ m_reqCount' \in Int /\ acc' \in Accelerators
    BY <1>n, <1>2
  <2>1. PipeTypeOK'
    BY <1>n, <1>b, <1>3, <2>0 DEF PipeTypeOK
  <2>2. written' + currOutBuffer' = (inputProcessedInCL' \div Inputs') * Chunk'
    BY <1>c, <1>3, <1>4
  <2>3. m_dependenceCount' + m_reqCount' + pending' + currInBuffer'
          + (IF m_cyclesToSkip' > 0 THEN 1 ELSE 0) + inputProcessedInCL'
        = inputToBeProcessedInCL'
    <3>1. m_dependenceCount' + m_reqCount' + 0 + 0 + 0 + 0 = m_dependenceCount' + m_reqCount'
      BY <1>2
    <3>2. (IF m_cyclesToSkip' > 0 THEN 1 ELSE 0) = 0
      BY <1>3
    <3> QED BY <1>2, <1>3, <3>1, <3>2
  <2> QED BY <1>n, <1>c, <1>2, <1>3, <2>1, <2>2, <2>3 DEF InWork
<1> QED BY <1>1, <1>5, InWorkBusy, PTL

LEMMA AnswerStep ==
  ASSUME PipeInv, UNCHANGED acc, memResponse
  PROVE  PipeInv'
<1>1. is_busy
  BY DEF memResponse, PipeInv, PipeTypeOK, LinesAccounted
<1>2. InWork
  BY <1>1, BusyInWork
<1>c. /\ inBufferSize' = inBufferSize /\ outBufferSize' = outBufferSize
      /\ Chunk' = Chunk /\ Inputs' = Inputs
  BY DEF inBufferSize, outBufferSize, Chunk, Inputs, coding_ratio, targetOutputChunkSizeInCL
<1>3. pending' \in Nat /\ currInBuffer' \in Nat /\ currInBuffer' + pending' = currInBuffer + pending
  BY <1>2 DEF memResponse, InWork, PipeTypeOK
<1>4. PipeTypeOK'
  BY <1>2, <1>3 DEF memResponse, InWork, PipeTypeOK
<1>5. m_dependenceCount + m_reqCount + pending' + currInBuffer'
        + (IF m_cyclesToSkip > 0 THEN 1 ELSE 0) + inputProcessedInCL
      = inputToBeProcessedInCL
  BY <1>2 DEF memResponse, InWork, PipeTypeOK
<1>6. InWork'
  BY <1>2, <1>c, <1>3, <1>4, <1>5 DEF memResponse, InWork
<1>7. is_busy'
  BY <1>1 DEF memResponse
<1> QED BY <1>6, <1>7, InWorkBusy, PTL

LEMMA TickStep ==
  ASSUME PipeInv, UNCHANGED acc, NEW out \in BOOLEAN, NEW in \in BOOLEAN, tick(out, in)
  PROVE  PipeInv'
<1>1. CASE UNCHANGED <<is_busy, pipeVars>>
  BY <1>1 DEF pipeVars, PipeInv, PipeTypeOK, FrameKnown, BuffersFit, LinesAccounted, ChunksOut,
              OutputComplete, OutputOf, inBufferSize, outBufferSize, Chunk, Inputs,
              coding_ratio, targetOutputChunkSizeInCL
<1>2. ASSUME is_busy, UNCHANGED inputToBeProcessedInCL, is_busy' = ~Finished,
             CASE acc.class = "decoder" -> DecoderWork(out, in)
               [] acc.class = "encoder" -> EncoderWork(out, in)
               [] acc.class = "nocoder" -> NocoderWork(out, in)
      PROVE  PipeInv'
  <2>1. InWork /\ acc.class \in {"decoder", "encoder", "nocoder"}
    BY <1>2, BusyInWork, Numbers DEF PipeInv, PipeTypeOK
  <2>2. Work(out, in, Chunk, Inputs, Latency)
    BY <1>2, <2>1 DEF DecoderWork, EncoderWork, NocoderWork, Chunk, Inputs, Latency
  <2>3. is_busy' \in BOOLEAN
    BY <1>2, Zenon
  <2>4. InWork'
    BY <1>2, <2>1, <2>2, <2>3, WorkStep
  <2>5. CASE Finished
    <3>1. ~is_busy'
      BY <1>2, <2>5, Zenon
    <3>2. (inputProcessedInCL = inputToBeProcessedInCL /\ currOutBuffer = 0)'
      BY <1>2, <2>5 DEF Finished
    <3> QED BY <2>4, <3>1, <3>2, InWorkFinished, PTL
  <2>6. CASE ~Finished
    <3>1. is_busy'
      BY <1>2, <2>6, Zenon
    <3> QED BY <2>4, <3>1, InWorkBusy, PTL
  <2> QED BY <2>5, <2>6
<1> QED
  BY <1>1, <1>2 DEF tick

LEMMA NextPipeInv == PipeInv /\ [Next]_vars => PipeInv'
<1> SUFFICES ASSUME PipeInv, [Next]_vars PROVE PipeInv'
  OBVIOUS
<1>1. CASE Next
  BY <1>1, CallStep, AnswerStep, TickStep DEF Next
<1>2. CASE UNCHANGED vars
  BY <1>2 DEF vars, pipeVars, PipeInv, PipeTypeOK, FrameKnown, BuffersFit, LinesAccounted,
              ChunksOut, OutputComplete, OutputOf, inBufferSize, outBufferSize, Chunk, Inputs,
              coding_ratio, targetOutputChunkSizeInCL
<1> QED BY <1>1, <1>2

LEMMA PipeInvariant == Spec => []PipeInv
<1>1. Init => PipeInv
  <2> SUFFICES ASSUME Init PROVE PipeInv
    OBVIOUS
  <2>0. ~is_busy /\ is_busy \in BOOLEAN
    BY Zenon DEF Init, IPInit
  <2>1. /\ acc.class \in {"decoder", "encoder", "nocoder"}
        /\ inBufferSize \in Nat /\ outBufferSize \in Nat /\ coding_ratio \in Nat \ {0}
    BY Numbers DEF Init
  <2>2. OutputOf(0) = 0
    <3>1. 0 * coding_ratio = 0 /\ 0 \div coding_ratio = 0
      BY <2>1, Z3
    <3> QED BY <2>1, <3>1 DEF OutputOf
  <2> QED
    BY <2>0, <2>1, <2>2 DEF Init, PipeInv, PipeTypeOK, FrameKnown, BuffersFit, LinesAccounted,
                            ChunksOut, OutputComplete
<1> QED
  BY <1>1, NextPipeInv, PTL DEF Spec

(* Whatever the sizes of the buffers, neither overflows, and every line on *)
(* its way has a place in the input buffer, in every order of refusals,    *)
(* answers and stalls.                                                     *)
THEOREM BuffersAlwaysFit == Spec => []BuffersFit
BY PipeInvariant, PTL DEF PipeInv

(* No input line of a call is lost or read twice, also when a P-frame is   *)
(* split between the reference frame and the frame, and a finished call    *)
(* leaves nothing behind for the assertions of the next one.               *)
THEOREM InputAccounted == Spec => []LinesAccounted
BY PipeInvariant, PTL DEF PipeInv

(* When a call ends, every output line of the frame has been accepted by   *)
(* SA, for every ratio and chunk size of decoders, encoders and the image  *)
(* processor whose frames are whole chunks.                                *)
THEOREM OutputIsComplete == Spec => []OutputComplete
BY PipeInvariant, PTL DEF PipeInv

-----------------------------------------------------------------------------
(* The power state.  A busy accelerator does not count idle cycles, which  *)
(* is why it is not sent to sleep between two lines.                       *)
NotDozing == is_busy /\ cyclesToWake = 0 => idleCycles = 0

PowerInv == IPTypeOK /\ AwakeWhenBusy /\ NotDozing

Marked == Serving => frameStarted
Agree == frameStarted <=> Serving

LEMMA PowerStep ==
  ASSUME PowerInv, NotWorking, UNCHANGED is_busy
  PROVE  PowerInv'
<1>0. frameStarted \in BOOLEAN
  BY DEF PowerInv, IPTypeOK
<1>1. CASE WakingUp
  <2>1. frameStarted' \in BOOLEAN
    BY <1>0, <1>1, Zenon DEF WakingUp, markIPRequestStarted
  <2> QED
    BY <1>1, <2>1 DEF PowerInv, IPTypeOK, AwakeWhenBusy, NotDozing, WakingUp, CountedIdle,
                      PowerStates
<1>2. CASE PoweringDown
  BY <1>2, PStateAssumption
  DEF PowerInv, IPTypeOK, AwakeWhenBusy, NotDozing, PoweringDown, CountedIdle, PowerStates
<1>3. CASE Asleep
  BY <1>3 DEF PowerInv, IPTypeOK, AwakeWhenBusy, NotDozing, Asleep, CountedIdle, PowerStates
<1> QED
  BY <1>1, <1>2, <1>3 DEF NotWorking

(* A busy accelerator's tick: only the end of the call touches the mark.   *)
BusyTick ==
  /\ Working /\ is_busy /\ UNCHANGED powerVars
  /\ \/ is_busy' = TRUE /\ UNCHANGED frameStarted
     \/ is_busy' = FALSE /\ markIPRequestCompleted

IdleTick ==
  /\ Working /\ ~is_busy
  /\ idleCycles' = idleCycles + 1
  /\ UNCHANGED <<power_state, cyclesToWake, is_busy, frameStarted>>

LEMMA TickKinds ==
  ASSUME NEW out \in BOOLEAN, NEW in \in BOOLEAN, tick(out, in)
  PROVE  (NotWorking /\ UNCHANGED is_busy) \/ IdleTick \/ BusyTick
<1>1. CASE NotWorking /\ UNCHANGED <<is_busy, pipeVars>>
  BY <1>1
<1>2. CASE /\ Working /\ ~is_busy
           /\ idleCycles' = idleCycles + 1
           /\ UNCHANGED <<power_state, cyclesToWake, is_busy, frameStarted, pipeVars>>
  BY <1>2, Zenon DEF IdleTick
<1>3. CASE /\ Working /\ is_busy
           /\ is_busy' = ~Finished
           /\ IF Finished THEN markIPRequestCompleted ELSE UNCHANGED frameStarted
           /\ UNCHANGED <<powerVars, inputToBeProcessedInCL>>
  BY <1>3, Zenon DEF BusyTick
<1> QED BY <1>1, <1>2, <1>3 DEF tick

LEMMA NextPower ==
  PowerInv /\ [Next]_vars => PowerInv' /\ (Marked => Marked') /\ (Agree => Agree')
<1> SUFFICES ASSUME PowerInv, [Next]_vars
             PROVE  PowerInv' /\ (Marked => Marked') /\ (Agree => Agree')
  OBVIOUS
<1>0. cyclesToWake \in Nat /\ power_state \in PowerStates /\ frameStarted \in BOOLEAN
      /\ is_busy \in BOOLEAN
  BY DEF PowerInv, IPTypeOK
<1>1. ASSUME NEW n \in acc.frames, enqueueIPReq(n)
      PROVE  PowerInv' /\ (Marked => Marked') /\ (Agree => Agree')
  <2>1. ~is_busy /\ cyclesToWake = 0 /\ is_busy' /\ is_busy' \in BOOLEAN /\ WakeForCall
    <3>1. ~is_busy /\ is_busy' /\ is_busy' \in BOOLEAN /\ WakeForCall
      BY <1>1, Zenon DEF enqueueIPReq
    <3> QED BY <1>0, <3>1 DEF PowerInv, AwakeWhenBusy
  <2>m. frameStarted' \in BOOLEAN
    BY <1>0, <2>1, Zenon DEF WakeForCall, markIPRequestStarted
  <2>p. PowerInv'
    BY <2>1, <2>m, PStateAssumption
    DEF WakeForCall, PowerInv, IPTypeOK, AwakeWhenBusy, NotDozing, PowerStates
  <2>2. CASE power_state = "active"
    <3>1. frameStarted'
      BY <2>1, <2>2, Zenon DEF WakeForCall, markIPRequestStarted
    <3>2. cyclesToWake' = 0
      BY <2>1, <2>2 DEF WakeForCall
    <3> QED BY <2>1, <2>p, <3>1, <3>2 DEF Marked, Agree, Serving
  <2>3. CASE power_state # "active"
    <3>1. frameStarted' = frameStarted
      BY <2>1, <2>3 DEF WakeForCall
    <3>2. cyclesToWake' # 0
      BY <1>0, <2>1, <2>3, PStateAssumption DEF WakeForCall, PowerStates
    <3> QED BY <2>1, <2>p, <3>1, <3>2 DEF Marked, Agree, Serving
  <2> QED BY <2>2, <2>3
<1>2. ASSUME UNCHANGED <<is_busy, cyclesToWake, frameStarted>>
      PROVE  (Marked => Marked') /\ (Agree => Agree')
  BY <1>2 DEF Marked, Agree, Serving
<1>3. ASSUME NEW out \in BOOLEAN, NEW in \in BOOLEAN, tick(out, in)
      PROVE  PowerInv' /\ (Marked => Marked') /\ (Agree => Agree')
  <2>1. CASE NotWorking /\ UNCHANGED is_busy
    <3>p. PowerInv'
      BY <2>1, PowerStep
    <3>1. CASE WakingUp
      <4>1. is_busy /\ is_busy'
        BY <1>0, <2>1, <3>1 DEF WakingUp, PowerInv, AwakeWhenBusy
      <4>2. CASE cyclesToWake = 1
        <5>1. frameStarted'
          BY <3>1, <4>2, Zenon DEF WakingUp, markIPRequestStarted
        <5>2. cyclesToWake' = 0
          BY <3>1, <4>2 DEF WakingUp
        <5> QED BY <3>p, <4>1, <5>1, <5>2 DEF Marked, Agree, Serving
      <4>3. CASE cyclesToWake # 1
        <5>1. cyclesToWake # 0 /\ cyclesToWake' # 0 /\ frameStarted' = frameStarted
          BY <1>0, <3>1, <4>3 DEF WakingUp
        <5> QED BY <3>p, <4>1, <5>1 DEF Marked, Agree, Serving
      <4> QED BY <4>2, <4>3
    <3>2. CASE PoweringDown \/ Asleep
      BY <1>2, <2>1, <3>p, <3>2 DEF PoweringDown, Asleep
    <3> QED BY <2>1, <3>1, <3>2 DEF NotWorking
  <2>2. CASE IdleTick
    <3>p. PowerInv'
      BY <2>2 DEF IdleTick, PowerInv, IPTypeOK, AwakeWhenBusy, NotDozing
    <3> QED BY <1>2, <2>2, <3>p DEF IdleTick
  <2>3. CASE BusyTick /\ is_busy' = TRUE /\ UNCHANGED frameStarted
    <3>1. is_busy' /\ is_busy' \in BOOLEAN /\ frameStarted' \in BOOLEAN /\ is_busy
      BY <1>0, <2>3, Zenon DEF BusyTick
    <3>p. PowerInv'
      BY <2>3, <3>1 DEF BusyTick, powerVars, PowerInv, IPTypeOK, AwakeWhenBusy, NotDozing
    <3> QED BY <2>3, <3>1, <3>p DEF BusyTick, powerVars, Marked, Agree, Serving
  <2>4. CASE BusyTick /\ is_busy' = FALSE /\ markIPRequestCompleted
    <3>1. ~is_busy' /\ is_busy' \in BOOLEAN /\ ~frameStarted' /\ frameStarted' \in BOOLEAN
      BY <2>4, Zenon DEF markIPRequestCompleted
    <3>p. PowerInv'
      BY <2>4, <3>1 DEF BusyTick, Working, powerVars, PowerInv, IPTypeOK, AwakeWhenBusy, NotDozing
    <3> QED BY <3>1, <3>p DEF Marked, Agree, Serving
  <2> QED BY <1>3, <2>1, <2>2, <2>3, <2>4, TickKinds DEF BusyTick
<1>4. CASE memResponse \/ UNCHANGED vars
  <2>1. UNCHANGED <<powerVars, is_busy, frameStarted>>
    BY <1>4 DEF memResponse, vars
  <2>p. PowerInv'
    BY <2>1 DEF powerVars, PowerInv, IPTypeOK, AwakeWhenBusy, NotDozing
  <2> QED BY <1>2, <2>1, <2>p DEF powerVars
<1> QED
  BY <1>1, <1>3, <1>4 DEF Next

LEMMA InitPower == Init => PowerInv /\ Marked
<1> SUFFICES ASSUME Init PROVE PowerInv /\ Marked
  OBVIOUS
<1>1. ~is_busy /\ is_busy \in BOOLEAN /\ frameStarted \in BOOLEAN
  BY Zenon DEF Init, IPInit
<1> QED
  BY <1>1 DEF Init, IPInit, PowerInv, IPTypeOK, AwakeWhenBusy, NotDozing, PowerStates, Marked,
              Serving

(* An accelerator that has a call is awake or waking up, however long it   *)
(* waits for the memory: the assertions on the power state in updatePower  *)
(* and tick hold.                                                          *)
THEOREM AcceleratorAwake == Spec => []AwakeWhenBusy
<1>1. PowerInv => AwakeWhenBusy
  BY DEF PowerInv
<1> QED
  BY <1>1, InitPower, NextPower, PTL DEF Spec

(* The time and the power of every call of an accelerator are measured     *)
(* and, once the first call is served, nothing else is.                    *)
THEOREM CallsAreMeasured == Spec => FrameMeasured
<1>1. Marked /\ Serving => Agree
  BY DEF Marked, Agree
<1>2. Agree <=> (frameStarted <=> Serving)
  BY DEF Agree
<1> QED
  BY <1>1, <1>2, InitPower, NextPower, PTL DEF Spec, FrameMeasured
=============================================================================
