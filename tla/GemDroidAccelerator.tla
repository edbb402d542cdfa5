------------------------- MODULE GemDroidAccelerator -------------------------
(***************************************************************************)
(* An accelerator: the decoders (VD, AD), the encoders (VE, AE) and the    *)
(* image processor (gemdroid_ip_decoder.cc, _encoder.cc, _nocoder.cc).     *)
(* The three classes have the same pipeline: lines are read into an input  *)
(* buffer, computed one by one, and written from an output buffer.  They   *)
(* differ in how many output lines appear after how many input lines, in   *)
(* the latency, and in the reference frame a video decoder reads first.    *)
(* The memory is a MemPort: it may refuse a request and answers later.     *)
(***************************************************************************)
EXTENDS GemDroidIP

CONSTANT Accelerators          \* the accelerators, with what init sets

Kind ==
  [class : {"decoder", "encoder", "nocoder"},
   isVD : BOOLEAN,                        \* the decoder is the video decoder
   computeLatency : Nat,
   inBufferSize : Nat \ {0},              \* in lines
   outBufferSize : Nat,
   coding_ratio : Nat \ {0},
   targetOutputChunkSizeInCL : Nat \ {0},
   frames : SUBSET Nat]                   \* the lines a call may bring

ASSUME AcceleratorAssumption == Accelerators \subseteq Kind

(* What the sizes in gemdroid.cc, gemdroid_defines.hh and the flows make   *)
(* true: a line takes time, also in an encoder, which divides its latency  *)
(* by the ratio (VE 18 / 16, AE 8 / 8); a video frame splits into fifths;  *)
(* and what an encoder or the image processor gets is a whole number of    *)
(* output chunks (FRAME_SIZE has 414720 lines, AUD_FRAME_SIZE 256).        *)
ASSUME FrameAssumption ==
  \A a \in Accelerators :
    /\ a.computeLatency > 0
    /\ a.class = "encoder" => a.computeLatency \div a.coding_ratio > 0
    /\ \A n \in a.frames :
         CASE a.class = "decoder" -> a.isVD => n % 5 = 0
           [] a.class = "encoder" -> n % (a.targetOutputChunkSizeInCL * a.coding_ratio) = 0
           [] a.class = "nocoder" -> n % a.targetOutputChunkSizeInCL = 0

VARIABLES
  acc,                          \* the accelerator this is
  m_dependenceCount,            \* lines of the reference frame to request
  m_reqCount,                   \* lines of the frame to request
  reqSent,                      \* input buffer places taken or reserved
  currInBuffer, currOutBuffer,
  m_cyclesToSkip,               \* cycles until the line in work is done
  inputProcessedInCL, inputToBeProcessedInCL,
  pending,                      \* of the port: reads that are not answered
  written                       \* history: lines of this call written so far

pipeVars == <<m_dependenceCount, m_reqCount, reqSent, currInBuffer, currOutBuffer,
              m_cyclesToSkip, inputProcessedInCL, inputToBeProcessedInCL, pending, written>>
vars == <<acc, powerVars, is_busy, frameStarted, pipeVars>>

isVD == acc.isVD
computeLatency == acc.computeLatency
inBufferSize == acc.inBufferSize
outBufferSize == acc.outBufferSize
coding_ratio == acc.coding_ratio
targetOutputChunkSizeInCL == acc.targetOutputChunkSizeInCL

(* m_dependenceCount and the counts of a call are not set by init; they    *)
(* read as zero, like is_busy.                                             *)
Init ==
  /\ acc \in Accelerators
  /\ IPInit
  /\ m_dependenceCount = 0 /\ m_reqCount = -1 /\ reqSent = 0
  /\ currInBuffer = 0 /\ currOutBuffer = 0
  /\ m_cyclesToSkip = 0
  /\ inputProcessedInCL = 0 /\ inputToBeProcessedInCL = 0
  /\ pending = 0 /\ written = 0

-----------------------------------------------------------------------------
(* Calls.  A busy accelerator refuses.                                     *)

CeilTenths(n, k) == (n * k + 9) \div 10

(* Mutant of DecoderCall: the frame is read whole, too. *)
MutWholeFrame(n, isPFrame) ==
  /\ m_reqCount' = n
  /\ m_dependenceCount' = IF isVD /\ isPFrame THEN CeilTenths(n, 4) ELSE m_dependenceCount

(* A video decoder splits a P-frame: 4/10 of the lines come from the       *)
(* reference frame, 6/10 from the frame.                                   *)
DecoderCall(n, isPFrame) ==
  IF isVD /\ isPFrame
    THEN m_dependenceCount' = CeilTenths(n, 4) /\ m_reqCount' = CeilTenths(n, 6)
    ELSE UNCHANGED m_dependenceCount /\ m_reqCount' = n

EncoderCall(n) == m_reqCount' = n /\ UNCHANGED m_dependenceCount
NocoderCall(n) == m_reqCount' = n /\ UNCHANGED m_dependenceCount

enqueueIPReq(n) ==
  /\ ~is_busy
  /\ is_busy' = TRUE
  /\ CASE acc.class = "decoder" -> \E isPFrame \in BOOLEAN : DecoderCall(n, isPFrame)
       [] acc.class = "encoder" -> EncoderCall(n)
       [] acc.class = "nocoder" -> NocoderCall(n)
  /\ m_cyclesToSkip' = 0
  /\ inputProcessedInCL' = 0 /\ inputToBeProcessedInCL' = n
  /\ reqSent' = 0
  /\ written' = 0
  /\ WakeForCall
  /\ UNCHANGED <<currInBuffer, currOutBuffer, pending>>

(* The answer to a read; answers to writes change nothing. *)
memResponse ==
  /\ pending > 0
  /\ pending' = pending - 1
  /\ currInBuffer' = currInBuffer + 1
  /\ UNCHANGED <<powerVars, is_busy, frameStarted, m_dependenceCount, m_reqCount, reqSent,
                 currOutBuffer, m_cyclesToSkip, inputProcessedInCL, inputToBeProcessedInCL,
                 written>>

-----------------------------------------------------------------------------
(* One tick of an active, busy accelerator: sendDataOut, requestData (or   *)
(* requestDependentData), process, in this order.  out and in say whether  *)
(* SA accepts the write and the read.                                      *)

(* sendDataOut: how many lines leave, 0 or 1 *)
sendDataOut(out) == IF currOutBuffer > 0 /\ out THEN 1 ELSE 0

(* requestDependentData, requestData: whether a line is requested *)
requestDependentData(in) == m_dependenceCount > 0 /\ reqSent < inBufferSize /\ in

(* Mutant of requestData: no place in the input buffer is reserved. *)
MutNoReservation(in) == m_dependenceCount = 0 /\ m_reqCount > 0 /\ in

requestData(in) ==
  m_dependenceCount = 0 /\ m_reqCount > 0 /\ reqSent < inBufferSize /\ in

(* process, with buf lines left in the output buffer and sent places taken *)

OutputFull(buf, chunk) == buf + chunk > outBufferSize

Compute(buf, sent, chunk, inputs) ==
  /\ m_cyclesToSkip > 0
  /\ m_cyclesToSkip' = m_cyclesToSkip - 1
  /\ IF m_cyclesToSkip = 1
       THEN /\ inputProcessedInCL' = inputProcessedInCL + 1
            /\ currOutBuffer' = IF (inputProcessedInCL + 1) % inputs = 0
                                  THEN buf + chunk ELSE buf
       ELSE inputProcessedInCL' = inputProcessedInCL /\ currOutBuffer' = buf
  /\ reqSent' = sent
  /\ UNCHANGED currInBuffer

(* Mutant of TakeInput: the place in the input buffer is not given back. *)
MutKeepPlace(buf, sent, latency) ==
  /\ m_cyclesToSkip = 0 /\ currInBuffer > 0
  /\ m_cyclesToSkip' = latency
  /\ currInBuffer' = currInBuffer - 1
  /\ reqSent' = sent
  /\ currOutBuffer' = buf
  /\ UNCHANGED inputProcessedInCL

TakeInput(buf, sent, latency) ==
  /\ m_cyclesToSkip = 0 /\ currInBuffer > 0
  /\ m_cyclesToSkip' = latency
  /\ currInBuffer' = currInBuffer - 1
  /\ reqSent' = sent - 1
  /\ currOutBuffer' = buf
  /\ UNCHANGED inputProcessedInCL

Stall(buf, sent) ==
  /\ currOutBuffer' = buf
  /\ reqSent' = sent
  /\ UNCHANGED <<m_cyclesToSkip, inputProcessedInCL, currInBuffer>>

process(buf, sent, chunk, inputs, latency) ==
  IF inputProcessedInCL < inputToBeProcessedInCL /\ ~OutputFull(buf, chunk)
    THEN \/ Compute(buf, sent, chunk, inputs)
         \/ TakeInput(buf, sent, latency)
         \/ m_cyclesToSkip = 0 /\ currInBuffer = 0 /\ Stall(buf, sent)
    ELSE Stall(buf, sent)

(* The rest of a working tick, with the numbers of a class: after `inputs` *)
(* lines, `chunk` lines are output; a line takes `latency` cycles.         *)
Work(out, in, chunk, inputs, latency) ==
  LET dependent == requestDependentData(in)
      own       == requestData(in)
      asked     == IF dependent \/ own THEN 1 ELSE 0
  IN
  /\ m_dependenceCount' = IF dependent THEN m_dependenceCount - 1 ELSE m_dependenceCount
  /\ m_reqCount' = IF own THEN m_reqCount - 1 ELSE m_reqCount
  /\ pending' = pending + asked
  /\ written' = written + sendDataOut(out)
  /\ process(currOutBuffer - sendDataOut(out), reqSent + asked, chunk, inputs, latency)

DecoderWork(out, in) == Work(out, in, coding_ratio, 1, computeLatency)

EncoderWork(out, in) ==
  Work(out, in, targetOutputChunkSizeInCL, targetOutputChunkSizeInCL * coding_ratio,
       computeLatency \div coding_ratio)

NocoderWork(out, in) ==
  Work(out, in, targetOutputChunkSizeInCL, targetOutputChunkSizeInCL, computeLatency)

(* Mutant of Finished: what is left in the output buffer is not waited for.*)
MutForgetOutput == inputProcessedInCL' = inputToBeProcessedInCL

(* At the end of the tick: everything is processed and written. *)
Finished == inputProcessedInCL' = inputToBeProcessedInCL /\ currOutBuffer' = 0

tick(out, in) ==
  \/ NotWorking /\ UNCHANGED <<is_busy, pipeVars>>
  \/ /\ Working /\ ~is_busy
     /\ idleCycles' = idleCycles + 1
     /\ UNCHANGED <<power_state, cyclesToWake, is_busy, frameStarted, pipeVars>>
  \/ /\ Working /\ is_busy
     /\ CASE acc.class = "decoder" -> DecoderWork(out, in)
          [] acc.class = "encoder" -> EncoderWork(out, in)
          [] acc.class = "nocoder" -> NocoderWork(out, in)
     /\ is_busy' = ~Finished
     /\ IF Finished THEN markIPRequestCompleted ELSE UNCHANGED frameStarted
     /\ UNCHANGED <<powerVars, inputToBeProcessedInCL>>

Next ==
  /\ \/ \E n \in acc.frames : enqueueIPReq(n)
     \/ \E out, in \in BOOLEAN : tick(out, in)
     \/ memResponse
  /\ UNCHANGED acc

Spec == Init /\ [][Next]_vars

(* The clock of the accelerator never stops, the port answers              *)
(* (MemPort!Fairness) and refuses neither reads nor writes forever.        *)
Fairness ==
  /\ WF_vars(UNCHANGED acc /\ \E out, in \in BOOLEAN : tick(out, in))
  /\ SF_vars(UNCHANGED acc /\ \E out \in BOOLEAN : tick(out, TRUE) /\ pending' = pending + 1)
  /\ SF_vars(UNCHANGED acc /\ \E in \in BOOLEAN : tick(TRUE, in) /\ written' = written + 1)
  /\ WF_vars(UNCHANGED acc /\ memResponse)

FairSpec == Spec /\ Fairness

-----------------------------------------------------------------------------
(* The input buffer has a place for every line that is on its way: what is *)
(* reserved is what is buffered or requested, and never more than the      *)
(* buffer holds.  The output buffer never overflows.                       *)
BuffersFit ==
  /\ is_busy => currInBuffer + pending = reqSent
  /\ reqSent <= inBufferSize
  /\ currOutBuffer <= outBufferSize

(* Every input line of a call is still to be requested, on its way, in the *)
(* buffer, in work or processed: none is lost, none is read twice.  A free *)
(* accelerator has nothing left over, so the assertions of the next call   *)
(* (currInBuffer == 0, currOutBuffer == 0) hold.                           *)
LinesAccounted ==
  IF is_busy
    THEN m_dependenceCount + m_reqCount + pending + currInBuffer
           + (IF m_cyclesToSkip > 0 THEN 1 ELSE 0) + inputProcessedInCL
         = inputToBeProcessedInCL
    ELSE /\ pending = 0 /\ m_dependenceCount = 0 /\ m_reqCount <= 0
         /\ currInBuffer = 0 /\ currOutBuffer = 0 /\ m_cyclesToSkip = 0

(* What a call must produce *)
OutputOf(n) == CASE acc.class = "decoder" -> n * coding_ratio
                 [] acc.class = "encoder" -> n \div coding_ratio
                 [] acc.class = "nocoder" -> n

(* When the accelerator is free again, it has written the whole output. *)
OutputComplete == ~is_busy => written = OutputOf(inputToBeProcessedInCL)

(* "eventually this IP call will be serviced": a busy accelerator becomes  *)
(* free.                                                                   *)
CallsFinish == is_busy ~> ~is_busy
=============================================================================
