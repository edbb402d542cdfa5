--------------------------- MODULE GemDroidFlows ---------------------------
(***************************************************************************)
(* The flow tables of GemDroid: which IP calls which.  An application is a *)
(* set of flows, a flow is a sequence of IP types (0 is the CPU), and a    *)
(* finished IP calls the next IP of its flow through the System Agent.     *)
(* The operators are those of gemdroid.cc, gemdroid_sa.cc and              *)
(* gemdroid_core.cc that read the table; they have no state.               *)
(***************************************************************************)
EXTENDS Integers, Sequences, FiniteSetsExt, Functions

(* enum IP_TYPE *)
IP_TYPE_CPU == 0
IP_TYPE_DC == 1
IP_TYPE_NW == 2
IP_TYPE_SND == 3
IP_TYPE_MIC == 4
IP_TYPE_CAM == 5
IP_TYPE_MMC_IN == 6
IP_TYPE_MMC_OUT == 7
IP_TYPE_VD == 8
IP_TYPE_VE == 9
IP_TYPE_AD == 10
IP_TYPE_AE == 11
IP_TYPE_IMG == 12
IP_TYPE_GPU == 13
IP_TYPE_END == 16

(* The types SA keeps a queue of calls for (14 and 15 have no instance).   *)
IPTypes == IP_TYPE_DC .. IP_TYPE_GPU

(* The -1 that pads the tables. *)
NoIP == -1

(***************************************************************************)
(* flowTable: flows.txt, for the application ids that enum APP_ID knows.   *)
(***************************************************************************)
flowTable ==
  [app \in 0 .. 12 |->
     CASE app = 0  -> << <<0, 8, 1>>, <<10, 3>> >>
       [] app = 1  -> << <<0, 5, 12, 1>>, <<0, 5, 9, 7>>, <<0, 4, 11>> >>
       [] app = 2  -> << <<0, 5, 12, 1>>, <<0, 5, 12, 7>> >>
       [] app = 3  -> << <<0, 6, 10, 3>> >>
       [] app = 4  -> << <<5, 12, 1>>, <<13, 1>>, <<0, 10, 3>> >>
       [] app = 5  -> << <<0, 6, 12, 1>> >>
       [] app = 6  -> << <<4, 11, 7>> >>
       [] app = 7  -> << <<0, 6, 8, 1>>, <<0, 6, 10, 3>> >>
       [] app = 8  -> << <<0, 1>>, <<13, 1>>, <<10, 3>> >>
       [] app = 9  -> << <<0, 8, 1>>, <<0, 5, 9, 2>>, <<0, 4, 11>>, <<0, 10, 3>> >>
       [] app = 10 -> << <<0, 12, 1>> >>
       [] app = 11 -> << <<13, 1>>, <<0, 9, 7>> >>
       [] app = 12 -> << <<0, 1, 9, 2>> >>]

Apps == DOMAIN flowTable

(* flowType: the type of a flow is its last IP. *)
flowType(flow) == flow[Len(flow)]

(* Mutant of nextIPtoCall: any flow with `curr` will do. *)
MutAnyFlow(curr, app, flow_type) ==
  LET hits == {i \in DOMAIN flowTable[app] : curr \in Range(flowTable[app][i])}
      flow == flowTable[app][Min(hits)]
      pos  == CHOOSE j \in DOMAIN flow : flow[j] = curr
  IN  IF hits = {} \/ pos = Len(flow) THEN NoIP ELSE flow[pos + 1]

(***************************************************************************)
(* nextIPtoCall: the IP after `curr` in the first flow of the application  *)
(* that contains it and is of the given type (ips[0], the only entry the   *)
(* callers look at); NoIP when there is none or `curr` is the last one.    *)
(***************************************************************************)
nextIPtoCall(curr, app, flow_type) ==
  LET hits == {i \in DOMAIN flowTable[app] :
                 /\ curr \in Range(flowTable[app][i])
                 /\ flowType(flowTable[app][i]) = flow_type}
      flow == flowTable[app][Min(hits)]
      pos  == CHOOSE j \in DOMAIN flow : flow[j] = curr
  IN  IF hits = {} \/ pos = Len(flow) THEN NoIP ELSE flow[pos + 1]

(***************************************************************************)
(* The calls enqueueIPResponse makes when an IP of type `sender` finishes  *)
(* a request of the given flow type, in the order it makes them.           *)
(***************************************************************************)
When(cond, ip) == IF cond THEN <<ip>> ELSE << >>

ChainedCalls(sender, app, flow_type) ==
  LET next(ft) == nextIPtoCall(sender, app, ft) IN
  CASE sender = IP_TYPE_CAM ->
         When(next(IP_TYPE_DC) = IP_TYPE_IMG, IP_TYPE_IMG)
           \o When(next(IP_TYPE_MMC_OUT) = IP_TYPE_VE, IP_TYPE_VE)
           \o When(next(IP_TYPE_NW) = IP_TYPE_VE, IP_TYPE_VE)
    [] sender = IP_TYPE_MIC -> <<IP_TYPE_AE>>
    [] sender \in {IP_TYPE_VD, IP_TYPE_GPU} -> <<IP_TYPE_DC>>
    [] sender = IP_TYPE_AD -> <<IP_TYPE_SND>>
    [] sender = IP_TYPE_IMG ->
         <<IP_TYPE_DC>>
           \o When(next(IP_TYPE_MMC_OUT) # NoIP, IP_TYPE_MMC_OUT)
    [] sender = IP_TYPE_VE -> When(next(IP_TYPE_VE) # IP_TYPE_NW, IP_TYPE_MMC_OUT)
    [] sender = IP_TYPE_AE -> When(next(IP_TYPE_AE) # IP_TYPE_NW, IP_TYPE_MMC_OUT)
    [] sender = IP_TYPE_MMC_IN ->
         LET ip == next(flow_type)
         IN  When(ip \in {IP_TYPE_AD, IP_TYPE_IMG, IP_TYPE_VD}, ip)
    [] OTHER -> << >>

(***************************************************************************)
(* The IP a trace line of a core calls (processIPCall), with the flow type *)
(* the call carries; NoIP when the line makes no call.  shouldFrameDrop is *)
(* what isFrameDrop answered.                                              *)
(***************************************************************************)
TraceOps == {"FB-UP", "NW", "SND-IN", "SND-OUT", "CAM"}

CallOf(op, app, shouldFrameDrop) ==
  LET call(ip, ft) == [ip |-> ip, flowType |-> ft]
      first(ft)    == nextIPtoCall(IP_TYPE_CPU, app, ft)
  IN CASE op = "FB-UP" ->
            IF shouldFrameDrop THEN call(IP_TYPE_DC, IP_TYPE_DC)
            ELSE IF first(IP_TYPE_DC) \in {IP_TYPE_VD, IP_TYPE_IMG, IP_TYPE_VE,
                                           IP_TYPE_MMC_IN, IP_TYPE_DC}
                   THEN call(first(IP_TYPE_DC), IP_TYPE_DC)
                   ELSE call(NoIP, IP_TYPE_DC)
       [] op = "NW" -> call(IP_TYPE_NW, IP_TYPE_END)
       [] op = "SND-IN" ->
            IF first(IP_TYPE_SND) \in {IP_TYPE_MMC_IN, NoIP}
              THEN call(first(IP_TYPE_SND), IP_TYPE_SND)
              ELSE call(IP_TYPE_AD, IP_TYPE_SND)
       [] op = "SND-OUT" -> call(IP_TYPE_MIC, IP_TYPE_MIC)
       [] op = "CAM" -> call(IP_TYPE_CAM, IP_TYPE_CAM)
=============================================================================
