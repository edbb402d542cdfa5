------------------------------- MODULE MCSoC -------------------------------
(* The SoC with one core, one IP that uses the memory, and two channels.   *)
(* The traces of a run hold memory accesses, or the calls of the camera    *)
(* game (application 4) with its GPU: coreWindow 0 stands for the latter.  *)
EXTENDS GemDroidSoC
CONSTANTS c1, ip1
MCCores == {c1}
MCIPs == {ip1}
(* The core and the IP meet in one channel; the IP also writes, to the     *)
(* other one.  Reads and writes keep SA busy for different times.          *)
MCTraffic ==
  {[src |-> c1,  isRead |-> TRUE,  chan |-> 1],
   [src |-> ip1, isRead |-> TRUE,  chan |-> 1],
   [src |-> ip1, isRead |-> FALSE, chan |-> 2]}
MCArGame == [c \in Cores |-> 4]
MCSkype == [c \in Cores |-> 9]
(* An in-order core and one with a window of four requests on the DRAM, an *)
(* in-order core on a perfect memory; a core that only calls IPs.          *)
MCOptions == {[perfectMemory |-> FALSE, coreWindow |-> 1],
              [perfectMemory |-> FALSE, coreWindow |-> 4],
              [perfectMemory |-> TRUE, coreWindow |-> 1],
              [perfectMemory |-> FALSE, coreWindow |-> 0]}

(* What the traces of a run do not hold does not happen in it. *)
InTrace ==
  IF coreWindow = 0 THEN \A r \in Requesters : outstanding'[r] = 0
  ELSE UNCHANGED <<ipReq, m_readFBLine>>

MCSpec == Init /\ [][Next /\ InTrace]_vars /\ CallFairness
=============================================================================
