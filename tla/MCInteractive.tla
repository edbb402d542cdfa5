--------------------------- MODULE MCInteractive ---------------------------
(* INTERACTIVE with the core and the image processor, on shortened tables. *)
EXTENDS GemDroidInteractive

MCIPs == {"IMG"}
MCOpt == [u \in MCIPs \cup {"CPU"} |-> 1]

(* governor_timing 1, the default: an epoch every millisecond. *)
MCConfigs ==
  {[governor |-> "INTERACTIVE", governor_timing |-> 1, flow |-> <<"CAM", "IMG", "DC">>,
    override |-> FALSE, ind |-> MCOpt, mem |-> 8]}
=============================================================================
