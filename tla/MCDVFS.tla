------------------------------- MODULE MCDVFS -------------------------------
(* Every governor, with flow 0 of the applications YOUTUBE, ARGAME,        *)
(* ANGRYBIRDS and MPGAME, on shortened tables.  dvfsDynamicProg1 overrides *)
(* its choice for the last two.                                            *)
EXTENDS GemDroidDVFS

MCIPs == {"VD", "IMG", "GPU"}
MCOpt == [u \in MCIPs \cup {"CPU"} |-> IF u = "VD" THEN 1 ELSE 2]
Start(n) == [u \in MCIPs \cup {"CPU"} |-> n]

Youtube == <<"CPU", "VD", "DC">>
ARGame == <<"CAM", "IMG", "DC">>
AngryBirds == <<"CPU", "DC">>
MPGame == <<"GPU", "DC">>

Run(g, f, t, k) ==
  [governor |-> g, governor_timing |-> t, flow |-> f, override |-> f \in {AngryBirds, MPGame},
   ind |-> Start(3), mem |-> k]

MCConfigs ==
  {Run(g, Youtube, 1, 8) : g \in Governors \ {"COSCALE"}}
    \cup {Run(g, ARGame, 1, 8) : g \in SlackGovernors \cup {"COSCALE"}}
    \cup {Run("DYNAMICPROG", f, 1, 8) : f \in {AngryBirds, MPGame}}
    \cup {Run("SLACK", Youtube, 4, 8)}
    \cup {Run("COSCALE", AngryBirds, 1, 5), Run("MEMSCALE", Youtube, 1, 5)}

SlowConfigs == {Run("MEMSCALE", Youtube, 1, 5)}
=============================================================================
