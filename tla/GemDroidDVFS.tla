---------------------------- MODULE GemDroidDVFS ----------------------------
(***************************************************************************)
(* The governors (gemdroid_dvfs.cc).  Every dvfsPeriod GemDroid::tick lets *)
(* the governor move the core, the IPs and the memory through their tables *)
(* of frequencies, then derives the clocks from them.  Between two such    *)
(* epochs a unit that becomes active may change its own frequency.         *)
(*                                                                         *)
(* The estimates of time, energy and power that a governor compares are    *)
(* floating-point functions of the measurements; here each comparison may  *)
(* turn out either way.  What it decides is as in the code.                *)
(***************************************************************************)
EXTENDS GemDroidMemFreq, Sequences, Functions

CONSTANTS
  Configs,                \* options of a run: governor and its timing, flow 0 of
                          \* the application, whether dvfsDynamicProg1 overrides its
                          \* own choice for it, and the initial frequencies
  IPs,                    \* the IPs, by type; the core is "CPU"
  optDVFSState,           \* optimal index of each unit
  CORE_DVFS_STATES,
  IP_DVFS_STATES,
  INTERACTIVE_GOVERNOR_LAT

CPU == "CPU"
Units == IPs \cup {CPU}
MaxInd(u) == IF u = CPU THEN CORE_DVFS_STATES - 1 ELSE IP_DVFS_STATES - 1

LoadGovernors == {"ONDEMAND", "BUILDING", "INTERACTIVE", "POWERCAP"}
(* The ones that share setDVFSSlackFrequencies after dvfsMemory. *)
ConsumerGovernors == {"FAR_ENERGY", "MAXENERGY", "MAXPOWER", "MAXENERGYPERTIME"}
SlackGovernors == ConsumerGovernors \cup {"SLACK", "KNAPSACK", "DYNAMICPROG"}
FixedGovernors == {"DISABLED", "OPTIMAL", "PERFORMANCE", "POWERSAVE"}
Governors == LoadGovernors \cup SlackGovernors \cup FixedGovernors
             \cup {"CORE_ORACLE", "COSCALE", "MEMSCALE"}

ASSUME DVFSAssumption ==
  /\ CPU \notin IPs
  /\ CORE_DVFS_STATES \in Nat /\ CORE_DVFS_STATES > 2
  /\ IP_DVFS_STATES \in Nat /\ IP_DVFS_STATES > 1
  /\ INTERACTIVE_GOVERNOR_LAT \in Nat \ {0}
  /\ optDVFSState \in [Units -> Nat]
  /\ \A u \in Units : optDVFSState[u] <= MaxInd(u)
  /\ \A c \in Configs :
       /\ c.governor \in Governors /\ c.governor_timing \in Nat \ {0} 
       /\ c.flow \in Seq(STRING) /\ c.override \in BOOLEAN
       /\ c.ind \in [Units -> Nat] /\ \A u \in Units : c.ind[u] <= MaxInd(u)
       /\ c.mem \in 3..10

VARIABLES
  config,                 \* the options, fixed for a run
  dvfsState,              \* index of each unit in its table
  dvfsCounter,            \* epochs a unit stays at its maximum; read, and kept
                          \* here, under INTERACTIVE only
  memFreq,
  clock,                  \* the index cpuFreqMultipliers or ipFreqMultipliers
                          \* was derived from
  memClock,               \* likewise of memFreqMultiplier
  aborted,                \* an assertion has ended the simulation
  woken                   \* history: the units active again since the last epoch

vars == <<config, dvfsState, dvfsCounter, memFreq, clock, memClock, aborted, woken>>

governor == config.governor
FlowUnits == Range(config.flow) \cap Units
FlowAccs == SelectSeq(config.flow, LAMBDA u : u \in Units)

-----------------------------------------------------------------------------
(* initDVFS: POWERCAP, COSCALE and MEMSCALE start from the options. *)
InitInd(c, u) ==
  CASE c.governor \in SlackGovernors \cup {"OPTIMAL"} -> optDVFSState[u]
    [] c.governor \in {"PERFORMANCE", "ONDEMAND", "INTERACTIVE", "BUILDING", "CORE_ORACLE"} ->
         MaxInd(u)
    [] c.governor = "POWERSAVE" -> IF u = CPU THEN 2 ELSE 0
    [] OTHER -> c.ind[u]

(* Mutant of InitMem: the optimum of the memory is 0.7 GHz. *)
MutInitMem(c) ==
  CASE c.governor \in {"OPTIMAL", "POWERSAVE"} -> Literal(5)
    [] c.governor = "PERFORMANCE" -> MAX_MEM_FREQ
    [] c.governor \in {"ONDEMAND", "INTERACTIVE", "BUILDING", "CORE_ORACLE"} -> Literal(9)
    [] c.governor \in SlackGovernors -> Literal(7)
    [] OTHER -> Literal(c.mem)

InitMem(c) ==
  CASE c.governor \in {"OPTIMAL", "POWERSAVE"} -> Literal(5)
    [] c.governor = "PERFORMANCE" -> MAX_MEM_FREQ
    [] c.governor \in {"ONDEMAND", "INTERACTIVE", "BUILDING", "CORE_ORACLE"} -> Literal(9)
    [] c.governor \in SlackGovernors -> Literal(8)
    [] OTHER -> Literal(c.mem)

Init ==
  /\ config \in Configs
  /\ dvfsState = [u \in Units |-> InitInd(config, u)]
  /\ dvfsCounter = [u \in Units |-> IF governor = "INTERACTIVE"
                                      THEN INTERACTIVE_GOVERNOR_LAT ELSE 0]
  /\ memFreq = InitMem(config)
  /\ clock = dvfsState /\ memClock = memFreq
  /\ aborted = FALSE
  /\ woken = {}

-----------------------------------------------------------------------------
(* Every way to pick a member of S[u] for each unit u. *)
PickEach(S) ==
  UNION {{f \in [Units -> UNION Range(T)] : \A u \in Units : f[u] \in T[u]} : T \in {S}}

(* getCoreFreq(ind) and getIPFreq(ind) take an index beyond the table for  *)
(* the nearest one in it.                                                  *)
Clamp(u, i) == IF i > MaxInd(u) THEN MaxInd(u) ELSE IF i < 0 THEN 0 ELSE i

incFreq(u, d, steps) ==
  IF u = CPU THEN (IF d < MaxInd(u) THEN d + steps ELSE d)
  ELSE IF d < MaxInd(u) - steps THEN d + steps ELSE MaxInd(u)

(* Mutant of decFreq: it goes below the table. *)
MutUnderflow(d, counter) ==
  IF governor = "INTERACTIVE" /\ counter > 0 THEN d ELSE d - 1

decFreq(d, counter) ==
  IF governor = "INTERACTIVE" /\ counter > 0 THEN d
  ELSE IF d > 0 THEN d - 1 ELSE d

(* getFreqForPower: the lowest frequency if its power is within what is    *)
(* left of the budget, else the highest.  For a core the frequency, 0.3 or *)
(* 1.8 GHz, is cut to an integer and then used as an index.                *)
setMaxAllowedFreq(u) == IF u = CPU THEN {0, 1} ELSE {0, MaxInd(u)}

-----------------------------------------------------------------------------
(* dvfsLoadBased: what a unit may become with a load that is high, low or  *)
(* neither; an IP not measured yet is not looked at.                       *)
LoadBased(u, load, counter) ==
  LET d == dvfsState[u]
  IN CASE load = "high" /\ governor \in {"ONDEMAND", "INTERACTIVE"} -> {MaxInd(u)}
       [] load = "high" /\ governor = "BUILDING" -> {incFreq(u, d, IF u = CPU THEN 2 ELSE 1)}
       [] load = "high" /\ governor = "POWERCAP" -> setMaxAllowedFreq(u)
       [] load = "low" -> {decFreq(d, counter)}
       [] OTHER -> {d}

dvfsLoadBased(counter) ==
  \E load \in [Units -> {"high", "low", "neither"}] :
    /\ dvfsState' \in PickEach([u \in Units |-> LoadBased(u, load[u], counter[u])])
    /\ dvfsCounter' = [u \in Units |-> IF load[u] = "high" /\ governor = "INTERACTIVE"
                                         THEN INTERACTIVE_GOVERNOR_LAT ELSE counter[u]]
    /\ UNCHANGED <<memFreq, aborted>>

-----------------------------------------------------------------------------
(* setCoreFreqInd, setIPFreqInd and setMemFreq with their assertions. *)
SetFreqs(ind, mem) ==
  /\ dvfsState' = ind /\ memFreq' = mem
  /\ aborted' = (~Settable(mem) \/ \E u \in Units : ind[u] \notin 0..MaxInd(u))

(* getFreqForSlackOptimal: too little slack takes a unit up two steps; a   *)
(* unit above its optimum goes down as far as the slack lasts.             *)
getFreqForSlackOptimal(u, negative) ==
  LET d == dvfsState[u]
      low == IF u = "IMG" THEN d - 2 ELSE optDVFSState[u]
  IN IF negative THEN {Clamp(u, d + 2)}
     ELSE IF d > optDVFSState[u] THEN {Clamp(u, k) : k \in low..d}
     ELSE IF u = CPU THEN {optDVFSState[u]} ELSE {d}

(* Units served one after the other from what the slack is then: of either *)
(* sign for all but the first.                                             *)
Serve(first, served, negative) ==
  PickEach([u \in Units |->
    IF u = first THEN getFreqForSlackOptimal(u, negative)
    ELSE IF u \in served
      THEN getFreqForSlackOptimal(u, TRUE) \cup getFreqForSlackOptimal(u, FALSE)
    ELSE {dvfsState[u]}])

(* The order of service follows from the energies. *)
setDVFSSlackFrequencies(served, negative) ==
  IF served = {} THEN {dvfsState}
  ELSE UNION {Serve(u, served, negative) : u \in served}

(* The frequencies from f down to the floor, or, from below the floor, to  *)
(* one that setMemFreq refuses.                                            *)
Lowered(f, floor) ==
  {StepsDown(f, n) : n \in 0..(f.k - IF f.k >= floor THEN floor ELSE 2)}

(* Mutant of dvfsMemory: a memory at its maximum takes a step up, too. *)
MutAboveMax(negative) ==
  IF negative THEN {IF Less(MAX_MEM_FREQ, memFreq) THEN memFreq ELSE Plus01[memFreq]}
  ELSE Lowered(memFreq, IF governor \in {"MAXENERGY", "FAR_ENERGY"} THEN 4 ELSE 3)

(* dvfsMemory: one step up when the slack is negative, else down as far as *)
(* the slack lasts.  The slack left keeps its sign.                        *)
dvfsMemory(negative) ==
  IF negative THEN {IF Less(memFreq, MAX_MEM_FREQ) THEN Plus01[memFreq] ELSE memFreq}
  ELSE Lowered(memFreq, IF governor \in {"MAXENERGY", "FAR_ENERGY"} THEN 4 ELSE 3)

-----------------------------------------------------------------------------
dvfsCoreOracle(negative) ==
  \E measured \in SUBSET (FlowUnits \cap {CPU}) :
    \E ind \in setDVFSSlackFrequencies(measured, negative) : SetFreqs(ind, memFreq)

dvfsFixedPriority(negative) ==
  \E measured \in SUBSET FlowUnits, mem \in dvfsMemory(negative) :
    LET first == Head(SelectSeq(config.flow, LAMBDA u : u \in measured))
    IN \E ind \in IF measured = {} THEN {dvfsState} ELSE Serve(first, measured, negative) :
         SetFreqs(ind, mem)

(* Units that consume most come first when there is slack to spend, those  *)
(* that consume least when it is missing, then only until it is positive:  *)
(* with those not measured yet, any of them may be left out.               *)
ServeConsumers(consumers, negative) ==
  \E served \in SUBSET consumers, mem \in dvfsMemory(negative) :
    \E ind \in setDVFSSlackFrequencies(served, negative) : SetFreqs(ind, mem)

dvfsParetoEfficient(negative) == ServeConsumers(FlowUnits \cup {CPU}, negative)
dvfsMaxEnergyConsumer(negative) == ServeConsumers(FlowUnits \cup {CPU}, negative)
dvfsMaxPowerConsumer(negative) == ServeConsumers(FlowUnits \cup {CPU}, negative)
dvfsMaxEnergyPerTimeConsumer(negative) == ServeConsumers(FlowUnits, negative)

-----------------------------------------------------------------------------
(* Trading memory for a unit: as long as a faster unit u pays for a slower *)
(* memory, both take a step.                                               *)
Trade(mem, u) ==
  LET d == dvfsState[u]
      down[i \in 0..(mem.k - 3)] == IF i = 0 THEN mem ELSE decMemFreq(down[i - 1])
  IN \E n \in 0..(mem.k - 3) :
       \E i \in IF n = 0 THEN {d} ELSE (d + n)..MaxInd(u) :
         SetFreqs([dvfsState EXCEPT ![u] = i], down[n])

dvfsGreedyKnapsack(negative) ==
  IF negative
    THEN \E served \in SUBSET FlowUnits :
           \E ind \in setDVFSSlackFrequencies(served, TRUE),
              mem \in dvfsMemory(TRUE) \cup (IF served = {} THEN {} ELSE {memFreq}) :
                SetFreqs(ind, mem)
    ELSE \E mem \in dvfsMemory(FALSE) :
           \/ /\ About(mem, MIN_MEM_FREQ)
              /\ \E served \in SUBSET FlowUnits :
                   \E ind \in setDVFSSlackFrequencies(served, FALSE) : SetFreqs(ind, mem)
           \/ /\ ~About(mem, MIN_MEM_FREQ)
              /\ SetFreqs(dvfsState, mem) \/ \E u \in FlowUnits : Trade(mem, u)

-----------------------------------------------------------------------------
(* What the loops of dvfsDynamicProg try for the memory: 1.0 GHz and down, *)
(* 0.1 at a time, to the least.                                            *)
MemTried(least) ==
  {f \in {StepsDown(MAX_MEM_FREQ, n) : n \in 0..7} : ~Less(f, least)}

(* The indices they try: negative ones are taken for 0. *)
Tried(u) == {Clamp(u, i) : i \in (dvfsState[u] - 2)..MaxInd(u)}

(* dvfsDynamicProg1: the last of equally good indices is taken, so where 0 *)
(* is the best, the lowest one tried.                                      *)
dvfsDynamicProg1(u) ==
  LET lowest == dvfsState[u] - 2
      Set(i, mem) == SetFreqs([dvfsState EXCEPT ![u] = i], mem)
  IN \/ SetFreqs(dvfsState, memFreq)
     \/ config.override /\ Set(0, Literal(5))
     \/ /\ ~config.override
        /\ \/ Set(MaxInd(u), MAX_MEM_FREQ)
           \/ \E mem \in MemTried(Literal(6)), i \in Tried(u) :
                Set(IF i = 0 /\ lowest < 0 THEN lowest ELSE i, mem)

(* dvfsDynamicProg2: the first of equally good pairs is taken. *)
dvfsDynamicProg2(u) ==
  \/ SetFreqs(dvfsState, memFreq)
  \/ SetFreqs([dvfsState EXCEPT ![CPU] = MaxInd(CPU), ![u] = MaxInd(u)], MAX_MEM_FREQ)
  \/ \E mem \in MemTried(MIN_MEM_FREQ), c \in Tried(CPU), i \in Tried(u) :
       SetFreqs([dvfsState EXCEPT ![CPU] = c, ![u] = i], mem)

dvfsDynamicProg ==
  LET accs == FlowAccs
  IN CASE Len(accs) = 1 /\ accs[1] # CPU -> dvfsDynamicProg1(accs[1])
       [] Len(accs) = 2 -> dvfsDynamicProg2(accs[2])
       [] OTHER -> aborted' = TRUE /\ UNCHANGED <<dvfsState, memFreq>>

-----------------------------------------------------------------------------
(* dvfsMemScale: the core and the IPs are all or nothing, the memory takes *)
(* the slack.                                                              *)
MemScaled(u, load) ==
  CASE load = "high" -> MaxInd(u) [] load = "low" -> 0 [] OTHER -> dvfsState[u]

dvfsMemScale(negative) ==
  \E load \in [Units -> {"high", "low", "neither"}], mem \in dvfsMemory(negative) :
    SetFreqs([u \in Units |-> MemScaled(u, load[u])], mem)

(* dvfsCoScaleNewNew: the units of the flow in turn, each inactive, or too *)
(* slow, or with time to spare.  They share the frequency wanted, mem, and *)
(* the one tried last, cursor; most is the highest wanted so far.          *)
CoScaleMem(verdict) ==
  LET none == [k |-> 0, e |-> 0]
      Most(f, g) == IF Less(f, g) THEN g ELSE f
      Unit(s, i) ==
        LET n == s.cursor.k - 3
            least == IF n = 0 THEN 0 ELSE 1
            device == config.flow[i] \notin Units
        IN CASE verdict[i] = "inactive" \/ (verdict[i] = "spare" /\ device /\ n = 0) -> {s}
             [] verdict[i] = "slow" ->
                  {[s EXCEPT !.mem = IF Less(@, MAX_MEM_FREQ) THEN Plus01[@] ELSE @]}
             [] OTHER ->
                  UNION {{[s EXCEPT !.cursor = StepsDown(@, j), !.mem = f] :
                            f \in {s.mem} \cup {StepsDown(s.cursor, h) : h \in least..j}} :
                         j \in least..n}
      after[i \in 0..Len(config.flow)] ==
        IF i = 0 THEN {[mem |-> memFreq, cursor |-> memFreq, most |-> none]}
        ELSE {[s EXCEPT !.most = IF verdict[i] = "inactive" THEN @ ELSE Most(@, s.mem)] :
                s \in UNION {Unit(t, i) : t \in after[i - 1]}}
  IN {IF s.most = none THEN memFreq ELSE s.most : s \in after[Len(config.flow)]}

(* The index of a unit: the core goes up from where it is, an IP from 0. *)
CoScaled(u, v) ==
  LET d == dvfsState[u]
      spare == IF d > optDVFSState[u] THEN optDVFSState[u]..(d - 1) ELSE {d}
  IN CASE v = "slow" -> {Clamp(u, IF u = CPU THEN d + 1 ELSE 1)}
       [] v = "spare" -> spare \cup {IF u = CPU THEN d ELSE 0}
       [] OTHER -> {d}

dvfsCoScaleNewNew ==
  \E verdict \in [DOMAIN config.flow -> {"inactive", "slow", "spare"}] :
    \E ind \in PickEach([u \in Units |->
                 IF \E i \in DOMAIN config.flow : config.flow[i] = u
                 THEN CoScaled(u, verdict[CHOOSE i \in DOMAIN config.flow : config.flow[i] = u])
                 ELSE {dvfsState[u]}]),
       mem \in CoScaleMem(verdict) :
         SetFreqs(ind, mem)

-----------------------------------------------------------------------------
(* governor_timing is a period in ms and, at the same time, a kind of      *)
(* timing: 4 is GOVERNOR_TIMING_FRAME_BOUNDARIES, and nothing ever sets    *)
(* doSlackDVFS.                                                            *)
FrameBoundaries == config.governor_timing = 4

(* The governors that go by the slack of flow 0. *)
SlackBased(negative) ==
  CASE governor = "SLACK" -> dvfsFixedPriority(negative)
    [] governor = "CORE_ORACLE" -> dvfsCoreOracle(negative)
    [] governor = "FAR_ENERGY" -> dvfsParetoEfficient(negative)
    [] governor = "MAXENERGY" -> dvfsMaxEnergyConsumer(negative)
    [] governor = "MAXPOWER" -> dvfsMaxPowerConsumer(negative)
    [] governor = "MAXENERGYPERTIME" -> dvfsMaxEnergyPerTimeConsumer(negative)
    [] governor = "KNAPSACK" -> dvfsGreedyKnapsack(negative)
    [] governor = "COSCALE" -> dvfsCoScaleNewNew
    [] governor = "MEMSCALE" -> dvfsMemScale(negative)
    [] governor = "DYNAMICPROG" -> dvfsDynamicProg

(* Core and IP updateDVFS. *)
Counted ==
  [u \in Units |-> IF governor = "INTERACTIVE" /\ dvfsCounter[u] > 0
                     THEN dvfsCounter[u] - 1 ELSE dvfsCounter[u]]

(* Before the first frame is done the slack is the whole deadline. *)
updateDVFS ==
  \/ UNCHANGED <<dvfsState, dvfsCounter, memFreq, aborted>>
  \/ governor \in LoadGovernors /\ dvfsLoadBased(Counted)
  \/ /\ governor \notin LoadGovernors
     /\ IF FrameBoundaries THEN SetFreqs(dvfsState, memFreq)
        ELSE \E negative \in BOOLEAN : SlackBased(negative)
     /\ dvfsCounter' = Counted

(* Mutant of Epoch: the clocks are derived anew only when the governor     *)
(* has changed a frequency.                                                *)
MutLazyClocks ==
  /\ ~aborted /\ governor \notin FixedGovernors
  /\ updateDVFS
  /\ clock' = IF dvfsState' = dvfsState THEN clock ELSE dvfsState'
  /\ memClock' = memFreq'
  /\ woken' = {}
  /\ UNCHANGED config

(* The part of tick that is done every dvfsPeriod. *)
Epoch ==
  /\ ~aborted /\ governor \notin FixedGovernors
  /\ updateDVFS
  /\ clock' = dvfsState' /\ memClock' = memFreq'
  /\ woken' = {}
  /\ UNCHANGED config

(* setPStateActive of the core or of an IP after VD; no other unit and no  *)
(* other governor has its frequency changed.  When units sleep is left     *)
(* open.                                                                   *)
setPStateActive(u) ==
  /\ ~aborted /\ u # "VD" /\ governor \in {"INTERACTIVE", "POWERCAP"}
  /\ dvfsState' = [dvfsState EXCEPT ![u] = IF governor = "INTERACTIVE" THEN MaxInd(u)
                                           ELSE optDVFSState[u]]
  /\ dvfsCounter' = IF governor = "INTERACTIVE"
                      THEN [dvfsCounter EXCEPT ![u] = INTERACTIVE_GOVERNOR_LAT]
                      ELSE dvfsCounter
  /\ woken' = woken \cup {u}
  /\ UNCHANGED <<config, memFreq, clock, memClock, aborted>>

Next == Epoch \/ \E u \in Units : setPStateActive(u)

Spec == Init /\ [][Next]_vars

-----------------------------------------------------------------------------
(* No governor takes a unit out of its table, however loads, slack and     *)
(* wake-ups follow each other, but BUILDING, whose incFreq(2) may leave    *)
(* the core one entry beyond its end.                                      *)
InTable ==
  aborted \/ \A u \in Units :
    dvfsState[u] \in 0..(MaxInd(u) + IF u = CPU /\ governor = "BUILDING" THEN 1 ELSE 0)

(* The assertions of setMemFreq, setCoreFreqInd, setIPFreqInd and          *)
(* dvfsDynamicProg hold with every governor but two kinds: DYNAMICPROG,    *)
(* and those that let the memory start at any of its frequencies.          *)
Survives ==
  aborted => \/ governor = "DYNAMICPROG"
             \/ governor \in {"MEMSCALE", "COSCALE"} /\ config.mem < 8

(* Up and down by rounded steps of 0.1 the memory comes back to the very   *)
(* doubles it left: under a governor that starts at 0.8 GHz the steps are  *)
(* those of one ladder.                                                    *)
NoDrift ==
  governor \in SlackGovernors \ {"DYNAMICPROG"} =>
    \E f \in {StepsDown(MAX_MEM_FREQ, n) : n \in 0..7} : memFreq = f

(* The clocks are those of the frequencies set last, but for a unit that   *)
(* has become active since the last epoch.                                 *)
ClocksFollow ==
  /\ memClock = memFreq
  /\ \A u \in Units : clock[u] # dvfsState[u] => u \in woken

(* "freq <= (MAX_MEM_FREQ+EPSILON)" of setMemFreq, and the other           *)
(* assertions, with every governor and from every frequency.               *)
AssertionsHold == ~aborted
=============================================================================
