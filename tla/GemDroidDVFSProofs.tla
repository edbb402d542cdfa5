------------------------- MODULE GemDroidDVFSProofs -------------------------
(***************************************************************************)
(* Proofs about the governors, for every table, every set of IPs and every *)
(* configuration: no unit leaves its table, the clocks follow the          *)
(* frequencies, and INTERACTIVE keeps its promise if epochs are long.      *)
(***************************************************************************)
EXTENDS GemDroidInteractive, WellFoundedInduction, TLAPS

(* The indices of all units *)
IsTable(ind) == ind = [u \in Units |-> ind[u]]

Top(u) == MaxInd(u) + IF u = CPU /\ governor = "BUILDING" THEN 1 ELSE 0

TableInv ==
  /\ config \in Configs
  /\ aborted \/ (IsTable(dvfsState) /\ \A u \in Units : dvfsState[u] \in 0..Top(u))

LEMMA MaxIndType ==
  ASSUME NEW u \in Units
  PROVE  /\ MaxInd(u) \in Nat /\ MaxInd(u) > 0 /\ (u = CPU => MaxInd(u) > 1)
         /\ optDVFSState[u] \in 0..MaxInd(u)
         /\ Top(u) \in Nat /\ MaxInd(u) <= Top(u)
<1>1. MaxInd(u) \in Nat /\ MaxInd(u) > 0 /\ (u = CPU => MaxInd(u) > 1)
  BY DVFSAssumption DEF MaxInd
<1> QED
  BY <1>1, DVFSAssumption DEF Top

LEMMA PickEachOf ==
  ASSUME NEW S, NEW f \in PickEach(S)
  PROVE  IsTable(f) /\ \A u \in Units : f[u] \in S[u]
BY DEF PickEach, IsTable

(* All the governors that go by the slack set the frequencies of all units *)
(* at once, through the assertions, or give up.                            *)
LEMMA SlackSets ==
  ASSUME NEW negative \in BOOLEAN, governor \in Governors \ (LoadGovernors \cup FixedGovernors),
         IsTable(dvfsState), SlackBased(negative)
  PROVE  aborted' \/ \E ind, mem : IsTable(ind) /\ SetFreqs(ind, mem)
<1> DEFINE Goal == \E ind, mem : IsTable(ind) /\ SetFreqs(ind, mem)
<1>s. ASSUME NEW first, NEW served, NEW n, NEW ind \in Serve(first, served, n)
      PROVE  IsTable(ind)
  BY <1>s, PickEachOf DEF Serve
<1>f. ASSUME NEW served, NEW n, NEW ind \in setDVFSSlackFrequencies(served, n)
      PROVE  IsTable(ind)
  BY <1>f, <1>s DEF setDVFSSlackFrequencies
<1>x. ASSUME NEW u, NEW i PROVE IsTable([dvfsState EXCEPT ![u] = i])
  BY DEF IsTable
<1>k. ASSUME NEW consumers, ServeConsumers(consumers, negative) PROVE Goal
  BY <1>k, <1>f DEF ServeConsumers
<1>1. CASE governor = "SLACK"
  <2>1. dvfsFixedPriority(negative)
    BY <1>1 DEF SlackBased
  <2>2. PICK measured \in SUBSET FlowUnits, mem \in dvfsMemory(negative) :
          \E first : \E ind \in IF measured = {} THEN {dvfsState}
                                                 ELSE Serve(first, measured, negative) :
            SetFreqs(ind, mem)
    BY <2>1 DEF dvfsFixedPriority
  <2> QED BY <1>s, <2>2
<1>2. CASE governor = "CORE_ORACLE"
  BY <1>2, <1>f DEF SlackBased, dvfsCoreOracle
<1>3. CASE governor \in ConsumerGovernors
  BY <1>3, <1>k, Zenon DEF SlackBased, ConsumerGovernors, dvfsParetoEfficient, dvfsMaxEnergyConsumer,
                    dvfsMaxPowerConsumer, dvfsMaxEnergyPerTimeConsumer
<1>4. CASE governor = "KNAPSACK"
  <2>1. dvfsGreedyKnapsack(negative)
    BY <1>4 DEF SlackBased
  <2>2. ASSUME NEW mem, NEW u, Trade(mem, u) PROVE Goal
    BY <2>2, <1>x, Zenon DEF Trade
  <2> QED BY <1>f, <2>1, <2>2, Zenon DEF dvfsGreedyKnapsack
<1>5. CASE governor = "COSCALE"
  <2>1. dvfsCoScaleNewNew
    BY <1>5 DEF SlackBased
  <2> QED BY <2>1, PickEachOf DEF dvfsCoScaleNewNew
<1>6. CASE governor = "MEMSCALE"
  <2>1. dvfsMemScale(negative)
    BY <1>6 DEF SlackBased
  <2>2. PICK load \in [Units -> {"high", "low", "neither"}], mem \in dvfsMemory(negative) :
          SetFreqs([u \in Units |-> MemScaled(u, load[u])], mem)
    BY <2>1 DEF dvfsMemScale
  <2>3. IsTable([u \in Units |-> MemScaled(u, load[u])])
    BY DEF IsTable
  <2> QED BY <2>2, <2>3
<1>7. CASE governor = "DYNAMICPROG"
  <2>1. dvfsDynamicProg
    BY <1>7 DEF SlackBased
  <2>2. ASSUME NEW u, dvfsDynamicProg1(u) PROVE Goal
    BY <2>2, <1>x, Zenon DEF dvfsDynamicProg1
  <2>3. ASSUME NEW u, dvfsDynamicProg2(u) PROVE Goal
    <3>1. \A c, i : IsTable([dvfsState EXCEPT ![CPU] = c, ![u] = i])
      BY Zenon DEF IsTable
    <3> QED BY <2>3, <3>1, Zenon DEF dvfsDynamicProg2
  <2>4. \/ dvfsDynamicProg1(FlowAccs[1]) \/ dvfsDynamicProg2(FlowAccs[2]) \/ aborted'
    BY <2>1 DEF dvfsDynamicProg
  <2> QED BY <2>2, <2>3, <2>4
<1> QED
  BY <1>1, <1>2, <1>3, <1>4, <1>5, <1>6, <1>7
  DEF Governors, SlackGovernors, LoadGovernors, FixedGovernors, ConsumerGovernors

-----------------------------------------------------------------------------
(* The tables *)

LEMMA ConfigType ==
  ASSUME config \in Configs
  PROVE  governor \in Governors
BY DVFSAssumption DEF governor

LEMMA InitTable == Init => TableInv
<1> SUFFICES ASSUME Init PROVE TableInv
  OBVIOUS
<1>1. config \in Configs /\ IsTable(dvfsState)
  BY DEF Init, IsTable
<1>2. ASSUME NEW u \in Units PROVE dvfsState[u] \in 0..Top(u)
  <2>1. dvfsState[u] = InitInd(config, u)
    BY DEF Init
  <2>2. InitInd(config, u) \in 0..MaxInd(u)
    <3>1. config.ind[u] \in 0..MaxInd(u)
      BY <1>1, DVFSAssumption, MaxIndType
    <3> QED BY <3>1, MaxIndType DEF InitInd
  <2> QED BY <2>1, <2>2, MaxIndType
<1> QED
  BY <1>1, <1>2 DEF TableInv

LEMMA SetFreqsInTable ==
  ASSUME NEW ind, NEW mem, IsTable(ind), SetFreqs(ind, mem), ~aborted'
  PROVE  IsTable(dvfsState)' /\ \A u \in Units : dvfsState'[u] \in 0..MaxInd(u)
BY Zenon DEF SetFreqs, IsTable

LEMMA LoadInTable ==
  ASSUME NEW u \in Units, NEW load, NEW counter, dvfsState[u] \in 0..Top(u),
         governor \in LoadGovernors, NEW d \in LoadBased(u, load, counter)
  PROVE  d \in 0..Top(u)
<1> USE MaxIndType
<1>1. CASE load = "high" /\ governor \in {"ONDEMAND", "INTERACTIVE"}
  BY <1>1 DEF LoadBased
<1>2. CASE load = "high" /\ governor = "BUILDING"
  <2>1. d = incFreq(u, dvfsState[u], IF u = CPU THEN 2 ELSE 1)
    BY <1>2 DEF LoadBased
  <2>2. CASE u = CPU
    BY <1>2, <2>1, <2>2 DEF incFreq, Top
  <2>3. CASE u # CPU
    BY <2>1, <2>3 DEF incFreq, Top
  <2> QED BY <2>2, <2>3
<1>3. CASE load = "high" /\ governor = "POWERCAP"
  BY <1>3 DEF LoadBased, setMaxAllowedFreq
<1>4. CASE load = "low"
  BY <1>4 DEF LoadBased, decFreq
<1>5. CASE load \notin {"high", "low"}
  BY <1>5 DEF LoadBased
<1> QED
  BY <1>1, <1>2, <1>3, <1>4, <1>5 DEF LoadGovernors

LEMMA NextTable == TableInv /\ [Next]_vars => TableInv'
<1> SUFFICES ASSUME TableInv, [Next]_vars PROVE TableInv'
  OBVIOUS
<1>0. config \in Configs /\ governor \in Governors
  BY ConfigType DEF TableInv
<1>c. config' = config
  BY DEF Next, Epoch, setPStateActive, vars
<1>t. \A u : Top(u)' = Top(u)
  BY <1>c DEF Top, governor, MaxInd
<1>g. SUFFICES ASSUME ~aborted'
               PROVE  IsTable(dvfsState)' /\ \A u \in Units : dvfsState'[u] \in 0..Top(u)
  BY <1>0, <1>c, <1>t DEF TableInv
<1>1. CASE Epoch
  <2>0. ~aborted /\ governor \notin FixedGovernors /\ updateDVFS
    BY <1>1 DEF Epoch
  <2>t. IsTable(dvfsState) /\ \A u \in Units : dvfsState[u] \in 0..Top(u)
    BY <2>0 DEF TableInv
  <2>1. CASE UNCHANGED dvfsState
    BY <2>1, <2>t DEF IsTable
  <2>2. CASE governor \in LoadGovernors /\ dvfsLoadBased(Counted)
    <3>1. PICK load \in [Units -> {"high", "low", "neither"}] :
            dvfsState' \in PickEach([u \in Units |-> LoadBased(u, load[u], Counted[u])])
      BY <2>2 DEF dvfsLoadBased
    <3>2. IsTable(dvfsState') /\ \A u \in Units : dvfsState'[u] \in LoadBased(u, load[u], Counted[u])
      BY <3>1, PickEachOf
    <3> QED BY <2>2, <2>t, <3>2, LoadInTable DEF IsTable
  <2>3. CASE governor \notin LoadGovernors
    <3>1. CASE SetFreqs(dvfsState, memFreq)
      BY <1>g, <2>t, <3>1, SetFreqsInTable, MaxIndType
    <3>2. ASSUME NEW negative \in BOOLEAN, SlackBased(negative)
          PROVE  IsTable(dvfsState)' /\ \A u \in Units : dvfsState'[u] \in 0..Top(u)
      <4>1. \E ind, mem : IsTable(ind) /\ SetFreqs(ind, mem)
        BY <1>0, <1>g, <2>0, <2>3, <2>t, <3>2, SlackSets
      <4> QED BY <1>g, <4>1, SetFreqsInTable, MaxIndType
    <3> QED BY <2>0, <2>1, <2>3, <3>1, <3>2 DEF updateDVFS
  <2> QED BY <2>0, <2>1, <2>2, <2>3 DEF updateDVFS
<1>2. ASSUME NEW u \in Units, setPStateActive(u)
      PROVE  IsTable(dvfsState)' /\ \A w \in Units : dvfsState'[w] \in 0..Top(w)
  <2>1. IsTable(dvfsState) /\ \A w \in Units : dvfsState[w] \in 0..Top(w)
    BY <1>2 DEF TableInv, setPStateActive
  <2>2. PICK d \in {MaxInd(u), optDVFSState[u]} : dvfsState' = [dvfsState EXCEPT ![u] = d]
    BY <1>2, Zenon DEF setPStateActive
  <2>3. d \in 0..Top(u)
    BY MaxIndType
  <2> QED BY <2>1, <2>2, <2>3 DEF IsTable
<1>3. CASE UNCHANGED vars
  BY <1>3, <1>g DEF vars, TableInv, IsTable
<1> QED
  BY <1>1, <1>2, <1>3 DEF Next

(* No governor takes a unit out of its table, whatever the tables are and  *)
(* however loads, slack and wake-ups follow each other.  The assertions of *)
(* setCoreFreqInd and setIPFreqInd guard the governors that go by slack;   *)
(* those that go by load have none, and need the invariant itself.         *)
THEOREM TablesRespected == Spec => []InTable
<1>1. TableInv => InTable
  BY DEF TableInv, InTable, Top
<1> QED
  BY <1>1, InitTable, NextTable, PTL DEF Spec

-----------------------------------------------------------------------------
(* The clocks *)

(* Epoch derives all clocks anew, and only a unit that wakes up changes    *)
(* its frequency in between.                                               *)
THEOREM ClocksAreFollowing == Spec => []ClocksFollow
<1>1. Init => ClocksFollow
  BY DEF Init, ClocksFollow
<1>2. ClocksFollow /\ [Next]_vars => ClocksFollow'
  <2> SUFFICES ASSUME ClocksFollow, [Next]_vars PROVE ClocksFollow'
    OBVIOUS
  <2>1. CASE Epoch
    BY <2>1 DEF Epoch, ClocksFollow
  <2>2. ASSUME NEW u \in Units, setPStateActive(u) PROVE ClocksFollow'
    <3>1. \A w \in Units : w # u => dvfsState'[w] = dvfsState[w]
      BY <2>2 DEF setPStateActive
    <3> QED BY <2>2, <3>1 DEF setPStateActive, ClocksFollow
  <2>3. CASE UNCHANGED vars
    BY <2>3 DEF vars, ClocksFollow
  <2> QED BY <2>1, <2>2, <2>3 DEF Next
<1> QED
  BY <1>1, <1>2, PTL DEF Spec

-----------------------------------------------------------------------------
(* INTERACTIVE in time.  While the promised time lasts, a unit that became *)
(* active is at its maximum; and when its counter has been counted down k  *)
(* times, k - 1 whole epochs and the current one so far have passed.       *)
TicksPassed(k) == (k - 1) * dvfsPeriod + sinceEpoch

HeldBack(u) ==
  /\ dvfsState[u] = MaxInd(u)
  /\ dvfsCounter[u] # INTERACTIVE_GOVERNOR_LAT =>
       sinceActive[u] >= TicksPassed(INTERACTIVE_GOVERNOR_LAT - dvfsCounter[u])

HoldType ==
  /\ sinceEpoch \in Nat /\ IsTable(dvfsState)
  /\ dvfsCounter \in [Units -> 0..INTERACTIVE_GOVERNOR_LAT]
  /\ sinceActive \in [Units -> Nat]

HoldInv ==
  /\ config \in Configs
  /\ governor = "INTERACTIVE" =>
       HoldType /\ \A u \in Units : sinceActive[u] < HoldTime => HeldBack(u)

(* The periods that are long enough: the epochs a counter lasts, but for   *)
(* the one it is set in, take as long as INTERACTIVE promises.             *)
LongPeriods ==
  /\ MILLISEC \in Nat \ {0}
  /\ \A c \in Configs : (INTERACTIVE_GOVERNOR_LAT - 1) * c.governor_timing
                          >= INTERACTIVE_GOVERNOR_LAT

LEMMA Scaled ==
  ASSUME NEW a \in Nat, NEW b \in Nat, NEW c \in Nat, NEW m \in Nat, a * b >= c
  PROVE  a * (b * m) >= c * m
<1>1. a * (b * m) = (a * b) * m
  OBVIOUS
<1>2. a * b \in Nat
  OBVIOUS
<1>3. \A x, y \in Nat : x >= y => x * m >= y * m
  OBVIOUS
<1> QED BY <1>1, <1>2, <1>3

LEMMA PeriodType ==
  ASSUME LongPeriods, config \in Configs
  PROVE  /\ dvfsPeriod \in Nat /\ HoldTime \in Nat
         /\ (INTERACTIVE_GOVERNOR_LAT - 1) * dvfsPeriod >= HoldTime
<1> DEFINE L == INTERACTIVE_GOVERNOR_LAT
           T == config.governor_timing
<1>1. L \in Nat \ {0} /\ T \in Nat /\ MILLISEC \in Nat
  BY DVFSAssumption DEF LongPeriods
<1>2. (L - 1) * T >= L /\ L - 1 \in Nat
  BY <1>1 DEF LongPeriods
<1>3. T * MILLISEC \in Nat /\ L * MILLISEC \in Nat
  BY <1>1
<1>4. (L - 1) * (T * MILLISEC) >= L * MILLISEC
  <2> HIDE DEF L, T
  <2> QED BY <1>1, <1>2, Scaled
<1> QED
  BY <1>3, <1>4 DEF dvfsPeriod, HoldTime

(* An epoch that counts down: there is something left to count, and a      *)
(* whole period more has passed.                                           *)
LEMMA CountsDown ==
  ASSUME NEW L \in Nat \ {0}, NEW P \in Nat, NEW H \in Nat, NEW c \in 0..L, NEW a \in Nat,
         (L - 1) * P >= H, a < H, c # L => a >= (L - c - 1) * P + P
  PROVE  c > 1 /\ a >= (L - (c - 1) - 1) * P
<1>1. CASE c = L
  <2>1. L # 1
    BY <1>1
  <2> QED BY <1>1, <2>1
<1>2. CASE c # L
  <2>1. (L - c - 1) * P + P = (L - c) * P
    BY <1>2
  <2>2. a >= (L - c) * P
    BY <1>2, <2>1
  <2>3. c # 1
    BY <2>2
  <2>4. c # 0
    <3>1. L * P = (L - 1) * P + P
      OBVIOUS
    <3> QED BY <2>2, <3>1
  <2> QED BY <2>2, <2>3, <2>4
<1> QED BY <1>1, <1>2

LEMMA CountedDown ==
  ASSUME governor = "INTERACTIVE", HoldType, NEW u \in Units
  PROVE  Counted[u] = IF dvfsCounter[u] > 0 THEN dvfsCounter[u] - 1 ELSE 0
BY DVFSAssumption DEF HoldType, Counted

(* What an epoch does to a unit under INTERACTIVE. *)
LEMMA EpochOfUnit ==
  ASSUME governor = "INTERACTIVE", HoldType, Epoch
  PROVE  /\ IsTable(dvfsState)' /\ dvfsCounter' \in [Units -> 0..INTERACTIVE_GOVERNOR_LAT]
         /\ \A u \in Units :
              \/ dvfsState'[u] = dvfsState[u] /\ dvfsCounter'[u] = dvfsCounter[u]
              \/ dvfsState'[u] = MaxInd(u) /\ dvfsCounter'[u] = INTERACTIVE_GOVERNOR_LAT
              \/ /\ dvfsCounter'[u] = Counted[u]
                 /\ dvfsState'[u] \in {dvfsState[u], decFreq(dvfsState[u], Counted[u])}
<1>0. INTERACTIVE_GOVERNOR_LAT \in Nat
  BY DVFSAssumption
<1>1. CASE UNCHANGED <<dvfsState, dvfsCounter>>
  BY <1>1 DEF HoldType, IsTable
<1>2. CASE dvfsLoadBased(Counted)
  <2>1. PICK load \in [Units -> {"high", "low", "neither"}] :
          /\ dvfsState' \in PickEach([u \in Units |-> LoadBased(u, load[u], Counted[u])])
          /\ dvfsCounter' = [u \in Units |-> IF load[u] = "high" /\ governor = "INTERACTIVE"
                               THEN INTERACTIVE_GOVERNOR_LAT ELSE Counted[u]]
    BY <1>2, Zenon DEF dvfsLoadBased
  <2>2. IsTable(dvfsState') /\ \A u \in Units : dvfsState'[u] \in LoadBased(u, load[u], Counted[u])
    BY <2>1, PickEachOf
  <2>3. \A u \in Units : Counted[u] \in 0..INTERACTIVE_GOVERNOR_LAT
    BY <1>0, CountedDown DEF HoldType
  <2>4. dvfsCounter' \in [Units -> 0..INTERACTIVE_GOVERNOR_LAT]
    BY <1>0, <2>1, <2>3
  <2>5. ASSUME NEW u \in Units, load[u] = "high"
        PROVE  dvfsState'[u] = MaxInd(u) /\ dvfsCounter'[u] = INTERACTIVE_GOVERNOR_LAT
    BY <2>1, <2>2, <2>5 DEF LoadBased
  <2>6. ASSUME NEW u \in Units, load[u] # "high"
        PROVE  /\ dvfsCounter'[u] = Counted[u]
               /\ dvfsState'[u] \in {dvfsState[u], decFreq(dvfsState[u], Counted[u])}
    BY <2>1, <2>2, <2>6 DEF LoadBased
  <2> QED BY <2>2, <2>4, <2>5, <2>6 DEF IsTable
<1> QED
  BY <1>1, <1>2 DEF Epoch, updateDVFS, LoadGovernors

LEMMA EpochHolds ==
  ASSUME LongPeriods, HoldInv, TimedEpoch, governor = "INTERACTIVE"
  PROVE  HoldInv'
<1> DEFINE L == INTERACTIVE_GOVERNOR_LAT
<1>0. HoldType /\ config \in Configs
  BY DEF HoldInv
<1>c. config' = config /\ UNCHANGED sinceActive /\ sinceEpoch' = 0 /\ sinceEpoch = dvfsPeriod
  BY DEF TimedEpoch, Epoch
<1>p. dvfsPeriod \in Nat /\ HoldTime \in Nat /\ (L - 1) * dvfsPeriod >= HoldTime
  BY <1>0, PeriodType
<1>l. L \in Nat \ {0}
  BY DVFSAssumption
<1>1. /\ IsTable(dvfsState)' /\ dvfsCounter' \in [Units -> 0..L]
      /\ \A u \in Units :
              \/ dvfsState'[u] = dvfsState[u] /\ dvfsCounter'[u] = dvfsCounter[u]
              \/ dvfsState'[u] = MaxInd(u) /\ dvfsCounter'[u] = L
              \/ /\ dvfsCounter'[u] = Counted[u]
                 /\ dvfsState'[u] \in {dvfsState[u], decFreq(dvfsState[u], Counted[u])}
  BY <1>0, EpochOfUnit DEF TimedEpoch
<1>t. HoldType'
  BY <1>0, <1>1, <1>c DEF HoldType
<1>2. ASSUME NEW u \in Units, sinceActive[u] < HoldTime
      PROVE  /\ dvfsState'[u] = MaxInd(u)
             /\ dvfsCounter'[u] # L => sinceActive[u] >= (L - dvfsCounter'[u] - 1) * dvfsPeriod
  <2>1. HeldBack(u) /\ dvfsCounter[u] \in 0..L /\ sinceActive[u] \in Nat
    BY <1>0, <1>2 DEF HoldInv, HoldType
  <2>2. dvfsCounter[u] # L => sinceActive[u] >= (L - dvfsCounter[u] - 1) * dvfsPeriod + dvfsPeriod
    BY <1>c, <2>1 DEF HeldBack, TicksPassed
  <2>3. /\ dvfsCounter[u] > 1
        /\ sinceActive[u] >= (L - (dvfsCounter[u] - 1) - 1) * dvfsPeriod
    <3> HIDE DEF L
    <3> QED BY <1>2, <1>l, <1>p, <2>1, <2>2, CountsDown
  <2>4. CASE dvfsState'[u] = dvfsState[u] /\ dvfsCounter'[u] = dvfsCounter[u]
    <3>1. dvfsCounter[u] # L => sinceActive[u] >= (L - dvfsCounter[u] - 1) * dvfsPeriod
      <4> DEFINE X == (L - dvfsCounter[u] - 1) * dvfsPeriod
      <4>1. X \in Int
        BY <1>l, <1>p, <2>1
      <4>2. dvfsCounter[u] # L => sinceActive[u] >= X + dvfsPeriod
        BY <2>2
      <4>3. sinceActive[u] \in Nat /\ dvfsPeriod \in Nat
        BY <1>p, <2>1
      <4> HIDE DEF X
      <4>4. dvfsCounter[u] # L => sinceActive[u] >= X
        BY <4>1, <4>2, <4>3
      <4> QED BY <4>4 DEF X
    <3> QED BY <2>1, <2>4, <3>1 DEF HeldBack
  <2>5. CASE dvfsState'[u] = MaxInd(u) /\ dvfsCounter'[u] = L
    BY <2>5
  <2>6. CASE /\ dvfsCounter'[u] = Counted[u]
             /\ dvfsState'[u] \in {dvfsState[u], decFreq(dvfsState[u], Counted[u])}
    <3>1. Counted[u] = dvfsCounter[u] - 1 /\ Counted[u] > 0
      BY <1>0, <2>1, <2>3, CountedDown
    <3>2. dvfsState'[u] = dvfsState[u]
      BY <2>6, <3>1 DEF decFreq
    <3> QED BY <2>1, <2>3, <2>6, <3>1, <3>2 DEF HeldBack
  <2> QED BY <1>1, <2>4, <2>5, <2>6
<1>3. ASSUME NEW u \in Units, sinceActive'[u] < HoldTime' PROVE HeldBack(u)'
  <2>1. sinceActive[u] < HoldTime
    BY <1>3, <1>c DEF HoldTime
  <2>2. MaxInd(u)' = MaxInd(u) /\ dvfsPeriod' = dvfsPeriod
    BY <1>c DEF MaxInd, dvfsPeriod
  <2> DEFINE X == (L - dvfsCounter'[u] - 1) * dvfsPeriod
  <2>3. dvfsState'[u] = MaxInd(u) /\ (dvfsCounter'[u] # L => sinceActive[u] >= X)
    BY <1>2, <2>1
  <2>4. X \in Int
    BY <1>1, <1>l, <1>p
  <2>5. TicksPassed(INTERACTIVE_GOVERNOR_LAT - dvfsCounter[u])' = X + 0
    BY <1>c, <2>2 DEF TicksPassed
  <2> HIDE DEF X
  <2>6. X + 0 = X
    BY <2>4
  <2> QED BY <1>c, <2>2, <2>3, <2>5, <2>6 DEF HeldBack
<1> QED
  BY <1>0, <1>c, <1>t, <1>3 DEF HoldInv

LEMMA TickHolds ==
  ASSUME LongPeriods, HoldInv, tick, governor = "INTERACTIVE"
  PROVE  HoldInv'
<1>0. HoldType /\ config \in Configs
  BY DEF HoldInv
<1>c. UNCHANGED vars /\ sinceEpoch' = sinceEpoch + 1 /\ HoldTime' = HoldTime
      /\ config' = config
  BY DEF tick, vars, HoldTime
<1>p. dvfsPeriod \in Nat /\ HoldTime \in Nat
  BY <1>0, PeriodType
<1>1. \A u \in Units : /\ sinceActive'[u] \in Nat
                       /\ sinceActive[u] < HoldTime => sinceActive'[u] = sinceActive[u] + 1
                       /\ sinceActive[u] >= HoldTime => sinceActive'[u] >= HoldTime
  BY <1>0, <1>p DEF tick, HoldType
<1>t. HoldType'
  <2>1. sinceActive' \in [Units -> Nat]
    BY <1>1 DEF tick
  <2> QED BY <1>0, <1>c, <2>1 DEF HoldType, vars, IsTable
<1>2. ASSUME NEW u \in Units, sinceActive'[u] < HoldTime' PROVE HeldBack(u)'
  <2>1. sinceActive[u] < HoldTime /\ sinceActive'[u] = sinceActive[u] + 1
    BY <1>0, <1>1, <1>2, <1>c, <1>p DEF HoldType
  <2>2. HeldBack(u) /\ sinceActive[u] \in Nat /\ sinceEpoch \in Nat
        /\ dvfsCounter[u] \in 0..INTERACTIVE_GOVERNOR_LAT
    BY <1>0, <2>1 DEF HoldInv, HoldType
  <2>3. dvfsPeriod' = dvfsPeriod /\ MaxInd(u)' = MaxInd(u)
        /\ dvfsState' = dvfsState /\ dvfsCounter' = dvfsCounter
    BY <1>c DEF vars, dvfsPeriod, MaxInd
  <2> DEFINE X == (INTERACTIVE_GOVERNOR_LAT - dvfsCounter[u] - 1) * dvfsPeriod
  <2>4. X \in Int
    BY <1>p, <2>2, DVFSAssumption
  <2>5. /\ TicksPassed(INTERACTIVE_GOVERNOR_LAT - dvfsCounter[u]) = X + sinceEpoch
        /\ TicksPassed(INTERACTIVE_GOVERNOR_LAT - dvfsCounter[u])' = X + (sinceEpoch + 1)
    BY <1>c, <2>3 DEF TicksPassed
  <2> HIDE DEF X
  <2>6. sinceActive[u] >= X + sinceEpoch => sinceActive[u] + 1 >= X + (sinceEpoch + 1)
    BY <2>2, <2>4
  <2> QED BY <2>1, <2>2, <2>3, <2>5, <2>6 DEF HeldBack
<1> QED
  BY <1>0, <1>c, <1>t, <1>2 DEF HoldInv

LEMMA BecomeActiveHolds ==
  ASSUME LongPeriods, "VD" \notin IPs, HoldInv, governor = "INTERACTIVE",
         NEW u \in Units, BecomeActive(u)
  PROVE  HoldInv'
<1>0. HoldType /\ config \in Configs /\ u # "VD"
  BY DEF HoldInv, Units, CPU
<1>1. /\ config' = config /\ sinceEpoch' = sinceEpoch
      /\ dvfsState' = [dvfsState EXCEPT ![u] = MaxInd(u)]
      /\ dvfsCounter' = [dvfsCounter EXCEPT ![u] = INTERACTIVE_GOVERNOR_LAT]
      /\ sinceActive' = [sinceActive EXCEPT ![u] = 0]
  BY <1>0 DEF BecomeActive, setPStateActive
<1>t. HoldType'
  <2>1. DOMAIN dvfsState = Units /\ dvfsState' = [w \in Units |-> dvfsState'[w]]
    BY <1>0, <1>1 DEF HoldType, IsTable
  <2>2. INTERACTIVE_GOVERNOR_LAT \in 0..INTERACTIVE_GOVERNOR_LAT
    BY DVFSAssumption
  <2>3. dvfsCounter' \in [Units -> 0..INTERACTIVE_GOVERNOR_LAT]
    BY <1>0, <1>1, <2>2 DEF HoldType
  <2>4. sinceActive' \in [Units -> Nat]
    BY <1>0, <1>1 DEF HoldType
  <2>5. IsTable(dvfsState)'
    BY <2>1 DEF IsTable
  <2> QED BY <1>0, <1>1, <2>3, <2>4, <2>5 DEF HoldType
<1>2. ASSUME NEW w \in Units, sinceActive'[w] < HoldTime' PROVE HeldBack(w)'
  <2>1. CASE w = u
    BY <1>0, <1>1, <2>1 DEF HeldBack, HoldType, IsTable, MaxInd
  <2>2. CASE w # u
    <3>1. /\ dvfsState'[w] = dvfsState[w] /\ dvfsCounter'[w] = dvfsCounter[w]
          /\ sinceActive'[w] = sinceActive[w]
      BY <1>0, <1>1, <2>2 DEF HoldType, IsTable
    <3>2. HeldBack(w)
      BY <1>0, <1>2, <3>1 DEF HoldInv, HoldTime
    <3> QED BY <1>1, <3>1, <3>2 DEF HeldBack, TicksPassed, dvfsPeriod, MaxInd
  <2> QED BY <2>1, <2>2
<1> QED
  BY <1>0, <1>1, <1>t, <1>2 DEF HoldInv

(* What INTERACTIVE promises does not hold with the default epoch of one   *)
(* millisecond.  It holds when the counter outlasts the promised time even *)
(* without the epoch it is set in (two milliseconds and a counter of two   *)
(* are enough): then every unit but a video decoder stays at its maximum   *)
(* for INTERACTIVE_GOVERNOR_LAT ms after setPStateActive, for all tables,  *)
(* loads and wake-ups.                                                     *)
THEOREM MaximumIsHeld ==
  ASSUME LongPeriods, "VD" \notin IPs
  PROVE  TimedSpec => []HoldsMax
<1>1. TimedInit => HoldInv
  <2> SUFFICES ASSUME TimedInit, governor = "INTERACTIVE" PROVE HoldInv
    BY DEF TimedInit, Init, HoldInv
  <2>1. /\ sinceEpoch = 0 /\ sinceActive = [u \in Units |-> 0] /\ config \in Configs
        /\ dvfsState = [u \in Units |-> MaxInd(u)]
        /\ dvfsCounter = [u \in Units |-> INTERACTIVE_GOVERNOR_LAT]
    BY DEF TimedInit, Init, InitInd, governor, SlackGovernors, ConsumerGovernors
  <2>2. HoldType
    BY <2>1, DVFSAssumption DEF HoldType, IsTable
  <2>3. \A u \in Units : HeldBack(u)
    BY <2>1 DEF HeldBack
  <2> QED BY <2>1, <2>2, <2>3 DEF HoldInv
<1>2. HoldInv /\ [TimedNext]_timedVars => HoldInv'
  <2> SUFFICES ASSUME HoldInv, [TimedNext]_timedVars PROVE HoldInv'
    OBVIOUS
  <2>0. config' = config
    BY DEF TimedNext, tick, TimedEpoch, LeaveActive, BecomeActive, timedVars, vars,
           Epoch, setPStateActive
  <2> SUFFICES ASSUME governor = "INTERACTIVE" PROVE HoldInv'
    BY <2>0 DEF HoldInv, governor
  <2>1. CASE tick
    BY <2>1, TickHolds
  <2>2. CASE TimedEpoch
    BY <2>2, EpochHolds
  <2>3. ASSUME NEW u \in Units, BecomeActive(u) PROVE HoldInv'
    BY <2>3, BecomeActiveHolds
  <2>4. CASE UNCHANGED <<vars, sinceEpoch, sinceActive>>
    BY <2>4 DEF HoldInv, HoldType, HeldBack, TicksPassed, vars, dvfsPeriod, HoldTime, IsTable,
                governor, MaxInd
  <2> QED
    BY <2>1, <2>2, <2>3, <2>4 DEF TimedNext, LeaveActive, timedVars, time
<1>3. HoldInv => HoldsMax
  BY DEF HoldInv, HoldsMax, HeldBack
<1> QED
  BY <1>1, <1>2, <1>3, PTL DEF TimedSpec

-----------------------------------------------------------------------------
(* The memory.  1.0 GHz and what lies below it in rounded steps of 0.1 are *)
(* the rungs of one ladder: a step up and a step down end on the next.     *)
Rung(k) == [k |-> k, e |-> 80 - 8 * k]

LEMMA RungUp == \A k \in 3..9 : Plus01[Rung(k)] = Rung(k + 1)
<1> SUFFICES ASSUME NEW k \in 3..9 PROVE Plus01[Rung(k)] = Rung(k + 1)
  OBVIOUS
<1>1. Rung(k) \in Freqs
  BY DEF Rung, Freqs
<1>2. Plus01[Rung(k)] = Double(k + 1, 82 - 8 * k)
  BY <1>1 DEF Plus01, Rung
<1>3. Double(k + 1, 82 - 8 * k) = Rung(k + 1)
  <2>1. k = 3 \/ k = 4 \/ k = 5 \/ k = 6 \/ k = 7 \/ k = 8 \/ k = 9
    OBVIOUS
  <2>2. Double(4, 58) = Rung(4)
    BY DEF Double, Spacing, Rung
  <2>3. Double(5, 50) = Rung(5)
    BY DEF Double, Spacing, Rung
  <2>4. Double(6, 42) = Rung(6)
    BY DEF Double, Spacing, Rung
  <2>5. Double(7, 34) = Rung(7)
    BY DEF Double, Spacing, Rung
  <2>6. Double(8, 26) = Rung(8)
    BY DEF Double, Spacing, Rung
  <2>7. Double(9, 18) = Rung(9)
    BY DEF Double, Spacing, Rung
  <2>8. Double(10, 10) = Rung(10)
    BY DEF Double, Spacing, Rung
  <2> QED BY <2>1, <2>2, <2>3, <2>4, <2>5, <2>6, <2>7, <2>8
<1> QED BY <1>2, <1>3

LEMMA RungDown == \A k \in 3..10 : Minus01[Rung(k)] = Rung(k - 1)
<1> SUFFICES ASSUME NEW k \in 3..10 PROVE Minus01[Rung(k)] = Rung(k - 1)
  OBVIOUS
<1>1. Rung(k) \in Freqs
  BY DEF Rung, Freqs
<1>2. Minus01[Rung(k)] = Double(k - 1, 78 - 8 * k)
  BY <1>1 DEF Minus01, Rung
<1>3. Double(k - 1, 78 - 8 * k) = Rung(k - 1)
  <2>1. k = 3 \/ k = 4 \/ k = 5 \/ k = 6 \/ k = 7 \/ k = 8 \/ k = 9 \/ k = 10
    OBVIOUS
  <2>2. Double(2, 54) = Rung(2)
    BY DEF Double, Spacing, Rung
  <2>3. Double(3, 46) = Rung(3)
    BY DEF Double, Spacing, Rung
  <2>4. Double(4, 38) = Rung(4)
    BY DEF Double, Spacing, Rung
  <2>5. Double(5, 30) = Rung(5)
    BY DEF Double, Spacing, Rung
  <2>6. Double(6, 22) = Rung(6)
    BY DEF Double, Spacing, Rung
  <2>7. Double(7, 14) = Rung(7)
    BY DEF Double, Spacing, Rung
  <2>8. Double(8, 6) = Rung(8)
    BY DEF Double, Spacing, Rung
  <2>9. Double(9, -2) = Rung(9)
    BY DEF Double, Spacing, Rung
  <2> QED BY <2>1, <2>2, <2>3, <2>4, <2>5, <2>6, <2>7, <2>8, <2>9
<1> QED BY <1>2, <1>3

(* The maximum and the literals 0.8 and 0.9 are rungs; 0.3 is not. *)
LEMMA RungLiterals ==
  /\ Literal(8) = Rung(8) /\ Literal(9) = Rung(9) /\ MAX_MEM_FREQ = Rung(10)
  /\ MIN_MEM_FREQ = [k |-> 3, e |-> -4]
  /\ \A k \in 3..10 : /\ Less(Rung(k), MAX_MEM_FREQ) <=> k < 10
                      /\ ~Less(Rung(k), MIN_MEM_FREQ)
<1>1. Literal(8) = Rung(8)
  BY DEF Literal, Double, Spacing, Rung
<1>2. Literal(9) = Rung(9)
  BY DEF Literal, Double, Spacing, Rung
<1>3. MAX_MEM_FREQ = Rung(10)
  BY DEF MAX_MEM_FREQ, Literal, Double, Spacing, Rung
<1>4. MIN_MEM_FREQ = [k |-> 3, e |-> -4]
  BY DEF MIN_MEM_FREQ, Literal, Double, Spacing
<1> QED BY <1>1, <1>2, <1>3, <1>4 DEF Less, Rung

LEMMA Descend ==
  ASSUME NEW k \in 3..10, NEW n \in 0..(k - 2)
  PROVE  StepsDown(Rung(k), n) = Rung(k - n)
<1> DEFINE body(d) == [i \in 0..n |-> IF i = 0 THEN Rung(k) ELSE Minus01[d[i - 1]]]
           w == [i \in 0..n |-> Rung(k - i)]
           d == CHOOSE d : d = body(d)
<1>1. w = body(w)
  <2> SUFFICES ASSUME NEW i \in 0..n
               PROVE  Rung(k - i) = IF i = 0 THEN Rung(k) ELSE Minus01[w[i - 1]]
    OBVIOUS
  <2>1. CASE i = 0
    <3>1. k - i = k
      BY <2>1
    <3> QED BY <2>1, <3>1
  <2>2. CASE i # 0
    <3>1. i - 1 \in 0..n /\ k - (i - 1) \in 3..10 /\ (k - (i - 1)) - 1 = k - i
      BY <2>2
    <3>2. w[i - 1] = Rung(k - (i - 1))
      BY <3>1
    <3> HIDE DEF w
    <3>3. Minus01[Rung(k - (i - 1))] = Rung((k - (i - 1)) - 1)
      BY <3>1, RungDown
    <3> QED BY <2>2, <3>1, <3>2, <3>3
  <2> QED BY <2>1, <2>2
<1>2. d = body(d)
  <2> HIDE DEF w, body
  <2> QED BY <1>1
<1>3. StepsDown(Rung(k), n) = d[n]
  BY DEF StepsDown
<1> HIDE DEF d
<1> DEFINE Bad == {i \in Nat : i <= n /\ d[i] # Rung(k - i)}
<1>4. Bad = {}
  <2> SUFFICES ASSUME Bad # {} PROVE FALSE
    OBVIOUS
  <2>1. PICK i \in Bad : \A j \in Bad : ~(<<j, i>> \in OpToRel(<, Nat))
    <3>1. Bad \subseteq Nat
      OBVIOUS
    <3> HIDE DEF Bad
    <3> QED BY <3>1, NatLessThanWellFounded, WFMin, Zenon
  <2>2. \A j \in Bad : ~(j < i)
    BY <2>1, Zenon DEF OpToRel
  <2>3. d[i] = IF i = 0 THEN Rung(k) ELSE Minus01[d[i - 1]]
    BY <1>2
  <2>4. CASE i = 0
    <3>1. k - i = k
      BY <2>4
    <3> QED BY <2>3, <2>4, <3>1
  <2>5. CASE i # 0
    <3>1. i - 1 \in Nat /\ i - 1 < i /\ i - 1 <= n
      BY <2>5
    <3>2. d[i - 1] = Rung(k - (i - 1))
      BY <2>2, <3>1
    <3>3. k - (i - 1) \in 3..10 /\ (k - (i - 1)) - 1 = k - i
      BY <2>5
    <3>4. Minus01[Rung(k - (i - 1))] = Rung((k - (i - 1)) - 1)
      BY <3>3, RungDown
    <3> QED BY <2>3, <2>5, <3>2, <3>3, <3>4
  <2> QED BY <2>4, <2>5
<1> QED
  BY <1>3, <1>4
-----------------------------------------------------------------------------
(* What the governors do to the memory.  Those that start it at 0.8 GHz or *)
(* above move it along the ladder; MAXENERGY and FAR_ENERGY stop one rung  *)
(* earlier than the others.                                                *)
Floor == IF governor \in {"MAXENERGY", "FAR_ENERGY"} THEN 4 ELSE 3

OnLadder ==
  \/ governor \in SlackGovernors \ {"DYNAMICPROG"}
  \/ governor \in {"MEMSCALE", "COSCALE"} /\ config.mem >= 8

MemOK(f) ==
  /\ OnLadder => \E k \in Floor..10 : f = Rung(k)
  /\ governor = "CORE_ORACLE" => f = Rung(9)

LEMMA MemorySteps ==
  ASSUME OnLadder, MemOK(memFreq), NEW negative, NEW mem \in dvfsMemory(negative)
  PROVE  MemOK(mem)
<1>0. governor # "CORE_ORACLE" /\ Floor \in 3..4
  BY DEF OnLadder, SlackGovernors, ConsumerGovernors, Floor
<1>1. PICK k \in Floor..10 : memFreq = Rung(k)
  BY DEF MemOK
<1>2. k \in 3..10 /\ memFreq.k = k
  BY <1>0, <1>1 DEF Rung
<1>3. CASE negative
  <2>1. mem = IF Less(memFreq, MAX_MEM_FREQ) THEN Plus01[memFreq] ELSE memFreq
    BY <1>3 DEF dvfsMemory
  <2>2. CASE k < 10
    <3>1. mem = Rung(k + 1)
      BY <1>1, <1>2, <2>1, <2>2, RungLiterals, RungUp
    <3>2. k + 1 \in Floor..10
      BY <1>0, <1>2, <2>2
    <3> QED BY <1>0, <3>1, <3>2 DEF MemOK
  <2>3. CASE ~(k < 10)
    BY <1>0, <1>1, <1>2, <2>1, <2>3, RungLiterals DEF MemOK
  <2> QED BY <2>2, <2>3
<1>4. CASE ~negative
  <2>1. mem \in Lowered(memFreq, Floor)
    BY <1>4 DEF dvfsMemory, Floor
  <2>2. PICK n \in 0..(k - Floor) : mem = StepsDown(Rung(k), n)
    BY <1>0, <1>1, <1>2, <2>1 DEF Lowered
  <2>3. n \in 0..(k - 2) /\ k - n \in Floor..10
    BY <1>0, <1>2
  <2>4. mem = Rung(k - n)
    BY <1>2, <2>2, <2>3, Descend
  <2> QED BY <1>0, <2>3, <2>4 DEF MemOK
<1> QED
  BY <1>3, <1>4

(* The indices the governors choose by the slack are in the tables. *)
Inside(ind) == \A u \in Units : ind[u] \in 0..MaxInd(u)

LEMMA ClampInside ==
  ASSUME NEW u \in Units, NEW i \in Int
  PROVE  Clamp(u, i) \in 0..MaxInd(u)
BY MaxIndType DEF Clamp

LEMMA SlackOptimalInside ==
  ASSUME NEW u \in Units, NEW negative, dvfsState[u] \in 0..MaxInd(u)
  PROVE  getFreqForSlackOptimal(u, negative) \subseteq 0..MaxInd(u)
<1> DEFINE low == IF u = "IMG" THEN dvfsState[u] - 2 ELSE optDVFSState[u]
<1>1. low \in Int /\ dvfsState[u] + 2 \in Int /\ dvfsState[u] \in Int
  BY MaxIndType
<1> HIDE DEF low
<1>2. \A k \in low..dvfsState[u] : Clamp(u, k) \in 0..MaxInd(u)
  BY <1>1, ClampInside
<1>3. Clamp(u, dvfsState[u] + 2) \in 0..MaxInd(u)
  BY <1>1, ClampInside
<1>4. getFreqForSlackOptimal(u, negative) =
        IF negative THEN {Clamp(u, dvfsState[u] + 2)}
        ELSE IF dvfsState[u] > optDVFSState[u] THEN {Clamp(u, k) : k \in low..dvfsState[u]}
        ELSE IF u = CPU THEN {optDVFSState[u]} ELSE {dvfsState[u]}
  BY DEF getFreqForSlackOptimal, low
<1>5. optDVFSState[u] \in 0..MaxInd(u)
  BY MaxIndType
<1> HIDE DEF low
<1> QED BY <1>2, <1>3, <1>4, <1>5

LEMMA ServeInside ==
  ASSUME Inside(dvfsState), NEW first, NEW served, NEW negative,
         NEW ind \in Serve(first, served, negative)
  PROVE  Inside(ind)
<1> SUFFICES ASSUME NEW u \in Units PROVE ind[u] \in 0..MaxInd(u)
  BY DEF Inside
<1> DEFINE S == [w \in Units |->
                  IF w = first THEN getFreqForSlackOptimal(w, negative)
                  ELSE IF w \in served
                    THEN getFreqForSlackOptimal(w, TRUE) \cup getFreqForSlackOptimal(w, FALSE)
                  ELSE {dvfsState[w]}]
<1>0. ind \in PickEach(S)
  BY DEF Serve
<1>1. ind[u] \in S[u]
  <2> HIDE DEF S
  <2> QED BY <1>0, PickEachOf
<1>2. dvfsState[u] \in 0..MaxInd(u)
  BY DEF Inside
<1>3. \A n : getFreqForSlackOptimal(u, n) \subseteq 0..MaxInd(u)
  BY <1>2, SlackOptimalInside
<1> QED BY <1>1, <1>2, <1>3, Zenon

LEMMA SlackFrequenciesInside ==
  ASSUME Inside(dvfsState), NEW served, NEW negative,
         NEW ind \in setDVFSSlackFrequencies(served, negative)
  PROVE  Inside(ind)
BY ServeInside DEF setDVFSSlackFrequencies

(* Trading memory for a unit goes down the ladder and up the table. *)
LEMMA TradeSteps ==
  ASSUME Inside(dvfsState), NEW j \in 3..10, NEW u \in Units, Trade(Rung(j), u),
         IsTable(dvfsState)
  PROVE  \E ind : \E h \in 3..10 : SetFreqs(ind, Rung(h)) /\ Inside(ind)
<1> DEFINE mem == Rung(j)
           body(d) == [i \in 0..(mem.k - 3) |-> IF i = 0 THEN mem ELSE decMemFreq(d[i - 1])]
           w == [i \in 0..(mem.k - 3) |-> Rung(j - i)]
           d == CHOOSE d : d = body(d)
<1>0. mem.k = j /\ mem = Rung(j)
  BY DEF Rung
<1>s. \A h \in 4..10 : decMemFreq(Rung(h)) = Rung(h - 1)
  <2> SUFFICES ASSUME NEW h \in 4..10 PROVE decMemFreq(Rung(h)) = Rung(h - 1)
    OBVIOUS
  <2>1. Minus01[Rung(h)] = Rung(h - 1) /\ h - 1 \in 3..10
    BY RungDown
  <2>2. ~Less(Rung(h - 1), MIN_MEM_FREQ)
    BY <2>1, RungLiterals
  <2> QED BY <2>1, <2>2 DEF decMemFreq
<1> HIDE DEF mem
<1>1. w = body(w)
  <2> SUFFICES ASSUME NEW i \in 0..(mem.k - 3)
               PROVE  Rung(j - i) = IF i = 0 THEN mem ELSE decMemFreq(w[i - 1])
    OBVIOUS
  <2>1. CASE i = 0
    <3>1. j - i = j
      BY <2>1
    <3> QED BY <1>0, <2>1, <3>1
  <2>2. CASE i # 0
    <3>1. i - 1 \in 0..(mem.k - 3) /\ j - (i - 1) \in 4..10 /\ (j - (i - 1)) - 1 = j - i
      BY <1>0, <2>2
    <3>2. w[i - 1] = Rung(j - (i - 1))
      BY <3>1
    <3> HIDE DEF w
    <3> QED BY <1>s, <2>2, <3>1, <3>2
  <2> QED BY <2>1, <2>2
<1>2. d = body(d)
  <2> HIDE DEF w, body
  <2> QED BY <1>1
<1>3. \E n \in 0..(mem.k - 3) :
        \E i \in IF n = 0 THEN {dvfsState[u]} ELSE (dvfsState[u] + n)..MaxInd(u) :
          SetFreqs([dvfsState EXCEPT ![u] = i], d[n])
  BY Zenon DEF Trade, mem
<1> HIDE DEF d
<1> DEFINE Bad == {i \in Nat : i <= j - 3 /\ d[i] # Rung(j - i)}
<1>4. Bad = {}
  <2> SUFFICES ASSUME Bad # {} PROVE FALSE
    OBVIOUS
  <2>1. PICK i \in Bad : \A h \in Bad : ~(<<h, i>> \in OpToRel(<, Nat))
    <3>1. Bad \subseteq Nat
      OBVIOUS
    <3> HIDE DEF Bad
    <3> QED BY <3>1, NatLessThanWellFounded, WFMin, Zenon
  <2>2. \A h \in Bad : ~(h < i)
    BY <2>1, Zenon DEF OpToRel
  <2>3. d[i] = IF i = 0 THEN mem ELSE decMemFreq(d[i - 1])
    BY <1>0, <1>2
  <2>4. CASE i = 0
    <3>1. j - i = j
      BY <2>4
    <3> QED BY <1>0, <2>3, <2>4, <3>1
  <2>5. CASE i # 0
    <3>1. i - 1 \in Nat /\ i - 1 < i /\ i - 1 <= j - 3
      BY <2>5
    <3>2. d[i - 1] = Rung(j - (i - 1))
      BY <2>2, <3>1
    <3>3. j - (i - 1) \in 4..10 /\ (j - (i - 1)) - 1 = j - i
      BY <2>5
    <3> QED BY <1>s, <2>3, <2>5, <3>2, <3>3
  <2> QED BY <2>4, <2>5
<1>5. PICK n \in 0..(mem.k - 3) :
        \E i \in IF n = 0 THEN {dvfsState[u]} ELSE (dvfsState[u] + n)..MaxInd(u) :
          SetFreqs([dvfsState EXCEPT ![u] = i], d[n])
  BY <1>3
<1>6. PICK i \in IF n = 0 THEN {dvfsState[u]} ELSE (dvfsState[u] + n)..MaxInd(u) :
        SetFreqs([dvfsState EXCEPT ![u] = i], d[n])
  BY <1>5
<1>7. d[n] = Rung(j - n) /\ j - n \in 3..10
  BY <1>0, <1>4
<1>8. i \in 0..MaxInd(u)
  <2>1. dvfsState[u] \in 0..MaxInd(u) /\ MaxInd(u) \in Nat
    BY MaxIndType DEF Inside
  <2> QED BY <1>0, <1>6, <2>1
<1>9. Inside([dvfsState EXCEPT ![u] = i])
  BY <1>8 DEF Inside, IsTable
<1> QED
  BY <1>6, <1>7, <1>9

(* dvfsCoScaleNewNew.  The units of the flow pass two frequencies and the  *)
(* highest wanted so far from one to the next: all are rungs.  The sets of *)
(* what they may pass on are defined by recursion along the flow.          *)
NoFreq == [k |-> 0, e |-> 0]
Rungs == {Rung(k) : k \in 3..10}
Passed == [mem : Rungs, cursor : Rungs, most : Rungs \cup {NoFreq}]

LEMMA RungSteps ==
  ASSUME NEW f \in Rungs
  PROVE  /\ f.k \in 3..10
         /\ \A n \in 0..(f.k - 3) : StepsDown(f, n) \in Rungs
         /\ Less(f, MAX_MEM_FREQ) => Plus01[f] \in Rungs
<1>1. PICK k \in 3..10 : f = Rung(k)
  BY DEF Rungs
<1>2. f.k = k
  BY <1>1 DEF Rung
<1>3. ASSUME NEW n \in 0..(f.k - 3) PROVE StepsDown(f, n) \in Rungs
  <2>1. n \in 0..(k - 2) /\ k - n \in 3..10
    BY <1>2
  <2> QED BY <1>1, <2>1, Descend DEF Rungs
<1>4. ASSUME Less(f, MAX_MEM_FREQ) PROVE Plus01[f] \in Rungs
  <2>1. k < 10
    BY <1>1, <1>4, RungLiterals
  <2>2. k \in 3..9 /\ k + 1 \in 3..10
    BY <2>1
  <2> QED BY <1>1, <2>2, RungUp DEF Rungs
<1> QED BY <1>2, <1>3, <1>4

LEMMA CoScaleSteps ==
  ASSUME config.flow \in Seq(STRING), memFreq \in Rungs, NEW verdict,
         NEW mem \in CoScaleMem(verdict)
  PROVE  mem \in Rungs
<1> DEFINE
      none == [k |-> 0, e |-> 0]
      Most(f, g) == IF Less(f, g) THEN g ELSE f
      Unit(s, i) ==
        LET n == s.cursor.k - 3
            least == IF n = 0 THEN 0 ELSE 1
            device == config.flow[i] \notin Units
        IN CASE verdict[i] = "inactive" \/ (verdict[i] = "spare" /\ device /\ n = 0) -> {s}
             [] verdict[i] = "slow" ->
                  {[s EXCEPT !.mem = IF Less(@, MAX_MEM_FREQ) THEN Plus01[@] ELSE @]}
             [] OTHER ->
                  UNION {{[s EXCEPT !.cursor = StepsDown(@, j), !.mem = f] :
                            f \in {s.mem} \cup {StepsDown(s.cursor, h) : h \in least..j}} :
                         j \in least..n}
      start == {[mem |-> memFreq, cursor |-> memFreq, most |-> none]}
      step(i, S) ==
        {[s EXCEPT !.most = IF verdict[i] = "inactive" THEN @ ELSE Most(@, s.mem)] :
           s \in UNION {Unit(t, i) : t \in S}}
      L == Len(config.flow)
      body(a) == [i \in 0..L |-> IF i = 0 THEN start ELSE step(i, a[i - 1])]
      after == CHOOSE a : a = body(a)
<1>1. CoScaleMem(verdict) = {IF s.most = none THEN memFreq ELSE s.most : s \in after[L]}
  BY Zenon DEF CoScaleMem
<1>L. L \in Nat
  OBVIOUS
<1>2. \A s \in Passed : \A i : Unit(s, i) \subseteq Passed
  <2> SUFFICES ASSUME NEW s \in Passed, NEW i, NEW r \in Unit(s, i) PROVE r \in Passed
    BY Zenon
  <2>0. s.mem \in Rungs /\ s.cursor \in Rungs /\ s.most \in Rungs \cup {NoFreq}
    BY Zenon DEF Passed
  <2> DEFINE n == s.cursor.k - 3
             least == IF n = 0 THEN 0 ELSE 1
             up == [s EXCEPT !.mem = IF Less(@, MAX_MEM_FREQ) THEN Plus01[@] ELSE @]
             lower(j) == {[s EXCEPT !.cursor = StepsDown(@, j), !.mem = f] :
                            f \in {s.mem} \cup {StepsDown(s.cursor, h) : h \in least..j}}
  <2>u. Unit(s, i) = {s} \/ Unit(s, i) = {up} \/ Unit(s, i) = UNION {lower(j) : j \in least..n}
    BY Zenon
  <2> HIDE DEF Unit, lower, up
  <2>n. n \in 0..7 /\ \A j \in 0..n : StepsDown(s.cursor, j) \in Rungs
    <3>1. s.cursor.k \in 3..10 /\ \A j \in 0..(s.cursor.k - 3) : StepsDown(s.cursor, j) \in Rungs
      BY <2>0, RungSteps
    <3> QED BY <3>1
  <2> HIDE DEF n
  <2>v. r = s \/ r = up \/ \E j \in least..n : r \in lower(j)
    BY <2>u
  <2>1. \/ r = s
        \/ r = [s EXCEPT !.mem = IF Less(@, MAX_MEM_FREQ) THEN Plus01[@] ELSE @]
        \/ \E j \in least..n : \E f \in {s.mem} \cup {StepsDown(s.cursor, h) : h \in least..j} :
             r = [s EXCEPT !.cursor = StepsDown(@, j), !.mem = f]
    BY <2>v, Zenon DEF up, lower
  <2>2. CASE r = [s EXCEPT !.mem = IF Less(@, MAX_MEM_FREQ) THEN Plus01[@] ELSE @]
    <3>1. (IF Less(s.mem, MAX_MEM_FREQ) THEN Plus01[s.mem] ELSE s.mem) \in Rungs
      BY <2>0, RungSteps
    <3> QED BY <2>2, <3>1 DEF Passed
  <2>3. ASSUME NEW j \in least..n, NEW f \in {s.mem} \cup {StepsDown(s.cursor, h) : h \in least..j},
               r = [s EXCEPT !.cursor = StepsDown(@, j), !.mem = f]
        PROVE  r \in Passed
    <3>1. j \in 0..n /\ \A h \in least..j : h \in 0..n
      BY <2>n
    <3>2. StepsDown(s.cursor, j) \in Rungs /\ f \in Rungs
      BY <2>0, <2>n, <3>1
    <3> QED BY <2>3, <3>2, Zenon DEF Passed
  <2> QED BY <2>1, <2>2, <2>3, Zenon
<1>3. \A i, S : S \subseteq Passed => step(i, S) \subseteq Passed
  <2> SUFFICES ASSUME NEW i, NEW S, S \subseteq Passed, NEW r \in step(i, S) PROVE r \in Passed
    BY Zenon
  <2>1. PICK s \in UNION {Unit(t, i) : t \in S} :
          r = [s EXCEPT !.most = IF verdict[i] = "inactive" THEN @ ELSE Most(@, s.mem)]
    BY Zenon
  <2> HIDE DEF Unit
  <2>2. s \in Passed
    BY <1>2
  <2> QED BY <2>1, <2>2 DEF Passed
<1> HIDE DEF Unit, step
<1>4. start \subseteq Passed
  BY DEF Passed, NoFreq
<1> HIDE DEF start, L
<1>5. after = body(after)
  <2> DEFINE upto(n, a) == [i \in 0..n |-> IF i = 0 THEN start ELSE step(i, a[i - 1])]
             Bad == {n \in Nat : ~\E a : a = upto(n, a)}
  <2>1. Bad = {}
    <3> SUFFICES ASSUME Bad # {} PROVE FALSE
      OBVIOUS
    <3>1. PICK n \in Bad : \A j \in Bad : ~(<<j, n>> \in OpToRel(<, Nat))
      <4>1. Bad \subseteq Nat
        OBVIOUS
      <4> HIDE DEF Bad
      <4> QED BY <4>1, NatLessThanWellFounded, WFMin, Zenon
    <3>2. \A j \in Bad : ~(j < n)
      BY <3>1, Zenon DEF OpToRel
    <3>3. CASE n = 0
      <4>1. [i \in 0..0 |-> start] = upto(0, [i \in 0..0 |-> start])
        OBVIOUS
      <4> QED BY <3>3, <4>1, Zenon
    <3>4. CASE n # 0
      <4>1. n - 1 \in Nat /\ n - 1 < n
        BY <3>4
      <4>2. PICK a : a = upto(n - 1, a)
        BY <3>2, <4>1, Zenon
      <4> DEFINE b == [i \in 0..n |-> IF i = n THEN step(n, a[n - 1]) ELSE a[i]]
      <4>3. ASSUME NEW i \in 0..n
            PROVE  b[i] = IF i = 0 THEN start ELSE step(i, b[i - 1])
        <5>1. CASE i = n
          <6>1. b[i - 1] = a[n - 1]
            BY <4>1, <5>1
          <6> QED BY <3>4, <5>1, <6>1
        <5>2. CASE i # n
          <6>1. i \in 0..(n - 1)
            BY <5>2
          <6>2. a[i] = IF i = 0 THEN start ELSE step(i, a[i - 1])
            BY <4>2, <6>1
          <6>3. i # 0 => b[i - 1] = a[i - 1]
            BY <6>1
          <6> QED BY <5>2, <6>2, <6>3
        <5> QED BY <5>1, <5>2
      <4>4. b = upto(n, b)
        BY <4>3
      <4> HIDE DEF b
      <4> QED BY <4>4, Zenon
    <3> QED BY <3>3, <3>4
  <2>2. \E a : a = body(a)
    BY <1>L, <2>1
  <2> HIDE DEF body
  <2> QED BY <2>2
<1> HIDE DEF after
<1> DEFINE Out == {i \in Nat : i <= L /\ ~(after[i] \subseteq Passed)}
<1>6. Out = {}
  <2> SUFFICES ASSUME Out # {} PROVE FALSE
    OBVIOUS
  <2>1. PICK i \in Out : \A j \in Out : ~(<<j, i>> \in OpToRel(<, Nat))
    <3>1. Out \subseteq Nat
      OBVIOUS
    <3> HIDE DEF Out
    <3> QED BY <3>1, NatLessThanWellFounded, WFMin, Zenon
  <2>2. \A j \in Out : ~(j < i)
    BY <2>1, Zenon DEF OpToRel
  <2>3. after[i] = IF i = 0 THEN start ELSE step(i, after[i - 1])
    BY <1>L, <1>5
  <2>4. i # 0
    BY <1>4, <2>3
  <2>5. i - 1 \in Nat /\ i - 1 < i /\ i - 1 <= L
    BY <1>L, <2>4
  <2>6. after[i - 1] \subseteq Passed
    BY <2>2, <2>5
  <2> QED BY <1>3, <2>3, <2>4, <2>6
<1>7. after[L] \subseteq Passed
  BY <1>6, <1>L
<1>8. PICK s \in after[L] : mem = IF s.most = none THEN memFreq ELSE s.most
  BY <1>1
<1> QED
  BY <1>7, <1>8 DEF Passed, NoFreq

(* A governor that goes by the slack passes the assertions of setMemFreq,  *)
(* setCoreFreqInd and setIPFreqInd.                                        *)
SafeSet == \E ind, mem : SetFreqs(ind, mem) /\ MemOK(mem) /\ Inside(ind)

LEMMA SlackSafe ==
  ASSUME config \in Configs, IsTable(dvfsState), Inside(dvfsState), MemOK(memFreq),
         governor \in Governors \ (LoadGovernors \cup FixedGovernors),
         OnLadder \/ governor = "CORE_ORACLE", NEW negative \in BOOLEAN, SlackBased(negative)
  PROVE  SafeSet
<1>m. OnLadder => \A n : \A mem \in dvfsMemory(n) : MemOK(mem)
  BY MemorySteps
<1>k. ASSUME NEW consumers, ServeConsumers(consumers, negative), OnLadder PROVE SafeSet
  <2>1. PICK served \in SUBSET consumers, mem \in dvfsMemory(negative) :
          \E ind \in setDVFSSlackFrequencies(served, negative) : SetFreqs(ind, mem)
    BY <1>k DEF ServeConsumers
  <2> QED BY <1>k, <1>m, <2>1, SlackFrequenciesInside DEF SafeSet
<1>1. CASE governor = "SLACK"
  <2>1. dvfsFixedPriority(negative) /\ OnLadder
    BY <1>1 DEF SlackBased
  <2>2. PICK measured \in SUBSET FlowUnits, mem \in dvfsMemory(negative) :
          \E first : \E ind \in IF measured = {} THEN {dvfsState}
                                                 ELSE Serve(first, measured, negative) :
            SetFreqs(ind, mem)
    BY <2>1 DEF dvfsFixedPriority
  <2> QED BY <1>m, <2>1, <2>2, ServeInside DEF SafeSet
<1>2. CASE governor = "CORE_ORACLE"
  <2>1. dvfsCoreOracle(negative)
    BY <1>2 DEF SlackBased
  <2> QED BY <2>1, SlackFrequenciesInside DEF dvfsCoreOracle, SafeSet
<1>3. CASE governor \in ConsumerGovernors
  <2>1. OnLadder
    BY <1>3 DEF ConsumerGovernors
  <2> QED
    BY <1>3, <1>k, <2>1, Zenon DEF SlackBased, ConsumerGovernors, dvfsParetoEfficient,
       dvfsMaxEnergyConsumer, dvfsMaxPowerConsumer, dvfsMaxEnergyPerTimeConsumer
<1>4. CASE governor = "KNAPSACK"
  <2>1. dvfsGreedyKnapsack(negative) /\ OnLadder /\ Floor = 3
    BY <1>4 DEF SlackBased, Floor
  <2>2. ASSUME NEW mem, MemOK(mem), NEW u \in Units, Trade(mem, u) PROVE SafeSet
    <3>1. PICK j \in 3..10 : mem = Rung(j)
      BY <2>1, <2>2 DEF MemOK
    <3>2. PICK ind : \E h \in 3..10 : SetFreqs(ind, Rung(h)) /\ Inside(ind)
      BY <2>2, <3>1, TradeSteps
    <3>3. \A h \in 3..10 : MemOK(Rung(h))
      BY <1>4, <2>1 DEF MemOK
    <3> QED BY <3>2, <3>3 DEF SafeSet
  <2>3. CASE negative
    <3>1. PICK served \in SUBSET FlowUnits :
            \E ind \in setDVFSSlackFrequencies(served, TRUE),
               mem \in dvfsMemory(TRUE) \cup (IF served = {} THEN {} ELSE {memFreq}) :
                 SetFreqs(ind, mem)
      BY <2>1, <2>3, Zenon DEF dvfsGreedyKnapsack
    <3>2. PICK ind \in setDVFSSlackFrequencies(served, TRUE), mem \in dvfsMemory(TRUE) \cup {memFreq} :
            SetFreqs(ind, mem)
      BY <3>1, Zenon
    <3>3. MemOK(mem) /\ Inside(ind)
      BY <1>m, <2>1, SlackFrequenciesInside, Zenon
    <3> QED BY <3>2, <3>3 DEF SafeSet
  <2>4. CASE ~negative
    <3>1. PICK mem \in dvfsMemory(FALSE) :
            \/ \E served \in SUBSET FlowUnits :
                 \E ind \in setDVFSSlackFrequencies(served, FALSE) : SetFreqs(ind, mem)
            \/ SetFreqs(dvfsState, mem) \/ \E u \in FlowUnits : Trade(mem, u)
      BY <2>1, <2>4, Zenon DEF dvfsGreedyKnapsack
    <3>2. MemOK(mem) /\ FlowUnits \subseteq Units
      BY <1>m, <2>1, Zenon DEF FlowUnits
    <3> QED BY <2>2, <3>1, <3>2, SlackFrequenciesInside, Zenon DEF SafeSet
  <2> QED BY <2>3, <2>4
<1>5. CASE governor = "COSCALE"
  <2>1. dvfsCoScaleNewNew /\ OnLadder /\ Floor = 3
    BY <1>5 DEF SlackBased, Floor
  <2>2. memFreq \in Rungs /\ \A mem \in Rungs : MemOK(mem)
    BY <1>5, <2>1 DEF MemOK, Rungs
  <2>3. config.flow \in Seq(STRING)
    BY DVFSAssumption
  <2> DEFINE at(verdict, u) == verdict[CHOOSE j \in DOMAIN config.flow : config.flow[j] = u]
             S(verdict) == [u \in Units |->
                              IF \E j \in DOMAIN config.flow : config.flow[j] = u
                              THEN CoScaled(u, at(verdict, u)) ELSE {dvfsState[u]}]
  <2>4. PICK verdict \in [DOMAIN config.flow -> {"inactive", "slow", "spare"}] :
          \E ind \in PickEach(S(verdict)), mem \in CoScaleMem(verdict) : SetFreqs(ind, mem)
    BY <2>1, Zenon DEF dvfsCoScaleNewNew
  <2>5. PICK ind \in PickEach(S(verdict)), mem \in CoScaleMem(verdict) : SetFreqs(ind, mem)
    BY <2>4, Zenon
  <2>6. MemOK(mem)
    BY <2>2, <2>3, <2>5, CoScaleSteps
  <2>7. ASSUME NEW u \in Units PROVE ind[u] \in 0..MaxInd(u)
    <3>0. ind[u] \in S(verdict)[u]
      <4> HIDE DEF S
      <4> QED BY <2>5, PickEachOf
    <3>1. ind[u] \in CoScaled(u, at(verdict, u)) \cup {dvfsState[u]}
      BY <3>0
    <3> HIDE DEF at
    <3>2. dvfsState[u] \in 0..MaxInd(u) /\ MaxInd(u) \in Nat /\ optDVFSState[u] \in 0..MaxInd(u)
      BY MaxIndType DEF Inside
    <3>3. Clamp(u, IF u = CPU THEN dvfsState[u] + 1 ELSE 1) \in 0..MaxInd(u)
      BY <3>2, ClampInside
    <3> QED BY <3>1, <3>2, <3>3 DEF CoScaled
  <2> QED BY <2>5, <2>6, <2>7 DEF SafeSet, Inside
<1>6. CASE governor = "MEMSCALE"
  <2>1. dvfsMemScale(negative) /\ OnLadder
    BY <1>6 DEF SlackBased
  <2>2. PICK load \in [Units -> {"high", "low", "neither"}], mem \in dvfsMemory(negative) :
          SetFreqs([u \in Units |-> MemScaled(u, load[u])], mem)
    BY <2>1 DEF dvfsMemScale
  <2>3. Inside([u \in Units |-> MemScaled(u, load[u])])
    BY MaxIndType DEF Inside, MemScaled
  <2> QED BY <1>m, <2>1, <2>2, <2>3 DEF SafeSet
<1>7. governor # "DYNAMICPROG"
  BY DEF OnLadder
<1> QED
  BY <1>1, <1>2, <1>3, <1>4, <1>5, <1>6, <1>7
  DEF Governors, SlackGovernors, LoadGovernors, FixedGovernors, ConsumerGovernors

MemInv ==
  /\ MemOK(memFreq)
  /\ aborted \in BOOLEAN
  /\ Survives

LEMMA InitMemInv == Init => MemInv
<1> SUFFICES ASSUME Init PROVE MemInv
  OBVIOUS
<1>0. config \in Configs /\ memFreq = InitMem(config) /\ aborted = FALSE
  BY DEF Init
<1>c. governor \in Governors /\ config.mem \in 3..10
  BY <1>0, DVFSAssumption DEF governor
<1>1. governor = "CORE_ORACLE" => memFreq = Rung(9)
  BY <1>0, RungLiterals DEF InitMem, governor, SlackGovernors, ConsumerGovernors
<1>2. governor \in SlackGovernors => memFreq = Rung(8)
  BY <1>0, RungLiterals DEF InitMem, governor, SlackGovernors, ConsumerGovernors
<1>3. governor \in {"MEMSCALE", "COSCALE"} => memFreq = Literal(config.mem)
  BY <1>0 DEF InitMem, governor, SlackGovernors, ConsumerGovernors
<1>4. config.mem >= 8 => Literal(config.mem) \in {Rung(8), Rung(9), Rung(10)}
  <2>1. config.mem >= 8 => config.mem = 8 \/ config.mem = 9 \/ config.mem = 10
    BY <1>c
  <2> QED BY <2>1, RungLiterals DEF MAX_MEM_FREQ
<1>5. Floor \in {3, 4}
  BY DEF Floor
<1>6. OnLadder => \E k \in Floor..10 : memFreq = Rung(k)
  <2>1. OnLadder => memFreq \in {Rung(8), Rung(9), Rung(10)}
    BY <1>2, <1>3, <1>4 DEF OnLadder
  <2>2. 8 \in Floor..10 /\ 9 \in Floor..10 /\ 10 \in Floor..10
    BY <1>5
  <2> QED BY <2>1, <2>2
<1> QED
  BY <1>0, <1>1, <1>6, Zenon DEF MemInv, MemOK, Survives

LEMMA NextMemInv == TableInv /\ MemInv /\ [Next]_vars => MemInv'
<1> SUFFICES ASSUME TableInv, MemInv, [Next]_vars PROVE MemInv'
  OBVIOUS
<1>0. config \in Configs /\ governor \in Governors
  BY ConfigType DEF TableInv
<1>c. config' = config /\ governor' = governor
  BY DEF Next, Epoch, setPStateActive, vars, governor
<1>g. ASSUME MemOK(memFreq'), aborted' \in BOOLEAN,
             aborted' => \/ governor = "DYNAMICPROG"
                         \/ governor \in {"MEMSCALE", "COSCALE"} /\ config.mem < 8
      PROVE  MemInv'
  BY <1>c, <1>g DEF MemInv, MemOK, OnLadder, Floor, Survives, governor, Rung
<1>u. CASE UNCHANGED <<memFreq, aborted>>
  BY <1>g, <1>u DEF MemInv, Survives
<1>1. CASE Epoch
  <2>0. ~aborted /\ governor \notin FixedGovernors /\ updateDVFS
    BY <1>1 DEF Epoch
  <2>t. IsTable(dvfsState) /\ \A u \in Units : dvfsState[u] \in 0..Top(u)
    BY <2>0 DEF TableInv
  <2>1. CASE UNCHANGED <<memFreq, aborted>>
    BY <1>u, <2>1
  <2>2. CASE governor \in LoadGovernors
    BY <1>u, <2>0, <2>2, Zenon DEF updateDVFS, dvfsLoadBased
  <2>3. CASE governor \notin LoadGovernors
    <3>i. Inside(dvfsState)
      BY <2>3, <2>t, MaxIndType DEF Inside, Top, LoadGovernors
    <3>m. MemOK(memFreq)
      BY DEF MemInv
    <3>s. ASSUME NEW ind, NEW mem, SetFreqs(ind, mem), MemOK(mem), Inside(ind),
                 OnLadder \/ governor = "CORE_ORACLE"
          PROVE  MemInv'
      <4>1. mem.k \in 3..10
        <5>1. \E k \in 3..10 : mem = Rung(k)
          BY <3>s DEF MemOK, Floor
        <5> QED BY <5>1 DEF Rung
      <4>2. ~aborted' /\ aborted' \in BOOLEAN
        BY <3>s, <4>1, Zenon DEF SetFreqs, Settable, Inside
      <4> QED BY <1>g, <3>s, <4>2 DEF SetFreqs
    <3>o. CASE ~OnLadder /\ governor # "CORE_ORACLE"
      <4>1. \/ governor = "DYNAMICPROG"
            \/ governor \in {"MEMSCALE", "COSCALE"} /\ ~(config.mem >= 8)
        BY <1>0, <2>0, <2>3, <3>o DEF OnLadder, Governors, FixedGovernors
      <4>2. config.mem \in 3..10
        BY <1>0, DVFSAssumption
      <4>3. aborted' \in BOOLEAN
        <5>1. \A ind, mem : SetFreqs(ind, mem) => aborted' \in BOOLEAN
          BY Zenon DEF SetFreqs
        <5>2. \A negative \in BOOLEAN : SlackBased(negative) => aborted' \in BOOLEAN
          BY <5>1, SlackSets, <1>0, <2>0, <2>3, <2>t, Zenon
        <5> QED BY <2>0, <2>1, <2>3, <5>1, <5>2 DEF updateDVFS, MemInv
      <4>4. MemOK(memFreq')
        BY <3>o DEF MemOK
      <4> QED BY <1>g, <4>1, <4>2, <4>3, <4>4
    <3>n. CASE OnLadder \/ governor = "CORE_ORACLE"
      <4>1. CASE SetFreqs(dvfsState, memFreq)
        BY <3>i, <3>m, <3>n, <3>s, <4>1
      <4>2. ASSUME NEW negative \in BOOLEAN, SlackBased(negative) PROVE MemInv'
        <5>1. SafeSet
          BY <1>0, <2>0, <2>3, <2>t, <3>i, <3>m, <3>n, <4>2, SlackSafe
        <5> QED BY <3>n, <3>s, <5>1 DEF SafeSet
      <4> QED BY <2>0, <2>1, <2>3, <4>1, <4>2 DEF updateDVFS
    <3> QED BY <3>o, <3>n
  <2> QED BY <2>2, <2>3
<1>2. ASSUME NEW u \in Units, setPStateActive(u) PROVE MemInv'
  BY <1>2, <1>u DEF setPStateActive
<1>3. CASE UNCHANGED vars
  BY <1>3, <1>u DEF vars
<1> QED
  BY <1>1, <1>2, <1>3 DEF Next

LEMMA MemInvariant == Spec => [](TableInv /\ MemInv)
BY InitTable, NextTable, InitMemInv, NextMemInv, PTL DEF Spec

(* The assertions of the setters hold with every governor but DYNAMICPROG  *)
(* and, from below 0.8 GHz, the two that start the memory anywhere: the    *)
(* rounded steps of 0.1 end exactly on MAX_MEM_FREQ.                       *)
THEOREM AssertionsSurvive == Spec => []Survives
<1>1. MemInv => Survives
  BY DEF MemInv
<1> QED
  BY <1>1, MemInvariant, PTL

(* Up and down by rounded steps of 0.1 the memory comes back to the very   *)
(* doubles it left.                                                        *)
THEOREM MemoryDoesNotDrift == Spec => []NoDrift
<1>1. MemInv => NoDrift
  <2> SUFFICES ASSUME MemInv, governor \in SlackGovernors \ {"DYNAMICPROG"}
               PROVE  \E n \in 0..7 : memFreq = StepsDown(MAX_MEM_FREQ, n)
    BY DEF NoDrift
  <2>1. PICK k \in 3..10 : memFreq = Rung(k)
    BY DEF MemInv, MemOK, OnLadder, Floor
  <2>2. 10 - k \in 0..7 /\ 10 - k \in 0..(10 - 2) /\ 10 - (10 - k) = k
    OBVIOUS
  <2>3. StepsDown(Rung(10), 10 - k) = Rung(10 - (10 - k))
    BY <2>2, Descend
  <2> QED BY <2>1, <2>2, <2>3, RungLiterals
<1> QED
  BY <1>1, MemInvariant, PTL
=============================================================================
