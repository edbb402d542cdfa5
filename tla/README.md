# A TLA+ verification of GemDroid

GemDroid is a trace-driven simulator of a mobile system on chip, built into
gem5. Its own code is in `src/gemdroid.src/gemdroid/`; it drives the DRAMSim2
memory controller in `src/gemdroid.needed/gemdroid.dramsim2/`. This directory
holds TLA+ models of that code, TLC configurations that check them on small
instances, and proofs checked by TLAPS.

## The system

| Part | Source | What it does |
|---|---|---|
| SoC clock | `gemdroid.cc` | `GemDroid::tick` runs cores, IPs, GPU, then System Agent and memory, each when its own clock is due |
| Core | `gemdroid_core.cc` | replays a trace through a reorder buffer: instructions, memory accesses, IP calls, frame waits |
| System Agent (SA) | `gemdroid_sa.cc` | queues between cores, IPs and memory; queues of IP calls; chains of calls |
| Memory | `gemdroid_mem.cc`, `MultiChannelMemorySystem.cpp` | accepts requests per channel, answers later in any order, or at once ("perfect memory"); has a frequency |
| DRAM channel | `MemoryController.cpp`, `CommandQueue.cpp`, `Rank.cpp`, `AddressMapping.cpp` of DRAMSim2 | turns transactions into commands, schedules them, keeps the timing rules, refreshes and powers down |
| Flows | `gemdroid.cc`, `flows.txt` | which IP follows which, per application |
| Devices | `gemdroid_ip.cc` | display, network, sound, microphone, camera, flash: move a frame line by line |
| Accelerators | `gemdroid_ip_decoder/encoder/nocoder.cc` | video and audio codecs, image processor: read, compute, write |
| GPU | `gemdroid_ip_gpu.cc` | replays its own trace and reports frames |
| DVFS | `gemdroid_dvfs.cc` | chooses frequencies of cores, IPs and memory |
| not in use | `gemdroid_ip_dma.*`, `gemdroid_power.*` | no instance is run; empty files |

A core reads a line of its trace. Instructions and memory accesses go into its
reorder buffer; the access at the head goes to SA. A line such as `FB-UP` calls
an IP through SA and makes the core wait for the end of the frame. SA hands
calls to IPs that are not busy. An IP moves its frame through SA and memory and
reports to SA, which calls the next IP of the flow.

The program has one thread. What interleaves are components with different
clocks, and answers of the memory that arrive in between. A frequency may
change at any time, so between two ticks of one component any number of ticks
of another may happen. The models leave that open.

## The modules

| Module | Models | State |
|---|---|---|
| `GemDroidFlows` | flow table, `nextIPtoCall`, the calls of `enqueueIPResponse` and `processIPCall` | none, operators |
| `GemDroidSA` | the member functions of the System Agent | its five queues and `m_cyclesToSkip` |
| `GemDroidMemory` | `enqueueMemReq`, `MemoryController::update` | `dram`, the transactions not answered |
| `GemDroidSoC` | SA, memory, flows and the callers composed | where the tick of SA and memory is, who serves what |
| `MemPort` | the promise of the memory path | requests not answered, per requester |
| `GemDroidIP` | power states of every IP (`updatePower`, `enqueueIPReq`), frame marks (`markIPRequestStarted`, `markIPRequestCompleted`) | power state, idle count, wake-up count, busy, frame marked |
| `GemDroidDevice` | a device | lines to request, responses, cycles to skip |
| `GemDroidAccelerator` | an accelerator of any class | lines to request, both buffers, progress |
| `GemDroidCore` | an in-order core | reorder buffer, power state, waits, requests in the memory |
| `GemDroidGPU` | the GPU, which replays its own trace | power state, the request that waits, the frame being written |
| `GemDroidMemFreq` | the memory frequency: doubles near tenths of a GHz, rounded as IEEE 754 says | none, operators |
| `GemDroidDVFS` | `initDVFS`, `updateDVFS`, every governor it calls, the DVFS part of `tick`, `setPStateActive` | table index of each unit, memory frequency, the clocks derived from them |
| `GemDroidInteractive` | the governors in time: `tick` up to the next epoch, units that leave the active state and come back | adds ticks since the last epoch, ticks since a unit became active, units not active |
| `DRAMSimMapping` | `addressMapping` with its seven schemes, `findChannelNumber` | none, operators |
| `DRAMSimChannel` | `MemorySystem::update` of one channel: `CommandQueue`, `MemoryController`, `Rank` | transaction and command queues, bank states of controller and rank, buses, refresh, power |
| `SeqCount` | lemmas: counting the elements of a sequence | none |
| `GemDroidSoCProofs`, `GemDroidSoCConservation` | theorems about the memory path and the call queues | none |
| `GemDroidDeviceProofs`, `GemDroidAcceleratorProofs`, `GemDroidGPUProofs` | theorems about devices, accelerators and the GPU | none |
| `GemDroidDVFSProofs` | theorems about the governors and about INTERACTIVE in time | none |
| `DRAMSimMappingProofs` | the theorem about the address mapping | none |
| `MC*` | values for TLC | none |

**Composition.** `GemDroidSoC` runs `gemdroid_sa.tick(); gemdroid_memory.tick()`
as a sequence of small steps (`stage`, `turn`): requests once per channel, calls,
responses once per channel unless `m_cyclesToSkip` says otherwise, then for each
channel a write completion, a scheduling step and a read return. Cores and IPs
act when that block is not running, as in the program. In this module they are
reduced to what SA sees of them. Their insides are in `GemDroidDevice`,
`GemDroidAccelerator`, `GemDroidCore` and `GemDroidGPU`, which use the memory
through the abstract `MemPort`: a request may be refused, an accepted one is answered later.
`GemDroidSoC` is shown to implement `MemPort`, by TLC and by proof.

**Data.** A memory message is its sender, read or write, and the channel of its
address. A call is its sender, its core and its flow type. Addresses matter
only in `GemDroidCore`, where answers are matched by address. Statistics,
printing and the addresses of frames are left out. In `GemDroidSoC`, DRAM timing,
refresh and row policy only decide when a transaction is scheduled and
completes, a free choice there; `DRAMSimChannel` has them in full. A time is kept as the
number of cycles left. In `GemDroidDVFS` a comparison of estimated times,
energies or powers may turn out either way, since the estimates are functions of
measurements that may be anything. What follows from the outcome is as in the
code. The memory frequency is exact: `[k, e]` stands for k/10 + e * 2^-56 / 5.

**Uninitialised fields.** `is_busy`, SA's `m_cyclesToSkip`, the GPU's
`cyclesToSkip` and the decoder's `m_dependenceCount` are read before they are
set. The simulator object is allocated in fresh pages, so they read as zero, and the models start with zero.

**Assertions.** The README of the repository builds `gem5.debug`, so an
assertion that fails ends the simulation. `GemDroidCore` and `GemDroidDVFS` have
`aborted` for that, `DRAMSimChannel` has `failed` for the `exit` of a check.
Assertions on estimates (`extra_cpu_time >= 0` and the like) are taken to hold.

**Configuration of the DRAM.** `gemdroid.ini` and the device files set open pages,
a command queue per bank, FRFCFS, low power, no posted CAS (`AL` is 0) and
`tCMD` 1. `DRAMSimChannel` models those branches, for one rank. It is one
channel: channels share nothing but `findChannelNumber`.

## What the runs check

Passing runs:

| Run | Instance | Shows |
|---|---|---|
| `soc` | one core, one IP that uses the memory, two channels, all limits 1, DRAM or perfect memory, a core with a window of 4 or in order; and a core that runs the camera game (application 4) with the GPU | `Conservation`: an accepted request is in exactly one place until its answer. `Separation`: core and IP traffic is never mixed. `RequestBound`, `InFlightBound`: what the admission tests really bound. `ImplementsMemPort`. `Answered`: with an in-order core a requester that waits is answered, although cores have priority. `CallQueueBound`: the assertion in `enqueueCoreIPRequest`. `FlowsFollowed`: an IP calls only its successors. `DroppedOnlyIfFull`: it calls every one of them, except where the queue of calls is full. `CallsServed`: no queue of calls starves |
| `device` | calls of 1, 3, 8 and 16 lines | `LinesAccounted`, `OneResponsePerCall`, `AwakeWhenBusy`, `CallsFinish`. `FrameMeasured`: from the first call on, a frame is marked as started just while a call is served |
| `accelerator` | two decoders, an encoder, the image processor | `BuffersFit`, `LinesAccounted`, `OutputComplete`, `CallsFinish`, `FrameMeasured` |
| `core` | two addresses, a buffer of three, two issue slots; a timely memory and one that may never answer | `OneOutstanding`: an answer always finds its transaction. `Coalesced`. `ActiveWhenReading`, `WakesUp` for frame waits longer than the entry time of low power. `HeadReleased`: `checkDeadlock` frees the buffer although its condition leaves out one tick per period |
| `gpu` | frames of three lines; stalls shorter than, equal to and longer than the entry time of low power | `LinesWritten`: the early return that a comment doubts ("Not really needed?") keeps a refused line. `WaitNotMeasured`: the wait for the frame's time is not part of the frame's measured time. `DisplayedWhenWritten`. `AwakeAfterStall`, `ReadsOn`: see below |
| `dvfs` | all governors, the flows of four applications, two of which make `dvfsDynamicProg1` override its choice, tables of five and four frequencies | `InTable`: no index leaves its table but the core's under BUILDING. `Survives`: which governors can fail an assertion. `NoDrift`: 0.8 GHz and rounded steps of 0.1 make one ladder, up and down. `ClocksFollow`: a clock differs from its frequency only for a unit that woke up since the last epoch |
| `dram` | three senders, two banks, four rows; a row limit of 1, a refresh every 20 cycles | `Allows`: controller and rank agree on every command. `RowKept`: no access loses its activation or its row. `RightReader`, `NoOvertaking`, `Served`, `RefreshComes` |

The GPU has a weakness that `AwakeAfterStall` and `ReadsOn` delimit. The last
tick of a frame stall wakes a GPU that sleeps, then calls `updatePower`. If the
idle count reaches the entry time in that very tick, the GPU powers down after
the test, and nothing wakes it later (`Overslept`). The two properties say that
this is the only way in which the GPU stops. The idle count survives short
stalls, so several of them add up to the entry time. No comment or test of the
repository claims otherwise, so this is recorded as a hazard and not a finding.
A GPU that has overslept is reachable in the run: take `~Overslept` as an
invariant and TLC reports a stall of exactly `PSTATE_ENTER_TIME` ticks.

What the runs of DVFS and DRAM delimit, beyond their findings:

* BUILDING raises the core by two steps when it is not at the last entry. It can
  come to stand one entry beyond the table; `getCoreFreq()` then reads past it.
* Under DYNAMICPROG an assertion can fail in two ways. `dvfsDynamicProg1` tries
  negative indices, `getIPFreq` takes them for 0, and `energy <= minEnergy` keeps
  the last one, which `setIPFreqInd` refuses. A flow with no accelerator and
  only the core meets `assert(0)`.
* POWERCAP hands a core frequency in GHz to `setCoreFreqInd`: cut to an integer
  it is index 0 or 1.
* `governor_timing` 4 turns the slack governors off: nothing sets `doSlackDVFS`,
  as the call in `gemdroid_core.cc:795` is commented out.
* The last search of FRFCFS runs whatever the others found, since `foundCPURBHit`
  and `foundCPUReq` are never both set. So neither requests of cores nor row
  hits go first: the first command that can be issued does. A row hit without an
  activation in front is not counted against `TOTAL_ROW_ACCESSES`.
* An IP is marked as in a frame from its construction on (`GemDroidIP::init`
  calls `setPStateActive`), so its first frame is measured with the time
  before it. A late frame of the GPU leaves the next one unmarked.

Violation runs, each with a finding in `PROJECT.json`:

| Run | Finding |
|---|---|
| `packet_stuck` | `GemDroidIP::tick` divides integers where the call took a ceiling. A network packet of 1562 bytes asks for 25 lines and is done after 24 responses; the late response counts for the next packet, the count can jump over its goal, and the device is busy forever |
| `flow_end` | VE and AE call the flash whatever their flow says, because they ask for the successor in a flow that ends with themselves |
| `core_frame_end` | a core whose frame wait ends when it has been idle for exactly the entry time powers down, goes on working, and fails the assertion in `readLine` |
| `mem_drift` | MEMSCALE from 500 MHz, six epochs of negative slack: 0.5 + 5 * 0.1 is 0.9999999999999999 in doubles, below `MAX_MEM_FREQ`, so there is a sixth step, and `setMemFreq` fails its assertion. COSCALE can do the same. 500 is the default of `GemDroid.py:43`; `Options.py:221` has 800, from which the steps are exact |
| `interactive_hold` | INTERACTIVE "Goes to highest dvfs state when becoming active and stays there for atleast INTERACTIVE_GOVERNOR_LAT ms" (`gemdroid_defines.hh:111`). A unit that becomes active just before an epoch has its counter taken down by that epoch, as if a millisecond had passed, and can leave its maximum little more than `INTERACTIVE_GOVERNOR_LAT - 1` ms later. A video decoder is not raised at all when it becomes active. `MaximumIsHeld` below proves that a longer epoch keeps the promise for all other units |

Every property of a passing run has a mutant: a plausible slip in the code that makes TLC find
the property violated. Mutants are the definitions that start with `Mut`,
each just before the definition it replaces. The types of `GemDroidSoC` and
`GemDroidDevice` (`TypeOK`) are proved rather than run.

### Bounds

* Limits and depths of 1 or 2 let every queue be full and empty within a few
  steps. The admission tests depend on the sizes only through comparisons with
  the limits, so larger limits add no new order of events. The proofs hold
  for every value.
* Two channels make the loops over channels run more than once, and let a
  core's request and an IP's request complete in either order.
* `coreWindow` is 4 to stand for the four cores of the shipped configuration, and
  1 for `Answered`: an in-order core has one request in the memory.
  `OneOutstanding` of `GemDroidCore` is the reason. With 0 the trace holds calls
  of IPs and no memory accesses. Memory requests and calls are in different
  queues and share only the order of steps within a tick, so `soc` has traces
  with the one or the other. The proofs are about both at once.
* `ISSUED_DEPTH` bounds what the command queues and banks of a channel hold.
* `MIN_SERVICE` is the least number of SA ticks an IP needs for a call. A real
  frame moves thousands of lines; 3 is enough for `CallsServed`.
* `MAX_PENDING` bounds the requests the port holds for a device or a core that
  does not wait for its answers.
* Entry times of power states are shorter than exit times, as in `gemdroid_ip.hh`.
  For the core the entry time is longer than any wait for a timely memory, as
  200000 is against `DEADLOCK_PERIOD` of 100000.
* Frames are whole lines and whole chunks, and P-frames split evenly into tenths,
  as all frames of the code do. Packets do not; they have a run of their own.
* `dvfs` shortens the tables. Steps are by one or two, so five entries have
  an inside; the optimum is inside, too. `INTERACTIVE_GOVERNOR_LAT` is 2
  for 5. Memory frequencies are those of the code, 0.3 to 1.0 GHz. The
  option `mem_freq` is any number of MHz; `MultiChannelMemorySystem.cpp:499-527`
  has a voltage for the tenths of a GHz in that range and reports others as
  unknown, so `DVFSAssumption` has `c.mem \in 3..10`.
* `interactive_hold` has the `INTERACTIVE_GOVERNOR_LAT` of the code, 5, the default
  epoch, and a millisecond of two ticks: a unit can become active right after an
  epoch or half a millisecond before the next one. Times beyond the promised one
  are not told apart.
* `dram` has delays in the order of those of LPDDR3, each a few cycles. Two
  banks and three senders let a bank have a row open that one sender wants,
  another row that a second one wants, and a second bank in between. A refresh
  every 20 cycles meets every state of the queues. Four activations within
  `tFAW` need more banks, so that window is modelled but never full.
* Fewer banks or senders than the device has do not add behaviours; that more of
  them add none of a new kind is not shown. `PlacesDistinct`
  has no variables, so no run states it; it is proved for every geometry.

### Fairness

* The tick event schedules its successor, so no clock stops: weak fairness of the
  memory clock, of `tick` of devices, accelerators, cores and the GPU.
* The controller serves every requester: strong fairness of scheduling and of
  completion per requester. `Served` of `DRAMSimChannel` is the reason, which
  itself assumes only that the clock goes on. Only `Answered` needs this
  (`MemoryFairness`), and it has it as its hypothesis.
* A called IP finishes its call (`CallFairness`, in the specification of `soc`), which is `CallsFinish` of
  the device and accelerator models.
* The port does not refuse a requester forever: strong fairness of an accepted
  request; for the GPU, of a tick whose retry is accepted. `Answered` empties the queues again and again.
* `HeadReleased` assumes nothing of the memory.

`Answered` needs fewer cores than channels. With as many in-order cores as
channels it relies on DRAM latency, which the model leaves open.

## What is proved

Each theorem is about `Spec` (`MaximumIsHeld` about `TimedSpec`), for all constants that satisfy the named
assumptions (`LimitsAssumption`, `RequestersAssumption`, `DepthAssumption`,
`TrafficAssumption`, `AppAssumption`; `PStateAssumption`, `DeviceAssumption`,
`AcceleratorAssumption`, `FrameAssumption`, `GPUAssumption`; `DVFSAssumption`;
`MappingAssumption`).

* `TypeCorrect`, `Separated`, `RequestsBounded`, `CallQueuesBounded`
  (`GemDroidSoCProofs`). Type correctness is inductive and supports the others.
  `Separation` is not inductive alone: the memory must hold what it was given,
  so it is carried together with the types of `dram`. `CallQueueBound` needs
  that `processIPCall` tests before it enqueues, and that each of the calls of
  a chain tests on its own.
* `Conserved`, `PortImplemented` (`GemDroidSoCConservation`). The number of
  requests of `r` is written as a sum over five sequences. `SeqCount` proves how
  appending, taking the head and removing the i-th element change such a count.
  Each action moves one message from one term to another. `PortImplemented`
  follows: a step that answers `r` takes a message of `r` out of a response
  queue, so by `Conservation` the count was positive.
* `InFlightIsBounded` (`GemDroidSoCConservation`). The response queues are tested
  only when a request is admitted, so their bound has to come from elsewhere. Each
  channel holds at most `TRANS_QUEUE_DEPTH + ISSUED_DEPTH` transactions
  (`ChannelBound`, inductive). The sum over the channels is bounded by looking at
  the least channel up to which it would be too large (`ChannelsFill`).
* `DeviceTypeCorrect`, `NeverAsleepWhenBusy`, `LinesAreAccounted`,
  `CallsAnsweredOnce` (`GemDroidDeviceProofs`). `AwakeWhenBusy` needs that an
  idle count below the entry time goes with a busy active device (`NotDozing`).
  The last two assume `WholeLines`, which `packet_stuck` shows to be necessary.
  Their invariant adds that a busy device has a size the device is called with
  (`SizeKnown`).
* `FramesAreMeasured` (`GemDroidDeviceProofs`), for every size of calls: once a
  device serves a call, `frameStarted <=> Serving` is inductive. Every step that
  ends a call clears the mark, and every one that starts serving, at once or at
  the end of a wake-up, sets it.
* `BuffersAlwaysFit`, `InputAccounted`, `OutputIsComplete`
  (`GemDroidAcceleratorProofs`), for all classes, buffer sizes, ratios and
  latencies. The invariant `PipeInv` adds the types, that a call brought a known
  frame, and `ChunksOut`: the output that was written or waits is that of the
  chunks the processed lines fill. A line more fills a chunk or leaves their
  number (`OneMoreLine`), which is where `OutputComplete` comes from.
* `AcceleratorAwake`, `CallsAreMeasured` (`GemDroidAcceleratorProofs`): as for
  devices.
* `NoLineLost`, `WaitsNotMeasured`, `FramesWritten`, `WokenAfterWait`
  (`GemDroidGPUProofs`). `LinesWritten` says nothing of a frame that is done, so
  `FrameInv` adds that at most its last line may wait then. `WaitInv`: no one
  wakes the GPU in a wait. `PowerInv`: an active GPU has counted fewer idle
  cycles than it takes to fall asleep. `WokenAfterWait` has the exception
  described above.
* `TablesRespected`, `ClocksAreFollowing` (`GemDroidDVFSProofs`), for all tables and
  flows. The assertions of the setters keep the slack governors in the tables;
  the load governors have none and need `TableInv` itself, with its one
  exception for the core under BUILDING.
* `AssertionsSurvive`, `MemoryDoesNotDrift` (`GemDroidDVFSProofs`). 1.0 GHz and
  what lies below it in rounded steps of 0.1 are the rungs of a ladder: a step
  up or down from a rung ends on the next (`RungUp`, `RungDown`, by the
  rounding of IEEE 754). No governor leaves the ladder but MEMSCALE and COSCALE
  started below 0.8 GHz.
* `MaximumIsHeld` (`GemDroidDVFSProofs`): `HoldsMax` holds without video decoders
  and with epochs so long that `INTERACTIVE_GOVERNOR_LAT - 1` of them take
  `INTERACTIVE_GOVERNOR_LAT` ms (`LongPeriods`). `HoldsMax` is not inductive. The
  invariant `HoldInv` adds that a unit whose counter has been taken down k times
  has been active for k - 1 whole epochs and the current one so far
  (`TicksPassed`). An epoch that takes the counter to 0 therefore comes after the
  promised time (`CountsDown`).
* `PlacesAreDistinct` (`DRAMSimMappingProofs`), for every geometry and all seven
  schemes. A number below a * b * c * d * e is determined by the five remainders
  `Cut` takes (`CutDetermines`), since each division leaves a smaller bound
  (`Quotient`); each scheme is one order of the five sizes.

Only model-checked: every liveness property (fairness and ENABLED are outside
what the prover supports), `FlowsFollowed` (a fact about one flow table),
`DroppedOnlyIfFull`, and everything about the cores and the DRAM channel but its
address mapping.

## What is not modelled

* gem5. `src/` holds all of it, over 300,000 lines: CPU models, ISA decoders, the
  Ruby protocols, devices, the Python of its configuration. GemDroid takes its
  event queue and its parameters from it and nothing else. GemDroid's own code and
  DRAMSim2 are some 17,000 lines, and the map covers the part of them that
  changes state. As a share of all of `src/` that is about one percent.
* In DRAMSim2: closed pages, posted CAS, the per-rank queue, several ranks, the
  change of `tCK` by `updateFreq`, trace and ini files, CSV output. With several
  ranks and a changed `tCK` a refresh countdown could pass 0 unnoticed; the
  shipped configuration has one rank.
* The values of estimates in `gemdroid_dvfs.cc`; `dvfsCoScale` and
  `dvfsCoScaleNew`, which nothing calls.
* Frame marks of the cores and the statistics made from all marks. `int
  ticksFromLastDC` in `isFrameDrop` overflows after 2^31 ticks without a frame:
  the core model has the stall that follows from it, not the tick count.
* Flow table entries beyond application 12.
* `GemDroidCore::process`, the out-of-order path: `IN_ORDER` is true.
* The value of `setIdleRatio`, the look-ahead in the trace: it scales the wait
  of a CPU line, and the core model has waits of any length (`Waits`).
* Power and energy numbers, statistics, printing: output only.
* DMA and `gemdroid_power`: not in use.

## Plan

1. Proofs: `OneOutstanding` and `Coalesced` of the core, `RowKept` and `Allows` of
   the DRAM channel, `DroppedOnlyIfFull`, with the types they need.
2. Refinement: a device and an accelerator implement an abstract IP (called,
   busy, done) that `GemDroidSoC` uses; a DRAM channel implements `dram`.
