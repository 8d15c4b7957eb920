------------------------------ MODULE Devices -------------------------------
(***************************************************************************)
(* Which devices mine, with which API: the arguments of MinerCLI (main.cpp *)
(* validateArgs), the devices that CLMiner, CUDAMiner and CPUMiner find    *)
(* (enumDevices), their subscription (execute) and the miners Farm::start  *)
(* creates for them.                                                       *)
(*                                                                         *)
(* The collection is a map ordered by the text of the unique id, and the   *)
(* indices of the command line count in that order.  A PCI id "bb:dd.f" is *)
(* the tuple of its three numbers, "cpu-12" the tuple of its digits, the   *)
(* empty string <<>>: tuples are ordered as the texts are.                 *)
(***************************************************************************)
EXTENDS Integers, Sequences, FiniteSets, SequencesExt

\* The order of std::string on these ids.
Less(a, b) ==
  \E i \in 1..Len(b) :
    /\ \A j \in 1..i - 1 : j <= Len(a) /\ a[j] = b[j]
    /\ i <= Len(a) => a[i] < b[i]

NoDevice == [cl |-> FALSE, cu |-> FALSE, cpu |-> FALSE, platform |-> "Unknown",
             clPlatformId |-> 0, clDeviceOrdinal |-> 0, cuDeviceIndex |-> 0,
             subscription |-> "None"]
Descriptor(devices, id) == IF id \in DOMAIN devices THEN devices[id] ELSE NoDevice
Upsert(devices, id, d) == [k \in DOMAIN devices \cup {id} |-> IF k = id THEN d ELSE devices[k]]
NthId(ids, i) == CHOOSE id \in ids : Cardinality({k \in ids : Less(k, id)}) = i
AtIndex(devices, i) == NthId(DOMAIN devices, i)

-----------------------------------------------------------------------------
(* validateArgs *)

MinerTypeOf(args) ==
  CASE args.opencl -> "CL"
    [] ~args.opencl /\ args.cuda -> "CUDA"
    [] ~args.opencl /\ ~args.cuda /\ args.cpu -> "CPU"
    [] OTHER -> "Mixed"

\* --HWMON, --tstop and --tstart once checked: tempStop 0 means no control
MonitorSettings(hwMon, tempStop, tempStart) ==
  IF tempStop = 0 THEN [hwMon |-> hwMon, tempStop |-> 0, tempStart |-> tempStart]
  ELSE IF tempStop <= tempStart THEN [error |-> "-tstop must be greater than -tstart"]
  ELSE [hwMon |-> IF hwMon > 1 THEN hwMon ELSE 1, tempStop |-> tempStop, tempStart |-> tempStart]

-----------------------------------------------------------------------------
(* The ids.  A card is [bus, slot, fn]; pci tells whether its driver       *)
(* answers the question for them.                                          *)

\* t[21] of the topology is a signed char: from 0x80 it prints as ffffff80.
SignedChar(b) == IF b < 128 THEN b ELSE 2^30 + b

ClUniqueId(platform, dev) ==
  CASE ~dev.pci -> <<>>
    [] dev.pci /\ platform = "Nvidia" -> <<dev.bus, dev.slot, dev.fn>>
    [] OTHER -> <<SignedChar(dev.bus), SignedChar(dev.slot), SignedChar(dev.fn)>>

CudaUniqueId(dev) == <<dev.bus, dev.slot, 0>>

CpuUniqueId(i) == IF i < 10 THEN <<i>> ELSE <<i \div 10, i % 10>>

-----------------------------------------------------------------------------
(* CLMiner::enumDevices: getDevices() returns GPUs and accelerators; of    *)
(* the latter only the ordinal is counted.                                 *)

\* One device of platform p: the collection and the ordinal of the next one.
ClDevice(p, platform, acc, dev) ==
  LET id == ClUniqueId(platform, dev)
      d == [Descriptor(acc.devices, id) EXCEPT !.cl = TRUE, !.platform = platform,
              !.clPlatformId = p, !.clDeviceOrdinal = acc.dIdx]
  IN  [devices |-> IF dev.gpu THEN Upsert(acc.devices, id, d) ELSE acc.devices,
       dIdx |-> acc.dIdx + 1]

\* Mutant of ClPlatform: what is not a GPU is left out of the ordinals too.
ClPlatformGpusOnly(p, platform, devices) ==
  LET step(acc, dev) == IF dev.gpu THEN ClDevice(p, platform.type, acc, dev) ELSE acc
  IN  IF platform.type = "Unknown" THEN devices
      ELSE FoldLeft(step, [devices |-> devices, dIdx |-> 0], platform.devs).devices

ClPlatform(p, platform, devices) ==
  LET step(acc, dev) == ClDevice(p, platform.type, acc, dev)
  IN  IF platform.type = "Unknown" THEN devices
      ELSE FoldLeft(step, [devices |-> devices, dIdx |-> 0], platform.devs).devices

ClEnumDevices(platforms, devices) ==
  LET step(acc, p) == ClPlatform(p - 1, platforms[p], acc)
  IN  FoldLeft(step, devices, [p \in 1..Len(platforms) |-> p])

\* CUDAMiner::enumDevices: a device whose properties cannot be read is skipped
CudaEnumDevices(cards, devices) ==
  LET step(acc, i) ==
        LET id == CudaUniqueId(cards[i])
            d == [Descriptor(acc, id) EXCEPT !.cu = TRUE, !.cuDeviceIndex = i - 1]
        IN  IF cards[i].pci THEN Upsert(acc, id, d) ELSE acc
  IN  FoldLeft(step, devices, [i \in 1..Len(cards) |-> i])

CpuEnumDevices(cpus, devices) ==
  LET step(acc, i) == Upsert(acc, CpuUniqueId(i - 1),
                             [Descriptor(acc, CpuUniqueId(i - 1)) EXCEPT !.cpu = TRUE])
  IN  FoldLeft(step, devices, [i \in 1..cpus |-> i])

Enumerated(hw, type) ==
  CpuEnumDevices(IF type = "CPU" THEN hw.cpus ELSE 0,
    CudaEnumDevices(IF type \in {"CUDA", "Mixed"} THEN hw.cuda ELSE <<>>,
      ClEnumDevices(IF type \in {"CL", "Mixed"} THEN hw.platforms ELSE <<>>,
        [id \in {} |-> NoDevice])))

-----------------------------------------------------------------------------
(* execute(): the subscriptions.  A step takes and returns                 *)
(* [devices, error]; after an error nothing happens.                       *)

Subscribe(st, id, sub) == [st EXCEPT !.devices[id].subscription = sub]

Refusal(sub, d) ==
  CASE sub = "Cuda" /\ ~d.cu -> "Can't CUDA subscribe a non-CUDA device."
    [] sub = "OpenCL" /\ ~d.cl -> "Can't OpenCL subscribe a non-OpenCL device."
    [] sub = "OpenCL" /\ d.cl /\ d.subscription # "None" ->
         "Can't OpenCL subscribe a CUDA subscribed device."
    [] OTHER -> ""

\* The devices named on the command line: indices beyond the end are ignored
Discrete(st, indices, sub) ==
  LET step(acc, i) ==
        IF acc.error # "" \/ i >= Cardinality(DOMAIN acc.devices) THEN acc
        ELSE LET id == AtIndex(acc.devices, i)
             IN  IF Refusal(sub, acc.devices[id]) # ""
                 THEN [acc EXCEPT !.error = Refusal(sub, acc.devices[id])]
                 ELSE Subscribe(acc, id, sub)
  IN  FoldLeft(step, st, indices)

Detected(sub, d) == (sub = "Cuda" => d.cu) /\ (sub = "OpenCL" => d.cl)

\* Without a list, all that were detected and are free
AllDetected(st, sub) ==
  [st EXCEPT !.devices = [id \in DOMAIN st.devices |->
     IF st.error = "" /\ Detected(sub, st.devices[id]) /\ st.devices[id].subscription = "None"
     THEN [st.devices[id] EXCEPT !.subscription = sub] ELSE st.devices[id]]]

Subscribed(devices) == {id \in DOMAIN devices : devices[id].subscription # "None"}

\* First the lists, then the rest: CUDA before OpenCL in both
Subscriptions(devices, type, args) ==
  LET list(sub) == CASE sub = "Cuda" -> args.cuDevices
                     [] sub = "OpenCL" -> args.clDevices
                     [] sub = "Cpu" -> args.cpDevices
      apis == CASE type = "CUDA" -> <<"Cuda">> [] type = "CL" -> <<"OpenCL">>
                [] type = "CPU" -> <<"Cpu">> [] type = "Mixed" -> <<"Cuda", "OpenCL">>
      named(st, sub) == Discrete(st, list(sub), sub)
      rest(st, sub) == IF list(sub) = <<>> THEN AllDetected(st, sub) ELSE st
  IN  FoldLeft(rest, FoldLeft(named, [devices |-> devices, error |-> ""], apis), apis)

\* execute() up to the Farm: the error it throws, the list it shows, or the devices
Outcome(st) ==
  [end |-> CASE st.error # "" -> st.error
             [] st.error = "" /\ Subscribed(st.devices) = {} -> "No mining device selected. Aborting ..."
             [] OTHER -> "mining",
   devices |-> st.devices]

ExecuteWith(devices, type, args) ==
  CASE DOMAIN devices = {} -> [end |-> "No usable mining devices found", devices |-> devices]
    [] DOMAIN devices # {} /\ args.listDevices -> [end |-> "listed", devices |-> devices]
    [] OTHER -> Outcome(Subscriptions(devices, type, args))

Execute(hw, args) == ExecuteWith(Enumerated(hw, MinerTypeOf(args)), MinerTypeOf(args), args)

\* Farm::start(): one miner per subscribed device, in the order of the map
FarmMiners(devices) ==
  [i \in 1..Cardinality(Subscribed(devices)) |-> NthId(Subscribed(devices), i - 1)]

-----------------------------------------------------------------------------
\* The card a miner opens: CLMiner::initDevice takes the device of that
\* ordinal on that platform, CUDAMiner::initDevice the one of that index.
OpenedCard(hw, d) ==
  IF d.subscription = "Cuda" THEN hw.cuda[d.cuDeviceIndex + 1]
  ELSE hw.platforms[d.clPlatformId + 1].devs[d.clDeviceOrdinal + 1]

SameCard(c, d) == c.bus = d.bus /\ c.slot = d.slot /\ c.fn = d.fn

\* The GPUs that the program can see with the APIs it uses.
VisibleCards(hw, type) ==
  (IF type \in {"CL", "Mixed"}
   THEN UNION {{c \in ToSet(hw.platforms[p].devs) : c.gpu} :
                 p \in {q \in 1..Len(hw.platforms) : hw.platforms[q].type # "Unknown"}}
   ELSE {})
  \cup (IF type \in {"CUDA", "Mixed"} THEN ToSet(hw.cuda) ELSE {})
=============================================================================
