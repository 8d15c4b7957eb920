--------------------------- MODULE MCCalculations ---------------------------
(***************************************************************************)
(* TLC instance of the parts that calculate: libethash and what the GPU    *)
(* kernels compute from it (the Keccak permutations, ProgPoW, the DAG, the *)
(* epoch contexts that hashing threads share), and what the program makes  *)
(* of its arguments and of the hardware (pool addresses, devices, and the  *)
(* temperature control built on them).  A behaviour is one calculation     *)
(* ("keccak", "cuda", "sponge", "progpow", "dag", "mod", "prime",          *)
(* "shares", "uri", "bind", "devices"), the life of the contexts           *)
(* ("epochs") or a run of the data collector ("heat").                     *)
(***************************************************************************)
EXTENDS EpochContexts, Sequences

VARIABLES kind, s

K == INSTANCE KeccakCuda
P == INSTANCE ProgPow WITH W <- 8, Regs <- 4, NumLanes <- 4, DagLoads <- 2, CntCache <- 2,
                           CntMath <- 3, CntDag <- 3, CacheWords <- 8, DigestWords <- 2

\* Some function of nodes in which every word depends on its neighbours.
Mixed(n) == <<(n[1] * 5 + n[2] + 7) % 64, (n[2] * 3 + n[3] * n[1] + 1) % 64,
              (n[3] * 9 + n[4] + n[1]) % 64, (n[4] * 11 + n[1] + n[2] + 3) % 64>>
D == INSTANCE Shares WITH W <- 6, Parents <- 5, CacheRounds <- 3, ChunkLocals <- 2,
                          Keccak512 <- Mixed, Accesses <- 4, NonceSpace <- 64, Block <- 5
U == INSTANCE PoolUri
H == INSTANCE HwMonitor

-----------------------------------------------------------------------------
\* The states of the permutations: a node and the padding, a ProgPoW input
\* and lanes with every other bit set.
Scattered(W) == [l \in K!Lanes |-> {i \in K!Bits(W) : (i * i + 7 * l + 3) % 5 < 2}]
KeccakStarts ==
  {K!Start(32, Scattered(32)), K!Start(64, Scattered(64)),
   K!Start(64, K!KernelSha3State([l \in 0..7 |-> Scattered(64)[l]])),
   K!Start(32, K!ProgPowState([l \in 0..7 |-> Scattered(32)[l]], {0, 5, 40},
                              [l \in 0..7 |-> {l, 31}])),
   K!Start(32, [l \in K!Lanes |-> {}]), K!Start(64, [l \in K!Lanes |-> {}])}

\* Sizes of messages around the words and the rates of Keccak-256 and -512.
SpongeSizes == {0, 1, 7, 8, 9, 32, 40, 63, 64, 71, 72, 73, 96, 135, 136, 137}
Message(n) == [k \in 1..n |-> {i \in 0..7 : (i + k * k) % 3 = 0}]

DagItems == 7      \* 1024-bit items of ProgPow's DAG: one that no program asks for is left
Dag == [k \in 0..DagItems * 4 - 1 |-> (k * k * 37 + 11 * k + 91) % 256]
LaneSeeds == [l \in 0..3 |-> [lo |-> 17 + 31 * l, hi |-> 200]]
Light(n) == D!build_light_cache(n, <<1, 2, 3, 4>>)

-----------------------------------------------------------------------------
\* A field of a pool's address, and how the user writes it: between ticks
\* when it holds characters the parser looks for.
Fields == {<<U!Word("a")>>, <<U!Word("a"), U!Char("."), U!Word("b")>>,
           <<U!Word("c"), U!Char(":"), U!Word("d")>>, <<U!Word("e"), U!Char("@"), U!Word("b")>>}
Paths == {<<>>, <<U!Char("/"), U!Word("p")>>, <<U!Char("/"), U!Word("p"), U!Encoded("@"), U!Word("q")>>}
Written(f) == IF Len(f) > 1 THEN U!Ticked(f) ELSE f
Ports == {0, 1, 4444, U!MaxPort, U!MaxPort + 1, 65535}
SomeSchemes == {[prefix |-> "stratum", transport |-> ""], [prefix |-> "stratum2", transport |-> "ssl"],
                [prefix |-> "getwork", transport |-> ""]}
Uris == [scheme : SomeSchemes, user : Fields, worker : Fields \cup {<<>>}, password : Fields \cup {<<>>},
         port : Ports, path : Paths]
UriText(u) ==
  [scheme |-> u.scheme,
   authority |-> Written(u.user)
     \o (IF u.worker = <<>> THEN <<>> ELSE <<U!Char(".")>> \o Written(u.worker))
     \o (IF u.password = <<>> THEN <<>> ELSE <<U!Char(":")>> \o Written(u.password))
     \o <<U!Char("@"), U!Word("host"), U!Char(":"), U!Number(u.port)>> \o u.path]

\* IP addresses: dotted, and the IPv6 loopback, which ends in a colon and a number.
Addresses4And6 == {<<U!Word("127"), U!Char("."), U!Word("1")>>,
                   <<U!Char(":"), U!Char(":"), U!Number(1)>>}
Binds == [address : Addresses4And6, port : {-65536, -65535, -1, 0, 1, 3333, 65535, 65536}, negative : BOOLEAN]

\* Cards: each on a bus of its own, in slot 0, as PCI Express has them.
Card(bus, vendor) == [bus |-> bus, slot |-> 0, fn |-> 0, gpu |-> TRUE, pci |-> TRUE, vendor |-> vendor,
                      hwmon |-> TRUE, uevent |-> TRUE, known |-> TRUE, adapterId |-> bus]
NV1 == Card(1, "NVIDIA")
NV2 == Card(10, "NVIDIA")
AMD1 == Card(3, "AMD")
AMD2 == Card(5, "AMD")
AMD10 == Card(10, "AMD")
AMD16 == Card(16, "AMD")
Mute == [AMD2 EXCEPT !.pci = FALSE]          \* its driver does not tell the PCI id
Board == [AMD1 EXCEPT !.gpu = FALSE, !.bus = 7]   \* an accelerator
Platform(type, devs) == [type |-> type, devs |-> devs]
Machine(platforms, cuda, cpus) == [platforms |-> platforms, cuda |-> cuda, cpus |-> cpus]
Machines ==
  {Machine(<<>>, <<>>, 2), Machine(<<>>, <<NV2, NV1>>, 12),
   Machine(<<Platform("Nvidia", <<NV1, NV2>>)>>, <<NV2, NV1>>, 2),
   Machine(<<Platform("Unknown", <<NV1>>), Platform("Amd", <<Board, AMD1, AMD2>>),
             Platform("Nvidia", <<NV2, NV1>>)>>, <<NV1, NV2>>, 0),
   Machine(<<Platform("Clover", <<Mute, AMD1>>)>>, <<[NV1 EXCEPT !.pci = FALSE]>>, 1)}
Lists == {<<>>, <<0>>, <<1, 3>>, <<2, 2>>, <<11>>}
Arguments ==
  {[opencl |-> f = "G", cuda |-> f \in {"U", "G"}, cpu |-> f = "C", listDevices |-> FALSE,
    cuDevices |-> cu, clDevices |-> cl, cpDevices |-> cp] :
      f \in {"G", "U", "C", "none"}, cu \in Lists, cl \in Lists, cp \in {<<>>, <<0, 11>>}}

\* A machine with sensors: NVIDIA cards in NVML, AMD cards in sysfs or in ADL.
Sensors(m, linux, nv, amd) ==
  [platforms |-> m.platforms, cuda |-> m.cuda, cpus |-> m.cpus, linux |-> linux,
   nvml |-> TRUE, nvmlCards |-> nv, drm |-> nv \o amd, adl |-> TRUE, adapters |-> amd]
Monitored ==
  {Sensors(Machine(<<Platform("Amd", <<AMD1, AMD2>>)>>, <<NV2>>, 0), l, <<NV1, NV2>>,
           <<AMD2, [AMD1 EXCEPT !.vendor = "AMD"]>>) : l \in BOOLEAN}
  \cup {Sensors(Machine(<<Platform("Nvidia", <<NV1, NV2>>), Platform("Clover", <<AMD1>>)>>, <<>>, 0),
                TRUE, <<NV2, NV1>>, <<AMD1>>),
        Sensors(Machine(<<Platform("Amd", <<AMD10, AMD16>>)>>, <<>>, 0), TRUE, <<>>, <<AMD10, AMD16>>),
        Sensors(Machine(<<Platform("Amd", <<AMD1, AMD16>>)>>, <<>>, 0), FALSE, <<>>, <<AMD16, AMD16, AMD1>>)}
Everything == [opencl |-> FALSE, cuda |-> FALSE, cpu |-> FALSE, listDevices |-> FALSE,
               cuDevices |-> <<>>, clDevices |-> <<>>, cpDevices |-> <<>>]
Farm(hw, set, devices, ids) ==
  [hw |-> hw, set |-> set, devices |-> devices, maps |-> H!FarmMaps(hw, set, devices),
   miners |-> [i \in DOMAIN ids |-> H!NewMiner(ids[i])],
   want |-> [i \in DOMAIN ids |-> FALSE], should |-> [i \in DOMAIN ids |-> FALSE],
   above |-> [i \in DOMAIN ids |-> FALSE]]
Regulation(hw, set, devices) == Farm(hw, set, devices, H!FarmMiners(devices))
Degrees == {40, 60, 80}
Thresholds == {H!MonitorSettings(w, stop, 40) : w \in {0, 2}, stop \in {0, 80}}

-----------------------------------------------------------------------------
MCInit ==
  /\ ContextsInit
  /\ \/ kind = "keccak" /\ s \in KeccakStarts
     \/ kind = "cuda" /\ s \in {K!CudaStart(fn, Scattered(64)) :
                               fn \in {"keccak_f1600_init", "keccak_f1600_final", "SHA3_512"}}
     \/ kind = "sponge" /\ s \in [bits : {256, 512}, size : SpongeSizes]
     \/ kind = "progpow" /\ s \in [seed : [lo : 0..9, hi : {0, 1}], kern : {"CL", "CUDA", "OldCUDA"}]
     \/ /\ kind = "dag"
        /\ \E n \in {5, 7, 11, 13}, c \in {5, 7} :
             \/ \E l \in {1, 2, 3} : s = D!Generation("CL", n, Light(c), l, 0, 0)
             \/ \E b \in {1, 2, 3}, t \in {4, 8} : s = D!Generation("CUDA", n, Light(c), 0, b, t)
     \/ /\ kind = "shares"
        /\ \E n \in {2, 4}, h \in {9, 21}, b \in {3, 12}, start \in {0, 2} :
             s = D!Mining(n, Light(5), IF n = 2 THEN 7 ELSE 3, [header |-> h, boundary |-> b], start)
     \/ kind = "mod" /\ s \in 1..63
     \/ kind = "prime" /\ s \in 0..60
     \/ kind = "uri" /\ s \in Uris
     \/ kind = "bind" /\ s \in Binds
     \/ kind = "devices" /\ s \in [hw : Machines, args : Arguments]
     \/ kind = "heat" /\ \E hw \in Monitored, set \in Thresholds : s = Regulation(hw, set, H!Execute(hw, Everything).devices)
     \/ kind = "epochs" /\ s = 0

PermutationRound ==
  /\ \/ kind = "keccak" /\ s.round < K!Rounds(s.W) /\ s' = K!Round(s)
     \/ kind = "cuda" /\ s.round < K!Rounds(64) /\ s' = K!CudaRound(s)
  /\ UNCHANGED <<kind, ctxVars, findVars>>

GenerateDag ==
  /\ kind = "dag" /\ ~s.done
  /\ s' = D!GenerationStep(s)
  /\ UNCHANGED <<kind, ctxVars, findVars>>

SearchShares ==
  /\ kind = "shares"
  /\ s' = D!SearchStep(s)
  /\ UNCHANGED <<kind, ctxVars, findVars>>

\* The thread of miner i gets to initDevice(); each does so once.
InitDevice(i) ==
  /\ kind = "heat" /\ i <= Len(s.miners) /\ s.miners[i].pciId = <<>>
  /\ s' = [s EXCEPT !.miners[i] = H!InitDevice(s.devices, @)]
  /\ UNCHANGED <<kind, ctxVars, findVars>>

\* The temperature of a miner's own card, if it is monitored; 0 if not.
OwnDegrees(m, temps) ==
  LET card == H!OpenedCard(s.hw, s.devices[m.id])
  IN  IF m.type = "UNKNOWN" \/ s.set.hwMon = 0 THEN 0 ELSE temps[<<card.bus, card.slot>>]

Hot(held, t) == s.set.tempStop > 0 /\ (t >= s.set.tempStop \/ (held /\ t > s.set.tempStart))

\* A round of the collector; at most one sensor fails, and reports nothing.
\* Remembered of each miner: whether it should be held by what its card's sensor
\* said (want), the same until the card has really cooled down (should), and
\* whether the sensor last said more than --tstart (above).
CollectData ==
  /\ kind = "heat"
  /\ LET cards == {<<c.bus, c.slot>> : c \in H!ToSet(s.hw.drm)}
     IN  \E temps \in [cards -> Degrees], failed \in cards \cup {<<>>} :
           LET read == [c \in cards |-> IF c = failed THEN 0 ELSE temps[c]]
           IN  s' = [s EXCEPT
                 !.miners = [i \in DOMAIN @ |-> H!CollectMiner(s.hw, s.set, s.maps, read, @[i])],
                 !.want = [i \in DOMAIN @ |-> Hot(@[i], OwnDegrees(s.miners[i], read))],
                 !.should = [i \in DOMAIN @ |->
                    \/ Hot(s.want[i], OwnDegrees(s.miners[i], read))
                    \/ @[i] /\ OwnDegrees(s.miners[i], temps) > s.set.tempStart],
                 !.above = [i \in DOMAIN @ |-> OwnDegrees(s.miners[i], read) > s.set.tempStart]]
  /\ UNCHANGED <<kind, ctxVars, findVars>>

ContextStep == kind = "epochs" /\ ContextsNext /\ UNCHANGED <<kind, s>>

MCNext ==
  \/ PermutationRound \/ GenerateDag \/ SearchShares \/ ContextStep
  \/ CollectData \/ \E i \in 1..4 : InitDevice(i)

MCSpec == MCInit /\ [][MCNext]_<<kind, s, ctxVars, findVars>>

-----------------------------------------------------------------------------
\* After every round the unrolled C permutations, the table-driven ones of
\* the kernels and the ones on pairs of words hold the state FIPS 202 gives,
\* keccak.cuh's shortened last rounds the lanes their callers read, and keccak()
\* absorbs the blocks of the padded message.
HashesAgree ==
  /\ kind = "keccak" => K!Agree(s)
  /\ kind = "cuda" => K!CudaAgrees(s)
  /\ kind = "sponge" =>
       K!SpongeBlocks(s.bits, Message(s.size)) = K!RefBlocks(s.bits, Message(s.size))

\* The last search() of a block: it stops at the first nonce whose hash meets
\* the boundary, with a mix hash that verify() accepts and no other one, and
\* the items kept in the dataset are the ones a light context calculates.
SearchVerified(m) ==
  /\ m.called /\ m.result.found =>
       /\ m.result.nonce \in D!Searched(m)
       /\ \A k \in D!Searched(m) : k < m.result.nonce => ~D!Good(m, k)
       /\ D!verify(m.ctx, m.job, m.result.mix_hash, m.result.nonce)
       /\ ~D!verify(m.ctx, m.job, [m.result.mix_hash EXCEPT ![1] = (@ + 1) % 64], m.result.nonce)
  /\ m.called /\ ~m.result.found => \A k \in D!Searched(m) : ~D!Good(m, k)
  /\ \A p \in DOMAIN m.data : m.data[p] \in {D!ZeroItem(m.ctx.n), m.ctx.item[p]}

\* What is searched is what is verified.  The program ProgPow::getKern writes
\* for a period, run by the lanes of each search kernel, leaves each thread
\* the mix hash that progpow.cpp verifies; and search() on the CPU, with the
\* dataset it fills as it goes, finds what verify() accepts.
KernelMatchesVerifier ==
  /\ kind = "progpow" =>
       LET digests == P!KernelDigests(s.kern, s.seed, LaneSeeds, DagItems, Dag)
       IN  \A h \in {0, 1} : digests[h] = P!hash_mix(s.seed, LaneSeeds[h], DagItems, Dag)
  /\ kind = "shares" => SearchVerified(s)

\* Both miners leave the whole DAG, each node the one calculate_dataset_item
\* computes and none beyond the end, whatever the launch sizes; the kernels'
\* division by multiplication is exact; the numbers of items are the largest
\* primes.
DagIsRight ==
  /\ kind = "dag" /\ s.done => D!Complete(s)
  /\ kind = "mod" => \A a \in 0..63 : D!fast_mod(a, D!calculate_fast_mod_data(s)) = a % s
  /\ kind = "prime" =>
       LET prime(n) == n > 1 /\ \A d \in 2..n - 1 : n % d # 0
           p == D!find_largest_prime(s)
       IN  /\ p <= s /\ (s >= 2 => prime(p))
           /\ \A m \in p + 1..s : ~prime(m)

\* The connection that u, written out, becomes.
Understood(u, r) ==
  IF u.port > U!MaxPort THEN r = U!Error("Bad URI")
  ELSE LET uri == r.list[1]
       IN  /\ uri.scheme = u.scheme /\ uri.host = <<U!Word("host")>> /\ uri.port = u.port
           /\ uri.user = u.user /\ uri.worker = u.worker
           /\ uri.password = IF u.password = <<>> THEN U!DefaultPassword ELSE u.password
           /\ uri.path = U!Plain(u.path)

\* What execute() leaves, r, of these arguments on this hardware.
MinedOnce(hw, args, type, r) ==
  LET miners == H!Subscribed(r.devices)
      card(id) == H!OpenedCard(hw, r.devices[id])
      shown(id) == IF r.devices[id].subscription = "Cuda" THEN H!CudaUniqueId(card(id))
                   ELSE H!ClUniqueId(r.devices[id].platform, card(id))
  IN  r.end = "mining" /\ type # "CPU" =>
        /\ \A id \in miners : shown(id) = id
        /\ \A a, b \in miners : a # b => ~H!SameCard(card(a), card(b))
        /\ args.cuDevices = <<>> /\ args.clDevices = <<>> =>
             \A c \in H!VisibleCards(hw, type) :
               c.pci => \E id \in miners :
                 /\ H!SameCard(card(id), c)
                 /\ type = "Mixed" /\ c \in H!ToSet(hw.cuda) => r.devices[id].subscription = "Cuda"

\* What the program makes of its arguments.  Every field of a pool's address
\* comes out as the user meant it, dots, colons and @ in backticks included,
\* for ports a short can hold (others are refused); an --api-bind address
\* keeps its own colons.  Each miner opens the card that its PCI id names, with
\* an API that detected it; no card is mined twice; without lists every card
\* whose PCI id is known is mined, with CUDA where there is a choice.
ArgumentsUnderstood ==
  /\ kind = "uri" => Understood(s, U!Connections(<<UriText(s)>>))
  /\ kind = "bind" =>
       LET r == U!ParseBind(s.address \o <<U!Char(":"), U!Number(s.port)>>, Addresses4And6, s.negative)
           fits == s.port # 0 /\ s.port <= 65535 /\ s.port >= IF s.negative THEN -65535 ELSE 1
       IN  IF fits THEN r = [address |-> s.address, port |-> s.port] ELSE r = U!Error("Invalid port number")
  /\ kind = "devices" => MinedOnce(s.hw, s.args, H!MinerTypeOf(s.args), H!Execute(s.hw, s.args))

\* On Linux sysfs writes the bus of an AMD card in hexadecimal and the wrapper
\* reads it as a decimal number.
OwnSensor(m) ==
  m.type = "AMD" /\ s.hw.linux =>
    \A c \in H!ToSet(s.hw.drm) : c.vendor = "AMD" => c.bus < 10


\* CHANGELOG.md: "option preventing GPU overheating".  A miner whose card's
\* sensor reported heat is held, whichever bus the card is on.  False for AMD
\* cards on bus 0a and above.
OverheatedIsHeld ==
  kind = "heat" => \A i \in 1..Len(s.miners) : s.want[i] => s.miners[i].hot

\* Farm.h: "Temperature threshold to restart mining (if paused)".  A miner held
\* for heat is released by the temperature of its card, never by a sensor
\* that does not answer.  False: such a reading is 0 degrees.
ReleasedWhenCool ==
  kind = "heat" =>
    \A i \in 1..Len(s.miners) : OwnSensor(s.miners[i]) /\ s.should[i] => s.miners[i].hot

\* main.cpp's help of --tstart: "Suspend mining on GPU which temperature is
\* above this threshold".  False: the code pauses at --tstop.
SuspendedAboveTStart ==
  kind = "heat" =>
    \A i \in 1..Len(s.miners) :
      OwnSensor(s.miners[i]) /\ s.set.tempStop > 0 /\ s.above[i] => s.miners[i].hot
=============================================================================
