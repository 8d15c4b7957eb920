----------------------------- MODULE HwMonitor ------------------------------
(***************************************************************************)
(* Temperature control: the wrappers of NVML, of AMD's sysfs and of ADL    *)
(* (libhwmon), the maps from PCI ids to their handles that the Farm's      *)
(* constructor builds, and Farm::collectData, which reads the sensor of    *)
(* each miner and pauses or resumes it.                                    *)
(*                                                                         *)
(* A card is [bus, slot, fn, gpu, pci, ...] as in Devices; a sensor is an  *)
(* index into the wrapper's list of cards.  A temperature is a number of   *)
(* degrees; a sensor that fails, or is not there, leaves 0.                *)
(***************************************************************************)
EXTENDS Devices

None == -1
NoMap == -2      \* "This will prevent further tries to map"

-----------------------------------------------------------------------------
(* The wrappers.  Each returns the PCI ids of its cards as the Farm writes *)
(* them, in the order of the handles; <<>> when there is no handle.        *)

\* wrap_nvml_create: no library or a missing function means no monitoring
NvmlIds(library, cards) ==
  IF ~library THEN <<>>
  ELSE [i \in 1..Len(cards) |-> <<cards[i].bus, cards[i].slot \div 8, 0>>]

\* std::stoi of two hexadecimal digits in base 10; -1 is the exception
Stoi10(n) ==
  LET hi == n \div 16
      lo == n % 16
  IN  IF hi > 9 THEN -1 ELSE IF lo > 9 THEN hi ELSE 10 * hi + lo

\* wrap_amdsysfs_create: AMD cards with a hwmon directory and a PCI id
SysfsUsable(card) ==
  /\ card.vendor = "AMD"
  /\ card.hwmon /\ card.uevent
  /\ Stoi10(card.bus) >= 0 /\ Stoi10(card.slot) >= 0

SysfsCards(cards) == SelectSeq(cards, SysfsUsable)
SysfsIds(cards) ==
  [i \in 1..Len(SysfsCards(cards)) |->
     <<Stoi10(SysfsCards(cards)[i].bus), Stoi10(SysfsCards(cards)[i].slot), 0>>]

\* wrap_adl_create: one entry for each run of logical adapters with one id;
\* the first run is dropped when its id is 0, the initial last_adapter.  An
\* adapter's iAdapterIndex is its place in the list.
AdlCards(library, adapters) ==
  LET step(acc, a) ==
        IF ~a.known \/ a.adapterId = acc.last THEN acc
        ELSE [list |-> Append(acc.list, a), last |-> a.adapterId]
  IN  IF ~library THEN <<>> ELSE FoldLeft(step, [list |-> <<>>, last |-> 0], adapters).list
AdlIds(library, adapters) ==
  [i \in 1..Len(AdlCards(library, adapters)) |->
     <<AdlCards(library, adapters)[i].bus, AdlCards(library, adapters)[i].slot, 0>>]

-----------------------------------------------------------------------------
(* Farm::Farm *)

NeedNvml(devices) ==
  \E id \in DOMAIN devices :
    \/ devices[id].subscription = "Cuda"
    \/ devices[id].subscription = "OpenCL" /\ devices[id].platform = "Nvidia"
NeedAmd(devices) ==
  \E id \in DOMAIN devices :
    devices[id].subscription = "OpenCL" /\ devices[id].platform = "Amd"

\* map_*_handle[uniqueId] = i for every i in turn: the last one stays
HandleMap(ids) ==
  [id \in ToSet(ids) |-> SelectLastInSeq(ids, LAMBDA k : k = id) - 1]

Empty == [id \in {} |-> None]

\* The maps of the Farm; without hwMon no monitor is created
FarmMaps(hw, set, devices) ==
  [nvml |-> IF set.hwMon > 0 /\ NeedNvml(devices) THEN HandleMap(NvmlIds(hw.nvml, hw.nvmlCards)) ELSE Empty,
   amd |-> IF set.hwMon > 0 /\ NeedAmd(devices)
           THEN HandleMap(IF hw.linux THEN SysfsIds(hw.drm) ELSE AdlIds(hw.adl, hw.adapters)) ELSE Empty]

-----------------------------------------------------------------------------
(* The miners' HwMonitorInfo, set in initDevice().                         *)

NewMiner(id) == [id |-> id, type |-> "UNKNOWN", pciId |-> <<>>, index |-> None, hot |-> FALSE]

InitDevice(devices, m) ==
  [m EXCEPT !.pciId = m.id, !.index = None,
            !.type = CASE devices[m.id].subscription = "Cuda" -> "NVIDIA"
                       [] devices[m.id].subscription = "OpenCL" /\ devices[m.id].platform = "Nvidia" -> "NVIDIA"
                       [] devices[m.id].subscription = "OpenCL" /\ devices[m.id].platform = "Amd" -> "AMD"
                       [] OTHER -> "UNKNOWN"]

(* collectData, for one miner *)
MapOf(maps, m) ==
  CASE m.type = "NVIDIA" -> maps.nvml
    [] m.type = "AMD" -> maps.amd
    [] OTHER -> Empty

\* The handle: looked up once, and marked when there is none (a monitor
\* without cards has an empty map, and serves nobody as if it were not there)
MapHandle(maps, m) ==
  IF MapOf(maps, m) = Empty \/ m.index # None \/ m.pciId = <<>> THEN m
  ELSE [m EXCEPT !.index = IF m.pciId \in DOMAIN MapOf(maps, m) THEN MapOf(maps, m)[m.pciId] ELSE NoMap]

\* wrap_*_get_tempC: what the card of a handle reports, or the 0 that was there
\* before; sysfs and ADL report thousandths, which are cut off.
Reported(cards, index, temps) ==
  IF index < 0 \/ index >= Len(cards) THEN 0
  ELSE temps[<<cards[index + 1].bus, cards[index + 1].slot>>]

wrap_nvml_get_tempC(hw, index, temps) == Reported(hw.nvmlCards, index, temps)
wrap_amdsysfs_get_tempC(hw, index, temps) == Reported(SysfsCards(hw.drm), index, temps)
wrap_adl_get_tempC(hw, index, temps) == Reported(AdlCards(hw.adl, hw.adapters), index, temps)

Temperature(hw, temps, m) ==
  CASE m.type = "NVIDIA" -> wrap_nvml_get_tempC(hw, m.index, temps)
    [] m.type = "AMD" /\ hw.linux -> wrap_amdsysfs_get_tempC(hw, m.index, temps)
    [] m.type = "AMD" /\ ~hw.linux -> wrap_adl_get_tempC(hw, m.index, temps)
    [] OTHER -> 0


Threshold(set, m, tempC) ==
  CASE set.tempStop > 0 /\ ~m.hot /\ tempC >= set.tempStop -> [m EXCEPT !.hot = TRUE]
    [] set.tempStop > 0 /\ m.hot /\ tempC <= set.tempStart -> [m EXCEPT !.hot = FALSE]
    [] OTHER -> m

CollectMiner(hw, set, maps, temps, m) ==
  LET mapped == MapHandle(maps, m)
  IN  IF set.hwMon = 0 THEN m ELSE Threshold(set, mapped, Temperature(hw, temps, mapped))
=============================================================================
