------------------------------ MODULE ExitBoot ------------------------------
(* The end of efi_main (main.c): get_memory_map (memory_map.c), in a DEBUG     *)
(* build once for printing and once for real, ExitBootServices, and the jump   *)
(* to the kernel with the boot info.  Sizes are counted in descriptors.        *)
(*                                                                             *)
(* The firmware's memory map is a number of descriptors and a key that changes *)
(* with every allocation or release, the loader's own and those of the         *)
(* firmware's timers and drivers, which run between any two calls.             *)
EXTENDS Integers

CONSTANTS
  MaxDesc,      \* bound: the largest memory map
  MaxMerged,    \* descriptors that GetMemoryMap counts but merges when it fills
  AllocGrowth,  \* the most an allocation or a release changes their number
  MaxEvents,    \* bound: how often the firmware changes its map by itself
  UINT16,       \* 2^16, the number of values of a UINT16
  DescriptorSize  \* bytes of the firmware's descriptors, which GetMemoryMap tells

\* "Up to two new descriptors may be created" (memory_map.c:61-63).
ASSUME MapAssumption ==
  /\ MaxDesc \in Nat \ {0} /\ MaxMerged \in Nat /\ MaxEvents \in Nat
  /\ AllocGrowth \in 0 .. 2
  /\ UINT16 \in Nat \ {0} /\ DescriptorSize \in Nat \ {0}

Rounds == {"debug", "final"}   \* the calls of get_memory_map
NULL == "NULL"

VARIABLES
  DEBUG,        \* whether the build defines DEBUG, which never changes
  pc, status,
  round,        \* which call of get_memory_map
  size,         \* memory_map_size, in and out
  mapKey,       \* memory_map_key
  descriptor_size,
  memory_map,   \* the pointer: NULL, or the buffer a round allocated
  cap,          \* capacities of the live buffers, by the round that allocated it
  snap,         \* the map a buffer was filled with: descriptors and key
  i,            \* of debug_print_memory_map
  boot_info,
  nDesc, key,   \* the firmware's memory map
  bootServices, \* whether boot services are up
  events,       \* changes the firmware has made
  quiet,        \* history: none of them since the last size query
  fault         \* history: the firmware failed a call it could have served

mapVars == <<size, mapKey, descriptor_size, memory_map, cap, snap, i>>
fwVars  == <<nDesc, key, bootServices>>
histVars == <<events, quiet, fault>>
vars == <<DEBUG, pc, status, round, mapVars, boot_info, fwVars, histVars>>

NoSnap == [n |-> 0, key |-> 0]
NoInfo == [memory_map |-> NULL, memory_map_size |-> 0, memory_map_descriptor_size |-> 0]

\* The sizes of the map after one allocation or release.
Changed(n) == {m \in 1 .. MaxDesc : m - n \in -AllocGrowth .. AllocGrowth}

Goto(from, to) == pc = from /\ pc' = to
FatalError(s)  == pc' = "wait_for_input" /\ status' = s

Init ==
  /\ pc = "GetMapSize" /\ status = "SUCCESS"
  /\ DEBUG \in BOOLEAN /\ round = IF DEBUG THEN "debug" ELSE "final"
  /\ size = 0 /\ mapKey = 0 /\ descriptor_size = 0 /\ memory_map = NULL
  /\ cap = [b \in {} |-> 0] /\ snap = [b \in Rounds |-> NoSnap] /\ i = 0
  /\ boot_info = NoInfo
  /\ nDesc \in 1 .. MaxDesc /\ key = 1 /\ bootServices = TRUE
  /\ events = 0 /\ quiet = TRUE /\ fault = FALSE

-----------------------------------------------------------------------------
(* get_memory_map                                                            *)

\* GetMemoryMap with no buffer asks for the size that is needed.
GetMapSize ==
  /\ Goto("GetMapSize", "AllocateMap")
  /\ size < nDesc
  /\ size' = nDesc /\ mapKey' = key /\ descriptor_size' = DescriptorSize
  /\ quiet' = TRUE
  /\ UNCHANGED <<DEBUG, status, round, memory_map, cap, snap, i, boot_info, fwVars, events, fault>>

\* Mutant: the size query is repeated with the same size.
GetMapSizeAgain ==
  /\ Goto("GetMapSize", "GetMapSize") /\ size >= nDesc
  /\ UNCHANGED <<DEBUG, status, round, mapVars, boot_info, fwVars, histVars>>

\* A size that is large enough for a buffer that is not there is refused.
GetMapSize_refused ==
  /\ pc = "GetMapSize" /\ size >= nDesc
  /\ FatalError("INVALID_PARAMETER")
  /\ UNCHANGED <<DEBUG, round, mapVars, boot_info, fwVars, histVars>>

\* Mutant: room for one new descriptor only.
AllocateMapOneSpare ==
  /\ Goto("AllocateMap", "GetMap")
  /\ size' = size + 1 /\ memory_map' = round
  /\ cap' = [b \in DOMAIN cap \cup {round} |-> IF b = round THEN size' ELSE cap[b]]
  /\ nDesc' \in Changed(nDesc) /\ key' = key + 1
  /\ UNCHANGED <<DEBUG, status, round, mapKey, descriptor_size, snap, i, boot_info, bootServices,
                 histVars>>

\* Mutant: the buffer is allocated before room for new descriptors is added.
AllocateMapTooEarly ==
  /\ Goto("AllocateMap", "GetMap")
  /\ size' = size + 2 /\ memory_map' = round
  /\ cap' = [b \in DOMAIN cap \cup {round} |-> IF b = round THEN size ELSE cap[b]]
  /\ nDesc' \in Changed(nDesc) /\ key' = key + 1
  /\ UNCHANGED <<DEBUG, status, round, mapKey, descriptor_size, snap, i, boot_info, bootServices,
                 histVars>>

AllocateMap ==
  /\ Goto("AllocateMap", "GetMap")
  /\ size' = size + 2 /\ memory_map' = round
  /\ cap' = [b \in DOMAIN cap \cup {round} |-> IF b = round THEN size' ELSE cap[b]]
  /\ nDesc' \in Changed(nDesc) /\ key' = key + 1
  /\ UNCHANGED <<DEBUG, status, round, mapKey, descriptor_size, snap, i, boot_info, bootServices,
                 histVars>>

GetMap ==
  /\ Goto("GetMap", IF round = "debug" THEN "PrintMap" ELSE "ExitBootServices")
  /\ nDesc <= size
  /\ \E merged \in 0 .. MaxMerged :
       /\ merged < nDesc
       /\ size' = nDesc - merged
  /\ mapKey' = key /\ descriptor_size' = DescriptorSize
  /\ snap' = [snap EXCEPT ![memory_map] = [n |-> size', key |-> key]]
  /\ UNCHANGED <<DEBUG, status, round, memory_map, cap, i, boot_info, fwVars, histVars>>

GetMap_refused ==
  /\ pc = "GetMap" /\ nDesc > size
  /\ FatalError("BUFFER_TOO_SMALL")
  /\ size' = nDesc /\ mapKey' = key /\ descriptor_size' = DescriptorSize
  /\ UNCHANGED <<DEBUG, round, memory_map, cap, snap, i, boot_info, fwVars, histVars>>

-----------------------------------------------------------------------------
(* efi_main, and debug_print_memory_map in a DEBUG build                     *)

\* Mutant: the room of the buffer is counted, not what the firmware has filled.
CountedByRoom == (size + 2) % UINT16

n_descriptors == size % UINT16

PrintDescriptor ==
  /\ Goto("PrintMap", "PrintMap") /\ i < n_descriptors
  /\ i' = i + 1
  /\ UNCHANGED <<DEBUG, status, round, size, mapKey, descriptor_size, memory_map, cap, snap, boot_info,
                 fwVars, histVars>>

EndOfMap ==
  /\ Goto("PrintMap", "FreeMap") /\ i >= n_descriptors
  /\ UNCHANGED <<DEBUG, status, round, mapVars, boot_info, fwVars, histVars>>

\* Mutant: the debug round's buffer is not released.
FreeMapForgotten ==
  /\ Goto("FreeMap", "GetMapSize")
  /\ round' = "final"
  /\ UNCHANGED <<DEBUG, status, mapVars, boot_info, fwVars, histVars>>

\* The DEBUG round's map has been printed; its buffer goes before the final round.
FreeMap ==
  /\ Goto("FreeMap", "GetMapSize")
  /\ cap' = [b \in DOMAIN cap \ {memory_map} |-> cap[b]]
  /\ round' = "final"
  /\ nDesc' \in Changed(nDesc) /\ key' = key + 1
  /\ UNCHANGED <<DEBUG, status, size, mapKey, descriptor_size, memory_map, snap, i, boot_info,
                 bootServices, histVars>>

ExitBootServices ==
  /\ Goto("ExitBootServices", "SetBootInfo")
  /\ mapKey = key
  /\ bootServices' = FALSE
  /\ UNCHANGED <<DEBUG, status, round, mapVars, boot_info, nDesc, key, histVars>>

\* There is no second attempt.
ExitBootServices_refused ==
  /\ pc = "ExitBootServices" /\ mapKey # key
  /\ FatalError("INVALID_PARAMETER")
  /\ UNCHANGED <<DEBUG, round, mapVars, boot_info, fwVars, histVars>>

\* Mutant: the size is not handed over.
SetBootInfoNoSize ==
  /\ Goto("SetBootInfo", "kernel")
  /\ boot_info' = [boot_info EXCEPT !.memory_map = memory_map]
  /\ UNCHANGED <<DEBUG, status, round, mapVars, fwVars, histVars>>

SetBootInfo ==
  /\ Goto("SetBootInfo", "kernel")
  /\ boot_info' = [memory_map |-> memory_map, memory_map_size |-> size,
                   memory_map_descriptor_size |-> descriptor_size]
  /\ UNCHANGED <<DEBUG, status, round, mapVars, fwVars, histVars>>

check_for_fatal_error ==
  /\ pc \in {"GetMapSize", "AllocateMap", "GetMap", "FreeMap", "ExitBootServices"}
  /\ FatalError("DEVICE_ERROR")
  /\ fault' = TRUE
  /\ UNCHANGED <<DEBUG, round, mapVars, boot_info, fwVars, events, quiet>>

wait_for_input ==
  /\ Goto("wait_for_input", "returned")
  /\ UNCHANGED <<DEBUG, status, round, mapVars, boot_info, fwVars, histVars>>

\* A timer or a driver of the firmware allocates or frees memory.
FirmwareEvent ==
  /\ bootServices /\ events < MaxEvents
  /\ nDesc' \in 1 .. MaxDesc /\ key' = key + 1
  /\ events' = events + 1 /\ quiet' = FALSE
  /\ UNCHANGED <<DEBUG, pc, status, round, mapVars, boot_info, bootServices, fault>>

-----------------------------------------------------------------------------

get_memory_map ==
  GetMapSize \/ GetMapSize_refused \/ AllocateMap \/ GetMap \/ GetMap_refused

efi_main ==
  \/ get_memory_map \/ PrintDescriptor \/ EndOfMap \/ FreeMap
  \/ ExitBootServices \/ ExitBootServices_refused \/ SetBootInfo

Next == efi_main \/ check_for_fatal_error \/ wait_for_input \/ FirmwareEvent

\* The program runs on and firmware calls return; nobody need press a key.
Spec == Init /\ [][Next]_vars
FairSpec == Spec /\ WF_vars(efi_main)

-----------------------------------------------------------------------------
(* What the end of efi_main promises.                                        *)

Failed == pc \in {"wait_for_input", "returned"}

\* The variables have their types.
TypeOK ==
  /\ DEBUG \in BOOLEAN
  /\ pc \in {"GetMapSize", "AllocateMap", "GetMap", "PrintMap", "FreeMap",
             "ExitBootServices", "SetBootInfo", "kernel", "wait_for_input", "returned"}
  /\ status \in {"SUCCESS", "INVALID_PARAMETER", "BUFFER_TOO_SMALL", "DEVICE_ERROR"}
  /\ round \in Rounds
  /\ size \in Nat /\ mapKey \in Nat /\ descriptor_size \in {0, DescriptorSize}
  /\ memory_map \in Rounds \cup {NULL}
  /\ DOMAIN cap \subseteq Rounds /\ \A b \in DOMAIN cap : cap[b] \in Nat
  /\ snap \in [Rounds -> [n: Nat, key: Nat]] /\ i \in Nat
  /\ boot_info \in {NoInfo} \cup
       [memory_map: Rounds, memory_map_size: Nat \ {0}, memory_map_descriptor_size: {DescriptorSize}]
  /\ nDesc \in 1 .. MaxDesc /\ key \in Nat /\ bootServices \in BOOLEAN
  /\ events \in 0 .. MaxEvents /\ quiet \in BOOLEAN /\ fault \in BOOLEAN

\* GetMemoryMap is never told of more room than the buffer it fills has: the
\* size, which the queries overwrite, and the buffer agree at the call, and the
\* buffer is allocated.
MapFitsBuffer ==
  pc = "GetMap" => memory_map \in DOMAIN cap /\ size <= cap[memory_map]

\* debug_print_memory_map reads only descriptors that the firmware has filled in
\* a buffer that is still allocated, and a map whose number of descriptors its
\* 16-bit counter can hold is printed whole before the buffer goes.
PrintsFilledMap ==
  /\ pc = "PrintMap" /\ i < n_descriptors => memory_map \in DOMAIN cap /\ i < snap[memory_map].n
  /\ pc = "FreeMap" /\ snap[memory_map].n < UINT16 => i = snap[memory_map].n

\* The kernel gets the memory map as it was when boot services ended: a buffer
\* that is still allocated, wholly filled, with no change of the map since, told
\* of with the size of its descriptors, and no other buffer of get_memory_map left
\* behind.
HandoffMapCurrent ==
  pc = "kernel" =>
    /\ ~bootServices
    /\ DOMAIN cap = {boot_info.memory_map}
    /\ snap[boot_info.memory_map] = [n |-> boot_info.memory_map_size, key |-> key]
    /\ boot_info.memory_map_size <= cap[boot_info.memory_map]
    /\ boot_info.memory_map_descriptor_size = DescriptorSize

\* Without DEBUG the bootloader fails to hand over only when the firmware failed
\* a call or changed its map after the size query: the two spare descriptors
\* cover the bootloader's own allocation, and its key is never stale by its own
\* doing.
BlameFirmware == ~DEBUG /\ Failed => fault \/ ~quiet

\* The bootloader reaches the kernel or the key prompt; nothing makes it ask for
\* the map forever.
Terminates == <>(pc \in {"kernel", "wait_for_input"})

\* "This will always fail on the first attempt, this call will return the
\* required buffer size" (memory_map.c:42-43): the size query of get_memory_map
\* finds a size that is too small for the map.
SizeQueryFindsSize == pc = "GetMapSize" => size < nDesc

=============================================================================
