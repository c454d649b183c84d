--------------------------- MODULE ExitBootProofs ---------------------------
(* Proofs of ExitBoot's safety properties for maps of any size, any number of *)
(* firmware events and both builds.                                           *)
EXTENDS ExitBoot, TLAPS

Filled == {"PrintMap", "FreeMap", "ExitBootServices", "SetBootInfo"}

\* The buffer of the current round: none before it is allocated, then one whose
\* capacity is the size that goes with it, and no other.  The size of a descriptor
\* is known from the first answer on.
BufferInv ==
  /\ pc \in {"GetMapSize", "AllocateMap"} => DOMAIN cap = {}
  /\ pc \in {"AllocateMap", "GetMap"} \cup Filled => descriptor_size = DescriptorSize
  /\ pc \in {"GetMap"} \cup Filled =>
       memory_map = round /\ DOMAIN cap = {round} /\ size <= cap[round]
  /\ pc \in Filled => snap[round] = [n |-> size, key |-> mapKey] /\ size > 0

\* The listing of the map has not passed the end of what it counts.
PrintInv ==
  /\ pc \in {"GetMapSize", "AllocateMap", "GetMap"} /\ round = "debug" => i = 0
  /\ pc = "PrintMap" => i <= n_descriptors
  /\ pc = "FreeMap" => i = n_descriptors

\* Boot services end with a current key, in the final round.
ExitInv ==
  /\ pc \in {"SetBootInfo", "kernel"} => ~bootServices
  /\ pc = "SetBootInfo" => mapKey = key
  /\ pc = "kernel" => HandoffMapCurrent

\* In a release build without firmware events the sizes and the key fit.
QuietInv ==
  ~DEBUG =>
    /\ pc = "GetMapSize" => size = 0
    /\ quiet /\ pc = "AllocateMap" => size = nDesc
    /\ quiet /\ pc = "GetMap" => nDesc <= size
    /\ quiet /\ pc = "ExitBootServices" => mapKey = key
    /\ pc \notin {"PrintMap", "FreeMap"} /\ round = "final"

IInv == TypeOK /\ BufferInv /\ PrintInv /\ ExitInv /\ QuietInv /\ BlameFirmware

\* An allocation adds at most the two descriptors the code makes room for.
LEMMA ChangedByTwo ==
  ASSUME NEW n \in Nat, NEW m \in Changed(n)
  PROVE  m \in 1 .. MaxDesc /\ m <= n + 2
BY MapAssumption DEF Changed

\* A number cut to sixteen bits is no larger, and the same when it fits.
LEMMA CutToSixteenBits ==
  ASSUME NEW n \in Nat
  PROVE  /\ n % UINT16 \in Nat /\ n % UINT16 >= 0 /\ n % UINT16 <= n
         /\ n < UINT16 => n % UINT16 = n
<1>1. UINT16 \in Nat /\ UINT16 > 0
  BY MapAssumption
<1> QED
  BY <1>1, SMT

\* So is the count of the descriptors.
LEMMA CountFits ==
  ASSUME TypeOK
  PROVE  /\ n_descriptors \in Nat /\ n_descriptors <= size
         /\ size < UINT16 => n_descriptors = size
BY CutToSixteenBits DEF TypeOK, n_descriptors

LEMMA InitIInv == Init => IInv
<1> SUFFICES ASSUME Init PROVE IInv
  OBVIOUS
<1> USE MapAssumption DEF Init, Rounds, NoSnap, NULL
<1>1. snap \in [Rounds -> [n: Nat, key: Nat]] /\ DOMAIN cap = {} /\ round \in Rounds
  OBVIOUS
<1>2. TypeOK
  <2>1. boot_info \in {NoInfo} /\ quiet \in BOOLEAN /\ fault \in BOOLEAN /\ bootServices \in BOOLEAN
       /\ DEBUG \in BOOLEAN
    OBVIOUS
  <2>2. events \in 0 .. MaxEvents /\ nDesc \in 1 .. MaxDesc
    OBVIOUS
  <2>3. pc = "GetMapSize" /\ status = "SUCCESS" /\ size = 0 /\ mapKey = 0 /\ memory_map = "NULL" /\ key = 1
       /\ i = 0 /\ descriptor_size = 0
    OBVIOUS
  <2> QED
    BY ONLY <1>1, <2>1, <2>2, <2>3 DEF TypeOK, Rounds, NULL
<1>3. BufferInv /\ PrintInv /\ ExitInv /\ QuietInv /\ BlameFirmware
  BY <1>1 DEF BufferInv, PrintInv, ExitInv, QuietInv, BlameFirmware, Failed, Filled
<1> QED
  BY <1>2, <1>3 DEF IInv

\* Every step of the end of efi_main, and of the firmware, keeps the invariant's
\* other parts.
LEMMA NextParts ==
  ASSUME IInv, [Next]_vars
  PROVE  (TypeOK /\ BufferInv /\ ExitInv /\ QuietInv /\ BlameFirmware)'
<1> USE MapAssumption
    DEF IInv, TypeOK, BufferInv, ExitInv, QuietInv, BlameFirmware, Failed, Rounds, NULL, Filled,
        HandoffMapCurrent, Goto, FatalError, mapVars, fwVars, histVars, vars
<1>1. CASE GetMapSize
  BY <1>1 DEF GetMapSize
<1>2. CASE GetMapSize_refused
  BY <1>2 DEF GetMapSize_refused
<1>3. CASE AllocateMap
  <2>0. nDesc \in Nat /\ nDesc' \in Changed(nDesc)
    BY <1>3 DEF AllocateMap
  <2>1. nDesc' \in 1 .. MaxDesc /\ nDesc' <= nDesc + 2
    BY ONLY <2>0, ChangedByTwo
  <2>2. UNCHANGED <<DEBUG, status, round, mapKey, descriptor_size, snap, i, boot_info, bootServices, histVars>>
    BY <1>3 DEF AllocateMap
  <2>3. /\ pc = "AllocateMap" /\ pc' = "GetMap"
        /\ size' = size + 2 /\ memory_map' = round /\ key' = key + 1
        /\ cap' = [b \in DOMAIN cap \cup {round} |-> IF b = round THEN size' ELSE cap[b]]
    BY <1>3 DEF AllocateMap
  <2>4. TypeOK'
    <3>1. DOMAIN cap' \subseteq Rounds /\ \A b \in DOMAIN cap' : cap'[b] \in Nat
      BY <2>3
    <3>2. TypeOK
      BY DEF TypeOK
    <3>3. /\ nDesc' \in 1 .. MaxDesc /\ key' \in Nat /\ size' \in Nat
          /\ pc' = "GetMap" /\ memory_map' \in Rounds
      BY ONLY <2>1, <2>3, <3>2 DEF TypeOK
    <3> QED
      BY ONLY <2>2, <3>1, <3>2, <3>3 DEF TypeOK, histVars, Rounds, NULL
  <2>5. BufferInv' /\ ExitInv'
    BY <2>2, <2>3
  <2>6. QuietInv' /\ BlameFirmware'
    BY <2>1, <2>2, <2>3
  <2> QED
    BY <2>4, <2>5, <2>6
<1>4. CASE GetMap
  BY <1>4 DEF GetMap
<1>5. CASE GetMap_refused
  BY <1>5 DEF GetMap_refused
<1>6. CASE PrintDescriptor
  BY <1>6 DEF PrintDescriptor
<1>7. CASE EndOfMap
  BY <1>7 DEF EndOfMap
<1>8. CASE FreeMap
  BY <1>8, ChangedByTwo DEF FreeMap
<1>9. CASE ExitBootServices
  BY <1>9 DEF ExitBootServices
<1>10. CASE ExitBootServices_refused
  BY <1>10 DEF ExitBootServices_refused
<1>11. CASE SetBootInfo
  BY <1>11 DEF SetBootInfo
<1>12. CASE check_for_fatal_error
  BY <1>12 DEF check_for_fatal_error
<1>13. CASE wait_for_input
  BY <1>13 DEF wait_for_input
<1>14. CASE FirmwareEvent
  <2>1. TypeOK'
    <3>1. nDesc' \in 1 .. MaxDesc /\ key' \in Nat /\ events' \in 0 .. MaxEvents
      BY <1>14 DEF FirmwareEvent
    <3>2. quiet' \in BOOLEAN
      BY <1>14 DEF FirmwareEvent
    <3>3. UNCHANGED <<DEBUG, pc, status, round, mapVars, boot_info, bootServices, fault>>
      BY <1>14 DEF FirmwareEvent
    <3> QED
      BY <3>1, <3>2, <3>3
  <2>2. BufferInv' /\ ExitInv'
    BY <1>14 DEF FirmwareEvent
  <2>3. quiet' = FALSE /\ UNCHANGED <<DEBUG, pc, size, round>>
    BY <1>14 DEF FirmwareEvent
  <2>4. QuietInv' /\ BlameFirmware'
    BY <2>3, Zenon
  <2> QED
    BY <2>1, <2>2, <2>4
<1>15. CASE UNCHANGED vars
  BY <1>15
<1> QED
  BY <1>1, <1>2, <1>3, <1>4, <1>5, <1>6, <1>7, <1>8, <1>9, <1>10, <1>11, <1>12, <1>13, <1>14, <1>15
     DEF Next, efi_main, get_memory_map

\* Only the listing's own steps, and the filling before it, bear on PrintInv.
LEMMA PrintStep ==
  ASSUME IInv, [Next]_vars
  PROVE  PrintInv'
<1> USE DEF PrintInv, Goto, FatalError, mapVars, vars, n_descriptors
<1>1. CASE GetMapSize \/ GetMapSize_refused \/ AllocateMap \/ GetMap_refused
  BY <1>1 DEF IInv, GetMapSize, GetMapSize_refused, AllocateMap, GetMap_refused
<1>2. CASE GetMap
  <2>1. size' \in Nat
    BY <1>2 DEF GetMap, IInv, TypeOK
  <2>2. size' % UINT16 >= 0
    BY <2>1, CutToSixteenBits
  <2> QED
    BY <1>2, <2>2 DEF GetMap, IInv, BufferInv
<1>3. CASE PrintDescriptor
  BY <1>3, CountFits DEF PrintDescriptor, IInv, TypeOK
<1>4. CASE EndOfMap
  <2>1. i \in Nat /\ n_descriptors \in Nat
    BY CountFits DEF IInv, TypeOK
  <2> QED
    BY <1>4, <2>1 DEF EndOfMap, IInv
<1>5. CASE FreeMap \/ ExitBootServices \/ ExitBootServices_refused \/ SetBootInfo
           \/ check_for_fatal_error \/ wait_for_input
  BY <1>5 DEF FreeMap, ExitBootServices, ExitBootServices_refused, SetBootInfo,
              check_for_fatal_error, wait_for_input
<1>6. CASE FirmwareEvent \/ UNCHANGED vars
  BY <1>6 DEF FirmwareEvent, IInv
<1> QED
  BY <1>1, <1>2, <1>3, <1>4, <1>5, <1>6 DEF Next, efi_main, get_memory_map

\* Every step keeps the invariant.
LEMMA NextIInv == IInv /\ [Next]_vars => IInv'
BY NextParts, PrintStep DEF IInv

THEOREM Invariance == Spec => []IInv
BY InitIInv, NextIInv, PTL DEF Spec

THEOREM TypeCorrect == Spec => []TypeOK
BY Invariance, PTL DEF IInv

\* The firmware never writes past the end of the map buffer.
THEOREM MapFits == Spec => []MapFitsBuffer
<1>1. IInv => MapFitsBuffer
  BY DEF IInv, BufferInv, MapFitsBuffer
<1> QED BY <1>1, Invariance, PTL

\* The DEBUG build's listing of the map stays inside it, and reaches its end when
\* sixteen bits can count it.
THEOREM PrintsFilled == Spec => []PrintsFilledMap
<1>1. IInv => PrintsFilledMap
  <2> SUFFICES ASSUME IInv PROVE PrintsFilledMap
    OBVIOUS
  <2>1. /\ n_descriptors \in Nat /\ n_descriptors <= size
        /\ size < UINT16 => n_descriptors = size
    BY CountFits DEF IInv
  <2> QED
    BY <2>1 DEF IInv, TypeOK, BufferInv, PrintInv, Filled, PrintsFilledMap
<1> QED BY <1>1, Invariance, PTL

\* The kernel is handed a memory map that is current, complete and allocated.
THEOREM HandoffCurrent == Spec => []HandoffMapCurrent
<1>1. IInv => HandoffMapCurrent
  BY DEF IInv, ExitInv, HandoffMapCurrent
<1> QED BY <1>1, Invariance, PTL

\* A release build reaches the kernel unless the firmware fails a call or changes
\* its map between the size query and ExitBootServices.
THEOREM FirmwareToBlame == Spec => []BlameFirmware
BY Invariance, PTL DEF IInv

=============================================================================
