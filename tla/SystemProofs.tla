---------------------------- MODULE SystemProofs ----------------------------
(* Proofs that the whole bootloader keeps what its parts promise: the kernel   *)
(* inherits a whole kernel, the map of the memory and the screen as they are,  *)
(* and the composition implements Boot, for all kernel files, memories and     *)
(* video modes.  They rest on the inductive invariants of the parts: Boot's,   *)
(* whose proofs this module extends, Loader's and ExitBoot's.                  *)
EXTENDS System, BootProofs, FiniteSetTheorems

\* Loader and ExitBoot as System has them, with their invariants and lemmas.
LP == INSTANCE LoaderProofs WITH pc <- lpc, status <- lstatus, fault <- lfault
XP == INSTANCE ExitBootProofs WITH
       pc <- xpc, status <- xstatus, fault <- xfault, i <- printed, boot_info <- handed,
       nDesc <- Runs(owner)

\* efi_main has returned an error of load_kernel_image: the one step that Boot
\* has not as it is here.
Stopped == pc = "returned" /\ lpc = "returned" /\ lstatus # "SUCCESS"

\* The parts run one after the other: the hand-over does not begin before the
\* kernel is loaded.
InTurn ==
  /\ ~DEBUG /\ kernelGood = L!Loadable
  /\ pc # "ExitBootServices" /\ (pc = "kernel" <=> xpc = "kernel")
  /\ pc \in {"close_graphic_output_service", "get_memory_map", "kernel"} => LP!Succeeded
  /\ LoadFailed => pc \in {"load_kernel_image", "returned"}
  /\ lpc = "crashed" => pc = "load_kernel_image"
  /\ pc \notin {"get_memory_map", "kernel"} => xpc = "GetMapSize"

\* The key tells whether the map that was fetched is still that of the memory.
MapOfMemory ==
  /\ mapKey <= key
  /\ xpc = "ExitBootServices" /\ mapKey = key => reported = owner
  /\ xpc \in {"SetBootInfo", "kernel"} => reported = owner
  /\ xpc \in {"GetMapSize", "AllocateMap", "GetMap"} => snap["final"].n = 0
  /\ xpc \in {"ExitBootServices", "SetBootInfo", "kernel"} => snap["final"].n > 0

\* The invariant the proofs carry through every step of the system.
SystemInv ==
  /\ LP!IInv /\ LP!GoodInv /\ XP!IInv /\ (IInv \/ Stopped)
  /\ InTurn /\ MapOfMemory /\ KernelInherits

-----------------------------------------------------------------------------
(* LP's and XP's definitions are those of L and X, of the same modules.        *)

\* What Loader and ExitBoot assume of their constants.
LEMMA LoaderAssumptions ==
  LP!PhdrsAssumption /\ LP!ImagesAssumption /\ LP!MachineAssumption
BY PartsAssumption DEF L!PhdrsAssumption, LP!PhdrsAssumption, L!ImagesAssumption,
     LP!ImagesAssumption, L!MachineAssumption, LP!MachineAssumption, L!ELF_FILE_CLASS_32,
     LP!ELF_FILE_CLASS_32, L!ELF_FILE_CLASS_64, LP!ELF_FILE_CLASS_64

LEMMA ExitAssumption == XP!MapAssumption
BY PartsAssumption DEF X!MapAssumption, XP!MapAssumption

\* Each group of the loader's actions is the one its proofs are about.
LEMMA SameLoader ==
  /\ L!Init => LP!Init
  /\ L!load_kernel_image => LP!load_kernel_image
  /\ L!check_for_fatal_error => LP!check_for_fatal_error
  /\ L!wait_for_input => LP!wait_for_input
  /\ L!Firmware => LP!Firmware
<1>1. L!Init => LP!Init
  BY DEF L!Init, LP!Init, L!NoIdent, LP!NoIdent, L!NoEhdr, LP!NoEhdr, L!Junk, LP!Junk
<1> USE DEF L!Goto, LP!Goto, L!Return, LP!Return, L!FatalError, LP!FatalError, L!SetPosition,
     LP!SetPosition, L!AllocatePool, LP!AllocatePool, L!FreePool, LP!FreePool, L!ioVars,
     LP!ioVars, L!bufVars, LP!bufVars, L!loopVars, LP!loopVars, L!memVars, LP!memVars,
     L!Advance, LP!Advance, L!Content, LP!Content, L!Span, LP!Span, L!seg, LP!seg, L!Junk,
     LP!Junk, L!Overlong, LP!Overlong, L!Crash, LP!Crash, L!ELF_FILE_CLASS_32, LP!ELF_FILE_CLASS_32, L!ELF_FILE_CLASS_64,
     LP!ELF_FILE_CLASS_64, L!PT_LOAD, LP!PT_LOAD
<1>2. L!ReadHeaders => LP!ReadHeaders
  BY DEF L!ReadHeaders, LP!ReadHeaders, L!OpenKernelImage, LP!OpenKernelImage,
     L!read_elf_identity_SetPosition, LP!read_elf_identity_SetPosition,
     L!read_elf_identity_AllocatePool, LP!read_elf_identity_AllocatePool,
     L!read_elf_identity_Read, LP!read_elf_identity_Read, L!ValidateIdentity,
     LP!ValidateIdentity, L!FreeIdentity, LP!FreeIdentity, L!read_elf_file_SetPosition,
     LP!read_elf_file_SetPosition, L!read_elf_file_AllocatePool, LP!read_elf_file_AllocatePool,
     L!read_elf_file_Read, LP!read_elf_file_Read, L!read_elf_file_SetPosition2,
     LP!read_elf_file_SetPosition2, L!read_elf_file_AllocatePool2,
     LP!read_elf_file_AllocatePool2, L!read_elf_file_Read2, LP!read_elf_file_Read2,
     L!HeaderRead, LP!HeaderRead, L!Idents, LP!Idents, L!Ehdrs, LP!Ehdrs, L!EntryInFile,
     LP!EntryInFile, L!validate_elf_identity, LP!validate_elf_identity
<1>3. L!LoadSegments => LP!LoadSegments
  BY DEF L!LoadSegments, LP!LoadSegments, L!load_program_segments, LP!load_program_segments,
     L!SkipHeader, LP!SkipHeader, L!LoadHeader, LP!LoadHeader, L!EndOfHeaders, LP!EndOfHeaders,
     L!load_segment_SetPosition, LP!load_segment_SetPosition, L!load_segment_AllocatePages,
     LP!load_segment_AllocatePages, L!load_segment_AllocatePages_refused,
     LP!load_segment_AllocatePages_refused, L!load_segment_AllocatePool,
     LP!load_segment_AllocatePool, L!load_segment_Read, LP!load_segment_Read,
     L!load_segment_CopyMem, LP!load_segment_CopyMem, L!load_segment_FreePool,
     LP!load_segment_FreePool, L!load_segment_SetMem, LP!load_segment_SetMem,
     L!load_segment_SetMem_wraps, LP!load_segment_SetMem_wraps, L!Grantable, LP!Grantable, L!Claim, LP!Claim, L!SizeToPages, LP!SizeToPages, L!NoResult, LP!NoResult,
     L!ZeroFill, LP!ZeroFill, L!Zero, LP!Zero
<1>4. L!Cleanup \/ L!ReadBeyondEnd => LP!Cleanup \/ LP!ReadBeyondEnd
  BY DEF L!Cleanup, LP!Cleanup, L!CloseKernelImage, LP!CloseKernelImage, L!FreeHeader,
     LP!FreeHeader, L!FreeProgramHeaders, LP!FreeProgramHeaders, L!ReadBeyondEnd,
     LP!ReadBeyondEnd
<1>5. /\ L!check_for_fatal_error => LP!check_for_fatal_error
      /\ L!wait_for_input => LP!wait_for_input
  BY DEF L!check_for_fatal_error, LP!check_for_fatal_error, L!wait_for_input, LP!wait_for_input,
     L!Calls, LP!Calls
<1>6. L!Firmware => LP!Firmware
  BY DEF L!Firmware, LP!Firmware, L!FirmwareTakes, LP!FirmwareTakes, L!FirmwareGives,
     LP!FirmwareGives, L!Page, LP!Page
<1> QED
  BY <1>1, <1>2, <1>3, <1>4, <1>5, <1>6 DEF L!load_kernel_image, LP!load_kernel_image

\* So are the actions of the hand-over.
LEMMA SameExit ==
  /\ X!Init => XP!Init
  /\ X!GetMapSize \/ X!AllocateMap \/ X!GetMap \/ X!GetMap_refused \/ X!ExitBootServices
     \/ X!ExitBootServices_refused \/ X!SetBootInfo => XP!efi_main
  /\ X!check_for_fatal_error => XP!check_for_fatal_error
  /\ X!wait_for_input => XP!wait_for_input
  /\ X!FirmwareEvent => XP!FirmwareEvent
<1> USE DEF X!Goto, XP!Goto, X!FatalError, XP!FatalError, X!mapVars, XP!mapVars, X!fwVars, XP!fwVars,
     X!histVars, XP!histVars, X!Changed, XP!Changed, X!NoSnap, XP!NoSnap, X!NoInfo, XP!NoInfo,
     X!NULL, XP!NULL, X!Rounds, XP!Rounds
<1>1. X!Init => XP!Init
  BY DEF X!Init, XP!Init
<1>2. X!GetMapSize \/ X!AllocateMap \/ X!GetMap \/ X!GetMap_refused => XP!get_memory_map
  BY DEF X!GetMapSize, XP!GetMapSize, X!AllocateMap, XP!AllocateMap, X!GetMap, XP!GetMap,
     X!GetMap_refused, XP!GetMap_refused, XP!get_memory_map
<1>3. X!ExitBootServices \/ X!ExitBootServices_refused \/ X!SetBootInfo => XP!efi_main
  BY DEF X!ExitBootServices, XP!ExitBootServices, X!ExitBootServices_refused,
     XP!ExitBootServices_refused, X!SetBootInfo, XP!SetBootInfo, XP!efi_main
<1>4. /\ X!check_for_fatal_error => XP!check_for_fatal_error
      /\ X!wait_for_input => XP!wait_for_input
      /\ X!FirmwareEvent => XP!FirmwareEvent
  BY DEF X!check_for_fatal_error, XP!check_for_fatal_error, X!wait_for_input, XP!wait_for_input,
     X!FirmwareEvent, XP!FirmwareEvent
<1> QED
  BY <1>1, <1>2, <1>3, <1>4 DEF XP!efi_main

-----------------------------------------------------------------------------
(* The loader's invariant.                                                   *)

\* The memory's map always fits the bound on its size.
LEMMA RunsBounded ==
  ASSUME NEW o
  PROVE  Runs(o) \in 1 .. MaxDesc
<1> DEFINE S == {a \in Addr : a + 1 \in Addr /\ o[a] # o[a + 1]}
<1>1. Cardinality(S) \in Nat /\ Cardinality(Addr) \in Nat /\ Cardinality(S) <= Cardinality(Addr)
  BY PartsAssumption, FS_Subset, FS_CardinalityType
<1>2. MaxDesc \in Nat /\ Cardinality(Addr) < MaxDesc
  BY PartsAssumption DEF X!MapAssumption
<1>3. Runs(o) = 1 + Cardinality(S)
  BY DEF Runs
<1> QED
  BY <1>1, <1>2, <1>3

\* The loader's steps keep its invariant.
LEMMA LoaderKept ==
  ASSUME LP!IInv, LP!GoodInv, [LP!Next]_(LP!vars)
  PROVE  (LP!IInv /\ LP!GoodInv)'
BY LoaderAssumptions, LP!NextIInv, LP!NextGoodInv

\* The buffer of the memory map takes a free page, or none, and leaves the kernel
\* that is loaded where it is.
LEMMA BufferBesideKernel ==
  ASSUME LP!IInv, LP!GoodInv, LP!Succeeded, UNCHANGED loadVars,
         owner' \in [Addr -> {"free", "firmware", "loader"}],
         \A a \in Addr : owner'[a] # owner[a] => owner'[a] = "loader"
  PROVE  (LP!IInv /\ LP!GoodInv)'
<1> USE DEF loadVars, LP!Succeeded, LP!Done
<1>1. lpc = "returned" /\ lstatus = "SUCCESS"
  OBVIOUS
<1>2. LP!TypeOK'
  BY DEF LP!IInv, LP!TypeOK
<1>3. (LP!Status /\ LP!Positioned /\ LP!LoopBounds /\ LP!BuffersRead)'
  BY DEF LP!IInv, LP!Status, LP!Positioned, LP!LoopBounds, LP!BuffersRead, LP!Intact, LP!seg
<1>4. LP!EarlierLoaded'
  BY DEF LP!IInv, LP!EarlierLoaded, LP!Owned, LP!FilePart, LP!ZeroPart, LP!Content, LP!Spilt,
         LP!Overlong
<1>5. (LP!SegmentUnderWay /\ LP!Resources)'
  BY <1>1 DEF LP!IInv, LP!SegmentUnderWay, LP!Resources, LP!Granted, LP!Held
<1>6. LP!IdentityAccepted'
  BY DEF LP!IInv, LP!IdentityAccepted, LP!Accepted
<1>7. LP!GoodInv'
  BY <1>1 DEF LP!GoodInv, LP!NonePassed, LP!OwnsPassed, LP!GoodImageLoads, LP!AfterTable,
              LP!InSegment, LP!AfterLoop
<1> QED
  BY <1>2, <1>3, <1>4, <1>5, <1>6, <1>7 DEF LP!IInv

\* Every step of the system keeps the loader's invariant.
LEMMA LoaderStep ==
  ASSUME SystemInv, [SystemNext]_sysVars
  PROVE  (LP!IInv /\ LP!GoodInv)'
<1> USE DEF SystemInv
<1>1. CASE Load \/ FirmwareEvent
  <2>1. LP!Next
    BY <1>1, SameLoader DEF Load, FirmwareEvent, LP!Next
  <2> QED
    BY <2>1, LoaderKept
<1>2. CASE HandOver /\ AllocateMap
  <2>1. LP!Succeeded /\ UNCHANGED loadVars
    BY <1>2 DEF HandOver, InTurn
  <2>2. owner \in [Addr -> {"free", "firmware", "loader"}]
    BY DEF LP!IInv, LP!TypeOK
  <2>3. /\ owner' \in [Addr -> {"free", "firmware", "loader"}]
        /\ \A a \in Addr : owner'[a] # owner[a] => owner'[a] = "loader"
    BY <1>2, <2>2 DEF AllocateMap
  <2> QED
    BY <2>1, <2>3, BufferBesideKernel
<1>3. CASE Main \/ LoadReturns \/ (HandOver /\ ~AllocateMap) \/ EnterKernel \/ UNCHANGED sysVars
  <2>1. UNCHANGED <<loadVars, owner>>
    BY <1>3 DEF Main, LoadReturns, HandOver, GetMap, OtherCalls, EnterKernel, sysVars
  <2>2. UNCHANGED LP!vars
    BY <2>1 DEF loadVars, LP!vars, LP!ioVars, LP!bufVars, LP!loopVars, LP!memVars
  <2> QED
    BY <2>2, LoaderKept
<1> QED
  BY <1>1, <1>2, <1>3 DEF SystemNext, Program

-----------------------------------------------------------------------------
(* The hand-over's invariant.                                                *)

\* The hand-over's steps keep its invariant.
LEMMA ExitKept ==
  ASSUME XP!IInv, [XP!Next]_(XP!vars)
  PROVE  XP!IInv'
BY ExitAssumption, XP!NextIInv

\* Until the map is asked for, it may be the map of any memory.
LEMMA NoMapYet ==
  ASSUME XP!IInv, ~DEBUG, xpc = "GetMapSize", UNCHANGED exitVars
  PROVE  XP!IInv'
<1> USE DEF exitVars
<1>1. Runs(owner)' \in 1 .. MaxDesc
  <2>1. PICK o : o = owner'
    OBVIOUS
  <2>2. Runs(o) \in 1 .. MaxDesc
    BY RunsBounded
  <2> QED
    BY <2>1, <2>2 DEF Runs
<1>2. XP!TypeOK'
  BY <1>1 DEF XP!IInv, XP!TypeOK
<1>3. (XP!BufferInv /\ XP!ExitInv /\ XP!QuietInv /\ XP!BlameFirmware)'
  BY DEF XP!IInv, XP!BufferInv, XP!ExitInv, XP!QuietInv, XP!BlameFirmware, XP!Failed, XP!Filled
<1>4. XP!PrintInv'
  BY DEF XP!IInv, XP!PrintInv
<1> QED
  BY <1>2, <1>3, <1>4 DEF XP!IInv

\* Every step of the system keeps the hand-over's invariant.
LEMMA ExitStep ==
  ASSUME SystemInv, [SystemNext]_sysVars
  PROVE  XP!IInv'
<1> USE DEF SystemInv
<1>1. CASE Load
  BY <1>1, NoMapYet DEF Load, InTurn
<1>2. CASE HandOver \/ EnterKernel \/ FirmwareEvent
  <2>1. XP!Next
    BY <1>2, SameExit DEF HandOver, AllocateMap, GetMap, OtherCalls, EnterKernel, FirmwareEvent,
                          XP!Next
  <2> QED
    BY <2>1, ExitKept
<1>3. CASE Main \/ LoadReturns \/ UNCHANGED sysVars
  <2>1. UNCHANGED <<exitVars, owner>>
    BY <1>3 DEF Main, LoadReturns, sysVars
  <2>2. UNCHANGED XP!vars
    BY <2>1 DEF exitVars, Runs, XP!vars, XP!mapVars, XP!fwVars, XP!histVars
  <2> QED
    BY <2>2, ExitKept
<1> QED
  BY <1>1, <1>2, <1>3 DEF SystemNext, Program

-----------------------------------------------------------------------------
(* Boot's invariant.                                                         *)

\* efi_main's own steps are Boot's.
LEMMA BootKept ==
  ASSUME IInv, [Next]_vars
  PROVE  IInv'
BY TypeStep, ScreenStep, BufferStep, ReasonStep DEF IInv

\* Every step of the system keeps Boot's invariant, unless efi_main returns an
\* error of load_kernel_image.
LEMMA BootStep ==
  ASSUME SystemInv, [SystemNext]_sysVars
  PROVE  (IInv \/ Stopped)'
<1> USE DEF SystemInv
<1>1. CASE Main
  <2>1. Next /\ UNCHANGED loadVars
    BY <1>1 DEF Main, Next, efi_main
  <2>2. CASE IInv
    BY <2>1, <2>2, BootKept
  <2>3. CASE Stopped
    BY <2>3, <1>1 DEF Stopped, Main, SetUp, SetWatchdogTimer, ResetConsoleInput,
      init_serial_service, init_graphics_output_service, OpenProtocol, OpenProtocol_fails,
      set_graphics_mode, MatchMode, PassMode, NoModeFound, SetMode, SetVideoInfo,
      init_file_system_service, OpenVolume, CloseGraphics, close_graphic_output_service,
      close_graphic_output_service_refused, ReturnedError, wait_for_input,
      check_for_fatal_error, Goto, Calls
  <2> QED
    BY <2>2, <2>3
<1>2. CASE LoadReturns
  <2>1. CASE lstatus = "SUCCESS"
    <3>1. Next /\ pc = "load_kernel_image"
      BY <1>2, <2>1 DEF LoadReturns, Next, efi_main, load_kernel_image, Calls, Goto
    <3> QED
      BY <3>1, BootKept DEF Stopped
  <2>2. CASE lstatus # "SUCCESS"
    BY <1>2, <2>2 DEF LoadReturns, Stopped, Goto, loadVars
  <2> QED
    BY <2>1, <2>2
<1>3. CASE Load \/ HandOver \/ FirmwareEvent \/ UNCHANGED sysVars
  <2>1. UNCHANGED vars
    BY <1>3 DEF Load, HandOver, FirmwareEvent, sysVars
  <2>2. CASE IInv
    BY <2>1, <2>2, BootKept
  <2>3. CASE Stopped
    <3>1. UNCHANGED <<lpc, lstatus>>
      BY <2>3, <1>3 DEF Stopped, Load, HandOver, FirmwareEvent, sysVars, loadVars, Goto,
        L!Firmware, L!FirmwareTakes, L!FirmwareGives
    <3> QED
      BY <2>1, <2>3, <3>1 DEF Stopped, vars
  <2> QED
    BY <2>2, <2>3
<1>4. CASE EnterKernel
  <2>1. pc = "get_memory_map" /\ pc' = "kernel"
        /\ UNCHANGED <<status, machine, gfxVars, histVars>>
    BY <1>4 DEF EnterKernel, Goto
  <2>2. IInv
    BY <2>1 DEF Stopped
  <2> QED
    BY <2>1, <2>2 DEF IInv, TypeOK, ScreenSoFar, BufferHeld, StopsForAReason, Steps, Early, Search, Late, Done, IsTarget, machine, gfxVars, histVars
<1> QED
  BY <1>1, <1>2, <1>3, <1>4 DEF SystemNext, Program

-----------------------------------------------------------------------------
(* The order of the parts, and the map.                                      *)

\* The firmware's events touch nothing of the parts but who holds the memory.
LEMMA EventTouches ==
  ASSUME FirmwareEvent
  PROVE  /\ UNCHANGED <<vars, img, lpc, lstatus, lfault, mem, reported, boot_info>>
         /\ UNCHANGED <<DEBUG, xpc, mapKey, snap, memory_map, handed, bootServices, xfault>>
         /\ bootServices /\ key' = key + 1 /\ quiet' = FALSE
BY DEF FirmwareEvent, L!Firmware, L!FirmwareTakes, L!FirmwareGives, X!FirmwareEvent, X!mapVars

\* The file is the same in every step of the loader.
LEMMA SameFile ==
  ASSUME L!load_kernel_image \/ L!check_for_fatal_error \/ L!wait_for_input
  PROVE  UNCHANGED img
<1> USE DEF L!SetPosition, L!AllocatePool, L!FreePool
<1>1. CASE L!ReadHeaders
  BY <1>1 DEF L!ReadHeaders, L!OpenKernelImage, L!read_elf_identity_SetPosition,
    L!read_elf_identity_AllocatePool, L!read_elf_identity_Read, L!ValidateIdentity,
    L!FreeIdentity, L!read_elf_file_SetPosition, L!read_elf_file_AllocatePool,
    L!read_elf_file_Read, L!read_elf_file_SetPosition2, L!read_elf_file_AllocatePool2,
    L!read_elf_file_Read2
<1>2. CASE L!LoadSegments
  BY <1>2 DEF L!LoadSegments, L!load_program_segments, L!SkipHeader, L!LoadHeader,
    L!EndOfHeaders, L!load_segment_SetPosition, L!load_segment_AllocatePages,
    L!load_segment_AllocatePages_refused, L!load_segment_AllocatePool, L!load_segment_Read,
    L!load_segment_CopyMem, L!load_segment_FreePool, L!load_segment_SetMem,
    L!load_segment_SetMem_wraps
<1>3. CASE L!Cleanup \/ L!ReadBeyondEnd \/ L!check_for_fatal_error \/ L!wait_for_input
  BY <1>3 DEF L!Cleanup, L!CloseKernelImage, L!FreeHeader, L!FreeProgramHeaders,
    L!ReadBeyondEnd, L!check_for_fatal_error, L!wait_for_input
<1> QED
  BY <1>1, <1>2, <1>3 DEF L!load_kernel_image

\* What a kernel must be like to load depends on the file alone.
LEMMA SameLoadable ==
  ASSUME UNCHANGED img
  PROVE  L!Loadable' <=> L!Loadable
BY DEF L!Loadable, L!Intact, L!Span, L!Page, L!Overlong

\* efi_main's own steps, up to the load and after it.
LEMMA MainPcs ==
  ASSUME Main
  PROVE  /\ pc' # "ExitBootServices" /\ pc' # "kernel"
         /\ pc \notin {"load_kernel_image", "get_memory_map", "returned", "kernel"}
         /\ pc' \in {"close_graphic_output_service", "get_memory_map"} =>
              pc = "close_graphic_output_service"
         /\ pc' = "get_memory_map" => pc = "close_graphic_output_service"
         /\ UNCHANGED machine
BY DEF Main, SetUp, SetWatchdogTimer, ResetConsoleInput, init_serial_service,
  init_graphics_output_service, OpenProtocol, OpenProtocol_fails, set_graphics_mode, MatchMode,
  PassMode, NoModeFound, SetMode, SetVideoInfo, init_file_system_service, OpenVolume,
  CloseGraphics, close_graphic_output_service, close_graphic_output_service_refused,
  ReturnedError, wait_for_input, check_for_fatal_error, Goto, Calls, FatalError, Returns

\* The hand-over's steps go from one of its calls to the next, or fail.
LEMMA HandOverPcs ==
  ASSUME HandOver
  PROVE  /\ xpc # "kernel" /\ xpc' # "kernel"
         /\ UNCHANGED <<DEBUG, handed>>
BY DEF HandOver, AllocateMap, GetMap, OtherCalls, X!AllocateMap, X!GetMap, X!GetMapSize,
  X!GetMap_refused, X!ExitBootServices, X!ExitBootServices_refused, X!check_for_fatal_error,
  X!wait_for_input, X!Goto, X!FatalError

\* The parts keep their order.
LEMMA InTurnStep ==
  ASSUME SystemInv, [SystemNext]_sysVars
  PROVE  InTurn'
<1> USE DEF SystemInv, InTurn, LoadFailed
<1>1. CASE Main
  <2>1. UNCHANGED <<loadVars, exitVars>>
    BY <1>1 DEF Main
  <2>2. L!Loadable' <=> L!Loadable
    BY <2>1, SameLoadable DEF loadVars
  <2> QED
    BY <1>1, <2>1, <2>2, MainPcs DEF loadVars, exitVars, machine, LP!Succeeded
<1>2. CASE Load
  <2>1. UNCHANGED <<vars, exitVars, img>> /\ pc = "load_kernel_image"
    BY <1>2, SameFile DEF Load
  <2>2. L!Loadable' <=> L!Loadable
    BY <2>1, SameLoadable
  <2> QED
    BY <2>1, <2>2 DEF vars, machine, exitVars
<1>3. CASE LoadReturns
  <2>1. /\ pc = "load_kernel_image" /\ pc' \in {"close_graphic_output_service", "returned"}
        /\ pc' = "close_graphic_output_service" => lstatus = "SUCCESS"
        /\ lpc = "returned" /\ UNCHANGED <<kernelGood, loadVars, exitVars>>
    BY <1>3 DEF LoadReturns, load_kernel_image, Calls, Goto, machine
  <2>2. L!Loadable' <=> L!Loadable
    BY <2>1, SameLoadable DEF loadVars
  <2> QED
    BY <2>1, <2>2 DEF loadVars, exitVars, LP!Succeeded
<1>4. CASE HandOver
  <2>1. UNCHANGED <<vars, loadVars>> /\ pc = "get_memory_map"
    BY <1>4 DEF HandOver
  <2>2. L!Loadable' <=> L!Loadable
    BY <2>1, SameLoadable DEF loadVars
  <2>3. pc' = "get_memory_map" /\ xpc' # "kernel" /\ UNCHANGED <<lpc, lstatus, DEBUG, kernelGood>>
    BY <1>4, <2>1, HandOverPcs DEF vars, machine, loadVars
  <2> QED
    BY <2>1, <2>2, <2>3 DEF LP!Succeeded
<1>5. CASE EnterKernel
  <2>1. /\ pc = "get_memory_map" /\ pc' = "kernel" /\ xpc' = "kernel"
        /\ UNCHANGED <<kernelGood, loadVars, DEBUG>>
    BY <1>5 DEF EnterKernel, Goto, machine, X!SetBootInfo, X!Goto
  <2>2. L!Loadable' <=> L!Loadable
    BY <2>1, SameLoadable DEF loadVars
  <2> QED
    BY <2>1, <2>2 DEF loadVars, LP!Succeeded
<1>6. CASE FirmwareEvent \/ UNCHANGED sysVars
  <2>1. UNCHANGED <<vars, img, lpc, lstatus, DEBUG, xpc>>
    BY <1>6, EventTouches DEF sysVars, loadVars, exitVars
  <2>2. L!Loadable' <=> L!Loadable
    BY <2>1, SameLoadable
  <2> QED
    BY <2>1, <2>2 DEF vars, machine, LP!Succeeded
<1> QED
  BY <1>1, <1>2, <1>3, <1>4, <1>5, <1>6 DEF SystemNext, Program

\* The map that was fetched is the memory's as long as its key is current.
LEMMA MapStep ==
  ASSUME SystemInv, [SystemNext]_sysVars
  PROVE  MapOfMemory'
<1> USE DEF SystemInv, MapOfMemory
<1>0. /\ mapKey \in Nat /\ key \in Nat /\ size \in Nat /\ snap["final"].n \in Nat
      /\ snap \in [{"debug", "final"} -> [n: Nat, key: Nat]]
      /\ xpc \in {"SetBootInfo", "kernel"} => ~bootServices
  BY DEF XP!IInv, XP!TypeOK, XP!Rounds, XP!ExitInv
<1>1. CASE Main \/ LoadReturns \/ UNCHANGED sysVars
  BY <1>1 DEF Main, LoadReturns, sysVars, exitVars
<1>2. CASE Load
  BY <1>0, <1>2 DEF Load, InTurn, exitVars
<1>3. CASE HandOver /\ AllocateMap
  BY <1>0, <1>3 DEF AllocateMap, X!AllocateMap, X!Goto
<1>4. CASE HandOver /\ GetMap
  <2>1. round = "final" /\ memory_map = "final"
    BY <1>4 DEF GetMap, X!GetMap, X!Goto, XP!IInv, XP!QuietInv, XP!BufferInv, InTurn
  <2>2. /\ mapKey' = key /\ key' = key /\ reported' = owner /\ owner' = owner
        /\ xpc' = "ExitBootServices"
        /\ snap' = [snap EXCEPT !["final"] = [n |-> size', key |-> key]]
    BY <1>4, <2>1 DEF GetMap, X!GetMap, X!Goto, X!fwVars
  <2>3. size' \in Nat /\ size' > 0
    BY ExitStep, <2>2 DEF XP!IInv, XP!TypeOK, XP!BufferInv, XP!Filled
  <2> QED
    BY <1>0, <2>2, <2>3
<1>5. CASE HandOver /\ OtherCalls
  BY <1>0, <1>5 DEF OtherCalls, X!GetMapSize, X!GetMap_refused, X!ExitBootServices,
    X!ExitBootServices_refused, X!check_for_fatal_error, X!wait_for_input, X!Goto, X!FatalError,
    X!mapVars, X!fwVars
<1>6. CASE EnterKernel
  BY <1>0, <1>6 DEF EnterKernel, X!SetBootInfo, X!Goto, X!mapVars, X!fwVars
<1>7. CASE FirmwareEvent
  BY <1>0, <1>7, EventTouches
<1> QED
  BY <1>1, <1>2, <1>3, <1>4, <1>5, <1>6, <1>7 DEF SystemNext, Program, HandOver

-----------------------------------------------------------------------------
(* The boot info structure.                                                  *)

\* Where the kernel's members start, by the rules of alignment.
Starts == <<0, 8, 16, 24, 32, 36, 40>>

\* The start of a member follows from that of the one before.
LEMMA NextStart ==
  ASSUME NEW k \in 2 .. 7
  PROVE  Aligned(Starts[k - 1] + Boot_Info[k - 1].size, Boot_Info[k].size) = Starts[k]
<1>1. /\ 15 \div 8 = 1 /\ 23 \div 8 = 2 /\ 31 \div 8 = 3
      /\ 35 \div 4 = 8 /\ 39 \div 4 = 9 /\ 43 \div 4 = 10
  BY SMT
<1> USE <1>1 DEF Aligned, Starts, Boot_Info, Member
<1>2. CASE k = 2
  BY <1>2
<1>3. CASE k = 3
  BY <1>3
<1>4. CASE k = 4
  BY <1>4
<1>5. CASE k = 5
  BY <1>5
<1>6. CASE k = 6
  BY <1>6
<1>7. CASE k = 7
  BY <1>7
<1> QED
  BY <1>2, <1>3, <1>4, <1>5, <1>6, <1>7

\* The members start where the recursion of Offset says.
LEMMA Offsets ==
  ASSUME NEW n \in 1 .. 7
  PROVE  Offset(Boot_Info, n) = Starts[n]
<1> DEFINE Step(f, k) == IF k = 1 THEN 0
                         ELSE Aligned(f[k - 1] + Boot_Info[k - 1].size, Boot_Info[k].size)
           Eq(f) == f = [k \in 1 .. n |-> Step(f, k)]
           w  == [k \in 1 .. n |-> Starts[k]]
           at == CHOOSE f : Eq(f)
<1>1. Starts[1] = 0
  BY DEF Starts
<1>2. Eq(w)
  <2>1. ASSUME NEW k \in 1 .. n PROVE w[k] = Step(w, k)
    <3>1. CASE k = 1
      BY <1>1, <3>1
    <3>2. CASE k # 1
      <4>1. k \in 2 .. 7 /\ k - 1 \in 1 .. n
        BY <3>2
      <4>2. w[k - 1] = Starts[k - 1] /\ w[k] = Starts[k]
        BY <4>1
      <4>3. Step(w, k) = Starts[k]
        BY <3>2, <4>1, <4>2, NextStart
      <4> QED
        BY <4>2, <4>3
    <3> QED
      BY <3>1, <3>2
  <2> QED
    BY <2>1
<1>3. Eq(at)
  BY <1>2, Zenon
<1>4. ASSUME NEW k \in 1 .. n PROVE at[k] = Step(at, k)
  <2> HIDE DEF at, Step
  <2> QED
    BY <1>3
<1> HIDE DEF at
<1>5. at[1] = Starts[1]
  BY <1>1, <1>4
<1>6. ASSUME NEW k \in 2 .. 7, k <= n, at[k - 1] = Starts[k - 1] PROVE at[k] = Starts[k]
  <2>1. k \in 1 .. n /\ k # 1
    BY <1>6
  <2>2. at[k] = Aligned(Starts[k - 1] + Boot_Info[k - 1].size, Boot_Info[k].size)
    BY <1>4, <1>6, <2>1
  <2> QED
    BY <2>2, NextStart
<1>7. at[n] = Starts[n]
  <2> HIDE DEF Eq, Step, w
  <2>2. 2 <= n => at[2] = Starts[2]
    BY <1>5, <1>6
  <2>3. 3 <= n => at[3] = Starts[3]
    BY <1>6, <2>2
  <2>4. 4 <= n => at[4] = Starts[4]
    BY <1>6, <2>3
  <2>5. 5 <= n => at[5] = Starts[5]
    BY <1>6, <2>4
  <2>6. 6 <= n => at[6] = Starts[6]
    BY <1>6, <2>5
  <2>7. 7 <= n => at[7] = Starts[7]
    BY <1>6, <2>6
  <2>8. n \in {1, 2, 3, 4, 5, 6, 7}
    OBVIOUS
  <2> QED
    BY <1>5, <2>2, <2>3, <2>4, <2>5, <2>6, <2>7, <2>8
<1>8. Offset(Boot_Info, n) = at[n]
  BY DEF Offset, at
<1> QED
  BY <1>7, <1>8

\* What the bootloader stores in a member by its declaration, the kernel reads in
\* that member by its own.
LEMMA ReadBack ==
  ASSUME NEW values, NEW k \in 1 .. 7
  PROVE  Read(Boot_Info, Stored(Kernel_Boot_Info, values), Boot_Info[k].name)
           = {values[Boot_Info[k].name]}
<1>1. Kernel_Boot_Info = Boot_Info /\ DOMAIN Boot_Info = 1 .. 7
  BY DEF Kernel_Boot_Info, Boot_Info
<1> DEFINE memory == Stored(Kernel_Boot_Info, values)
           Cell(n) == <<Offset(Boot_Info, n), Boot_Info[n].size, values[Boot_Info[n].name]>>
<1>2. memory = {Cell(n) : n \in 1 .. 7}
  BY <1>1 DEF Stored
<1>3. \A m, n \in 1 .. 7 : Starts[m] = Starts[n] => m = n
  BY DEF Starts
<1>4. \A m, n \in 1 .. 7 : Offset(Boot_Info, m) = Offset(Boot_Info, n) => m = n
  BY <1>3, Offsets
<1>5. \A m, n \in 1 .. 7 : Boot_Info[m].name = Boot_Info[n].name => m = n
  BY DEF Boot_Info, Member
<1>6. Cell(k) \in memory
  BY <1>2
<1>7. ASSUME NEW w \in memory, NEW n \in 1 .. 7, Boot_Info[n].name = Boot_Info[k].name,
             w[1] = Offset(Boot_Info, n)
      PROVE  w[3] = values[Boot_Info[k].name]
  <2>1. n = k
    BY <1>5, <1>7
  <2>2. PICK m \in 1 .. 7 : w = Cell(m)
    BY <1>2
  <2>3. m = k
    BY <1>4, <1>7, <2>1, <2>2
  <2> QED
    BY <2>2, <2>3
<1> QED
  BY <1>1, <1>6, <1>7 DEF Read

-----------------------------------------------------------------------------
(* What the kernel inherits.                                                 *)

\* A successful load has put every byte of the kernel where it is wanted.
LEMMA WantedInPlace ==
  ASSUME LP!IInv, LP!Succeeded, L!Intact
  PROVE  /\ entry = img.ehdr.entry
         /\ \A w \in L!Wanted(img) : mem[w[1]] = w[2] /\ owner[w[1]] = "loader"
<1>1. LP!KernelInPlace /\ LP!Intact
  BY LoaderAssumptions, LP!InPlaceOfIInv
     DEF L!Intact, LP!Intact, L!ELF_FILE_CLASS_32, LP!ELF_FILE_CLASS_32, L!ELF_FILE_CLASS_64,
         LP!ELF_FILE_CLASS_64, L!PT_LOAD, LP!PT_LOAD
<1>2. /\ entry = img.ehdr.entry
      /\ \A n \in DOMAIN img.ph : img.ph[n].type = L!PT_LOAD =>
           /\ \A k \in 0 .. img.ph[n].memsz - 1 :
                mem[img.ph[n].paddr + k] =
                  IF k < img.ph[n].filesz THEN img.ph[n].off + k ELSE L!Zero
           /\ \A a \in LP!Span(img.ph[n].paddr, img.ph[n].memsz) : owner[a] = "loader"
  BY <1>1 DEF LP!KernelInPlace, LP!InPlace, L!PT_LOAD, LP!PT_LOAD, L!Zero, LP!Zero
<1>3. ASSUME NEW w \in L!Wanted(img)
      PROVE  mem[w[1]] = w[2] /\ owner[w[1]] = "loader"
  <2>1. PICK n \in DOMAIN img.ph : img.ph[n].type = L!PT_LOAD /\
          \E k \in 0 .. img.ph[n].memsz - 1 : w = <<img.ph[n].paddr + k,
            IF k < img.ph[n].filesz THEN img.ph[n].off + k ELSE L!Zero>>
    BY DEF L!Wanted
  <2>2. PICK k \in 0 .. img.ph[n].memsz - 1 : w = <<img.ph[n].paddr + k,
            IF k < img.ph[n].filesz THEN img.ph[n].off + k ELSE L!Zero>>
    BY <2>1
  <2>3. img.ph[n].memsz \in Nat /\ img.ph[n].paddr \in Nat
    <3>1. img.ph \in [1 .. img.ehdr.phnum -> Phdrs]
      BY LoaderAssumptions DEF LP!ImagesAssumption, LP!IInv, LP!TypeOK
    <3>2. img.ph[n] \in Phdrs
      BY <3>1
    <3> QED
      BY <3>2, LoaderAssumptions DEF LP!PhdrsAssumption
  <2>4. w[1] \in LP!Span(img.ph[n].paddr, img.ph[n].memsz)
    BY <2>2, <2>3 DEF LP!Span
  <2> QED
    BY <1>2, <2>1, <2>2, <2>4
<1> QED
  BY <1>2, <1>3

\* What the kernel is given at its entry is as promised.
LEMMA EntryInherits ==
  ASSUME SystemInv, EnterKernel
  PROVE  KernelInherits'
<1> USE DEF SystemInv
<1>1. /\ pc = "get_memory_map" /\ pc' = "kernel" /\ xpc = "SetBootInfo" /\ xpc' = "kernel"
      /\ UNCHANGED <<status, machine, gfxVars, histVars, loadVars, owner, reported>>
  BY DEF EnterKernel, Goto, X!SetBootInfo, X!Goto
<1>2. UNCHANGED <<memory_map, snap, bootServices>>
  BY DEF EnterKernel, X!SetBootInfo, X!mapVars, X!fwVars
<1>3. L!Intact => entry = img.ehdr.entry /\
        \A w \in L!Wanted(img) : mem[w[1]] = w[2] /\ reported[w[1]] = "loader"
  BY <1>1, WantedInPlace DEF InTurn, MapOfMemory
<1>4. (L!Intact => entry = img.ehdr.entry /\
        \A w \in L!Wanted(img) : mem[w[1]] = w[2] /\ reported[w[1]] = "loader")'
  BY <1>1, <1>3 DEF loadVars, L!Intact, L!Wanted
<1>5. (reported = owner /\ ~bootServices)'
  BY <1>1, <1>2 DEF MapOfMemory, XP!IInv, XP!ExitInv
<1>6. video_mode_info = IF graphics_output_protocol THEN modes[mode] ELSE NoVideo
  BY <1>1 DEF IInv, ScreenSoFar, Late, Stopped
<1>7. /\ handed' = [memory_map |-> memory_map, memory_map_size |-> size,
                    memory_map_descriptor_size |-> DescriptorSize]
      /\ size = snap["final"].n
  BY <1>1 DEF EnterKernel, X!SetBootInfo, XP!IInv, XP!BufferInv, XP!Filled, XP!QuietInv, InTurn
<1>8. PICK values : values =
        [memory_map |-> memory_map, memory_map_size |-> snap["final"].n,
         memory_map_descriptor_size |-> DescriptorSize,
         framebuffer_pointer |-> video_mode_info.framebuffer,
         horizontal_resolution |-> video_mode_info.width,
         vertical_resolution |-> video_mode_info.height,
         pixels_per_scanline |-> video_mode_info.pitch]
  OBVIOUS
<1>9. boot_info' = Stored(Kernel_Boot_Info, values)
  BY <1>7, <1>8 DEF EnterKernel
<1>10. \A k \in 1 .. 7 : Read(Boot_Info, boot_info', Boot_Info[k].name) = {values[Boot_Info[k].name]}
  BY <1>9, ReadBack
<1>11. /\ Boot_Info[1].name = "memory_map" /\ Boot_Info[2].name = "memory_map_size"
       /\ Boot_Info[3].name = "memory_map_descriptor_size"
       /\ Boot_Info[4].name = "framebuffer_pointer" /\ Boot_Info[5].name = "horizontal_resolution"
       /\ Boot_Info[6].name = "vertical_resolution" /\ Boot_Info[7].name = "pixels_per_scanline"
  BY DEF Boot_Info, Member
<1>12. /\ Read(Boot_Info, boot_info', "memory_map") = {memory_map}
       /\ Read(Boot_Info, boot_info', "memory_map_size") = {snap["final"].n}
       /\ Read(Boot_Info, boot_info', "memory_map_descriptor_size") = {DescriptorSize}
       /\ Read(Boot_Info, boot_info', "framebuffer_pointer") = {video_mode_info.framebuffer}
       /\ Read(Boot_Info, boot_info', "horizontal_resolution") = {video_mode_info.width}
       /\ Read(Boot_Info, boot_info', "vertical_resolution") = {video_mode_info.height}
       /\ Read(Boot_Info, boot_info', "pixels_per_scanline") = {video_mode_info.pitch}
  BY <1>8, <1>10, <1>11
<1> QED
  BY <1>1, <1>2, <1>4, <1>5, <1>6, <1>12 DEF KernelInherits, gfxVars, machine

\* After its entry nothing of it changes: boot services are down, and with them
\* the firmware's drivers.
LEMMA InheritsStep ==
  ASSUME SystemInv, [SystemNext]_sysVars
  PROVE  KernelInherits'
<1> USE DEF SystemInv
<1>1. CASE EnterKernel
  BY <1>1, EntryInherits
<1>2. CASE UNCHANGED sysVars
  <2>1. UNCHANGED <<pc, entry, img, mem, reported, owner, bootServices, video_mode_info,
                    graphics_output_protocol, modes, mode, boot_info, memory_map, snap>>
    BY <1>2 DEF sysVars, vars, machine, gfxVars, loadVars, exitVars
  <2> QED
    BY <2>1 DEF KernelInherits, L!Intact, L!Wanted
<1>3. CASE Main \/ Load \/ LoadReturns \/ HandOver
  <2>1. pc' # "kernel"
    BY <1>3, MainPcs DEF Load, LoadReturns, load_kernel_image, Calls, HandOver, Goto, vars
  <2> QED
    BY <2>1 DEF KernelInherits
<1>4. CASE FirmwareEvent
  <2>1. bootServices /\ pc' = pc
    BY <1>4, EventTouches DEF vars
  <2>2. pc # "kernel"
    BY <2>1 DEF InTurn, XP!IInv, XP!ExitInv
  <2> QED
    BY <2>1, <2>2 DEF KernelInherits
<1> QED
  BY <1>1, <1>2, <1>3, <1>4 DEF SystemNext, Program

-----------------------------------------------------------------------------

\* The invariant holds of the initial states.
LEMMA InitSystemInv == SystemInit => SystemInv
<1> SUFFICES ASSUME SystemInit PROVE SystemInv
  OBVIOUS
<1> USE DEF SystemInit
<1>1. LP!Init /\ XP!Init /\ IInv
  BY SameLoader, SameExit, InitIInv
<1>2. LP!IInv /\ LP!GoodInv /\ XP!IInv
  BY <1>1, LoaderAssumptions, ExitAssumption, LP!InitIInv, LP!InitGoodInv, XP!InitIInv
<1>3. /\ pc = "SetWatchdogTimer" /\ lpc = "Open" /\ xpc = "GetMapSize"
      /\ mapKey = 0 /\ key = 1 /\ snap["final"].n = 0
  BY DEF Init, L!Init, X!Init, X!NoSnap, X!Rounds
<1>4. InTurn
  BY <1>3 DEF InTurn, LoadFailed
<1>5. MapOfMemory /\ KernelInherits
  BY <1>3 DEF MapOfMemory, KernelInherits
<1> QED
  BY <1>1, <1>2, <1>4, <1>5 DEF SystemInv

\* The invariant holds in every reachable state of the system.
THEOREM SystemInvariance == SystemSpec => []SystemInv
<1>1. SystemInv /\ [SystemNext]_sysVars => SystemInv'
  BY LoaderStep, ExitStep, BootStep, InTurnStep, MapStep, InheritsStep DEF SystemInv
<1> QED
  BY <1>1, InitSystemInv, PTL DEF SystemSpec

\* The kernel inherits what it is promised, from four parts of the program and with
\* the firmware running between, for every kernel file, memory and video mode.
THEOREM Inherits == SystemSpec => []KernelInherits
<1>1. SystemInv => KernelInherits
  BY DEF SystemInv
<1> QED
  BY <1>1, SystemInvariance, PTL

-----------------------------------------------------------------------------
(* The system implements Boot.                                               *)

\* Where Boot's variables are what they are, efi_main's own steps are Boot's.
LEMMA SameStep ==
  ASSUME MainPc = pc, MainStatus = status, MainFailedAt = failedAt,
         MainFault = fault, MainPc' = pc', MainStatus' = status', MainFailedAt' = failedAt',
         MainFault' = fault', Main
  PROVE  Abstract!Next
<1> USE DEF Goto, Abstract!Goto, Calls, Abstract!Calls, FatalError, Abstract!FatalError, Returns,
     Abstract!Returns, machine, Abstract!machine, gfxVars, Abstract!gfxVars, histVars,
     Abstract!histVars, NULL, Abstract!NULL
<1>1. CASE SetUp
  BY <1>1 DEF SetUp, Abstract!SetUp, SetWatchdogTimer, Abstract!SetWatchdogTimer,
     ResetConsoleInput, Abstract!ResetConsoleInput, init_serial_service,
     Abstract!init_serial_service, init_graphics_output_service,
     Abstract!init_graphics_output_service, OpenProtocol, Abstract!OpenProtocol,
     OpenProtocol_fails, Abstract!OpenProtocol_fails, set_graphics_mode,
     Abstract!set_graphics_mode, MatchMode, Abstract!MatchMode, PassMode, Abstract!PassMode,
     NoModeFound, Abstract!NoModeFound, SetMode, Abstract!SetMode, SetVideoInfo,
     Abstract!SetVideoInfo, init_file_system_service, Abstract!init_file_system_service,
     OpenVolume, Abstract!OpenVolume, Wanted, Abstract!Wanted,
     Abstract!Next, Abstract!efi_main
<1>2. CASE CloseGraphics
  BY <1>2 DEF CloseGraphics, Abstract!CloseGraphics, close_graphic_output_service,
     Abstract!close_graphic_output_service, close_graphic_output_service_refused,
     Abstract!close_graphic_output_service_refused,
     Abstract!Next, Abstract!efi_main
<1>3. CASE ReturnedError \/ wait_for_input \/ check_for_fatal_error
  BY <1>3 DEF ReturnedError, Abstract!ReturnedError, wait_for_input, Abstract!wait_for_input,
     check_for_fatal_error, Abstract!check_for_fatal_error, Abstract!Next
<1> QED
  BY <1>1, <1>2, <1>3 DEF Main

\* A step in which Boot's variables stay as they are maps to a stuttering step.
LEMMA Stutters ==
  ASSUME UNCHANGED <<MainPc, MainStatus, MainFailedAt, MainFault, machine, gfxVars>>
  PROVE  [Abstract!Next]_(Abstract!vars)
BY DEF machine, gfxVars, Abstract!vars, Abstract!machine, Abstract!gfxVars, Abstract!histVars

\* efi_main's own steps, before the load and after it.
LEMMA MainMaps ==
  ASSUME SystemInv, SystemInv', Main
  PROVE  Abstract!Next
<1> USE DEF SystemInv
<1>1. /\ pc \notin {"load_kernel_image", "get_memory_map", "returned", "kernel"}
      /\ pc' # "kernel" /\ UNCHANGED <<lpc, lstatus, xpc, xfault, snap>>
  BY MainPcs DEF Main, loadVars, exitVars
<1>2. ~LoadFailed /\ ~LoadFailed' /\ lpc # "crashed" /\ xpc = "GetMapSize"
  BY <1>1 DEF InTurn, LoadFailed
<1>3. ~ExitFailed /\ ~ExitFailed' /\ fault \in BOOLEAN /\ fault' \in BOOLEAN
  BY <1>1, <1>2 DEF ExitFailed, Stopped, IInv, TypeOK, LoadFailed
<1>4. MainPc = pc /\ MainPc' = pc'
  BY <1>1, <1>2, <1>3 DEF MainPc
<1>5. /\ MainStatus = status /\ MainStatus' = status'
      /\ MainFailedAt = failedAt /\ MainFailedAt' = failedAt'
  BY <1>2, <1>3 DEF MainStatus, MainFailedAt
<1>6. MainFault = fault /\ MainFault' = fault'
  BY <1>2, <1>3 DEF MainFault
<1> QED
  BY <1>4, <1>5, <1>6, SameStep

\* The loader's own steps begin while it runs.
LEMMA LoaderRuns ==
  ASSUME L!load_kernel_image \/ L!check_for_fatal_error
  PROVE  lpc \notin {"wait_for_input", "returned", "crashed"}
<1> USE DEF L!SetPosition, L!AllocatePool, L!FreePool, L!Goto, L!Return
<1>1. CASE L!ReadHeaders
  BY <1>1 DEF L!ReadHeaders, L!OpenKernelImage, L!read_elf_identity_SetPosition,
    L!read_elf_identity_AllocatePool, L!read_elf_identity_Read, L!ValidateIdentity,
    L!FreeIdentity, L!read_elf_file_SetPosition, L!read_elf_file_AllocatePool,
    L!read_elf_file_Read, L!read_elf_file_SetPosition2, L!read_elf_file_AllocatePool2,
    L!read_elf_file_Read2
<1>2. CASE L!LoadSegments
  BY <1>2 DEF L!LoadSegments, L!load_program_segments, L!SkipHeader, L!LoadHeader,
    L!EndOfHeaders, L!load_segment_SetPosition, L!load_segment_AllocatePages,
    L!load_segment_AllocatePages_refused, L!load_segment_AllocatePool, L!load_segment_Read,
    L!load_segment_CopyMem, L!load_segment_FreePool, L!load_segment_SetMem,
    L!load_segment_SetMem_wraps
<1>3. CASE L!Cleanup \/ L!ReadBeyondEnd \/ L!check_for_fatal_error
  BY <1>3 DEF L!Cleanup, L!CloseKernelImage, L!FreeHeader, L!FreeProgramHeaders,
    L!ReadBeyondEnd, L!check_for_fatal_error, L!Calls
<1> QED
  BY <1>1, <1>2, <1>3 DEF L!load_kernel_image

\* A kernel that loads is the same to L and to LP.
LEMMA SameKernels == LP!Loadable <=> L!Loadable
BY DEF L!Loadable, LP!Loadable, L!Intact, LP!Intact, L!Span, LP!Span, L!Page, LP!Page,
  L!PT_LOAD, LP!PT_LOAD, L!ELF_FILE_CLASS_32, LP!ELF_FILE_CLASS_32, L!ELF_FILE_CLASS_64,
  LP!ELF_FILE_CLASS_64, L!Overlong, LP!Overlong

\* Only a file that is no good kernel makes the loader crash.
LEMMA CrashOfBadKernel ==
  ASSUME SystemInv, L!load_kernel_image \/ L!check_for_fatal_error, lpc' = "crashed"
  PROVE  ~L!Loadable
<1> USE DEF L!Goto, L!Return, L!SetPosition, L!AllocatePool, L!FreePool, L!FatalError, L!NoResult
<1>1. CASE L!ReadHeaders
  BY <1>1 DEF L!ReadHeaders, L!OpenKernelImage, L!read_elf_identity_SetPosition,
    L!read_elf_identity_AllocatePool, L!read_elf_identity_Read, L!ValidateIdentity,
    L!FreeIdentity, L!read_elf_file_SetPosition, L!read_elf_file_AllocatePool,
    L!read_elf_file_Read, L!read_elf_file_SetPosition2, L!read_elf_file_AllocatePool2,
    L!read_elf_file_Read2
<1>2. CASE L!LoadSegments
  <2>1. lpc \in {"CopyMem", "SetMem"} /\ L!Overlong(L!seg)
    BY <1>2 DEF L!LoadSegments, L!load_program_segments, L!SkipHeader, L!LoadHeader,
      L!EndOfHeaders, L!load_segment_SetPosition, L!load_segment_AllocatePages,
      L!load_segment_AllocatePages_refused, L!load_segment_AllocatePool, L!load_segment_Read,
      L!load_segment_CopyMem, L!load_segment_FreePool, L!load_segment_SetMem,
      L!load_segment_SetMem_wraps
  <2>2. LP!Spilling
    BY <2>1 DEF LP!Spilling, L!Overlong, LP!Overlong, L!seg, LP!seg
  <2> QED
    BY <2>2, SameKernels, LoaderAssumptions, LP!NotSpilling DEF SystemInv
<1>3. CASE L!Cleanup \/ L!ReadBeyondEnd \/ L!check_for_fatal_error
  BY <1>3 DEF L!Cleanup, L!CloseKernelImage, L!FreeHeader, L!FreeProgramHeaders,
    L!ReadBeyondEnd, L!check_for_fatal_error
<1> QED
  BY <1>1, <1>2, <1>3 DEF L!load_kernel_image

\* A load of a good kernel that fails does so by the firmware's doing, and so does
\* a hand-over.
Blames == (LoadFailed /\ L!Loadable => lfault) /\ (ExitFailed => xfault \/ ~quiet)

LEMMA BlamesFirmware == SystemInv => Blames
<1> SUFFICES ASSUME SystemInv PROVE Blames
  OBVIOUS
<1> USE DEF SystemInv
<1>1. LP!Loadable <=> L!Loadable
  BY SameKernels
<1>2. LoadFailed /\ L!Loadable => lfault
  BY <1>1 DEF LP!GoodInv, LP!GoodImageLoads, LP!Done, LP!Succeeded, LP!IInv, LP!Status, LoadFailed
<1>3. ExitFailed => xfault \/ ~quiet
  BY DEF ExitFailed, XP!IInv, XP!BlameFirmware, XP!Failed, InTurn
<1> QED
  BY <1>2, <1>3 DEF Blames

\* A step of the loader maps to a load_kernel_image that fails or crashes, to the
\* end of its prompt or to nothing.
LEMMA LoadMaps ==
  ASSUME SystemInv, SystemInv', Blames, Blames', Load
  PROVE  [Abstract!Next]_(Abstract!vars)
<1> USE DEF SystemInv
<1>1. /\ pc = "load_kernel_image" /\ pc' = pc /\ xpc = "GetMapSize" /\ xpc' = xpc
      /\ UNCHANGED <<status, machine, gfxVars, failedAt, fault, xfault, snap>>
  BY DEF Load, InTurn, vars, histVars, exitVars
<1>2. ~ExitFailed /\ ~ExitFailed'
  BY <1>1 DEF ExitFailed
<1>3. fault \in BOOLEAN /\ lfault \in BOOLEAN /\ lfault' \in BOOLEAN
  BY <1>1 DEF LP!IInv, LP!TypeOK, IInv, TypeOK, Stopped
<1>4. CASE L!wait_for_input
  <2>1. /\ lpc = "wait_for_input" /\ lpc' = "returned" /\ UNCHANGED <<lstatus, lfault>>
    BY <1>4 DEF L!wait_for_input, L!Goto
  <2>2. LoadFailed /\ LoadFailed'
    BY <2>1 DEF LP!IInv, LP!Status, LoadFailed
  <2>3. MainPc = "wait_for_input" /\ MainPc' = "returned"
    BY <1>1, <2>1, <2>2 DEF MainPc
  <2>4. UNCHANGED <<MainStatus, MainFailedAt, MainFault>>
    BY <1>1, <1>2, <2>1, <2>2 DEF MainStatus, MainFailedAt, MainFault
  <2> QED
    BY <1>1, <2>3, <2>4 DEF Abstract!Next, Abstract!wait_for_input, Abstract!Goto,
      Abstract!machine, Abstract!gfxVars, Abstract!histVars, machine, gfxVars
<1>5. CASE L!load_kernel_image \/ L!check_for_fatal_error
  <2>1. ~LoadFailed /\ lpc # "crashed"
    BY <1>5, LoaderRuns DEF LoadFailed
  <2>2. /\ MainPc = "load_kernel_image" /\ MainStatus = status /\ MainFailedAt = failedAt
        /\ MainFault = fault
    BY <1>1, <1>2, <1>3, <2>1 DEF MainPc, MainStatus, MainFailedAt, MainFault
  <2>3. CASE ~LoadFailed' /\ lpc' # "crashed"
    <3>1. /\ MainPc' = "load_kernel_image" /\ MainStatus' = status /\ MainFailedAt' = failedAt
          /\ MainFault' = fault
      BY <1>1, <1>2, <1>3, <2>3 DEF MainPc, MainStatus, MainFailedAt, MainFault
    <3> QED
      BY <1>1, <2>2, <3>1, Stutters
  <2>4. CASE LoadFailed'
    <3>1. MainPc' = lpc' /\ lpc' \in {"wait_for_input", "returned"}
      BY <1>1, <2>4 DEF MainPc, LoadFailed
    <3>2. MainStatus' = "LOAD_ERROR" /\ MainFailedAt' = "load_kernel_image"
      BY <1>1, <1>2, <2>4 DEF MainStatus, MainFailedAt
    <3>3. MainFault' = (fault \/ lfault')
      BY <1>1, <1>2, <2>4 DEF MainFault
    <3>4. kernelGood => lfault'
      <4>1. kernelGood' = L!Loadable' /\ kernelGood' = kernelGood
        BY <1>1 DEF InTurn, machine
      <4> QED
        BY <2>4, <4>1 DEF Blames
    <3>5. MainFault' \in {MainFault, TRUE} /\ (kernelGood => MainFault')
      BY <1>3, <2>2, <3>3, <3>4
    <3> QED
      BY <1>1, <2>2, <3>1, <3>2, <3>5 DEF Abstract!Next, Abstract!efi_main,
        Abstract!load_kernel_image_fails, Abstract!FatalError, Abstract!Returns,
        Abstract!machine, Abstract!gfxVars, machine, gfxVars
  <2>5. CASE lpc' = "crashed"
    <3>1. ~LoadFailed'
      BY <2>5 DEF LoadFailed
    <3>2. /\ MainPc' = "crashed" /\ MainStatus' = status /\ MainFailedAt' = failedAt
          /\ MainFault' = fault
      BY <1>1, <1>2, <1>3, <2>5, <3>1 DEF MainPc, MainStatus, MainFailedAt, MainFault
    <3>3. ~kernelGood
      BY <1>5, <2>5, CrashOfBadKernel DEF InTurn
    <3> QED
      BY <1>1, <2>2, <3>2, <3>3 DEF Abstract!Next, Abstract!efi_main,
        Abstract!load_kernel_image_fails, Abstract!machine, Abstract!gfxVars, machine, gfxVars
  <2> QED
    BY <2>3, <2>4, <2>5
<1> QED
  BY <1>4, <1>5 DEF Load

\* The loader's return maps to load_kernel_image's, or to nothing when it is with
\* an error.
LEMMA LoadReturnsMaps ==
  ASSUME SystemInv, SystemInv', LoadReturns
  PROVE  [Abstract!Next]_(Abstract!vars)
<1> USE DEF SystemInv
<1>1. /\ pc = "load_kernel_image" /\ xpc = "GetMapSize" /\ lpc = "returned"
      /\ UNCHANGED <<lpc, lstatus, lfault, xpc, xfault, quiet, snap, machine, gfxVars, histVars>>
  BY DEF LoadReturns, InTurn, load_kernel_image, Calls, Goto, loadVars, exitVars
<1>2. ~ExitFailed /\ ~ExitFailed'
  BY <1>1 DEF ExitFailed
<1>3. fault \in BOOLEAN
  BY <1>1 DEF IInv, TypeOK, Stopped
<1>4. CASE lstatus = "SUCCESS"
  <2>1. pc' = "close_graphic_output_service" /\ status' = status
    BY <1>4 DEF LoadReturns, load_kernel_image, Calls, Goto
  <2>2. ~LoadFailed /\ ~LoadFailed'
    BY <1>1, <1>4 DEF LoadFailed
  <2>3. MainPc = "load_kernel_image" /\ MainPc' = "close_graphic_output_service"
    BY <1>1, <2>1, <2>2 DEF MainPc
  <2>4. UNCHANGED <<MainStatus, MainFailedAt, MainFault>>
    BY <1>1, <1>2, <2>1, <2>2 DEF MainStatus, MainFailedAt, MainFault, histVars
  <2> QED
    BY <1>1, <2>3, <2>4 DEF Abstract!Next, Abstract!efi_main, Abstract!load_kernel_image,
      Abstract!Calls, Abstract!Goto, Abstract!machine, Abstract!gfxVars, Abstract!histVars,
      machine, gfxVars
<1>5. CASE lstatus # "SUCCESS"
  <2>1. pc' = "returned" /\ LoadFailed /\ LoadFailed'
    BY <1>1, <1>5 DEF LoadReturns, Goto, LoadFailed
  <2>2. UNCHANGED MainPc
    BY <1>1, <1>2, <2>1 DEF MainPc
  <2>3. UNCHANGED <<MainStatus, MainFailedAt, MainFault>>
    BY <1>1, <1>2, <2>1 DEF MainStatus, MainFailedAt, MainFault, histVars
  <2> QED
    BY <1>1, <2>2, <2>3, Stutters
<1> QED
  BY <1>4, <1>5

\* A step of the hand-over maps to get_memory_map's return, to a failure of one of
\* Boot's two calls, to the end of its prompt or to nothing.
LEMMA HandOverMaps ==
  ASSUME SystemInv, SystemInv', Blames', HandOver
  PROVE  [Abstract!Next]_(Abstract!vars)
<1> USE DEF SystemInv
<1>1. /\ pc = "get_memory_map" /\ pc' = pc /\ lpc' = lpc /\ lstatus' = lstatus
      /\ UNCHANGED <<status, machine, gfxVars, failedAt, fault>>
  BY DEF HandOver, vars, histVars, loadVars
<1>2. ~LoadFailed /\ ~LoadFailed' /\ fault \in BOOLEAN
  BY <1>1 DEF InTurn, LP!Succeeded, LoadFailed, IInv, TypeOK, Stopped
<1>3. CASE X!wait_for_input /\ OtherCalls
  <2>1. /\ xpc = "wait_for_input" /\ xpc' = "returned" /\ UNCHANGED <<snap, xfault, quiet>>
    BY <1>3 DEF X!wait_for_input, X!Goto, X!mapVars, X!histVars
  <2>2. ExitFailed /\ ExitFailed'
    BY <2>1 DEF ExitFailed
  <2>3. MainPc = "wait_for_input" /\ MainPc' = "returned"
    BY <1>1, <1>2, <2>1, <2>2 DEF MainPc
  <2>4. UNCHANGED <<MainStatus, MainFailedAt, MainFault>>
    BY <1>1, <1>2, <2>1, <2>2 DEF MainStatus, MainFailedAt, MainFault
  <2> QED
    BY <1>1, <2>3, <2>4 DEF Abstract!Next, Abstract!wait_for_input, Abstract!Goto,
      Abstract!machine, Abstract!gfxVars, Abstract!histVars, machine, gfxVars
<1>4. CASE AllocateMap \/ (OtherCalls /\ (X!GetMapSize \/ X!ExitBootServices))
  <2>1. \/ xpc \in {"GetMapSize", "AllocateMap"} /\ xpc' \in {"AllocateMap", "GetMap"}
        \/ xpc = "ExitBootServices" /\ xpc' = "SetBootInfo"
    BY <1>4 DEF AllocateMap, OtherCalls, X!AllocateMap, X!GetMapSize, X!ExitBootServices, X!Goto
  <2>2. ~ExitFailed /\ ~ExitFailed'
    BY <2>1 DEF ExitFailed
  <2>3. UNCHANGED <<MainPc, MainStatus, MainFailedAt, MainFault>>
    BY <1>1, <1>2, <2>1, <2>2 DEF MainPc, MainStatus, MainFailedAt, MainFault
  <2> QED
    BY <1>1, <2>3, Stutters
<1>5. CASE GetMap
  <2>1. xpc = "GetMap" /\ xpc' = "ExitBootServices"
    BY <1>5 DEF GetMap, X!GetMap, X!Goto, XP!IInv, XP!QuietInv, InTurn
  <2>2. ~ExitFailed /\ ~ExitFailed'
    BY <2>1 DEF ExitFailed
  <2>3. MainPc = "get_memory_map" /\ MainPc' = "ExitBootServices"
    BY <1>1, <1>2, <2>1, <2>2 DEF MainPc
  <2>4. UNCHANGED <<MainStatus, MainFailedAt, MainFault>>
    BY <1>1, <1>2, <2>2 DEF MainStatus, MainFailedAt, MainFault
  <2> QED
    BY <1>1, <2>3, <2>4 DEF Abstract!Next, Abstract!efi_main, Abstract!get_memory_map,
      Abstract!Calls, Abstract!Goto, Abstract!machine, Abstract!gfxVars, Abstract!histVars,
      machine, gfxVars
<1>6. CASE OtherCalls /\
           (X!GetMap_refused \/ X!ExitBootServices_refused \/ X!check_for_fatal_error)
  <2>1. /\ xpc \in {"GetMapSize", "AllocateMap", "GetMap", "FreeMap", "ExitBootServices"}
        /\ xpc' = "wait_for_input" /\ snap' = snap
    BY <1>6 DEF X!GetMap_refused, X!ExitBootServices_refused, X!check_for_fatal_error,
      X!FatalError, X!mapVars
  <2>2. ~ExitFailed /\ ExitFailed' /\ xpc # "FreeMap"
    BY <2>1 DEF ExitFailed, XP!IInv, XP!QuietInv, InTurn
  <2>3. MainPc = IF xpc = "ExitBootServices" THEN "ExitBootServices" ELSE "get_memory_map"
    BY <1>1, <1>2, <2>1, <2>2 DEF MainPc
  <2>4. MainPc' = "wait_for_input" /\ MainStatus' = "DEVICE_ERROR"
    BY <1>1, <1>2, <2>1, <2>2 DEF MainPc, MainStatus
  <2>5. snap'["final"].n \in Nat /\ (xpc = "ExitBootServices" <=> snap'["final"].n > 0)
    <3>1. snap \in [{"debug", "final"} -> [n: Nat, key: Nat]]
      BY DEF XP!IInv, XP!TypeOK, XP!Rounds
    <3> QED
      BY <2>1, <2>2, <3>1 DEF MapOfMemory
  <2>6. MainFailedAt' = MainPc
    BY <1>2, <2>2, <2>3, <2>5 DEF MainFailedAt
  <2>7. MainFault' = TRUE
    BY <1>1, <1>2, <2>2 DEF MainFault, Blames
  <2> QED
    BY <1>1, <2>3, <2>4, <2>6, <2>7 DEF Abstract!Next, Abstract!check_for_fatal_error,
      Abstract!FatalError, Abstract!machine, Abstract!gfxVars, machine, gfxVars
<1> QED
  BY <1>3, <1>4, <1>5, <1>6 DEF HandOver, OtherCalls

\* The jump is Boot's, and the firmware's events and steps that change nothing map
\* to nothing: what failed before an event had been the firmware's doing already.
LEMMA EndMaps ==
  ASSUME SystemInv, SystemInv', Blames, EnterKernel \/ FirmwareEvent \/ UNCHANGED sysVars
  PROVE  [Abstract!Next]_(Abstract!vars)
<1> USE DEF SystemInv
<1>1. CASE EnterKernel
  <2>1. /\ pc = "get_memory_map" /\ pc' = "kernel" /\ xpc = "SetBootInfo" /\ xpc' = "kernel"
        /\ UNCHANGED <<status, machine, gfxVars, failedAt, fault, lpc, lstatus>>
    BY <1>1 DEF EnterKernel, Goto, X!SetBootInfo, X!Goto, histVars, loadVars
  <2>2. ~LoadFailed /\ ~LoadFailed' /\ ~ExitFailed /\ ~ExitFailed'
    BY <2>1 DEF InTurn, LP!Succeeded, LoadFailed, ExitFailed
  <2>3. MainPc = "ExitBootServices" /\ MainPc' = "kernel"
    BY <2>1, <2>2 DEF MainPc
  <2>4. UNCHANGED <<MainStatus, MainFailedAt, MainFault>>
    BY <2>1, <2>2 DEF MainStatus, MainFailedAt, MainFault
  <2> QED
    BY <2>1, <2>3, <2>4 DEF Abstract!Next, Abstract!efi_main, Abstract!ExitBootServices,
      Abstract!Calls, Abstract!Goto, Abstract!machine, Abstract!gfxVars, Abstract!histVars,
      machine, gfxVars
<1>2. CASE FirmwareEvent
  <2>1. UNCHANGED <<vars, lpc, lstatus, lfault, xpc, xfault, snap>> /\ quiet' = FALSE
    BY <1>2, EventTouches
  <2>2. UNCHANGED <<pc, status, machine, gfxVars, failedAt, fault>>
    BY <2>1 DEF vars, histVars
  <2>3. (LoadFailed' <=> LoadFailed) /\ (ExitFailed' <=> ExitFailed)
    BY <2>1 DEF LoadFailed, ExitFailed
  <2>4. UNCHANGED <<MainPc, MainStatus, MainFailedAt>>
    BY <2>1, <2>2, <2>3 DEF MainPc, MainStatus, MainFailedAt
  <2>5. UNCHANGED MainFault
    BY <2>1, <2>2, <2>3 DEF MainFault, Blames
  <2> QED
    BY <2>2, <2>4, <2>5, Stutters
<1>3. CASE UNCHANGED sysVars
  <2>1. UNCHANGED <<vars, lpc, lstatus, lfault, xpc, xfault, snap, quiet>>
    BY <1>3 DEF sysVars, loadVars, exitVars
  <2>2. UNCHANGED <<pc, status, machine, gfxVars, failedAt, fault>>
    BY <2>1 DEF vars, histVars
  <2>3. UNCHANGED <<LoadFailed, ExitFailed>>
    BY <2>1 DEF LoadFailed, ExitFailed
  <2>4. UNCHANGED <<MainPc, MainStatus, MainFailedAt, MainFault>>
    BY <2>1, <2>2, <2>3 DEF MainPc, MainStatus, MainFailedAt, MainFault
  <2> QED
    BY <2>2, <2>4, Stutters
<1> QED
  BY <1>1, <1>2, <1>3

\* With the insides of its two large calls, on memory they share with the firmware,
\* efi_main is what Boot says.
THEOREM Implements == SystemSpec => ImplementsBoot
<1>1. SystemInit => Abstract!Init
  <2> SUFFICES ASSUME SystemInit PROVE Abstract!Init
    OBVIOUS
  <2>1. lpc = "Open" /\ xpc = "GetMapSize" /\ pc = "SetWatchdogTimer" /\ fault = FALSE
    BY DEF SystemInit, Init, L!Init, X!Init
  <2>2. ~LoadFailed /\ ~ExitFailed
    BY <2>1 DEF LoadFailed, ExitFailed
  <2>3. /\ MainPc = pc /\ MainStatus = status /\ MainFailedAt = failedAt
        /\ MainFault = fault
    BY <2>1, <2>2 DEF MainPc, MainStatus, MainFailedAt, MainFault
  <2> QED
    BY <2>3 DEF SystemInit, Init, Abstract!Init, None, Abstract!None, NULL, Abstract!NULL
<1>2. SystemInv /\ SystemInv' /\ Blames /\ Blames' /\ [SystemNext]_sysVars
        => [Abstract!Next]_(Abstract!vars)
  BY MainMaps, LoadMaps, LoadReturnsMaps, HandOverMaps, EndMaps DEF SystemNext, Program
<1> QED
  BY <1>1, <1>2, SystemInvariance, BlamesFirmware, PTL DEF SystemSpec, ImplementsBoot, Abstract!Spec

-----------------------------------------------------------------------------
(* What Boot's theorems say of the whole.                                    *)

\* Boot, as the system implements it, with its theorems.
BP == INSTANCE BootProofs WITH
  pc <- MainPc, status <- MainStatus, failedAt <- MainFailedAt, fault <- MainFault

\* The actions are those of Abstract, of the same module.
LEMMA SameBoot ==
  /\ Abstract!Init => BP!Init
  /\ [Abstract!Next]_(Abstract!vars) => [BP!Next]_(BP!vars)
<1> USE DEF Abstract!Goto, BP!Goto, Abstract!Calls, BP!Calls, Abstract!FatalError, BP!FatalError,
     Abstract!Returns, BP!Returns, Abstract!machine, BP!machine, Abstract!gfxVars, BP!gfxVars,
     Abstract!histVars, BP!histVars, Abstract!NULL, BP!NULL, Abstract!None, BP!None
<1>1. Abstract!Init => BP!Init
  BY DEF Abstract!Init, BP!Init
<1>2. Abstract!SetUp => BP!SetUp
  BY DEF Abstract!SetUp, BP!SetUp, Abstract!SetWatchdogTimer, BP!SetWatchdogTimer,
     Abstract!ResetConsoleInput, BP!ResetConsoleInput, Abstract!init_serial_service,
     BP!init_serial_service, Abstract!init_graphics_output_service,
     BP!init_graphics_output_service, Abstract!OpenProtocol, BP!OpenProtocol,
     Abstract!OpenProtocol_fails, BP!OpenProtocol_fails, Abstract!set_graphics_mode,
     BP!set_graphics_mode, Abstract!MatchMode, BP!MatchMode, Abstract!PassMode, BP!PassMode,
     Abstract!NoModeFound, BP!NoModeFound, Abstract!SetMode, BP!SetMode, Abstract!SetVideoInfo,
     BP!SetVideoInfo, Abstract!init_file_system_service, BP!init_file_system_service,
     Abstract!OpenVolume, BP!OpenVolume, Abstract!Wanted, BP!Wanted
<1>3. Abstract!efi_main => BP!efi_main
  BY <1>2 DEF Abstract!efi_main, BP!efi_main, Abstract!load_kernel_image, BP!load_kernel_image,
     Abstract!load_kernel_image_fails, BP!load_kernel_image_fails, Abstract!CloseGraphics,
     BP!CloseGraphics, Abstract!close_graphic_output_service, BP!close_graphic_output_service,
     Abstract!close_graphic_output_service_refused, BP!close_graphic_output_service_refused,
     Abstract!get_memory_map, BP!get_memory_map, Abstract!ExitBootServices, BP!ExitBootServices
<1>4. Abstract!Next => BP!Next
  BY <1>3 DEF Abstract!Next, BP!Next, Abstract!ReturnedError, BP!ReturnedError,
     Abstract!wait_for_input, BP!wait_for_input, Abstract!check_for_fatal_error,
     BP!check_for_fatal_error
<1>5. UNCHANGED Abstract!vars => UNCHANGED BP!vars
  BY DEF Abstract!vars, BP!vars
<1> QED
  BY <1>1, <1>4, <1>5

\* The whole bootloader does not stop short of a good kernel without a reason of
\* efi_main's: neither the loader nor the hand-over adds one.
THEOREM WholeStopsForAReason == SystemSpec => []Abstract!StopsForAReason
<1>1. BP!Spec => []BP!StopsForAReason
  BY ModesAssumption, BP!ReasonsToStop DEF BP!ModesAssumption
<1>2. BP!StopsForAReason => Abstract!StopsForAReason
  BY DEF BP!StopsForAReason, Abstract!StopsForAReason, BP!Done, Abstract!Done, BP!IsTarget,
     Abstract!IsTarget
<1> QED
  BY <1>1, <1>2, SameBoot, Implements, PTL DEF ImplementsBoot, Abstract!Spec, BP!Spec

=============================================================================
