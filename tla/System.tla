------------------------------- MODULE System -------------------------------
(* The whole of a release bootloader, from the firmware's call to the kernel's *)
(* first instruction: efi_main is Boot's, with the insides of Loader where     *)
(* Boot has the step load_kernel_image, and those of ExitBoot where it has     *)
(* get_memory_map and ExitBootServices.  The parts share the machine's memory: *)
(* the pages that Loader allocates, and the firmware's drivers take, are what  *)
(* ExitBoot's memory map is a map of.                                          *)
EXTENDS Boot, BootInfo, FiniteSets

CONSTANTS
  Images, Phdrs, Addr, PageSize, EI_NIDENT, EhdrSize, PhdrSize,   \* of Loader
  MaxDesc, MaxMerged, AllocGrowth, MaxEvents, UINT16, DescriptorSize  \* of ExitBoot

VARIABLES
  \* Loader
  img, lpc, lstatus, fpos, fileOpen, pool, ident, ehdr, phdrs, data, class, entry, p, nLoaded,
  mem, owner, lfault,
  \* ExitBoot
  DEBUG, xpc, xstatus, round, size, mapKey, descriptor_size, memory_map, cap, snap, printed, handed,
  key, bootServices, events, quiet, xfault,
  \* the composition
  reported,   \* what the last memory map says of each address
  boot_info   \* the memory that holds the structure handed to the kernel

\* The firmware's map has a descriptor for each run of addresses of one owner.
Runs(o) == 1 + Cardinality({a \in Addr : a + 1 \in Addr /\ o[a] # o[a + 1]})

L == INSTANCE Loader WITH pc <- lpc, status <- lstatus, fault <- lfault
X == INSTANCE ExitBoot WITH
       pc <- xpc, status <- xstatus, fault <- xfault, i <- printed, boot_info <- handed,
       nDesc <- Runs(owner)

\* Loader and ExitBoot assume of their constants what they assume alone, and the
\* bound on the map's size is none here: it has room for every map of Addr.
ASSUME PartsAssumption ==
  /\ L!PhdrsAssumption /\ L!ImagesAssumption /\ L!MachineAssumption /\ X!MapAssumption
  /\ IsFiniteSet(Addr) /\ Cardinality(Addr) < MaxDesc

loadVars == <<img, lpc, lstatus, fpos, fileOpen, pool, ident, ehdr, phdrs, data, class, entry,
              p, nLoaded, mem, lfault>>
exitVars == <<DEBUG, xpc, xstatus, round, size, mapKey, descriptor_size, memory_map, cap, snap,
              printed, handed, key, bootServices, events, quiet, xfault>>
sysVars == <<vars, loadVars, exitVars, owner, reported, boot_info>>

SystemInit ==
  /\ Init /\ L!Init /\ X!Init
  /\ kernelGood = L!Loadable /\ ~DEBUG
  /\ reported = owner /\ boot_info = {}

-----------------------------------------------------------------------------
(* efi_main's own calls, and load_kernel_image.                              *)

\* Steps of Boot that Loader and ExitBoot have no part in.
Main ==
  /\ SetUp \/ CloseGraphics \/ ReturnedError \/ wait_for_input
     \/ (pc # "get_memory_map" /\ check_for_fatal_error)
  /\ UNCHANGED <<loadVars, exitVars, owner, reported, boot_info>>

\* The map's key moves with each allocation here too; what it is before the map
\* is first asked for is of no account.
Load ==
  /\ pc = "load_kernel_image"
  /\ L!load_kernel_image \/ L!check_for_fatal_error \/ L!wait_for_input
  /\ UNCHANGED <<vars, exitVars, reported, boot_info>>

\* Mutant: the status of load_kernel_image is not looked at.
LoadReturnsUnchecked ==
  /\ lpc = "returned" /\ load_kernel_image
  /\ UNCHANGED <<loadVars, exitVars, owner, reported, boot_info>>

LoadReturns ==
  /\ lpc = "returned"
  /\ \/ lstatus = "SUCCESS" /\ load_kernel_image
     \/ /\ lstatus # "SUCCESS"
        /\ Goto("load_kernel_image", "returned") /\ status' = lstatus
        /\ UNCHANGED <<machine, gfxVars, histVars>>
  /\ UNCHANGED <<loadVars, exitVars, owner, reported, boot_info>>

-----------------------------------------------------------------------------
(* get_memory_map, ExitBootServices and the jump.                            *)

\* The pool has room for the map, or grows by a free page.
AllocateMap ==
  /\ \/ UNCHANGED owner
     \/ \E a \in Addr : /\ \A b \in L!Page(a) : owner[b] = "free"
                        /\ owner' = [b \in Addr |-> IF b \in L!Page(a) THEN "loader" ELSE owner[b]]
  /\ X!AllocateMap
  /\ UNCHANGED reported

GetMap == UNCHANGED owner /\ X!GetMap /\ reported' = owner

\* A release build asks for the size once, with a size of zero: GetMapSize_refused
\* is for the DEBUG build's second time.
OtherCalls ==
  /\ UNCHANGED <<owner, reported>>
  /\ \/ X!GetMapSize \/ X!GetMap_refused
     \/ X!ExitBootServices \/ X!ExitBootServices_refused
     \/ X!check_for_fatal_error \/ X!wait_for_input

HandOver ==
  /\ pc = "get_memory_map"
  /\ AllocateMap \/ GetMap \/ OtherCalls
  /\ UNCHANGED <<vars, loadVars, boot_info>>

\* kernel_entry(&boot_info), with the video mode that SetVideoInfo has put there.
EnterKernel ==
  /\ Goto("get_memory_map", "kernel")
  /\ UNCHANGED <<status, machine, gfxVars, histVars, loadVars, owner, reported>>
  /\ X!SetBootInfo
  /\ boot_info' = Stored(Kernel_Boot_Info,
       [memory_map |-> handed'.memory_map, memory_map_size |-> handed'.memory_map_size,
        memory_map_descriptor_size |-> handed'.memory_map_descriptor_size,
        framebuffer_pointer |-> video_mode_info.framebuffer,
        horizontal_resolution |-> video_mode_info.width,
        vertical_resolution |-> video_mode_info.height,
        pixels_per_scanline |-> video_mode_info.pitch])

\* The firmware's drivers take and give back pages at any time until boot
\* services end, and the map's key moves with each.
FirmwareEvent ==
  /\ L!Firmware /\ X!FirmwareEvent
  /\ UNCHANGED <<vars, reported, boot_info>>

Program == Main \/ Load \/ LoadReturns \/ HandOver \/ EnterKernel

SystemNext == Program \/ FirmwareEvent

WaitsForKey  == wait_for_input \/ L!wait_for_input \/ X!wait_for_input
FirmwareFails ==
  check_for_fatal_error \/ ReturnedError \/ L!check_for_fatal_error \/ X!check_for_fatal_error

\* The program runs on and firmware calls return; no call need fail and nobody
\* need press a key.
SystemSpec == SystemInit /\ [][SystemNext]_sysVars
FairSystem == SystemSpec /\ WF_sysVars(Program /\ ~WaitsForKey /\ ~FirmwareFails)

-----------------------------------------------------------------------------
(* What the bootloader promises as a whole.                                  *)

LoadFailed == lpc = "wait_for_input" \/ (lpc = "returned" /\ lstatus # "SUCCESS")
ExitFailed == xpc \in {"wait_for_input", "returned"}

MainPc ==
  CASE pc = "load_kernel_image" /\ (LoadFailed \/ lpc = "crashed")              -> lpc
    [] pc = "get_memory_map" /\ ExitFailed                                     -> xpc
    [] pc = "get_memory_map" /\ xpc \in {"ExitBootServices", "SetBootInfo"}    -> "ExitBootServices"
    [] OTHER                                                                   -> pc

\* Boot has one status for each of the two calls, and names the call that failed.
MainStatus == CASE LoadFailed -> "LOAD_ERROR" [] ExitFailed -> "DEVICE_ERROR" [] OTHER -> status

MainFailedAt ==
  CASE LoadFailed                                 -> "load_kernel_image"
    [] ExitFailed /\ snap["final"].n = 0          -> "get_memory_map"
    [] ExitFailed /\ snap["final"].n > 0          -> "ExitBootServices"
    [] OTHER                                      -> failedAt

MainFault == fault \/ (LoadFailed /\ lfault) \/ (ExitFailed /\ (xfault \/ ~quiet))

Abstract == INSTANCE Boot WITH
  pc <- MainPc, status <- MainStatus, failedAt <- MainFailedAt, fault <- MainFault

\* With the insides of load_kernel_image and of the hand-over in the place of
\* Boot's single steps, on memory that they and the firmware share, efi_main is
\* still what Boot says: in particular a kernel file that can be loaded, and a
\* map that only grows by the bootloader's own buffer, stop nothing.
ImplementsBoot == Abstract!Spec

\* The kernel starts with what it is promised, put together by four parts of the
\* program with the firmware running between: a whole kernel file is in memory
\* as its headers want it, at its entry point; the memory map it is given is the
\* memory as it is, and has none of the kernel as free; the screen it is told of
\* is the one that is set, if any is.  And by its own declaration of the structure
\* it finds in each member what the bootloader put there by the other.
KernelInherits ==
  pc = "kernel" =>
    /\ L!Intact => entry = img.ehdr.entry /\
         \A w \in L!Wanted(img) : mem[w[1]] = w[2] /\ reported[w[1]] = "loader"
    /\ reported = owner /\ ~bootServices
    /\ video_mode_info = IF graphics_output_protocol THEN modes[mode] ELSE NoVideo
    /\ Read(Boot_Info, boot_info, "memory_map") = {memory_map}
    /\ Read(Boot_Info, boot_info, "memory_map_size") = {snap["final"].n}
    /\ Read(Boot_Info, boot_info, "memory_map_descriptor_size") = {DescriptorSize}
    /\ Read(Boot_Info, boot_info, "framebuffer_pointer") = {video_mode_info.framebuffer}
    /\ Read(Boot_Info, boot_info, "horizontal_resolution") = {video_mode_info.width}
    /\ Read(Boot_Info, boot_info, "vertical_resolution") = {video_mode_info.height}
    /\ Read(Boot_Info, boot_info, "pixels_per_scanline") = {video_mode_info.pitch}

\* The bootloader as a whole ends at the kernel, at the key prompt, with its return
\* or in the crash of an overlong segment, whatever the file, the video modes and
\* the firmware are.
SystemTerminates == <>(MainPc \in {"wait_for_input", "returned", "kernel", "crashed"})

=============================================================================
