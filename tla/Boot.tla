-------------------------------- MODULE Boot --------------------------------
(* efi_main (main.c) of a release build, from the firmware's call to the       *)
(* kernel: the services it sets up (serial.c, graphics.c, fs.c), which of      *)
(* their failures it survives, the search for the target video mode, and the   *)
(* order of the rest.  load_kernel_image and the memory map are steps here;    *)
(* Loader and ExitBoot have their insides.                                     *)
EXTENDS Integers

CONSTANTS
  Modes,    \* what a video mode can be: its size, format, line length and frame buffer
  Target,   \* the mode efi_main wants: its width, height and pixel format
  NoVideo,  \* a video_mode_info of zeroes
  MaxModes  \* bound: the most modes a protocol has

ASSUME ModesAssumption ==
  /\ NoVideo \notin Modes
  /\ MaxModes \in Nat \ {0}

None == "none"
NULL == "NULL"

VARIABLES
  pc, status,
  device,       \* whether any handle has the graphics output protocol
  MaxMode,      \* the console's protocol: its number of modes, 0 without a protocol,
  modes,        \* and what they are
  kernelGood,   \* whether the kernel file is one that can be loaded
  mode,         \* the current mode of the console's protocol
  handle_buffer,             \* graphics_service.handle_buffer
  graphics_output_protocol,  \* whether it is set
  i, graphics_mode_num,      \* of find_video_mode and set_graphics_mode
  video_mode_info,           \* in boot_info: the mode it describes
  failedAt,     \* history: the call whose failure ends efi_main
  fault         \* history: the firmware failed a call it could have served

machine  == <<device, MaxMode, modes, kernelGood>>
gfxVars  == <<mode, handle_buffer, graphics_output_protocol, i, graphics_mode_num, video_mode_info>>
histVars == <<failedAt, fault>>
vars == <<pc, status, machine, gfxVars, histVars>>

\* The graphics_service and the locals start as zeroes.
Init ==
  /\ pc = "SetWatchdogTimer" /\ status = "SUCCESS"
  /\ MaxMode \in 0 .. MaxModes /\ modes \in [0 .. MaxMode - 1 -> Modes]
  /\ device \in BOOLEAN /\ (MaxMode > 0 => device)
  /\ kernelGood \in BOOLEAN
  /\ mode = 0 /\ handle_buffer = NULL /\ graphics_output_protocol = FALSE
  /\ i = 0 /\ graphics_mode_num = 0 /\ video_mode_info = NoVideo
  /\ failedAt = None /\ fault = FALSE

-----------------------------------------------------------------------------

Goto(from, to) == pc = from /\ pc' = to

Calls(from, to) == Goto(from, to) /\ UNCHANGED <<status, machine, gfxVars, histVars>>

\* efi_main ends with status s: it asks for a key first, or returns at once.
FatalError(s) == pc' = "wait_for_input" /\ status' = s /\ failedAt' = pc
Returns(s)    == pc' = "returned" /\ status' = s /\ failedAt' = pc

SetWatchdogTimer  == Calls("SetWatchdogTimer", "Reset")
ResetConsoleInput == Calls("Reset", "init_serial_service")

\* No serial device is as good as one.
init_serial_service == Calls("init_serial_service", "init_graphics_output_service")

init_graphics_output_service ==
  /\ Goto("init_graphics_output_service", "OpenProtocol")
  /\ handle_buffer' = IF device THEN "allocated" ELSE handle_buffer
  /\ UNCHANGED <<status, machine, mode, graphics_output_protocol, i, graphics_mode_num,
                 video_mode_info, histVars>>

OpenProtocol ==
  /\ Goto("OpenProtocol", "QueryMode") /\ MaxMode > 0
  /\ graphics_output_protocol' = TRUE /\ i' = 0
  /\ UNCHANGED <<status, machine, mode, handle_buffer, graphics_mode_num, video_mode_info, histVars>>

\* With an error here the boot goes on without graphics.
OpenProtocol_fails ==
  /\ Goto("OpenProtocol", "init_file_system_service")
  /\ fault' = (fault \/ MaxMode > 0)
  /\ UNCHANGED <<status, machine, gfxVars, failedAt>>

-----------------------------------------------------------------------------
(* find_video_mode and set_graphics_mode                                     *)

\* Mutant: the pixel format and the height are not compared.
WantedWidthOnly(m) == m.width = Target.width

Wanted(m) ==
  m.format = Target.format /\ m.width = Target.width /\ m.height = Target.height

MatchMode ==
  /\ Goto("QueryMode", "SetMode")
  /\ i < MaxMode /\ Wanted(modes[i])
  /\ graphics_mode_num' = i
  /\ UNCHANGED <<status, machine, mode, handle_buffer, graphics_output_protocol, i,
                 video_mode_info, histVars>>

\* Mutant: the first mode that does not match ends the search.
PassModeGivesUp ==
  /\ pc = "QueryMode"
  /\ i < MaxMode /\ ~Wanted(modes[i])
  /\ Returns("UNSUPPORTED")
  /\ UNCHANGED <<machine, gfxVars, fault>>

\* Mutant: the loop does not go on to the next mode.
PassModeStays ==
  /\ Goto("QueryMode", "QueryMode")
  /\ i < MaxMode /\ ~Wanted(modes[i])
  /\ UNCHANGED <<status, machine, gfxVars, histVars>>

\* Mutant: the loop's body counts as well as its head.
PassModeTwice ==
  /\ Goto("QueryMode", "QueryMode")
  /\ i < MaxMode /\ ~Wanted(modes[i])
  /\ i' = i + 2
  /\ UNCHANGED <<status, machine, mode, handle_buffer, graphics_output_protocol,
                 graphics_mode_num, video_mode_info, histVars>>

PassMode ==
  /\ Goto("QueryMode", "QueryMode")
  /\ i < MaxMode /\ ~Wanted(modes[i])
  /\ i' = i + 1
  /\ UNCHANGED <<status, machine, mode, handle_buffer, graphics_output_protocol,
                 graphics_mode_num, video_mode_info, histVars>>

\* find_video_mode prints nothing here, and its callers take the error for printed.
NoModeFound ==
  /\ pc = "QueryMode" /\ i >= MaxMode
  /\ Returns("UNSUPPORTED")
  /\ UNCHANGED <<machine, gfxVars, fault>>

SetMode ==
  /\ Goto("SetMode", "SetVideoInfo")
  /\ mode' = graphics_mode_num
  /\ UNCHANGED <<status, machine, handle_buffer, graphics_output_protocol, i,
                 graphics_mode_num, video_mode_info, histVars>>

\* Mutant: the info is taken of the first mode.
SetVideoInfoOfFirst ==
  /\ Goto("SetVideoInfo", "init_file_system_service")
  /\ video_mode_info' = modes[0]
  /\ UNCHANGED <<status, machine, mode, handle_buffer, graphics_output_protocol, i,
                 graphics_mode_num, histVars>>

SetVideoInfo ==
  /\ Goto("SetVideoInfo", "init_file_system_service")
  /\ video_mode_info' = modes[mode]
  /\ UNCHANGED <<status, machine, mode, handle_buffer, graphics_output_protocol, i,
                 graphics_mode_num, histVars>>

-----------------------------------------------------------------------------
(* The kernel file, and the end of boot services.                            *)

init_file_system_service == Calls("init_file_system_service", "OpenVolume")
OpenVolume               == Calls("OpenVolume", "load_kernel_image")

\* A kernel file with a flaw may load too: not every flaw is looked for.
load_kernel_image == Calls("load_kernel_image", "close_graphic_output_service")

\* Some of load_kernel_image's errors ask for a key, the others do not; and on a
\* file whose headers lie about their sizes it does not come back at all.
load_kernel_image_fails ==
  /\ pc = "load_kernel_image"
  /\ \/ FatalError("LOAD_ERROR")
     \/ Returns("LOAD_ERROR")
     \/ ~kernelGood /\ pc' = "crashed" /\ UNCHANGED <<status, failedAt>>
  /\ fault' \in {fault, TRUE} /\ (kernelGood => fault')
  /\ UNCHANGED <<machine, gfxVars>>

close_graphic_output_service ==
  /\ Goto("close_graphic_output_service", "get_memory_map")
  /\ handle_buffer = "allocated"
  /\ handle_buffer' = "freed"
  /\ UNCHANGED <<status, machine, mode, graphics_output_protocol, i, graphics_mode_num,
                 video_mode_info, histVars>>

\* FreePool refuses the NULL that is left when there was no graphics device.
close_graphic_output_service_refused ==
  /\ pc = "close_graphic_output_service" /\ handle_buffer # "allocated"
  /\ FatalError("INVALID_PARAMETER")
  /\ UNCHANGED <<machine, gfxVars, fault>>

get_memory_map   == Calls("get_memory_map", "ExitBootServices")
ExitBootServices == Calls("ExitBootServices", "kernel")

-----------------------------------------------------------------------------
(* Failures                                                                  *)

\* A failure that asks for a key before efi_main returns.
check_for_fatal_error ==
  /\ pc \in {"SetWatchdogTimer", "Reset", "init_serial_service", "init_graphics_output_service",
             "OpenVolume", "close_graphic_output_service", "get_memory_map", "ExitBootServices"}
  /\ FatalError("DEVICE_ERROR")
  /\ fault' = TRUE
  /\ UNCHANGED <<machine, gfxVars>>

\* A failure with which efi_main returns at once.
ReturnedError ==
  /\ pc \in {"QueryMode", "SetMode", "init_file_system_service"}
  /\ pc = "QueryMode" => i < MaxMode
  /\ Returns("DEVICE_ERROR")
  /\ fault' = TRUE
  /\ UNCHANGED <<machine, gfxVars>>

wait_for_input ==
  /\ Goto("wait_for_input", "returned")
  /\ UNCHANGED <<status, machine, gfxVars, histVars>>

-----------------------------------------------------------------------------

set_graphics_mode == MatchMode \/ PassMode \/ NoModeFound \/ SetMode \/ SetVideoInfo

SetUp ==
  \/ SetWatchdogTimer \/ ResetConsoleInput
  \/ init_serial_service \/ init_graphics_output_service
  \/ OpenProtocol \/ OpenProtocol_fails
  \/ set_graphics_mode
  \/ init_file_system_service \/ OpenVolume

CloseGraphics == close_graphic_output_service \/ close_graphic_output_service_refused

efi_main ==
  \/ SetUp
  \/ load_kernel_image \/ load_kernel_image_fails
  \/ CloseGraphics
  \/ get_memory_map \/ ExitBootServices

Next == efi_main \/ check_for_fatal_error \/ ReturnedError \/ wait_for_input

\* The program runs on and firmware calls return; nobody need press a key.
Spec == Init /\ [][Next]_vars
FairSpec == Spec /\ WF_vars(efi_main)

-----------------------------------------------------------------------------
(* What efi_main promises.                                                   *)

Done == pc \in {"wait_for_input", "returned", "kernel", "crashed"}

Steps == {"SetWatchdogTimer", "Reset", "init_serial_service", "init_graphics_output_service",
          "OpenProtocol", "QueryMode", "SetMode", "SetVideoInfo", "init_file_system_service",
          "OpenVolume", "load_kernel_image", "close_graphic_output_service", "get_memory_map",
          "ExitBootServices"}

\* The variables have their types; the mode numbers are numbers of modes.
TypeOK ==
  /\ pc \in Steps \cup {"wait_for_input", "returned", "kernel", "crashed"}
  /\ status \in {"SUCCESS", "UNSUPPORTED", "LOAD_ERROR", "INVALID_PARAMETER", "DEVICE_ERROR"}
  /\ device \in BOOLEAN /\ kernelGood \in BOOLEAN
  /\ MaxMode \in 0 .. MaxModes /\ modes \in [0 .. MaxMode - 1 -> Modes]
  /\ i \in 0 .. MaxMode
  /\ MaxMode > 0 => mode \in 0 .. MaxMode - 1 /\ graphics_mode_num \in 0 .. MaxMode - 1
  /\ handle_buffer \in {NULL, "allocated", "freed"}
  /\ graphics_output_protocol \in BOOLEAN
  /\ video_mode_info \in Modes \cup {NoVideo}
  /\ failedAt \in Steps \cup {None}
  /\ fault \in BOOLEAN

IsTarget(m) == \A field \in {"width", "height", "format"} : m[field] = Target[field]

\* The kernel is told of the screen as it is: the mode that is set is the target
\* mode and the boot info describes it, or no mode was set and it says so.
ScreenHandedOver ==
  pc = "kernel" =>
    IF graphics_output_protocol
    THEN video_mode_info = modes[mode] /\ IsTarget(video_mode_info)
    ELSE video_mode_info = NoVideo

\* A mode other than the target mode is never set, not for a moment.
OnlyTargetMode == [][mode' # mode => IsTarget(modes[mode'])]_vars

\* A machine on which the firmware fails no call, whose console has no graphics
\* or has the target mode, boots a good kernel, provided it has some graphics
\* device (HeadlessBoots is about those that have none).
StopsForAReason ==
  Done /\ pc # "kernel" /\ ~fault =>
    \/ MaxMode > 0 /\ \A n \in 0 .. MaxMode - 1 : ~IsTarget(modes[n])
    \/ ~kernelGood
    \/ ~device

\* efi_main reaches the kernel, the key prompt, its return or the end that a lying
\* kernel file makes of it: the search through the modes ends.
Terminates == <>Done

\* main.c:128-133 goes on when no graphics device is found.  It goes on to free
\* the handle buffer that was never allocated (main.c:219).
HeadlessBoots == Done /\ ~device /\ ~fault /\ kernelGood => pc = "kernel"

=============================================================================
