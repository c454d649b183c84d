----------------------------- MODULE BootProofs -----------------------------
(* Proofs of the safety properties of Boot, for any video modes, any number of *)
(* them and any target mode.                                                   *)
EXTENDS Boot, TLAPS

Early   == {"SetWatchdogTimer", "Reset", "init_serial_service", "init_graphics_output_service",
            "OpenProtocol"}
Search  == {"QueryMode", "SetMode", "SetVideoInfo"}
Late    == {"init_file_system_service", "OpenVolume", "load_kernel_image",
            "close_graphic_output_service", "get_memory_map", "ExitBootServices", "kernel"}

\* The search has passed no target mode, has found one, or has set one; before it
\* there is no screen, and after it the boot info has the screen that is set.
ScreenSoFar ==
  /\ pc \in Early => ~graphics_output_protocol
  /\ pc \in Search => graphics_output_protocol /\ MaxMode > 0
  /\ pc \in Early \cup Search => video_mode_info = NoVideo
  /\ pc = "QueryMode" => \A n \in 0 .. i - 1 : ~IsTarget(modes[n])
  /\ pc = "SetMode" => IsTarget(modes[graphics_mode_num])
  /\ pc = "SetVideoInfo" => IsTarget(modes[mode])
  /\ pc \in Late =>
       IF graphics_output_protocol
       THEN video_mode_info = modes[mode] /\ IsTarget(video_mode_info)
       ELSE video_mode_info = NoVideo

\* A machine with a graphics device has its handle buffer until it is closed.
BufferHeld ==
  pc \in ((Early \ {"SetWatchdogTimer", "Reset", "init_serial_service",
                    "init_graphics_output_service"}) \cup Search \cup Late)
         \ {"get_memory_map", "ExitBootServices", "kernel"}
    => (device => handle_buffer = "allocated")

\* The invariant the proofs carry through every step of efi_main.
IInv == TypeOK /\ ScreenSoFar /\ BufferHeld /\ StopsForAReason

-----------------------------------------------------------------------------

\* find_video_mode compares what makes a mode the target mode.
LEMMA WantedIsTarget == \A m : Wanted(m) <=> IsTarget(m)
BY DEF Wanted, IsTarget

\* The invariant holds of the initial states.
LEMMA InitIInv == Init => IInv
<1> SUFFICES ASSUME Init PROVE IInv
  OBVIOUS
<1>1. TypeOK
  <2>1. /\ pc \in Steps /\ status = "SUCCESS" /\ i = 0 /\ mode = 0 /\ graphics_mode_num = 0
        /\ handle_buffer = NULL /\ video_mode_info = NoVideo /\ failedAt = None
    BY DEF Init, Steps
  <2>2. /\ device \in BOOLEAN /\ kernelGood \in BOOLEAN /\ graphics_output_protocol \in BOOLEAN
        /\ fault \in BOOLEAN
    BY Zenon DEF Init
  <2>3. /\ MaxMode \in 0 .. MaxModes /\ modes \in [0 .. MaxMode - 1 -> Modes]
    BY DEF Init
  <2> QED
    BY <2>1, <2>2, <2>3, ModesAssumption DEF TypeOK
<1>2. ScreenSoFar /\ BufferHeld
  BY DEF Init, ScreenSoFar, BufferHeld, Early, Search, Late, NULL
<1>3. StopsForAReason
  BY DEF Init, StopsForAReason, Done
<1> QED
  BY <1>1, <1>2, <1>3 DEF IInv

\* Every step keeps the variables in their types.
LEMMA TypeStep ==
  ASSUME IInv, [Next]_vars
  PROVE  TypeOK'
<1> USE ModesAssumption DEF IInv, TypeOK, Steps, None, NULL, Goto, Calls, FatalError, Returns, vars,
            machine, gfxVars, histVars
<1>1. CASE SetWatchdogTimer \/ ResetConsoleInput \/ init_serial_service \/ init_file_system_service
           \/ OpenVolume \/ load_kernel_image \/ get_memory_map \/ ExitBootServices
  <2>1. /\ pc' \in Steps \cup {"kernel"}
        /\ UNCHANGED <<status, machine, gfxVars, histVars>>
    BY <1>1 DEF SetWatchdogTimer, ResetConsoleInput, init_serial_service,
                init_file_system_service, OpenVolume, load_kernel_image, get_memory_map,
                ExitBootServices
  <2> QED
    BY <2>1
<1>2. CASE init_graphics_output_service
  <2>1. handle_buffer' \in {handle_buffer, "allocated"}
    BY <1>2, Zenon DEF init_graphics_output_service
  <2>2. pc' = "OpenProtocol"
        /\ UNCHANGED <<status, machine, mode, graphics_output_protocol, i, graphics_mode_num,
                       video_mode_info, histVars>>
    BY <1>2, Zenon DEF init_graphics_output_service
  <2>3. pc \in Steps
    BY <1>2 DEF init_graphics_output_service
  <2> QED
    BY <2>1, <2>2, <2>3
<1>3. CASE OpenProtocol
  BY <1>3 DEF OpenProtocol
<1>4. CASE OpenProtocol_fails
  BY <1>4 DEF OpenProtocol_fails
<1>5. CASE MatchMode
  BY <1>5 DEF MatchMode
<1>6. CASE PassMode
  BY <1>6 DEF PassMode
<1>7. CASE NoModeFound
  BY <1>7 DEF NoModeFound
<1>8. CASE SetMode
  BY <1>8 DEF SetMode
<1>9. CASE SetVideoInfo
  BY <1>9 DEF SetVideoInfo, ScreenSoFar, Search
<1>10. CASE load_kernel_image_fails
  <2>1. fault' \in BOOLEAN /\ pc' \in {"wait_for_input", "returned", "crashed"}
    BY <1>10, Zenon DEF load_kernel_image_fails
  <2>2. status' \in {status, "LOAD_ERROR"} /\ failedAt' \in {failedAt, pc}
    BY <1>10, Zenon DEF load_kernel_image_fails
  <2>3. UNCHANGED <<machine, gfxVars>> /\ pc \in Steps
    BY <1>10 DEF load_kernel_image_fails
  <2> QED
    BY <2>1, <2>2, <2>3
<1>11. CASE close_graphic_output_service
  BY <1>11 DEF close_graphic_output_service
<1>12. CASE close_graphic_output_service_refused
  BY <1>12 DEF close_graphic_output_service_refused
<1>13. CASE check_for_fatal_error
  BY <1>13 DEF check_for_fatal_error
<1>14. CASE ReturnedError
  BY <1>14 DEF ReturnedError
<1>15. CASE wait_for_input
  BY <1>15 DEF wait_for_input
<1>16. CASE UNCHANGED vars
  BY <1>16
<1> QED
  BY <1>1, <1>2, <1>3, <1>4, <1>5, <1>6, <1>7, <1>8, <1>9, <1>10, <1>11, <1>12, <1>13, <1>14,
     <1>15, <1>16
  DEF Next, efi_main, SetUp, set_graphics_mode, CloseGraphics

\* The screen that is set and the one in the boot info go together.
LEMMA ScreenStep ==
  ASSUME IInv, [Next]_vars
  PROVE  ScreenSoFar'
<1> USE DEF IInv, ScreenSoFar, Early, Search, Late, Goto, Calls, FatalError, Returns, vars,
            machine, gfxVars, histVars
<1>1. CASE SetWatchdogTimer \/ ResetConsoleInput \/ init_serial_service \/ init_file_system_service
           \/ OpenVolume \/ load_kernel_image \/ get_memory_map \/ ExitBootServices
  BY <1>1 DEF SetWatchdogTimer, ResetConsoleInput, init_serial_service, init_file_system_service,
              OpenVolume, load_kernel_image, get_memory_map, ExitBootServices, IsTarget
<1>2. CASE init_graphics_output_service \/ OpenProtocol \/ OpenProtocol_fails
  BY <1>2 DEF init_graphics_output_service, OpenProtocol, OpenProtocol_fails
<1>3. CASE MatchMode
  BY <1>3, WantedIsTarget DEF MatchMode, IsTarget
<1>4. CASE PassMode
  <2>1. i \in Nat
    BY ModesAssumption DEF TypeOK
  <2>2. \A n \in 0 .. i : n \in 0 .. i - 1 \/ n = i
    BY <2>1
  <2>3. \A n \in 0 .. i' - 1 : ~IsTarget(modes[n])
    BY <1>4, <2>1, <2>2, WantedIsTarget DEF PassMode
  <2> QED
    BY <1>4, <2>3 DEF PassMode, IsTarget
<1>5. CASE NoModeFound
  BY <1>5 DEF NoModeFound
<1>6. CASE SetMode
  BY <1>6 DEF SetMode, IsTarget
<1>7. CASE SetVideoInfo
  BY <1>7 DEF SetVideoInfo, IsTarget
<1>8. CASE load_kernel_image_fails
  BY <1>8 DEF load_kernel_image_fails
<1>9. CASE CloseGraphics
  BY <1>9 DEF CloseGraphics, close_graphic_output_service, close_graphic_output_service_refused,
              IsTarget
<1>10. CASE check_for_fatal_error \/ ReturnedError \/ wait_for_input
  BY <1>10 DEF check_for_fatal_error, ReturnedError, wait_for_input
<1>11. CASE UNCHANGED vars
  BY <1>11 DEF IsTarget
<1> QED
  BY <1>1, <1>2, <1>3, <1>4, <1>5, <1>6, <1>7, <1>8, <1>9, <1>10, <1>11
  DEF Next, efi_main, SetUp, set_graphics_mode

\* The handle buffer stays until close_graphic_output_service.
LEMMA BufferStep ==
  ASSUME IInv, [Next]_vars
  PROVE  BufferHeld'
<1> USE DEF IInv, BufferHeld, Early, Search, Late, Goto, Calls,
            FatalError, Returns, vars, machine, gfxVars, histVars
<1>1. CASE SetUp
  BY <1>1 DEF SetUp, SetWatchdogTimer, ResetConsoleInput, init_serial_service,
     init_graphics_output_service, OpenProtocol, OpenProtocol_fails, set_graphics_mode, MatchMode,
     PassMode, NoModeFound, SetMode, SetVideoInfo, init_file_system_service, OpenVolume
<1>2. CASE load_kernel_image \/ CloseGraphics \/ get_memory_map \/ ExitBootServices
  BY <1>2 DEF load_kernel_image, CloseGraphics, close_graphic_output_service,
     close_graphic_output_service_refused, get_memory_map, ExitBootServices
<1>3. CASE load_kernel_image_fails
  BY <1>3, Zenon DEF load_kernel_image_fails
<1>4. CASE check_for_fatal_error \/ ReturnedError \/ wait_for_input
  BY <1>4 DEF check_for_fatal_error, ReturnedError, wait_for_input
<1>5. CASE UNCHANGED vars
  BY <1>5
<1> QED
  BY <1>1, <1>2, <1>3, <1>4, <1>5 DEF Next, efi_main

\* A step ends the boot only for one of the reasons.
LEMMA ReasonStep ==
  ASSUME IInv, [Next]_vars
  PROVE  StopsForAReason'
<1> USE DEF IInv, StopsForAReason, Done, Goto, Calls, FatalError, Returns, vars, machine, gfxVars,
            histVars
<1>1. CASE SetWatchdogTimer \/ ResetConsoleInput \/ init_serial_service \/ init_file_system_service
           \/ OpenVolume \/ load_kernel_image \/ get_memory_map \/ ExitBootServices
  BY <1>1 DEF SetWatchdogTimer, ResetConsoleInput, init_serial_service, init_file_system_service,
              OpenVolume, load_kernel_image, get_memory_map, ExitBootServices
<1>2. CASE init_graphics_output_service \/ OpenProtocol \/ OpenProtocol_fails \/ MatchMode
           \/ PassMode \/ SetMode \/ SetVideoInfo
  BY <1>2 DEF init_graphics_output_service, OpenProtocol, OpenProtocol_fails, MatchMode, PassMode,
              SetMode, SetVideoInfo
<1>3. CASE NoModeFound
  <2>1. i = MaxMode /\ MaxMode > 0
    BY <1>3, ModesAssumption DEF NoModeFound, TypeOK, ScreenSoFar, Search
  <2>2. \A n \in 0 .. MaxMode - 1 : ~IsTarget(modes[n])
    BY <1>3, <2>1 DEF NoModeFound, ScreenSoFar
  <2>3. UNCHANGED <<MaxMode, modes>>
    BY <1>3 DEF NoModeFound
  <2> QED
    BY <2>1, <2>2, <2>3 DEF IsTarget
<1>4. CASE load_kernel_image_fails
  BY <1>4 DEF load_kernel_image_fails, TypeOK
<1>5. CASE CloseGraphics
  BY <1>5 DEF CloseGraphics, close_graphic_output_service, close_graphic_output_service_refused,
              BufferHeld, Late
<1>6. CASE check_for_fatal_error \/ ReturnedError
  BY <1>6 DEF check_for_fatal_error, ReturnedError
<1>7. CASE wait_for_input \/ UNCHANGED vars
  BY <1>7 DEF wait_for_input, IsTarget
<1> QED
  BY <1>1, <1>2, <1>3, <1>4, <1>5, <1>6, <1>7 DEF Next, efi_main, SetUp, set_graphics_mode

-----------------------------------------------------------------------------

\* The invariant holds in every reachable state of efi_main.
THEOREM Invariance == Spec => []IInv
<1>1. IInv /\ [Next]_vars => IInv'
  BY TypeStep, ScreenStep, BufferStep, ReasonStep DEF IInv
<1> QED
  BY <1>1, InitIInv, PTL DEF Spec

\* TypeOK is an invariant of efi_main: the search never leaves the mode numbers.
THEOREM TypeCorrect == Spec => []TypeOK
BY Invariance, PTL DEF IInv

\* The kernel is told of the screen as it is, for any list of modes.
THEOREM ScreenAsSet == Spec => []ScreenHandedOver
<1>1. IInv => ScreenHandedOver
  BY DEF IInv, ScreenSoFar, Late, ScreenHandedOver
<1> QED
  BY <1>1, Invariance, PTL

\* A machine whose firmware fails no call boots, unless it lacks the target mode,
\* a good kernel or any graphics device.
THEOREM ReasonsToStop == Spec => []StopsForAReason
BY Invariance, PTL DEF IInv

\* No mode but the target mode is ever set.
THEOREM TargetOnly == Spec => OnlyTargetMode
<1>1. IInv /\ [Next]_vars => [mode' # mode => IsTarget(modes[mode'])]_vars
  <2> SUFFICES ASSUME IInv, [Next]_vars, mode' # mode PROVE IsTarget(modes[mode'])
    OBVIOUS
  <2> USE DEF Goto, Calls, FatalError, Returns, vars, machine, gfxVars, histVars
  <2>1. SetMode
    BY DEF Next, efi_main, SetUp, SetWatchdogTimer, ResetConsoleInput, init_serial_service,
     init_graphics_output_service, OpenProtocol, OpenProtocol_fails, set_graphics_mode, MatchMode,
     PassMode, NoModeFound, SetVideoInfo, init_file_system_service, OpenVolume, load_kernel_image,
     load_kernel_image_fails, CloseGraphics, close_graphic_output_service,
     close_graphic_output_service_refused, get_memory_map, ExitBootServices, check_for_fatal_error,
     ReturnedError, wait_for_input
  <2> QED
    BY <2>1 DEF SetMode, IInv, ScreenSoFar
<1> QED
  BY <1>1, Invariance, PTL DEF Spec, OnlyTargetMode

=============================================================================
