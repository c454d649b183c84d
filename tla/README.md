# TLA+ models of uefi-elf-bootloader

The repository is a UEFI application (`src/bootloader`) that loads an ELF kernel
from the boot volume, sets a video mode, ends boot services and jumps to the
kernel, and a small demonstration kernel (`src/kernel`). Here are TLA+ models of
both, TLC configurations that check them on small instances, and TLAPS proofs of every
safety property and refinement that those runs find to hold, for all values of the constants.

## The system

### Components

| component | code | state it keeps | operations | where |
|---|---|---|---|---|
| kernel image loader | `loader.c`, `elf.c` | file position, four pool buffers, the loop over program headers, physical memory | `load_kernel_image`, `read_elf_identity`, `validate_elf_identity`, `read_elf_file`, `load_program_segments`, `load_segment` | `Loader`; `KernelLoad` is what it promises |
| memory map and hand-over | `memory_map.c`, end of `efi_main` | map buffer, its size and key, `boot_info` | `get_memory_map`, `debug_print_memory_map`, `ExitBootServices`, jump | `ExitBoot` |
| console and errors | `debug.c`, `serial.c`, `error.c` | `serial_service.protocol`, `error_message_buffer`, the call stack | `debug_print_line`, `print_to_serial_out`, `init_serial_service`, `check_for_fatal_error` | `Console` |
| boot sequence | `main.c`, `fs.c` | which services are up, the status | `efi_main`, `wait_for_input`, `init_file_system_service` | `Boot`; `System` puts it together with `Loader` and `ExitBoot` |
| boot info structure | `bootloader.h`, kernel `boot.h` | its members, declared twice | filled by `efi_main`, read by the kernel | `BootInfo`, `System` |
| graphics service | `graphics.c` (bootloader) | `handle_buffer`, the video mode, `video_mode_info`, the framebuffer | `init_…`, `set_graphics_mode`, `find_video_mode`, `close_…`; `draw_test_screen`, `draw_rect` | `Boot`; `Screen` |
| kernel test screen | `kernel.c`, `graphics.c` (kernel) | loop counters, framebuffer | `draw_test_screen`, `draw_pixel` | `Screen` |
| kernel UART | `uart.c`, `port_io.c` | the 16550's registers and queues | `uart_initialize`, `uart_puts`, `uart_getchar` | `Uart` |
| kernel VGA console | `vga.c` | cursor, colour, text buffer | `vga_initialize`, `vga_set_color`, `vga_putchar`, `vga_puts` | `Vga` |
| header printing, entry code, linker script, makefiles | `elf.c:22-188`, `entry.S`, `kernel.ld` | none | | not modelled |

### How they interact

Everything is called from `efi_main`, on one thread; there are no callbacks. What
runs beside it is the firmware: its timers and drivers allocate and release memory
between any two calls of the program, and each of its services can fail. The
components share

* **physical memory**: the firmware's page allocator serves `load_segment` at fixed
  addresses, and every allocation or release changes the memory map whose key
  `ExitBootServices` wants back;
* **`error_message_buffer`**, one static buffer for the message of every error, nested ones
  included;
* **`serial_service.protocol`**, by which `debug_print_line` chooses its output, and
  through which it and `print_to_serial_out` call each other;
* **`boot_info` and the framebuffer**, which go on to the kernel, a program with a
  declaration of the structure of its own;
* **the serial device**, which the firmware leaves to `uart_initialize` as it is.

### What is hard here

Short reads that count as success; page arithmetic; segments that share a page; the
firmware's allocations between the steps; the map that grows by its own buffer; a
key that goes stale; in-out sizes that keep old values; the mutual recursion of
printing and its shared buffer; which failures are survived and what the survivors
then do; order-dependent device registers; 16-bit counters against 32-bit sizes.
`PROJECT.json` lists each under "hazards" at its line, with the properties that
are aimed at it.

## The modules

In all of them `pc` names the firmware call or decision the program is about to
make. A firmware call is one step, with an alternative for each outcome the code
tells apart; straight-line code without calls belongs to the step before or after
it. A failing call is the action `check_for_fatal_error`, which stands for the
message, the prompt and the return; `fault` records that a failure was not the
program's own doing. Formatting and DEBUG messages are left out. Operators whose
comment begins with "Mutant:" are variants of the definition below them, used only
to see that the properties notice the change.

* **Loader** – `load_kernel_image` and all it calls. The byte at offset *o* of the
  file is the number *o*; a zero-filled byte is `Zero`, an unwritten one `Junk`.
  Memory is `mem` (contents) and `owner` (free, firmware, loader).
  `FirmwareTakes` and `FirmwareGives` interleave with every step. `Read` stops at
  the end of the file and succeeds; a header it did not fill may be *any* header.
  `CopyMem` and `SetMem` return nothing, so `NoResult` lets their "status" be
  either. A header may have more data in the file than memory (`Overlong`), which
  nothing in the code compares: `CopyMem` then writes behind the pages, and
  `load_segment_SetMem_wraps` fills memory from there up until the machine stops
  (`Crash`). The 32 and 64-bit branches are the same code with other sizes and are
  one definition with `class` as index of `EhdrSize` and `PhdrSize`.
* **LoaderInv** – the loader's inductive invariant; **LoaderProofs** – the proofs.
* **KernelLoad** – the abstract specification of `load_kernel_image`: it claims free
  memory, writes to what it has claimed, and ends with the kernel where its file
  wants it or with an error; memory it holds is never given back, and after its end
  nothing touches it. From the moment it meets an overlong segment its writes can be
  anywhere (`Spills`), but it can no longer succeed. `Loader` implements it under a mapping that
  reads the outcome
  off `pc` and `status` and what is wanted off the file (a file that is not whole
  demands nothing).
* **ExitBoot** – `get_memory_map`, the loop of `debug_print_memory_map`, and the end
  of `efi_main`, sizes counted in descriptors. The variable `DEBUG`, which no step
  changes, tells the builds apart. The descriptors' size is the constant `DescriptorSize`, which
  `GetMemoryMap` reports and the kernel is told of. **ExitBootProofs** – its invariant and proofs.
* **Console** – the frames of `debug_print_line` as a stack. A line is its kind
  and the status it reports; what is shown also has the status its text really
  tells, taken from `error_message_buffer` when the line is formatted. Any `Write` may
  fail, that of a report too; the machine's stack has room for `MaxDepth` calls of
  `debug_print_line`, and a failure at that depth is the end of the program
  (`StackOverflows`).
* **Boot** – `efi_main` of a release build with `init_graphics_output_service`,
  `find_video_mode`, `set_graphics_mode` and the other services. The kernel load
  and the memory map are steps here with the outcomes `Loader` and `ExitBoot`
  justify (`crashed` is that of a file with an overlong segment): `Loader!GoodImageLoads` says
  that a good kernel fails only by the
  firmware's doing, `ExitBoot!BlameFirmware` says it of the hand-over.
* **BootInfo** – both declarations of the boot info structure with the offsets their
  members have, writing it by the one and reading it by the other.
* **System** – the whole release bootloader. It extends `Boot` and uses its actions
  for `efi_main`; `Loader` and `ExitBoot` are instances with program counters of their
  own, which run where Boot has its single steps. They share the physical memory:
  `ExitBoot`'s number of descriptors is the number of runs of one owner in `Loader`'s
  `owner` (`Runs`), so that the kernel's pages, the map buffer's page and the drivers'
  pages make the map what it is, and an event of the firmware is one step of both.
  `System` implements `Boot` (`ImplementsBoot`), with Boot's `pc`, `status` and history
  read off the parts: a model of the whole and of its summary, checked against each other.
* **Vga** – `vga.c` for a caller that initialises the console and then prints. No
  code of the repository calls it.
* **Screen** – both programs' drawing loops on one framebuffer, pixel by pixel.
* **Uart** – the driver of `uart.c`, port access by port access, and the device, which
  the firmware may have left with its divisor latch open (`latchOpen`).
* **BootProofs, ConsoleProofs, SystemProofs, UartProofs, VgaProofs, ScreenProofs** – each
  extends the module it is named after with its inductive invariant and the proofs.
* **MCLoader, MCConsole, MCBoot, MCScreen, MCSystem, MCUart, MCVga** – constants for TLC.

## What the runs check

| run | question | result |
|---|---|---|
| `loader` | 23 files, whole, cut, invalid and with overlong segments: is a load that succeeds right (`KernelInPlace`), does one that can succeed do so (`GoodImageLoads`), are buffers used only while allocated (`PoolDiscipline`), are only granted pages written as long as no overlong segment is in hand (`OnlyOwnPages`), does a bad identity stop everything (`UntouchedUntilValid`), does it end (`Terminates`), does it do what KernelLoad says (`ImplementsKernelLoad`) | holds |
| `loader_short_read` | is a segment whose data is cut short reported (`ShortReadReported`) | **violated** |
| `exit_boot` | in both builds: buffer and size agree (`MapFitsBuffer`), the listing stays in the map (`PrintsFilledMap`), the kernel gets the current map, its size and that of its descriptors (`HandoffMapCurrent`), `Terminates`; does the release build fail only by the firmware's doing (`BlameFirmware`) | holds |
| `exit_boot_size_query` | does the size query always find a size too small (`SizeQueryFindsSize`) | **violated** |
| `console_serial` | lines keep their status (`LinesTellTheirStatus`), none is lost in silence, the recursion is bounded by the failures, the prompt comes, unless `MaxDepth` nested `Write`s of one line fail and use up the stack (`ErrorsPrompt`) | holds |
| `console_fall_back` | does a failing serial port fall back to the console (`FallsBackToConsole`) | **violated** |
| `boot` | the screen handed over is the one that is set (`ScreenHandedOver`), only the target mode is ever set (`OnlyTargetMode`), the boot stops for a reason (`StopsForAReason`), `Terminates` | holds |
| `boot_headless` | does a machine without graphics boot (`HeadlessBoots`) | **violated** |
| `uart` | the message reaches the wire whole, in order and nothing else does (`WireTellsMessage`, `MessageSent`), as configured, and with interrupts off unless the firmware left the divisor latch open (`SentAsConfigured`), reading in order | holds |
| `system` | the whole bootloader on shared memory: does it do what Boot says (`ImplementsBoot`), does the kernel start with its segments, the map and the screen as they are, in a structure it reads as it was written (`KernelInherits`), does it all end (`SystemTerminates`) | holds |
| `vga` | cursor on the screen, the screen shows the latest characters in their colours, strings whole and in order (`ScreenShowsLatest`) | holds |
| `screen` | all pixels that should be drawn and no others, each tile once, the loops end | holds |

Each violated property is the statement of a comment or header of the repository;
"findings" in `PROJECT.json` quotes it and says what the code does instead.
Deadlock is checked for `Vga` only, whose caller can always go on: each of the other
programs stops, at a prompt, a return or in the kernel's idle loop.

Other places where the code and its comments differ, seen while modelling and
visible in the modules, without a run of their own:

* `main.c:246-248` wants the map key current at `ExitBootServices`. The firmware's
  own timers can make it stale (`FirmwareEvent`), and `ExitBootServices_refused` is
  fatal where fetching the map again would do. `BlameFirmware` therefore has to
  excuse it with `~quiet`.
* `find_video_mode` prints nothing when no mode matches (`NoModeFound`), although
  `main.c:166` and `graphics.c:206` say that an error has already been printed: with a
  console but without the target mode the boot ends (`Returns("UNSUPPORTED")`) without a word.
* `loader.h:18-20` has `load_segment` allocate "the pages necessary to load the segment".
  They are counted by the segment's size in memory (`loader.c:40-41`) and the data copied by
  its size in the file (`loader.c:100`), and no line compares the two. With more data than
  memory the copy goes on behind the pages, and the count of zeroes (`loader.c:120`) wraps.
  `OnlyOwnPages` has to except the segment in hand (`Spilling`), and KernelLoad has `Spills`.
* `uart.c:25` disables the device's interrupts by a write to port 1 before the divisor latch
  is set to anything. If the firmware has left the latch open, that write goes to the divisor,
  which is set again later, and the interrupt register stays as it was: the reason for
  `latchOpen` in `SentAsConfigured`.
* `bootloader.h:22-26` asks for a prompt before a reboot on a fatal error. The errors of
  `set_graphics_mode`, of `init_file_system_service` and some of
  `load_kernel_image` return at once (`Returns` in Boot).
* `debug.c:34-35` speaks of an *initialised* serial service. The pointer stays set
  when `SetAttributes` fails (`configure_serial_protocol` in Console), and lines go
  to the port all the same, the report of that failure first.
* `uart_is_receive_buffer_empty` (kernel `uart.h:23`) is true when there is a
  character; `uart_getchar` negates it and so works.

### Bounds

* Loader: pages of two bytes and ten addresses, enough for a segment that ends
  inside a page, one with `.bss`, one without file data and a neighbour for each;
  tables of up to four entries; an overlong segment that leaves its page and one that does
  not, with a segment before or after it. Nothing in the loader distinguishes larger numbers,
  and the safety properties are proved for all of them.
* ExitBoot: `MaxDesc` = 6 descriptors, one of them merged away by the final
  `GetMemoryMap`, `AllocGrowth` = 2 per allocation (the number that
  `memory_map.c:61-63` provides for), `MaxEvents` = 3 changes by the firmware: one
  for each round and one before the exit. `exit_boot_size_query` needs none. `UINT16` = 5,
  so that maps below, at and above the counter's range occur.
* Console: three statuses and a stack of four calls (`MaxDepth`), so that reports nest,
  an outer line's status differs from the inner ones', and the stack's end is reached.
  No bound is on the number of failures.
* Boot: up to three modes out of five, two of them the target's with different lines,
  the others apart from it in one field or in all.
* System: five pages of two bytes and six files, of which two load, one is cut short
  inside its data, one overlaps itself, one has the wrong byte order and one an overlong
  segment; no or one video
  mode; two events of the firmware. Five pages with a kernel on one or two of them are
  enough for the map's buffer to split a free run, to join the kernel's and to fill a
  gap. `MaxDesc` = 11 is more than there are addresses, so that it bounds no map
  (`PartsAssumption`). `UINT16` plays no part: a release build lists nothing.
* Vga: three columns and two rows, eight characters: the cursor passes the end of the
  screen by a row's part, and a string runs over it.
* Uart: four characters against queues of two places, three arriving characters.
* Screen: 16 values for a 16-bit counter, screens up to 15 pixels.

### Fairness

The program is a thread that nothing preempts for good, so that its own actions
are weakly fair (`WF_vars` of the program's part of `Next`). It is not assumed that
calls succeed: a failure is always an alternative, never forced and never excluded (in
`Console` every `Write` may fail, and `ErrorsPrompt` says what becomes of it). Waiting for a key
(`wait_for_input`) has no fairness, and neither have the firmware's drivers,
arriving characters or failures. `Uart` also assumes that the device sends what is queued:
`uart_putchar`
polls for it without a limit. Without that a UART that hangs stops the kernel. `System`
takes the program's steps together (`WF_sysVars(Program /\ ...)`): it is one thread,
one of whose steps is enabled at a time, and neither a failure of the firmware nor the
key is forced. `Vga` claims no liveness: its only loop is bounded by the string.

## What is proved

Eight modules ending in `Proofs` are checked by TLAPS for all values of the
constants that the `ASSUME`s allow: every type invariant, safety property, action
property and refinement that a passing run checks. In each, `IInv` (in System
`SystemInv`) is the inductive invariant and `Invariance` the theorem that it holds;
TLC found it to hold on the run's instance before it was proved. Each lemma about a
conjunct has one step per action. The wanted properties follow, but seldom are
inductive themselves; what had to be added says why they hold.

* **Loader** (`LoaderInv`, `LoaderProofs`). `KernelInPlace` speaks of the end only, so
  the invariant has to
  say that the file position is where the next `Read` needs it (`Positioned`),
  that each buffer holds the file's bytes when the file has them (`BuffersRead`),
  that every segment the loop has passed is in memory on pages the loader holds
  (`EarlierLoaded`), and that the current segment's pages are disjoint from all
  earlier ones (`SegmentUnderWay`): that is why loading a segment cannot damage
  another. An overlong segment can (`Spilt` in LoaderInv): from its copy on the invariant
  claims nothing of what is in memory, and it need not, for `load_segment_SetMem_wraps` is
  then the only way on and success is out of reach. The page arithmetic is `PagesSuffice` (the
  pages granted cover the
  segment) and `PartsOnClaim` (file part and zero part lie on them). From `IInv`
  follow `TypeCorrect`, `SegmentsInPlace`, `PoolSafe`, `RefusedUntouched` and the
  action property `WritesOwnPages`.
* **A kernel that can be loaded is loaded** (`GoodImagesLoad`). That a load does not
  fail without the firmware's doing needs the converse of what the loader holds: nothing
  but the pages of the segments it has passed (`OwnsPassed`), so that the next one's pages
  are not its own, and that a table without a loadable segment so far has left `nLoaded`
  at 0 (`NonePassed`). `GoodInv` adds these two to `IInv`. `NotSpilling` says that a
  loadable file has no overlong segment in hand at any time.
* **The loader implements KernelLoad** (`Implements`). `RefinementStep` maps each step:
  allocations to `Claims`, copying and filling to `Writes` (`OwnPagesStep` gives that they
  stay on claimed pages, but for an overlong segment, whose steps are `MeetsOverlong` and
  `Spills`), the last free to `Loads`, where `InPlaceOfIInv` provides the
  kernel in place, failures to `Fails`, drivers to `Firmware`, and the rest to
  stuttering (`QuietStep`).
* **ExitBoot.** The invariant relates size, capacity, key and snapshot at each
  step; `MapFits`, `HandoffCurrent` and `FirmwareToBlame` follow. `PrintsFilled` needs
  besides that a counter of sixteen bits is at most what it was cut from
  (`CutToSixteenBits`) and that a round's snapshot fits its buffer. `FirmwareToBlame` needs
  `AllocGrowth <= 2`: with it the two spare descriptors cover the buffer's own
  allocation, whatever the map's size.
* **Boot.** `ScreenAsSet`, `ReasonsToStop` and `TargetOnly`, for any list of
  modes. `ScreenSoFar` says of each stage what the protocol, the search and `boot_info` have
  come to: during the search, every mode before `i` has been looked at and was not the
  target; after it, `graphics_mode_num` is the target's. Without it a failed search would not
  show that the target is missing, nor a successful one which mode is set. `BufferHeld` says
  when `handle_buffer` is allocated.
* **System.** The invariant of the whole is made of those of its parts (`LoaderProofs`,
  `ExitBootProofs` and `BootProofs` are used as instances), and of what ties them
  together: at each stage of `efi_main` who is running and how far the others are
  (`InTurn`); the map's buffer takes no page of the kernel's (`BufferBesideKernel`); the
  fetched map is the memory's map as long as its key is current (`MapOfMemory`). From these
  follows `Inherits`. That the kernel finds in `boot_info` what the bootloader wrote
  (`ReadBack`) is the layout of both declarations, member by member, with the recursive
  function of the offsets unrolled (`Offsets`).
* **The whole implements Boot** (`Implements` in SystemProofs). Each step of efi_main is
  Boot's own (`MainMaps`), the loader's and the hand-over's steps but the last are stuttering
  (`LoadMaps`, `HandOverMaps`), and their last is the single step that Boot has
  for them (`LoadReturnsMaps`, `EndMaps`). A crash in an overlong segment is Boot's crash on
  a bad kernel (`CrashOfBadKernel`). Boot lets that step fail only when the file is bad
  or the firmware failed: `Blames` says that the parts keep to it, from `GoodInv` and
  `BlameFirmware`. `WholeStopsForAReason` uses the refinement: a theorem about Boot holds of
  the whole, with Boot's variables read off the parts.
* **Console.** `TellsTheStatus`, `NothingLost` and `Shallow`, however deep the reports nest,
  the stack's end included.
  All frames share one buffer; it is safe because every frame but the innermost has failed
  and only waits to report its own result, formatted anew (`OthersWait`), and the innermost
  still has its own status in the buffer or the text made of it (`TopTells`). `OutOrHeld` finds
  each issued line on an output or in a frame that has yet
  to report; `DepthBounded` counts frames against failures.
* **Uart.** `MessageInOrder`, `SentRight` and `ReadInOrder`, for messages and queues of any
  length. `Initializing` says which register holds what after each of the port writes,
  which depends on the divisor latch and on how the firmware left it; `Configured` what they are
  afterwards; `NotRead` and
  `Kept` account for the receive queue.
* **Vga.** `ShowsLatest`, for screens of any size. The text buffer is a ring of cells: the
  cursor is at the number of shown characters modulo their number (`CursorNext`), and what
  is yet to be shown is the rest of `text` (`Backlog`). `EntryParts` takes an entry apart into
  its character, which is signed, and its colour.
* **Screen.** `DrawsInside`, `TilesDoNotOverlap` and `TextureAtLast`, for screens of any
  size and any padding. `InLoops` bounds the counters inside each loop, `BlackAhead` says
  that the pixels the tiles have not come to are as they were, and `TextureBehind` that the
  pixels the kernel has passed are drawn. The arithmetic of rows and columns is in lemmas:
  two pixels of one offset are one pixel as long as no line is wider than the pitch.

### Assumptions

* Loader: the image's fields are naturals; pages have at least one byte. What an overlong
  segment overwrites is followed in `mem` only: the loader's own variables and code, which
  the copy could reach, stay as they are until the crash.
* ExitBoot: an allocation changes the map by at most two descriptors
  (`memory_map.c:61-63`).
* Boot: a zeroed `video_mode_info` describes no mode.
* System: those of Loader and ExitBoot; the memory is finite, and the bound on the map has
  room for every map of it.
* Console: `NOT_FOUND` and `DEVICE_ERROR`, which the code itself tells apart or returns, are
  among the statuses.
* Uart: its queues have at least one place.
* Vga: strings are of signed chars and contain no NUL; colours are eight bits.
* Screen: a line is at most as long as the pitch; resolutions fit the 16-bit counters;
  colours are 24 bits.

### Only model-checked

* Liveness: `Terminates` of four modules, `ErrorsPrompt`, `MessageSent` and
  `SystemTerminates`. TLAPS cannot reason about fairness and ENABLED here.
* The violated properties: TLC's counterexample is the evidence.

Machine-width arithmetic of addresses is not modelled: addresses and
sizes are naturals without a limit.

## Not modelled

* `print_elf_file_info` (`elf.c:22-188`) prints in DEBUG builds and changes nothing.
* `print_to_serial_out` checks its arguments and `debug_print_line` the length of a
  line. The one is only called by the other, with a set protocol and a line that is cut
  to the buffer, and no line comes near its size.
* The kernel's `draw_rect` has no caller; it is the bootloader's, which is in `Screen`.
* `Memory_Map_Descriptor` is declared by the kernel and never read.
* Virtual addresses: the kernel is entered at `e_entry`, and `kernel.ld` links it where
  its segments are loaded.
* What the program would do with its own variables or code overwritten by an overlong
  segment, see the assumptions above.
* What a 32-bit kernel would do in 64-bit mode, and the firmware's partial shutdown
  after a failed `ExitBootServices`, are outside this code.
* The stack of `efi_main`, where `boot_info` lives when the kernel reads it.
* `entry.S` sets a stack and calls; the linker script, makefiles and `run` have no
  behaviour at run time.

## Plan

The order was: the loader first, because everything depends on it; then the
hand-over; how errors reach the user; the sequence that ties the parts together; the
kernel; then the abstract specification of the load and its refinement, the whole
as a composition, and the text console. The proofs followed in the same order. What
is left:

1. Boot's other properties for the whole (`ScreenHandedOver`, `OnlyTargetMode`),
   by the refinement as `WholeStopsForAReason` does it.
2. The loader's refinement carried to the whole: `System` implements `KernelLoad` as well,
   so that nothing after the load touches the kernel.
3. Shorter proofs: the cases of actions that leave a conjunct alone, in lemmas.
