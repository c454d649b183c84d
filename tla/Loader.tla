------------------------------- MODULE Loader -------------------------------
(***************************************************************************)
(* load_kernel_image (loader.c) with everything it calls: the ELF readers  *)
(* of elf.c, load_program_segments and load_segment.  The program is one   *)
(* thread; pc names the firmware call or the decision it is about to make. *)
(* Every firmware call is one step that succeeds or fails, and between two *)
(* steps the firmware's own drivers may take or give back free pages.      *)
(*                                                                         *)
(* Data is abstracted to what tells a right kernel image from a wrong one: *)
(* the byte at offset o of the file is the number o, a zeroed byte is      *)
(* Zero, and a byte nobody wrote is Junk.                                  *)
(***************************************************************************)
EXTENDS Integers, Sequences

CONSTANTS
  Images,     \* the files that may stand at KERNEL_EXECUTABLE_PATH
  Phdrs,      \* the values an entry of a program header table can have
  Addr,       \* the physical addresses
  PageSize,   \* EFI_PAGE_SIZE
  EI_NIDENT,  \* length of the identity
  EhdrSize,   \* sizeof(Elf32_Ehdr), sizeof(Elf64_Ehdr), by file class
  PhdrSize    \* sizeof(Elf32_Phdr), sizeof(Elf64_Phdr), by file class

PT_LOAD == 1
ELF_FILE_CLASS_32 == 1
ELF_FILE_CLASS_64 == 2

Zero == -1
Junk == -2

ASSUME PhdrsAssumption ==
  Phdrs \subseteq [type: Nat, off: Nat, filesz: Nat, memsz: Nat, paddr: Nat]

ASSUME ImagesAssumption ==
  \A im \in Images :
    /\ im.size \in Nat
    /\ im.ident \in [elf: BOOLEAN, class: Nat, lsb: BOOLEAN]
    /\ im.ehdr \in [entry: Nat, phoff: Nat, phnum: Nat]
    /\ im.ph \in [1 .. im.ehdr.phnum -> Phdrs]

ASSUME MachineAssumption ==
  /\ Addr \subseteq Nat
  /\ PageSize \in Nat \ {0}
  /\ EI_NIDENT \in Nat
  /\ EhdrSize \in [{ELF_FILE_CLASS_32, ELF_FILE_CLASS_64} -> Nat]
  /\ PhdrSize \in [{ELF_FILE_CLASS_32, ELF_FILE_CLASS_64} -> Nat]

VARIABLES
  img,       \* the file the firmware opens
  pc, status,
  fpos,      \* position of kernel_img_file
  fileOpen,
  pool,      \* the pool buffers that are allocated
  ident, ehdr, phdrs, data,   \* contents of the buffers
  class,     \* file_class
  entry,     \* *kernel_entry_point
  p, nLoaded,
  mem,       \* contents of physical memory
  owner,     \* who holds each address: nobody, the firmware or the loader
  fault      \* history: the firmware refused a call it could have served

ioVars   == <<fpos, fileOpen>>
bufVars  == <<pool, ident, ehdr, phdrs, data>>
loopVars == <<class, entry, p, nLoaded>>
memVars  == <<mem, owner>>
vars == <<img, pc, status, ioVars, bufVars, loopVars, memVars, fault>>

-----------------------------------------------------------------------------
(* Files and memory.                                                       *)

Idents == {im.ident : im \in Images}
Ehdrs  == {im.ehdr : im \in Images}

Content(o) == IF o < img.size THEN o ELSE Junk

\* Position after reading n bytes: EFI_FILE.Read stops at the end of the file,
\* reports success, and leaves the rest of the buffer as it was.
Advance(n) == IF fpos + n <= img.size THEN fpos + n ELSE img.size

\* What a header read at the file position holds: the file's header when it is
\* all there, otherwise whatever the buffer's memory makes of it.
HeaderRead(at, n, header, any) ==
  IF fpos = at /\ at + n <= img.size THEN {header} ELSE any

Span(a, n) == a .. (a + n - 1)

\* Mutant: the remainder of the division is dropped.
SizeToPagesTruncated(n) == n \div PageSize

\* Mutant: a page is added whether or not there is a remainder.
SizeToPagesRoundedUp(n) == (n \div PageSize) + 1

\* EFI_SIZE_TO_PAGES
SizeToPages(n) == (n \div PageSize) + (IF n % PageSize = 0 THEN 0 ELSE 1)

\* The addresses AllocatePages hands out for a segment.
Claim(h) == Span(h.paddr, SizeToPages(h.memsz) * PageSize)

Grantable(h) ==
  /\ h.paddr % PageSize = 0
  /\ \A a \in Claim(h) : a \in Addr /\ owner[a] = "free"

seg == phdrs[p]

\* The ELF standard has p_filesz <= p_memsz; the code relies on it and nowhere
\* checks it.
Overlong(h) == h.filesz > h.memsz

-----------------------------------------------------------------------------
(* Firmware calls and returns.                                             *)

NoIdent == [elf |-> FALSE, class |-> 0, lsb |-> FALSE]
NoEhdr  == [entry |-> 0, phoff |-> 0, phnum |-> 0]

Init ==
  /\ img \in Images
  /\ pc = "Open" /\ status = "SUCCESS"
  /\ fpos = 0 /\ fileOpen = FALSE
  /\ pool = {} /\ ident = NoIdent /\ ehdr = NoEhdr /\ phdrs = << >> /\ data = << >>
  /\ class = 0 /\ entry = 0 /\ p = 1 /\ nLoaded = 0
  /\ mem = [a \in Addr |-> Junk] /\ owner = [a \in Addr |-> "free"]
  /\ fault = FALSE

Goto(from, to) == pc = from /\ pc' = to

\* Return to efi_main without asking for a key.
Return(from, s) == Goto(from, "returned") /\ status' = s

\* A status that check_for_fatal_error reports: it prints and waits for a key.
FatalError(s) == pc' = "wait_for_input" /\ status' = s

SetPosition(from, offset, to) ==
  /\ Goto(from, to)
  /\ fpos' = offset
  /\ UNCHANGED <<img, status, fileOpen, bufVars, loopVars, memVars, fault>>

AllocatePool(from, buf, to) ==
  /\ Goto(from, to)
  /\ pool' = pool \cup {buf}
  /\ UNCHANGED <<img, status, ioVars, ident, ehdr, phdrs, data, loopVars, memVars, fault>>

FreePool(from, buf, to) ==
  /\ Goto(from, to)
  /\ pool' = pool \ {buf}
  /\ UNCHANGED <<img, status, ioVars, ident, ehdr, phdrs, data, loopVars, memVars, fault>>

\* The machine stops in an exception.
Crash == pc' = "crashed" /\ UNCHANGED <<status, fault>>

\* The calls whose status check_for_fatal_error sees.
Calls == {"Open", "identity.SetPosition", "identity.AllocatePool", "identity.Read",
          "identity.FreePool", "header.SetPosition", "header.AllocatePool", "header.Read",
          "phdrs.SetPosition", "phdrs.AllocatePool", "phdrs.Read",
          "segment.SetPosition", "segment.AllocatePages", "segment.AllocatePool",
          "segment.Read", "segment.FreePool", "Close", "header.FreePool", "phdrs.FreePool"}

check_for_fatal_error ==
  /\ pc \in Calls
  /\ FatalError("DEVICE_ERROR")
  /\ fault' = TRUE
  /\ UNCHANGED <<img, ioVars, bufVars, loopVars, memVars>>

wait_for_input ==
  /\ Goto("wait_for_input", "returned")
  /\ UNCHANGED <<img, status, ioVars, bufVars, loopVars, memVars, fault>>

\* EFI_FILE.Read refuses to read from beyond the end of the file.
ReadBeyondEnd ==
  /\ pc \in {"identity.Read", "header.Read", "phdrs.Read", "segment.Read"}
  /\ fpos > img.size
  /\ FatalError("DEVICE_ERROR")
  /\ UNCHANGED <<img, ioVars, bufVars, loopVars, memVars, fault>>

-----------------------------------------------------------------------------
(* load_kernel_image, first half: identity and headers.                    *)

OpenKernelImage ==
  /\ Goto("Open", "identity.SetPosition")
  /\ fileOpen' = TRUE /\ fpos' = 0
  /\ UNCHANGED <<img, status, bufVars, loopVars, memVars, fault>>

read_elf_identity_SetPosition  == SetPosition("identity.SetPosition", 0, "identity.AllocatePool")
read_elf_identity_AllocatePool == AllocatePool("identity.AllocatePool", "identity", "identity.Read")

read_elf_identity_Read ==
  /\ Goto("identity.Read", "validate")
  /\ fpos <= img.size
  /\ ident' \in HeaderRead(0, EI_NIDENT, img.ident, Idents)
  /\ fpos' = Advance(EI_NIDENT)
  /\ UNCHANGED <<img, status, fileOpen, pool, ehdr, phdrs, data, loopVars, memVars, fault>>

\* Mutant: the byte order is not looked at.
ValidateIgnoringData(id) ==
  CASE ~id.elf                                                    -> "INVALID_PARAMETER"
    [] id.class \notin {ELF_FILE_CLASS_32, ELF_FILE_CLASS_64}     -> "UNSUPPORTED"
    [] OTHER                                                      -> "SUCCESS"

validate_elf_identity(id) ==
  CASE ~id.elf                                                    -> "INVALID_PARAMETER"
    [] id.elf /\ id.class \notin {ELF_FILE_CLASS_32, ELF_FILE_CLASS_64}
                                                                  -> "UNSUPPORTED"
    [] id.elf /\ id.class \in {ELF_FILE_CLASS_32, ELF_FILE_CLASS_64} /\ ~id.lsb
                                                                  -> "INCOMPATIBLE_VERSION"
    [] OTHER                                                      -> "SUCCESS"

ValidateIdentity ==
  /\ class' = ident.class
  /\ \/ /\ validate_elf_identity(ident) = "SUCCESS"
        /\ Goto("validate", "identity.FreePool")
        /\ UNCHANGED status
     \/ /\ validate_elf_identity(ident) # "SUCCESS"
        /\ Return("validate", validate_elf_identity(ident))
  /\ UNCHANGED <<img, ioVars, bufVars, entry, p, nLoaded, memVars, fault>>

FreeIdentity == FreePool("identity.FreePool", "identity", "header.SetPosition")

read_elf_file_SetPosition  == SetPosition("header.SetPosition", 0, "header.AllocatePool")
read_elf_file_AllocatePool == AllocatePool("header.AllocatePool", "header", "header.Read")

read_elf_file_Read ==
  /\ Goto("header.Read", "phdrs.SetPosition")
  /\ fpos <= img.size
  /\ ehdr' \in HeaderRead(0, EhdrSize[class], img.ehdr, Ehdrs)
  /\ fpos' = Advance(EhdrSize[class])
  /\ UNCHANGED <<img, status, fileOpen, pool, ident, phdrs, data, loopVars, memVars, fault>>

read_elf_file_SetPosition2  == SetPosition("phdrs.SetPosition", ehdr.phoff, "phdrs.AllocatePool")
read_elf_file_AllocatePool2 == AllocatePool("phdrs.AllocatePool", "phdrs", "phdrs.Read")

\* Entry i of the table at the file position is the file's.
EntryInFile(i) ==
  /\ fpos = img.ehdr.phoff /\ class = img.ident.class
  /\ i \in DOMAIN img.ph /\ fpos + i * PhdrSize[class] <= img.size

read_elf_file_Read2 ==
  /\ Goto("phdrs.Read", "load_program_segments")
  /\ fpos <= img.size
  /\ phdrs' \in {t \in [1 .. ehdr.phnum -> Phdrs] :
                   \A i \in 1 .. ehdr.phnum : EntryInFile(i) => t[i] = img.ph[i]}
  /\ fpos' = Advance(ehdr.phnum * PhdrSize[class])
  /\ UNCHANGED <<img, status, fileOpen, pool, ident, ehdr, data, loopVars, memVars, fault>>

-----------------------------------------------------------------------------
(* load_program_segments.                                                  *)

load_program_segments ==
  /\ entry' = ehdr.entry
  /\ \/ /\ ehdr.phnum = 0
        /\ Return("load_program_segments", "INVALID_PARAMETER")
     \/ /\ ehdr.phnum > 0
        /\ Goto("load_program_segments", "next")
        /\ UNCHANGED status
  /\ p' = 1 /\ nLoaded' = 0
  /\ UNCHANGED <<img, class, ioVars, bufVars, memVars, fault>>

\* Mutant: the loop's increment is lost on the path that skips a header.
SkipHeaderForever ==
  /\ Goto("next", "next")
  /\ p <= ehdr.phnum /\ seg.type # PT_LOAD
  /\ UNCHANGED vars

SkipHeader ==
  /\ Goto("next", "next")
  /\ p <= ehdr.phnum /\ seg.type # PT_LOAD
  /\ p' = p + 1
  /\ UNCHANGED <<img, status, ioVars, bufVars, class, entry, nLoaded, memVars, fault>>

LoadHeader ==
  /\ Goto("next", "segment.SetPosition")
  /\ p <= ehdr.phnum /\ seg.type = PT_LOAD
  /\ UNCHANGED <<img, status, ioVars, bufVars, loopVars, memVars, fault>>

EndOfHeaders ==
  /\ p > ehdr.phnum
  /\ \/ /\ nLoaded = 0
        /\ Return("next", "NOT_FOUND")
     \/ /\ nLoaded > 0
        /\ Goto("next", "Close")
        /\ UNCHANGED status
  /\ UNCHANGED <<img, ioVars, bufVars, loopVars, memVars, fault>>

-----------------------------------------------------------------------------
(* load_segment.                                                           *)

load_segment_SetPosition == SetPosition("segment.SetPosition", seg.off, "segment.AllocatePages")

load_segment_AllocatePages ==
  /\ Goto("segment.AllocatePages", IF seg.filesz > 0 THEN "segment.AllocatePool" ELSE "SetMem")
  /\ Grantable(seg)
  /\ owner' = [a \in Addr |-> IF a \in Claim(seg) THEN "loader" ELSE owner[a]]
  /\ UNCHANGED <<img, status, ioVars, bufVars, loopVars, mem, fault>>

\* AllocateAddress is refused for an address off a page boundary, for pages
\* that are not all free, and by some firmware for a count of zero pages.
load_segment_AllocatePages_refused ==
  /\ pc = "segment.AllocatePages"
  /\ ~Grantable(seg) \/ seg.memsz = 0
  /\ FatalError("NOT_FOUND")
  /\ fault' = (fault \/ \E a \in Addr : a \in Claim(seg) /\ owner[a] = "firmware")
  /\ UNCHANGED <<img, ioVars, bufVars, loopVars, memVars>>

load_segment_AllocatePool ==
  /\ Goto("segment.AllocatePool", "segment.Read")
  /\ pool' = pool \cup {"segment"}
  /\ data' = [k \in 0 .. seg.filesz - 1 |-> Junk]
  /\ UNCHANGED <<img, status, ioVars, ident, ehdr, phdrs, loopVars, memVars, fault>>

load_segment_Read ==
  /\ Goto("segment.Read", "CopyMem")
  /\ fpos <= img.size
  /\ data' = [k \in 0 .. seg.filesz - 1 |-> Content(fpos + k)]
  /\ fpos' = Advance(seg.filesz)
  /\ UNCHANGED <<img, status, fileOpen, pool, ident, ehdr, phdrs, loopVars, memVars, fault>>

\* CopyMem and SetMem return nothing, yet the code takes a status from them: it
\* is whatever the return register holds, an error only by accident.
NoResult(to) ==
  \/ pc' = to /\ UNCHANGED <<status, fault>>
  \/ FatalError("DEVICE_ERROR") /\ fault' = TRUE

\* The pages are counted by the size in memory, the bytes copied by the size in
\* the file: those of an overlong segment go on behind its pages.  What the
\* program keeps there is not followed; it may crash at once or run on.
load_segment_CopyMem ==
  /\ pc = "CopyMem"
  /\ mem' = [a \in Addr |-> IF a \in Span(seg.paddr, seg.filesz) THEN data[a - seg.paddr] ELSE mem[a]]
  /\ NoResult("segment.FreePool") \/ (Overlong(seg) /\ Crash)
  /\ UNCHANGED <<img, ioVars, bufVars, loopVars, owner>>

load_segment_FreePool ==
  /\ Goto("segment.FreePool", "SetMem")
  /\ pool' = pool \ {"segment"} /\ data' = << >>
  /\ UNCHANGED <<img, status, ioVars, ident, ehdr, phdrs, loopVars, memVars, fault>>

\* Mutant: the zero fill starts where the file data starts.
ZeroFillFromStart(h) == Span(h.paddr, h.memsz - h.filesz)

\* Mutant: one zero too many.
ZeroFillOneMore(h) == Span(h.paddr + h.filesz, h.memsz - h.filesz + 1)

\* zero_fill_start and zero_fill_count
ZeroFill(h) == Span(h.paddr + h.filesz, h.memsz - h.filesz)

\* Mutant: the loop's increment is lost after a segment is loaded.
SetMemNoIncrement ==
  /\ pc = "SetMem" /\ ~Overlong(seg)
  /\ mem' = [a \in Addr |-> IF a \in ZeroFill(seg) THEN Zero ELSE mem[a]]
  /\ pc' = "next" /\ nLoaded' = nLoaded + 1
  /\ UNCHANGED <<img, status, ioVars, bufVars, class, entry, p, owner, fault>>

load_segment_SetMem ==
  /\ pc = "SetMem" /\ ~Overlong(seg)
  /\ mem' = [a \in Addr |-> IF a \in ZeroFill(seg) THEN Zero ELSE mem[a]]
  /\ IF ZeroFill(seg) = {} THEN pc' = "next" /\ UNCHANGED <<status, fault>>
                           ELSE NoResult("next")
  /\ p' = p + 1 /\ nLoaded' = nLoaded + 1
  /\ UNCHANGED <<img, ioVars, bufVars, class, entry, owner>>

\* zero_fill_count is unsigned: for an overlong segment it wraps to almost 2^64,
\* and SetMem runs up through memory until the machine stops it.
load_segment_SetMem_wraps ==
  /\ pc = "SetMem" /\ Overlong(seg)
  /\ \E stop \in Addr :
       mem' = [a \in Addr |-> IF a \in (seg.paddr + seg.filesz) .. stop THEN Zero ELSE mem[a]]
  /\ Crash
  /\ UNCHANGED <<img, ioVars, bufVars, loopVars, owner>>

-----------------------------------------------------------------------------
(* load_kernel_image, second half: cleanup.                                *)

CloseKernelImage ==
  /\ Goto("Close", "header.FreePool")
  /\ fileOpen' = FALSE
  /\ UNCHANGED <<img, status, fpos, bufVars, loopVars, memVars, fault>>

\* Mutant: the wrong buffer is freed first.
FreeHeaderTwice    == FreePool("header.FreePool", "phdrs", "phdrs.FreePool")

FreeHeader         == FreePool("header.FreePool", "header", "phdrs.FreePool")
FreeProgramHeaders == FreePool("phdrs.FreePool", "phdrs", "returned")

-----------------------------------------------------------------------------
(* The firmware's drivers allocate and free pages of their own.            *)

Page(a) == Span((a \div PageSize) * PageSize, PageSize)

FirmwareTakes(a) ==
  /\ \A b \in Page(a) : b \in Addr /\ owner[b] = "free"
  /\ owner' = [b \in Addr |-> IF b \in Page(a) THEN "firmware" ELSE owner[b]]
  /\ UNCHANGED <<img, pc, status, ioVars, bufVars, loopVars, mem, fault>>

FirmwareGives(a) ==
  /\ \A b \in Page(a) : b \in Addr /\ owner[b] = "firmware"
  /\ owner' = [b \in Addr |-> IF b \in Page(a) THEN "free" ELSE owner[b]]
  /\ UNCHANGED <<img, pc, status, ioVars, bufVars, loopVars, mem, fault>>

-----------------------------------------------------------------------------

ReadHeaders ==
  \/ OpenKernelImage
  \/ read_elf_identity_SetPosition \/ read_elf_identity_AllocatePool \/ read_elf_identity_Read
  \/ ValidateIdentity \/ FreeIdentity
  \/ read_elf_file_SetPosition \/ read_elf_file_AllocatePool \/ read_elf_file_Read
  \/ read_elf_file_SetPosition2 \/ read_elf_file_AllocatePool2 \/ read_elf_file_Read2

LoadSegments ==
  \/ load_program_segments \/ SkipHeader \/ LoadHeader \/ EndOfHeaders
  \/ load_segment_SetPosition
  \/ load_segment_AllocatePages \/ load_segment_AllocatePages_refused
  \/ load_segment_AllocatePool \/ load_segment_Read \/ load_segment_CopyMem
  \/ load_segment_FreePool \/ load_segment_SetMem \/ load_segment_SetMem_wraps

Cleanup == CloseKernelImage \/ FreeHeader \/ FreeProgramHeaders

load_kernel_image == ReadHeaders \/ LoadSegments \/ Cleanup \/ ReadBeyondEnd

Firmware == \E a \in Addr : FirmwareTakes(a) \/ FirmwareGives(a)

Next == load_kernel_image \/ check_for_fatal_error \/ wait_for_input \/ Firmware

\* The program runs on and firmware calls return; nobody need press a key.
Fairness == WF_vars(load_kernel_image)

Spec == Init /\ [][Next]_vars
FairSpec == Spec /\ Fairness

-----------------------------------------------------------------------------
(* What the loader promises.                                               *)

Done == pc \in {"wait_for_input", "returned", "crashed"}
Succeeded == pc = "returned" /\ status = "SUCCESS"

Buffers == {"identity", "header", "phdrs", "segment"}

\* The variables have their types, the loop has loaded no more segments than it
\* has passed headers (the counters of load_program_segments).
TypeOK ==
  /\ img \in Images
  /\ pc \in Calls \cup {"validate", "load_program_segments", "next", "CopyMem", "SetMem",
                        "wait_for_input", "returned", "crashed"}
  /\ status \in {"SUCCESS", "DEVICE_ERROR", "INVALID_PARAMETER", "UNSUPPORTED",
                 "INCOMPATIBLE_VERSION", "NOT_FOUND"}
  /\ fpos \in Nat /\ fileOpen \in BOOLEAN
  /\ pool \subseteq Buffers
  /\ ident \in [elf: BOOLEAN, class: Nat, lsb: BOOLEAN]
  /\ ehdr \in [entry: Nat, phoff: Nat, phnum: Nat]
  /\ phdrs \in Seq(Phdrs)
  /\ \A k \in DOMAIN data : data[k] \in Int
  /\ class \in Nat /\ entry \in Nat
  /\ p \in Nat \ {0} /\ nLoaded \in 0 .. p - 1
  /\ mem \in [Addr -> Int]
  /\ owner \in [Addr -> {"free", "firmware", "loader"}]
  /\ fault \in BOOLEAN

\* The file holds everything its headers speak of.
Intact ==
  /\ EI_NIDENT <= img.size
  /\ img.ident.class \in {ELF_FILE_CLASS_32, ELF_FILE_CLASS_64}
  /\ EhdrSize[img.ident.class] <= img.size
  /\ \A i \in DOMAIN img.ph :
       /\ img.ehdr.phoff + i * PhdrSize[img.ident.class] <= img.size
       /\ img.ph[i].type = PT_LOAD => img.ph[i].off + img.ph[i].filesz <= img.size

\* Segment h is in memory: its bytes of the file, then zeroes.
InPlace(h) ==
  \A k \in 0 .. h.memsz - 1 :
    /\ h.paddr + k \in Addr
    /\ mem[h.paddr + k] = IF k < h.filesz THEN h.off + k ELSE Zero

\* When load_kernel_image reports success for a file that is not cut short, the
\* entry point is the file's and every loadable segment, the first ones no less
\* than the last, is in memory where its header wants it, zero-filled to its
\* size; and the firmware has not been handed any of it.
KernelInPlace ==
  Succeeded /\ Intact =>
    /\ entry = img.ehdr.entry
    /\ \E i \in DOMAIN img.ph : img.ph[i].type = PT_LOAD
    /\ \A i \in DOMAIN img.ph : img.ph[i].type = PT_LOAD =>
         /\ InPlace(img.ph[i])
         /\ \A a \in Span(img.ph[i].paddr, img.ph[i].memsz) : owner[a] = "loader"

\* The bytes that the headers of a whole file ask for, with their addresses.
Wanted(im) ==
  UNION {{<<h.paddr + k, IF k < h.filesz THEN h.off + k ELSE Zero>> : k \in 0 .. h.memsz - 1} :
           h \in {im.ph[i] : i \in {j \in DOMAIN im.ph : im.ph[j].type = PT_LOAD}}}

\* The segment in hand is an overlong one, which will be or has been copied.
Spilling == pc \in {"CopyMem", "segment.FreePool", "SetMem"} /\ Overlong(seg)

Outcome ==
  IF ~Done THEN IF Spilling THEN "overlong" ELSE "loading"
           ELSE IF Succeeded THEN "loaded" ELSE IF pc = "crashed" THEN pc ELSE "failed"

Abstract == INSTANCE KernelLoad WITH
  wanted <- IF Intact THEN Wanted(img) ELSE {}, outcome <- Outcome

\* load_kernel_image implements its abstract specification: what it claims was
\* free, it keeps it, writes nowhere else before it meets an overlong segment,
\* never reports success once it has met one, and its success means the kernel
\* is in memory and stays there.
ImplementsKernelLoad == Abstract!Spec

\* No step of load_segment writes an address that AllocatePages has not granted
\* to the loader, unless the header of the segment in hand has more data in the
\* file than memory, which the code does not check: whatever else the file, cut
\* short or not, makes the headers say, the bytes and the zeroes stay on the
\* pages of the load.
OnlyOwnPages ==
  [][\A a \in Addr : mem'[a] # mem[a] => owner[a] = "loader" \/ Spilling]_vars

\* Every pool buffer is allocated when it is read, written or freed, across
\* read_elf_identity, read_elf_file and load_segment, which allocate them for
\* their callers; a successful load has freed all of them and closed the file.
PoolDiscipline ==
  /\ pc \in {"identity.Read", "validate", "identity.FreePool"} => "identity" \in pool
  /\ pc \in {"header.Read", "phdrs.SetPosition", "phdrs.Read", "load_program_segments",
            "next", "header.FreePool"} => "header" \in pool
  /\ pc \in {"phdrs.Read", "load_program_segments", "next", "phdrs.FreePool"} => "phdrs" \in pool
  /\ pc \in {"segment.Read", "CopyMem", "segment.FreePool"} => {"phdrs", "segment"} \subseteq pool
  /\ Succeeded => pool = {} /\ ~fileOpen

\* A file whose identity is not that of a little-endian 32 or 64-bit ELF file is
\* refused before a page is allocated at an address it names.
UntouchedUntilValid ==
  EI_NIDENT <= img.size /\
  ~(img.ident.elf /\ img.ident.class \in {ELF_FILE_CLASS_32, ELF_FILE_CLASS_64} /\ img.ident.lsb)
    => ~Succeeded /\ \A a \in Addr : owner[a] # "loader"

\* What AllocateAddress can serve: page-aligned segments on pages of their own,
\* none of them overlong.
Loadable ==
  /\ Intact /\ img.ident.elf /\ img.ident.lsb
  /\ \E i \in DOMAIN img.ph : img.ph[i].type = PT_LOAD
  /\ \A i \in DOMAIN img.ph : img.ph[i].type = PT_LOAD =>
       /\ ~Overlong(img.ph[i]) /\ img.ph[i].memsz > 0 /\ img.ph[i].paddr % PageSize = 0
       /\ \A a \in Span(img.ph[i].paddr, img.ph[i].memsz) : Page(a) \subseteq Addr
  /\ \A i, j \in DOMAIN img.ph : i # j /\ img.ph[i].type = PT_LOAD /\ img.ph[j].type = PT_LOAD =>
       \A a \in Span(img.ph[i].paddr, img.ph[i].memsz) :
         Page(a) \cap Span(img.ph[j].paddr, img.ph[j].memsz) = {}

\* The loader never refuses a kernel it can load: a well-formed file fails only
\* when the firmware fails a call or holds a page the kernel needs.
GoodImageLoads == Done /\ Loadable /\ ~fault => Succeeded

\* load_kernel_image reaches its return, the key prompt or the crash of an overlong
\* segment for every file: no header table makes its loop run forever.
Terminates == <>Done

\* loader.h:16-28 promises that success means the segment was read and copied.
\* A file cut short inside a segment's data breaks it: load_segment ignores the
\* size that Read reports.
ShortReadReported ==
  Succeeded => \A i \in 1 .. ehdr.phnum : phdrs[i].type = PT_LOAD =>
    \A a \in Span(phdrs[i].paddr, phdrs[i].memsz) : mem[a] # Junk

=============================================================================
