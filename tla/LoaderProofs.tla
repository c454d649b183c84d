---------------------------- MODULE LoaderProofs ----------------------------
(* Proofs that the invariant of LoaderInv is inductive and that it implies the *)
(* safety properties of Loader, for every set of kernel files, every memory    *)
(* and every page size.                                                        *)
EXTENDS LoaderInv, SequenceTheorems, TLAPS

-----------------------------------------------------------------------------
(* What the constants promise.                                               *)

\* The fields of a program header are numbers.
LEMMA HeaderFields ==
  ASSUME NEW h \in Phdrs
  PROVE  /\ h.type \in Nat /\ h.off \in Nat /\ h.filesz \in Nat
         /\ h.memsz \in Nat /\ h.paddr \in Nat
BY PhdrsAssumption

\* The fields of a file are numbers, its identity and its tables have their types.
LEMMA ImageFields ==
  ASSUME NEW im \in Images
  PROVE  /\ im.size \in Nat
         /\ im.ident \in [elf: BOOLEAN, class: Nat, lsb: BOOLEAN]
         /\ im.ehdr \in [entry: Nat, phoff: Nat, phnum: Nat]
         /\ im.ehdr.phnum \in Nat /\ im.ehdr.phoff \in Nat /\ im.ehdr.entry \in Nat
         /\ im.ph \in [1 .. im.ehdr.phnum -> Phdrs]
BY ImagesAssumption

\* EFI_SIZE_TO_PAGES rounds up: the pages hold at least the bytes asked for.
LEMMA PagesSuffice ==
  ASSUME NEW n \in Nat
  PROVE  SizeToPages(n) * PageSize \in Nat /\ SizeToPages(n) * PageSize >= n
<1>1. PageSize \in Nat /\ PageSize > 0
  BY MachineAssumption
<1>2. n \div PageSize \in Nat /\ n % PageSize \in 0 .. PageSize - 1
  BY <1>1, SMT
<1>3. n = PageSize * (n \div PageSize) + (n % PageSize)
  BY <1>1, SMT
<1>4. CASE n % PageSize = 0
  BY <1>1, <1>2, <1>3, <1>4, SMT DEF SizeToPages
<1>5. CASE n % PageSize # 0
  <2>1. (n \div PageSize + 1) * PageSize = PageSize * (n \div PageSize) + PageSize
    BY <1>1, <1>2, SMT
  <2> QED
    BY <1>1, <1>2, <1>3, <1>5, <2>1, SMT DEF SizeToPages
<1> QED BY <1>4, <1>5

\* Both parts of a segment, the copied and the zero-filled, lie on its pages when
\* it is not overlong.
LEMMA PartsOnClaim ==
  ASSUME NEW h \in Phdrs, ~Overlong(h)
  PROVE  /\ Span(h.paddr, h.memsz) \subseteq Claim(h)
         /\ Span(h.paddr, h.filesz) \subseteq Claim(h)
         /\ ZeroFill(h) \subseteq Claim(h)
         /\ Span(h.paddr, h.filesz) \cap ZeroFill(h) = {}
<1>1. /\ h.filesz \in Nat /\ h.memsz \in Nat /\ h.paddr \in Nat
      /\ h.filesz <= h.memsz
  BY HeaderFields DEF Overlong
<1>2. SizeToPages(h.memsz) * PageSize \in Nat /\ SizeToPages(h.memsz) * PageSize >= h.memsz
  BY <1>1, PagesSuffice
<1> DEFINE room == SizeToPages(h.memsz) * PageSize
<1>3. Claim(h) = h.paddr .. (h.paddr + room - 1)
  BY DEF Claim, Span
<1> HIDE DEF room
<1>4. room \in Nat /\ room >= h.memsz
  BY <1>2 DEF room
<1> QED
  BY <1>1, <1>3, <1>4 DEF Span, ZeroFill

-----------------------------------------------------------------------------
(* Type correctness.                                                         *)

\* validate_elf_identity returns one of four statuses.
LEMMA ValidateResult ==
  ASSUME NEW id
  PROVE  validate_elf_identity(id) \in
           {"SUCCESS", "INVALID_PARAMETER", "UNSUPPORTED", "INCOMPATIBLE_VERSION"}
BY DEF validate_elf_identity

\* Inside load_segment, seg is an entry of the table with its fields' types.
LEMMA SegmentHeader ==
  ASSUME TypeOK, LoopBounds, pc \in InSegment
  PROVE  /\ seg \in Phdrs
         /\ seg.type \in Nat /\ seg.off \in Nat /\ seg.filesz \in Nat
         /\ seg.memsz \in Nat /\ seg.paddr \in Nat
<1>1. p \in DOMAIN phdrs
  BY DEF TypeOK, LoopBounds, AfterTable
<1>2. seg \in Phdrs
  BY <1>1 DEF TypeOK, seg
<1> QED BY <1>2, HeaderFields

\* Every step keeps the variables in their types.
LEMMA TypeStep ==
  ASSUME IInv, [Next]_vars
  PROVE  TypeOK'
<1> USE DEF TypeOK, IInv, vars, ioVars, bufVars, loopVars, memVars, Calls, Buffers
<1>1. CASE OpenKernelImage
  BY <1>1 DEF OpenKernelImage, Goto
<1>2. CASE read_elf_identity_SetPosition
  BY <1>2 DEF read_elf_identity_SetPosition, SetPosition, Goto
<1>3. CASE read_elf_identity_AllocatePool
  BY <1>3 DEF read_elf_identity_AllocatePool, AllocatePool, Goto
<1>4. CASE read_elf_identity_Read
  <2>1. ident' \in Idents
    BY <1>4 DEF read_elf_identity_Read, HeaderRead, Idents
  <2>2. ident' \in [elf: BOOLEAN, class: Nat, lsb: BOOLEAN]
    BY <2>1, ImageFields DEF Idents
  <2>3. fpos' \in Nat
    BY <1>4, ImageFields, MachineAssumption DEF read_elf_identity_Read, Advance
  <2> QED
    BY <1>4, <2>2, <2>3 DEF read_elf_identity_Read, Goto
<1>5. CASE ValidateIdentity
  BY <1>5, ValidateResult DEF ValidateIdentity, Goto, Return
<1>6. CASE FreeIdentity
  BY <1>6 DEF FreeIdentity, FreePool, Goto
<1>7. CASE read_elf_file_SetPosition
  BY <1>7 DEF read_elf_file_SetPosition, SetPosition, Goto
<1>8. CASE read_elf_file_AllocatePool
  BY <1>8 DEF read_elf_file_AllocatePool, AllocatePool, Goto
<1>9. CASE read_elf_file_Read
  <2>1. EhdrSize[class] \in Nat
    BY <1>9, MachineAssumption DEF read_elf_file_Read, Goto, LoopBounds, AfterIdent
  <2>2. ehdr' \in Ehdrs
    BY <1>9 DEF read_elf_file_Read, HeaderRead, Ehdrs
  <2>3. ehdr' \in [entry: Nat, phoff: Nat, phnum: Nat]
    BY <2>2, ImageFields DEF Ehdrs
  <2>4. fpos' \in Nat
    BY <1>9, <2>1, ImageFields DEF read_elf_file_Read, Advance
  <2> QED
    BY <1>9, <2>3, <2>4 DEF read_elf_file_Read, Goto
<1>10. CASE read_elf_file_SetPosition2
  BY <1>10 DEF read_elf_file_SetPosition2, SetPosition, Goto
<1>11. CASE read_elf_file_AllocatePool2
  BY <1>11 DEF read_elf_file_AllocatePool2, AllocatePool, Goto
<1>12. CASE read_elf_file_Read2
  <2>1. ehdr.phnum * PhdrSize[class] \in Nat
    BY <1>12, MachineAssumption DEF read_elf_file_Read2, Goto, LoopBounds, AfterIdent, AfterEhdr
  <2>2. phdrs' \in Seq(Phdrs)
    <3>1. phdrs' \in [1 .. ehdr.phnum -> Phdrs] /\ ehdr.phnum \in Nat
      BY <1>12 DEF read_elf_file_Read2
    <3> QED
      BY ONLY <3>1, SeqDef
  <2> QED
    BY <1>12, <2>1, <2>2, ImageFields DEF read_elf_file_Read2, Goto, Advance
<1>13. CASE load_program_segments
  BY <1>13 DEF load_program_segments, Goto, Return
<1>14. CASE SkipHeader
  BY <1>14 DEF SkipHeader, Goto
<1>15. CASE LoadHeader
  BY <1>15 DEF LoadHeader, Goto
<1>16. CASE EndOfHeaders
  BY <1>16 DEF EndOfHeaders, Goto, Return
<1>17. CASE load_segment_SetPosition
  BY <1>17, SegmentHeader DEF load_segment_SetPosition, SetPosition, Goto, InSegment
<1>18. CASE load_segment_AllocatePages
  BY <1>18 DEF load_segment_AllocatePages, Goto
<1>19. CASE load_segment_AllocatePages_refused
  BY <1>19 DEF load_segment_AllocatePages_refused, FatalError
<1>20. CASE load_segment_AllocatePool
  BY <1>20 DEF load_segment_AllocatePool, Goto, Junk
<1>21. CASE load_segment_Read
  <2>1. /\ seg.filesz \in Nat /\ fpos \in Nat /\ img.size \in Nat
    BY <1>21, SegmentHeader, ImageFields DEF load_segment_Read, Goto, InSegment
  <2>2. Advance(seg.filesz) \in Nat
    BY <2>1 DEF Advance
  <2>3. \A k \in DOMAIN data' : data'[k] \in Int
    BY <1>21, <2>1 DEF load_segment_Read, Content, Junk
  <2> QED
    BY <1>21, <2>2, <2>3 DEF load_segment_Read, Goto
<1>22. CASE load_segment_CopyMem
  <2>1. pc \in InSegment /\ pc = "CopyMem"
    BY <1>22 DEF load_segment_CopyMem, InSegment
  <2>2. \A a \in Addr \cap Span(seg.paddr, seg.filesz) : data[a - seg.paddr] \in Int
    <3> TAKE a \in Addr \cap Span(seg.paddr, seg.filesz)
    <3>0. a \in Nat /\ seg.paddr \in Nat /\ seg.filesz \in Nat
      BY <2>1, SegmentHeader, MachineAssumption
    <3>1. a - seg.paddr \in 0 .. seg.filesz - 1
      BY <3>0 DEF Span
    <3>2. DOMAIN data = 0 .. seg.filesz - 1
      BY <2>1 DEF SegmentUnderWay
    <3> QED
      BY <3>1, <3>2
  <2>3. mem' \in [Addr -> Int]
    BY <1>22, <2>2 DEF load_segment_CopyMem
  <2> QED
    BY <1>22, <2>3 DEF load_segment_CopyMem, NoResult, FatalError, Crash
<1>23. CASE load_segment_FreePool
  BY <1>23 DEF load_segment_FreePool, Goto
<1>24. CASE load_segment_SetMem
  <2>1. mem' \in [Addr -> Int]
    BY <1>24 DEF load_segment_SetMem, Zero
  <2>2. p' \in Nat \ {0} /\ nLoaded' \in 0 .. p' - 1
    BY <1>24 DEF load_segment_SetMem
  <2>3. /\ pc' \in {"next", "wait_for_input"}
        /\ status' \in {status, "DEVICE_ERROR"} /\ fault' \in BOOLEAN
    BY <1>24 DEF load_segment_SetMem, NoResult, FatalError
  <2> QED
    BY <1>24, <2>1, <2>2, <2>3 DEF load_segment_SetMem
<1>25. CASE CloseKernelImage
  BY <1>25 DEF CloseKernelImage, Goto
<1>26. CASE FreeHeader
  BY <1>26 DEF FreeHeader, FreePool, Goto
<1>27. CASE FreeProgramHeaders
  BY <1>27 DEF FreeProgramHeaders, FreePool, Goto
<1>28. CASE check_for_fatal_error
  BY <1>28 DEF check_for_fatal_error, FatalError
<1>29. CASE ReadBeyondEnd
  BY <1>29 DEF ReadBeyondEnd, FatalError
<1>30. CASE wait_for_input
  BY <1>30 DEF wait_for_input, Goto
<1>31. CASE Firmware
  <2>1. PICK a \in Addr : FirmwareTakes(a) \/ FirmwareGives(a)
    BY <1>31 DEF Firmware
  <2>2. CASE FirmwareTakes(a)
    BY <2>2 DEF FirmwareTakes
  <2>3. CASE FirmwareGives(a)
    BY <2>3 DEF FirmwareGives
  <2> QED BY <2>1, <2>2, <2>3
<1>32. CASE UNCHANGED vars
  BY <1>32
<1>33. CASE load_segment_SetMem_wraps
  <2>1. mem' \in [Addr -> Int]
    BY <1>33 DEF load_segment_SetMem_wraps, Zero
  <2> QED
    BY <1>33, <2>1 DEF load_segment_SetMem_wraps, Crash
<1> QED
  BY <1>1, <1>2, <1>3, <1>4, <1>5, <1>6, <1>7, <1>8, <1>9, <1>10, <1>11, <1>12, <1>13, <1>14, <1>15, <1>16, <1>17, <1>18, <1>19, <1>20, <1>21, <1>22, <1>23, <1>24, <1>25, <1>26, <1>27, <1>28, <1>29, <1>30, <1>31, <1>32, <1>33
     DEF Next, load_kernel_image, ReadHeaders, LoadSegments, Cleanup

-----------------------------------------------------------------------------
(* The other parts of the invariant, one lemma each.                         *)

\* A step leaves an error status only together with the key prompt or the return.
LEMMA StatusStep ==
  ASSUME IInv, [Next]_vars
  PROVE  Status'
<1> USE DEF Status, IInv, Done, vars, ioVars, bufVars, loopVars, memVars,
            Goto, Return, FatalError, SetPosition, AllocatePool, FreePool, NoResult, Crash
<1>1. CASE ReadHeaders
  BY <1>1
  DEF ReadHeaders, OpenKernelImage, read_elf_identity_SetPosition, read_elf_identity_AllocatePool,
         read_elf_identity_Read, ValidateIdentity, FreeIdentity, read_elf_file_SetPosition,
         read_elf_file_AllocatePool, read_elf_file_Read, read_elf_file_SetPosition2,
         read_elf_file_AllocatePool2, read_elf_file_Read2
<1>2. CASE LoadSegments
  BY <1>2
  DEF LoadSegments, load_program_segments, SkipHeader, LoadHeader, EndOfHeaders, load_segment_SetPosition,
         load_segment_AllocatePages, load_segment_AllocatePages_refused,
         load_segment_AllocatePool, load_segment_Read, load_segment_CopyMem,
         load_segment_FreePool, load_segment_SetMem, load_segment_SetMem_wraps
<1>3. CASE Cleanup
  BY <1>3 DEF Cleanup, CloseKernelImage, FreeHeader, FreeProgramHeaders
<1>4. CASE check_for_fatal_error \/ ReadBeyondEnd \/ wait_for_input
  BY <1>4 DEF check_for_fatal_error, ReadBeyondEnd, wait_for_input
<1>5. CASE Firmware \/ UNCHANGED vars
  BY <1>5 DEF Firmware, FirmwareTakes, FirmwareGives
<1> QED
  BY <1>1, <1>2, <1>3, <1>4, <1>5 DEF Next, load_kernel_image

\* The file position is where the next Read needs it.
LEMMA PositionedStep ==
  ASSUME IInv, [Next]_vars
  PROVE  Positioned'
<1> USE DEF Positioned, IInv, Done, seg, vars, ioVars, bufVars, loopVars, memVars,
            Goto, Return, FatalError, SetPosition, AllocatePool, FreePool, NoResult, Crash
<1>1. CASE ReadHeaders
  BY <1>1
  DEF ReadHeaders, OpenKernelImage, read_elf_identity_SetPosition, read_elf_identity_AllocatePool,
         read_elf_identity_Read, ValidateIdentity, FreeIdentity, read_elf_file_SetPosition,
         read_elf_file_AllocatePool, read_elf_file_Read, read_elf_file_SetPosition2,
         read_elf_file_AllocatePool2, read_elf_file_Read2
<1>2. CASE LoadSegments
  BY <1>2
  DEF LoadSegments, load_program_segments, SkipHeader, LoadHeader, EndOfHeaders, load_segment_SetPosition,
         load_segment_AllocatePages, load_segment_AllocatePages_refused,
         load_segment_AllocatePool, load_segment_Read, load_segment_CopyMem,
         load_segment_FreePool, load_segment_SetMem, load_segment_SetMem_wraps
<1>3. CASE Cleanup
  BY <1>3 DEF Cleanup, CloseKernelImage, FreeHeader, FreeProgramHeaders
<1>4. CASE check_for_fatal_error \/ ReadBeyondEnd \/ wait_for_input
  BY <1>4 DEF check_for_fatal_error, ReadBeyondEnd, wait_for_input
<1>5. CASE Firmware \/ UNCHANGED vars
  BY <1>5 DEF Firmware, FirmwareTakes, FirmwareGives
<1> QED
  BY <1>1, <1>2, <1>3, <1>4, <1>5 DEF Next, load_kernel_image

\* Each call finds allocated exactly the buffers that Held lists.
LEMMA ResourcesStep ==
  ASSUME IInv, [Next]_vars
  PROVE  Resources'
<1> USE DEF Resources, Held, IInv, Done, Succeeded, Status, Calls, vars, ioVars, bufVars,
            loopVars, memVars,
            Goto, Return, FatalError, SetPosition, AllocatePool, FreePool, NoResult, Crash
<1>1. CASE ReadHeaders
  BY <1>1
  DEF ReadHeaders, OpenKernelImage, read_elf_identity_SetPosition, read_elf_identity_AllocatePool,
         read_elf_identity_Read, ValidateIdentity, FreeIdentity, read_elf_file_SetPosition,
         read_elf_file_AllocatePool, read_elf_file_Read, read_elf_file_SetPosition2,
         read_elf_file_AllocatePool2, read_elf_file_Read2
<1>2. CASE LoadSegments
  BY <1>2
  DEF LoadSegments, load_program_segments, SkipHeader, LoadHeader, EndOfHeaders, load_segment_SetPosition,
         load_segment_AllocatePages, load_segment_AllocatePages_refused,
         load_segment_AllocatePool, load_segment_Read, load_segment_CopyMem,
         load_segment_FreePool, load_segment_SetMem, load_segment_SetMem_wraps
<1>3. CASE Cleanup
  BY <1>3 DEF Cleanup, CloseKernelImage, FreeHeader, FreeProgramHeaders
<1>4. CASE check_for_fatal_error \/ ReadBeyondEnd \/ wait_for_input
  BY <1>4 DEF check_for_fatal_error, ReadBeyondEnd, wait_for_input
<1>5. CASE Firmware \/ UNCHANGED vars
  BY <1>5 DEF Firmware, FirmwareTakes, FirmwareGives
<1> QED
  BY <1>1, <1>2, <1>3, <1>4, <1>5 DEF Next, load_kernel_image

\* validate_elf_identity accepts little-endian 32 and 64-bit ELF files only.
LEMMA ValidateAccepts ==
  ASSUME NEW id \in [elf: BOOLEAN, class: Nat, lsb: BOOLEAN],
         validate_elf_identity(id) = "SUCCESS"
  PROVE  id.elf /\ id.class \in {ELF_FILE_CLASS_32, ELF_FILE_CLASS_64} /\ id.lsb
BY DEF validate_elf_identity

\* The loop stays within the table that read_elf_file read.
LEMMA LoopBoundsStep ==
  ASSUME IInv, [Next]_vars
  PROVE  LoopBounds'
<1> USE DEF LoopBounds, InSegment, AfterLoop, AfterTable, AfterEhdr, AfterIdent, seg, IInv,
            Done, Succeeded, Status, Calls, TypeOK, vars, ioVars, bufVars, loopVars, memVars
<1>1. CASE OpenKernelImage
  BY <1>1 DEF OpenKernelImage, Goto
<1>2. CASE read_elf_identity_SetPosition
  BY <1>2 DEF read_elf_identity_SetPosition, SetPosition, Goto
<1>3. CASE read_elf_identity_AllocatePool
  BY <1>3 DEF read_elf_identity_AllocatePool, AllocatePool, Goto
<1>4. CASE read_elf_identity_Read
  BY <1>4 DEF read_elf_identity_Read, Goto
<1>5. CASE ValidateIdentity
  BY <1>5, ValidateAccepts DEF ValidateIdentity, Goto, Return
<1>6. CASE FreeIdentity
  BY <1>6 DEF FreeIdentity, FreePool, Goto
<1>7. CASE read_elf_file_SetPosition
  BY <1>7 DEF read_elf_file_SetPosition, SetPosition, Goto
<1>8. CASE read_elf_file_AllocatePool
  BY <1>8 DEF read_elf_file_AllocatePool, AllocatePool, Goto
<1>9. CASE read_elf_file_Read
  BY <1>9 DEF read_elf_file_Read, Goto
<1>10. CASE read_elf_file_SetPosition2
  BY <1>10 DEF read_elf_file_SetPosition2, SetPosition, Goto
<1>11. CASE read_elf_file_AllocatePool2
  BY <1>11 DEF read_elf_file_AllocatePool2, AllocatePool, Goto
<1>12. CASE read_elf_file_Read2
  BY <1>12 DEF read_elf_file_Read2, Goto
<1>13. CASE load_program_segments
  BY <1>13 DEF load_program_segments, Goto, Return
<1>14. CASE SkipHeader
  BY <1>14 DEF SkipHeader, Goto
<1>15. CASE LoadHeader
  BY <1>15 DEF LoadHeader, Goto
<1>16. CASE EndOfHeaders
  BY <1>16 DEF EndOfHeaders, Goto, Return
<1>17. CASE load_segment_SetPosition
  BY <1>17 DEF load_segment_SetPosition, SetPosition, Goto
<1>18. CASE load_segment_AllocatePages
  BY <1>18 DEF load_segment_AllocatePages, Goto
<1>19. CASE load_segment_AllocatePages_refused
  BY <1>19 DEF load_segment_AllocatePages_refused, FatalError
<1>20. CASE load_segment_AllocatePool
  BY <1>20 DEF load_segment_AllocatePool, Goto
<1>21. CASE load_segment_Read
  BY <1>21 DEF load_segment_Read, Goto
<1>22. CASE load_segment_CopyMem
  BY <1>22 DEF load_segment_CopyMem, NoResult, FatalError, Crash
<1>23. CASE load_segment_FreePool
  BY <1>23 DEF load_segment_FreePool, Goto
<1>24. CASE load_segment_SetMem
  BY <1>24 DEF load_segment_SetMem, NoResult, FatalError
<1>25. CASE CloseKernelImage
  BY <1>25 DEF CloseKernelImage, Goto
<1>26. CASE FreeHeader
  BY <1>26 DEF FreeHeader, FreePool, Goto
<1>27. CASE FreeProgramHeaders
  BY <1>27 DEF FreeProgramHeaders, FreePool, Goto
<1>28. CASE check_for_fatal_error
  BY <1>28 DEF check_for_fatal_error, FatalError
<1>29. CASE ReadBeyondEnd
  BY <1>29 DEF ReadBeyondEnd, FatalError
<1>30. CASE wait_for_input
  BY <1>30 DEF wait_for_input, Goto
<1>31. CASE Firmware
  <2>1. PICK a \in Addr : FirmwareTakes(a) \/ FirmwareGives(a)
    BY <1>31 DEF Firmware
  <2> QED BY <2>1 DEF FirmwareTakes, FirmwareGives
<1>32. CASE UNCHANGED vars
  BY <1>32
<1>33. CASE load_segment_SetMem_wraps
  BY <1>33 DEF load_segment_SetMem_wraps, Crash
<1> QED
  BY <1>1, <1>2, <1>3, <1>4, <1>5, <1>6, <1>7, <1>8, <1>9, <1>10, <1>11, <1>12, <1>13, <1>14, <1>15, <1>16, <1>17, <1>18, <1>19, <1>20, <1>21, <1>22, <1>23, <1>24, <1>25, <1>26, <1>27, <1>28, <1>29, <1>30, <1>31, <1>32, <1>33
     DEF Next, load_kernel_image, ReadHeaders, LoadSegments, Cleanup

\* The buffers go on holding what the file holds.
LEMMA BuffersReadStep ==
  ASSUME IInv, [Next]_vars
  PROVE  BuffersRead'
<1> USE DEF BuffersRead, LoopBounds, Intact, InSegment, AfterLoop, AfterTable, AfterEhdr,
            AfterIdent, seg, IInv, Done, Succeeded, Status, Calls, TypeOK, vars, ioVars,
            bufVars, loopVars, memVars
<1>1. CASE OpenKernelImage
  BY <1>1 DEF OpenKernelImage, Goto
<1>2. CASE read_elf_identity_SetPosition
  BY <1>2 DEF read_elf_identity_SetPosition, SetPosition, Goto
<1>3. CASE read_elf_identity_AllocatePool
  BY <1>3 DEF read_elf_identity_AllocatePool, AllocatePool, Goto
<1>4. CASE read_elf_identity_Read
  BY <1>4 DEF read_elf_identity_Read, Goto
<1>5. CASE ValidateIdentity
  BY <1>5 DEF ValidateIdentity, Goto, Return, IdentityAccepted
<1>6. CASE FreeIdentity
  BY <1>6 DEF FreeIdentity, FreePool, Goto
<1>7. CASE read_elf_file_SetPosition
  BY <1>7 DEF read_elf_file_SetPosition, SetPosition, Goto
<1>8. CASE read_elf_file_AllocatePool
  BY <1>8 DEF read_elf_file_AllocatePool, AllocatePool, Goto
<1>9. CASE read_elf_file_Read
  BY <1>9, MachineAssumption DEF read_elf_file_Read, Goto, HeaderRead, Positioned
<1>10. CASE read_elf_file_SetPosition2
  BY <1>10 DEF read_elf_file_SetPosition2, SetPosition, Goto
<1>11. CASE read_elf_file_AllocatePool2
  BY <1>11 DEF read_elf_file_AllocatePool2, AllocatePool, Goto
<1>12. CASE read_elf_file_Read2
  <2>1. SUFFICES ASSUME Intact PROVE phdrs' = img.ph
    BY <1>12 DEF read_elf_file_Read2, Goto
  <2>2. /\ ehdr = img.ehdr /\ class = img.ident.class /\ fpos = img.ehdr.phoff
    BY <1>12, <2>1 DEF read_elf_file_Read2, Goto, Positioned
  <2>3. img.ph \in [1 .. ehdr.phnum -> Phdrs] /\ phdrs' \in [1 .. ehdr.phnum -> Phdrs]
    BY <1>12, <2>2, ImageFields DEF read_elf_file_Read2
  <2>4. \A i \in 1 .. ehdr.phnum : phdrs'[i] = img.ph[i]
    BY <1>12, <2>1, <2>2, <2>3 DEF read_elf_file_Read2, EntryInFile
  <2> QED
    BY <2>3, <2>4
<1>13. CASE load_program_segments
  BY <1>13 DEF load_program_segments, Goto, Return
<1>14. CASE SkipHeader
  BY <1>14 DEF SkipHeader, Goto
<1>15. CASE LoadHeader
  BY <1>15 DEF LoadHeader, Goto
<1>16. CASE EndOfHeaders
  BY <1>16 DEF EndOfHeaders, Goto, Return
<1>17. CASE load_segment_SetPosition
  BY <1>17 DEF load_segment_SetPosition, SetPosition, Goto
<1>18. CASE load_segment_AllocatePages
  BY <1>18 DEF load_segment_AllocatePages, Goto
<1>19. CASE load_segment_AllocatePages_refused
  BY <1>19 DEF load_segment_AllocatePages_refused, FatalError
<1>20. CASE load_segment_AllocatePool
  BY <1>20 DEF load_segment_AllocatePool, Goto
<1>21. CASE load_segment_Read
  BY <1>21 DEF load_segment_Read, Goto
<1>22. CASE load_segment_CopyMem
  BY <1>22 DEF load_segment_CopyMem, NoResult, FatalError, Crash
<1>23. CASE load_segment_FreePool
  BY <1>23 DEF load_segment_FreePool, Goto
<1>24. CASE load_segment_SetMem
  BY <1>24 DEF load_segment_SetMem, NoResult, FatalError
<1>25. CASE CloseKernelImage
  BY <1>25 DEF CloseKernelImage, Goto
<1>26. CASE FreeHeader
  BY <1>26 DEF FreeHeader, FreePool, Goto
<1>27. CASE FreeProgramHeaders
  BY <1>27 DEF FreeProgramHeaders, FreePool, Goto
<1>28. CASE check_for_fatal_error
  BY <1>28 DEF check_for_fatal_error, FatalError
<1>29. CASE ReadBeyondEnd
  BY <1>29 DEF ReadBeyondEnd, FatalError
<1>30. CASE wait_for_input
  BY <1>30 DEF wait_for_input, Goto
<1>31. CASE Firmware
  <2>1. PICK a \in Addr : FirmwareTakes(a) \/ FirmwareGives(a)
    BY <1>31 DEF Firmware
  <2> QED BY <2>1 DEF FirmwareTakes, FirmwareGives
<1>32. CASE UNCHANGED vars
  BY <1>32
<1>33. CASE load_segment_SetMem_wraps
  BY <1>33 DEF load_segment_SetMem_wraps, Crash
<1> QED
  BY <1>1, <1>2, <1>3, <1>4, <1>5, <1>6, <1>7, <1>8, <1>9, <1>10, <1>11, <1>12, <1>13, <1>14, <1>15, <1>16, <1>17, <1>18, <1>19, <1>20, <1>21, <1>22, <1>23, <1>24, <1>25, <1>26, <1>27, <1>28, <1>29, <1>30, <1>31, <1>32, <1>33
     DEF Next, load_kernel_image, ReadHeaders, LoadSegments, Cleanup

\* Only an accepted identity gets past the validation.
LEMMA IdentityAcceptedStep ==
  ASSUME IInv, [Next]_vars
  PROVE  IdentityAccepted'
<1> USE DEF IdentityAccepted, Accepted, InSegment, AfterLoop, AfterTable, AfterEhdr,
            AfterIdent, IInv, Done, Succeeded, Status, Calls, TypeOK, vars, ioVars, bufVars,
            loopVars, memVars
<1>1. CASE OpenKernelImage
  BY <1>1 DEF OpenKernelImage, Goto
<1>2. CASE read_elf_identity_SetPosition
  BY <1>2 DEF read_elf_identity_SetPosition, SetPosition, Goto
<1>3. CASE read_elf_identity_AllocatePool
  BY <1>3 DEF read_elf_identity_AllocatePool, AllocatePool, Goto
<1>4. CASE read_elf_identity_Read
  BY <1>4, MachineAssumption DEF read_elf_identity_Read, Goto, HeaderRead, Positioned
<1>5. CASE ValidateIdentity
  BY <1>5, ValidateAccepts DEF ValidateIdentity, Goto, Return
<1>6. CASE FreeIdentity
  BY <1>6 DEF FreeIdentity, FreePool, Goto
<1>7. CASE read_elf_file_SetPosition
  BY <1>7 DEF read_elf_file_SetPosition, SetPosition, Goto
<1>8. CASE read_elf_file_AllocatePool
  BY <1>8 DEF read_elf_file_AllocatePool, AllocatePool, Goto
<1>9. CASE read_elf_file_Read
  BY <1>9 DEF read_elf_file_Read, Goto
<1>10. CASE read_elf_file_SetPosition2
  BY <1>10 DEF read_elf_file_SetPosition2, SetPosition, Goto
<1>11. CASE read_elf_file_AllocatePool2
  BY <1>11 DEF read_elf_file_AllocatePool2, AllocatePool, Goto
<1>12. CASE read_elf_file_Read2
  BY <1>12 DEF read_elf_file_Read2, Goto
<1>13. CASE load_program_segments
  BY <1>13 DEF load_program_segments, Goto, Return
<1>14. CASE SkipHeader
  BY <1>14 DEF SkipHeader, Goto
<1>15. CASE LoadHeader
  BY <1>15 DEF LoadHeader, Goto
<1>16. CASE EndOfHeaders
  BY <1>16 DEF EndOfHeaders, Goto, Return
<1>17. CASE load_segment_SetPosition
  BY <1>17 DEF load_segment_SetPosition, SetPosition, Goto
<1>18. CASE load_segment_AllocatePages
  BY <1>18 DEF load_segment_AllocatePages, Goto
<1>19. CASE load_segment_AllocatePages_refused
  BY <1>19 DEF load_segment_AllocatePages_refused, FatalError
<1>20. CASE load_segment_AllocatePool
  BY <1>20 DEF load_segment_AllocatePool, Goto
<1>21. CASE load_segment_Read
  BY <1>21 DEF load_segment_Read, Goto
<1>22. CASE load_segment_CopyMem
  BY <1>22 DEF load_segment_CopyMem, NoResult, FatalError, Crash
<1>23. CASE load_segment_FreePool
  BY <1>23 DEF load_segment_FreePool, Goto
<1>24. CASE load_segment_SetMem
  BY <1>24 DEF load_segment_SetMem, NoResult, FatalError
<1>25. CASE CloseKernelImage
  BY <1>25 DEF CloseKernelImage, Goto
<1>26. CASE FreeHeader
  BY <1>26 DEF FreeHeader, FreePool, Goto
<1>27. CASE FreeProgramHeaders
  BY <1>27 DEF FreeProgramHeaders, FreePool, Goto
<1>28. CASE check_for_fatal_error
  BY <1>28 DEF check_for_fatal_error, FatalError
<1>29. CASE ReadBeyondEnd
  BY <1>29 DEF ReadBeyondEnd, FatalError
<1>30. CASE wait_for_input
  BY <1>30 DEF wait_for_input, Goto
<1>31. CASE Firmware
  <2>1. PICK a \in Addr : FirmwareTakes(a) \/ FirmwareGives(a)
    BY <1>31 DEF Firmware
  <2> QED BY <2>1 DEF FirmwareTakes, FirmwareGives
<1>32. CASE UNCHANGED vars
  BY <1>32
<1>33. CASE load_segment_SetMem_wraps
  BY <1>33 DEF load_segment_SetMem_wraps, Crash
<1> QED
  BY <1>1, <1>2, <1>3, <1>4, <1>5, <1>6, <1>7, <1>8, <1>9, <1>10, <1>11, <1>12, <1>13, <1>14, <1>15, <1>16, <1>17, <1>18, <1>19, <1>20, <1>21, <1>22, <1>23, <1>24, <1>25, <1>26, <1>27, <1>28, <1>29, <1>30, <1>31, <1>32, <1>33
     DEF Next, load_kernel_image, ReadHeaders, LoadSegments, Cleanup

\* Writing to the pages of the segment at p leaves the earlier segments alone.
LEMMA EarlierUntouched ==
  ASSUME IInv, pc \in {"CopyMem", "SetMem"}, ~Overlong(seg),
         UNCHANGED <<img, phdrs, owner>>,
         \A a \in Addr : a \notin Claim(seg) => mem'[a] = mem[a]
  PROVE  \A i \in 1 .. p - 1 : phdrs[i].type = PT_LOAD =>
           Owned(phdrs[i])' /\ FilePart(phdrs[i])' /\ ZeroPart(phdrs[i])'
<1> SUFFICES ASSUME NEW i \in 1 .. p - 1, phdrs[i].type = PT_LOAD
             PROVE  Owned(phdrs[i])' /\ FilePart(phdrs[i])' /\ ZeroPart(phdrs[i])'
  OBVIOUS
<1> DEFINE h == phdrs[i]
<1>1. h \in Phdrs /\ h.filesz \in Nat /\ h.paddr \in Nat
  BY HeaderFields DEF IInv, TypeOK, LoopBounds, AfterTable, InSegment
<1>2. ~Overlong(h) /\ Owned(h) /\ FilePart(h) /\ ZeroPart(h)
  BY DEF IInv, EarlierLoaded, AfterTable, InSegment, Spilt
<1>3. Claim(h) \cap Claim(seg) = {}
  BY DEF IInv, SegmentUnderWay, Granted
<1>4. /\ \A k \in 0 .. h.filesz - 1 : h.paddr + k \in Claim(h)
      /\ ZeroFill(h) \subseteq Claim(h)
  BY <1>1, <1>2, PartsOnClaim DEF Span
<1>5. \A a \in Claim(h) : a \in Addr /\ owner[a] = "loader" /\ mem'[a] = mem[a]
  BY <1>2, <1>3 DEF Owned
<1>6. \A k \in 0 .. h.filesz - 1 : mem'[h.paddr + k] = IF h.off + k < img.size THEN h.off + k ELSE Junk
  BY <1>2, <1>4, <1>5 DEF FilePart, Content
<1>7. \A a \in ZeroFill(h) : mem'[a] = Zero
  BY <1>2, <1>4, <1>5 DEF ZeroPart
<1> QED
  BY <1>5, <1>6, <1>7 DEF Owned, FilePart, ZeroPart, Content

\* What is loaded stays loaded, and SetMem completes one segment more.
LEMMA EarlierLoadedStep ==
  ASSUME IInv, [Next]_vars
  PROVE  EarlierLoaded'
<1> USE DEF EarlierLoaded, Owned, FilePart, ZeroPart, Content, Spilt, Overlong, InSegment,
            AfterLoop, AfterTable, seg, IInv, Done, Succeeded, Status, Calls, vars, ioVars, bufVars, loopVars,
            memVars
<1>1. CASE OpenKernelImage
  BY <1>1 DEF OpenKernelImage, Goto
<1>2. CASE read_elf_identity_SetPosition
  BY <1>2 DEF read_elf_identity_SetPosition, SetPosition, Goto
<1>3. CASE read_elf_identity_AllocatePool
  BY <1>3 DEF read_elf_identity_AllocatePool, AllocatePool, Goto
<1>4. CASE read_elf_identity_Read
  BY <1>4 DEF read_elf_identity_Read, Goto
<1>5. CASE ValidateIdentity
  BY <1>5 DEF ValidateIdentity, Goto, Return
<1>6. CASE FreeIdentity
  BY <1>6 DEF FreeIdentity, FreePool, Goto
<1>7. CASE read_elf_file_SetPosition
  BY <1>7 DEF read_elf_file_SetPosition, SetPosition, Goto
<1>8. CASE read_elf_file_AllocatePool
  BY <1>8 DEF read_elf_file_AllocatePool, AllocatePool, Goto
<1>9. CASE read_elf_file_Read
  BY <1>9 DEF read_elf_file_Read, Goto
<1>10. CASE read_elf_file_SetPosition2
  BY <1>10 DEF read_elf_file_SetPosition2, SetPosition, Goto
<1>11. CASE read_elf_file_AllocatePool2
  BY <1>11 DEF read_elf_file_AllocatePool2, AllocatePool, Goto
<1>12. CASE read_elf_file_Read2
  BY <1>12 DEF read_elf_file_Read2, Goto, LoopBounds
<1>13. CASE load_program_segments
  BY <1>13 DEF load_program_segments, Goto, Return
<1>14. CASE SkipHeader
  BY <1>14 DEF SkipHeader, Goto, TypeOK, seg
<1>15. CASE LoadHeader
  BY <1>15 DEF LoadHeader, Goto
<1>16. CASE EndOfHeaders
  BY <1>16 DEF EndOfHeaders, Goto, Return
<1>17. CASE load_segment_SetPosition
  BY <1>17 DEF load_segment_SetPosition, SetPosition, Goto
<1>18. CASE load_segment_AllocatePages
  BY <1>18 DEF load_segment_AllocatePages, Goto
<1>19. CASE load_segment_AllocatePages_refused
  BY <1>19 DEF load_segment_AllocatePages_refused, FatalError
<1>20. CASE load_segment_AllocatePool
  BY <1>20 DEF load_segment_AllocatePool, Goto
<1>21. CASE load_segment_Read
  BY <1>21 DEF load_segment_Read, Goto
<1>22. CASE load_segment_CopyMem
  <2>1. pc = "CopyMem" /\ UNCHANGED <<img, phdrs, owner, p>>
    BY <1>22 DEF load_segment_CopyMem
  <2>2. CASE ~Overlong(seg)
    <3> HIDE DEF seg, Overlong
    <3>1. \A a \in Addr : a \notin Claim(seg) => mem'[a] = mem[a]
      BY <1>22, <2>1, <2>2, PartsOnClaim, SegmentHeader DEF load_segment_CopyMem
    <3>2. \A i \in 1 .. p - 1 : phdrs[i].type = PT_LOAD =>
            Owned(phdrs[i])' /\ FilePart(phdrs[i])' /\ ZeroPart(phdrs[i])'
      <4> HIDE DEF IInv, Owned, FilePart, ZeroPart
      <4> QED
        BY <2>1, <2>2, <3>1, EarlierUntouched
    <3>3. \A i \in 1 .. p - 1 : phdrs[i].type = PT_LOAD => ~Overlong(phdrs[i])'
      BY <2>1 DEF Overlong
    <3> HIDE DEF IInv, Owned, FilePart, ZeroPart
    <3> QED
      BY <2>1, <3>2, <3>3
  <2>3. CASE Overlong(seg)
    <3>1. pc' \in {"segment.FreePool", "wait_for_input", "crashed"} /\ (pc' = "wait_for_input" => status' = "DEVICE_ERROR")
      BY <1>22 DEF load_segment_CopyMem, NoResult, FatalError, Crash
    <3> QED
      BY <2>1, <2>3, <3>1
  <2> QED
    BY <2>2, <2>3
<1>23. CASE load_segment_FreePool
  BY <1>23 DEF load_segment_FreePool, Goto
<1>24. CASE load_segment_SetMem
  <2> HIDE DEF seg, Overlong
  <2>1. /\ pc = "SetMem" /\ UNCHANGED <<img, phdrs, owner>> /\ p' = p + 1 /\ ~Overlong(seg)
        /\ pc' \in {"next", "wait_for_input"}
    BY <1>24 DEF load_segment_SetMem, NoResult, FatalError
  <2>2. seg \in Phdrs /\ Owned(seg) /\ FilePart(seg) /\ seg.filesz \in Nat /\ seg.paddr \in Nat
    BY <2>1, SegmentHeader DEF SegmentUnderWay, Granted
  <2>3. /\ ZeroFill(seg) \subseteq Claim(seg)
        /\ \A k \in 0 .. seg.filesz - 1 : seg.paddr + k \in Claim(seg) /\ seg.paddr + k \notin ZeroFill(seg)
    BY <2>1, <2>2, PartsOnClaim DEF Span
  <2>4. \A a \in Addr : mem'[a] = IF a \in ZeroFill(seg) THEN Zero ELSE mem[a]
    BY <1>24 DEF load_segment_SetMem
  <2>5. \A i \in 1 .. p - 1 : phdrs[i].type = PT_LOAD =>
          Owned(phdrs[i])' /\ FilePart(phdrs[i])' /\ ZeroPart(phdrs[i])'
    <3> HIDE DEF IInv, Owned, FilePart, ZeroPart
    <3> QED BY <2>1, <2>3, <2>4, EarlierUntouched
  <2>6. \A i \in {p} : Owned(phdrs[i])' /\ FilePart(phdrs[i])' /\ ZeroPart(phdrs[i])'
    BY <2>1, <2>2, <2>3, <2>4 DEF seg
  <2>7. \A i \in 1 .. p' - 1 : i \in 1 .. p - 1 \/ i = p
    BY <2>1 DEF TypeOK
  <2>8. \A i \in 1 .. p' - 1 : phdrs[i].type = PT_LOAD => ~Overlong(phdrs[i])'
    BY <2>1, <2>7 DEF Overlong, seg
  <2> HIDE DEF IInv, Owned, FilePart, ZeroPart
  <2> QED
    BY <2>1, <2>5, <2>6, <2>7, <2>8
<1>25. CASE CloseKernelImage
  BY <1>25 DEF CloseKernelImage, Goto
<1>26. CASE FreeHeader
  BY <1>26 DEF FreeHeader, FreePool, Goto
<1>27. CASE FreeProgramHeaders
  BY <1>27 DEF FreeProgramHeaders, FreePool, Goto
<1>28. CASE check_for_fatal_error
  BY <1>28 DEF check_for_fatal_error, FatalError
<1>29. CASE ReadBeyondEnd
  BY <1>29 DEF ReadBeyondEnd, FatalError
<1>30. CASE wait_for_input
  BY <1>30 DEF wait_for_input, Goto
<1>31. CASE Firmware
  <2>1. PICK a \in Addr : FirmwareTakes(a) \/ FirmwareGives(a)
    BY <1>31 DEF Firmware
  <2> QED BY <2>1 DEF FirmwareTakes, FirmwareGives
<1>32. CASE UNCHANGED vars
  BY <1>32
<1>33. CASE load_segment_SetMem_wraps
  BY <1>33 DEF load_segment_SetMem_wraps, Crash
<1> QED
  BY <1>1, <1>2, <1>3, <1>4, <1>5, <1>6, <1>7, <1>8, <1>9, <1>10, <1>11, <1>12, <1>13, <1>14, <1>15, <1>16, <1>17, <1>18, <1>19, <1>20, <1>21, <1>22, <1>23, <1>24, <1>25, <1>26, <1>27, <1>28, <1>29, <1>30, <1>31, <1>32, <1>33
     DEF Next, load_kernel_image, ReadHeaders, LoadSegments, Cleanup

\* The segment at p gets its pages, its data and its bytes in that order.
LEMMA SegmentUnderWayStep ==
  ASSUME IInv, [Next]_vars
  PROVE  SegmentUnderWay'
<1> USE DEF SegmentUnderWay, Granted, seg, Spilt, Overlong, EarlierLoaded, Owned, FilePart, ZeroPart, Content,
            InSegment, AfterLoop, AfterTable, IInv, Done, Succeeded, Status, Calls, vars,
            ioVars, bufVars, loopVars, memVars
<1>1. CASE OpenKernelImage
  BY <1>1 DEF OpenKernelImage, Goto
<1>2. CASE read_elf_identity_SetPosition
  BY <1>2 DEF read_elf_identity_SetPosition, SetPosition, Goto
<1>3. CASE read_elf_identity_AllocatePool
  BY <1>3 DEF read_elf_identity_AllocatePool, AllocatePool, Goto
<1>4. CASE read_elf_identity_Read
  BY <1>4 DEF read_elf_identity_Read, Goto
<1>5. CASE ValidateIdentity
  BY <1>5 DEF ValidateIdentity, Goto, Return
<1>6. CASE FreeIdentity
  BY <1>6 DEF FreeIdentity, FreePool, Goto
<1>7. CASE read_elf_file_SetPosition
  BY <1>7 DEF read_elf_file_SetPosition, SetPosition, Goto
<1>8. CASE read_elf_file_AllocatePool
  BY <1>8 DEF read_elf_file_AllocatePool, AllocatePool, Goto
<1>9. CASE read_elf_file_Read
  BY <1>9 DEF read_elf_file_Read, Goto
<1>10. CASE read_elf_file_SetPosition2
  BY <1>10 DEF read_elf_file_SetPosition2, SetPosition, Goto
<1>11. CASE read_elf_file_AllocatePool2
  BY <1>11 DEF read_elf_file_AllocatePool2, AllocatePool, Goto
<1>12. CASE read_elf_file_Read2
  BY <1>12 DEF read_elf_file_Read2, Goto
<1>13. CASE load_program_segments
  BY <1>13 DEF load_program_segments, Goto, Return
<1>14. CASE SkipHeader
  BY <1>14 DEF SkipHeader, Goto
<1>15. CASE LoadHeader
  BY <1>15 DEF LoadHeader, Goto
<1>16. CASE EndOfHeaders
  BY <1>16 DEF EndOfHeaders, Goto, Return
<1>17. CASE load_segment_SetPosition
  BY <1>17 DEF load_segment_SetPosition, SetPosition, Goto
<1>18. CASE load_segment_AllocatePages
  <2>1. pc = "segment.AllocatePages" /\ UNCHANGED <<img, phdrs, p, mem>>
    BY <1>18 DEF load_segment_AllocatePages, Goto
  <2>2. \A a \in Claim(seg) : a \in Addr /\ owner[a] = "free" /\ owner'[a] = "loader"
    BY <1>18 DEF load_segment_AllocatePages, Grantable
  <2>3. \A i \in 1 .. p - 1 : phdrs[i].type = PT_LOAD => Claim(phdrs[i]) \cap Claim(seg) = {}
    BY <2>1, <2>2
  <2>4. seg.filesz \in Nat
    BY <2>1, SegmentHeader
  <2>5. pc' = "SetMem" => seg.filesz = 0
    BY <1>18, <2>4 DEF load_segment_AllocatePages, Goto
  <2>6. pc' \in {"segment.AllocatePool", "SetMem"}
    BY <1>18 DEF load_segment_AllocatePages, Goto
  <2> QED
    BY <2>1, <2>2, <2>3, <2>4, <2>5, <2>6
<1>19. CASE load_segment_AllocatePages_refused
  BY <1>19 DEF load_segment_AllocatePages_refused, FatalError
<1>20. CASE load_segment_AllocatePool
  BY <1>20 DEF load_segment_AllocatePool, Goto
<1>21. CASE load_segment_Read
  <2>1. /\ pc = "segment.Read" /\ pc' = "CopyMem" /\ UNCHANGED <<img, phdrs, p, mem, owner>>
        /\ data' = [k \in 0 .. seg.filesz - 1 |-> Content(fpos + k)]
    BY <1>21 DEF load_segment_Read, Goto
  <2>2. fpos = seg.off
    BY <2>1 DEF Positioned
  <2> QED
    BY <2>1, <2>2
<1>22. CASE load_segment_CopyMem
  <2>1. /\ pc = "CopyMem" /\ UNCHANGED <<img, phdrs, p, owner>>
        /\ pc' \in {"segment.FreePool", "wait_for_input", "crashed"}
    BY <1>22 DEF load_segment_CopyMem, NoResult, FatalError, Crash
  <2>2. seg \in Phdrs /\ seg.filesz \in Nat /\ seg.paddr \in Nat
    BY <2>1, SegmentHeader
  <2>3. ASSUME ~Overlong(seg), NEW k \in 0 .. seg.filesz - 1
        PROVE  mem'[seg.paddr + k] = Content(seg.off + k)
    <3>1. /\ seg.paddr + k \in Addr /\ seg.paddr + k \in Span(seg.paddr, seg.filesz)
          /\ (seg.paddr + k) - seg.paddr = k
      BY <2>1, <2>2, <2>3, PartsOnClaim DEF Span
    <3>2. mem'[seg.paddr + k] = data[(seg.paddr + k) - seg.paddr]
      BY <1>22, <3>1 DEF load_segment_CopyMem
    <3> QED
      BY <2>1, <3>1, <3>2
  <2> QED
    BY <2>1, <2>3
<1>23. CASE load_segment_FreePool
  BY <1>23 DEF load_segment_FreePool, Goto
<1>24. CASE load_segment_SetMem
  BY <1>24 DEF load_segment_SetMem, NoResult, FatalError
<1>25. CASE CloseKernelImage
  BY <1>25 DEF CloseKernelImage, Goto
<1>26. CASE FreeHeader
  BY <1>26 DEF FreeHeader, FreePool, Goto
<1>27. CASE FreeProgramHeaders
  BY <1>27 DEF FreeProgramHeaders, FreePool, Goto
<1>28. CASE check_for_fatal_error
  BY <1>28 DEF check_for_fatal_error, FatalError
<1>29. CASE ReadBeyondEnd
  BY <1>29 DEF ReadBeyondEnd, FatalError
<1>30. CASE wait_for_input
  BY <1>30 DEF wait_for_input, Goto
<1>31. CASE Firmware
  <2>1. PICK a \in Addr : FirmwareTakes(a) \/ FirmwareGives(a)
    BY <1>31 DEF Firmware
  <2> QED BY <2>1 DEF FirmwareTakes, FirmwareGives
<1>32. CASE UNCHANGED vars
  BY <1>32
<1>33. CASE load_segment_SetMem_wraps
  BY <1>33 DEF load_segment_SetMem_wraps, Crash
<1> QED
  BY <1>1, <1>2, <1>3, <1>4, <1>5, <1>6, <1>7, <1>8, <1>9, <1>10, <1>11, <1>12, <1>13, <1>14, <1>15, <1>16, <1>17, <1>18, <1>19, <1>20, <1>21, <1>22, <1>23, <1>24, <1>25, <1>26, <1>27, <1>28, <1>29, <1>30, <1>31, <1>32, <1>33
     DEF Next, load_kernel_image, ReadHeaders, LoadSegments, Cleanup

-----------------------------------------------------------------------------
(* The theorems.                                                             *)

\* The invariant holds of the initial states ...
LEMMA InitIInv == Init => IInv
<1> SUFFICES ASSUME Init PROVE IInv
  OBVIOUS
<1> USE DEF Init
<1>1. TypeOK
  <2>1. phdrs \in Seq(Phdrs) /\ \A k \in DOMAIN data : data[k] \in Int
    OBVIOUS
  <2>2. ident \in [elf: BOOLEAN, class: Nat, lsb: BOOLEAN] /\ ehdr \in [entry: Nat, phoff: Nat, phnum: Nat]
    BY DEF NoIdent, NoEhdr
  <2>3. mem \in [Addr -> Int] /\ owner \in [Addr -> {"free", "firmware", "loader"}]
    BY DEF Junk
  <2>4. p \in Nat \ {0} /\ nLoaded \in 0 .. p - 1
    OBVIOUS
  <2> QED
    BY <2>1, <2>2, <2>3, <2>4 DEF TypeOK, Calls, Buffers
<1>2. Status /\ Positioned /\ Resources
  BY DEF Status, Positioned, Resources, Held, Calls, Done, Succeeded
<1>3. LoopBounds /\ BuffersRead /\ IdentityAccepted
  BY DEF LoopBounds, BuffersRead, IdentityAccepted, Accepted, Done, Succeeded,
         InSegment, AfterLoop, AfterTable, AfterEhdr, AfterIdent
<1>4. EarlierLoaded /\ SegmentUnderWay
  BY DEF EarlierLoaded, SegmentUnderWay, Granted, Succeeded, InSegment, AfterLoop, AfterTable
<1> QED BY <1>1, <1>2, <1>3, <1>4 DEF IInv

\* ... and of every state a step leads to.
LEMMA NextIInv == IInv /\ [Next]_vars => IInv'
<1> SUFFICES ASSUME IInv, [Next]_vars PROVE IInv'
  OBVIOUS
<1> QED
  BY TypeStep, StatusStep, PositionedStep, LoopBoundsStep, BuffersReadStep, EarlierLoadedStep,
     SegmentUnderWayStep, ResourcesStep, IdentityAcceptedStep DEF IInv

\* The invariant of LoaderInv holds in every reachable state.
THEOREM Invariance == Spec => []IInv
BY InitIInv, NextIInv, PTL DEF Spec

\* TypeOK is an invariant of the loader.
THEOREM TypeCorrect == Spec => []TypeOK
BY Invariance, PTL DEF IInv

\* The invariant implies that a successful load has the kernel in place.
LEMMA InPlaceOfIInv == IInv => KernelInPlace
<1> SUFFICES ASSUME IInv, Succeeded, Intact
             PROVE  /\ entry = img.ehdr.entry
                    /\ \E i \in DOMAIN img.ph : img.ph[i].type = PT_LOAD
                    /\ \A i \in DOMAIN img.ph : img.ph[i].type = PT_LOAD =>
                         /\ InPlace(img.ph[i])
                         /\ \A a \in Span(img.ph[i].paddr, img.ph[i].memsz) : owner[a] = "loader"
  BY DEF KernelInPlace
<1>1. ehdr = img.ehdr /\ phdrs = img.ph /\ entry = ehdr.entry
  BY DEF IInv, BuffersRead
<1>2. DOMAIN phdrs = 1 .. ehdr.phnum /\ p \in Nat /\ p > ehdr.phnum /\ nLoaded > 0 /\ ehdr.phnum \in Nat
  BY DEF IInv, LoopBounds, TypeOK
<1>3. \E i \in DOMAIN phdrs : phdrs[i].type = PT_LOAD
  BY <1>2 DEF IInv, LoopBounds
<1>4. ASSUME NEW i \in DOMAIN phdrs, phdrs[i].type = PT_LOAD
      PROVE  /\ InPlace(phdrs[i])
             /\ \A a \in Span(phdrs[i].paddr, phdrs[i].memsz) : owner[a] = "loader"
  <2> DEFINE h == phdrs[i]
  <2>1. h \in Phdrs
    BY DEF IInv, TypeOK
  <2>2. /\ h.off \in Nat /\ h.filesz \in Nat /\ h.memsz \in Nat /\ h.paddr \in Nat
    BY <2>1, HeaderFields
  <2>3. ~Overlong(h) /\ Owned(h) /\ FilePart(h) /\ ZeroPart(h)
    BY <1>2, <1>4 DEF IInv, EarlierLoaded, Spilt, Succeeded
  <2>4. Span(h.paddr, h.memsz) \subseteq Claim(h)
    BY <2>1, <2>3, PartsOnClaim
  <2>5. h.off + h.filesz <= img.size /\ img.size \in Nat
    BY <1>1, <1>4, ImageFields DEF Intact, IInv, TypeOK
  <2> HIDE DEF h
  <2>6. ASSUME NEW k \in 0 .. h.memsz - 1
        PROVE  /\ h.paddr + k \in Addr
               /\ mem[h.paddr + k] = IF k < h.filesz THEN h.off + k ELSE Zero
    <3>1. h.paddr + k \in Addr
      BY <2>2, <2>3, <2>4 DEF Span, Owned
    <3>2. CASE k < h.filesz
      BY <2>2, <2>3, <2>5, <3>1, <3>2 DEF FilePart, Content
    <3>3. CASE ~(k < h.filesz)
      <4>1. h.paddr + k \in ZeroFill(h)
        BY <2>2, <3>3 DEF ZeroFill, Span
      <4> QED BY <2>3, <3>1, <3>3, <4>1 DEF ZeroPart
    <3> QED BY <3>1, <3>2, <3>3
  <2>7. InPlace(h)
    BY <2>6 DEF InPlace
  <2>8. \A a \in Span(h.paddr, h.memsz) : owner[a] = "loader"
    BY <2>3, <2>4 DEF Owned
  <2> QED BY <2>7, <2>8 DEF h
<1> QED
  BY <1>1, <1>3, <1>4

\* A load that succeeds on a file that is not cut short leaves every loadable
\* segment in memory where its header wants it, on the loader's pages, with the
\* file's entry point: for any number of segments, any memory and any page size.
THEOREM SegmentsInPlace == Spec => []KernelInPlace
BY InPlaceOfIInv, Invariance, PTL

\* What a step writes lies on a page that the loader holds, but for an overlong
\* segment.
LEMMA OwnPagesStep ==
  ASSUME IInv, [Next]_vars, ~Spilling, NEW a \in Addr, mem'[a] # mem[a]
  PROVE  owner[a] = "loader"
<1>0. ~load_segment_SetMem_wraps
  BY DEF load_segment_SetMem_wraps, Spilling
<1>1. load_segment_CopyMem \/ load_segment_SetMem
  BY <1>0 DEF Next, vars, load_kernel_image, ReadHeaders, LoadSegments, Cleanup, Firmware, FirmwareTakes,
         FirmwareGives, memVars, SetPosition, AllocatePool, FreePool, OpenKernelImage,
         read_elf_identity_SetPosition, read_elf_identity_AllocatePool, read_elf_identity_Read,
         ValidateIdentity, FreeIdentity, read_elf_file_SetPosition, read_elf_file_AllocatePool,
         read_elf_file_Read, read_elf_file_SetPosition2, read_elf_file_AllocatePool2,
         read_elf_file_Read2, load_program_segments, SkipHeader, LoadHeader, EndOfHeaders,
         load_segment_SetPosition, load_segment_AllocatePages, load_segment_AllocatePages_refused,
         load_segment_AllocatePool, load_segment_Read, load_segment_FreePool, CloseKernelImage,
         FreeHeader, FreeProgramHeaders, check_for_fatal_error, ReadBeyondEnd, wait_for_input
<1>2. pc \in {"CopyMem", "SetMem"} /\ seg \in Phdrs /\ ~Overlong(seg)
  BY <1>1, SegmentHeader DEF load_segment_CopyMem, load_segment_SetMem, IInv, InSegment, Spilling
<1>3. a \in Span(seg.paddr, seg.filesz) \/ a \in ZeroFill(seg)
  BY <1>1 DEF load_segment_CopyMem, load_segment_SetMem, IInv, TypeOK
<1>4. a \in Claim(seg)
  BY <1>2, <1>3, PartsOnClaim
<1> QED
  BY <1>2, <1>4 DEF IInv, SegmentUnderWay, Granted, Owned

\* No step writes memory outside the pages granted to the loader, except while
\* the segment in hand is one whose header has more data in the file than memory.
THEOREM WritesOwnPages == Spec => OnlyOwnPages
<1>1. IInv /\ [Next]_vars =>
        [\A a \in Addr : mem'[a] # mem[a] => owner[a] = "loader" \/ Spilling]_vars
  BY OwnPagesStep
<1> QED
  BY <1>1, Invariance, PTL DEF Spec, OnlyOwnPages

\* Pool buffers are live when used, and a successful load has released them all.
THEOREM PoolSafe == Spec => []PoolDiscipline
<1>1. IInv => PoolDiscipline
  BY DEF IInv, Resources, Held, PoolDiscipline, Done, Succeeded, Calls
<1> QED
  BY <1>1, Invariance, PTL

\* No page is taken for a file whose identity is refused.
THEOREM RefusedUntouched == Spec => []UntouchedUntilValid
<1>1. IInv => UntouchedUntilValid
  BY DEF IInv, IdentityAccepted, Accepted, UntouchedUntilValid
<1> QED
  BY <1>1, Invariance, PTL

-----------------------------------------------------------------------------
(* A good image loads.                                                       *)

\* The start of the page that an address is on.
PageStart(a) == (a \div PageSize) * PageSize

\* Division by the page size.
LEMMA PageDivision ==
  ASSUME NEW n \in Nat
  PROVE  /\ n \div PageSize \in Nat /\ n % PageSize \in 0 .. PageSize - 1
         /\ (n \div PageSize) * PageSize \in Nat
         /\ n = (n \div PageSize) * PageSize + (n % PageSize)
<1>1. PageSize \in Nat /\ PageSize > 0
  BY MachineAssumption
<1>2. n \div PageSize \in Nat /\ n % PageSize \in 0 .. PageSize - 1
      /\ n = PageSize * (n \div PageSize) + (n % PageSize)
  BY <1>1, SMT
<1> DEFINE q == n \div PageSize
<1> HIDE DEF q
<1>3. \A k \in Nat : PageSize * k = k * PageSize /\ k * PageSize \in Nat
  BY <1>1, SMT
<1> QED
  BY <1>2, <1>3

\* An address and the start of its page are on the same page.
LEMMA StartOfPage ==
  ASSUME NEW a \in Nat
  PROVE  /\ PageStart(a) \in Nat
         /\ PageStart(a) <= a /\ a < PageStart(a) + PageSize
         /\ PageStart(a) \div PageSize = a \div PageSize
<1>1. PageSize \in Nat /\ PageSize > 0
  BY MachineAssumption
<1> DEFINE q == a \div PageSize
<1>2. q \in Nat /\ a % PageSize \in 0 .. PageSize - 1 /\ a = q * PageSize + (a % PageSize)
      /\ q * PageSize \in Nat
  BY PageDivision
<1> HIDE DEF q
<1>4. (q * PageSize) \div PageSize = q
  BY <1>1, <1>2, SMT
<1> QED
  BY <1>1, <1>2, <1>4 DEF PageStart, q

\* The pages of a segment at a page boundary are those that its bytes are on.
LEMMA ClaimStarts ==
  ASSUME NEW h \in Phdrs, h.memsz > 0, h.paddr % PageSize = 0, NEW a \in Claim(h)
  PROVE  a \in Nat /\ PageStart(a) \in Span(h.paddr, h.memsz)
<1>1. PageSize \in Nat /\ PageSize > 0 /\ h.paddr \in Nat /\ h.memsz \in Nat
  BY MachineAssumption, HeaderFields
<1> DEFINE n == SizeToPages(h.memsz)
           r == h.paddr \div PageSize
           q == a \div PageSize
           m == h.memsz \div PageSize
<1>2. n \in Nat /\ n > 0 /\ (n - 1) * PageSize < h.memsz
  <2>1. m \in Nat /\ h.memsz % PageSize \in 0 .. PageSize - 1
        /\ h.memsz = m * PageSize + (h.memsz % PageSize) /\ m * PageSize \in Nat
    BY <1>1, PageDivision
  <2>2. n = m + (IF h.memsz % PageSize = 0 THEN 0 ELSE 1)
    BY Zenon DEF SizeToPages
  <2> HIDE DEF m, n
  <2>3. CASE h.memsz % PageSize = 0
    <3>1. n = m /\ h.memsz = m * PageSize
      BY <1>1, <2>1, <2>2, <2>3
    <3>2. m > 0
      BY <1>1, <2>1, <3>1, SMT
    <3>3. (m - 1) * PageSize = m * PageSize - PageSize
      BY <1>1, <2>1, SMT
    <3> QED
      BY <1>1, <2>1, <3>1, <3>2, <3>3
  <2>4. CASE h.memsz % PageSize # 0
    <3>1. n = m + 1 /\ n - 1 = m
      BY <2>1, <2>2, <2>4
    <3> QED
      BY <1>1, <2>1, <2>4, <3>1
  <2> QED
    BY <2>3, <2>4
<1>3. a \in h.paddr .. (h.paddr + n * PageSize - 1)
  BY DEF Claim, Span
<1> HIDE DEF n
<1>4. n * PageSize \in Nat
  BY <1>1, <1>2, SMT
<1>5. a \in Nat /\ h.paddr <= a /\ a < h.paddr + n * PageSize
  BY <1>1, <1>3, <1>4
<1>6. r \in Nat /\ h.paddr = r * PageSize
  BY <1>1, PageDivision
<1>7. q \in Nat /\ q * PageSize <= a /\ a < q * PageSize + PageSize /\ q * PageSize \in Nat
  BY <1>1, <1>5, PageDivision
<1> HIDE DEF r, q
<1>8. r <= q
  <2> SUFFICES ASSUME q + 1 <= r PROVE FALSE
    BY <1>6, <1>7
  <2>1. (q + 1) * PageSize <= r * PageSize
    BY <1>1, <1>6, <1>7, SMT
  <2>2. (q + 1) * PageSize = q * PageSize + PageSize
    BY <1>1, <1>7, SMT
  <2> QED
    BY <1>1, <1>5, <1>6, <1>7, <2>1, <2>2
<1>9. q <= r + n - 1
  <2> SUFFICES ASSUME r + n <= q PROVE FALSE
    BY <1>2, <1>6, <1>7
  <2>1. (r + n) * PageSize <= q * PageSize
    BY <1>1, <1>2, <1>6, <1>7, SMT
  <2>2. (r + n) * PageSize = r * PageSize + n * PageSize
    BY <1>1, <1>2, <1>6, SMT
  <2> QED
    BY <1>1, <1>4, <1>5, <1>6, <1>7, <2>1, <2>2
<1>10. r * PageSize <= q * PageSize
  BY <1>1, <1>6, <1>7, <1>8, SMT
<1>11. q * PageSize <= (r + n - 1) * PageSize
  BY <1>1, <1>2, <1>6, <1>7, <1>9, SMT
<1>12. (r + n - 1) * PageSize = r * PageSize + (n - 1) * PageSize
  BY <1>1, <1>2, <1>6, SMT
<1>13. PageStart(a) = q * PageSize
  BY DEF PageStart, q
<1>14. (n - 1) * PageSize \in Int
  BY <1>1, <1>2
<1> QED
  BY <1>1, <1>2, <1>5, <1>6, <1>7, <1>10, <1>11, <1>12, <1>13, <1>14 DEF Span

\* A header that is passed with nothing loaded asks for nothing.
LEMMA NonePassedStep ==
  ASSUME IInv, NonePassed, [Next]_vars
  PROVE  NonePassed'
<1> USE DEF NonePassed, InSegment, AfterLoop, AfterTable, seg, vars, ioVars, bufVars, loopVars,
            memVars, Calls, Goto, Return, FatalError, SetPosition, AllocatePool, FreePool, NoResult, Crash
<1>1. CASE ReadHeaders
  BY <1>1
  DEF ReadHeaders, OpenKernelImage, read_elf_identity_SetPosition, read_elf_identity_AllocatePool,
      read_elf_identity_Read, ValidateIdentity, FreeIdentity, read_elf_file_SetPosition,
      read_elf_file_AllocatePool, read_elf_file_Read, read_elf_file_SetPosition2,
      read_elf_file_AllocatePool2, read_elf_file_Read2, IInv, LoopBounds, Done
<1>2. CASE load_program_segments
  BY <1>2 DEF load_program_segments
<1>3. CASE SkipHeader
  <2>1. pc = "next" /\ p \in Nat /\ p' = p + 1 /\ phdrs[p].type # PT_LOAD /\ UNCHANGED <<phdrs, nLoaded>>
    BY <1>3 DEF SkipHeader, IInv, TypeOK
  <2> QED
    BY <2>1
<1>4. CASE LoadHeader \/ EndOfHeaders \/ load_segment_SetPosition \/ load_segment_AllocatePages
           \/ load_segment_AllocatePages_refused \/ load_segment_AllocatePool
           \/ load_segment_Read \/ load_segment_CopyMem \/ load_segment_FreePool
  BY <1>4 DEF LoadHeader, EndOfHeaders, load_segment_SetPosition, load_segment_AllocatePages,
     load_segment_AllocatePages_refused, load_segment_AllocatePool, load_segment_Read,
     load_segment_CopyMem, load_segment_FreePool
<1>5. CASE load_segment_SetMem
  <2>1. nLoaded' > 0
    BY <1>5 DEF load_segment_SetMem, IInv, TypeOK
  <2> QED
    BY <2>1
<1>6. CASE Cleanup \/ ReadBeyondEnd \/ check_for_fatal_error \/ wait_for_input
  BY <1>6 DEF Cleanup, CloseKernelImage, FreeHeader, FreeProgramHeaders, ReadBeyondEnd,
              check_for_fatal_error, wait_for_input
<1>7. CASE Firmware \/ UNCHANGED vars
  BY <1>7 DEF Firmware, FirmwareTakes, FirmwareGives
<1>8. CASE load_segment_SetMem_wraps
  BY <1>8 DEF load_segment_SetMem_wraps
<1> QED
  BY <1>1, <1>2, <1>3, <1>4, <1>5, <1>6, <1>7, <1>8 DEF Next, load_kernel_image, LoadSegments

\* The loader comes to hold a page only with a segment that is granted.
LEMMA OwnsPassedStep ==
  ASSUME IInv, OwnsPassed, [Next]_vars
  PROVE  OwnsPassed'
<1> DEFINE Holds(a) == pc \in AfterTable /\ \E i \in 1 .. p :
                         /\ i < p \/ pc \in Granted
                         /\ phdrs[i].type = PT_LOAD /\ a \in Claim(phdrs[i])
<1> SUFFICES ASSUME ~Done', NEW a \in Addr, owner'[a] = "loader" PROVE Holds(a)'
  BY DEF OwnsPassed
<1>0. p \in Nat \ {0} /\ (owner[a] = "loader" /\ ~Done => Holds(a))
  BY DEF OwnsPassed, IInv, TypeOK
<1> USE DEF InSegment, AfterLoop, AfterTable, Granted, seg, vars, ioVars, bufVars, loopVars,
            memVars, Calls, Goto, Return, FatalError, SetPosition, AllocatePool, FreePool, NoResult, Crash,
            Done
<1>1. CASE ReadHeaders
  BY <1>0, <1>1
  DEF ReadHeaders, OpenKernelImage, read_elf_identity_SetPosition, read_elf_identity_AllocatePool,
      read_elf_identity_Read, ValidateIdentity, FreeIdentity, read_elf_file_SetPosition,
      read_elf_file_AllocatePool, read_elf_file_Read, read_elf_file_SetPosition2,
      read_elf_file_AllocatePool2, read_elf_file_Read2
<1>2. CASE load_program_segments
  <2>1. p = 1 /\ pc = "load_program_segments" /\ owner' = owner
    BY <1>2 DEF load_program_segments, IInv, LoopBounds
  <2> QED
    BY <1>0, <2>1
<1>3. CASE SkipHeader
  <2>1. pc = "next" /\ pc' = "next" /\ p' = p + 1 /\ UNCHANGED <<phdrs, owner>>
    BY <1>3 DEF SkipHeader
  <2>2. PICK i \in 1 .. p : i < p /\ phdrs[i].type = PT_LOAD /\ a \in Claim(phdrs[i])
    BY <1>0, <2>1
  <2> QED
    BY <1>0, <2>1, <2>2
<1>4. CASE LoadHeader \/ EndOfHeaders \/ load_segment_SetPosition \/ load_segment_AllocatePool
           \/ load_segment_Read \/ load_segment_CopyMem \/ load_segment_FreePool \/ Cleanup
  <2>1. pc \in AfterTable /\ pc' \in AfterTable /\ (pc \in Granted => pc' \in Granted)
        /\ UNCHANGED <<phdrs, p, owner>>
    BY <1>4 DEF LoadHeader, EndOfHeaders, load_segment_SetPosition,
     load_segment_AllocatePool, load_segment_Read, load_segment_CopyMem, load_segment_FreePool,
     Cleanup, CloseKernelImage, FreeHeader, FreeProgramHeaders
  <2>2. \A h : Claim(h)' = Claim(h)
    BY DEF Claim, Span, SizeToPages
  <2> QED
    BY <1>0, <2>1, <2>2
<1>5. CASE load_segment_AllocatePages
  <2>1. pc = "segment.AllocatePages" /\ pc' \in Granted /\ UNCHANGED <<phdrs, p>>
        /\ (a \in Claim(seg) \/ owner[a] = "loader")
    BY <1>5 DEF load_segment_AllocatePages, IInv, TypeOK
  <2>2. seg.type = PT_LOAD
    BY <2>1 DEF IInv, LoopBounds
  <2>3. p \in 1 .. p
    BY <1>0
  <2>4. CASE a \in Claim(seg)
    BY <2>1, <2>2, <2>3, <2>4
  <2>5. CASE owner[a] = "loader"
    BY <1>0, <2>1, <2>5
  <2> QED
    BY <2>1, <2>4, <2>5
<1>6. CASE load_segment_SetMem
  <2>1. pc = "SetMem" /\ p' = p + 1 /\ UNCHANGED <<phdrs, owner>> /\ pc' \in AfterTable
    BY <1>6 DEF load_segment_SetMem
  <2>2. PICK i \in 1 .. p : phdrs[i].type = PT_LOAD /\ a \in Claim(phdrs[i])
    BY <1>0, <2>1
  <2>3. i \in 1 .. p' /\ i < p'
    BY <1>0, <2>1
  <2> QED
    BY <2>1, <2>2, <2>3
<1>7. CASE load_segment_AllocatePages_refused \/ ReadBeyondEnd \/ check_for_fatal_error
           \/ wait_for_input
  BY <1>7 DEF load_segment_AllocatePages_refused, ReadBeyondEnd, check_for_fatal_error,
              wait_for_input
<1>8. CASE Firmware
  <2>1. PICK b \in Addr : FirmwareTakes(b) \/ FirmwareGives(b)
    BY <1>8 DEF Firmware
  <2>2. owner[a] = "loader" /\ UNCHANGED <<pc, phdrs, p>>
    BY <2>1 DEF FirmwareTakes, FirmwareGives
  <2> QED
    BY <1>0, <2>2
<1>9. CASE UNCHANGED vars
  BY <1>0, <1>9
<1>10. CASE load_segment_SetMem_wraps
  BY <1>10 DEF load_segment_SetMem_wraps
<1> QED
  BY <1>1, <1>2, <1>3, <1>4, <1>5, <1>6, <1>7, <1>8, <1>9, <1>10
  DEF Next, load_kernel_image, LoadSegments

\* A file with a loadable segment has its program header table before its end.
LEMMA TableBegins ==
  ASSUME img \in Images, Intact, NEW i \in DOMAIN img.ph
  PROVE  img.ehdr.phoff <= img.size
<1>1. img.ehdr.phoff \in Nat /\ img.size \in Nat /\ img.ehdr.phnum \in Nat
      /\ DOMAIN img.ph = 1 .. img.ehdr.phnum
  BY ImageFields
<1>2. i \in Nat /\ PhdrSize[img.ident.class] \in Nat
  BY <1>1, MachineAssumption DEF Intact
<1>3. i * PhdrSize[img.ident.class] \in Nat
  BY <1>2, SMT
<1> QED
  BY <1>1, <1>3 DEF Intact

\* No read of a loadable file begins beyond its end.
LEMMA NothingBeyondEnd ==
  ASSUME IInv, Loadable, ReadBeyondEnd
  PROVE  FALSE
<1>1. img \in Images /\ img.size \in Nat /\ Intact /\ fpos > img.size
  BY ImageFields DEF IInv, TypeOK, Loadable, ReadBeyondEnd
<1>2. CASE pc \in {"identity.Read", "header.Read"}
  BY <1>1, <1>2 DEF IInv, Positioned
<1>3. CASE pc = "phdrs.Read"
  <2>1. fpos = img.ehdr.phoff
    BY <1>1, <1>3 DEF IInv, Positioned, BuffersRead, AfterEhdr
  <2> QED
    BY <1>1, <2>1, TableBegins, ImageFields DEF Loadable
<1>4. CASE pc = "segment.Read"
  <2>1. fpos = seg.off /\ p \in DOMAIN phdrs /\ phdrs = img.ph /\ seg.type = PT_LOAD
    BY <1>1, <1>4 DEF IInv, Positioned, BuffersRead, LoopBounds, TypeOK, InSegment, AfterTable
  <2>2. seg.off \in Nat /\ seg.filesz \in Nat
    BY <1>4, SegmentHeader DEF IInv, InSegment
  <2>3. seg.off + seg.filesz <= img.size
    BY <1>1, <2>1 DEF Intact, seg
  <2> QED
    BY <1>1, <2>1, <2>2, <2>3
<1> QED
  BY <1>2, <1>3, <1>4 DEF ReadBeyondEnd

\* Of a loadable file AllocatePages refuses only a page that the firmware holds.
LEMMA RefusedByFirmware ==
  ASSUME IInv, OwnsPassed, Loadable, pc = "segment.AllocatePages",
         ~Grantable(seg) \/ seg.memsz = 0
  PROVE  \E a \in Addr : a \in Claim(seg) /\ owner[a] = "firmware"
<1>1. /\ phdrs = img.ph /\ p \in DOMAIN img.ph /\ p \in Nat /\ img.ph[p].type = PT_LOAD
      /\ DOMAIN img.ph = 1 .. ehdr.phnum /\ ehdr.phnum \in Nat /\ p <= ehdr.phnum
  BY DEF IInv, BuffersRead, LoopBounds, TypeOK, InSegment, AfterTable, Loadable, seg
<1>2. seg = img.ph[p] /\ seg \in Phdrs /\ seg.memsz \in Nat
  BY <1>1, SegmentHeader DEF IInv, InSegment, seg
<1>3. /\ seg.memsz > 0 /\ seg.paddr % PageSize = 0
      /\ \A a \in Span(seg.paddr, seg.memsz) : Page(a) \subseteq Addr
  BY <1>1, <1>2 DEF Loadable
<1>4. PICK a \in Claim(seg) : ~(a \in Addr /\ owner[a] = "free")
  BY <1>2, <1>3 DEF Grantable
<1>5. a \in Nat /\ PageStart(a) \in Span(seg.paddr, seg.memsz)
  BY <1>2, <1>3, <1>4, ClaimStarts
<1>6. /\ PageStart(a) \in Nat /\ Page(PageStart(a)) = Page(a)
      /\ a \in Page(a) /\ PageStart(a) \in Page(a)
  <2>1. PageStart(a) \in Nat /\ PageStart(a) <= a /\ a < PageStart(a) + PageSize
        /\ PageStart(a) \div PageSize = a \div PageSize /\ PageSize \in Nat
    BY <1>5, StartOfPage, MachineAssumption
  <2>2. Page(PageStart(a)) = Page(a)
    BY <2>1 DEF Page
  <2>3. Page(a) = PageStart(a) .. (PageStart(a) + PageSize - 1)
    BY DEF Page, Span, PageStart
  <2> QED
    BY <1>5, <2>1, <2>2, <2>3
<1>7. a \in Addr
  BY <1>3, <1>5, <1>6
<1>8. owner[a] # "loader"
  <2> SUFFICES ASSUME owner[a] = "loader" PROVE FALSE
    OBVIOUS
  <2>1. PICK i \in 1 .. p - 1 : phdrs[i].type = PT_LOAD /\ a \in Claim(phdrs[i])
    BY <1>1, <1>7 DEF OwnsPassed, Done, Granted
  <2>2. i \in DOMAIN img.ph /\ i # p /\ img.ph[i].type = PT_LOAD /\ img.ph[i] \in Phdrs
    BY <1>1, <2>1 DEF IInv, TypeOK
  <2>3. img.ph[i].memsz > 0 /\ img.ph[i].paddr % PageSize = 0
    BY <2>2 DEF Loadable
  <2>4. PageStart(a) \in Span(img.ph[i].paddr, img.ph[i].memsz)
    BY <1>1, <2>1, <2>2, <2>3, ClaimStarts
  <2>5. Page(PageStart(a)) \cap Span(img.ph[i].paddr, img.ph[i].memsz) = {}
    BY <1>1, <1>2, <1>5, <2>2 DEF Loadable
  <2> QED
    BY <1>6, <2>4, <2>5
<1> QED
  BY <1>4, <1>7, <1>8 DEF IInv, TypeOK

\* A loadable file has no overlong segment to load.
LEMMA NotSpilling ==
  ASSUME IInv, Loadable
  PROVE  ~Spilling
<1> SUFFICES ASSUME pc \in {"CopyMem", "segment.FreePool", "SetMem"} PROVE ~Overlong(seg)
  BY DEF Spilling
<1>1. phdrs = img.ph /\ p \in DOMAIN img.ph /\ seg.type = PT_LOAD
  BY DEF IInv, BuffersRead, LoopBounds, TypeOK, InSegment, AfterTable, Loadable
<1> QED
  BY <1>1 DEF Loadable, seg

\* A step ends with an error on a loadable file only when the firmware fails it.
LEMMA GoodStep ==
  ASSUME IInv, NonePassed, OwnsPassed, GoodImageLoads, [Next]_vars
  PROVE  GoodImageLoads'
<1> SUFFICES ASSUME Done', Loadable', ~fault' PROVE status' = "SUCCESS" /\ pc' # "crashed"
  BY StatusStep DEF GoodImageLoads, Status, Done, Succeeded
<1>1. UNCHANGED img
  BY DEF Next, vars, load_kernel_image, ReadHeaders, LoadSegments, Cleanup, Firmware, FirmwareTakes,
         FirmwareGives, SetPosition, AllocatePool, FreePool, OpenKernelImage,
         read_elf_identity_SetPosition, read_elf_identity_AllocatePool, read_elf_identity_Read,
         ValidateIdentity, FreeIdentity, read_elf_file_SetPosition, read_elf_file_AllocatePool,
         read_elf_file_Read, read_elf_file_SetPosition2, read_elf_file_AllocatePool2,
         read_elf_file_Read2, load_program_segments, SkipHeader, LoadHeader, EndOfHeaders,
         load_segment_SetPosition, load_segment_AllocatePages, load_segment_AllocatePages_refused,
         load_segment_AllocatePool, load_segment_Read, load_segment_CopyMem, load_segment_FreePool,
         load_segment_SetMem, load_segment_SetMem_wraps, CloseKernelImage, FreeHeader,
         FreeProgramHeaders, check_for_fatal_error, ReadBeyondEnd, wait_for_input
<1>2. Loadable
  BY <1>1 DEF Loadable, Intact, Span, Page, Overlong
<1>3. img \in Images /\ Intact /\ ~Spilling
  BY <1>2, NotSpilling DEF IInv, TypeOK, Loadable
<1> USE DEF Done, Succeeded, Goto, Return, FatalError, SetPosition, AllocatePool, FreePool, NoResult, Crash
<1>4. CASE OpenKernelImage \/ read_elf_identity_SetPosition \/ read_elf_identity_AllocatePool
           \/ read_elf_identity_Read \/ FreeIdentity \/ read_elf_file_SetPosition
           \/ read_elf_file_AllocatePool \/ read_elf_file_Read \/ read_elf_file_SetPosition2
           \/ read_elf_file_AllocatePool2 \/ read_elf_file_Read2
  BY <1>4 DEF OpenKernelImage, read_elf_identity_SetPosition, read_elf_identity_AllocatePool,
      read_elf_identity_Read, FreeIdentity, read_elf_file_SetPosition,
      read_elf_file_AllocatePool, read_elf_file_Read, read_elf_file_SetPosition2,
      read_elf_file_AllocatePool2, read_elf_file_Read2
<1>5. CASE ValidateIdentity
  <2>1. ident = img.ident
    BY <1>3, <1>5 DEF ValidateIdentity, IInv, IdentityAccepted, Intact
  <2>2. validate_elf_identity(ident) = "SUCCESS"
    BY <1>2, <1>3, <2>1 DEF validate_elf_identity, Loadable, Intact
  <2> QED
    BY <1>5, <2>2 DEF ValidateIdentity
<1>6. CASE load_program_segments
  <2>1. ehdr = img.ehdr /\ DOMAIN img.ph = 1 .. ehdr.phnum
    BY <1>3, <1>6, ImageFields DEF load_program_segments, IInv, BuffersRead, AfterEhdr, AfterTable
  <2>2. ehdr.phnum # 0
    BY <1>2, <2>1 DEF Loadable
  <2> QED
    BY <1>6, <2>2 DEF load_program_segments
<1>7. CASE EndOfHeaders
  <2>1. phdrs = img.ph /\ DOMAIN img.ph = 1 .. ehdr.phnum /\ p > ehdr.phnum
        /\ p \in Nat /\ ehdr.phnum \in Nat
    BY <1>3, <1>7 DEF EndOfHeaders, IInv, BuffersRead, LoopBounds, AfterTable, TypeOK
  <2>2. PICK i \in 1 .. ehdr.phnum : phdrs[i].type = PT_LOAD
    BY <1>2, <2>1 DEF Loadable
  <2>3. i \in 1 .. p - 1
    BY <2>1
  <2>4. nLoaded # 0
    BY <1>7, <2>2, <2>3 DEF EndOfHeaders, NonePassed, AfterTable
  <2> QED
    BY <1>7, <2>4 DEF EndOfHeaders
<1>8. CASE SkipHeader \/ LoadHeader \/ load_segment_SetPosition \/ load_segment_AllocatePages
           \/ load_segment_AllocatePool \/ load_segment_Read \/ load_segment_CopyMem
           \/ load_segment_FreePool \/ load_segment_SetMem \/ load_segment_SetMem_wraps
  BY <1>3, <1>8 DEF SkipHeader, LoadHeader, load_segment_SetPosition, load_segment_AllocatePages,
     load_segment_AllocatePool, load_segment_Read, load_segment_CopyMem, load_segment_FreePool,
     load_segment_SetMem, load_segment_SetMem_wraps, Spilling
<1>9. CASE load_segment_AllocatePages_refused
  <2>1. \E a \in Addr : a \in Claim(seg) /\ owner[a] = "firmware"
    BY <1>2, <1>9, RefusedByFirmware DEF load_segment_AllocatePages_refused
  <2>2. fault' = TRUE
    BY <1>9, <2>1, Zenon DEF load_segment_AllocatePages_refused
  <2> QED
    BY <2>2
<1>10. CASE Cleanup
  BY <1>10 DEF Cleanup, CloseKernelImage, FreeHeader, FreeProgramHeaders, IInv, Status
<1>11. CASE ReadBeyondEnd
  BY <1>2, <1>11, NothingBeyondEnd
<1>12. CASE check_for_fatal_error
  BY <1>12 DEF check_for_fatal_error
<1>13. CASE wait_for_input
  BY <1>2, <1>13 DEF wait_for_input, GoodImageLoads
<1>14. CASE Firmware
  BY <1>2, <1>14 DEF Firmware, FirmwareTakes, FirmwareGives, GoodImageLoads
<1>15. CASE UNCHANGED vars
  BY <1>2, <1>15 DEF vars, GoodImageLoads
<1> QED
  BY <1>4, <1>5, <1>6, <1>7, <1>8, <1>9, <1>10, <1>11, <1>12, <1>13, <1>14, <1>15
  DEF Next, load_kernel_image, ReadHeaders, LoadSegments

\* What it takes besides holds at the start, and every step keeps it.
LEMMA InitGoodInv == Init => GoodInv
BY DEF Init, GoodInv, NonePassed, OwnsPassed, GoodImageLoads, Succeeded, Done, AfterTable, InSegment, AfterLoop

LEMMA NextGoodInv == IInv /\ GoodInv /\ [Next]_vars => GoodInv'
BY NonePassedStep, OwnsPassedStep, GoodStep DEF GoodInv

\* A kernel that AllocateAddress can serve is loaded, whatever the number of its
\* segments, unless the firmware fails a call or holds a page it needs.
THEOREM GoodImagesLoad == Spec => []GoodImageLoads
<1>1. GoodInv => GoodImageLoads
  BY DEF GoodInv
<1> QED
  BY <1>1, InitGoodInv, NextGoodInv, Invariance, PTL DEF Spec

-----------------------------------------------------------------------------
(* Refinement.                                                               *)

\* A step that changes neither memory nor its owners maps to a stuttering step
\* while the outcome stays as it is, and to a failure or the meeting of an overlong
\* segment when it becomes one.
LEMMA QuietStep ==
  ASSUME UNCHANGED <<img, mem, owner>>,
         \/ Outcome' = Outcome
         \/ Outcome = "loading" /\ Outcome' \in {"overlong", "failed"}
         \/ Outcome = "overlong" /\ Outcome' = "failed"
  PROVE  [Abstract!Next]_(Abstract!vars)
BY DEF Abstract!Next, Abstract!vars, Abstract!Fails, Abstract!MeetsOverlong, Abstract!Spills, Intact

\* Every step of the loader is a step of its abstract specification.
LEMMA RefinementStep ==
  ASSUME IInv, Status', KernelInPlace', [Next]_vars
  PROVE  [Abstract!Next]_(Abstract!vars)
<1> USE DEF vars, ioVars, bufVars, loopVars, memVars, Calls, Goto, Return, FatalError
<1>0. /\ pc = "wait_for_input" => status # "SUCCESS"
      /\ pc' = "wait_for_input" => status' # "SUCCESS"
  BY DEF IInv, Status
<1>1. CASE ReadHeaders
  BY <1>1, QuietStep, ValidateResult
  DEF Outcome, Spilling, Done, Succeeded, ReadHeaders, SetPosition, AllocatePool, FreePool,
         OpenKernelImage, read_elf_identity_SetPosition, read_elf_identity_AllocatePool,
         read_elf_identity_Read, ValidateIdentity, FreeIdentity, read_elf_file_SetPosition,
         read_elf_file_AllocatePool, read_elf_file_Read, read_elf_file_SetPosition2,
         read_elf_file_AllocatePool2, read_elf_file_Read2
<1>2. CASE load_program_segments \/ SkipHeader \/ LoadHeader \/ EndOfHeaders
  BY <1>2, QuietStep
  DEF Outcome, Spilling, Done, Succeeded, load_program_segments, SkipHeader, LoadHeader, EndOfHeaders
<1>3. CASE load_segment_SetPosition \/ load_segment_AllocatePages_refused
           \/ load_segment_AllocatePool \/ load_segment_Read \/ load_segment_FreePool
  BY <1>3, QuietStep
  DEF Outcome, Spilling, Done, Succeeded, SetPosition, load_segment_SetPosition,
         load_segment_AllocatePages_refused, load_segment_AllocatePool, load_segment_Read,
         load_segment_FreePool, Overlong, seg
<1>4. CASE load_segment_AllocatePages
  <2>1. /\ UNCHANGED <<img, mem>> /\ Outcome = "loading" /\ Outcome' = "loading"
    <3>1. seg.filesz \in Nat /\ seg.memsz \in Nat /\ pc = "segment.AllocatePages"
      BY <1>4, SegmentHeader DEF load_segment_AllocatePages, IInv, InSegment
    <3>2. UNCHANGED <<img, mem, phdrs, p>> /\ pc' = IF seg.filesz > 0 THEN "segment.AllocatePool" ELSE "SetMem"
      BY <1>4 DEF load_segment_AllocatePages
    <3>3. ~Spilling /\ ~Spilling'
      BY <3>1, <3>2 DEF Spilling, Overlong, seg
    <3> QED
      BY <3>1, <3>2, <3>3 DEF Outcome, Done
  <2>2. \A a \in Addr : owner'[a] # owner[a] => owner[a] = "free" /\ owner'[a] = "loader"
    BY <1>4 DEF load_segment_AllocatePages, Grantable, IInv, TypeOK
  <2>3. Abstract!Claims
    BY <2>1, <2>2 DEF Abstract!Claims, Intact
  <2> QED BY <2>3 DEF Abstract!Next
<1>5. CASE (load_segment_CopyMem \/ load_segment_SetMem) /\ ~Spilling
  <2>0. /\ UNCHANGED <<img, owner>> /\ pc \in {"CopyMem", "SetMem"}
        /\ pc' \in {"segment.FreePool", "next", "wait_for_input"}
        /\ pc' = "segment.FreePool" => pc = "CopyMem" /\ UNCHANGED <<phdrs, p>>
    BY <1>5 DEF load_segment_CopyMem, load_segment_SetMem, NoResult, Crash, Spilling
  <2>1. Outcome = "loading" /\ Outcome' \in {"loading", "failed"}
    <3>1. ~Spilling'
      BY <1>5, <2>0 DEF Spilling, Overlong, seg
    <3> QED
      BY <1>0, <1>5, <2>0, <3>1 DEF Outcome, Done, Succeeded
  <2>2. \A a \in Addr : mem'[a] # mem[a] => owner[a] = "loader"
    BY <1>5, OwnPagesStep
  <2>3. Abstract!Writes
    BY <2>0, <2>1, <2>2 DEF Abstract!Writes, Intact
  <2> QED BY <2>3 DEF Abstract!Next
<1>11. CASE (load_segment_CopyMem \/ load_segment_SetMem \/ load_segment_SetMem_wraps) /\ Spilling
  <2>1. /\ UNCHANGED <<img, owner>>
        /\ \/ pc' = "segment.FreePool" /\ UNCHANGED <<phdrs, p>>
           \/ pc' \in {"wait_for_input", "crashed"}
    BY <1>11 DEF load_segment_CopyMem, load_segment_SetMem, load_segment_SetMem_wraps, NoResult,
                 Crash, Spilling
  <2>2. Outcome = "overlong" /\ Outcome' \in {"overlong", "failed", "crashed"}
    <3>1. pc' = "segment.FreePool" => Spilling'
      BY <1>11, <2>1 DEF Spilling, Overlong, seg
    <3>2. pc' # "segment.FreePool" => ~Spilling' /\ Done' /\ ~Succeeded'
      BY <2>1 DEF Spilling, Done, Succeeded
    <3> QED
      BY <1>11, <2>1, <3>1, <3>2 DEF Outcome, Spilling, Done
  <2>3. Abstract!Spills
    BY <2>1, <2>2 DEF Abstract!Spills, Intact
  <2> QED BY <2>3 DEF Abstract!Next
<1>12. CASE load_segment_SetMem_wraps /\ ~Spilling
  BY <1>12 DEF load_segment_SetMem_wraps, Spilling
<1>6. CASE CloseKernelImage \/ FreeHeader \/ check_for_fatal_error \/ ReadBeyondEnd
  BY <1>6, QuietStep
  DEF Outcome, Spilling, Done, Succeeded, CloseKernelImage, FreeHeader, FreePool,
      check_for_fatal_error, ReadBeyondEnd
<1>7. CASE FreeProgramHeaders
  <2>1. /\ UNCHANGED <<img, mem, owner>> /\ Outcome = "loading" /\ Outcome' = "loaded"
        /\ Succeeded'
    BY <1>7 DEF FreeProgramHeaders, FreePool, Outcome, Spilling, Done, Succeeded, IInv, Status
  <2>2. ASSUME Intact, NEW w \in Wanted(img)
        PROVE  w[1] \in Addr /\ owner[w[1]] = "loader" /\ mem[w[1]] = w[2]
    <3>1. PICK i \in DOMAIN img.ph : img.ph[i].type = PT_LOAD /\
            \E k \in 0 .. img.ph[i].memsz - 1 :
              w = <<img.ph[i].paddr + k, IF k < img.ph[i].filesz THEN img.ph[i].off + k ELSE Zero>>
      BY <2>2 DEF Wanted
    <3> DEFINE h == img.ph[i]
    <3>2. /\ InPlace(h) /\ \A a \in Span(h.paddr, h.memsz) : owner[a] = "loader"
      BY <2>1, <2>2, <3>1 DEF KernelInPlace, Intact, InPlace
    <3>3. h \in Phdrs /\ h.paddr \in Nat /\ h.memsz \in Nat
      BY <3>1, ImageFields, HeaderFields DEF IInv, TypeOK
    <3>4. PICK k \in 0 .. h.memsz - 1 :
            w = <<h.paddr + k, IF k < h.filesz THEN h.off + k ELSE Zero>>
      BY <3>1
    <3> HIDE DEF h
    <3>5. h.paddr + k \in Span(h.paddr, h.memsz)
      BY <3>3 DEF Span
    <3> QED BY <3>2, <3>4, <3>5 DEF InPlace
  <2>3. Abstract!Loads
    BY <2>1, <2>2 DEF Abstract!Loads, Intact
  <2> QED BY <2>3 DEF Abstract!Next
<1>8. CASE wait_for_input
  BY <1>8, <1>0, QuietStep DEF wait_for_input, Outcome, Spilling, Done, Succeeded
<1>9. CASE Firmware
  <2>1. PICK a \in Addr : FirmwareTakes(a) \/ FirmwareGives(a)
    BY <1>9 DEF Firmware
  <2>2. UNCHANGED <<img, mem>> /\ Outcome' = Outcome
    BY <2>1 DEF FirmwareTakes, FirmwareGives, Outcome, Spilling, Overlong, seg, Done, Succeeded
  <2>3. \A b \in Addr : owner'[b] # owner[b] => {owner[b], owner'[b]} = {"free", "firmware"}
    BY <2>1 DEF FirmwareTakes, FirmwareGives
  <2>4. Abstract!Firmware
    BY <2>2, <2>3 DEF Abstract!Firmware, Intact
  <2> QED BY <2>4 DEF Abstract!Next
<1>10. CASE UNCHANGED vars
  BY <1>10, QuietStep DEF Outcome, Spilling, Overlong, seg, Done, Succeeded
<1> QED
  BY <1>1, <1>2, <1>3, <1>4, <1>5, <1>6, <1>7, <1>8, <1>9, <1>10, <1>11, <1>12
  DEF Next, load_kernel_image, LoadSegments, Cleanup

\* load_kernel_image implements KernelLoad: it claims only free memory, writes
\* only what it has claimed until it meets an overlong segment, with which it
\* cannot succeed, and reports success only with the kernel in place, which stays
\* there.
THEOREM Implements == Spec => ImplementsKernelLoad
<1>1. Init => Abstract!Init
  BY DEF Init, Abstract!Init, Outcome, Spilling, Done
<1>2. IInv /\ Status' /\ KernelInPlace' /\ [Next]_vars => [Abstract!Next]_(Abstract!vars)
  BY RefinementStep
<1>3. IInv => Status
  BY DEF IInv
<1> QED
  BY <1>1, <1>2, <1>3, Invariance, SegmentsInPlace, PTL DEF Spec, ImplementsKernelLoad, Abstract!Spec

=============================================================================
