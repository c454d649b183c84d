------------------------------ MODULE MCSystem ------------------------------
(* Five pages of two bytes, six kernel files, one or no video mode.           *)
EXTENDS System

Mode(width, height, format, pitch) ==
  [width |-> width, height |-> height, format |-> format, pitch |-> pitch, framebuffer |-> "vram"]

MCTarget == [width |-> 1024, height |-> 768, format |-> "BGR"]
MCNoVideo == [width |-> 0, height |-> 0, format |-> "none", pitch |-> 0, framebuffer |-> NULL]
MCModes == {Mode(1024, 768, "BGR", 1152), Mode(640, 480, "RGB", 640)}

MCAddr == 0 .. 9
MCEhdrSize == [c \in {1, 2} |-> c + 1]
MCPhdrSize == [c \in {1, 2} |-> c]

Hdr(off, filesz, memsz, paddr) ==
  [type |-> 1, off |-> off, filesz |-> filesz, memsz |-> memsz, paddr |-> paddr]
Text  == Hdr(7, 2, 2, 0)
Data  == Hdr(9, 1, 2, 2)   \* a byte of data and one of .bss
Below == Hdr(9, 1, 1, 0)   \* on Text's page
Long  == Hdr(7, 3, 1, 2)   \* more bytes in the file than in memory

Image(lsb, length, table) ==
  [size |-> length, ident |-> [elf |-> TRUE, class |-> 2, lsb |-> lsb], ph |-> table,
   ehdr |-> [entry |-> 1, phoff |-> 3, phnum |-> Len(table)]]

\* Two whole kernels, one cut inside its data, one that overlaps itself, one of the
\* other byte order and one with an overlong segment.
MCImages == {Image(TRUE, 10, <<Text, Data>>), Image(TRUE, 9, <<Text>>), Image(TRUE, 9, <<Text, Data>>),
             Image(TRUE, 10, <<Text, Below>>), Image(FALSE, 10, <<Text, Data>>),
             Image(TRUE, 10, <<Text, Long>>)}
MCPhdrs == {Text, Data, Below, Long}
=============================================================================
