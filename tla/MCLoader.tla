------------------------------ MODULE MCLoader ------------------------------
(* Kernel files for TLC: pages of two bytes, ten addresses, an identity of one *)
(* byte, headers of two and three, table entries of one and two.               *)
EXTENDS LoaderInv

MCAddr == 0 .. 9
MCEhdrSize == [c \in {ELF_FILE_CLASS_32, ELF_FILE_CLASS_64} |-> c + 1]
MCPhdrSize == [c \in {ELF_FILE_CLASS_32, ELF_FILE_CLASS_64} |-> c]

PT_NOTE == 4
Hdr(type, off, filesz, memsz, paddr) ==
  [type |-> type, off |-> off, filesz |-> filesz, memsz |-> memsz, paddr |-> paddr]

Text   == Hdr(PT_LOAD, 7, 3, 3, 0)   \* ends inside its second page
Data   == Hdr(PT_LOAD, 10, 1, 4, 4)  \* data and .bss
Bss    == Hdr(PT_LOAD, 11, 0, 2, 8)  \* nothing in the file
Note   == Hdr(PT_NOTE, 5, 2, 2, 0)
Shared == Hdr(PT_LOAD, 10, 1, 1, 3)  \* off a page boundary, on Text's page
Below  == Hdr(PT_LOAD, 10, 1, 1, 2)  \* page-aligned, on Text's page
Empty  == Hdr(PT_LOAD, 10, 0, 0, 4)
Beyond == Hdr(PT_LOAD, 10, 1, 3, 8)  \* runs off the end of memory
Long   == Hdr(PT_LOAD, 7, 3, 1, 4)   \* more bytes in the file than in memory, and than a page
Slack  == Hdr(PT_LOAD, 10, 2, 1, 2)  \* the same, but within its page

Ident(elf, cl, lsb) == [elf |-> elf, class |-> cl, lsb |-> lsb]
Elf32 == Ident(TRUE, ELF_FILE_CLASS_32, TRUE)
Elf64 == Ident(TRUE, ELF_FILE_CLASS_64, TRUE)

Image(id, size, phoff, table) ==
  [size |-> size, ident |-> id, ph |-> table,
   ehdr |-> [entry |-> 5, phoff |-> phoff, phnum |-> Len(table)]]

WholeImages ==
  {Image(Elf64, 11, 3, <<Text, Data>>), Image(Elf64, 12, 3, <<Note, Text>>),
   Image(Elf32, 11, 3, <<Text, Data, Bss, Note>>), Image(Elf32, 11, 3, <<Data, Note, Text>>),
   Image(Elf64, 12, 3, <<Text, Shared>>), Image(Elf64, 12, 3, <<Text, Below>>),
   Image(Elf64, 12, 3, <<Empty, Text>>), Image(Elf32, 12, 3, <<Text, Beyond>>),
   Image(Elf64, 12, 3, <<Note, Note>>), Image(Elf64, 12, 3, << >>),
   Image(Elf64, 12, 3, <<Bss, Long>>), Image(Elf64, 12, 3, <<Slack, Data>>)}
MCPhdrs == {Text, Data, Bss, Note, Shared, Below, Empty, Beyond, Long, Slack}

\* The files are cut inside the data, the table, the header and the identity.
Cut(im, size) == [im EXCEPT !.size = size]
TruncatedImages ==
  {Cut(Image(Elf64, 11, 3, <<Text, Data>>), s) : s \in {0, 1, 2, 4, 6, 9, 10, 11}} \cup
  {Cut(Image(Elf32, 11, 12, <<Text>>), 11),
   Image(Ident(FALSE, ELF_FILE_CLASS_64, TRUE), 11, 3, <<Text, Data>>),
   Image(Ident(TRUE, 0, TRUE), 11, 3, <<Text, Data>>),
   Image(Ident(TRUE, ELF_FILE_CLASS_64, FALSE), 11, 3, <<Text, Data>>)}
ShortReadPhdrs == {Text, Data}

MCImages == WholeImages \cup TruncatedImages
=============================================================================
