------------------------------ MODULE BootInfo ------------------------------
(* The boot info structure as the two programs declare it: Kernel_Boot_Info of *)
(* the bootloader (bootloader.h) and Boot_Info of the kernel (boot.h), each a   *)
(* sequence of members laid out by the rules of the x86_64 ABI.                 *)
EXTENDS Integers, Sequences

Member(name, size) == [name |-> name, size |-> size]

\* VOID*, EFI_MEMORY_DESCRIPTOR* and UINTN are as wide as a register.
Kernel_Boot_Info ==
  <<Member("memory_map", 8), Member("memory_map_size", 8), Member("memory_map_descriptor_size", 8),
    Member("framebuffer_pointer", 8), Member("horizontal_resolution", 4),
    Member("vertical_resolution", 4), Member("pixels_per_scanline", 4)>>

\* mmap_size and mmap_descriptor_size are memory_map_size and
\* memory_map_descriptor_size here.
Boot_Info ==
  <<Member("memory_map", 8), Member("memory_map_size", 8), Member("memory_map_descriptor_size", 8),
    Member("framebuffer_pointer", 8), Member("horizontal_resolution", 4),
    Member("vertical_resolution", 4), Member("pixels_per_scanline", 4)>>

Aligned(offset, size) == ((offset + size - 1) \div size) * size

\* Where member n of a structure starts: after the one before, aligned to its size.
Offset(struct, n) ==
  LET at[k \in 1 .. n] ==
        IF k = 1 THEN 0 ELSE Aligned(at[k - 1] + struct[k - 1].size, struct[k].size)
  IN at[n]

\* The memory that holds a structure: offset and width of a member to its value.
Stored(struct, values) ==
  {<<Offset(struct, n), struct[n].size, values[struct[n].name]>> : n \in DOMAIN struct}

\* What a program that declares the structure so finds in a member.
Read(struct, memory, name) ==
  {m[3] : m \in {w \in memory : \E n \in DOMAIN struct :
     struct[n].name = name /\ w[1] = Offset(struct, n) /\ w[2] = struct[n].size}}

=============================================================================
