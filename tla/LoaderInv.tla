----------------------------- MODULE LoaderInv ------------------------------
(* The inductive invariant of Loader: what LoaderProofs needs to know of the  *)
(* states between the firmware calls to prove the loader's safety properties. *)
EXTENDS Loader

InSegment  == {"segment.SetPosition", "segment.AllocatePages", "segment.AllocatePool",
               "segment.Read", "CopyMem", "segment.FreePool", "SetMem"}
AfterLoop  == {"Close", "header.FreePool", "phdrs.FreePool"}
AfterTable == {"load_program_segments", "next"} \cup InSegment \cup AfterLoop
AfterEhdr  == {"phdrs.SetPosition", "phdrs.AllocatePool", "phdrs.Read"} \cup AfterTable
AfterIdent == {"identity.FreePool", "header.SetPosition", "header.AllocatePool", "header.Read"}
              \cup AfterEhdr
Granted    == {"segment.AllocatePool", "segment.Read", "CopyMem", "segment.FreePool", "SetMem"}

\* Where the file position has to be.
Positioned ==
  /\ pc \in {"identity.AllocatePool", "identity.Read", "header.AllocatePool", "header.Read"}
       => fpos = 0
  /\ pc \in {"phdrs.AllocatePool", "phdrs.Read"} => fpos = ehdr.phoff
  /\ pc \in {"segment.AllocatePages", "segment.AllocatePool", "segment.Read"} => fpos = seg.off

\* The loop's counters against the table.
LoopBounds ==
  /\ pc \in AfterIdent => class \in {ELF_FILE_CLASS_32, ELF_FILE_CLASS_64}
  /\ pc \in AfterTable \/ Succeeded => DOMAIN phdrs = 1 .. ehdr.phnum /\ p <= ehdr.phnum + 1
  /\ ~Done /\ pc \notin AfterTable \ {"load_program_segments"} => p = 1 /\ nLoaded = 0
  /\ pc \in InSegment => p <= ehdr.phnum /\ seg.type = PT_LOAD
  /\ pc \in AfterLoop \/ Succeeded => p > ehdr.phnum /\ nLoaded > 0
  /\ nLoaded > 0 => \E i \in 1 .. p - 1 : i \in DOMAIN phdrs /\ phdrs[i].type = PT_LOAD

\* The buffers hold what the file holds, when the file holds it.
BuffersRead ==
  Intact =>
    /\ pc \in AfterIdent \/ Succeeded => class = img.ident.class
    /\ pc \in AfterEhdr \/ Succeeded => ehdr = img.ehdr
    /\ pc \in AfterTable \/ Succeeded => phdrs = img.ph
    /\ pc \in (AfterTable \ {"load_program_segments"}) \/ Succeeded => entry = ehdr.entry

Owned(h) == \A a \in Claim(h) : a \in Addr /\ owner[a] = "loader"

FilePart(h) == \A k \in 0 .. h.filesz - 1 : mem[h.paddr + k] = Content(h.off + k)
ZeroPart(h) == \A a \in ZeroFill(h) : mem[a] = Zero

\* An overlong segment has been copied over what was there.
Spilt == pc \in {"segment.FreePool", "SetMem"} /\ Overlong(seg)

\* The segments behind p are in memory, on pages the loader holds, unless an
\* overlong one has come after them; none of them is overlong.
EarlierLoaded ==
  pc \in AfterTable \/ Succeeded =>
    \A i \in 1 .. p - 1 : phdrs[i].type = PT_LOAD =>
      /\ ~Overlong(phdrs[i]) /\ Owned(phdrs[i])
      /\ ~Spilt => FilePart(phdrs[i]) /\ ZeroPart(phdrs[i])

\* The segment at p is on its way there, on pages no earlier one has.
SegmentUnderWay ==
  /\ pc \in Granted =>
       /\ Owned(seg)
       /\ \A i \in 1 .. p - 1 : phdrs[i].type = PT_LOAD => Claim(phdrs[i]) \cap Claim(seg) = {}
  /\ pc \in {"segment.Read", "CopyMem"} => DOMAIN data = 0 .. seg.filesz - 1
  /\ pc = "CopyMem" => \A k \in 0 .. seg.filesz - 1 : data[k] = Content(seg.off + k)
  /\ pc \in {"segment.FreePool", "SetMem"} /\ ~Spilt => FilePart(seg)

\* The buffers that are allocated, call by call.
Held == [c \in Calls \cup {"validate", "load_program_segments", "next", "CopyMem", "SetMem"} |->
  CASE c \in {"identity.Read", "validate", "identity.FreePool"}         -> {"identity"}
    [] c \in {"header.Read", "phdrs.SetPosition", "phdrs.AllocatePool"} -> {"header"}
    [] c \in {"segment.Read", "CopyMem", "segment.FreePool"}            -> {"header", "phdrs", "segment"}
    [] c = "phdrs.FreePool"                                             -> {"phdrs"}
    [] c \in {"Open", "identity.SetPosition", "identity.AllocatePool",
              "header.SetPosition", "header.AllocatePool"}              -> {}
    [] OTHER                                                            -> {"header", "phdrs"}]

Resources ==
  /\ ~Done => pool = Held[pc]
  /\ Succeeded => pool = {}
  /\ pc \in {"header.FreePool", "phdrs.FreePool"} \/ Succeeded => ~fileOpen

\* A run that has not failed has had no error status.
Status ==
  /\ pc = "wait_for_input" => status # "SUCCESS"
  /\ ~Done => status = "SUCCESS"

\* Nothing is allocated for the kernel before the identity is accepted.
Accepted == pc \in AfterIdent \/ Succeeded \/ \E a \in Addr : owner[a] = "loader"

IdentityAccepted ==
  /\ EI_NIDENT <= img.size /\ (pc = "validate" \/ Accepted) => ident = img.ident
  /\ ~Done /\ pc \notin AfterIdent => \A a \in Addr : owner[a] # "loader"
  /\ Accepted => ident.elf /\ ident.class \in {ELF_FILE_CLASS_32, ELF_FILE_CLASS_64} /\ ident.lsb

\* The invariant the proofs carry through every step of the loader.
IInv ==
  /\ TypeOK /\ Status /\ Positioned /\ LoopBounds /\ BuffersRead
  /\ EarlierLoaded /\ SegmentUnderWay /\ Resources /\ IdentityAccepted

\* While nothing is loaded, no header that has been passed asked for it.
NonePassed ==
  pc \in AfterTable /\ nLoaded = 0 => \A i \in 1 .. p - 1 : phdrs[i].type # PT_LOAD

\* Every page that is the loader's belongs to a segment it has been granted.
OwnsPassed ==
  ~Done => \A a \in Addr : owner[a] = "loader" =>
    /\ pc \in AfterTable
    /\ \E i \in 1 .. p : /\ i < p \/ pc \in Granted
                        /\ phdrs[i].type = PT_LOAD /\ a \in Claim(phdrs[i])

\* What it takes besides, to prove that a good image loads.
GoodInv == NonePassed /\ OwnsPassed /\ GoodImageLoads

=============================================================================
