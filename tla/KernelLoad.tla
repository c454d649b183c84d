----------------------------- MODULE KernelLoad -----------------------------
(* What load_kernel_image promises its caller, whatever it does in between:    *)
(* it claims free memory, writes to what it has claimed, and ends either with  *)
(* the kernel where its file wants it or with an error.  Memory it has claimed *)
(* is never given back, and after its end nothing touches it.  An overlong     *)
(* segment, one with more data in the file than memory, is the exception: what *)
(* it writes then can be anywhere, but it can no longer succeed.  Loader       *)
(* implements this.                                                            *)
CONSTANT Addr   \* the physical addresses

VARIABLES
  wanted,   \* what the file demands: a set of pairs of an address and its byte
  outcome,  \* "loading", "overlong", "loaded", "failed" or "crashed"
  mem,      \* contents of physical memory
  owner     \* who holds each address

vars == <<wanted, outcome, mem, owner>>

Init == outcome = "loading" /\ \A a \in Addr : owner[a] # "loader"

\* Pages are claimed from what is free.
Claims ==
  /\ outcome = "loading"
  /\ \A a \in Addr : owner'[a] # owner[a] => owner[a] = "free" /\ owner'[a] = "loader"
  /\ UNCHANGED <<wanted, outcome, mem>>

\* Claimed memory is written to, and the write may come with an error.
Writes ==
  /\ outcome = "loading" /\ outcome' \in {"loading", "failed"}
  /\ \A a \in Addr : mem'[a] # mem[a] => owner[a] = "loader"
  /\ UNCHANGED <<wanted, owner>>

Loads ==
  /\ outcome = "loading" /\ outcome' = "loaded"
  /\ \A w \in wanted : w[1] \in Addr /\ owner[w[1]] = "loader" /\ mem[w[1]] = w[2]
  /\ UNCHANGED <<wanted, mem, owner>>

Fails ==
  /\ outcome = "loading" /\ outcome' = "failed"
  /\ UNCHANGED <<wanted, mem, owner>>

\* The next segment to be copied is an overlong one.
MeetsOverlong ==
  /\ outcome = "loading" /\ outcome' = "overlong"
  /\ UNCHANGED <<wanted, mem, owner>>

\* It is copied and zero-filled over whatever comes behind its pages.
Spills ==
  /\ outcome = "overlong" /\ outcome' \in {"overlong", "failed", "crashed"}
  /\ UNCHANGED <<wanted, owner>>

\* The firmware's drivers trade free memory with each other only.
Firmware ==
  /\ \A a \in Addr : owner'[a] # owner[a] => {owner[a], owner'[a]} = {"free", "firmware"}
  /\ UNCHANGED <<wanted, outcome, mem>>

Next == Claims \/ Writes \/ Loads \/ Fails \/ MeetsOverlong \/ Spills \/ Firmware

Spec == Init /\ [][Next]_vars

=============================================================================
