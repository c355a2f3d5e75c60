--------------------------- MODULE MCAddressSpace ---------------------------
(* Instances of AddressSpace for TLC.                                      *)
EXTENDS AddressSpace, TLC

\* Frames of four bytes.  A usable region that begins and ends inside frames,
\* a hole, and a second usable region.
MemoryMapDef ==
  {{[base |-> 0, end |-> 21, usable |-> TRUE],
    [base |-> 21, end |-> 35, usable |-> FALSE],
    [base |-> 35, end |-> 44, usable |-> TRUE]}}

\* Two frames of the hole that make a large page where the virtual address
\* allows one.
WindowDef == {[phys |-> 6, count |-> 2]}

Boundaries == Permutations(Boundary)
=============================================================================
