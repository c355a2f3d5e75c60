------------------------------- MODULE Frames -------------------------------
(***************************************************************************)
(* The physical frame allocator, cibos-kernel/src/frame.rs, as functions   *)
(* of its state: the set of frames whose bitmap bit is set, the counter,   *)
(* the search hint, and the number of frames the bitmap covers.            *)
(***************************************************************************)
EXTENDS Integers, FiniteSets

CONSTANT FRAME_SIZE   \* bytes in a frame

NoFrame == -1

CeilDiv(n, k) == (n + k - 1) \div k

Least(S) == CHOOSE x \in S : \A y \in S : x <= y
Greatest(S) == CHOOSE x \in S : \A y \in S : y <= x

\* The frames fully inside a region.
FramesIn(r) == CeilDiv(r.base, FRAME_SIZE) .. (r.end \div FRAME_SIZE) - 1

from_regions(regions, reserved_below) ==
  LET usable   == {r \in regions : r.usable}
      count    == IF usable = {} THEN 0
                  ELSE Greatest({r.end : r \in usable}) \div FRAME_SIZE
      reserved == CeilDiv(reserved_below, FRAME_SIZE)
      free     == {f \in UNION {FramesIn(r) : r \in usable} : f >= reserved}
      taken    == (0 .. count - 1) \ free
  IN  [count |-> count, taken |-> taken, allocated |-> Cardinality(taken),
       next_hint |-> reserved]

FreeFrames(a) == (0 .. a.count - 1) \ a.taken

\* The frame allocate finds: from the hint to the end, then from the start.
Found(a) ==
  LET ahead == {f \in FreeFrames(a) : f >= a.next_hint}
  IN  IF FreeFrames(a) = {} THEN NoFrame
      ELSE IF ahead # {} THEN Least(ahead) ELSE Least(FreeFrames(a))

allocate(a) ==
  IF Found(a) = NoFrame THEN a
  ELSE [a EXCEPT !.taken = a.taken \cup {Found(a)},
                 !.allocated = a.allocated + 1,
                 !.next_hint = Found(a) + 1]

\* The starts of the runs of n free frames; the scan takes the first.
Runs(a, n) == {f \in FreeFrames(a) : f .. f + n - 1 \subseteq FreeFrames(a)}

allocate_contiguous(a, n) ==
  LET first == Least(Runs(a, n)) IN
  [a EXCEPT !.taken = a.taken \cup first .. first + n - 1,
            !.allocated = a.allocated + n]

\* Ignored for a frame that is free already, or beyond the bitmap.
free(a, f) ==
  IF f \notin a.taken THEN a
  ELSE [a EXCEPT !.taken = a.taken \ {f},
                 !.allocated = IF a.allocated = 0 THEN 0 ELSE a.allocated - 1,
                 !.next_hint = IF f < a.next_hint THEN f ELSE a.next_hint]
=============================================================================
