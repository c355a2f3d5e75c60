--------------------------- MODULE MCChannelTable ---------------------------
(* Instances of the handle table: three boundaries with a lane each.       *)
EXTENDS ChannelTable, TLC

CONSTANTS lx, ly, lz, x, y, z, c1, c2, g1

OneLaneEach == (lx :> x) @@ (ly :> y) @@ (lz :> z)
TwoLanes == (lx :> x) @@ (ly :> y)
OneSlot == [c \in Channel |-> 1]

(* The boundaries may be exchanged, each with its lane; so may channels.   *)
LaneIn(b) == CHOOSE l \in Lane : BoundaryOf[l] = b
Exchanges ==
    {p @@ q @@ [l \in Lane |-> LaneIn(p[BoundaryOf[l]])]
        : p \in Permutations(Boundary), q \in Permutations(Channel)}

(* The calls that hand out handles, without those that use them.           *)
HandleNext == \E l \in Lane : open_channel(l) \/ Handshake(l) \/ Lattice(l)
=============================================================================
