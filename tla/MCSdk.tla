-------------------------------- MODULE MCSdk -------------------------------
(* Two containers: lp and its children lw and lv in bx, the listener lq in by. *)
EXTENDS Sdk, TLC

CONSTANTS lp, lw, lv, lq, bx, by, r1, r2

HomeDef == [l \in Lane |-> IF l = lq THEN by ELSE bx]
ChannelDef == {Completion(l) : l \in Lane} \cup {Doorbell(b) : b \in Boundary}
                \cup {AcceptSignal(r) : r \in Request}
OneSlot == [c \in Channel |-> 1]
Nobody == [c \in Channel |-> {}]

(* Requests are alike, and so are the lanes lp may make.                   *)
Alike == {f @@ g : f \in Permutations(Request), g \in Permutations({lw, lv})}
=============================================================================
