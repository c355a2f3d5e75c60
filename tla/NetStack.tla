------------------------------ MODULE NetStack ------------------------------
(***************************************************************************)
(* The host's network stack (kernel-image/src/net_stack.rs, cibos-net):    *)
(* UDP with ARP resolution, answers to ARP and to echo requests, and the   *)
(* remote Links on top (boot.rs: link_send, link_recv).  One frame is      *)
(* taken from the NIC per poll; frames that resolve() is not waiting for   *)
(* are dropped.                                                            *)
(*                                                                         *)
(* The network is the environment.  Peers on the link answer ARP with      *)
(* their address, which may change; others are reached by the gateway,     *)
(* which answers for itself only.  Frames are lost, repeated, delayed and  *)
(* damaged: any peer may send any of its frames at any time, asked or not, *)
(* and a frame that finds the NIC full is gone.                            *)
(***************************************************************************)
EXTENDS Integers, Sequences, FiniteSets, FiniteSetsExt

CONSTANTS
    OnLink,         \* peers of the host's subnet
    Gateway,        \* one of them
    OffLink,        \* peers behind the gateway
    Macs,           \* hardware addresses peers may have
    CAP,            \* entries of the ARP cache
    Budget,         \* polls of resolve()
    NicLen,         \* frames the NIC holds
    MaxMoves        \* bound: changes of a peer's address

ASSUME NetAssumption ==
    /\ CAP \in Nat \ {0}
    /\ Gateway \in OnLink
    /\ "none" \notin OnLink \cup OffLink \cup Macs

VARIABLES
    host,       \* "idle", or resolving: [hop, purpose, budget]
    cache,      \* the ARP cache: [entries, next]
    learned,    \* the address last heard of each peer
    hwaddr,     \* each peer's address
    moves,      \* changes so far
    nicq,       \* frames waiting in the NIC
    did         \* what the last step sent, or returned

netVars == <<host, cache, learned, hwaddr, moves, nicq, did>>

Peers == OnLink \cup OffLink
None == "none"
Idling == [hop |-> None, dst |-> None, purpose |-> "none", budget |-> 0]

next_hop(dst) == IF dst \in OnLink THEN dst ELSE Gateway

(* ArpCache.  An entry is updated in place, or takes the next slot.        *)
Held(ip) == {i \in DOMAIN cache.entries : cache.entries[i].ip = ip}
lookup(ip) == IF Held(ip) = {} THEN None ELSE cache.entries[Min(Held(ip))].mac

(* A bug: an address that changed takes a slot of its own.                 *)
insert_Appends(ip, mac) ==
    /\ cache' = [entries |-> [cache.entries EXCEPT ![cache.next + 1] = [ip |-> ip, mac |-> mac]],
                 next |-> (cache.next + 1) % CAP]
    /\ learned' = [learned EXCEPT ![ip] = mac]

insert(ip, mac) ==
    /\ cache' = IF Held(ip) # {} THEN [cache EXCEPT !.entries[Min(Held(ip))].mac = mac]
                ELSE [entries |-> [cache.entries EXCEPT ![cache.next + 1] = [ip |-> ip, mac |-> mac]],
                      next |-> (cache.next + 1) % CAP]
    /\ learned' = [learned EXCEPT ![ip] = mac]

Sends(kind, to, mac) == did' = [kind |-> kind, to |-> to, mac |-> mac]
Returns(a, from) == did' = [kind |-> a, to |-> from, mac |-> None]
Nothing == Returns("nothing", None)

(* Frames: `good' is FALSE when a parser refuses it, for its length or its *)
(* checksum.                                                               *)
Frame(kind, src, mac, port, good) == [kind |-> kind, src |-> src, mac |-> mac, port |-> port, good |-> good]

---------------------------------------------------------------------------
(* The frame a resolution was for goes out once the address is known.      *)
arp_resolve(hop, dst, purpose) ==
    IF lookup(hop) # None
    THEN Sends(purpose, dst, lookup(hop)) /\ host' = Idling
    ELSE /\ Sends("arp request", hop, "broadcast")
         /\ host' = [hop |-> hop, dst |-> dst, purpose |-> purpose, budget |-> Budget]

resolve_poll ==
    /\ host # Idling /\ host.budget > 0
    /\ LET f == Head(nicq)
           reply == nicq # <<>> /\ f.good /\ f.kind = "arp reply"
       IN  /\ nicq' = IF nicq = <<>> THEN <<>> ELSE Tail(nicq)
           /\ IF reply THEN insert(f.src, f.mac) ELSE UNCHANGED <<cache, learned>>
           /\ IF reply /\ f.src = host.hop
              THEN Sends(host.purpose, host.dst, f.mac) /\ host' = Idling
              ELSE host' = [host EXCEPT !.budget = @ - 1] /\ Nothing
    /\ UNCHANGED <<hwaddr, moves>>

(* An echo reply that cannot be addressed is dropped silently.             *)
resolve_timeout ==
    /\ host # Idling /\ host.budget = 0
    /\ host' = Idling /\ Returns(IF host.purpose = "udp" THEN "ArpTimeout" ELSE "nothing", host.dst)
    /\ UNCHANGED <<cache, learned, hwaddr, moves, nicq>>

udp_send_to(dst) ==
    /\ host = Idling
    /\ arp_resolve(next_hop(dst), dst, "udp")
    /\ UNCHANGED <<cache, learned, hwaddr, moves, nicq>>

(* poll_udp takes one frame: it answers an ARP request for the host and    *)
(* learns the sender of any ARP packet, answers an echo request to the     *)
(* address it came from, and returns a datagram for the port.              *)
poll_udp(port) ==
    /\ host = Idling /\ nicq # <<>>
    /\ nicq' = Tail(nicq)
    /\ LET f == Head(nicq) IN
       \/ /\ f.kind \in {"arp request", "arp reply"} /\ f.good
          /\ insert(f.src, f.mac)
          /\ IF f.kind = "arp request" THEN Sends("arp reply", f.src, f.mac) ELSE Nothing
          /\ UNCHANGED host
       \/ /\ f.kind = "echo request" /\ f.good
          /\ arp_resolve(f.src, f.src, "echo reply") /\ UNCHANGED <<cache, learned>>
       \/ /\ f.kind = "udp" /\ f.good
          /\ IF f.port = port THEN Returns("datagram", f.src) ELSE Nothing
          /\ UNCHANGED <<host, cache, learned>>
       \/ ~f.good /\ Nothing /\ UNCHANGED <<host, cache, learned>>
    /\ UNCHANGED <<hwaddr, moves>>

(* A remote Link's receive: a datagram of another peer is not the Link's,  *)
(* and it is gone.                                                         *)
link_recv(peer, port) ==
    /\ host = Idling /\ nicq # <<>> /\ Head(nicq).kind = "udp"
    /\ LET f == Head(nicq)
       IN  IF f.good /\ f.port = port /\ f.src = peer THEN Returns("datagram", peer) ELSE Returns("WouldBlock", None)
    /\ nicq' = Tail(nicq)
    /\ UNCHANGED <<host, cache, learned, hwaddr, moves>>

---------------------------------------------------------------------------
Arrives(f) == Len(nicq) < NicLen /\ nicq' = Append(nicq, f)

peer_sends(p, kind, port) ==
    /\ kind \in {"arp request", "arp reply"} => p \in OnLink
    /\ \E good \in BOOLEAN : Arrives(Frame(kind, p, hwaddr[next_hop(p)], port, good))
    /\ Nothing
    /\ UNCHANGED <<host, cache, learned, hwaddr, moves>>

peer_moves(p) ==
    /\ moves < MaxMoves /\ moves' = moves + 1
    /\ \E m \in Macs : m # hwaddr[p] /\ hwaddr' = [hwaddr EXCEPT ![p] = m]
    /\ Nothing
    /\ UNCHANGED <<host, cache, learned, nicq>>

NetInit ==
    /\ host = Idling
    /\ cache = [entries |-> [i \in 1..CAP |-> [ip |-> None, mac |-> None]], next |-> 0]
    /\ learned = [p \in Peers |-> None]
    /\ \E m \in Macs : hwaddr = [p \in OnLink |-> m]
    /\ moves = 0 /\ nicq = <<>> /\ did = [kind |-> "nothing", to |-> None, mac |-> None]

HostStep ==
    \/ resolve_poll \/ resolve_timeout
    \/ \E p \in Peers : udp_send_to(p) \/ link_recv(p, 1)
    \/ poll_udp(1)

PeerStep ==
    \/ \E p \in OnLink : peer_moves(p)
    \/ \E p \in Peers : \/ \E kind \in {"arp request", "arp reply", "echo request"} : peer_sends(p, kind, 0)
                        \/ \E port \in {1, 2} : peer_sends(p, "udp", port)

NetNext == HostStep \/ PeerStep

NetSpec == NetInit /\ [][NetNext]_netVars

---------------------------------------------------------------------------
(* A datagram goes to the hop.  Whatever was lost, repeated or overtaken,  *)
(* and whatever the sixteen entries of the cache had to give up, a         *)
(* datagram is sent to the address last heard of its next hop, and the     *)
(* cache gives no other address than the last one heard of a peer          *)
(* (arp.rs:127-148, net_stack.rs:103-143).                                 *)
GoesToTheHop ==
    /\ did.kind = "udp" => did.mac = learned[next_hop(did.to)]
    /\ \A p \in Peers : lookup(p) # None => lookup(p) = learned[p]
=============================================================================
