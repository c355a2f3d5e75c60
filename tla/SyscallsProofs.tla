--------------------------- MODULE SyscallsProofs ---------------------------
(***************************************************************************)
(* What the kernel's services guarantee: the system calls on files and     *)
(* channels, for every name, text and limit, and the network stack, for    *)
(* every set of peers and addresses, every size of its cache and every     *)
(* length of the NIC's queue.                                              *)
(***************************************************************************)
EXTENDS NetStack, Syscalls, FiniteSetTheorems, TLAPS

-----------------------------------------------------------------------------
(* The network stack.                                                      *)

(* Appending one or two elements, and taking the first away.               *)
LEMMA AppendOne ==
    ASSUME NEW S, NEW s \in Seq(S), NEW e \in S
    PROVE  /\ Append(s, e) \in Seq(S) /\ DOMAIN Append(s, e) = DOMAIN s \cup {Len(s) + 1}
           /\ Len(s) + 1 \notin DOMAIN s /\ Append(s, e)[Len(s) + 1] = e
           /\ \A i \in DOMAIN s : Append(s, e)[i] = s[i]
OBVIOUS

NetFrames ==
  [kind : {"arp request", "arp reply", "echo request", "udp"}, src : Peers, mac : Macs,
   port : 0 .. 2, good : BOOLEAN]

Slot == [ip : Peers \cup {None}, mac : Macs \cup {None}]

NetTypes ==
  /\ cache \in [entries : [1 .. CAP -> Slot], next : 0 .. CAP - 1]
  /\ learned \in [Peers -> Macs \cup {None}]
  /\ hwaddr \in [OnLink -> Macs]
  /\ nicq \in Seq(NetFrames)

\* A peer has one slot at most, and the slot holds what was last heard of it.
CacheIsCurrent ==
  /\ \A i, j \in 1 .. CAP :
       cache.entries[i].ip # None /\ cache.entries[i].ip = cache.entries[j].ip => i = j
  /\ \A i \in 1 .. CAP :
       cache.entries[i].ip # None => cache.entries[i].mac = learned[cache.entries[i].ip]

\* A datagram that waits for an address waits for its own hop's.
WaitsForItsHop == host.purpose = "udp" => host.dst \in Peers /\ host.hop = next_hop(host.dst)

SentToTheHop == did.kind = "udp" => did.to \in Peers /\ did.mac = learned[next_hop(did.to)]

\* The inductive invariant of GoesToTheHop.
NetInv == NetTypes /\ CacheIsCurrent /\ WaitsForItsHop /\ SentToTheHop

LEMMA NextHopType == \A p \in Peers : next_hop(p) \in OnLink /\ next_hop(p) \in Peers
BY NetAssumption, Zenon DEF next_hop, Peers

LEMMA NoPeerIsNone == None \notin Peers /\ None \notin Macs
BY NetAssumption, Zenon DEF Peers, None

LEMMA MinOfOne == \A i \in Int : Min({i}) = i
BY DEF Min

(* With one slot to a peer, lookup reads that slot.                        *)
LEMMA HeldOnce ==
  ASSUME NetTypes, CacheIsCurrent, NEW p \in Peers, Held(p) # {}
  PROVE  \E i \in 1 .. CAP : cache.entries[i].ip = p /\ Held(p) = {i} /\ Min(Held(p)) = i
<1>1. DOMAIN cache.entries = 1 .. CAP
  BY Zenon DEF NetTypes
<1>2. PICK i \in 1 .. CAP : cache.entries[i].ip = p
  BY <1>1, Zenon DEF Held
<1>3. Held(p) = {i}
  BY <1>1, <1>2, NoPeerIsNone, Zenon DEF Held, CacheIsCurrent
<1>4. Min({i}) = i
  BY MinOfOne
<1> QED
  BY <1>2, <1>3, <1>4, Zenon

(* The cache gives no other address than the last one heard.               *)
LEMMA LookupIsCurrent ==
  ASSUME NetTypes, CacheIsCurrent, NEW p \in Peers, lookup(p) # None
  PROVE  lookup(p) = learned[p]
<1>1. Held(p) # {} /\ lookup(p) = cache.entries[Min(Held(p))].mac
  BY Zenon DEF lookup
<1>2. PICK i \in 1 .. CAP : cache.entries[i].ip = p /\ Min(Held(p)) = i
  BY <1>1, HeldOnce, Zenon
<1> QED
  BY <1>1, <1>2, NoPeerIsNone, Zenon DEF CacheIsCurrent

(* ArpCache::insert keeps one slot to a peer: it updates the slot there    *)
(* is, and takes another only when there is none, whoever had that one.    *)
LEMMA InsertKeepsCache ==
  ASSUME NetTypes, CacheIsCurrent, NEW p \in Peers, NEW m \in Macs, insert(p, m)
  PROVE  /\ cache' \in [entries : [1 .. CAP -> Slot], next : 0 .. CAP - 1]
         /\ learned' \in [Peers -> Macs \cup {None}] /\ learned'[p] = m
         /\ CacheIsCurrent'
<1>1. learned' = [learned EXCEPT ![p] = m]
  BY Zenon DEF insert
<1>2. learned' \in [Peers -> Macs \cup {None}] /\ learned'[p] = m
  BY <1>1, Zenon DEF NetTypes
<1>3. \A q \in Peers : q # p => learned'[q] = learned[q]
  BY <1>1, Zenon DEF NetTypes
<1>4. \A i \in 1 .. CAP : cache.entries[i] \in Slot
  BY Zenon DEF NetTypes
<1>5. CASE Held(p) # {}
  <2>1. PICK i \in 1 .. CAP : cache.entries[i].ip = p /\ Held(p) = {i} /\ Min(Held(p)) = i
    BY <1>5, HeldOnce, Zenon
  <2>2. cache' = [cache EXCEPT !.entries[i].mac = m]
    BY <1>5, <2>1, Zenon DEF insert
  <2> DEFINE e == [cache.entries[i] EXCEPT !.mac = m]
  <2>3. e \in Slot /\ e.ip = p /\ e.mac = m
    BY <1>4, <2>1, Zenon DEF Slot
  <2>4. cache' = [cache EXCEPT !.entries = [cache.entries EXCEPT ![i] = e]]
    BY <2>2, Zenon
  <2> HIDE DEF e
  <2>5. /\ cache' \in [entries : [1 .. CAP -> Slot], next : 0 .. CAP - 1]
        /\ \A j \in 1 .. CAP : cache'.entries[j] = IF j = i THEN e ELSE cache.entries[j]
    BY <2>3, <2>4, Zenon DEF NetTypes
  <2>6. \A j \in 1 .. CAP : cache.entries[j].ip = p => j = i
    BY <2>1, NoPeerIsNone, Zenon DEF CacheIsCurrent
  <2>7. CacheIsCurrent'
    BY <1>2, <1>3, <1>4, <2>1, <2>3, <2>5, <2>6 DEF CacheIsCurrent, Slot
  <2> QED
    BY <1>2, <2>5, <2>7, Zenon
<1>6. CASE Held(p) = {}
  <2> DEFINE k == cache.next + 1
             e == [ip |-> p, mac |-> m]
  <2>1. cache' = [entries |-> [cache.entries EXCEPT ![k] = e], next |-> (cache.next + 1) % CAP]
    BY <1>6, Zenon DEF insert
  <2>2. k \in 1 .. CAP /\ (cache.next + 1) % CAP \in 0 .. CAP - 1
    BY NetAssumption DEF NetTypes
  <2>3. e \in Slot
    BY Zenon DEF Slot
  <2>4. cache' \in [entries : [1 .. CAP -> Slot], next : 0 .. CAP - 1]
    BY <2>1, <2>2, <2>3, Zenon DEF NetTypes
  <2>5. \A j \in 1 .. CAP : cache'.entries[j] = IF j = k THEN e ELSE cache.entries[j]
    BY <2>1, <2>2, Zenon DEF NetTypes
  <2>6. \A j \in 1 .. CAP : cache.entries[j].ip # p
    BY <1>6, Zenon DEF Held, NetTypes
  <2>7. e.ip = p /\ e.mac = m
    OBVIOUS
  <2> HIDE DEF e, k
  <2>8. CacheIsCurrent'
    BY <1>2, <1>3, <1>4, <2>5, <2>6, <2>7 DEF CacheIsCurrent, Slot
  <2> QED
    BY <1>2, <2>4, <2>8, Zenon
<1> QED
  BY <1>5, <1>6, Zenon

(* arp_resolve sends to the address last heard of the hop, or waits for    *)
(* that of the hop.                                                        *)
LEMMA ResolveGoesToTheHop ==
  ASSUME NetInv, NEW hop \in Peers, NEW dst \in Peers, NEW purpose,
         purpose = "udp" => hop = next_hop(dst),
         arp_resolve(hop, dst, purpose), learned' = learned
  PROVE  WaitsForItsHop' /\ SentToTheHop'
<1>1. CASE lookup(hop) # None
  <2>1. lookup(hop) = learned[hop]
    BY <1>1, LookupIsCurrent, Zenon DEF NetInv
  <2>2. host' = Idling /\ did' = [kind |-> purpose, to |-> dst, mac |-> lookup(hop)]
    BY <1>1, Zenon DEF arp_resolve, Sends
  <2> QED
    BY <2>1, <2>2, Zenon DEF WaitsForItsHop, SentToTheHop, Idling
<1>2. CASE lookup(hop) = None
  <2>1. /\ host' = [hop |-> hop, dst |-> dst, purpose |-> purpose, budget |-> Budget]
        /\ did' = [kind |-> "arp request", to |-> hop, mac |-> "broadcast"]
    BY <1>2, Zenon DEF arp_resolve, Sends
  <2>2. host'.hop = hop /\ host'.dst = dst /\ host'.purpose = purpose /\ did'.kind # "udp"
    BY <2>1, Zenon
  <2> QED
    BY <2>2, Zenon DEF WaitsForItsHop, SentToTheHop, next_hop
<1> QED
  BY <1>1, <1>2, Zenon

LEMMA NetInitially == NetInit => NetInv
<1> SUFFICES ASSUME NetInit PROVE NetInv
  OBVIOUS
<1>1. cache.entries = [i \in 1 .. CAP |-> [ip |-> None, mac |-> None]] /\ cache.next = 0
  BY Zenon DEF NetInit
<1>2. NetTypes
  BY NetAssumption DEF NetInit, NetTypes, Slot
<1>3. CacheIsCurrent
  BY <1>1 DEF CacheIsCurrent
<1>4. WaitsForItsHop /\ SentToTheHop
  BY Zenon DEF NetInit, WaitsForItsHop, SentToTheHop, Idling
<1> QED
  BY <1>2, <1>3, <1>4, Zenon DEF NetInv

\* Steps that leave the cache and what was heard alone.
SameCache == UNCHANGED <<cache, learned>>

LEMMA SameCacheKept ==
  ASSUME NetInv, SameCache
  PROVE  /\ CacheIsCurrent'
         /\ cache' \in [entries : [1 .. CAP -> Slot], next : 0 .. CAP - 1]
         /\ learned' \in [Peers -> Macs \cup {None}]
BY Zenon DEF NetInv, NetTypes, SameCache, CacheIsCurrent

(* Every step of the host and of its peers keeps the invariant.            *)
LEMMA NetStep == NetInv /\ [NetNext]_netVars => NetInv'
<1> SUFFICES ASSUME NetInv, [NetNext]_netVars PROVE NetInv'
  OBVIOUS
<1>0. nicq # <<>> => Head(nicq) \in NetFrames /\ Tail(nicq) \in Seq(NetFrames)
  BY DEF NetInv, NetTypes
<1>1. CASE resolve_poll
  <2> DEFINE f == Head(nicq)
             reply == nicq # <<>> /\ f.good /\ f.kind = "arp reply"
  <2>1. nicq' \in Seq(NetFrames) /\ hwaddr' = hwaddr
    <3>1. nicq' = (IF nicq = <<>> THEN <<>> ELSE Tail(nicq)) /\ hwaddr' = hwaddr
      BY <1>1, Zenon DEF resolve_poll
    <3> QED
      BY <1>0, <3>1
  <2>2. CASE reply
    <3>1. f.src \in Peers /\ f.mac \in Macs
      BY <1>0, <2>2, Zenon DEF NetFrames
    <3>2. insert(f.src, f.mac)
      BY <1>1, <2>2, Zenon DEF resolve_poll
    <3>3. /\ cache' \in [entries : [1 .. CAP -> Slot], next : 0 .. CAP - 1]
          /\ learned' \in [Peers -> Macs \cup {None}] /\ learned'[f.src] = f.mac
          /\ CacheIsCurrent'
      BY <3>1, <3>2, InsertKeepsCache, Zenon DEF NetInv
    <3>4. CASE f.src = host.hop
      <4>1. host' = Idling /\ did' = [kind |-> host.purpose, to |-> host.dst, mac |-> f.mac]
        BY <1>1, <2>2, <3>4, Zenon DEF resolve_poll, Sends
      <4>2. WaitsForItsHop' /\ SentToTheHop'
        BY <3>3, <3>4, <4>1, Zenon DEF NetInv, WaitsForItsHop, SentToTheHop, Idling
      <4> QED
        BY <2>1, <3>3, <4>2, Zenon DEF NetInv, NetTypes
    <3>5. CASE f.src # host.hop
      <4>1. host' = [host EXCEPT !.budget = @ - 1] /\ Nothing
        BY <1>1, <2>2, <3>5, Zenon DEF resolve_poll
      <4>2. WaitsForItsHop' /\ SentToTheHop'
        BY <4>1 DEF NetInv, WaitsForItsHop, SentToTheHop, Nothing, Returns
      <4> QED
        BY <2>1, <3>3, <4>2, Zenon DEF NetInv, NetTypes
    <3> QED
      BY <3>4, <3>5, Zenon
  <2>3. CASE ~reply
    <3>1. SameCache /\ host' = [host EXCEPT !.budget = @ - 1] /\ Nothing
      BY <1>1, <2>3, Zenon DEF resolve_poll, SameCache
    <3>2. WaitsForItsHop' /\ SentToTheHop'
      BY <3>1 DEF NetInv, WaitsForItsHop, SentToTheHop, Nothing, Returns
    <3> QED
      BY <2>1, <3>1, <3>2, SameCacheKept, Zenon DEF NetInv, NetTypes
  <2> QED
    BY <2>2, <2>3, Zenon
<1>2. CASE resolve_timeout
  <2>1. SameCache /\ hwaddr' = hwaddr /\ nicq' = nicq
    BY <1>2, Zenon DEF resolve_timeout, SameCache
  <2>2. WaitsForItsHop' /\ SentToTheHop'
    BY <1>2, Zenon DEF resolve_timeout, Returns, WaitsForItsHop, SentToTheHop, Idling
  <2> QED
    BY <2>1, <2>2, SameCacheKept, Zenon DEF NetInv, NetTypes
<1>3. ASSUME NEW p \in Peers, udp_send_to(p)
      PROVE  NetInv'
  <2>1. SameCache /\ hwaddr' = hwaddr /\ nicq' = nicq
    BY <1>3, Zenon DEF udp_send_to, SameCache
  <2>2. arp_resolve(next_hop(p), p, "udp") /\ learned' = learned
    BY <1>3, Zenon DEF udp_send_to
  <2>3. WaitsForItsHop' /\ SentToTheHop'
    BY <2>2, ResolveGoesToTheHop, NextHopType, Zenon
  <2> QED
    BY <2>1, <2>3, SameCacheKept, Zenon DEF NetInv, NetTypes
<1>4. ASSUME NEW p \in Peers, link_recv(p, 1)
      PROVE  NetInv'
  <2>1. SameCache /\ hwaddr' = hwaddr /\ nicq' \in Seq(NetFrames) /\ host' = host
    BY <1>0, <1>4, Zenon DEF link_recv, SameCache
  <2>2. did'.kind # "udp"
    BY <1>4 DEF link_recv, Returns
  <2> QED
    BY <2>1, <2>2, SameCacheKept, Zenon DEF NetInv, NetTypes, WaitsForItsHop, SentToTheHop
<1>5. CASE poll_udp(1)
  <2> DEFINE f == Head(nicq)
  <2>1. f \in NetFrames /\ nicq' \in Seq(NetFrames) /\ hwaddr' = hwaddr /\ host = Idling
    BY <1>0, <1>5, Zenon DEF poll_udp
  <2>2. f.src \in Peers /\ f.mac \in Macs
    BY <2>1, Zenon DEF NetFrames
  <2>3. CASE /\ insert(f.src, f.mac) /\ UNCHANGED host
             /\ IF f.kind = "arp request" THEN Sends("arp reply", f.src, f.mac) ELSE Nothing
    <3>1. did'.kind # "udp"
      <4>1. Sends("arp reply", f.src, f.mac) \/ Nothing
        BY <2>3, Zenon
      <4>2. ASSUME Sends("arp reply", f.src, f.mac)
            PROVE  did'.kind # "udp"
        BY <4>2, Zenon DEF Sends
      <4>3. ASSUME Nothing
            PROVE  did'.kind # "udp"
        BY <4>3, Zenon DEF Nothing, Returns
      <4> QED
        BY <4>1, <4>2, <4>3, Zenon
    <3>2. /\ cache' \in [entries : [1 .. CAP -> Slot], next : 0 .. CAP - 1]
          /\ learned' \in [Peers -> Macs \cup {None}] /\ CacheIsCurrent'
      BY <2>2, <2>3, InsertKeepsCache, Zenon DEF NetInv
    <3> QED
      BY <2>1, <2>3, <3>1, <3>2, Zenon DEF NetInv, NetTypes, WaitsForItsHop, SentToTheHop
  <2>4. CASE arp_resolve(f.src, f.src, "echo reply") /\ UNCHANGED <<cache, learned>>
    <3>1. WaitsForItsHop' /\ SentToTheHop'
      BY <2>2, <2>4, ResolveGoesToTheHop, Zenon
    <3> QED
      BY <2>1, <2>4, <3>1, SameCacheKept, Zenon DEF NetInv, NetTypes, SameCache
  <2>5. CASE did'.kind # "udp" /\ UNCHANGED <<host, cache, learned>>
    BY <2>1, <2>5, SameCacheKept, Zenon DEF NetInv, NetTypes, SameCache, WaitsForItsHop, SentToTheHop
  <2>6. ASSUME (IF f.port = 1 THEN Returns("datagram", f.src) ELSE Nothing) \/ Nothing
        PROVE  did'.kind # "udp"
    BY <2>6 DEF Nothing, Returns
  <2> QED
    BY <1>5, <2>3, <2>4, <2>5, <2>6, Zenon DEF poll_udp
<1>6. ASSUME NEW p \in OnLink, peer_moves(p)
      PROVE  NetInv'
  <2>1. SameCache /\ nicq' = nicq /\ host' = host /\ did'.kind # "udp"
    BY <1>6, Zenon DEF peer_moves, SameCache, Nothing, Returns
  <2>2. hwaddr' \in [OnLink -> Macs]
    BY <1>6, Zenon DEF peer_moves, NetInv, NetTypes
  <2> QED
    BY <2>1, <2>2, SameCacheKept, Zenon DEF NetInv, NetTypes, WaitsForItsHop, SentToTheHop
<1>7. ASSUME NEW p \in Peers, NEW kind \in {"arp request", "arp reply", "echo request", "udp"},
             NEW port \in 0 .. 2, peer_sends(p, kind, port)
      PROVE  NetInv'
  <2>1. SameCache /\ hwaddr' = hwaddr /\ host' = host /\ did'.kind # "udp"
    BY <1>7, Zenon DEF peer_sends, SameCache, Nothing, Returns
  <2>2. PICK good \in BOOLEAN : nicq' = Append(nicq, Frame(kind, p, hwaddr[next_hop(p)], port, good))
    BY <1>7, Zenon DEF peer_sends, Arrives
  <2>3. Frame(kind, p, hwaddr[next_hop(p)], port, good) \in NetFrames
    BY NextHopType, Zenon DEF Frame, NetFrames, NetInv, NetTypes
  <2>4. nicq' \in Seq(NetFrames)
    <3>1. nicq \in Seq(NetFrames)
      BY Zenon DEF NetInv, NetTypes
    <3> QED
      BY <2>2, <2>3, <3>1, AppendOne, Zenon
  <2> QED
    BY <2>1, <2>4, SameCacheKept, Zenon DEF NetInv, NetTypes, WaitsForItsHop, SentToTheHop
<1>8. CASE UNCHANGED netVars
  BY <1>8, SameCacheKept, Zenon DEF netVars, SameCache, NetInv, NetTypes, WaitsForItsHop, SentToTheHop
<1>9. ASSUME PeerStep
      PROVE  NetInv'
  <2>1. \/ \E p \in OnLink : peer_moves(p)
        \/ \E p \in Peers, kind \in {"arp request", "arp reply", "echo request"} : peer_sends(p, kind, 0)
        \/ \E p \in Peers, port \in {1, 2} : peer_sends(p, "udp", port)
    BY <1>9, Zenon DEF PeerStep
  <2>2. /\ 0 \in 0 .. 2 /\ \A port \in {1, 2} : port \in 0 .. 2
        /\ \A kind \in {"arp request", "arp reply", "echo request"} :
              kind \in {"arp request", "arp reply", "echo request", "udp"}
    OBVIOUS
  <2> QED
    BY <1>6, <1>7, <2>1, <2>2, Zenon
<1> QED
  BY <1>1, <1>2, <1>3, <1>4, <1>5, <1>8, <1>9, Zenon DEF NetNext, HostStep

(* A datagram goes out to the address last heard of its next hop, and the  *)
(* cache never gives an older one, for any peers, any number of entries of *)
(* the cache and any loss, repetition and delay of frames (arp.rs:127-148, *)
(* net_stack.rs:103-143).                                                  *)
THEOREM GoesToTheHopHolds == NetSpec => []GoesToTheHop
<1>1. NetInv => GoesToTheHop
  BY LookupIsCurrent, Zenon DEF NetInv, SentToTheHop, GoesToTheHop
<1> QED
  BY <1>1, NetInitially, NetStep, PTL DEF NetSpec

-----------------------------------------------------------------------------
(* Induction over the natural numbers, and functions that are equal.       *)

(* A set of numbers has a least one.                                       *)
LEMMA LeastNat ==
  ASSUME NEW T, T \subseteq Nat, T # {}
  PROVE  \E x \in T : \A y \in T : x <= y
<1> DEFINE R == {ss \in Nat \X Nat : ss[1] < ss[2]}
<1>1. IsWellFoundedOn(R, Nat)
  BY NatLessThanWellFounded, Zenon DEF OpToRel
<1>a. \A y, x \in Nat : y < x => <<y, x>> \in R
  OBVIOUS
<1> HIDE DEF R
<1>2. PICK x \in T : \A y \in T : ~(<<y, x>> \in R)
  BY <1>1, WFMin, Zenon
<1>3. \A y \in T : ~(y < x) /\ y \in Nat /\ x \in Nat
  BY <1>2, <1>a, Zenon
<1>4. \A y \in T : x <= y
  BY <1>3
<1> QED
  BY <1>4, Zenon

(* Induction, for a set in the place of a predicate.                       *)
LEMMA Inductive ==
  ASSUME NEW T, 0 \in T, \A n \in Nat : n \in T => n + 1 \in T
  PROVE  Nat \subseteq T
<1> SUFFICES ASSUME Nat \ T # {} PROVE FALSE
  OBVIOUS
<1>1. PICK x \in Nat \ T : \A y \in Nat \ T : x <= y
  BY LeastNat, Zenon
<1>2. x # 0 /\ x - 1 \in Nat /\ (x - 1) + 1 = x /\ ~(x <= x - 1)
  BY <1>1
<1>3. x - 1 \in T
  BY <1>1, <1>2, Zenon
<1> QED
  BY <1>1, <1>2, <1>3, Zenon

LEMMA SameFunction ==
    ASSUME NEW D, NEW f, NEW g, f = [x \in D |-> f[x]], g = [x \in D |-> g[x]], \A x \in D : f[x] = g[x]
    PROVE  f = g
<1>1. [x \in D |-> f[x]] = [x \in D |-> g[x]]
  BY Zenon
<1> QED
  BY <1>1, Zenon

-----------------------------------------------------------------------------
(* System calls                                                            *)

LEMMA SmallOfTwo ==
    ASSUME NEW a \in Int, NEW b \in Int
    PROVE  Min({a, b}) \in {a, b} /\ Min({a, b}) <= a /\ Min({a, b}) <= b
<1>1. \E x \in {a, b} : \A y \in {a, b} : x <= y
  <2>1. CASE a <= b
    BY <2>1
  <2>2. CASE b <= a
    BY <2>2
  <2> QED
    BY <2>1, <2>2
<1> QED
  BY <1>1, Zenon DEF Min

(* The first of two checks that fails is the answer.                       *)
LEMMA FirstOfTwo == \A a, b : FirstError(<<a, b>>) = IF a # OK THEN a ELSE b
<1> SUFFICES ASSUME NEW a, NEW b PROVE FirstError(<<a, b>>) = IF a # OK THEN a ELSE b
  OBVIOUS
<1> DEFINE bad == {i \in DOMAIN <<a, b>> : <<a, b>>[i] # OK}
<1>1. FirstError(<<a, b>>) = IF bad = {} THEN OK ELSE <<a, b>>[Min(bad)]
  BY Zenon DEF FirstError
<1>2. DOMAIN <<a, b>> = {1, 2} /\ <<a, b>>[1] = a /\ <<a, b>>[2] = b
  OBVIOUS
<1>3. CASE a # OK
  <2>1. 1 \in bad /\ \A i \in bad : i \in {1, 2}
    BY <1>2, <1>3, Zenon
  <2> HIDE DEF bad
  <2>2. Min(bad) = 1
    BY <2>1 DEF Min
  <2> QED
    BY <1>1, <1>2, <1>3, <2>1, <2>2, Zenon
<1>4. CASE a = OK /\ b # OK
  <2>1. 2 \in bad /\ \A i \in bad : i = 2
    BY <1>2, <1>4, Zenon
  <2> HIDE DEF bad
  <2>2. Min(bad) = 2
    BY <2>1 DEF Min
  <2> QED
    BY <1>1, <1>2, <1>4, <2>1, <2>2, Zenon
<1>5. CASE a = OK /\ b = OK
  <2>1. bad = {}
    BY <1>2, <1>5, Zenon
  <2> QED
    BY <1>1, <1>5, <2>1, Zenon
<1> QED
  BY <1>3, <1>4, <1>5, Zenon

(* Three checks pass only if the last one does.                            *)
LEMMA AllOfThree == \A a, b, c : FirstError(<<a, b, c>>) = OK => c = OK
<1> SUFFICES ASSUME NEW a, NEW b, NEW c, c # OK PROVE FirstError(<<a, b, c>>) # OK
  OBVIOUS
<1> DEFINE bad == {i \in DOMAIN <<a, b, c>> : <<a, b, c>>[i] # OK}
<1>1. FirstError(<<a, b, c>>) = IF bad = {} THEN OK ELSE <<a, b, c>>[Min(bad)]
  BY Zenon DEF FirstError
<1>2. 3 \in bad /\ bad \subseteq {1, 2, 3}
  OBVIOUS
<1>3. \A i \in bad : <<a, b, c>>[i] # OK
  BY Zenon
<1> HIDE DEF bad
<1>4. \E x \in bad : \A y \in bad : x <= y
  <2>1. CASE 1 \in bad
    BY <1>2, <2>1
  <2>2. CASE 1 \notin bad /\ 2 \in bad
    BY <1>2, <2>2
  <2>3. CASE 1 \notin bad /\ 2 \notin bad
    BY <1>2, <2>3
  <2> QED
    BY <2>1, <2>2, <2>3, Zenon
<1>5. Min(bad) \in bad
  BY <1>4, Zenon DEF Min
<1> QED
  BY <1>1, <1>2, <1>3, <1>5, Zenon

LEMMA CopyErrors == \A ptr, len : copy_user(ptr, len) \in {OK, BadAddress, InvalidArgument}
BY FirstOfTwo DEF copy_user, Check

(* What is cut to a buffer has a length.                                   *)
LEMMA CutLength ==
    ASSUME NEW bytes \in Seq(Int), NEW n \in Nat
    PROVE  Cut(bytes, n) \in Seq(Int) /\ Len(Cut(bytes, n)) \in Nat
<1>1. Len(bytes) \in Nat /\ DOMAIN bytes = 1..Len(bytes) /\ \A i \in 1..Len(bytes) : bytes[i] \in Int
  OBVIOUS
<1>2. PICK k \in Nat : k = Min({Len(bytes), n}) /\ k <= Len(bytes)
  <2>1. Len(bytes) \in Int /\ n \in Int
    BY <1>1
  <2>2. Min({Len(bytes), n}) \in {Len(bytes), n} /\ Min({Len(bytes), n}) <= Len(bytes)
    BY <2>1, SmallOfTwo, Zenon
  <2> QED
    BY <1>1, <2>2, Zenon
<1>3. Cut(bytes, n) = SubSeq(bytes, 1, k)
  BY <1>2, Zenon DEF Cut
<1>4. SubSeq(bytes, 1, k) = [i \in 1..k |-> bytes[i]]
  BY <1>1, <1>2
<1>5. [i \in 1..k |-> bytes[i]] \in [1..k -> Int]
  BY <1>1, <1>2
<1> QED
  BY <1>3, <1>4, <1>5

LEMMA LastIsMax == ASSUME NEW k \in Nat, NEW s \in SUBSET (1..k), k \in s PROVE Max(s) = k
<1>1. k \in s /\ \A y \in s : k >= y
  OBVIOUS
<1>2. \A z \in s : (\A y \in s : z >= y) => z = k
  OBVIOUS
<1> QED
  BY <1>1, <1>2, Zenon DEF Max

(* The listing of a directory is text.                                     *)
LEMMA JoinIsText ==
    ASSUME NEW m \in Nat, NEW names \in [1..m -> Seq(Int)]
    PROVE  SysJoin(names) \in Seq(Int)
<1> DEFINE Line(n, s) == IF s = <<>> THEN n ELSE s \o <<Newline>> \o n
           Joins(g, k) == g = [s \in SUBSET (1..k) |->
                                 IF s = {} THEN <<>> ELSE Line(names[Max(s)], g[s \ {Max(s)}])]
           Has == {k \in Nat : \E g : Joins(g, k)}
<1>1. 0 \in Has
  <2>1. SUBSET (1..0) = {{}}
    OBVIOUS
  <2>2. Joins([s \in SUBSET (1..0) |-> <<>>], 0)
    BY <2>1, Zenon
  <2> QED
    BY <2>2, Zenon
<1>2. ASSUME NEW k \in Nat, k \in Has PROVE k + 1 \in Has
  <2>1. PICK g : Joins(g, k)
    BY <1>2, Zenon
  <2> DEFINE h == [s \in SUBSET (1..(k + 1)) |->
                     IF k + 1 \in s THEN Line(names[k + 1], g[s \ {k + 1}]) ELSE g[s]]
  <2>2. ASSUME NEW s \in SUBSET (1..(k + 1))
        PROVE  h[s] = IF s = {} THEN <<>> ELSE Line(names[Max(s)], h[s \ {Max(s)}])
    <3>1. CASE k + 1 \in s
      <4>1. Max(s) = k + 1
        <5>1. k + 1 \in Nat
          OBVIOUS
        <5> QED
          BY <3>1, <5>1, LastIsMax, Zenon
      <4>2. s \ {k + 1} \in SUBSET (1..(k + 1)) /\ k + 1 \notin s \ {k + 1} /\ s # {}
        BY <3>1, Zenon
      <4>3. h[s \ {k + 1}] = g[s \ {k + 1}]
        BY <4>2, Zenon
      <4>4. h[s] = Line(names[k + 1], g[s \ {k + 1}])
        BY <3>1, Zenon
      <4> QED
        BY <4>1, <4>2, <4>3, <4>4, Zenon
    <3>2. CASE k + 1 \notin s
      <4>1. s \in SUBSET (1..k)
        BY <3>2
      <4>2. s \ {Max(s)} \in SUBSET (1..(k + 1)) /\ k + 1 \notin s \ {Max(s)}
        BY <3>2, Zenon
      <4>3. h[s] = g[s] /\ h[s \ {Max(s)}] = g[s \ {Max(s)}]
        BY <3>2, <4>2, Zenon
      <4>4. g[s] = IF s = {} THEN <<>> ELSE Line(names[Max(s)], g[s \ {Max(s)}])
        BY <2>1, <4>1, Zenon
      <4> QED
        BY <4>3, <4>4, Zenon
    <3> QED
      BY <3>1, <3>2, Zenon
  <2>3. Joins(h, k + 1)
    <3> DEFINE j == [s \in SUBSET (1..(k + 1)) |->
                       IF s = {} THEN <<>> ELSE Line(names[Max(s)], h[s \ {Max(s)}])]
    <3>1. \A s \in SUBSET (1..(k + 1)) : h[s] = j[s]
      BY <2>2, Zenon
    <3>2. h = j
      <4>1. h = [s \in SUBSET (1..(k + 1)) |-> h[s]] /\ j = [s \in SUBSET (1..(k + 1)) |-> j[s]]
        BY Zenon
      <4> HIDE DEF h, j
      <4> QED
        BY <3>1, <4>1, SameFunction, Zenon
    <3> QED
      BY <3>2, Zenon
  <2> HIDE DEF h, Joins
  <2> QED
    BY <2>3
<1>3. m \in Has
  <2> HIDE DEF Has
  <2> QED
    BY <1>1, <1>2, Inductive, Zenon
<1> DEFINE c == CHOOSE g : Joins(g, m)
<1>4. Joins(c, m)
  <2> HIDE DEF Joins
  <2> QED
    BY <1>3, Zenon
<1>5. SysJoin(names) = c[1..m]
  <2>1. DOMAIN names = 1..m
    OBVIOUS
  <2> QED
    BY <2>1, Zenon DEF SysJoin, MapThenFoldSet
<1> DEFINE Typed == {k \in Nat : k <= m => \A s \in SUBSET (1..k) : c[s] \in Seq(Int)}
<1> HIDE DEF c
<1>6. 0 \in Typed
  <2>1. {} \in SUBSET (1..m) /\ SUBSET (1..0) = {{}}
    OBVIOUS
  <2>2. c[{}] = <<>>
    BY <1>4, <2>1, Zenon
  <2>3. \A s \in SUBSET (1..0) : c[s] \in Seq(Int)
    <3>1. <<>> \in Seq(Int)
      OBVIOUS
    <3> QED
      BY <2>1, <2>2, <3>1, Zenon
  <2> QED
    BY <2>3, Zenon
<1>7. ASSUME NEW k \in Nat, k \in Typed PROVE k + 1 \in Typed
  <2> SUFFICES ASSUME k + 1 <= m, NEW s \in SUBSET (1..(k + 1)) PROVE c[s] \in Seq(Int)
    <3>1. k + 1 \in Nat
      OBVIOUS
    <3> QED
      BY <3>1, Zenon
  <2>1. CASE k + 1 \in s
    <3>1. Max(s) = k + 1
      <4>1. k + 1 \in Nat
        OBVIOUS
      <4> QED
        BY <2>1, <4>1, LastIsMax, Zenon
    <3>2. s \in SUBSET (1..m) /\ s # {} /\ s \ {k + 1} \in SUBSET (1..k) /\ k <= m /\ k + 1 \in 1..m
      BY <2>1
    <3>3. c[s] = Line(names[k + 1], c[s \ {k + 1}])
      BY <1>4, <3>1, <3>2, Zenon
    <3>4. c[s \ {k + 1}] \in Seq(Int) /\ names[k + 1] \in Seq(Int)
      BY <1>7, <3>2, Zenon
    <3>5. \A a, b \in Seq(Int) : Line(a, b) \in Seq(Int)
      BY DEF Newline
    <3> QED
      BY <3>3, <3>4, <3>5, Zenon
  <2>2. CASE k + 1 \notin s
    BY <1>7, <2>2
  <2> QED
    BY <2>1, <2>2, Zenon
<1>8. m \in Typed
  <2> HIDE DEF Typed
  <2> QED
    BY <1>6, <1>7, Inductive, Zenon
<1> QED
  BY <1>5, <1>8

\* The inductive invariant of FailuresTakeNothing: what calls keep is text.
SysTypes ==
    /\ IsFiniteSet(DOMAIN files) /\ \A n \in DOMAIN files : n \in Seq(Int) /\ files[n] \in Seq(Int)
    /\ queue \in [Ends -> Seq(Seq(Int))]

(* A call that leaves the files and the messages alone.                    *)
LEMMA StoreKept == SysTypes /\ UNCHANGED <<files, queue>> => SysTypes'
BY Zenon DEF SysTypes

(* A call that sets one file.                                              *)
LEMMA FileSet ==
    ASSUME SysTypes, NEW path \in Seq(Int), NEW data \in Seq(Int), UNCHANGED queue,
           files' = [n \in DOMAIN files \cup {path} |-> IF n = path THEN data ELSE files[n]]
    PROVE  SysTypes'
<1>1. DOMAIN files' = DOMAIN files \cup {path} /\ \A n \in DOMAIN files' : files'[n] = IF n = path THEN data ELSE files[n]
  OBVIOUS
<1>2. IsFiniteSet(DOMAIN files')
  BY <1>1, FS_AddElement, Zenon DEF SysTypes
<1> QED
  BY <1>1, <1>2, Zenon DEF SysTypes

LEMMA TextTypes ==
    /\ \A p \in Paths : p \in Seq(Int)
    /\ \A d \in Data : d \in Seq(Int) /\ Len(d) \in Nat
    /\ Dir \in Seq(Int) /\ <<>> \in Seq(Int)
<1>1. \A s \in Seq(Nat) : s \in Seq(Int) /\ Len(s) \in Nat
  OBVIOUS
<1>2. Root \in Seq(Int) /\ Dir \in Seq(Int) /\ <<>> \in Seq(Int)
  BY DEF Root, Dir
<1> QED
  BY <1>1, <1>2, SysAssumption, Zenon DEF Paths

LEMMA ArgsTypes == \A a \in Args : a.path \in Paths /\ a.buf_len \in Nat
BY SysAssumption DEF Args

LEMMA SysStep == SysTypes /\ [SysNext]_sysVars => SysTypes'
<1> SUFFICES ASSUME SysTypes, [SysNext]_sysVars PROVE SysTypes'
  OBVIOUS
<1>1. CASE UNCHANGED <<files, queue>>
  BY <1>1, StoreKept, Zenon
<1>2. ASSUME NEW w \in Writes, fs_write(w[1], w[2], w[3]) PROVE SysTypes'
  <2>1. w[1].path \in Seq(Int) /\ w[2] \in Seq(Int) /\ <<>> \in Seq(Int)
    BY TextTypes, ArgsTypes, Zenon DEF Writes
  <2> QED
    BY <1>1, <1>2, <2>1, FileSet, Zenon DEF fs_write, write_file, Refuse, Store
<1>3. ASSUME NEW p, NEW path \in Paths, fs_mkdir(p, path) \/ fs_delete(p, path) PROVE SysTypes'
  <2>1. CASE fs_mkdir(p, path)
    BY <1>1, <2>1, TextTypes, FileSet, Zenon DEF fs_mkdir, Refuse, Store
  <2>2. CASE files' = [n \in DOMAIN files \ {path} |-> files[n]] /\ UNCHANGED queue
    <3>1. DOMAIN files' = DOMAIN files \ {path} /\ \A n \in DOMAIN files' : files'[n] = files[n]
      BY <2>2, Zenon
    <3>2. IsFiniteSet(DOMAIN files')
      BY <3>1, FS_Subset, Zenon DEF SysTypes
    <3> QED
      BY <2>2, <3>1, <3>2, Zenon DEF SysTypes
  <2>3. CASE fs_delete(p, path)
    BY <1>1, <2>2, <2>3, Zenon DEF fs_delete, Refuse, Store
  <2> QED
    BY <1>3, <2>1, <2>3, Zenon
<1>4. ASSUME NEW k \in Ends, NEW p, NEW d \in Data, send(k, p, d) PROVE SysTypes'
  <2>1. d \in Seq(Int) /\ queue[k] \in Seq(Seq(Int))
    BY TextTypes, Zenon DEF SysTypes
  <2>2. Append(queue[k], d) \in Seq(Seq(Int))
    BY <2>1
  <2>3. CASE queue' = [queue EXCEPT ![k] = Append(@, d)] /\ UNCHANGED files
    BY <2>2, <2>3, Zenon DEF SysTypes
  <2> QED
    BY <1>1, <1>4, <2>3, Zenon DEF send, Refuse, Store
<1>5. ASSUME NEW k \in Ends, NEW p, NEW n, receive(k, p, n) PROVE SysTypes'
  <2>1. CASE UNCHANGED <<files, queue>>
    BY <1>1, <2>1, Zenon
  <2>2. CASE queue[k] # <<>> /\ queue' = [queue EXCEPT ![k] = Tail(@)] /\ UNCHANGED files
    <3>1. Tail(queue[k]) \in Seq(Seq(Int))
      BY <2>2 DEF SysTypes
    <3> QED
      BY <2>2, <3>1, Zenon DEF SysTypes
  <2>3. Check(queue[k] = <<>>, WouldBlock) = OK => queue[k] # <<>>
    BY DEF Check, WouldBlock, OK
  <2> QED
    BY <1>5, <2>1, <2>2, <2>3, AllOfThree, Zenon DEF receive, Refuse, Store
<1>6. CASE Files
  BY <1>1, <1>2, <1>3, <1>6, Zenon DEF Files, fs_read, fs_list, fs_exists, Refuse, Store
<1>7. CASE SysNext
  BY <1>1, <1>4, <1>5, <1>6, <1>7, Zenon DEF SysNext, log, get_random, chan_close, HandleCall, poll_channel_request,
        decide_channel_request, requested, no_such_call, list, Refuse, Store
<1>8. CASE UNCHANGED sysVars
  BY <1>1, <1>8, Zenon DEF sysVars
<1> QED
  BY <1>7, <1>8, Zenon

TakesNothing ==
    /\ out' = <<>> /\ logged' = 0 /\ shut' = shut /\ offered' = offered
    /\ \A n \in DOMAIN files : n \in DOMAIN files' /\ files'[n] = files[n]
    /\ \A n \in DOMAIN files' \ DOMAIN files : call' = "FsWrite" /\ ret' = IoError /\ files'[n] = <<>>
    /\ \A k \in Ends : queue'[k] # queue[k] => /\ call' = "Recv" /\ queue'[k] = Tail(queue[k])
                                               /\ ret' \in {BadAddress, InvalidArgument}

LEMMA RefusalTakesNothing == \A nr, e : Refuse(nr, e) \/ (Answer(nr, e) /\ UNCHANGED Store) => TakesNothing
BY Zenon DEF Refuse, Answer, SysFinish, Store, TakesNothing

LEMMA ReadsCount ==
    ASSUME SysTypes, NEW a \in Args, fs_read(a) \/ fs_list(a), ret' < 0
    PROVE  TakesNothing
<1>1. a.buf_len \in Nat
  BY ArgsTypes, Zenon
<1>2. CASE fs_read(a)
  <2> DEFINE data == Cut(files[a.path], a.buf_len)
  <2>1. CASE \E e : Refuse("FsRead", e)
    BY <2>1, RefusalTakesNothing, Zenon
  <2>2. CASE a.path \in DOMAIN files /\ SysFinish("FsRead", Len(data), data, 0)
    <3>1. Len(data) \in Nat
      BY <1>1, <2>2, CutLength, Zenon DEF SysTypes
    <3>2. ret' = Len(data)
      BY <2>2, Zenon DEF SysFinish
    <3> QED
      BY <3>1, <3>2
  <2>3. IoError # OK
    BY DEF IoError, OK
  <2> QED
    BY <1>2, <2>1, <2>2, <2>3, Zenon DEF fs_read
<1>3. CASE fs_list(a)
  <2>1. CASE \E e : Refuse("FsList", e)
    BY <2>1, RefusalTakesNothing, Zenon
  <2>2. ASSUME NEW names \in Injection(1..Cardinality(DOMAIN files), DOMAIN files), NEW text,
               text = Cut(SysJoin(names), a.buf_len), SysFinish("FsList", Len(text), text, 0)
        PROVE  FALSE
    <3>1. Cardinality(DOMAIN files) \in Nat
      BY FS_CardinalityType, Zenon DEF SysTypes
    <3>2. names \in [1..Cardinality(DOMAIN files) -> Seq(Int)]
      BY Zenon DEF Injection, SysTypes
    <3>3. SysJoin(names) \in Seq(Int)
      BY <3>1, <3>2, JoinIsText, Zenon
    <3>4. Len(text) \in Nat
      BY <1>1, <2>2, <3>3, CutLength, Zenon
    <3>5. ret' = Len(text)
      BY <2>2, Zenon DEF SysFinish
    <3> QED
      BY <3>4, <3>5
  <2> QED
    BY <1>3, <2>1, <2>2, Zenon DEF fs_list
<1> QED
  BY <1>2, <1>3, Zenon

LEMMA WritesTakeNothing ==
    ASSUME SysTypes, NEW w \in Writes, fs_write(w[1], w[2], w[3]), ret' < 0
    PROVE  TakesNothing
<1> DEFINE path == w[1].path
           known == path \in DOMAIN files
           e == FirstError(<<Check(known /\ files[path] = Dir, IoError),
                             Check(Len(w[2]) > MAX_FILE_SIZE \/ ~w[3], IoError)>>)
<1>1. CASE \E f : Refuse("FsWrite", f)
  BY <1>1, RefusalTakesNothing, Zenon
<1>2. CASE write_file(path, w[2], w[3]) /\ UNCHANGED <<queue, shut, offered>>
  <2>1. /\ files' = IF e = OK THEN [n \in DOMAIN files \cup {path} |-> IF n = path THEN w[2] ELSE files[n]]
                    ELSE IF known THEN files
                    ELSE [n \in DOMAIN files \cup {path} |-> IF n = path THEN <<>> ELSE files[n]]
        /\ Answer("FsWrite", IF e = OK THEN Len(w[2]) ELSE e)
    BY <1>2, Zenon DEF write_file
  <2>2. e \in {OK, IoError}
    BY FirstOfTwo DEF Check
  <2> HIDE DEF e
  <2>3. Len(w[2]) \in Nat
    BY TextTypes, Zenon DEF Writes
  <2>4. e = IoError /\ e # OK
    BY <2>1, <2>2, <2>3 DEF Answer, SysFinish, OK, IoError
  <2>5. \A n \in DOMAIN files : n \in DOMAIN files' /\ files'[n] = files[n]
    BY <2>1, <2>4, Zenon
  <2>6. \A n \in DOMAIN files' \ DOMAIN files : files'[n] = <<>>
    BY <2>1, <2>4, Zenon
  <2>7. call' = "FsWrite" /\ ret' = IoError /\ out' = <<>> /\ logged' = 0
    BY <2>1, <2>4, Zenon DEF Answer, SysFinish
  <2> QED
    BY <1>2, <2>5, <2>6, <2>7, Zenon DEF TakesNothing
<1> QED
  BY <1>1, <1>2, Zenon DEF fs_write

LEMMA ReceivesTakeNothing ==
    ASSUME SysTypes, NEW k \in Ends, NEW p, NEW cap \in Nat, receive(k, p, cap), ret' < 0
    PROVE  TakesNothing
<1> DEFINE e == FirstError(<<Check(k = "channel" /\ cap > MAX_FS_IO_LEN, InvalidArgument),
                             Check(queue[k] = <<>> /\ k \in shut, NotFoundError),
                             Check(queue[k] = <<>>, WouldBlock)>>)
           msg == Head(queue[k])
           part == IF k = "channel" THEN Cut(msg, cap) ELSE msg
           f == FirstError(<<Check(Len(part) > cap, InvalidArgument), copy_user(p, Len(part))>>)
<1>1. CASE Refuse("Recv", e)
  BY <1>1, RefusalTakesNothing, Zenon
<1>2. CASE /\ e = OK
           /\ queue' = [queue EXCEPT ![k] = Tail(@)]
           /\ IF f = OK THEN SysFinish("Recv", Len(part), part, 0) ELSE Answer("Recv", f)
           /\ UNCHANGED <<files, shut, offered>>
  <2>1. queue[k] # <<>>
    <3>1. Check(queue[k] = <<>>, WouldBlock) = OK
      BY <1>2, AllOfThree, Zenon
    <3> QED
      BY <3>1 DEF Check, WouldBlock, OK
  <2> HIDE DEF e
  <2>2. msg \in Seq(Int)
    BY <2>1 DEF SysTypes
  <2> HIDE DEF msg
  <2>3. Len(part) \in Nat
    BY <2>2, CutLength
  <2>4. f \in {OK, BadAddress, InvalidArgument}
    BY FirstOfTwo, CopyErrors DEF Check
  <2> HIDE DEF part, f
  <2>5. f # OK
    BY <1>2, <2>3 DEF SysFinish
  <2>6. call' = "Recv" /\ ret' = f /\ out' = <<>> /\ logged' = 0
    BY <1>2, <2>5, Zenon DEF Answer, SysFinish
  <2>7. queue'[k] = Tail(queue[k]) /\ \A j \in Ends : j # k => queue'[j] = queue[j]
    BY <1>2, Zenon DEF SysTypes
  <2> QED
    BY <1>2, <2>4, <2>5, <2>6, <2>7, Zenon DEF TakesNothing
<1> QED
  BY <1>1, <1>2, Zenon DEF receive

(* A failed call takes nothing, but for the two exceptions the property    *)
(* names, whatever the names, the data and the limits (syscall.rs:         *)
(* dispatch).                                                              *)
THEOREM FailuresTakeNothingHolds == SysSpec => FailuresTakeNothing
<1>1. SysInit => SysTypes
  BY FS_EmptySet DEF SysInit, SysTypes
<1>2. SysTypes /\ [SysNext]_sysVars => [ret' < 0 /\ call' # "listed" => TakesNothing]_sysVars
  <2> SUFFICES ASSUME SysTypes, SysNext, ret' < 0, call' # "listed" PROVE TakesNothing
    OBVIOUS
  <2>1. ~(ret' = OK)
    BY DEF OK
  <2>2. ASSUME NEW nr, NEW e, Refuse(nr, e) \/ (Answer(nr, e) /\ UNCHANGED Store) PROVE TakesNothing
    BY <2>2, RefusalTakesNothing, Zenon
  <2>3. CASE Files
    <3>1. ASSUME NEW a \in Args, fs_read(a) \/ fs_list(a) PROVE TakesNothing
      BY <2>1, <3>1, ReadsCount, Zenon
    <3>2. ASSUME NEW w \in Writes, fs_write(w[1], w[2], w[3]) PROVE TakesNothing
      BY <2>1, <3>2, WritesTakeNothing, Zenon
    <3>3. ASSUME NEW p, NEW path, fs_mkdir(p, path) \/ fs_exists(p, path) \/ fs_delete(p, path)
          PROVE  TakesNothing
      BY <2>1, <2>2, <3>3, Zenon DEF fs_mkdir, fs_exists, fs_delete, Answer, SysFinish
    <3> QED
      BY <2>3, <3>1, <3>2, <3>3, Zenon DEF Files
  <2>4. ASSUME NEW p, NEW n \in {0, 1, MAX_FS_IO_LEN + 1}, get_random(p, n) PROVE TakesNothing
    <3>1. n \in Nat
      BY SysAssumption
    <3> QED
      BY <2>2, <2>4, <3>1 DEF get_random, SysFinish
  <2>5. ASSUME NEW k \in Ends, NEW p, NEW n \in {0, 1, 2, MAX_FS_IO_LEN + 1}, receive(k, p, n) PROVE TakesNothing
    <3>1. n \in Nat
      BY SysAssumption
    <3> QED
      BY <2>5, <3>1, ReceivesTakeNothing, Zenon
  <2> QED
    BY <2>1, <2>2, <2>3, <2>4, <2>5, Zenon
       DEF SysNext, log, chan_close, send, HandleCall, poll_channel_request, decide_channel_request, requested,
           no_such_call, list, Answer, SysFinish
<1> QED
  BY <1>1, <1>2, SysStep, PTL DEF SysSpec, FailuresTakeNothing, TakesNothing
=============================================================================
