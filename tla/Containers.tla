----------------------------- MODULE Containers -----------------------------
(***************************************************************************)
(* The kernel's accounts of its isolation boundaries: the container        *)
(* registry (cibos-kernel/src/container.rs), which checks every lane,      *)
(* channel and allocation of a boundary against its limits, and the memory *)
(* manager (cibos-kernel/src/memory.rs), which checks reservations against *)
(* the usable memory of the machine.  Each is behind one lock that every   *)
(* call holds from its check to its update, so a call is one step.  They   *)
(* are two accounts: destroying a container releases nothing of the        *)
(* second, and reserving needs no container.                               *)
(***************************************************************************)
EXTENDS Integers, FiniteSets, FiniteSetsExt

CONSTANTS Ids,         \* boundary identifiers; 0 is the system boundary
          LaneIds, ChannelIds,
          MaxWord,     \* the largest u64
          Limits,      \* the ResourceLimits containers are created with
          Requests,    \* sizes that are asked for and given back
          TotalUsable  \* the usable memory of the handoff's regions

ASSUME ContainersAssumption ==
  /\ Ids \subseteq Nat /\ 0 \in Ids
  /\ MaxWord \in Nat
  /\ Limits \subseteq [memory_bytes : 0 .. MaxWord, max_lanes : Nat, max_channels : Nat]
  /\ \A l \in Limits : l.memory_bytes < MaxWord
  /\ Requests \subseteq 0 .. MaxWord
  /\ TotalUsable \in 0 .. MaxWord - 1

VARIABLES containers,    \* RegistryState::containers
          next_id,       \* RegistryState::next_id
          reserved,      \* MemState::reserved
          by_boundary    \* MemState::by_boundary

accountVars == <<containers, next_id, reserved, by_boundary>>

Container == [limits : Limits, lanes : SUBSET LaneIds, channels : SUBSET ChannelIds,
              allocated : Nat, peak : Nat]

New(limits) == [limits |-> limits, lanes |-> {}, channels |-> {}, allocated |-> 0, peak |-> 0]

With(f, k, v) == [x \in DOMAIN f \cup {k} |-> IF x = k THEN v ELSE f[x]]
Without(f, k) == [x \in DOMAIN f \ {k} |-> f[x]]

saturating_sum(a, b) == IF a + b > MaxWord THEN MaxWord ELSE a + b
saturating_sub(a, b) == IF b > a THEN 0 ELSE a - b

\* Kernel::assemble: a fresh registry, in which the system boundary is created.
AccountsInit ==
  /\ \E l \in Limits : containers = [i \in {0} |-> New(l)]
  /\ next_id = 1
  /\ reserved = 0 /\ by_boundary = [i \in {} |-> 0]

OnlyRegistry == UNCHANGED <<reserved, by_boundary>>
OnlyContainers == OnlyRegistry /\ UNCHANGED next_id
OnlyReservations == UNCHANGED <<containers, next_id>>

\* Refused while there is a system boundary; possible again once it is destroyed.
create_system(l) ==
  /\ 0 \notin DOMAIN containers
  /\ containers' = With(containers, 0, New(l))
  /\ UNCHANGED next_id /\ OnlyRegistry

create(l) ==
  /\ next_id \in Ids
  /\ containers' = With(containers, next_id, New(l))
  /\ next_id' = next_id + 1
  /\ OnlyRegistry

destroy(i) ==
  /\ i \in DOMAIN containers
  /\ containers' = Without(containers, i)
  /\ UNCHANGED next_id /\ OnlyRegistry

add_lane_OffByOne(i, lane) ==
  /\ i \in DOMAIN containers
  /\ Cardinality(containers[i].lanes) <= containers[i].limits.max_lanes
  /\ containers' = [containers EXCEPT ![i].lanes = @ \cup {lane}]
  /\ OnlyContainers

\* At the limit a lane is refused even when it is one of the container's already.
add_lane(i, lane) ==
  /\ i \in DOMAIN containers
  /\ Cardinality(containers[i].lanes) < containers[i].limits.max_lanes
  /\ containers' = [containers EXCEPT ![i].lanes = @ \cup {lane}]
  /\ OnlyContainers

remove_lane(i, lane) ==
  /\ i \in DOMAIN containers
  /\ containers' = [containers EXCEPT ![i].lanes = @ \ {lane}]
  /\ OnlyContainers

add_channel(i, channel) ==
  /\ i \in DOMAIN containers
  /\ Cardinality(containers[i].channels) < containers[i].limits.max_channels
  /\ containers' = [containers EXCEPT ![i].channels = @ \cup {channel}]
  /\ OnlyContainers

remove_channel(i, channel) ==
  /\ i \in DOMAIN containers
  /\ containers' = [containers EXCEPT ![i].channels = @ \ {channel}]
  /\ OnlyContainers

check_allocation(l, already, requested) == saturating_sum(already, requested) <= l.memory_bytes

\* The sum is checked saturated and then stored unsaturated.
allocate_memory(i, bytes) ==
  /\ i \in DOMAIN containers
  /\ check_allocation(containers[i].limits, containers[i].allocated, bytes)
  /\ LET now == (containers[i].allocated + bytes) % (MaxWord + 1) IN
     containers' = [containers EXCEPT ![i].allocated = now,
                                      ![i].peak = IF now > @ THEN now ELSE @]
  /\ OnlyContainers

release_memory(i, bytes) ==
  /\ i \in DOMAIN containers
  /\ containers' = [containers EXCEPT ![i].allocated = saturating_sub(@, bytes)]
  /\ OnlyContainers

Reservation(i) == IF i \in DOMAIN by_boundary THEN by_boundary[i] ELSE 0

reserve(i, bytes) ==
  /\ saturating_sum(reserved, bytes) <= TotalUsable
  /\ reserved' = saturating_sum(reserved, bytes)
  /\ by_boundary' = With(by_boundary, i, (Reservation(i) + bytes) % (MaxWord + 1))
  /\ OnlyReservations

release_all_Keeps(i) ==
  /\ i \in DOMAIN by_boundary
  /\ reserved' = saturating_sub(reserved, by_boundary[i])
  /\ UNCHANGED by_boundary
  /\ OnlyReservations

release_all(i) ==
  /\ i \in DOMAIN by_boundary
  /\ reserved' = saturating_sub(reserved, by_boundary[i])
  /\ by_boundary' = Without(by_boundary, i)
  /\ OnlyReservations

AccountsNext ==
  \/ \E l \in Limits : create_system(l) \/ create(l)
  \/ \E i \in Ids :
       \/ destroy(i)
       \/ \E lane \in LaneIds : add_lane(i, lane) \/ remove_lane(i, lane)
       \/ \E channel \in ChannelIds : add_channel(i, channel) \/ remove_channel(i, channel)
       \/ \E bytes \in Requests : allocate_memory(i, bytes) \/ release_memory(i, bytes) \/ reserve(i, bytes)
       \/ release_all(i)

AccountsSpec == AccountsInit /\ [][AccountsNext]_accountVars

-----------------------------------------------------------------------------
(* No boundary ever holds more lanes, channels or bytes than its limits    *)
(* allow, and the peak it reports is at least what it holds and was itself *)
(* within the limit, whatever is added, removed, released twice or asked   *)
(* for beyond the range of a u64 (add_lane, add_channel, allocate,         *)
(* release_memory, check_allocation).                                      *)
WithinLimits ==
  \A i \in DOMAIN containers :
    LET c == containers[i] IN
    /\ Cardinality(c.lanes) <= c.limits.max_lanes
    /\ Cardinality(c.channels) <= c.limits.max_channels
    /\ c.allocated <= c.peak /\ c.peak <= c.limits.memory_bytes

(* The memory manager's total is the sum of what the boundaries reserved,  *)
(* and never more than the usable memory, whoever reserves and releases in *)
(* whatever order and with requests beyond the range of a u64 (reserve,    *)
(* release_all).                                                           *)
ReservationsAddUp ==
  /\ reserved = FoldSet(LAMBDA i, sum : sum + by_boundary[i], 0, DOMAIN by_boundary)
  /\ reserved <= TotalUsable

=============================================================================
