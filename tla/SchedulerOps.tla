---------------------------- MODULE SchedulerOps ----------------------------
(***************************************************************************)
(* The state of the CIBOS scheduler (cibos-kernel/src/scheduler.rs) as one *)
(* record, and every method of it as an operator on that record.  Each    *)
(* method of the code holds the scheduler's one lock from its first to its *)
(* last line, so a call is one atomic update; writing the calls as        *)
(* operators lets a kernel step that makes several of them (closing a     *)
(* channel, polling a timeout) apply them in the code's order.             *)
(*                                                                         *)
(* The Ready Pool is a VecDeque whose order carries no meaning: a dispatch *)
(* is a weighted random draw from it.  It is kept as the number of times   *)
(* each lane sits in the deque, so a duplicate would show.                 *)
(***************************************************************************)
EXTENDS Integers, FiniteSets

CONSTANTS
    Lane,        \* lane identifiers
    Channel,     \* channel identifiers
    Contexts,    \* execution contexts asked for (0 is treated as 1)
    Compute,     \* TRUE under the Compute profile, which allows weight overrides
    MaxTime      \* the largest Monotonic value, at which the clock saturates

ASSUME SchedulerConstants ==
    /\ Contexts \in Nat
    /\ Compute \in BOOLEAN
    /\ MaxTime \in Nat

Time == 0..MaxTime

(* WaitResource.  Memory, DiskIo and NetworkIo waits are told apart by no  *)
(* code: they are the one resource "io".                                   *)
ChannelData(c) == [on |-> "data", ch |-> c]
ChannelBuffer(c) == [on |-> "buffer", ch |-> c]
Timer(d) == [on |-> "timer", deadline |-> d]
Io == [on |-> "io"]

WaitResource == {ChannelData(c) : c \in Channel} \cup {ChannelBuffer(c) : c \in Channel}
                  \cup {Timer(d) : d \in Time} \cup {Io}

NotStalled == [on |-> "nothing"]   \* the lane has no entry in the stalled map

IsTimer(r) == r.on = "timer"

WeightClass == {"System", "User", "Background"}
NoClass == "unregistered"

SchedulerState ==
    [ready : [Lane -> Nat],
     stalled : [Lane -> WaitResource \cup {NotStalled}],
     classes : [Lane -> WeightClass \cup {NoClass}],
     overrides : [Lane -> Nat],     \* 0: the lane has no override
     now : Time]

new == [ready |-> [l \in Lane |-> 0],
        stalled |-> [l \in Lane |-> NotStalled],
        classes |-> [l \in Lane |-> NoClass],
        overrides |-> [l \in Lane |-> 0],
        now |-> 0]

execution_contexts == IF Contexts = 0 THEN 1 ELSE Contexts

ReadyLanes(s) == {l \in Lane : s.ready[l] > 0}
has_ready(s) == ReadyLanes(s) # {}

(* Mutant: push_back without the contains check.                           *)
PushReady_NoContains(s, lanes) == [l \in Lane |-> IF l \in lanes THEN s.ready[l] + 1 ELSE s.ready[l]]

(* ready.push_back(lane) unless ready.contains(lane).                      *)
PushReady(s, lanes) == [l \in Lane |-> IF l \in lanes /\ s.ready[l] = 0 THEN 1 ELSE s.ready[l]]

register_lane(s, l, class) == [s EXCEPT !.classes[l] = class]

notify_complete(s, l) ==
    [s EXCEPT !.ready[l] = 0, !.stalled[l] = NotStalled,
              !.classes[l] = NoClass, !.overrides[l] = 0]

register_wait(s, l, resource) == [s EXCEPT !.ready[l] = 0, !.stalled[l] = resource]

signal_ready(s, l) == [s EXCEPT !.ready = PushReady(s, {l}), !.stalled[l] = NotStalled]

(* set_lane_weight: no check that the lane exists; weight 0 is stored as 1.*)
set_lane_weight(s, l, w) ==
    IF Compute THEN [s EXCEPT !.overrides[l] = IF w = 0 THEN 1 ELSE w] ELSE s

(* selector::select: every weight is at least 1, so with more ready lanes  *)
(* than contexts each set of that many lanes can be drawn; otherwise all   *)
(* the ready lanes are dispatched.                                         *)
select(s) ==
    LET ready == ReadyLanes(s)
    IN {b \in SUBSET ready :
           \/ Cardinality(ready) <= execution_contexts /\ b = ready
           \/ Cardinality(ready) > execution_contexts /\ Cardinality(b) = execution_contexts}

(* Mutant: the chosen lanes stay in the pool.                              *)
take_dispatch_batch_Keep(s, batch) == s

(* take_dispatch_batch, for the draw `batch' of select(s).                 *)
take_dispatch_batch(s, batch) ==
    [s EXCEPT !.ready = [l \in Lane |-> IF l \in batch THEN 0 ELSE s.ready[l]]]

(* Mutant: a deadline equal to the clock counts as still ahead.             *)
Matured_Strict(s, now) == {l \in Lane : IsTimer(s.stalled[l]) /\ s.stalled[l].deadline < now}

(* The timer lanes whose deadline a clock reading `now' has reached, and   *)
(* their move to the Ready Pool: the common tail of both clock methods.    *)
Matured(s, now) == {l \in Lane : IsTimer(s.stalled[l]) /\ s.stalled[l].deadline <= now}

ReleaseMatured(s, now) ==
    LET matured == Matured(s, now)
    IN [s EXCEPT !.now = now,
                 !.stalled = [l \in Lane |-> IF l \in matured THEN NotStalled ELSE s.stalled[l]],
                 !.ready = PushReady(s, matured)]

saturating_add(t, d) == IF t + d > MaxTime THEN MaxTime ELSE t + d

advance_clock(s, d) == ReleaseMatured(s, saturating_add(s.now, d))

TimerLanes(s) == {l \in Lane : IsTimer(s.stalled[l])}

IsEarliest(s, l) ==
    /\ l \in TimerLanes(s)
    /\ \A m \in TimerLanes(s) : s.stalled[l].deadline <= s.stalled[m].deadline

(* advance_to_next_timer when l is a lane with the earliest deadline; it   *)
(* returns false, and changes nothing, when there is no such lane.         *)
advance_to_next_timer(s, l) ==
    LET deadline == s.stalled[l].deadline
    IN ReleaseMatured(s, IF deadline <= s.now THEN s.now ELSE deadline)
=============================================================================
