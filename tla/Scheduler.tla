----------------------------- MODULE Scheduler -----------------------------
(***************************************************************************)
(* The scheduler on its own: any caller may make any call of its interface *)
(* for any lane at any time.  This is weaker than what the kernel loop     *)
(* does with it (see Kernel), so whatever holds here holds there.          *)
(***************************************************************************)
EXTENDS SchedulerOps

CONSTANTS Class, Weight, Delta   \* the classes, weights and clock increments callers pass

ASSUME CallerConstants == Class \subseteq WeightClass /\ Weight \subseteq Nat /\ Delta \subseteq Nat

VARIABLES
    sched,    \* the scheduler's state
    batch     \* the lanes the last take_dispatch_batch returned

vars == <<sched, batch>>

TypeOK == sched \in SchedulerState /\ batch \in SUBSET Lane

Init == sched = new /\ batch = {}

RegisterLane(l, class) == sched' = register_lane(sched, l, class) /\ UNCHANGED batch

NotifyComplete(l) == sched' = notify_complete(sched, l) /\ UNCHANGED batch

RegisterWait(l, resource) == sched' = register_wait(sched, l, resource) /\ UNCHANGED batch

SignalReady(l) == sched' = signal_ready(sched, l) /\ UNCHANGED batch

SetLaneWeight(l, w) == sched' = set_lane_weight(sched, l, w) /\ UNCHANGED batch

TakeDispatchBatch ==
    \E b \in select(sched) : batch' = b /\ sched' = take_dispatch_batch(sched, b)

AdvanceClock(d) == sched' = advance_clock(sched, d) /\ UNCHANGED batch

AdvanceToNextTimer ==
    /\ \E l \in Lane : IsEarliest(sched, l) /\ sched' = advance_to_next_timer(sched, l)
    /\ UNCHANGED batch

Next ==
    \/ \E l \in Lane, class \in Class : RegisterLane(l, class)
    \/ \E l \in Lane : NotifyComplete(l)
    \/ \E l \in Lane, resource \in WaitResource : RegisterWait(l, resource)
    \/ \E l \in Lane : SignalReady(l)
    \/ \E l \in Lane, w \in Weight : SetLaneWeight(l, w)
    \/ TakeDispatchBatch
    \/ \E d \in Delta : AdvanceClock(d)
    \/ AdvanceToNextTimer

Spec == Init /\ [][Next]_vars
-----------------------------------------------------------------------------
(* Catch-and-Release keeps two lists: a lane is never in the Ready Pool    *)
(* and on the Stalled List at once, and never twice in the Ready Pool,     *)
(* whatever wakes, waits, clock ticks and dispatches interleave            *)
(* (scheduler.rs:175-180, 221-226, 232-244).  A lane held twice would be   *)
(* polled twice for one wake.                                              *)
OnePlace ==
    \A l \in Lane : sched.ready[l] <= 1 /\ (sched.ready[l] = 1 => sched.stalled[l] = NotStalled)

(* "The clock never moves backward" (scheduler.rs:191-192), saturation of  *)
(* the sum and deadlines already in the past included.                     *)
ClockMonotone == [][sched'.now >= sched.now]_vars

(* Timers and the clock move together: when a step changes the clock, a    *)
(* lane waiting on a timer is in the Ready Pool afterwards if its deadline *)
(* has been reached, and still waits on the same timer if not, so no sleep *)
(* is cut short or lost by the clock (scheduler.rs:161-181, 193-228).      *)
ReleasedByClock ==
    [][sched'.now # sched.now =>
         \A l \in Lane : IsTimer(sched.stalled[l]) =>
            IF sched.stalled[l].deadline <= sched'.now
            THEN sched'.ready[l] = 1 /\ sched'.stalled[l] = NotStalled
            ELSE sched'.stalled[l] = sched.stalled[l]]_vars

(* The idle pump makes the least jump: it releases a lane every time, and  *)
(* it moves the clock no further than the earliest deadline of all the     *)
(* timers waiting when it was called (scheduler.rs:193-228).  A longer     *)
(* jump would let a later sleep return before an earlier one.              *)
PumpReleases ==
    [][AdvanceToNextTimer =>
         /\ \E l \in Lane : IsTimer(sched.stalled[l]) /\ sched'.ready[l] = 1
         /\ \A l \in Lane : IsTimer(sched.stalled[l]) =>
               sched'.now = sched.now \/ sched'.now <= sched.stalled[l].deadline]_vars

(* The clock and the timers move together, however the clock is moved: by  *)
(* a caller or by the pump (scheduler.rs:161-228).                         *)
TimersFollowClock == ReleasedByClock /\ PumpReleases

(* Work conservation: a dispatch takes no more lanes than there are        *)
(* contexts, takes none twice, and leaves a ready lane waiting only when   *)
(* every context got one (scheduler.rs:142-157, selector.rs:46-83).        *)
WorkConserving ==
    [][batch' # batch =>
         /\ Cardinality(batch') <= execution_contexts
         /\ \A l \in batch' : sched.ready[l] > 0 /\ sched'.ready[l] = 0
         /\ ReadyLanes(sched') # {} => Cardinality(batch') = execution_contexts]_vars
=============================================================================
