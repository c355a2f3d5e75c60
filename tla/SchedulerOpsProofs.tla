------------------------- MODULE SchedulerOpsProofs -------------------------
(***************************************************************************)
(* What each method of the scheduler does to its two lists, for every      *)
(* number of lanes, channels, contexts and clock values: the lemmas from   *)
(* which the theorems on the scheduler and on the kernel loop follow.      *)
(***************************************************************************)
EXTENDS SchedulerOps, TLAPS

(* The two lists are disjoint and the pool holds no lane twice.            *)
Tidy(s) ==
    /\ s \in SchedulerState
    /\ \A l \in Lane : s.ready[l] <= 1 /\ (s.ready[l] = 1 => s.stalled[l] = NotStalled)

(* A step from s to t leaves the place of l alone.                         *)
Same(s, t, l) == t.ready[l] = s.ready[l] /\ t.stalled[l] = s.stalled[l]

(* Scheduler::new: both lists are empty.                                   *)
LEMMA NewTidy == Tidy(new) /\ \A l \in Lane : new.ready[l] = 0 /\ new.stalled[l] = NotStalled
BY SchedulerConstants DEF Tidy, new, SchedulerState, Time

(* register_wait takes the lane out of the pool as it puts it on the list. *)
LEMMA RegisterWaitTidy ==
    ASSUME NEW s, Tidy(s), NEW l \in Lane, NEW r \in WaitResource
    PROVE  /\ Tidy(register_wait(s, l, r))
           /\ register_wait(s, l, r).now = s.now
           /\ register_wait(s, l, r).stalled[l] = r
           /\ \A k \in Lane \ {l} : Same(s, register_wait(s, l, r), k)
<1> DEFINE t == register_wait(s, l, r)
<1>1. t \in SchedulerState
  BY Zenon DEF Tidy, SchedulerState, register_wait
<1>2. /\ t.ready = [s.ready EXCEPT ![l] = 0] /\ t.stalled = [s.stalled EXCEPT ![l] = r]
      /\ t.now = s.now
  BY Zenon DEF Tidy, SchedulerState, register_wait
<1>3. \A k \in Lane : t.ready[k] <= 1 /\ (t.ready[k] = 1 => t.stalled[k] = NotStalled)
  BY <1>2 DEF Tidy, SchedulerState
<1>4. t.stalled[l] = r /\ \A k \in Lane \ {l} : Same(s, t, k)
  BY <1>2, Zenon DEF Tidy, SchedulerState, Same
<1> QED
  BY <1>1, <1>2, <1>3, <1>4, Zenon DEF Tidy

(* notify_complete leaves no trace of the lane in either list.             *)
LEMMA NotifyCompleteTidy ==
    ASSUME NEW s, Tidy(s), NEW l \in Lane
    PROVE  /\ Tidy(notify_complete(s, l))
           /\ notify_complete(s, l).now = s.now
           /\ \A k \in Lane \ {l} : Same(s, notify_complete(s, l), k)
<1> DEFINE t == notify_complete(s, l)
<1>1. t \in SchedulerState
  BY Zenon DEF Tidy, SchedulerState, notify_complete
<1>2. /\ t.ready = [s.ready EXCEPT ![l] = 0] /\ t.stalled = [s.stalled EXCEPT ![l] = NotStalled]
      /\ t.now = s.now
  BY Zenon DEF Tidy, SchedulerState, notify_complete
<1>3. \A k \in Lane : t.ready[k] <= 1 /\ (t.ready[k] = 1 => t.stalled[k] = NotStalled)
  BY <1>2 DEF Tidy, SchedulerState
<1>4. \A k \in Lane \ {l} : Same(s, t, k)
  BY <1>2, Zenon DEF Tidy, SchedulerState, Same
<1> QED
  BY <1>1, <1>2, <1>3, <1>4, Zenon DEF Tidy

(* signal_ready takes the lane off the Stalled List as it adds it to the   *)
(* pool, and adds it only when the pool does not hold it.                  *)
LEMMA SignalReadyTidy ==
    ASSUME NEW s, Tidy(s), NEW l \in Lane
    PROVE  /\ Tidy(signal_ready(s, l))
           /\ signal_ready(s, l).now = s.now
           /\ signal_ready(s, l).ready[l] = 1
           /\ \A k \in Lane \ {l} : Same(s, signal_ready(s, l), k)
<1> DEFINE t == signal_ready(s, l)
<1>1. /\ t.ready = [k \in Lane |-> IF k = l /\ s.ready[k] = 0 THEN 1 ELSE s.ready[k]]
      /\ t.stalled = [s.stalled EXCEPT ![l] = NotStalled]
      /\ t.now = s.now
  BY Zenon DEF Tidy, SchedulerState, signal_ready, PushReady
<1>2. t.ready \in [Lane -> Nat]
  BY <1>1 DEF Tidy, SchedulerState
<1>3. t \in SchedulerState
  BY <1>1, <1>2, Zenon DEF Tidy, SchedulerState, signal_ready
<1>4. \A k \in Lane : t.ready[k] <= 1 /\ (t.ready[k] = 1 => t.stalled[k] = NotStalled)
  BY <1>1 DEF Tidy, SchedulerState
<1>5. t.ready[l] = 1 /\ \A k \in Lane \ {l} : Same(s, t, k)
  BY <1>1 DEF Tidy, SchedulerState, Same
<1> QED
  BY <1>1, <1>3, <1>4, <1>5, Zenon DEF Tidy

(* register_lane and set_lane_weight touch neither list.                   *)
LEMMA RegisterLaneTidy ==
    ASSUME NEW s, Tidy(s), NEW l \in Lane, NEW class \in WeightClass
    PROVE  /\ Tidy(register_lane(s, l, class))
           /\ register_lane(s, l, class).now = s.now
           /\ \A k \in Lane : Same(s, register_lane(s, l, class), k)
BY Zenon DEF Tidy, SchedulerState, register_lane, Same

LEMMA SetLaneWeightTidy ==
    ASSUME NEW s, Tidy(s), NEW l \in Lane, NEW w \in Nat
    PROVE  Tidy(set_lane_weight(s, l, w)) /\ set_lane_weight(s, l, w).now = s.now
BY Zenon DEF Tidy, SchedulerState, set_lane_weight

(* A dispatch only takes lanes out of the pool, and only the chosen ones.  *)
LEMMA TakeDispatchBatchTidy ==
    ASSUME NEW s, Tidy(s), NEW b \in SUBSET Lane
    PROVE  /\ Tidy(take_dispatch_batch(s, b))
           /\ take_dispatch_batch(s, b).now = s.now
           /\ take_dispatch_batch(s, b).stalled = s.stalled
           /\ \A k \in Lane \ b : Same(s, take_dispatch_batch(s, b), k)
BY DEF Tidy, SchedulerState, take_dispatch_batch, Same

(* A batch drawn by the selector is a set of ready lanes.                  *)
LEMMA SelectType == ASSUME NEW s, NEW b \in select(s) PROVE b \in SUBSET Lane
BY Zenon DEF select, ReadyLanes

(* Releasing matured timers moves each from one list to the other and      *)
(* leaves every other lane where it is.                                    *)
LEMMA ReleaseMaturedTidy ==
    ASSUME NEW s, Tidy(s), NEW t \in Time
    PROVE  /\ Tidy(ReleaseMatured(s, t))
           /\ ReleaseMatured(s, t).now = t
           /\ \A k \in Lane : IF k \in Matured(s, t)
                              THEN /\ ReleaseMatured(s, t).ready[k] = 1
                                   /\ ReleaseMatured(s, t).stalled[k] = NotStalled
                              ELSE Same(s, ReleaseMatured(s, t), k)
<1> DEFINE m == Matured(s, t)
           u == ReleaseMatured(s, t)
<1>1. /\ u.ready = [k \in Lane |-> IF k \in m /\ s.ready[k] = 0 THEN 1 ELSE s.ready[k]]
      /\ u.stalled = [k \in Lane |-> IF k \in m THEN NotStalled ELSE s.stalled[k]]
      /\ u.now = t
  BY Zenon DEF Tidy, SchedulerState, ReleaseMatured, PushReady
<1>2. u.ready \in [Lane -> Nat] /\ u.stalled \in [Lane -> WaitResource \cup {NotStalled}]
  BY <1>1 DEF Tidy, SchedulerState
<1>3. u \in SchedulerState
  BY <1>1, <1>2, Zenon DEF Tidy, SchedulerState, ReleaseMatured
<1>4. \A k \in Lane : u.ready[k] <= 1 /\ (u.ready[k] = 1 => u.stalled[k] = NotStalled)
  BY <1>1 DEF Tidy, SchedulerState
<1>5. \A k \in Lane : IF k \in m THEN u.ready[k] = 1 /\ u.stalled[k] = NotStalled
                                 ELSE Same(s, u, k)
  BY <1>1 DEF Tidy, SchedulerState, Same
<1> QED
  BY <1>1, <1>3, <1>4, <1>5, Zenon DEF Tidy

(* The two clock methods pass ReleaseMatured a clock value in range.       *)
LEMMA SaturatingAddType ==
    ASSUME NEW t \in Time, NEW d \in Nat
    PROVE  saturating_add(t, d) \in Time /\ saturating_add(t, d) >= t
BY SchedulerConstants DEF saturating_add, Time

LEMMA DeadlineType ==
    ASSUME NEW s, Tidy(s), NEW l \in Lane, IsTimer(s.stalled[l])
    PROVE  s.stalled[l].deadline \in Time
BY DEF Tidy, SchedulerState, IsTimer, WaitResource, ChannelData, ChannelBuffer, Timer, Io, NotStalled

(* advance_clock, for any delta, is such a release and never goes back.    *)
LEMMA AdvanceClockReleases ==
    ASSUME NEW s, Tidy(s), NEW d \in Nat
    PROVE  \E t \in Time : t >= s.now /\ advance_clock(s, d) = ReleaseMatured(s, t)
<1>1. s.now \in Time
  BY Zenon DEF Tidy, SchedulerState
<1> QED
  BY <1>1, SaturatingAddType, Zenon DEF advance_clock

(* So is the idle pump, whichever timer lane it takes for the earliest.    *)
LEMMA AdvanceToNextTimerReleases ==
    ASSUME NEW s, Tidy(s), NEW l \in Lane, IsTimer(s.stalled[l])
    PROVE  \E t \in Time : /\ t >= s.now /\ t >= s.stalled[l].deadline
                           /\ t = s.now \/ t = s.stalled[l].deadline
                           /\ advance_to_next_timer(s, l) = ReleaseMatured(s, t)
<1> DEFINE deadline == s.stalled[l].deadline
           t == IF deadline <= s.now THEN s.now ELSE deadline
<1>1. deadline \in Time /\ s.now \in Time
  BY DeadlineType, Zenon DEF Tidy, SchedulerState
<1>2. t \in Time /\ t >= s.now /\ t >= deadline /\ (t = s.now \/ t = deadline)
  BY <1>1, SchedulerConstants DEF Time
<1>3. advance_to_next_timer(s, l) = ReleaseMatured(s, t)
  BY Zenon DEF advance_to_next_timer
<1> QED
  BY <1>2, <1>3, Zenon
=============================================================================
