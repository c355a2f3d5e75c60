---------------------------- MODULE TablesProofs ----------------------------
(***************************************************************************)
(* What the kernel's tables guarantee whatever calls are made on them: the *)
(* scheduler's lists and clock, for every number of lanes, channels,       *)
(* contexts and clock values, and the containers' accounts, for every set  *)
(* of limits, requests and identifiers.                                    *)
(***************************************************************************)
EXTENDS Scheduler, SchedulerOpsProofs, Containers, FiniteSetTheorems

(* The inductive invariant: OnePlace with the types that its steps need.   *)
IInv == Tidy(sched) /\ batch \in SUBSET Lane

(* A step moves the clock only by releasing the timers that it passes.     *)
ClockStep ==
    \/ sched'.now = sched.now
    \/ \E t \in Time : t >= sched.now /\ sched' = ReleaseMatured(sched, t)

(* Every call keeps the invariant and treats the clock so.                 *)
LEMMA StepSafe == IInv /\ [Next]_vars => IInv' /\ ClockStep
<1> SUFFICES ASSUME IInv, [Next]_vars PROVE IInv' /\ ClockStep
  OBVIOUS
<1>0. Tidy(sched) /\ batch \in SUBSET Lane /\ sched.now \in Nat
  BY SchedulerConstants DEF IInv, Tidy, SchedulerState, Time
<1>1. ASSUME NEW l \in Lane, NEW class \in Class, RegisterLane(l, class)
      PROVE  IInv' /\ sched'.now = sched.now
  BY <1>0, <1>1, RegisterLaneTidy, CallerConstants, Zenon DEF RegisterLane, IInv
<1>2. ASSUME NEW l \in Lane, NotifyComplete(l)
      PROVE  IInv' /\ sched'.now = sched.now
  BY <1>0, <1>2, NotifyCompleteTidy, Zenon DEF NotifyComplete, IInv
<1>3. ASSUME NEW l \in Lane, NEW r \in WaitResource, RegisterWait(l, r)
      PROVE  IInv' /\ sched'.now = sched.now
  BY <1>0, <1>3, RegisterWaitTidy, Zenon DEF RegisterWait, IInv
<1>4. ASSUME NEW l \in Lane, SignalReady(l)
      PROVE  IInv' /\ sched'.now = sched.now
  BY <1>0, <1>4, SignalReadyTidy, Zenon DEF SignalReady, IInv
<1>5. ASSUME NEW l \in Lane, NEW w \in Weight, SetLaneWeight(l, w)
      PROVE  IInv' /\ sched'.now = sched.now
  BY <1>0, <1>5, SetLaneWeightTidy, CallerConstants, Zenon DEF SetLaneWeight, IInv
<1>6. ASSUME TakeDispatchBatch
      PROVE  IInv' /\ sched'.now = sched.now
  <2>1. PICK b \in select(sched) : batch' = b /\ sched' = take_dispatch_batch(sched, b)
    BY <1>6, Zenon DEF TakeDispatchBatch
  <2> QED
    BY <1>0, <2>1, SelectType, TakeDispatchBatchTidy, Zenon DEF IInv
<1>7. ASSUME NEW d \in Delta, AdvanceClock(d)
      PROVE  IInv' /\ ClockStep
  <2>1. PICK t \in Time : t >= sched.now /\ sched' = ReleaseMatured(sched, t)
    BY <1>0, <1>7, CallerConstants, AdvanceClockReleases, Zenon DEF AdvanceClock
  <2> QED
    BY <1>0, <1>7, <2>1, ReleaseMaturedTidy, Zenon DEF AdvanceClock, IInv, ClockStep
<1>8. ASSUME AdvanceToNextTimer
      PROVE  IInv' /\ ClockStep
  <2>1. PICK l \in Lane : IsEarliest(sched, l) /\ sched' = advance_to_next_timer(sched, l)
    BY <1>8, Zenon DEF AdvanceToNextTimer
  <2>2. PICK t \in Time : t >= sched.now /\ sched' = ReleaseMatured(sched, t)
    BY <1>0, <2>1, AdvanceToNextTimerReleases, Zenon DEF IsEarliest, TimerLanes
  <2> QED
    BY <1>0, <1>8, <2>2, ReleaseMaturedTidy, Zenon DEF AdvanceToNextTimer, IInv, ClockStep
<1>9. CASE UNCHANGED vars
  BY <1>0, <1>9, Zenon DEF vars, IInv, ClockStep
<1> QED
  BY <1>0, <1>1, <1>2, <1>3, <1>4, <1>5, <1>6, <1>7, <1>8, <1>9, Zenon DEF Next, ClockStep

LEMMA InitSafe == Init => IInv
BY NewTidy, Zenon DEF Init, IInv

(* The state of the scheduler keeps its type: in particular the clock      *)
(* never leaves its range, however large the deltas (scheduler.rs:161-164).*)
THEOREM TypeCorrect == Spec => []TypeOK
<1>1. IInv => TypeOK
  BY Zenon DEF IInv, Tidy, TypeOK
<1> QED
  BY <1>1, InitSafe, StepSafe, PTL DEF Spec

(* The Ready Pool and the Stalled List stay disjoint, and a lane is in the *)
(* Ready Pool at most once, for any lanes, contexts and sequence of calls  *)
(* on the scheduler (scheduler.rs:83-260).                                 *)
THEOREM OnePlaceHolds == Spec => []OnePlace
<1>1. IInv => OnePlace
  BY Zenon DEF IInv, Tidy, OnePlace
<1> QED
  BY <1>1, InitSafe, StepSafe, PTL DEF Spec

(* "The clock never moves backward" (scheduler.rs:191-192), whatever calls *)
(* are made and in whatever order.                                         *)
THEOREM ClockMonotoneHolds == Spec => ClockMonotone
<1>1. IInv /\ [Next]_vars => [sched'.now >= sched.now]_vars
  <2> SUFFICES ASSUME IInv, [Next]_vars PROVE sched'.now >= sched.now
    OBVIOUS
  <2>1. Tidy(sched) /\ sched.now \in Nat
    BY SchedulerConstants DEF IInv, Tidy, SchedulerState, Time
  <2> QED
    BY <2>1, StepSafe, ReleaseMaturedTidy DEF ClockStep
<1> QED
  BY <1>1, InitSafe, StepSafe, PTL DEF Spec, ClockMonotone

(* Whenever the clock moves, every timer it has reached is released and    *)
(* every other timer is left waiting, and the idle pump moves it just far  *)
(* enough to release one (scheduler.rs:161-181, 193-228).                  *)
THEOREM TimersFollowClockHolds == Spec => TimersFollowClock
<1> DEFINE Released(l) ==
             IsTimer(sched.stalled[l]) =>
               IF sched.stalled[l].deadline <= sched'.now
               THEN sched'.ready[l] = 1 /\ sched'.stalled[l] = NotStalled
               ELSE sched'.stalled[l] = sched.stalled[l]
           Least == /\ \E l \in Lane : IsTimer(sched.stalled[l]) /\ sched'.ready[l] = 1
                    /\ \A l \in Lane : IsTimer(sched.stalled[l]) =>
                          sched'.now = sched.now \/ sched'.now <= sched.stalled[l].deadline
<1>1. IInv /\ [Next]_vars => [sched'.now # sched.now => \A l \in Lane : Released(l)]_vars
  <2> SUFFICES ASSUME IInv, [Next]_vars, sched'.now # sched.now, NEW l \in Lane
               PROVE  Released(l)
    OBVIOUS
  <2>1. Tidy(sched)
    BY Zenon DEF IInv
  <2>2. PICK t \in Time : sched' = ReleaseMatured(sched, t)
    BY StepSafe, Zenon DEF ClockStep
  <2> QED
    BY <2>1, <2>2, ReleaseMaturedTidy DEF Matured, Same
<1>2. IInv => [AdvanceToNextTimer => Least]_vars
  <2> SUFFICES ASSUME IInv, AdvanceToNextTimer PROVE Least
    OBVIOUS
  <2>1. Tidy(sched)
    BY Zenon DEF IInv
  <2>2. PICK l \in Lane : IsEarliest(sched, l) /\ sched' = advance_to_next_timer(sched, l)
    BY Zenon DEF AdvanceToNextTimer
  <2>3. /\ IsTimer(sched.stalled[l])
        /\ \A m \in Lane : IsTimer(sched.stalled[m]) =>
              sched.stalled[l].deadline <= sched.stalled[m].deadline
    BY <2>2, Zenon DEF IsEarliest, TimerLanes
  <2>4. PICK t \in Time : /\ t >= sched.stalled[l].deadline
                          /\ t = sched.now \/ t = sched.stalled[l].deadline
                          /\ sched' = ReleaseMatured(sched, t)
    BY <2>1, <2>2, <2>3, AdvanceToNextTimerReleases, Zenon
  <2>5. sched'.now = t /\ sched'.ready[l] = 1
    BY <2>1, <2>3, <2>4, ReleaseMaturedTidy, Zenon DEF Matured
  <2> QED
    BY <2>3, <2>4, <2>5, Zenon
<1> QED
  BY <1>1, <1>2, InitSafe, StepSafe, PTL DEF Spec, TimersFollowClock, ReleasedByClock, PumpReleases

(* A dispatch fills the contexts: it takes no more lanes than there are    *)
(* contexts, each of them out of the Ready Pool, and leaves a lane ready   *)
(* only when every context got one, whichever batch the weighted draw      *)
(* returns (scheduler.rs:142-157, selector.rs:46-83).                      *)
THEOREM WorkConservingHolds == Spec => WorkConserving
<1> DEFINE Conserving ==
             /\ Cardinality(batch') <= execution_contexts
             /\ \A l \in batch' : sched.ready[l] > 0 /\ sched'.ready[l] = 0
             /\ ReadyLanes(sched') # {} => Cardinality(batch') = execution_contexts
<1>1. IInv /\ [Next]_vars => [batch' # batch => Conserving]_vars
  <2> SUFFICES ASSUME IInv, [Next]_vars, batch' # batch PROVE Conserving
    OBVIOUS
  <2>1. TakeDispatchBatch
    BY Zenon DEF Next, vars, RegisterLane, NotifyComplete, RegisterWait, SignalReady,
           SetLaneWeight, AdvanceClock, AdvanceToNextTimer
  <2>2. PICK b \in select(sched) : batch' = b /\ sched' = take_dispatch_batch(sched, b)
    BY <2>1, Zenon DEF TakeDispatchBatch
  <2>3. b \subseteq ReadyLanes(sched) /\ execution_contexts \in Nat
    BY <2>2, SchedulerConstants, Zenon DEF select, execution_contexts
  <2>4. \A l \in Lane : sched'.ready[l] = IF l \in b THEN 0 ELSE sched.ready[l]
    BY <2>2, Zenon DEF IInv, Tidy, SchedulerState, take_dispatch_batch
  <2>5. CASE Cardinality(ReadyLanes(sched)) <= execution_contexts /\ b = ReadyLanes(sched)
    <3>1. ReadyLanes(sched') = {}
      BY <2>4, <2>5 DEF ReadyLanes
    <3> QED
      BY <2>2, <2>3, <2>4, <2>5, <3>1, Zenon DEF ReadyLanes
  <2>6. CASE Cardinality(b) = execution_contexts
    BY <2>2, <2>3, <2>4, <2>6 DEF ReadyLanes
  <2> QED
    BY <2>2, <2>5, <2>6, Zenon DEF select
<1> QED
  BY <1>1, InitSafe, StepSafe, PTL DEF Spec, WorkConserving

-----------------------------------------------------------------------------
(* Induction over the natural numbers, and functions that are equal.       *)

(* A set of numbers has a least one.                                       *)
LEMMA LeastNat ==
  ASSUME NEW T, T \subseteq Nat, T # {}
  PROVE  \E x \in T : \A y \in T : x <= y
<1> DEFINE R == {ss \in Nat \X Nat : ss[1] < ss[2]}
<1>1. IsWellFoundedOn(R, Nat)
  BY NatLessThanWellFounded, Zenon DEF OpToRel
<1>a. \A y, x \in Nat : y < x => <<y, x>> \in R
  OBVIOUS
<1> HIDE DEF R
<1>2. PICK x \in T : \A y \in T : ~(<<y, x>> \in R)
  BY <1>1, WFMin, Zenon
<1>3. \A y \in T : ~(y < x) /\ y \in Nat /\ x \in Nat
  BY <1>2, <1>a, Zenon
<1>4. \A y \in T : x <= y
  BY <1>3
<1> QED
  BY <1>4, Zenon

(* Induction, for a set in the place of a predicate.                       *)
LEMMA Inductive ==
  ASSUME NEW T, 0 \in T, \A n \in Nat : n \in T => n + 1 \in T
  PROVE  Nat \subseteq T
<1> SUFFICES ASSUME Nat \ T # {} PROVE FALSE
  OBVIOUS
<1>1. PICK x \in Nat \ T : \A y \in Nat \ T : x <= y
  BY LeastNat, Zenon
<1>2. x # 0 /\ x - 1 \in Nat /\ (x - 1) + 1 = x /\ ~(x <= x - 1)
  BY <1>1
<1>3. x - 1 \in T
  BY <1>1, <1>2, Zenon
<1> QED
  BY <1>1, <1>2, <1>3, Zenon

LEMMA SameFunction ==
    ASSUME NEW D, NEW f, NEW g, f = [x \in D |-> f[x]], g = [x \in D |-> g[x]], \A x \in D : f[x] = g[x]
    PROVE  f = g
<1>1. [x \in D |-> f[x]] = [x \in D |-> g[x]]
  BY Zenon
<1> QED
  BY <1>1, Zenon

-----------------------------------------------------------------------------
(* Containers                                                              *)

\* What a container always is: typed, with finite sets, within its limits.
Sound(c) ==
  /\ c \in Container
  /\ IsFiniteSet(c.lanes) /\ IsFiniteSet(c.channels)
  /\ Cardinality(c.lanes) <= c.limits.max_lanes
  /\ Cardinality(c.channels) <= c.limits.max_channels
  /\ c.allocated <= c.peak /\ c.peak <= c.limits.memory_bytes

\* The inductive invariant: WithinLimits with the types its steps need.
AccountsInv == \A i \in DOMAIN containers : Sound(containers[i])

(* A sum that passes check_allocation has not overflowed: a saturated sum  *)
(* is the largest word, above every limit.                                 *)
LEMMA CheckedSumFits ==
  ASSUME NEW l \in Limits, NEW a \in Nat, NEW b \in Requests, check_allocation(l, a, b)
  PROVE  a + b \in 0 .. l.memory_bytes /\ (a + b) % (MaxWord + 1) = a + b
<1>1. /\ l.memory_bytes \in Nat /\ l.memory_bytes < MaxWord
      /\ MaxWord \in Nat /\ b \in Nat
  BY ContainersAssumption
<1>2. a + b <= l.memory_bytes
  BY <1>1 DEF check_allocation, saturating_sum
<1>3. \A x, m \in Nat : x < m => x % m = x
  OBVIOUS
<1>4. a + b \in Nat /\ MaxWord + 1 \in Nat /\ a + b < MaxWord + 1
  BY <1>1, <1>2
<1>5. (a + b) % (MaxWord + 1) = a + b
  BY <1>3, <1>4, Zenon
<1>6. a + b \in 0 .. l.memory_bytes
  BY <1>1, <1>2
<1> QED
  BY <1>5, <1>6, Zenon

(* An element added to a finite set below a bound leaves it at most at it. *)
LEMMA OneMore ==
  ASSUME NEW S, IsFiniteSet(S), NEW x, NEW n \in Nat, Cardinality(S) < n
  PROVE  IsFiniteSet(S \cup {x}) /\ Cardinality(S \cup {x}) <= n
<1>1. Cardinality(S) \in Nat
  BY FS_CardinalityType, Zenon
<1>2. /\ IsFiniteSet(S \cup {x})
      /\ Cardinality(S \cup {x}) = IF x \in S THEN Cardinality(S) ELSE Cardinality(S) + 1
  BY FS_AddElement, Zenon
<1> QED
  BY <1>1, <1>2

(* A finite set at most at a bound stays so when an element is taken out.  *)
LEMMA OneLess ==
  ASSUME NEW S, IsFiniteSet(S), NEW x, NEW n \in Nat, Cardinality(S) <= n
  PROVE  IsFiniteSet(S \ {x}) /\ Cardinality(S \ {x}) <= n
<1>1. Cardinality(S) \in Nat
  BY FS_CardinalityType, Zenon
<1>2. /\ IsFiniteSet(S \ {x})
      /\ Cardinality(S \ {x}) = IF x \in S THEN Cardinality(S) - 1 ELSE Cardinality(S)
  BY FS_RemoveElement, Zenon
<1> QED
  BY <1>1, <1>2

(* A container as it is created is sound.                                  *)
LEMMA NewIsSound ==
  ASSUME NEW l \in Limits
  PROVE  Sound(New(l))
<1>1. /\ l.memory_bytes \in Nat /\ l.max_lanes \in Nat /\ l.max_channels \in Nat
  BY ContainersAssumption
<1>2. IsFiniteSet({}) /\ Cardinality({}) = 0
  BY FS_EmptySet, Zenon
<1>3. New(l) \in Container
  BY Zenon DEF New, Container
<1> QED
  BY <1>1, <1>2, <1>3 DEF Sound, New

(* A step that replaces one container by a sound one keeps the invariant.  *)
LEMMA OneChanged ==
  ASSUME AccountsInv, NEW i \in DOMAIN containers, NEW c, Sound(c),
         containers' = [containers EXCEPT ![i] = c]
  PROVE  AccountsInv'
BY Zenon DEF AccountsInv

(* The same for a container that is put in the registry.                   *)
LEMMA OneAdded ==
  ASSUME AccountsInv, NEW i, NEW c, Sound(c), containers' = With(containers, i, c)
  PROVE  AccountsInv'
BY Zenon DEF AccountsInv, With

(* Init: the registry holds the system boundary as it was created.         *)
LEMMA AccountsStart == AccountsInit => AccountsInv
<1> SUFFICES ASSUME NEW l \in Limits, containers = [i \in {0} |-> New(l)]
             PROVE  AccountsInv
  BY Zenon DEF AccountsInit
<1> QED
  BY NewIsSound, Zenon DEF AccountsInv

(* Every call keeps every container sound.                                 *)
LEMMA AccountsStep == AccountsInv /\ [AccountsNext]_accountVars => AccountsInv'
<1> SUFFICES ASSUME AccountsInv, [AccountsNext]_accountVars
             PROVE  AccountsInv'
  OBVIOUS
<1>1. ASSUME NEW l \in Limits, create_system(l) \/ create(l)
      PROVE  AccountsInv'
  BY <1>1, NewIsSound, OneAdded, Zenon DEF create_system, create
<1>2. ASSUME NEW i \in Ids, destroy(i)
      PROVE  AccountsInv'
  BY <1>2, Zenon DEF destroy, Without, AccountsInv
<1>3. ASSUME NEW i \in Ids, NEW lane \in LaneIds, add_lane(i, lane)
      PROVE  AccountsInv'
  <2> DEFINE c == [containers[i] EXCEPT !.lanes = @ \cup {lane}]
  <2>1. i \in DOMAIN containers /\ Sound(containers[i])
    BY <1>3, Zenon DEF add_lane, AccountsInv
  <2>2. containers[i].limits.max_lanes \in Nat
    BY <2>1, ContainersAssumption, Zenon DEF Sound, Container
  <2>3. IsFiniteSet(containers[i].lanes \cup {lane})
        /\ Cardinality(containers[i].lanes \cup {lane}) <= containers[i].limits.max_lanes
    BY <1>3, <2>1, <2>2, OneMore, Zenon DEF Sound, add_lane
  <2>4. Sound(c)
    BY <2>1, <2>3, Zenon DEF Sound, Container
  <2>5. containers' = [containers EXCEPT ![i] = c]
    BY <1>3, Zenon DEF add_lane
  <2> QED
    BY <2>1, <2>4, <2>5, OneChanged, Zenon
<1>4. ASSUME NEW i \in Ids, NEW lane \in LaneIds, remove_lane(i, lane)
      PROVE  AccountsInv'
  <2> DEFINE c == [containers[i] EXCEPT !.lanes = @ \ {lane}]
  <2>1. i \in DOMAIN containers /\ Sound(containers[i])
    BY <1>4, Zenon DEF remove_lane, AccountsInv
  <2>2. containers[i].limits.max_lanes \in Nat
    BY <2>1, ContainersAssumption, Zenon DEF Sound, Container
  <2>3. IsFiniteSet(containers[i].lanes \ {lane})
        /\ Cardinality(containers[i].lanes \ {lane}) <= containers[i].limits.max_lanes
    BY <2>1, <2>2, OneLess, Zenon DEF Sound
  <2>4. Sound(c)
    BY <2>1, <2>3, Zenon DEF Sound, Container
  <2>5. containers' = [containers EXCEPT ![i] = c]
    BY <1>4, Zenon DEF remove_lane
  <2> QED
    BY <2>1, <2>4, <2>5, OneChanged, Zenon
<1>5. ASSUME NEW i \in Ids, NEW ch \in ChannelIds, add_channel(i, ch)
      PROVE  AccountsInv'
  <2> DEFINE c == [containers[i] EXCEPT !.channels = @ \cup {ch}]
  <2>1. i \in DOMAIN containers /\ Sound(containers[i])
    BY <1>5, Zenon DEF add_channel, AccountsInv
  <2>2. containers[i].limits.max_channels \in Nat
    BY <2>1, ContainersAssumption, Zenon DEF Sound, Container
  <2>3. IsFiniteSet(containers[i].channels \cup {ch})
        /\ Cardinality(containers[i].channels \cup {ch}) <= containers[i].limits.max_channels
    BY <1>5, <2>1, <2>2, OneMore, Zenon DEF Sound, add_channel
  <2>4. Sound(c)
    BY <2>1, <2>3, Zenon DEF Sound, Container
  <2>5. containers' = [containers EXCEPT ![i] = c]
    BY <1>5, Zenon DEF add_channel
  <2> QED
    BY <2>1, <2>4, <2>5, OneChanged, Zenon
<1>6. ASSUME NEW i \in Ids, NEW ch \in ChannelIds, remove_channel(i, ch)
      PROVE  AccountsInv'
  <2> DEFINE c == [containers[i] EXCEPT !.channels = @ \ {ch}]
  <2>1. i \in DOMAIN containers /\ Sound(containers[i])
    BY <1>6, Zenon DEF remove_channel, AccountsInv
  <2>2. containers[i].limits.max_channels \in Nat
    BY <2>1, ContainersAssumption, Zenon DEF Sound, Container
  <2>3. IsFiniteSet(containers[i].channels \ {ch})
        /\ Cardinality(containers[i].channels \ {ch}) <= containers[i].limits.max_channels
    BY <2>1, <2>2, OneLess, Zenon DEF Sound
  <2>4. Sound(c)
    BY <2>1, <2>3, Zenon DEF Sound, Container
  <2>5. containers' = [containers EXCEPT ![i] = c]
    BY <1>6, Zenon DEF remove_channel
  <2> QED
    BY <2>1, <2>4, <2>5, OneChanged, Zenon
<1>7. ASSUME NEW i \in Ids, NEW bytes \in Requests, allocate_memory(i, bytes)
      PROVE  AccountsInv'
  <2> DEFINE now == (containers[i].allocated + bytes) % (MaxWord + 1)
             high == IF now > containers[i].peak THEN now ELSE containers[i].peak
             c == [containers[i] EXCEPT !.allocated = now, !.peak = high]
  <2>1. i \in DOMAIN containers /\ Sound(containers[i])
    BY <1>7, Zenon DEF allocate_memory, AccountsInv
  <2>2. /\ containers[i].limits \in Limits /\ containers[i].allocated \in Nat
        /\ containers[i].peak \in Nat /\ containers[i].limits.memory_bytes \in Nat
    BY <2>1, ContainersAssumption DEF Sound, Container
  <2>3. now \in 0 .. containers[i].limits.memory_bytes
    BY <1>7, <2>2, CheckedSumFits, Zenon DEF allocate_memory
  <2>4. now \in Nat /\ high \in Nat /\ now <= high /\ high <= containers[i].limits.memory_bytes
    BY <2>1, <2>2, <2>3 DEF Sound
  <2>5. containers' = [containers EXCEPT ![i] = c]
    BY <1>7, Zenon DEF allocate_memory
  <2> HIDE DEF now, high
  <2>6. Sound(c)
    BY <2>1, <2>4, Zenon DEF Sound, Container
  <2> QED
    BY <2>1, <2>5, <2>6, OneChanged, Zenon
<1>8. ASSUME NEW i \in Ids, NEW bytes \in Requests, release_memory(i, bytes)
      PROVE  AccountsInv'
  <2> DEFINE less == saturating_sub(containers[i].allocated, bytes)
             c == [containers[i] EXCEPT !.allocated = less]
  <2>1. i \in DOMAIN containers /\ Sound(containers[i])
    BY <1>8, Zenon DEF release_memory, AccountsInv
  <2>2. containers[i].allocated \in Nat /\ containers[i].peak \in Nat /\ bytes \in Nat
    BY <2>1, ContainersAssumption DEF Sound, Container
  <2>3. less \in Nat /\ less <= containers[i].allocated
    BY <2>2 DEF saturating_sub
  <2> HIDE DEF less
  <2>4. Sound(c)
    BY <2>1, <2>2, <2>3, ContainersAssumption DEF Sound, Container
  <2>5. containers' = [containers EXCEPT ![i] = c]
    BY <1>8, Zenon DEF release_memory, less
  <2> QED
    BY <2>1, <2>4, <2>5, OneChanged, Zenon
<1>9. ASSUME NEW i \in Ids, (\E bytes \in Requests : reserve(i, bytes)) \/ release_all(i)
      PROVE  AccountsInv'
  BY <1>9, Zenon DEF reserve, release_all, OnlyReservations, AccountsInv
<1>10. CASE UNCHANGED accountVars
  BY <1>10, Zenon DEF accountVars, AccountsInv
<1> QED
  BY <1>1, <1>2, <1>3, <1>4, <1>5, <1>6, <1>7, <1>8, <1>9, <1>10, Zenon DEF AccountsNext

(* No boundary ever exceeds its limits, whatever the limits are as long as *)
(* none is the largest u64, which a saturated sum would not exceed.        *)
THEOREM LimitsHold == AccountsSpec => []WithinLimits
<1>1. AccountsInv => WithinLimits
  BY Zenon DEF AccountsInv, Sound, WithinLimits
<1> QED
  BY <1>1, AccountsStart, AccountsStep, PTL DEF AccountsSpec

-----------------------------------------------------------------------------
(* What the boundaries reserve together.                                   *)
Total(f, D) == FoldSet(LAMBDA i, sum : sum + f[i], 0, D)

(* A fold over the subsets of D, in whatever order CHOOSE takes them.      *)
One(s) == CHOOSE x \in s : TRUE
Adds(g, f, D) == g = [s \in SUBSET D |-> IF s = {} THEN 0 ELSE g[s \ {One(s)}] + f[One(s)]]

LEMMA OneIsOf == ASSUME NEW s, s # {} PROVE One(s) \in s
BY Zenon DEF One

(* The fold is a function that satisfies its equation.                     *)
LEMMA AddsExists ==
    ASSUME NEW D, IsFiniteSet(D), NEW f
    PROVE  \E g : Adds(g, f, D)
<1> DEFINE Eq(g, s) == g[s] = IF s = {} THEN 0 ELSE g[s \ {One(s)}] + f[One(s)]
           Small(k) == {s \in SUBSET D : Cardinality(s) <= k}
           Has == {k \in Nat : \E g : \A s \in Small(k) : Eq(g, s)}
<1>1. \A s \in SUBSET D : IsFiniteSet(s) /\ Cardinality(s) \in Nat
  BY FS_Subset, FS_CardinalityType, Zenon
<1>2. \A s \in SUBSET D : s # {} => s \ {One(s)} \in SUBSET D /\ Cardinality(s \ {One(s)}) = Cardinality(s) - 1
  BY <1>1, OneIsOf, FS_RemoveElement, Zenon
<1>3. 0 \in Has
  <2>1. \A s \in Small(0) : s = {}
    <3>1. ASSUME NEW s \in Small(0) PROVE Cardinality(s) = 0
      BY <1>1
    <3> QED
      BY <1>1, <3>1, FS_EmptySet, Zenon
  <2>2. \A s \in Small(0) : Eq([t \in SUBSET D |-> 0], s)
    BY <2>1, Zenon
  <2> QED
    BY <2>2, Zenon
<1>4. ASSUME NEW k \in Nat, k \in Has PROVE k + 1 \in Has
  <2>1. PICK g : \A s \in Small(k) : Eq(g, s)
    BY <1>4, Zenon
  <2> DEFINE h == [s \in SUBSET D |-> IF s \in Small(k) THEN g[s] ELSE g[s \ {One(s)}] + f[One(s)]]
  <2>2. ASSUME NEW s \in Small(k + 1) PROVE Eq(h, s)
    <3>0. s \in SUBSET D
      BY Zenon
    <3>1. s # {} => s \ {One(s)} \in Small(k)
      <4>1. Cardinality(s) \in Nat /\ Cardinality(s) <= k + 1
        BY <1>1, <3>0, Zenon
      <4>2. Cardinality(s) - 1 <= k
        BY <4>1
      <4> QED
        BY <1>2, <3>0, <4>2, Zenon
    <3>2. s = {} => s \in Small(k)
      <4>1. Cardinality({}) = 0 /\ 0 <= k
        BY FS_EmptySet
      <4> QED
        BY <4>1, Zenon
    <3> HIDE DEF Small
    <3>3. s # {} => h[s \ {One(s)}] = g[s \ {One(s)}]
      BY <1>2, <3>0, <3>1, Zenon
    <3> QED
      BY <2>1, <3>0, <3>1, <3>2, <3>3, Zenon
  <2>3. k + 1 \in Nat
    OBVIOUS
  <2> HIDE DEF h, Eq, Small
  <2> QED
    BY <2>2, <2>3, Zenon
<1>5. Cardinality(D) \in Has
  <2> HIDE DEF Has
  <2> QED
    BY <1>1, <1>3, <1>4, Inductive, Zenon
<1>6. \A s \in SUBSET D : s \in Small(Cardinality(D))
  BY FS_Subset, Zenon
<1>7. PICK g : \A s \in SUBSET D : Eq(g, s)
  <2> HIDE DEF Eq, Small
  <2> QED
    BY <1>5, <1>6, Zenon
<1> DEFINE h == [s \in SUBSET D |-> g[s]]
<1>8. h = [s \in SUBSET D |-> IF s = {} THEN 0 ELSE h[s \ {One(s)}] + f[One(s)]]
  <2>1. \A s \in SUBSET D : g[s] = IF s = {} THEN 0 ELSE h[s \ {One(s)}] + f[One(s)]
    BY <1>2, <1>7, Zenon
  <2> HIDE DEF Eq
  <2> DEFINE j == [s \in SUBSET D |-> IF s = {} THEN 0 ELSE h[s \ {One(s)}] + f[One(s)]]
  <2>2. \A s \in SUBSET D : h[s] = j[s]
    BY <2>1, Zenon
  <2>3. h = [s \in SUBSET D |-> h[s]] /\ j = [s \in SUBSET D |-> j[s]]
    BY Zenon
  <2> HIDE DEF h, j
  <2>4. h = j
    BY <2>2, <2>3, SameFunction, Zenon
  <2> QED
    BY <2>4, Zenon DEF j
<1> QED
  BY <1>8, Zenon DEF Adds

LEMMA TotalAdds == ASSUME NEW D, IsFiniteSet(D), NEW f PROVE \E g : Adds(g, f, D) /\ Total(f, D) = g[D]
<1> DEFINE c == CHOOSE g : Adds(g, f, D)
<1>1. Adds(c, f, D)
  BY AddsExists, Zenon
<1>2. Total(f, D) = c[D]
  BY Zenon DEF Total, FoldSet, MapThenFoldSet, Adds, One
<1> QED
  BY <1>1, <1>2, Zenon

(* Two folds agree on a set on which their functions do.                   *)
LEMMA AddsAgree ==
    ASSUME NEW D, NEW E, IsFiniteSet(D), IsFiniteSet(E), NEW f, NEW e, NEW g, NEW h, Adds(g, f, D), Adds(h, e, E),
           \A x \in D \cap E : f[x] = e[x]
    PROVE  \A s \in SUBSET (D \cap E) : g[s] = h[s]
<1> DEFINE Has == {k \in Nat : \A s \in SUBSET (D \cap E) : Cardinality(s) = k => g[s] = h[s]}
<1>0. \A s \in SUBSET (D \cap E) : s \in SUBSET D /\ s \in SUBSET E /\ IsFiniteSet(s) /\ Cardinality(s) \in Nat
  BY FS_Subset, FS_CardinalityType, Zenon
<1>1. \A s \in SUBSET (D \cap E) : /\ g[s] = IF s = {} THEN 0 ELSE g[s \ {One(s)}] + f[One(s)]
                                   /\ h[s] = IF s = {} THEN 0 ELSE h[s \ {One(s)}] + e[One(s)]
  BY <1>0, Zenon DEF Adds
<1>2. 0 \in Has
  BY <1>0, <1>1, FS_EmptySet, Zenon
<1>3. ASSUME NEW k \in Nat, k \in Has PROVE k + 1 \in Has
  <2>1. ASSUME NEW s \in SUBSET (D \cap E), Cardinality(s) = k + 1 PROVE g[s] = h[s]
    <3>1. s # {}
      <4>1. k + 1 # 0
        OBVIOUS
      <4> QED
        BY <2>1, <4>1, FS_EmptySet, Zenon
    <3>2. One(s) \in s /\ f[One(s)] = e[One(s)]
      BY <3>1, OneIsOf, Zenon
    <3>3. s \ {One(s)} \in SUBSET (D \cap E) /\ Cardinality(s \ {One(s)}) = k
      <4>1. Cardinality(s \ {One(s)}) = Cardinality(s) - 1
        BY <1>0, <3>2, FS_RemoveElement, Zenon
      <4>2. Cardinality(s \ {One(s)}) = k
        BY <2>1, <4>1
      <4> QED
        BY <4>2, Zenon
    <3>4. g[s \ {One(s)}] = h[s \ {One(s)}]
      BY <1>3, <3>3, Zenon
    <3> QED
      BY <1>1, <3>1, <3>2, <3>4, Zenon
  <2>2. k + 1 \in Nat
    OBVIOUS
  <2> QED
    BY <2>1, <2>2, Zenon
<1>4. Nat \subseteq Has
  <2> HIDE DEF Has
  <2> QED
    BY <1>2, <1>3, Inductive, Zenon
<1> QED
  BY <1>0, <1>4, Zenon

(* It does not matter which element is added last.                         *)
LEMMA AnyLast ==
    ASSUME NEW D, IsFiniteSet(D), NEW f, \A x \in D : f[x] \in Nat, NEW g, Adds(g, f, D)
    PROVE  \A s \in SUBSET D : g[s] \in Nat /\ \A x \in s : g[s] = g[s \ {x}] + f[x]
<1> DEFINE Last(s) == g[s] \in Nat /\ \A x \in s : g[s] = g[s \ {x}] + f[x]
           Has == {k \in Nat : \A s \in SUBSET D : Cardinality(s) <= k => Last(s)}
<1>0. \A s \in SUBSET D : IsFiniteSet(s) /\ Cardinality(s) \in Nat
  BY FS_Subset, FS_CardinalityType, Zenon
<1>1. \A s \in SUBSET D : g[s] = IF s = {} THEN 0 ELSE g[s \ {One(s)}] + f[One(s)]
  BY Zenon DEF Adds
<1>2. 0 \in Has
  <2>1. ASSUME NEW s \in SUBSET D, Cardinality(s) <= 0 PROVE Last(s)
    <3>1. Cardinality(s) = 0
      BY <1>0, <2>1
    <3>2. s = {}
      BY <1>0, <3>1, FS_EmptySet, Zenon
    <3>3. g[s] = 0
      BY <1>1, <3>2, Zenon
    <3> QED
      BY <3>2, <3>3
  <2> HIDE DEF Last
  <2> QED
    BY <2>1, Zenon
<1>3. ASSUME NEW k \in Nat, k \in Has PROVE k + 1 \in Has
  <2>1. ASSUME NEW s \in SUBSET D, Cardinality(s) = k + 1 PROVE Last(s)
    <3>1. s # {}
      <4>1. k + 1 # 0
        OBVIOUS
      <4> QED
        BY <2>1, <4>1, FS_EmptySet, Zenon
    <3>2. One(s) \in s
      BY <3>1, OneIsOf, Zenon
    <3>3. \A x \in s : s \ {x} \in SUBSET D /\ Last(s \ {x})
      <4> SUFFICES ASSUME NEW x \in s PROVE s \ {x} \in SUBSET D /\ Last(s \ {x})
        BY Zenon
      <4>1. Cardinality(s \ {x}) = Cardinality(s) - 1
        BY <1>0, FS_RemoveElement, Zenon
      <4>2. Cardinality(s \ {x}) <= k
        BY <2>1, <4>1
      <4> QED
        BY <1>3, <4>2, Zenon
    <3> DEFINE z == One(s)
    <3>4. g[s] = g[s \ {z}] + f[z] /\ z \in s
      BY <1>1, <3>1, <3>2, Zenon
    <3>5. \A x \in s : f[x] \in Nat /\ g[s \ {x}] \in Nat
      BY <3>3, Zenon
    <3> HIDE DEF z
    <3>6. ASSUME NEW x \in s, x # z PROVE g[s] = g[s \ {x}] + f[x]
      <4>1. (s \ {z}) \ {x} = (s \ {x}) \ {z}
        BY Zenon
      <4>2. g[s \ {z}] = g[(s \ {z}) \ {x}] + f[x] /\ g[s \ {x}] = g[(s \ {x}) \ {z}] + f[z]
        BY <3>3, <3>4, <3>6, Zenon
      <4>3. g[(s \ {x}) \ {z}] \in Nat
        <5>1. z \in s \ {x} /\ s \ {x} \in SUBSET D /\ (s \ {x}) \ {z} \in SUBSET D
          BY <3>4, <3>6, Zenon
        <5>2. Cardinality(s \ {x}) = Cardinality(s) - 1
          BY <1>0, FS_RemoveElement, Zenon
        <5>3. Cardinality((s \ {x}) \ {z}) = Cardinality(s \ {x}) - 1
          BY <1>0, <5>1, FS_RemoveElement, Zenon
        <5>4. Cardinality((s \ {x}) \ {z}) <= k
          BY <2>1, <5>2, <5>3
        <5> QED
          BY <1>3, <5>1, <5>4, Zenon
      <4>4. \A a, p, q \in Nat : (a + p) + q = (a + q) + p
        OBVIOUS
      <4> QED
        <5>1. g[s] = (g[(s \ {x}) \ {z}] + f[x]) + f[z]
          BY <3>4, <4>1, <4>2, Zenon
        <5>2. g[s \ {x}] + f[x] = (g[(s \ {x}) \ {z}] + f[z]) + f[x]
          BY <4>2, Zenon
        <5>3. f[x] \in Nat /\ f[z] \in Nat
          BY <3>4, <3>5, Zenon
        <5> QED
          BY <4>3, <4>4, <5>1, <5>2, <5>3, Zenon
    <3>7. \A a, p \in Nat : a + p \in Nat
      OBVIOUS
    <3> QED
      BY <3>4, <3>5, <3>6, <3>7, Zenon
  <2>2. k + 1 \in Nat
    OBVIOUS
  <2> HIDE DEF Last
  <2>3. ASSUME NEW s \in SUBSET D, Cardinality(s) <= k + 1 PROVE Last(s)
    <3>1. Cardinality(s) = k + 1 \/ Cardinality(s) <= k
      BY <1>0, <2>3
    <3> QED
      BY <1>3, <2>1, <3>1, Zenon
  <2> QED
    BY <2>2, <2>3, Zenon
<1>4. Nat \subseteq Has
  <2> HIDE DEF Has
  <2> QED
    BY <1>2, <1>3, Inductive, Zenon
<1>5. \A n \in Nat : n <= n
  OBVIOUS
<1> QED
  BY <1>0, <1>4, <1>5, Zenon

(* What is added to a total, or taken from it, is one boundary's part.     *)
LEMMA TotalWithout ==
    ASSUME NEW D, IsFiniteSet(D), NEW f, \A x \in D : f[x] \in Nat
    PROVE  Total(f, D) \in Nat /\ \A i \in D : Total(f, D) = Total(f, D \ {i}) + f[i]
<1>1. PICK g : Adds(g, f, D) /\ Total(f, D) = g[D]
  BY TotalAdds, Zenon
<1>2. g[D] \in Nat /\ \A x \in D : g[D] = g[D \ {x}] + f[x]
  <2>1. \A s \in SUBSET D : g[s] \in Nat /\ \A x \in s : g[s] = g[s \ {x}] + f[x]
    BY <1>1, AnyLast
  <2>2. D \in SUBSET D
    BY Zenon
  <2> QED
    BY <2>1, <2>2, Zenon
<1>3. ASSUME NEW i \in D PROVE Total(f, D) = Total(f, D \ {i}) + f[i]
  <2> DEFINE E == D \ {i}
  <2>1. IsFiniteSet(E) /\ E \in SUBSET (D \cap E)
    BY FS_Subset, Zenon
  <2> HIDE DEF E
  <2>2. PICK h : Adds(h, f, E) /\ Total(f, E) = h[E]
    BY <2>1, TotalAdds, Zenon
  <2>3. g[E] = h[E]
    <3>1. \A s \in SUBSET (D \cap E) : g[s] = h[s]
      BY <1>1, <2>1, <2>2, AddsAgree
    <3> QED
      BY <2>1, <3>1, Zenon
  <2> QED
    BY <1>1, <1>2, <2>2, <2>3, Zenon DEF E
<1> QED
  BY <1>1, <1>2, <1>3, Zenon

LEMMA TotalSame ==
    ASSUME NEW D, IsFiniteSet(D), NEW f, NEW e, \A x \in D : f[x] = e[x]
    PROVE  Total(f, D) = Total(e, D)
<1>1. PICK g : Adds(g, f, D) /\ Total(f, D) = g[D]
  BY TotalAdds, Zenon
<1>2. PICK h : Adds(h, e, D) /\ Total(e, D) = h[D]
  BY TotalAdds, Zenon
<1>3. D \in SUBSET (D \cap D) /\ \A x \in D \cap D : f[x] = e[x]
  BY Zenon
<1>4. \A s \in SUBSET (D \cap D) : g[s] = h[s]
  BY <1>1, <1>2, <1>3, AddsAgree
<1> QED
  BY <1>1, <1>2, <1>3, <1>4, Zenon

(* The inductive invariant of the memory manager.                          *)
MemoryInv ==
    /\ IsFiniteSet(DOMAIN by_boundary) /\ \A x \in DOMAIN by_boundary : by_boundary[x] \in Nat
    /\ reserved \in Nat /\ reserved <= TotalUsable /\ reserved = Total(by_boundary, DOMAIN by_boundary)

LEMMA ReserveAdds ==
    ASSUME MemoryInv, NEW i \in Ids, NEW bytes \in Requests, reserve(i, bytes)
    PROVE  MemoryInv'
<1> DEFINE D == DOMAIN by_boundary
           v == (Reservation(i) + bytes) % (MaxWord + 1)
           E == D \cup {i}
<1>0. IsFiniteSet(D) /\ IsFiniteSet(E) /\ IsFiniteSet(D \ {i})
  BY FS_AddElement, FS_Subset, Zenon DEF MemoryInv
<1>1. /\ by_boundary' = [x \in E |-> IF x = i THEN v ELSE by_boundary[x]] /\ DOMAIN by_boundary' = E
      /\ saturating_sum(reserved, bytes) <= TotalUsable /\ reserved' = saturating_sum(reserved, bytes)
  BY Zenon DEF reserve, With
<1>2. reserved' = reserved + bytes /\ reserved' \in Nat /\ reserved' <= TotalUsable /\ bytes \in Nat
  BY <1>1, ContainersAssumption DEF saturating_sum, MemoryInv
<1>3. reserved = Total(by_boundary, D) /\ \A x \in D : by_boundary[x] \in Nat
  BY Zenon DEF MemoryInv
<1>4. /\ reserved = Total(by_boundary, D \ {i}) + Reservation(i)
      /\ Total(by_boundary, D \ {i}) \in Nat /\ Reservation(i) \in Nat
  <2>1. Total(by_boundary, D \ {i}) \in Nat
    BY <1>0, <1>3, TotalWithout, Zenon
  <2>2. CASE i \in D
    BY <1>0, <1>3, <2>1, <2>2, TotalWithout, Zenon DEF Reservation
  <2>3. CASE i \notin D
    <3>1. D \ {i} = D /\ Reservation(i) = 0
      BY <2>3, Zenon DEF Reservation
    <3>2. Reservation(i) \in Nat /\ \A n \in Nat : n = n + Reservation(i)
      BY <3>1
    <3> QED
      BY <1>3, <2>1, <3>1, <3>2, Zenon
  <2> QED
    BY <2>1, <2>2, <2>3, Zenon
<1>5. v = Reservation(i) + bytes /\ v \in Nat
  <2>1. Reservation(i) + bytes \in 0 .. MaxWord
    BY <1>2, <1>4, ContainersAssumption
  <2> QED
    BY <2>1, ContainersAssumption
<1> HIDE DEF v
<1>6. \A x \in E : by_boundary'[x] \in Nat
  BY <1>1, <1>3, <1>5, Zenon
<1>7. Total(by_boundary', E) = Total(by_boundary', D \ {i}) + v
  <2>1. i \in E /\ E \ {i} = D \ {i} /\ by_boundary'[i] = v
    BY <1>1, Zenon
  <2> HIDE DEF E
  <2> QED
    <3>1. \A x \in E : Total(by_boundary', E) = Total(by_boundary', E \ {x}) + by_boundary'[x]
      BY <1>0, <1>6, TotalWithout, Zenon
    <3> QED
      BY <2>1, <3>1, Zenon
<1>8. Total(by_boundary', D \ {i}) = Total(by_boundary, D \ {i})
  <2>1. \A x \in D \ {i} : by_boundary'[x] = by_boundary[x]
    BY <1>1, Zenon
  <2> QED
    BY <1>0, <2>1, TotalSame, Zenon
<1>9. reserved' = Total(by_boundary', E)
  BY <1>2, <1>4, <1>5, <1>7, <1>8
<1> QED
  BY <1>0, <1>1, <1>2, <1>6, <1>9, Zenon DEF MemoryInv

LEMMA ReleaseTakes ==
    ASSUME MemoryInv, NEW i, release_all(i)
    PROVE  MemoryInv'
<1> DEFINE D == DOMAIN by_boundary
           E == D \ {i}
<1>1. /\ i \in D /\ by_boundary' = [x \in E |-> by_boundary[x]] /\ DOMAIN by_boundary' = E
      /\ reserved' = saturating_sub(reserved, by_boundary[i])
  BY Zenon DEF release_all, Without
<1>2. /\ IsFiniteSet(D) /\ IsFiniteSet(E) /\ \A x \in D : by_boundary[x] \in Nat
      /\ \A x \in E : by_boundary'[x] = by_boundary[x]
  BY <1>1, FS_Subset, Zenon DEF MemoryInv
<1>3. /\ reserved = Total(by_boundary, E) + by_boundary[i]
      /\ Total(by_boundary, E) \in Nat /\ by_boundary[i] \in Nat
  <2>1. \A x \in E : by_boundary[x] \in Nat
    BY <1>2, Zenon
  <2>2. \A x \in D : Total(by_boundary, D) = Total(by_boundary, D \ {x}) + by_boundary[x]
    BY <1>2, TotalWithout, Zenon
  <2>3. Total(by_boundary, E) \in Nat
    <3> HIDE DEF E
    <3> QED
      BY <1>2, <2>1, TotalWithout, Zenon
  <2> QED
    BY <1>1, <1>2, <2>2, <2>3, Zenon DEF MemoryInv
<1>4. Total(by_boundary', E) = Total(by_boundary, E)
  BY <1>2, TotalSame, Zenon
<1>5. reserved' = Total(by_boundary', E) /\ reserved' \in Nat /\ reserved' <= reserved
  BY <1>1, <1>3, <1>4 DEF saturating_sub
<1>6. reserved' <= TotalUsable
  BY <1>5, ContainersAssumption DEF MemoryInv
<1> QED
  BY <1>1, <1>2, <1>5, <1>6, Zenon DEF MemoryInv

(* The memory manager's total is the sum of the boundaries' reservations   *)
(* and within the usable memory, for any boundaries, requests and memory,  *)
(* in any order of reserving and releasing (memory.rs: reserve,            *)
(* release_all).                                                           *)
THEOREM ReservationsAddUpHolds == AccountsSpec => []ReservationsAddUp
<1>1. AccountsInit => MemoryInv
  <2> SUFFICES ASSUME AccountsInit PROVE MemoryInv
    OBVIOUS
  <2>1. DOMAIN by_boundary = {} /\ reserved = 0
    BY Zenon DEF AccountsInit
  <2>2. IsFiniteSet({}) /\ Cardinality({}) = 0
    BY FS_EmptySet, Zenon
  <2>3. PICK g : Adds(g, by_boundary, {}) /\ Total(by_boundary, {}) = g[{}]
    BY <2>2, TotalAdds, Zenon
  <2>4. {} \in SUBSET {} /\ g[{}] = 0
    BY <2>3, Zenon DEF Adds
  <2>5. 0 \in Nat /\ 0 <= TotalUsable
    BY ContainersAssumption
  <2> QED
    BY <2>1, <2>2, <2>3, <2>4, <2>5, Zenon DEF MemoryInv
<1>2. MemoryInv /\ [AccountsNext]_accountVars => MemoryInv'
  <2> SUFFICES ASSUME MemoryInv, [AccountsNext]_accountVars PROVE MemoryInv'
    OBVIOUS
  <2>1. CASE UNCHANGED <<reserved, by_boundary>>
    BY <2>1, Zenon DEF MemoryInv
  <2>2. ASSUME NEW i \in Ids, NEW bytes \in Requests, reserve(i, bytes) PROVE MemoryInv'
    BY <2>2, ReserveAdds, Zenon
  <2>3. ASSUME NEW i \in Ids, release_all(i) PROVE MemoryInv'
    BY <2>3, ReleaseTakes, Zenon
  <2> QED
    BY <2>1, <2>2, <2>3, Zenon
       DEF AccountsNext, accountVars, create_system, create, destroy, add_lane, remove_lane, add_channel, remove_channel,
           allocate_memory, release_memory, OnlyContainers, OnlyRegistry
<1>3. MemoryInv => ReservationsAddUp
  BY Zenon DEF MemoryInv, ReservationsAddUp, Total
<1> QED
  BY <1>1, <1>2, <1>3, PTL DEF AccountsSpec
=============================================================================
