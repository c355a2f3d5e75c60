------------------------------- MODULE Ring3 --------------------------------
(***************************************************************************)
(* The cooperative loop over ring-3 lanes (kernel-image/src/ring3.rs) and  *)
(* the trap that leaves them (handle_user_trap, kernel-image/src/boot.rs), *)
(* composed with the handle table, the channels and the scheduler that     *)
(* they share.  While `active' is a lane, its user code runs: it makes     *)
(* system calls until it yields or exits.  A lane whose call returned      *)
(* WouldBlock is on the Stalled List and still running.                    *)
(***************************************************************************)
EXTENDS ChannelTable

CONSTANTS
    SeedLanes,   \* the lanes spawned before the loop starts
    ParkStep,    \* how far each park sets its deadline after the last one
    Guard,       \* the number of passes after which the loop gives up
    MaxParks     \* bound: yields, over all lanes

ASSUME Ring3Constants ==
    /\ SeedLanes \subseteq Lane
    /\ ParkStep \in Nat /\ Guard \in Nat /\ MaxParks \in Nat

VARIABLES
    lanes,    \* the table of lanes: "absent", "live" or "exited"
    batch,    \* the lanes taken for this pass and not resumed yet
    active,   \* the lane whose user code is running, or NoLane
    pc,       \* where the loop is
    passes,   \* passes begun
    parks     \* yields so far, which fix the next park's deadline

loop == <<lanes, batch, active, pc, passes, parks>>
vars == <<tableVars, loop>>

Init ==
    /\ TableInit
    /\ lanes = [l \in Lane |-> "absent"]
    /\ batch = {} /\ active = NoLane /\ pc = "setup" /\ passes = 0 /\ parks = 0

(* Ring3Table::spawn_lane.                                                 *)
spawn_lane(l) ==
    /\ lanes[l] = "absent" /\ lanes' = [lanes EXCEPT ![l] = "live"]
    /\ sched' = signal_ready(register_lane(sched, l, "User"), l)

busy == has_ready(sched) \/ \E l \in Lane : sched.stalled[l] # NotStalled
-----------------------------------------------------------------------------
(* run_installed.                                                          *)
SpawnSeed(l) ==
    /\ pc = "setup" /\ l \in SeedLanes /\ spawn_lane(l)
    /\ UNCHANGED <<chan, sent, table, author, batch, active, pc, passes, parks>>

StartLoop ==
    /\ pc = "setup" /\ \A l \in SeedLanes : lanes[l] = "live"
    /\ pc' = "pass"
    /\ UNCHANGED <<tableVars, lanes, batch, active, passes, parks>>

(* No lane is ready or stalled, or the guard has run out.                  *)
Stop ==
    /\ pc = "pass" /\ (passes = Guard \/ ~busy)
    /\ pc' = "stopped"
    /\ UNCHANGED <<tableVars, lanes, batch, active, passes, parks>>

TakeBatch ==
    /\ pc = "pass" /\ passes < Guard /\ has_ready(sched)
    /\ \E b \in select(sched) : batch' = b /\ sched' = take_dispatch_batch(sched, b)
    /\ pc' = "lanes" /\ passes' = passes + 1
    /\ UNCHANGED <<chan, sent, table, author, lanes, active, parks>>

(* Mutant: an idle pass does not move the clock.                           *)
IdlePass_Still ==
    /\ pc = "pass" /\ passes < Guard /\ busy /\ ~has_ready(sched)
    /\ passes' = passes + 1
    /\ UNCHANGED <<tableVars, lanes, batch, active, pc, parks>>

IdlePass ==
    /\ pc = "pass" /\ passes < Guard /\ busy /\ ~has_ready(sched)
    /\ sched' = advance_clock(sched, 1) /\ passes' = passes + 1
    /\ UNCHANGED <<chan, sent, table, author, lanes, batch, active, pc, parks>>

(* ctx_ptr is null for a lane that has exited.                             *)
Resumable(l) == lanes[l] = "live"

ResumeLane(l) ==
    /\ pc = "lanes" /\ active = NoLane /\ l \in batch
    /\ batch' = batch \ {l} /\ active' = IF Resumable(l) THEN l ELSE NoLane
    /\ UNCHANGED <<tableVars, lanes, pc, passes, parks>>

EndPass ==
    /\ pc = "lanes" /\ active = NoLane /\ batch = {}
    /\ sched' = advance_clock(sched, 1) /\ pc' = "pass"
    /\ UNCHANGED <<chan, sent, table, author, lanes, batch, active, passes, parks>>
-----------------------------------------------------------------------------
(* The running lane.                                                       *)

(* Mutant: the yielding lane is left on whatever it was waiting for.       *)
Park_Keep(l) == UNCHANGED sched

(* on_park: wait for a timer, the next one a step later than the last.     *)
Park(l) == sched' = register_wait(sched, l, Timer(saturating_add(1, ParkStep * (parks + 1))))

Yield(l) ==
    /\ active = l /\ parks < MaxParks
    /\ Park(l) /\ parks' = parks + 1 /\ active' = NoLane
    /\ UNCHANGED <<chan, sent, table, author, lanes, batch, pc, passes>>

(* Ring3Table::complete.                                                   *)
Exit(l) ==
    /\ active = l
    /\ lanes' = [lanes EXCEPT ![l] = "exited"] /\ sched' = notify_complete(sched, l)
    /\ active' = NoLane
    /\ UNCHANGED <<chan, sent, table, author, batch, pc, passes, parks>>

(* The spawn call: a lane of the caller's boundary.                        *)
Spawn(l, child) ==
    /\ active = l /\ BoundaryOf[child] = BoundaryOf[l] /\ spawn_lane(child)
    /\ UNCHANGED <<chan, sent, table, author, batch, active, pc, passes, parks>>

Syscall(l) ==
    /\ active = l
    /\ open_channel(l) \/ Handshake(l) \/ Lattice(l) \/ DataCall(l)
    /\ UNCHANGED loop
-----------------------------------------------------------------------------
LoopStep == \/ StartLoop \/ Stop \/ TakeBatch \/ IdlePass \/ EndPass
            \/ \E l \in Lane : SpawnSeed(l) \/ ResumeLane(l)

Stopped == pc = "stopped" /\ UNCHANGED vars

Next ==
    \/ LoopStep \/ Stopped
    \/ \E l \in Lane : Yield(l) \/ Exit(l) \/ Syscall(l) \/ \E child \in Lane : Spawn(l, child)

(* The loop's thread keeps running, and user code does not run for ever    *)
(* without a yield or an exit: nothing preempts it.                        *)
Spec == Init /\ [][Next]_vars
FairSpec ==
    Spec /\ WF_vars(LoopStep) /\ \A l \in Lane : SF_vars(Yield(l) \/ Exit(l))
-----------------------------------------------------------------------------
(* A lane that is neither running nor about to run is in the Ready Pool or *)
(* waits for a timer, although it may last have been told WouldBlock by a  *)
(* channel whose one waiter slot another lane has taken since: no channel  *)
(* can strand a ring-3 lane (ring3.rs:262-266, channel.rs:133-197).        *)
NeverStranded ==
    \A l \in Lane :
       lanes[l] = "live" /\ active # l /\ l \notin batch =>
          sched.ready[l] > 0 \/ IsTimer(sched.stalled[l])

(* User code never runs in a lane that has exited, although a channel it   *)
(* was waiting on can put it back into the Ready Pool and a batch          *)
(* (ring3.rs:170-178, 242-249).                                            *)
ExitedNeverRuns == active # NoLane => lanes[active] = "live"

(* The loop ends only when every lane has exited and nothing is ready or   *)
(* stalled, unless the guard ended it (ring3.rs:216-230).                  *)
StopsClean ==
    pc = "stopped" /\ passes < Guard =>
       ~busy /\ \A l \in Lane : lanes[l] # "live"

(* The loop keeps every lane until it exits and no longer (ring3.rs:162-   *)
(* 279), whatever the channels between them do.                            *)
LanesAreKept == NeverStranded /\ ExitedNeverRuns /\ StopsClean

(* With a guard larger than the lanes need, every run ends with every lane *)
(* exited: parked lanes are resumed, stale wake-ups of exited lanes do not *)
(* keep the loop busy, and an exit leaves nothing behind on the Stalled    *)
(* List (ring3.rs:211-279).                                                *)
RunsToCompletion ==
    <>(pc = "stopped" /\ passes < Guard /\ \A l \in Lane : lanes[l] # "live")
=============================================================================
