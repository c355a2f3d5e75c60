------------------------------- MODULE Kernel -------------------------------
(***************************************************************************)
(* The kernel loop with the lanes it runs: the executor that polls lanes   *)
(* (cibos-async-runtime), the scheduler that picks them, the channels and  *)
(* timers they await (cibos-kernel, cibos-sdk/src/time.rs) and the SDK     *)
(* host that installs spawned lanes and pumps the clock (app.rs).          *)
(*                                                                         *)
(* One thread runs everything: while `running' is a lane, that lane's      *)
(* future is inside poll and nobody else moves.  Between two awaits a lane *)
(* does what any application may: await, try, close, spawn or finish.      *)
(* Which lanes use which end of a channel is a constant of the instance.   *)
(***************************************************************************)
EXTENDS Channels

CONSTANTS
    SendersOf, ReceiversOf,   \* the lanes that use each end of each channel
    ClosersOf,                \* the lanes that may close it
    InitialLanes,             \* the lanes the application spawns on start
    MaxLanes,                 \* the executor's max_lanes
    SleepLanes,               \* the lanes that sleep
    Duration,                 \* the durations lanes sleep or time out for
    MaxTimed,                 \* the most receives a lane puts under one timeout
    TryLanes,                 \* the lanes that also use try_send and try_receive
    MaxMessages               \* bound: messages accepted per channel

ASSUME KernelConstants ==
    /\ SendersOf \in [Channel -> SUBSET Lane]
    /\ ReceiversOf \in [Channel -> SUBSET Lane]
    /\ ClosersOf \in [Channel -> SUBSET Lane]
    /\ InitialLanes \subseteq Lane /\ TryLanes \subseteq Lane /\ SleepLanes \subseteq Lane
    /\ Duration \subseteq Nat /\ MaxTimed \in Nat /\ MaxMessages \in Nat

VARIABLES
    fut,       \* what each lane's future is suspended on, or doing
    batch,     \* the lanes dispatched and not polled yet
    running,   \* the lane inside poll, or NoLane
    host,      \* where the host's run loop is
    rcvd       \* rcvd[c]: the last message received on c

vars == <<sched, chan, sent, fut, batch, running, host, rcvd>>

Absent == [k |-> "absent"]     \* the id has not been minted
Queued == [k |-> "queued"]     \* in System.pending, waiting to be installed
Done == [k |-> "done"]         \* completed, or refused by the executor
Run(res) == [k |-> "run", res |-> res]   \* between awaits; res: the last result
Send(c, big) == [k |-> "send", ch |-> c, big |-> big]
Recv(c) == [k |-> "recv", ch |-> c]
Yield(armed) == [k |-> "yield", armed |-> armed]
Sleep(d, armed) == [k |-> "sleep", deadline |-> d, armed |-> armed]
Timed(c, left, d, armed) ==
    [k |-> "timed", ch |-> c, left |-> left, deadline |-> d, armed |-> armed]

Result == {"ok", "err", "timeout"}

Future ==
    {Absent, Queued, Done} \cup {Run(res) : res \in Result}
      \cup {Send(c, big) : c \in Channel, big \in BOOLEAN} \cup {Recv(c) : c \in Channel}
      \cup {Yield(armed) : armed \in BOOLEAN}
      \cup {Sleep(d, armed) : d \in Time, armed \in BOOLEAN}
      \cup {Timed(c, n, d, armed) : c \in Channel, n \in 1..MaxTimed, d \in Time,
                                    armed \in BOOLEAN}

InExecutor(l) == fut[l].k \notin {"absent", "queued", "done"}
SpawnsPending == \E l \in Lane : fut[l] = Queued

Init ==
    /\ sched = new
    /\ chan = [c \in Channel |-> NewChannel]
    /\ sent = [c \in Channel |-> 0]
    /\ fut = [l \in Lane |-> IF l \in InitialLanes THEN Queued ELSE Absent]
    /\ batch = {} /\ running = NoLane /\ host = "install"
    /\ rcvd = [c \in Channel |-> 0]
-----------------------------------------------------------------------------
(* The host loop.                                                          *)

(* Kernel::spawn_on for one queued spawn: the executor signals the lane    *)
(* ready, then the scheduler records its class.                            *)
InstallSpawn(l) ==
    /\ host = "install" /\ fut[l] = Queued
    /\ Cardinality({m \in Lane : InExecutor(m)}) < MaxLanes
    /\ fut' = [fut EXCEPT ![l] = Run("ok")]
    /\ sched' = register_lane(signal_ready(sched, l), l, "User")
    /\ UNCHANGED <<chan, sent, batch, running, host, rcvd>>

(* LaneLimitExceeded: the future is dropped without ever being polled.     *)
RefuseSpawn(l) ==
    /\ host = "install" /\ fut[l] = Queued
    /\ Cardinality({m \in Lane : InExecutor(m)}) >= MaxLanes
    /\ fut' = [fut EXCEPT ![l] = Done]
    /\ UNCHANGED <<sched, chan, sent, batch, running, host, rcvd>>

EnterRun ==
    /\ host = "install" /\ ~SpawnsPending
    /\ host' = "run"
    /\ UNCHANGED <<sched, chan, sent, fut, batch, running, rcvd>>

(* Mutant: the host returns without pumping the clock.                     *)
RunIdle_NoPump ==
    /\ host = "run" /\ running = NoLane /\ batch = {} /\ ~has_ready(sched)
    /\ host' = IF SpawnsPending THEN "install" ELSE "stopped"
    /\ UNCHANGED <<sched, chan, sent, fut, batch, running, rcvd>>

(* run_until_idle has returned: install new spawns, or pump the clock to   *)
(* the next timer, or return from run().                                   *)
RunIdle ==
    /\ host = "run" /\ running = NoLane /\ batch = {} /\ ~has_ready(sched)
    /\ \/ SpawnsPending /\ host' = "install" /\ UNCHANGED sched
       \/ /\ ~SpawnsPending /\ host' = "install"
          /\ \E l \in Lane : IsEarliest(sched, l) /\ sched' = advance_to_next_timer(sched, l)
       \/ ~SpawnsPending /\ TimerLanes(sched) = {} /\ host' = "stopped" /\ UNCHANGED sched
    /\ UNCHANGED <<chan, sent, fut, batch, running, rcvd>>

advance_and_run(d) ==
    /\ host = "stopped" /\ host' = "install"
    /\ sched' = advance_clock(sched, d)
    /\ UNCHANGED <<chan, sent, fut, batch, running, rcvd>>
-----------------------------------------------------------------------------
(* run_until_idle.                                                         *)
Dispatch(b) ==
    /\ host = "run" /\ running = NoLane /\ batch = {} /\ has_ready(sched)
    /\ b \in select(sched)
    /\ batch' = b /\ sched' = take_dispatch_batch(sched, b)
    /\ UNCHANGED <<chan, sent, fut, running, host, rcvd>>

PollLane(l) ==
    /\ running = NoLane /\ l \in batch /\ InExecutor(l)
    /\ batch' = batch \ {l} /\ running' = l
    /\ UNCHANGED <<sched, chan, sent, fut, host, rcvd>>

(* LanePoll::NotFound: a wake reached a lane that has completed.           *)
PollNotFound(l) ==
    /\ running = NoLane /\ l \in batch /\ ~InExecutor(l)
    /\ batch' = batch \ {l} /\ sched' = notify_complete(sched, l)
    /\ UNCHANGED <<chan, sent, fut, running, host, rcvd>>
-----------------------------------------------------------------------------
(* Inside poll.  A lane's code reaches its next await; the await is polled *)
(* by the actions below until one returns Pending.                         *)
Ready(l, res) == fut' = [fut EXCEPT ![l] = Run(res)] /\ UNCHANGED running
Pending(l, f) == fut' = [fut EXCEPT ![l] = f] /\ running' = NoLane

Deadline(d) == saturating_add(sched.now, d)

(* The awaits that the code of lane l may reach.                           *)
Awaits(l) ==
    {Send(c, big) : c \in {x \in Channel : l \in SendersOf[x] /\ sent[x] < MaxMessages},
                    big \in BOOLEAN}
      \cup {Recv(c) : c \in {x \in Channel : l \in ReceiversOf[x]}}
      \cup {Yield(FALSE)}
      \cup {Sleep(Deadline(d), FALSE) : d \in {x \in Duration : l \in SleepLanes}}
      \cup {Timed(c, n, Deadline(d), FALSE) : c \in {x \in Channel : l \in ReceiversOf[x]},
                                              n \in 1..MaxTimed, d \in Duration}

Await(l) ==
    /\ running = l /\ fut[l].k = "run"
    /\ \E f \in Awaits(l) : fut' = [fut EXCEPT ![l] = f]
    /\ UNCHANGED <<sched, chan, sent, batch, running, host, rcvd>>

PollSend(l) ==
    /\ running = l /\ fut[l].k = "send"
    /\ LET c == fut[l].ch
       IN \/ SendClosed(c) /\ Ready(l, "err")
          \/ fut[l].big /\ SendTooLarge(c) /\ Ready(l, "err")
          \/ ~fut[l].big /\ Sent(c) /\ Ready(l, "ok")
          \/ ~fut[l].big /\ SendFull(l, c) /\ Pending(l, fut[l])
    /\ UNCHANGED <<batch, host, rcvd>>

TakeMessage(c) == Received(c) /\ rcvd' = [rcvd EXCEPT ![c] = Head(chan[c].messages)]

PollRecv(l) ==
    /\ running = l /\ fut[l].k = "recv"
    /\ LET c == fut[l].ch
       IN \/ TakeMessage(c) /\ Ready(l, "ok")
          \/ RecvClosed(c) /\ Ready(l, "err") /\ UNCHANGED rcvd
          \/ RecvEmpty(l, c) /\ Pending(l, fut[l]) /\ UNCHANGED rcvd
    /\ UNCHANGED <<batch, host>>

PollYield(l) ==
    /\ running = l /\ fut[l].k = "yield"
    /\ \/ fut[l].armed /\ Ready(l, "ok") /\ UNCHANGED sched
       \/ ~fut[l].armed /\ Pending(l, Yield(TRUE)) /\ sched' = signal_ready(sched, l)
    /\ UNCHANGED <<chan, sent, batch, host, rcvd>>

(* ResourceWait: ready on any poll after the one that registered it.       *)
PollSleep(l) ==
    /\ running = l /\ fut[l].k = "sleep"
    /\ \/ fut[l].armed /\ Ready(l, "ok") /\ UNCHANGED sched
       \/ /\ ~fut[l].armed /\ Pending(l, Sleep(fut[l].deadline, TRUE))
          /\ sched' = register_wait(sched, l, Timer(fut[l].deadline))
    /\ UNCHANGED <<chan, sent, batch, host, rcvd>>

(* Mutant: the sleep inside with_timeout counts as elapsed on first poll.  *)
PollTimed_Unarmed(l) ==
    /\ running = l /\ fut[l].k = "timed"
    /\ LET f == fut[l]
       IN \/ TakeMessage(f.ch) /\ Ready(l, "ok")
          \/ RecvClosed(f.ch) /\ Ready(l, "err") /\ UNCHANGED rcvd
          \/ RecvEmpty(l, f.ch) /\ Ready(l, "timeout") /\ UNCHANGED rcvd
    /\ UNCHANGED <<batch, host>>

(* with_timeout over a future that receives `left' messages: it polls that *)
(* future first and the sleep only when the future is still pending.       *)
PollTimed(l) ==
    /\ running = l /\ fut[l].k = "timed"
    /\ LET f == fut[l]
       IN \/ /\ TakeMessage(f.ch) /\ f.left > 1
             /\ fut' = [fut EXCEPT ![l] = Timed(f.ch, f.left - 1, f.deadline, f.armed)]
             /\ UNCHANGED running
          \/ TakeMessage(f.ch) /\ f.left = 1 /\ Ready(l, "ok")
          \/ RecvClosed(f.ch) /\ Ready(l, "err") /\ UNCHANGED rcvd
          \/ f.armed /\ RecvEmpty(l, f.ch) /\ Ready(l, "timeout") /\ UNCHANGED rcvd
          \/ /\ ~f.armed /\ RecvEmptyUntil(l, f.ch, f.deadline)
             /\ Pending(l, Timed(f.ch, f.left, f.deadline, TRUE)) /\ UNCHANGED rcvd
    /\ UNCHANGED <<batch, host>>

(* Channel::try_send and try_receive: the same attempts, but the lane goes *)
(* on running after a Full or an Empty that has registered it as a waiter. *)
TrySend(l, c) ==
    /\ running = l /\ fut[l].k = "run" /\ l \in TryLanes \cap SendersOf[c]
    /\ sent[c] < MaxMessages
    /\ \/ Sent(c) /\ Ready(l, "ok")
       \/ (SendFull(l, c) \/ SendClosed(c)) /\ Ready(l, "err")
    /\ UNCHANGED <<batch, host, rcvd>>

TryReceive(l, c) ==
    /\ running = l /\ fut[l].k = "run" /\ l \in TryLanes \cap ReceiversOf[c]
    /\ \/ TakeMessage(c) /\ Ready(l, "ok")
       \/ (RecvEmpty(l, c) \/ RecvClosed(c)) /\ Ready(l, "err") /\ UNCHANGED rcvd
    /\ UNCHANGED <<batch, host>>

Close(l, c) ==
    /\ running = l /\ fut[l].k = "run" /\ l \in ClosersOf[c]
    /\ close(c)
    /\ UNCHANGED <<fut, batch, running, host, rcvd>>

(* System::spawn: the child is queued for the host.                        *)
Spawn(l, child) ==
    /\ running = l /\ fut[l].k = "run" /\ fut[child] = Absent
    /\ fut' = [fut EXCEPT ![child] = Queued]
    /\ UNCHANGED <<sched, chan, sent, batch, running, host, rcvd>>

(* LanePoll::Completed.                                                    *)
Complete(l) ==
    /\ running = l /\ fut[l].k = "run"
    /\ Pending(l, Done) /\ sched' = notify_complete(sched, l)
    /\ UNCHANGED <<chan, sent, batch, host, rcvd>>
-----------------------------------------------------------------------------
LaneStep(l) ==
    \/ Await(l) \/ PollSend(l) \/ PollRecv(l) \/ PollYield(l) \/ PollSleep(l) \/ PollTimed(l)
    \/ \E c \in Channel : TrySend(l, c) \/ TryReceive(l, c) \/ Close(l, c)
    \/ \E child \in Lane : Spawn(l, child)
    \/ Complete(l)

Next ==
    \/ \E l \in Lane : InstallSpawn(l) \/ RefuseSpawn(l) \/ PollLane(l) \/ PollNotFound(l)
    \/ EnterRun \/ RunIdle
    \/ \E d \in Duration : advance_and_run(d)
    \/ \E b \in SUBSET Lane : Dispatch(b)
    \/ \E l \in Lane : LaneStep(l)

Spec == Init /\ [][Next]_vars

(* Fairness.  The thread that runs the loop keeps running it.  A dispatch  *)
(* draws every ready lane with a positive probability (no weight is zero), *)
(* so a lane that is ready again and again is drawn again and again.  And  *)
(* application code returns from poll: a lane does not run for ever        *)
(* without finishing or yielding, the contract of cooperative scheduling.  *)
LoopStep ==
    \/ \E l \in Lane : InstallSpawn(l) \/ RefuseSpawn(l) \/ PollLane(l) \/ PollNotFound(l)
    \/ EnterRun \/ RunIdle
    \/ \E b \in SUBSET Lane : Dispatch(b)
    \/ \E l \in Lane : LaneStep(l)

LeavePoll(l) == Complete(l) \/ (Await(l) /\ fut'[l] = Yield(FALSE))

FairSpec ==
    /\ Spec
    /\ WF_vars(LoopStep)
    /\ \A l \in Lane : /\ SF_vars(\E b \in SUBSET Lane : l \in b /\ Dispatch(b))
                      /\ SF_vars(LeavePoll(l))
-----------------------------------------------------------------------------
TypeOK ==
    /\ sched \in SchedulerState
    /\ chan \in [Channel -> ChannelState]
    /\ sent \in [Channel -> Nat] /\ rcvd \in [Channel -> Nat]
    /\ fut \in [Lane -> Future]
    /\ batch \in SUBSET Lane
    /\ running \in Lane \cup {NoLane}
    /\ host \in {"install", "run", "stopped"}

(* A lane that only a wake-up will ever poll again.                        *)
Parked(l) == InExecutor(l) /\ running # l /\ l \notin batch /\ sched.ready[l] = 0

(* What the lane is suspended on would return Ready if it were polled.     *)
CanProceed(l) ==
    CASE fut[l].k = "send" -> \/ chan[fut[l].ch].closed \/ fut[l].big
                              \/ Len(chan[fut[l].ch].messages) < Capacity[fut[l].ch]
      [] fut[l].k \in {"recv", "timed"} -> \/ chan[fut[l].ch].closed
                                          \/ chan[fut[l].ch].messages # << >>
      [] fut[l].k = "sleep" -> FALSE
      [] OTHER -> TRUE

(* The timer a suspended sleep or timeout relies on is registered.         *)
TimerArmed(l) ==
    fut[l].k \in {"sleep", "timed"} => sched.stalled[l] = Timer(fut[l].deadline)

(* No lost wake-up: a lane that waits for a wake cannot proceed, and if it *)
(* waits for a time, its timer is on the Stalled List.  "A receive on an   *)
(* empty channel ... parks; a later send wakes it.  A send to a full       *)
(* channel ... parks (back-pressure); a later receive wakes it"            *)
(* (channel.rs:9-12), and close wakes both (channel.rs:199-200).           *)
NoLostWakeup == \A l \in Lane : Parked(l) => ~CanProceed(l) /\ TimerArmed(l)

(* One lane at each end of each channel.  The code says "point-to-point"   *)
(* of the boundaries at the ends (channel.rs:3); nothing stops two lanes   *)
(* of a boundary from sharing an end, so this is a condition on an         *)
(* application and not a fact about the kernel.                            *)
PointToPoint ==
    \A c \in Channel, l, m \in Lane :
       ({l, m} \subseteq SendersOf[c] \/ {l, m} \subseteq ReceiversOf[c]) => l = m

(* run() returns only when the application is genuinely idle: every lane   *)
(* left is blocked on a channel that cannot serve it, none on a timer, and *)
(* no spawn is waiting (app.rs:103-112).                                   *)
StoppedIsIdle ==
    host = "stopped" =>
       \A l \in Lane : /\ fut[l] # Queued
                       /\ InExecutor(l) => fut[l].k \in {"send", "recv"} /\ ~CanProceed(l)

(* Exactly once and in order: the buffer of a channel holds the messages   *)
(* after the last one received up to the last one accepted, none missing,  *)
(* repeated or swapped, and never more than the capacity, through parked   *)
(* sends, timeouts and closing (channel.rs:133-197).                       *)
InOrder ==
    \A c \in Channel :
       /\ Len(chan[c].messages) <= Capacity[c]
       /\ rcvd[c] + Len(chan[c].messages) = sent[c]
       /\ \A i \in 1..Len(chan[c].messages) : chan[c].messages[i] = rcvd[c] + i

(* The channel as its ends see it: accepted and delivered messages, closed *)
(* or open; buffer, waiters, scheduler and host are hidden.                *)
Fifo == INSTANCE BoundedFifo WITH accepted <- sent, delivered <- rcvd,
                                  shut <- [c \in Channel |-> chan[c].closed]

(* Every channel implements the bounded first-in first-out queue that      *)
(* channel.rs:1-12 describes: whatever parks, times out, wakes or closes,  *)
(* each step the two ends can see accepts one message where there is room  *)
(* and the channel is open, delivers exactly the next one, or closes.      *)
IsBoundedFifo == Fifo!FifoSpec

(* "The lane resumes after at least `duration` has elapsed"                *)
(* (cibos-sdk/src/time.rs, Timer::sleep): a sleep returns only once the    *)
(* clock has reached its deadline.                                         *)
SleepNotEarly ==
    [][\A l \in Lane : fut[l].k = "sleep" /\ fut'[l].k = "run" => sched.now >= fut[l].deadline]_vars

(* "Err(TimeoutError) if the timeout elapses first" (cibos-sdk/src/time.rs *)
(* with_timeout): a timeout is reported only once its deadline is reached. *)
TimeoutNotEarly ==
    [][\A l \in Lane : fut[l].k = "timed" /\ fut'[l] = Run("timeout") =>
                        sched.now >= fut[l].deadline]_vars

(* No lane that waits for a time goes on before it (cibos-sdk/src/time.rs, *)
(* Timer::sleep and with_timeout).                                         *)
NotEarly == SleepNotEarly /\ TimeoutNotEarly

(* Back-pressure ends: a lane suspended on a send or a receive that its    *)
(* channel can serve is polled and goes on, whatever the other lanes do    *)
(* (channel.rs:9-12, kernel.rs:234-250).                                   *)
Served ==
    \A l \in Lane : (fut[l].k \in {"send", "recv"} /\ CanProceed(l)) ~> fut[l].k = "run"

(* run_until_idle is about to return.                                      *)
Quiet == host = "run" /\ running = NoLane /\ batch = {} /\ ~has_ready(sched)

(* Every sleep and every timeout comes to an end, even when all other      *)
(* lanes are blocked for good: the idle pump reaches its deadline          *)
(* (app.rs:103-112).  The pump runs only when run_until_idle returns, so   *)
(* the lanes must not keep yielding to each other for ever: a lane in a    *)
(* yield loop stops the host's clock.                                      *)
SleepEnds ==
    []<>(Quiet \/ host = "stopped") =>
       \A l \in Lane : fut[l].k \in {"sleep", "timed"} ~> fut[l].k \notin {"sleep", "timed"}
=============================================================================
