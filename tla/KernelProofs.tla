---------------------------- MODULE KernelProofs ----------------------------
(***************************************************************************)
(* The kernel loop proved for every number of lanes, channels, contexts,   *)
(* capacities and clock values: it keeps its types, channels deliver in    *)
(* order, the whole implements BoundedFifo, and, where each channel has    *)
(* one sender and one receiver, no wake-up is lost and the loop stops only *)
(* when idle.                                                              *)
(***************************************************************************)
EXTENDS Kernel, SchedulerOpsProofs

ChannelTypes == chan \in [Channel -> ChannelState] /\ sent \in [Channel -> Nat]

(* Only the channel c is touched.                                          *)
OthersKept(c) == \A d \in Channel \ {c} : chan'[d] = chan[d] /\ sent'[d] = sent[d]

(* Waking whatever is in a waiter slot readies it and disturbs no other    *)
(* lane (channel.rs:151-153, 184-186, 207-212).                            *)
LEMMA WakeTidy ==
    ASSUME NEW s, Tidy(s), NEW w \in Lane \cup {NoLane}
    PROVE  /\ Tidy(Wake(s, w))
           /\ Wake(s, w).now = s.now
           /\ w # NoLane => Wake(s, w).ready[w] = 1
           /\ \A k \in Lane : k # w => Same(s, Wake(s, w), k)
<1>1. CASE w = NoLane
  BY <1>1, NoLaneIsNoLane, Zenon DEF Wake, Same
<1>2. CASE w \in Lane
  BY <1>2, NoLaneIsNoLane, SignalReadyTidy, Zenon DEF Wake
<1> QED
  BY <1>1, <1>2, Zenon

(* The effect of a send that is accepted.                                  *)
LEMMA SentEffect ==
    ASSUME ChannelTypes, NEW c \in Channel, Sent(c)
    PROVE  /\ ChannelTypes'
           /\ ~chan[c].closed /\ Len(chan[c].messages) < Capacity[c]
           /\ chan'[c].messages = Append(chan[c].messages, sent[c] + 1)
           /\ chan'[c].receiver_waiter = NoLane
           /\ chan'[c].sender_waiter = chan[c].sender_waiter
           /\ chan'[c].closed = chan[c].closed
           /\ sent'[c] = sent[c] + 1
           /\ OthersKept(c)
<1> DEFINE ms == Append(chan[c].messages, sent[c] + 1)
           n == [chan[c] EXCEPT !.messages = ms, !.receiver_waiter = NoLane]
<1>1. chan[c] \in ChannelState /\ ms \in Seq(Nat)
  BY DEF ChannelTypes, ChannelState
<1>3. chan' = [chan EXCEPT ![c] = n]
  BY Zenon DEF Sent, ChannelTypes
<1> HIDE DEF ms
<1>2. /\ n \in ChannelState
      /\ n.messages = ms
      /\ n.receiver_waiter = NoLane /\ n.sender_waiter = chan[c].sender_waiter
      /\ n.closed = chan[c].closed
  BY <1>1, Zenon DEF ChannelState
<1> HIDE DEF n
<1>4. chan' \in [Channel -> ChannelState] /\ chan'[c] = n /\ \A d \in Channel \ {c} : chan'[d] = chan[d]
  BY <1>2, <1>3, Zenon DEF ChannelTypes
<1>5. sent' \in [Channel -> Nat] /\ sent'[c] = sent[c] + 1 /\ \A d \in Channel \ {c} : sent'[d] = sent[d]
  BY DEF Sent, ChannelTypes
<1> QED
  BY <1>2, <1>4, <1>5, Zenon DEF ms, Sent, ChannelTypes, OthersKept

(* The effect of a receive that finds a message.                           *)
LEMMA ReceivedEffect ==
    ASSUME ChannelTypes, NEW c \in Channel, Received(c)
    PROVE  /\ ChannelTypes'
           /\ chan[c].messages # << >>
           /\ chan'[c].messages = Tail(chan[c].messages)
           /\ chan'[c].sender_waiter = NoLane
           /\ chan'[c].receiver_waiter = chan[c].receiver_waiter
           /\ chan'[c].closed = chan[c].closed
           /\ sent' = sent
           /\ OthersKept(c)
<1> DEFINE ms == Tail(chan[c].messages)
           n == [chan[c] EXCEPT !.messages = ms, !.sender_waiter = NoLane]
<1>1. chan[c] \in ChannelState /\ chan[c].messages # << >> /\ ms \in Seq(Nat)
  BY DEF ChannelTypes, ChannelState, Received
<1>3. chan' = [chan EXCEPT ![c] = n]
  BY Zenon DEF Received, ChannelTypes
<1> HIDE DEF ms
<1>2. /\ n \in ChannelState
      /\ n.messages = ms
      /\ n.sender_waiter = NoLane /\ n.receiver_waiter = chan[c].receiver_waiter
      /\ n.closed = chan[c].closed
  BY <1>1, Zenon DEF ChannelState
<1> HIDE DEF n
<1>4. chan' \in [Channel -> ChannelState] /\ chan'[c] = n /\ \A d \in Channel \ {c} : chan'[d] = chan[d]
  BY <1>2, <1>3, Zenon DEF ChannelTypes
<1> QED
  BY <1>1, <1>2, <1>4, Zenon DEF ms, Received, ChannelTypes, OthersKept

(* The effect of parking on a full or an empty channel: the lane takes the *)
(* one waiter slot of its end, whoever is in it.                           *)
LEMMA SendFullEffect ==
    ASSUME ChannelTypes, NEW c \in Channel, NEW l \in Lane, SendFull(l, c)
    PROVE  /\ ChannelTypes'
           /\ ~chan[c].closed /\ Len(chan[c].messages) >= Capacity[c]
           /\ chan'[c].sender_waiter = l
           /\ chan'[c].messages = chan[c].messages
           /\ chan'[c].receiver_waiter = chan[c].receiver_waiter
           /\ chan'[c].closed = chan[c].closed
           /\ sent' = sent
           /\ OthersKept(c)
<1> DEFINE n == [chan[c] EXCEPT !.sender_waiter = l]
<1>1. chan[c] \in ChannelState
  BY Zenon DEF ChannelTypes
<1>2. /\ n \in ChannelState
      /\ n.messages = chan[c].messages
      /\ n.sender_waiter = l /\ n.receiver_waiter = chan[c].receiver_waiter
      /\ n.closed = chan[c].closed
  BY <1>1, Zenon DEF ChannelState
<1>3. chan' = [chan EXCEPT ![c] = n]
  BY Zenon DEF SendFull, ChannelTypes
<1> HIDE DEF n
<1>4. chan' \in [Channel -> ChannelState] /\ chan'[c] = n /\ \A d \in Channel \ {c} : chan'[d] = chan[d]
  BY <1>2, <1>3, Zenon DEF ChannelTypes
<1> QED
  BY <1>2, <1>4, Zenon DEF SendFull, ChannelTypes, OthersKept

ParkedOnEmpty(l, c) ==
    /\ chan[c].messages = << >> /\ ~chan[c].closed
    /\ chan' = [chan EXCEPT ![c].receiver_waiter = l]
    /\ UNCHANGED sent

LEMMA RecvEmptyEffect ==
    ASSUME ChannelTypes, NEW c \in Channel, NEW l \in Lane, ParkedOnEmpty(l, c)
    PROVE  /\ ChannelTypes'
           /\ chan'[c].receiver_waiter = l
           /\ chan'[c].messages = chan[c].messages
           /\ chan'[c].sender_waiter = chan[c].sender_waiter
           /\ chan'[c].closed = chan[c].closed
           /\ OthersKept(c)
<1> DEFINE n == [chan[c] EXCEPT !.receiver_waiter = l]
<1>1. chan[c] \in ChannelState
  BY Zenon DEF ChannelTypes
<1>2. /\ n \in ChannelState
      /\ n.messages = chan[c].messages
      /\ n.receiver_waiter = l /\ n.sender_waiter = chan[c].sender_waiter
      /\ n.closed = chan[c].closed
  BY <1>1, Zenon DEF ChannelState
<1>3. chan' = [chan EXCEPT ![c] = n]
  BY Zenon DEF ParkedOnEmpty, ChannelTypes
<1> HIDE DEF n
<1>4. chan' \in [Channel -> ChannelState] /\ chan'[c] = n /\ \A d \in Channel \ {c} : chan'[d] = chan[d]
  BY <1>2, <1>3, Zenon DEF ChannelTypes
<1> QED
  BY <1>2, <1>4, Zenon DEF ParkedOnEmpty, ChannelTypes, OthersKept

(* The effect of close: both slots are emptied.                            *)
LEMMA CloseEffect ==
    ASSUME ChannelTypes, NEW c \in Channel, close(c)
    PROVE  /\ ChannelTypes'
           /\ chan'[c].closed
           /\ chan'[c].messages = chan[c].messages
           /\ sent' = sent
           /\ OthersKept(c)
<1> DEFINE n == [chan[c] EXCEPT !.closed = TRUE, !.receiver_waiter = NoLane, !.sender_waiter = NoLane]
<1>1. chan[c] \in ChannelState
  BY Zenon DEF ChannelTypes
<1>2. n \in ChannelState /\ n.messages = chan[c].messages /\ n.closed
  BY <1>1, Zenon DEF ChannelState
<1>3. chan' = [chan EXCEPT ![c] = n]
  BY Zenon DEF close, ChannelTypes
<1> HIDE DEF n
<1>4. chan' \in [Channel -> ChannelState] /\ chan'[c] = n /\ \A d \in Channel \ {c} : chan'[d] = chan[d]
  BY <1>2, <1>3, Zenon DEF ChannelTypes
<1> QED
  BY <1>2, <1>4, Zenon DEF close, ChannelTypes, OthersKept
-----------------------------------------------------------------------------
(* The shapes of a lane's future.                                          *)
LEMMA FutureFields ==
    ASSUME NEW f \in Future
    PROVE  /\ f.k \in {"absent", "queued", "done", "run", "send", "recv", "yield", "sleep", "timed"}
           /\ f.k = "send" => f.ch \in Channel /\ f.big \in BOOLEAN
           /\ f.k = "recv" => f.ch \in Channel
           /\ f.k = "sleep" => f.deadline \in Time
           /\ f.k = "timed" => f.ch \in Channel /\ f.left \in 1..MaxTimed /\ f.deadline \in Time
                              /\ f.armed \in BOOLEAN
BY DEF Future, Absent, Queued, Done, Run, Send, Recv, Yield, Sleep, Timed

LEMMA FutureMembers ==
    /\ {Absent, Queued, Done} \subseteq Future
    /\ \A res \in Result : Run(res) \in Future
    /\ \A c \in Channel, big \in BOOLEAN : Send(c, big) \in Future
    /\ \A c \in Channel : Recv(c) \in Future
    /\ \A armed \in BOOLEAN : Yield(armed) \in Future
    /\ \A d \in Time, armed \in BOOLEAN : Sleep(d, armed) \in Future
    /\ \A c \in Channel, n \in 1..MaxTimed, d \in Time, armed \in BOOLEAN :
          Timed(c, n, d, armed) \in Future
BY DEF Future

(* What a step of the kernel can do to the channels.                       *)
ChannelStep ==
    \/ UNCHANGED <<chan, sent, rcvd>>
    \/ \E c \in Channel : Sent(c) /\ UNCHANGED rcvd
    \/ \E c \in Channel : TakeMessage(c)
    \/ \E c \in Channel : close(c) /\ UNCHANGED rcvd
    \/ \E c \in Channel, l \in Lane :
          (SendFull(l, c) \/ ParkedOnEmpty(l, c)) /\ UNCHANGED rcvd

LEMMA EveryChannelStep == TypeOK /\ [Next]_vars => ChannelStep
<1> SUFFICES ASSUME TypeOK, [Next]_vars PROVE ChannelStep
  OBVIOUS
<1>0. \A l \in Lane : fut[l].k \in {"send", "recv", "timed"} => fut[l].ch \in Channel
  BY FutureFields, Zenon DEF TypeOK
<1>1. ASSUME NEW l \in Lane, InstallSpawn(l) \/ RefuseSpawn(l) \/ PollLane(l) \/ PollNotFound(l)
      PROVE  ChannelStep
  BY <1>1, Zenon DEF InstallSpawn, RefuseSpawn, PollLane, PollNotFound, ChannelStep
<1>2. CASE EnterRun \/ RunIdle \/ \E d \in Duration : advance_and_run(d)
  BY <1>2, Zenon DEF EnterRun, RunIdle, advance_and_run, ChannelStep
<1>3. ASSUME NEW b \in SUBSET Lane, Dispatch(b) PROVE ChannelStep
  BY <1>3, Zenon DEF Dispatch, ChannelStep
<1>4. ASSUME NEW l \in Lane, Await(l) \/ PollYield(l) \/ PollSleep(l) \/ Complete(l)
                               \/ \E child \in Lane : Spawn(l, child)
      PROVE  ChannelStep
  <2>1. UNCHANGED <<chan, sent, rcvd>>
    BY <1>4, Zenon DEF Await, PollYield, PollSleep, Complete, Spawn
  <2> QED
    BY <2>1, Zenon DEF ChannelStep
<1>5. ASSUME NEW l \in Lane, PollSend(l) PROVE ChannelStep
  BY <1>0, <1>5, Zenon DEF PollSend, SendClosed, SendTooLarge, ChannelStep
<1>6. ASSUME NEW l \in Lane, PollRecv(l) PROVE ChannelStep
  BY <1>0, <1>6, Zenon DEF PollRecv, RecvClosed, RecvEmpty, ParkedOnEmpty, ChannelStep
<1>7. ASSUME NEW l \in Lane, PollTimed(l) PROVE ChannelStep
  BY <1>0, <1>7, Zenon DEF PollTimed, RecvClosed, RecvEmpty, RecvEmptyUntil, ParkedOnEmpty, ChannelStep
<1>8. ASSUME NEW l \in Lane, NEW c \in Channel, TrySend(l, c) PROVE ChannelStep
  BY <1>8, Zenon DEF TrySend, SendClosed, ChannelStep
<1>9. ASSUME NEW l \in Lane, NEW c \in Channel, TryReceive(l, c) PROVE ChannelStep
  BY <1>9, Zenon DEF TryReceive, RecvClosed, RecvEmpty, ParkedOnEmpty, ChannelStep
<1>10. ASSUME NEW l \in Lane, NEW c \in Channel, Close(l, c) PROVE ChannelStep
  BY <1>10, Zenon DEF Close, ChannelStep
<1>11. CASE UNCHANGED vars
  BY <1>11, Zenon DEF vars, ChannelStep
<1> QED
  BY <1>1, <1>2, <1>3, <1>4, <1>5, <1>6, <1>7, <1>8, <1>9, <1>10, <1>11, Zenon DEF Next, LaneStep

(* A channel delivers in order through every such step.                    *)
LEMMA ChannelStepInOrder ==
    ASSUME ChannelTypes, rcvd \in [Channel -> Nat], InOrder, ChannelStep
    PROVE  InOrder' /\ rcvd' \in [Channel -> Nat] /\ ChannelTypes'
<1> DEFINE Queue(c) == /\ Len(chan[c].messages) <= Capacity[c]
                       /\ rcvd[c] + Len(chan[c].messages) = sent[c]
                       /\ \A i \in 1..Len(chan[c].messages) : chan[c].messages[i] = rcvd[c] + i
<1>1. CASE UNCHANGED <<chan, sent, rcvd>>
  BY <1>1, Zenon DEF InOrder, ChannelTypes
<1>2. ASSUME NEW c \in Channel, Sent(c), UNCHANGED rcvd
      PROVE  InOrder' /\ rcvd' \in [Channel -> Nat] /\ ChannelTypes'
  <2>1. Queue(c)'
    <3> DEFINE q == chan[c].messages
    <3>1. q \in Seq(Nat) /\ chan'[c].messages = Append(q, sent[c] + 1) /\ sent'[c] = sent[c] + 1
      BY <1>2, SentEffect, Zenon DEF ChannelTypes, ChannelState
    <3>2. Capacity[c] \in Nat /\ Len(q) < Capacity[c] /\ Len(q) \in Nat /\ rcvd[c] \in Nat
      BY <1>2, <3>1, SentEffect, ChannelConstants
    <3>3. rcvd[c] + Len(q) = sent[c] /\ \A i \in 1..Len(q) : q[i] = rcvd[c] + i
      BY Zenon DEF InOrder
    <3> DEFINE w == chan'[c].messages
    <3> HIDE DEF q, w
    <3>4. /\ Len(w) = Len(q) + 1 /\ w[Len(q) + 1] = sent[c] + 1
          /\ \A i \in 1..Len(q) : w[i] = q[i]
      BY <3>1 DEF w
    <3>5. Len(w) <= Capacity[c] /\ rcvd[c] + Len(w) = sent'[c]
      BY <3>1, <3>2, <3>3, <3>4
    <3>6. ASSUME NEW i \in 1..Len(w) PROVE w[i] = rcvd[c] + i
      <4>1. i \in 1..Len(q) \/ i = Len(q) + 1
        BY <3>2, <3>4
      <4>2. CASE i \in 1..Len(q)
        BY <4>2, <3>3, <3>4, Zenon
      <4>3. CASE i = Len(q) + 1
        BY <4>3, <3>2, <3>3, <3>4
      <4> QED
        BY <4>1, <4>2, <4>3, Zenon
    <3> QED
      BY <1>2, <3>5, <3>6, Zenon DEF w
  <2>2. \A d \in Channel \ {c} : Queue(d)'
    BY <1>2, SentEffect DEF OthersKept, InOrder
  <2> QED
    BY <1>2, <2>1, <2>2, SentEffect, Zenon DEF InOrder
<1>3. ASSUME NEW c \in Channel, TakeMessage(c)
      PROVE  InOrder' /\ rcvd' \in [Channel -> Nat] /\ ChannelTypes'
  <2> DEFINE q == chan[c].messages
  <2>1. Received(c) /\ q \in Seq(Nat) /\ q # << >>
    BY <1>3, Zenon DEF TakeMessage, Received, ChannelTypes, ChannelState
  <2>2. /\ ChannelTypes' /\ chan'[c].messages = Tail(q) /\ sent' = sent
        /\ \A d \in Channel \ {c} : chan'[d] = chan[d]
    BY <2>1, ReceivedEffect, Zenon DEF OthersKept
  <2>3. /\ rcvd[c] + Len(q) = sent[c] /\ \A i \in 1..Len(q) : q[i] = rcvd[c] + i
        /\ Len(q) <= Capacity[c] /\ Capacity[c] \in Nat
    BY ChannelConstants, Zenon DEF InOrder
  <2>4. /\ rcvd' = [rcvd EXCEPT ![c] = Head(q)]
    BY <1>3, Zenon DEF TakeMessage
  <2> HIDE DEF q
  <2>5. Len(q) \in Nat \ {0} /\ Head(q) = rcvd[c] + 1 /\ Len(Tail(q)) = Len(q) - 1
        /\ \A i \in 1..Len(Tail(q)) : Tail(q)[i] = q[i + 1]
    BY <2>1, <2>3
  <2>6. rcvd' \in [Channel -> Nat] /\ rcvd'[c] = rcvd[c] + 1 /\ \A d \in Channel \ {c} : rcvd'[d] = rcvd[d]
    BY <2>4, <2>5
  <2>7. Queue(c)'
    <3> DEFINE w == chan'[c].messages
    <3> HIDE DEF w
    <3>1. Len(w) = Len(q) - 1 /\ \A i \in 1..Len(w) : w[i] = q[i + 1]
      BY <2>2, <2>5, Zenon DEF w
    <3>2. rcvd[c] \in Nat
      OBVIOUS
    <3>3. Len(w) <= Capacity[c] /\ (rcvd[c] + 1) + Len(w) = sent[c]
      BY <2>3, <2>5, <3>1, <3>2
    <3>4. ASSUME NEW i \in 1..Len(w) PROVE w[i] = (rcvd[c] + 1) + i
      <4>1. i + 1 \in 1..Len(q) /\ i \in Nat
        BY <2>5, <3>1
      <4>2. w[i] = rcvd[c] + (i + 1)
        BY <2>3, <3>1, <4>1, Zenon
      <4> QED
        BY <3>2, <4>1, <4>2
    <3> QED
      BY <2>2, <2>6, <3>3, <3>4, Zenon DEF w
  <2>8. \A d \in Channel \ {c} : Queue(d)'
    BY <2>2, <2>6 DEF InOrder
  <2> QED
    BY <2>2, <2>6, <2>7, <2>8, Zenon DEF InOrder
<1>4. ASSUME NEW c \in Channel, NEW l \in Lane, UNCHANGED rcvd,
             SendFull(l, c) \/ ParkedOnEmpty(l, c)
      PROVE  InOrder' /\ rcvd' \in [Channel -> Nat] /\ ChannelTypes'
  <2>1. /\ ChannelTypes' /\ sent' = sent /\ chan'[c].messages = chan[c].messages
        /\ \A d \in Channel \ {c} : chan'[d] = chan[d]
    BY <1>4, SendFullEffect, RecvEmptyEffect, Zenon DEF OthersKept, ParkedOnEmpty
  <2>2. \A d \in Channel : chan'[d].messages = chan[d].messages
    BY <2>1, Zenon
  <2> QED
    BY <1>4, <2>1, <2>2 DEF InOrder
<1>5. ASSUME NEW c \in Channel, close(c), UNCHANGED rcvd
      PROVE  InOrder' /\ rcvd' \in [Channel -> Nat] /\ ChannelTypes'
  <2>1. /\ ChannelTypes' /\ sent' = sent /\ chan'[c].messages = chan[c].messages
        /\ \A d \in Channel \ {c} : chan'[d] = chan[d]
    BY <1>5, CloseEffect, Zenon DEF OthersKept
  <2>2. \A d \in Channel : chan'[d].messages = chan[d].messages
    BY <2>1, Zenon
  <2> QED
    BY <1>5, <2>1, <2>2 DEF InOrder
<1> QED
  BY <1>1, <1>2, <1>3, <1>4, <1>5, Zenon DEF ChannelStep
-----------------------------------------------------------------------------
(* A lane sends and receives only on the channels whose ends it holds.     *)
Ends ==
    \A l \in Lane : /\ fut[l].k = "send" => l \in SendersOf[fut[l].ch]
                    /\ fut[l].k \in {"recv", "timed"} => l \in ReceiversOf[fut[l].ch]

(* The types of what is not a channel, with Ends.                          *)
Base ==
    /\ Tidy(sched) /\ fut \in [Lane -> Future] /\ Ends
    /\ batch \in SUBSET Lane /\ running \in Lane \cup {NoLane}
    /\ host \in {"install", "run", "stopped"}

(* A future that lane l may be given.                                      *)
Fits(l, f) ==
    /\ f \in Future
    /\ f.k = "send" => l \in SendersOf[f.ch]
    /\ f.k \in {"recv", "timed"} => l \in ReceiversOf[f.ch]

(* Base survives a step that gives one lane a fitting future.              *)
LEMMA BaseStep ==
    ASSUME Base, Tidy(sched'), NEW l \in Lane, NEW f, Fits(l, f), fut' = [fut EXCEPT ![l] = f],
           batch' \in SUBSET batch, running' \in {running, NoLane}, host' = host
    PROVE  Base'
<1>1. fut' \in [Lane -> Future] /\ fut'[l] = f /\ \A m \in Lane \ {l} : fut'[m] = fut[m]
  BY Zenon DEF Base, Fits
<1>2. Ends'
  BY <1>1, Zenon DEF Base, Ends, Fits
<1> QED
  BY <1>1, <1>2, Zenon DEF Base

(* And a step that leaves every future alone.                              *)
LEMMA BaseFrame ==
    ASSUME Base, Tidy(sched'), fut' = fut, batch' \in SUBSET Lane,
           running' \in Lane \cup {NoLane}, host' \in {"install", "run", "stopped"}
    PROVE  Base'
BY Zenon DEF Base, Ends

(* The scheduler stays tidy through the calls of every channel operation.  *)
LEMMA ChannelOpTidy ==
    ASSUME Tidy(sched), ChannelTypes, NEW c \in Channel, NEW l \in Lane,
           \/ Sent(c) \/ Received(c) \/ close(c) \/ SendClosed(c) \/ SendTooLarge(c) \/ RecvClosed(c)
           \/ SendFull(l, c) \/ RecvEmpty(l, c)
    PROVE  Tidy(sched')
<1>0. chan[c].receiver_waiter \in Lane \cup {NoLane} /\ chan[c].sender_waiter \in Lane \cup {NoLane}
  BY Zenon DEF ChannelTypes, ChannelState
<1>1. CASE Sent(c) \/ Received(c)
  BY <1>0, <1>1, WakeTidy DEF Sent, Received
<1>2. CASE close(c)
  BY <1>0, <1>2, WakeTidy, Zenon DEF close
<1>3. CASE SendClosed(c) \/ SendTooLarge(c) \/ RecvClosed(c)
  BY <1>3, Zenon DEF SendClosed, SendTooLarge, RecvClosed
<1>4. CASE SendFull(l, c) \/ RecvEmpty(l, c)
  <2>1. ChannelData(c) \in WaitResource /\ ChannelBuffer(c) \in WaitResource
    BY Zenon DEF WaitResource
  <2> QED
    BY <1>4, <2>1, RegisterWaitTidy DEF SendFull, RecvEmpty
<1> QED
  BY <1>1, <1>2, <1>3, <1>4, Zenon

LEMMA TimerIsResource == \A d \in Time : Timer(d) \in WaitResource
BY Zenon DEF WaitResource

LEMMA RunFits ==
    ASSUME NEW l \in Lane
    PROVE  /\ \A res \in Result : Fits(l, Run(res))
           /\ Fits(l, Queued) /\ Fits(l, Done)
           /\ \A armed \in BOOLEAN : Fits(l, Yield(armed))
           /\ \A d \in Time, armed \in BOOLEAN : Fits(l, Sleep(d, armed))
BY FutureMembers, Zenon DEF Fits, Run, Queued, Done, Yield, Sleep

LEMMA AwaitsFit == ASSUME Base, NEW l \in Lane, NEW f \in Awaits(l) PROVE Fits(l, f)
<1>1. \A d \in Duration : Deadline(d) \in Time
  BY KernelConstants, SaturatingAddType, Zenon DEF Base, Tidy, SchedulerState, Deadline
<1>2. ASSUME NEW c \in Channel, NEW big \in BOOLEAN, l \in SendersOf[c], f = Send(c, big)
      PROVE  Fits(l, f)
  BY <1>2, FutureMembers, Zenon DEF Fits, Send
<1>3. ASSUME NEW c \in Channel, l \in ReceiversOf[c], f = Recv(c)
      PROVE  Fits(l, f)
  BY <1>3, FutureMembers, Zenon DEF Fits, Recv
<1>4. CASE f = Yield(FALSE) \/ \E d \in Duration : f = Sleep(Deadline(d), FALSE)
  BY <1>1, <1>4, RunFits, Zenon
<1>5. ASSUME NEW c \in Channel, NEW n \in 1..MaxTimed, NEW d \in Duration,
             l \in ReceiversOf[c], f = Timed(c, n, Deadline(d), FALSE)
      PROVE  Fits(l, f)
  <2>1. f \in Future
    BY <1>1, <1>5, FutureMembers, Zenon
  <2> QED
    BY <2>1, <1>5, Zenon DEF Fits, Timed
<1>6. \/ \E c \in Channel, big \in BOOLEAN : l \in SendersOf[c] /\ f = Send(c, big)
      \/ \E c \in Channel : l \in ReceiversOf[c] /\ f = Recv(c)
      \/ f = Yield(FALSE) \/ \E d \in Duration : f = Sleep(Deadline(d), FALSE)
      \/ \E c \in Channel, n \in 1..MaxTimed, d \in Duration :
             l \in ReceiversOf[c] /\ f = Timed(c, n, Deadline(d), FALSE)
  BY DEF Awaits, Send, Recv, Yield, Sleep, Timed
<1> QED
  BY <1>2, <1>3, <1>4, <1>5, <1>6, Zenon

(* Every step keeps Base.                                                  *)
LEMMA BaseInvariant == Base /\ ChannelTypes /\ [Next]_vars => Base'
<1> SUFFICES ASSUME Base, ChannelTypes, [Next]_vars PROVE Base'
  OBVIOUS
<1> USE DEF Ready, Pending
<1>0. /\ Tidy(sched) /\ \A l \in Lane : fut[l] \in Future
      /\ {"ok", "err", "timeout"} \subseteq Result /\ "User" \in WeightClass
      /\ \A l \in Lane : Fits(l, fut[l])
  BY Zenon DEF Base, Ends, Fits, Result, WeightClass
<1>1. ASSUME NEW l \in Lane, InstallSpawn(l) PROVE Base'
  BY <1>0, <1>1, RunFits, BaseStep, SignalReadyTidy, RegisterLaneTidy, Zenon DEF InstallSpawn
<1>2. ASSUME NEW l \in Lane, RefuseSpawn(l) PROVE Base'
  BY <1>0, <1>2, RunFits, BaseStep, Zenon DEF RefuseSpawn
<1>3. ASSUME NEW l \in Lane, PollLane(l) PROVE Base'
  BY <1>0, <1>3, BaseFrame, Zenon DEF PollLane, Base
<1>4. ASSUME NEW l \in Lane, PollNotFound(l) PROVE Base'
  BY <1>0, <1>4, BaseFrame, NotifyCompleteTidy, Zenon DEF PollNotFound, Base
<1>5. CASE EnterRun
  BY <1>0, <1>5, BaseFrame, Zenon DEF EnterRun, Base
<1>6. CASE RunIdle
  <2>1. Tidy(sched')
    BY <1>0, <1>6, AdvanceToNextTimerReleases, ReleaseMaturedTidy DEF RunIdle, IsEarliest, TimerLanes
  <2> QED
    BY <1>6, <2>1, BaseFrame, Zenon DEF RunIdle, Base
<1>7. ASSUME NEW d \in Duration, advance_and_run(d) PROVE Base'
  <2>1. Tidy(sched')
    BY <1>0, <1>7, KernelConstants, AdvanceClockReleases, ReleaseMaturedTidy DEF advance_and_run
  <2> QED
    BY <1>7, <2>1, BaseFrame, Zenon DEF advance_and_run, Base
<1>8. ASSUME NEW b \in SUBSET Lane, Dispatch(b) PROVE Base'
  BY <1>0, <1>8, BaseFrame, TakeDispatchBatchTidy, Zenon DEF Dispatch, Base
<1>9. ASSUME NEW l \in Lane, Await(l) PROVE Base'
  <2>1. PICK f \in Awaits(l) : fut' = [fut EXCEPT ![l] = f]
    BY <1>9, Zenon DEF Await
  <2> QED
    BY <1>0, <1>9, <2>1, AwaitsFit, BaseStep, Zenon DEF Await
<1>10. ASSUME NEW l \in Lane, PollSend(l) PROVE Base'
  <2>1. fut[l].ch \in Channel
    BY <1>0, <1>10, FutureFields, Zenon DEF PollSend
  <2>2. Tidy(sched')
    BY <1>0, <1>10, <2>1, ChannelOpTidy, Zenon DEF PollSend
  <2>3. \E f : Fits(l, f) /\ fut' = [fut EXCEPT ![l] = f]
    BY <1>0, <1>10, RunFits, Zenon DEF PollSend
  <2> QED
    BY <1>10, <2>2, <2>3, BaseStep, Zenon DEF PollSend
<1>11. ASSUME NEW l \in Lane, PollRecv(l) PROVE Base'
  <2>1. fut[l].ch \in Channel
    BY <1>0, <1>11, FutureFields, Zenon DEF PollRecv
  <2>2. Tidy(sched')
    BY <1>0, <1>11, <2>1, ChannelOpTidy, Zenon DEF PollRecv, TakeMessage
  <2>3. \E f : Fits(l, f) /\ fut' = [fut EXCEPT ![l] = f]
    BY <1>0, <1>11, RunFits, Zenon DEF PollRecv
  <2> QED
    BY <1>11, <2>2, <2>3, BaseStep, Zenon DEF PollRecv
<1>12. ASSUME NEW l \in Lane, PollYield(l) PROVE Base'
  BY <1>0, <1>12, RunFits, BaseStep, SignalReadyTidy, Zenon DEF PollYield
<1>13. ASSUME NEW l \in Lane, PollSleep(l) PROVE Base'
  <2>1. fut[l].deadline \in Time
    BY <1>0, <1>13, FutureFields, Zenon DEF PollSleep
  <2>2. Tidy(sched')
    <3>1. Timer(fut[l].deadline) \in WaitResource
      BY <2>1, TimerIsResource, Zenon
    <3>2. sched' = sched \/ sched' = register_wait(sched, l, Timer(fut[l].deadline))
      BY <1>13, Zenon DEF PollSleep
    <3> QED
      BY <1>0, <3>1, <3>2, RegisterWaitTidy
  <2>3. \E f : Fits(l, f) /\ fut' = [fut EXCEPT ![l] = f]
    BY <1>0, <1>13, <2>1, RunFits, Zenon DEF PollSleep
  <2> QED
    BY <1>13, <2>2, <2>3, BaseStep, Zenon DEF PollSleep
<1>14. ASSUME NEW l \in Lane, PollTimed(l) PROVE Base'
  <2> DEFINE f == fut[l]
  <2>1. f.ch \in Channel /\ f.left \in 1..MaxTimed /\ f.deadline \in Time /\ f.armed \in BOOLEAN
    BY <1>0, <1>14, FutureFields, Zenon DEF PollTimed
  <2>2. Tidy(sched')
    <3>1. CASE RecvEmptyUntil(l, f.ch, f.deadline)
      <4>1. ChannelData(f.ch) \in WaitResource /\ Timer(f.deadline) \in WaitResource
        BY <2>1, Zenon DEF WaitResource
      <4> QED
        BY <1>0, <3>1, <4>1, RegisterWaitTidy, Zenon DEF RecvEmptyUntil
    <3>2. CASE TakeMessage(f.ch) \/ RecvClosed(f.ch) \/ RecvEmpty(l, f.ch)
      BY <1>0, <2>1, <3>2, ChannelOpTidy, Zenon DEF TakeMessage
    <3> QED
      BY <1>14, <3>1, <3>2, Zenon DEF PollTimed
  <2>3. \A n \in 1..MaxTimed, a \in BOOLEAN : Fits(l, Timed(f.ch, n, f.deadline, a))
    <3>1. l \in ReceiversOf[f.ch]
      BY <1>14, Zenon DEF Base, Ends, PollTimed
    <3> QED
      BY <2>1, <3>1, FutureMembers, Zenon DEF Fits, Timed
  <2>4. \E g : Fits(l, g) /\ fut' = [fut EXCEPT ![l] = g]
    <3>1. f.left > 1 => f.left - 1 \in 1..MaxTimed
      BY <2>1, KernelConstants
    <3> QED
      BY <1>0, <1>14, <2>1, <2>3, <3>1, RunFits, Zenon DEF PollTimed
  <2>5. batch' = batch /\ running' \in {running, NoLane} /\ host' = host
    BY <1>14, Zenon DEF PollTimed
  <2> QED
    BY <2>2, <2>4, <2>5, BaseStep, Zenon
<1>15. ASSUME NEW l \in Lane, NEW c \in Channel, TrySend(l, c) PROVE Base'
  <2>1. Tidy(sched')
    BY <1>0, <1>15, ChannelOpTidy, Zenon DEF TrySend
  <2> QED
    BY <1>0, <1>15, <2>1, RunFits, BaseStep, Zenon DEF TrySend
<1>16. ASSUME NEW l \in Lane, NEW c \in Channel, TryReceive(l, c) PROVE Base'
  <2>1. Tidy(sched')
    BY <1>0, <1>16, ChannelOpTidy, Zenon DEF TryReceive, TakeMessage
  <2> QED
    BY <1>0, <1>16, <2>1, RunFits, BaseStep, Zenon DEF TryReceive
<1>17. ASSUME NEW l \in Lane, NEW c \in Channel, Close(l, c) PROVE Base'
  <2>1. Tidy(sched')
    BY <1>0, <1>17, ChannelOpTidy, Zenon DEF Close
  <2> QED
    BY <1>17, <2>1, BaseFrame, Zenon DEF Close, Base
<1>18. ASSUME NEW l \in Lane, NEW child \in Lane, Spawn(l, child) PROVE Base'
  BY <1>0, <1>18, RunFits, BaseStep, Zenon DEF Spawn
<1>19. ASSUME NEW l \in Lane, Complete(l) PROVE Base'
  BY <1>0, <1>19, RunFits, BaseStep, NotifyCompleteTidy, Zenon DEF Complete
<1>20. CASE UNCHANGED vars
  BY <1>0, <1>20, BaseFrame, Zenon DEF vars, Base
<1> QED
  BY <1>1, <1>2, <1>3, <1>4, <1>5, <1>6, <1>7, <1>8, <1>9, <1>10, <1>11, <1>12, <1>13, <1>14,
     <1>15, <1>16, <1>17, <1>18, <1>19, <1>20, Zenon DEF Next, LaneStep

(* The inductive invariant of the channels: they need the types of all the *)
(* rest, since it is a lane's future that says which channel it works on.  *)
ChannelInv == Base /\ ChannelTypes /\ rcvd \in [Channel -> Nat] /\ InOrder

LEMMA ChannelInvInit == Init => ChannelInv
<1> SUFFICES ASSUME Init PROVE ChannelInv
  OBVIOUS
<1>1. NewChannel \in ChannelState /\ NewChannel.messages = << >>
  BY DEF NewChannel, ChannelState
<1>2. ChannelTypes /\ rcvd \in [Channel -> Nat] /\ \A c \in Channel : chan[c].messages = << >>
  BY <1>1, Zenon DEF Init, ChannelTypes
<1>3. InOrder
  BY <1>2, ChannelConstants DEF InOrder, Init
<1>4. Base
  BY NewTidy, FutureMembers, Zenon DEF Base, Ends, Init, Queued, Absent
<1> QED
  BY <1>2, <1>3, <1>4, Zenon DEF ChannelInv

LEMMA ChannelInvStep == ChannelInv /\ [Next]_vars => ChannelInv'
<1> SUFFICES ASSUME ChannelInv, [Next]_vars PROVE ChannelInv'
  OBVIOUS
<1>1. TypeOK
  BY Zenon DEF ChannelInv, Base, ChannelTypes, Tidy, TypeOK
<1>2. InOrder' /\ rcvd' \in [Channel -> Nat] /\ ChannelTypes'
  BY <1>1, EveryChannelStep, ChannelStepInOrder, Zenon DEF ChannelInv
<1> QED
  BY <1>2, BaseInvariant, Zenon DEF ChannelInv

(* Types are kept by the whole kernel loop, for every instance.            *)
THEOREM KernelTypeCorrect == Spec => []TypeOK
<1>1. ChannelInv => TypeOK
  BY Zenon DEF ChannelInv, Base, ChannelTypes, Tidy, TypeOK
<1> QED
  BY <1>1, ChannelInvInit, ChannelInvStep, PTL DEF Spec

(* Exactly once, in order, within capacity: for any number of lanes on     *)
(* either end, blocking, trying, timing out and closing as they like       *)
(* (channel.rs:133-213).                                                   *)
THEOREM InOrderHolds == Spec => []InOrder
<1>1. ChannelInv => InOrder
  BY Zenon DEF ChannelInv
<1> QED
  BY <1>1, ChannelInvInit, ChannelInvStep, PTL DEF Spec

-----------------------------------------------------------------------------
(* The kernel's channels implement BoundedFifo, for every set of lanes and *)
(* channels and every capacity.  The argument rests on ChannelInv: that    *)
(* the buffer holds exactly the messages between the last one received and *)
(* the last one sent is what turns "the buffer has room" into "fewer than  *)
(* Capacity are undelivered" and "the head of the buffer" into "the next   *)
(* message".                                                               *)

Shutness == [c \in Channel |-> chan[c].closed]

(* A step of one channel, seen through the refinement mapping.             *)
LEMMA FifoOfSent ==
    ASSUME ChannelInv, NEW c \in Channel, Sent(c), rcvd' = rcvd
    PROVE  Fifo!Accept(c)
<1>1. ~chan[c].closed /\ Len(chan[c].messages) < Capacity[c] /\ sent' = [sent EXCEPT ![c] = @ + 1]
  BY Zenon DEF Sent
<1>5. Len(chan[c].messages) \in Nat
  BY DEF ChannelInv, ChannelTypes, ChannelState
<1>2. rcvd[c] + Len(chan[c].messages) = sent[c] /\ rcvd[c] \in Nat /\ sent[c] \in Nat
  BY Zenon DEF ChannelInv, InOrder, ChannelTypes
<1>3. sent[c] - rcvd[c] < Capacity[c]
  BY <1>1, <1>2, <1>5, ChannelConstants
<1>4. Shutness' = Shutness
  BY SentEffect, Zenon DEF ChannelInv, OthersKept, Shutness
<1> QED
  BY <1>1, <1>3, <1>4, Zenon DEF Fifo!Accept, Shutness

LEMMA FifoOfTake ==
    ASSUME ChannelInv, NEW c \in Channel, TakeMessage(c)
    PROVE  Fifo!Deliver(c)
<1>1. chan[c].messages # << >> /\ chan[c].messages \in Seq(Nat) /\ sent' = sent
  BY ReceivedEffect, Zenon DEF ChannelInv, ChannelTypes, ChannelState, TakeMessage
<1>2. Len(chan[c].messages) \in Nat /\ Len(chan[c].messages) >= 1
      /\ Head(chan[c].messages) = chan[c].messages[1]
  BY <1>1
<1>3. rcvd[c] + Len(chan[c].messages) = sent[c] /\ rcvd[c] \in Nat /\ sent[c] \in Nat
  BY Zenon DEF ChannelInv, InOrder, ChannelTypes
<1>4. Head(chan[c].messages) = rcvd[c] + 1
  BY <1>2 DEF ChannelInv, InOrder
<1>5. rcvd' = [rcvd EXCEPT ![c] = rcvd[c] + 1]
  BY <1>4, Zenon DEF TakeMessage
<1>6. Shutness' = Shutness
  BY ReceivedEffect, Zenon DEF ChannelInv, OthersKept, Shutness, TakeMessage
<1> QED
  BY <1>1, <1>2, <1>3, <1>5, <1>6 DEF Fifo!Deliver, Shutness

LEMMA FifoOfClose ==
    ASSUME ChannelInv, NEW c \in Channel, close(c), rcvd' = rcvd
    PROVE  Fifo!Shut(c)
<1>1. /\ chan'[c].closed = TRUE /\ sent' = sent
      /\ \A d \in Channel \ {c} : chan'[d].closed = chan[d].closed
  <2>1. chan[c] \in ChannelState /\ chan'[c] \in ChannelState
    BY CloseEffect, Zenon DEF ChannelInv, ChannelTypes
  <2> QED
    BY <2>1, CloseEffect, Zenon DEF ChannelInv, OthersKept, ChannelState
<1>2. Shutness' = [Shutness EXCEPT ![c] = TRUE]
  BY <1>1, Zenon DEF Shutness
<1> QED
  BY <1>1, <1>2, Zenon DEF Fifo!Shut, Shutness

(* Parking at either end is invisible to the abstract queue.               *)
LEMMA FifoOfParking ==
    ASSUME ChannelInv, NEW c \in Channel, NEW l \in Lane, SendFull(l, c) \/ ParkedOnEmpty(l, c)
    PROVE  Shutness' = Shutness /\ sent' = sent
<1>1. CASE SendFull(l, c)
  BY <1>1, SendFullEffect, Zenon DEF ChannelInv, OthersKept, Shutness
<1>2. CASE ParkedOnEmpty(l, c)
  <2>1. sent' = sent
    BY <1>2, Zenon DEF ParkedOnEmpty
  <2> QED
    BY <1>2, <2>1, RecvEmptyEffect, Zenon DEF ChannelInv, OthersKept, Shutness
<1> QED
  BY <1>1, <1>2, Zenon

(* Every channel is a bounded first-in first-out queue to its two ends:    *)
(* each step of the kernel accepts a message where there is room, delivers *)
(* the next one, closes, or changes nothing that the ends can see          *)
(* (cibos-kernel/src/channel.rs:133-213).                                  *)
THEOREM KernelImplementsFifo == Spec => IsBoundedFifo
<1>1. Init => Fifo!FifoInit
  BY DEF Init, Fifo!FifoInit, NewChannel
<1>2. ASSUME ChannelInv, [Next]_vars
      PROVE  [Fifo!FifoNext]_<<sent, rcvd, Shutness>>
  <2>1. ChannelStep
    BY <1>2, EveryChannelStep, Zenon DEF ChannelInv, Base, ChannelTypes, Tidy, TypeOK
  <2>2. CASE UNCHANGED <<chan, sent, rcvd>>
    BY <2>2, Zenon DEF Shutness
  <2>3. ASSUME NEW c \in Channel, Sent(c), UNCHANGED rcvd PROVE Fifo!FifoNext
    BY <1>2, <2>3, FifoOfSent, Zenon DEF Fifo!FifoNext
  <2>4. ASSUME NEW c \in Channel, TakeMessage(c) PROVE Fifo!FifoNext
    BY <1>2, <2>4, FifoOfTake, Zenon DEF Fifo!FifoNext
  <2>5. ASSUME NEW c \in Channel, close(c), UNCHANGED rcvd PROVE Fifo!FifoNext
    BY <1>2, <2>5, FifoOfClose, Zenon DEF Fifo!FifoNext
  <2>6. ASSUME NEW c \in Channel, NEW l \in Lane, SendFull(l, c) \/ ParkedOnEmpty(l, c),
               UNCHANGED rcvd
        PROVE  UNCHANGED <<sent, rcvd, Shutness>>
    BY <1>2, <2>6, FifoOfParking, Zenon
  <2> QED
    BY <2>1, <2>2, <2>3, <2>4, <2>5, <2>6, Zenon DEF ChannelStep
<1>3. ChannelInv /\ [Next]_vars =>
        [Fifo!FifoNext]_<<sent, rcvd, [c \in Channel |-> chan[c].closed]>>
  BY <1>2, Zenon DEF Shutness
<1> QED
  BY <1>1, <1>3, ChannelInvInit, ChannelInvStep, PTL DEF Spec, IsBoundedFifo, Fifo!FifoSpec

-----------------------------------------------------------------------------
(* No lost wake-up.  A parked lane's claim to be woken is the waiter slot  *)
(* of its channel, so the invariant has to say that it holds that slot:    *)
(* that is what a second lane at the same end would take away.             *)
SlotHeld(l) ==
    /\ fut[l].k = "send" => chan[fut[l].ch].sender_waiter = l
    /\ fut[l].k \in {"recv", "timed"} => chan[fut[l].ch].receiver_waiter = l

WaitsWell(l) == Parked(l) => ~CanProceed(l) /\ TimerArmed(l) /\ SlotHeld(l)

(* A step gives the channel that l waits on no reason to serve l, and      *)
(* leaves l in its slot.                                                   *)
Unserved(l) ==
    LET before == chan[fut[l].ch]
        after == chan'[fut[l].ch]
    IN /\ fut[l].k \in {"send", "recv", "timed"} => (after.closed => before.closed)
       /\ fut[l].k = "send" =>
            /\ Len(after.messages) < Capacity[fut[l].ch] => Len(before.messages) < Capacity[fut[l].ch]
            /\ after.sender_waiter = before.sender_waiter
       /\ fut[l].k \in {"recv", "timed"} =>
            /\ after.messages # << >> => before.messages # << >>
            /\ after.receiver_waiter = before.receiver_waiter

(* A lane that takes no part in a step goes on waiting well if the step    *)
(* readies it, or else leaves its place and its channel as they were.      *)
LEMMA Bystander ==
    ASSUME NEW m \in Lane, WaitsWell(m), fut'[m] = fut[m], running # m,
           m \in batch => m \in batch',
           sched'.ready[m] = 0 => Same(sched, sched', m) /\ (Parked(m) => Unserved(m))
    PROVE  WaitsWell(m)'
<1> SUFFICES ASSUME Parked(m)' PROVE (~CanProceed(m) /\ TimerArmed(m) /\ SlotHeld(m))'
  BY Zenon DEF WaitsWell
<1>1. sched'.ready[m] = 0 /\ Same(sched, sched', m) /\ Parked(m)
  BY Zenon DEF Parked, InExecutor, Same
<1>2. ~CanProceed(m) /\ TimerArmed(m) /\ SlotHeld(m) /\ Unserved(m)
  BY <1>1, Zenon DEF WaitsWell
<1>3. ~CanProceed(m)'
  BY <1>2, Zenon DEF CanProceed, Unserved
<1>4. TimerArmed(m)'
  BY <1>1, <1>2, Zenon DEF TimerArmed, Same
<1>5. SlotHeld(m)'
  BY <1>2, Zenon DEF SlotHeld, Unserved
<1> QED
  BY <1>3, <1>4, <1>5, Zenon

(* The channel operations, for a lane m other than the one that runs.      *)
LEMMA SentBystander ==
    ASSUME Base, ChannelTypes, NEW c \in Channel, Sent(c), NEW m \in Lane, WaitsWell(m),
           sched'.ready[m] = 0
    PROVE  Same(sched, sched', m) /\ (Parked(m) => Unserved(m))
<1>0. /\ Tidy(sched) /\ chan[c].receiver_waiter \in Lane \cup {NoLane} /\ chan[c].messages \in Seq(Nat)
      /\ fut[m] \in Future
  BY Zenon DEF Base, ChannelTypes, ChannelState
<1>1. m # chan[c].receiver_waiter /\ Same(sched, sched', m)
  BY <1>0, WakeTidy, NoLaneIsNoLane DEF Sent
<1>2. ASSUME Parked(m) PROVE Unserved(m)
  <2>1. fut[m].k \in {"recv", "timed"} => fut[m].ch # c
    BY <1>1, <1>2, Zenon DEF WaitsWell, SlotHeld
  <2>2. fut[m].k \in {"send", "recv", "timed"} => fut[m].ch \in Channel
    BY <1>0, FutureFields, Zenon
  <2>3. Len(chan'[c].messages) = Len(chan[c].messages) + 1 /\ Len(chan[c].messages) \in Nat
    BY <1>0, SentEffect
  <2>4. Capacity[c] \in Nat
    BY ChannelConstants, Zenon
  <2> QED
    BY <2>1, <2>2, <2>3, <2>4, SentEffect, Zenon DEF Unserved, OthersKept
<1> QED
  BY <1>1, <1>2, Zenon

LEMMA ReceivedBystander ==
    ASSUME Base, ChannelTypes, NEW c \in Channel, Received(c), NEW m \in Lane, WaitsWell(m),
           sched'.ready[m] = 0
    PROVE  Same(sched, sched', m) /\ (Parked(m) => Unserved(m))
<1>0. Tidy(sched) /\ chan[c].sender_waiter \in Lane \cup {NoLane} /\ fut[m] \in Future
  BY Zenon DEF Base, ChannelTypes, ChannelState
<1>1. m # chan[c].sender_waiter /\ Same(sched, sched', m)
  <2>1. sched' = Wake(sched, chan[c].sender_waiter)
    BY Zenon DEF Received
  <2> QED
    BY <1>0, <2>1, WakeTidy, NoLaneIsNoLane
<1>2. ASSUME Parked(m) PROVE Unserved(m)
  <2>1. fut[m].k = "send" => fut[m].ch # c
    BY <1>1, <1>2, Zenon DEF WaitsWell, SlotHeld
  <2>2. fut[m].k \in {"send", "recv", "timed"} => fut[m].ch \in Channel
    BY <1>0, FutureFields, Zenon
  <2> QED
    BY <2>1, <2>2, ReceivedEffect, Zenon DEF Unserved, OthersKept
<1> QED
  BY <1>1, <1>2, Zenon

LEMMA CloseBystander ==
    ASSUME Base, ChannelTypes, NEW c \in Channel, close(c), NEW m \in Lane, WaitsWell(m),
           sched'.ready[m] = 0
    PROVE  Same(sched, sched', m) /\ (Parked(m) => Unserved(m))
<1> DEFINE r == chan[c].receiver_waiter
           w == chan[c].sender_waiter
           s1 == Wake(sched, r)
<1>0. Tidy(sched) /\ r \in Lane \cup {NoLane} /\ w \in Lane \cup {NoLane} /\ fut[m] \in Future
  BY Zenon DEF Base, ChannelTypes, ChannelState
<1>1. Tidy(s1) /\ (r # NoLane => s1.ready[r] = 1) /\ \A k \in Lane : k # r => Same(sched, s1, k)
  BY <1>0, WakeTidy, Zenon
<1>2. sched' = Wake(s1, w)
  BY Zenon DEF close
<1> HIDE DEF s1
<1>3. (w # NoLane => sched'.ready[w] = 1) /\ \A k \in Lane : k # w => Same(s1, sched', k)
  BY <1>0, <1>1, <1>2, WakeTidy, Zenon
<1>4. m # w /\ m # r
  BY <1>1, <1>3, NoLaneIsNoLane DEF Same
<1>5. Same(sched, sched', m)
  BY <1>1, <1>3, <1>4, Zenon DEF Same
<1>6. ASSUME Parked(m) PROVE Unserved(m)
  <2>1. fut[m].k \in {"send", "recv", "timed"} => fut[m].ch # c
    BY <1>4, <1>6, Zenon DEF WaitsWell, SlotHeld
  <2>2. fut[m].k \in {"send", "recv", "timed"} => fut[m].ch \in Channel
    BY <1>0, FutureFields, Zenon
  <2> QED
    BY <2>1, <2>2, CloseEffect, Zenon DEF Unserved, OthersKept
<1> QED
  BY <1>5, <1>6, Zenon

(* A lane l that parks takes the slot of its end.  Under PointToPoint no   *)
(* other lane m is waiting at that end.                                    *)
LEMMA ParkBystander ==
    ASSUME PointToPoint, Base, ChannelTypes, NEW c \in Channel, NEW l \in Lane,
           \/ SendFull(l, c) /\ l \in SendersOf[c]
           \/ ParkedOnEmpty(l, c) /\ l \in ReceiversOf[c],
           NEW m \in Lane \ {l}, WaitsWell(m)
    PROVE  Unserved(m)
<1>0. fut[m] \in Future
  BY Zenon DEF Base
<1>1. fut[m].k \in {"send", "recv", "timed"} => fut[m].ch \in Channel
  BY <1>0, FutureFields, Zenon
<1>2. CASE SendFull(l, c) /\ l \in SendersOf[c]
  <2>1. fut[m].k = "send" => fut[m].ch # c
    BY <1>2 DEF PointToPoint, Base, Ends
  <2> QED
    BY <1>1, <1>2, <2>1, SendFullEffect, Zenon DEF Unserved, OthersKept
<1>3. CASE ParkedOnEmpty(l, c) /\ l \in ReceiversOf[c]
  <2>1. fut[m].k \in {"recv", "timed"} => fut[m].ch # c
    BY <1>3 DEF PointToPoint, Base, Ends
  <2> QED
    BY <1>1, <1>3, <2>1, RecvEmptyEffect DEF Unserved, OthersKept
<1> QED
  BY <1>2, <1>3, Zenon

LEMMA SchedulerBystander ==
    ASSUME UNCHANGED chan, NEW m \in Lane PROVE Unserved(m)
BY Zenon DEF Unserved

(* The same for any channel operation of the running lane l.               *)
LEMMA OpBystander ==
    ASSUME PointToPoint, Base, ChannelTypes, NEW c \in Channel, NEW l \in Lane,
           \/ Sent(c) \/ Received(c) \/ close(c) \/ SendClosed(c) \/ SendTooLarge(c) \/ RecvClosed(c)
           \/ SendFull(l, c) /\ l \in SendersOf[c]
           \/ RecvEmpty(l, c) /\ l \in ReceiversOf[c],
           NEW m \in Lane \ {l}, WaitsWell(m), fut'[m] = fut[m], running = l, batch' = batch
    PROVE  WaitsWell(m)'
<1>0. /\ running # m /\ Tidy(sched)
      /\ ChannelData(c) \in WaitResource /\ ChannelBuffer(c) \in WaitResource
  BY Zenon DEF Base, WaitResource
<1>1. CASE Sent(c)
  BY <1>0, <1>1, SentBystander, Bystander, Zenon
<1>2. CASE Received(c)
  BY <1>0, <1>2, ReceivedBystander, Bystander, Zenon
<1>3. CASE close(c)
  BY <1>0, <1>3, CloseBystander, Bystander, Zenon
<1>4. CASE SendClosed(c) \/ SendTooLarge(c) \/ RecvClosed(c)
  <2>1. sched' = sched /\ chan' = chan
    BY <1>4, Zenon DEF SendClosed, SendTooLarge, RecvClosed
  <2> QED
    BY <1>0, <2>1, SchedulerBystander, Bystander, Zenon DEF Same
<1>5. CASE SendFull(l, c) /\ l \in SendersOf[c]
  <2>1. Unserved(m)
    BY <1>5, ParkBystander, Zenon
  <2>2. Same(sched, sched', m)
    BY <1>0, <1>5, RegisterWaitTidy, Zenon DEF SendFull
  <2> QED
    BY <1>0, <2>1, <2>2, Bystander, Zenon
<1>6. CASE RecvEmpty(l, c) /\ l \in ReceiversOf[c]
  <2>1. Unserved(m)
    BY <1>6, ParkBystander, Zenon DEF RecvEmpty, ParkedOnEmpty
  <2>2. Same(sched, sched', m)
    BY <1>0, <1>6, RegisterWaitTidy, Zenon DEF RecvEmpty
  <2> QED
    BY <1>0, <2>1, <2>2, Bystander, Zenon
<1> QED
  BY <1>1, <1>2, <1>3, <1>4, <1>5, <1>6, Zenon

WaitInv == ChannelInv /\ \A l \in Lane : WaitsWell(l)

(* The steps of the host and of the kernel loop.                           *)
LEMMA LoopWaits ==
    ASSUME WaitInv, NEW m \in Lane,
           \/ \E l \in Lane : InstallSpawn(l) \/ RefuseSpawn(l) \/ PollLane(l) \/ PollNotFound(l)
           \/ EnterRun \/ RunIdle \/ (\E d \in Duration : advance_and_run(d))
           \/ \E b \in SUBSET Lane : Dispatch(b)
    PROVE  WaitsWell(m)'
<1>0. /\ Tidy(sched) /\ WaitsWell(m) /\ fut \in [Lane -> Future] /\ "User" \in WeightClass
  BY Zenon DEF WaitInv, ChannelInv, Base, WeightClass
<1>1. ASSUME NEW l \in Lane, InstallSpawn(l) PROVE WaitsWell(m)'
  <2>1. Tidy(signal_ready(sched, l)) /\ sched'.ready[l] = 1 /\ \A k \in Lane \ {l} : Same(sched, sched', k)
    <3> DEFINE s1 == signal_ready(sched, l)
    <3>1. Tidy(s1) /\ s1.ready[l] = 1 /\ \A k \in Lane \ {l} : Same(sched, s1, k)
      BY <1>0, SignalReadyTidy, Zenon
    <3>2. sched' = register_lane(s1, l, "User")
      BY <1>1, Zenon DEF InstallSpawn
    <3> HIDE DEF s1
    <3>3. \A k \in Lane : Same(s1, sched', k)
      BY <1>0, <3>1, <3>2, RegisterLaneTidy, Zenon
    <3> QED
      BY <3>1, <3>3, Zenon DEF Same, s1
  <2>2. CASE m = l
    BY <2>1, <2>2 DEF WaitsWell, Parked
  <2>3. CASE m # l
    <3>1. WaitsWell(m) /\ fut'[m] = fut[m] /\ UNCHANGED <<chan, batch, running>>
      BY <1>0, <1>1, <2>3, Zenon DEF InstallSpawn
    <3>2. Same(sched, sched', m)
      BY <2>1, <2>3, Zenon
    <3> QED
      BY <3>1, <3>2, Zenon DEF WaitsWell, Parked, InExecutor, Same, CanProceed, TimerArmed, SlotHeld
  <2> QED
    BY <2>2, <2>3, Zenon
<1>2. ASSUME NEW l \in Lane, RefuseSpawn(l) PROVE WaitsWell(m)'
  <2>1. CASE m = l
    BY <1>0, <1>2, <2>1, Zenon DEF RefuseSpawn, WaitsWell, Parked, InExecutor, Done
  <2>2. CASE m # l
    BY <1>0, <1>2, <2>2, Zenon DEF RefuseSpawn, WaitsWell, Parked, InExecutor, CanProceed, TimerArmed, SlotHeld
  <2> QED
    BY <2>1, <2>2, Zenon
<1>3. ASSUME NEW l \in Lane, PollLane(l) PROVE WaitsWell(m)'
  <2>1. Parked(m)' => Parked(m)
    BY <1>3, NoLaneIsNoLane, Zenon DEF PollLane, Parked, InExecutor
  <2>2. UNCHANGED <<fut, sched, chan>>
    BY <1>3, Zenon DEF PollLane
  <2> QED
    BY <1>0, <2>1, <2>2, Zenon DEF WaitsWell, CanProceed, TimerArmed, SlotHeld
<1>4. ASSUME NEW l \in Lane, PollNotFound(l) PROVE WaitsWell(m)'
  <2>1. CASE m = l
    BY <1>4, <2>1, Zenon DEF PollNotFound, WaitsWell, Parked, InExecutor
  <2>2. CASE m # l
    <3>1. Same(sched, sched', m)
      BY <1>0, <1>4, <2>2, NotifyCompleteTidy, Zenon DEF PollNotFound
    <3>2. UNCHANGED <<fut, chan, running>> /\ (m \in batch => m \in batch') /\ running # m
      BY <1>4, <2>2, NoLaneIsNoLane, Zenon DEF PollNotFound
    <3> QED
      BY <1>0, <3>1, <3>2, SchedulerBystander, Bystander, Zenon
  <2> QED
    BY <2>1, <2>2, Zenon
<1>5. CASE EnterRun
  BY <1>0, <1>5, Zenon DEF EnterRun, WaitsWell, Parked, InExecutor, CanProceed, TimerArmed, SlotHeld
<1>6. ASSUME UNCHANGED <<fut, chan, batch, running>>, NEW t \in Time, sched' = ReleaseMatured(sched, t)
      PROVE  WaitsWell(m)'
  <2>1. sched'.ready[m] = 1 \/ Same(sched, sched', m)
    BY <1>0, <1>6, ReleaseMaturedTidy, Zenon
  <2> QED
    BY <1>0, <1>6, <2>1 DEF WaitsWell, Parked, InExecutor, Same, CanProceed, TimerArmed, SlotHeld
<1>7. CASE RunIdle
  <2>1. UNCHANGED <<fut, chan, batch, running>>
    BY <1>7, Zenon DEF RunIdle
  <2>2. CASE sched' = sched
    BY <1>0, <2>1, <2>2, Zenon DEF WaitsWell, Parked, InExecutor, CanProceed, TimerArmed, SlotHeld
  <2>3. CASE \E l \in Lane : IsEarliest(sched, l) /\ sched' = advance_to_next_timer(sched, l)
    BY <1>0, <1>6, <2>1, <2>3, AdvanceToNextTimerReleases, Zenon DEF IsEarliest, TimerLanes
  <2> QED
    BY <1>7, <2>2, <2>3, Zenon DEF RunIdle
<1>8. ASSUME NEW d \in Duration, advance_and_run(d) PROVE WaitsWell(m)'
  BY <1>0, <1>6, <1>8, KernelConstants, AdvanceClockReleases, Zenon DEF advance_and_run
<1>9. ASSUME NEW b \in SUBSET Lane, Dispatch(b) PROVE WaitsWell(m)'
  <2>1. \A k \in Lane \ b : Same(sched, sched', k)
    BY <1>0, <1>9, TakeDispatchBatchTidy, Zenon DEF Dispatch
  <2>2. UNCHANGED <<fut, chan, running>> /\ batch' = b /\ batch = {}
    BY <1>9, Zenon DEF Dispatch
  <2> QED
    BY <1>0, <2>1, <2>2, Zenon DEF WaitsWell, Parked, InExecutor, Same, CanProceed, TimerArmed, SlotHeld
<1> QED
  BY <1>1, <1>2, <1>3, <1>4, <1>5, <1>7, <1>8, <1>9, Zenon

(* The steps of the running lane.                                          *)
LEMMA LaneWaits ==
    ASSUME PointToPoint, WaitInv, NEW l \in Lane, LaneStep(l), NEW m \in Lane
    PROVE  WaitsWell(m)'
<1> USE DEF Ready, Pending
<1>0. /\ Base /\ ChannelTypes /\ Tidy(sched) /\ fut \in [Lane -> Future] /\ l # NoLane
      /\ WaitsWell(m) /\ Ends
  BY NoLaneIsNoLane, Zenon DEF WaitInv, ChannelInv, Base
(* A lane that is still inside poll is not parked.                         *)
<1>1. ASSUME running' = l, m = l PROVE WaitsWell(m)'
  BY <1>1, Zenon DEF WaitsWell, Parked
<1>2. CASE Await(l)
  <2>1. UNCHANGED <<sched, chan, batch, running>> /\ running = l /\ \A k \in Lane \ {l} : fut'[k] = fut[k]
    BY <1>0, <1>2, Zenon DEF Await
  <2> QED
    BY <1>0, <1>1, <2>1, Zenon DEF WaitsWell, Parked, InExecutor, CanProceed, TimerArmed, SlotHeld
<1>3. CASE PollSend(l)
  <2> DEFINE c == fut[l].ch
  <2>1. /\ c \in Channel /\ l \in SendersOf[c] /\ running = l /\ batch' = batch /\ fut[l].k = "send"
        /\ \A k \in Lane \ {l} : fut'[k] = fut[k]
    BY <1>0, <1>3, FutureFields, Zenon DEF PollSend, Ends
  <2>2. CASE m # l
    <3>1. Sent(c) \/ SendClosed(c) \/ SendTooLarge(c) \/ SendFull(l, c)
      BY <1>3, Zenon DEF PollSend
    <3> QED
      BY <1>0, <2>1, <2>2, <3>1, OpBystander, Zenon
  <2>3. CASE m = l /\ SendFull(l, c) /\ ~fut[l].big /\ fut' = fut
    <3>1. ~CanProceed(l)'
      BY <1>0, <2>1, <2>3, SendFullEffect, ChannelConstants DEF CanProceed, ChannelTypes, ChannelState
    <3> QED
      BY <1>0, <2>1, <2>3, <3>1, SendFullEffect, Zenon DEF WaitsWell, TimerArmed, SlotHeld
  <2>4. CASE m = l /\ running' = l
    BY <1>1, <2>4, Zenon
  <2>5. [fut EXCEPT ![l] = fut[l]] = fut
    BY <1>0, Zenon
  <2> QED
    BY <1>3, <2>1, <2>2, <2>3, <2>4, <2>5, Zenon DEF PollSend
<1>4. CASE PollRecv(l)
  <2> DEFINE c == fut[l].ch
  <2>1. /\ c \in Channel /\ l \in ReceiversOf[c] /\ running = l /\ batch' = batch /\ fut[l].k = "recv"
        /\ \A k \in Lane \ {l} : fut'[k] = fut[k]
    BY <1>0, <1>4, FutureFields, Zenon DEF PollRecv, Ends
  <2>2. CASE m # l
    <3>1. Received(c) \/ RecvClosed(c) \/ RecvEmpty(l, c)
      BY <1>4, Zenon DEF PollRecv, TakeMessage
    <3> QED
      BY <1>0, <2>1, <2>2, <3>1, OpBystander, Zenon
  <2>3. CASE m = l /\ RecvEmpty(l, c) /\ fut' = fut
    <3>1. ParkedOnEmpty(l, c)
      BY <2>3, Zenon DEF RecvEmpty, ParkedOnEmpty
    <3>2. ~CanProceed(l)'
      BY <1>0, <2>1, <2>3, <3>1, RecvEmptyEffect, Zenon DEF CanProceed, ParkedOnEmpty
    <3> QED
      BY <1>0, <2>1, <2>3, <3>1, <3>2, RecvEmptyEffect, Zenon DEF WaitsWell, TimerArmed, SlotHeld
  <2>4. CASE m = l /\ running' = l
    BY <1>1, <2>4, Zenon
  <2>5. [fut EXCEPT ![l] = fut[l]] = fut
    BY <1>0, Zenon
  <2> QED
    BY <1>4, <2>1, <2>2, <2>3, <2>4, <2>5, Zenon DEF PollRecv
(* A step that only calls the scheduler about l leaves m where it is.      *)
<1>5. ASSUME m # l, running = l, UNCHANGED <<chan, batch>>, fut'[m] = fut[m], Same(sched, sched', m)
      PROVE  WaitsWell(m)'
  BY <1>0, <1>5, SchedulerBystander, Bystander, Zenon
<1>6. CASE PollYield(l)
  <2>1. /\ running = l /\ UNCHANGED <<chan, batch>> /\ \A k \in Lane \ {l} : fut'[k] = fut[k]
        /\ \A k \in Lane \ {l} : Same(sched, sched', k)
    <3>1. sched' = sched \/ sched' = signal_ready(sched, l)
      BY <1>6, Zenon DEF PollYield
    <3>2. running = l /\ UNCHANGED <<chan, batch>> /\ \A k \in Lane \ {l} : fut'[k] = fut[k]
      BY <1>0, <1>6, Zenon DEF PollYield
    <3> QED
      BY <1>0, <3>1, <3>2, SignalReadyTidy DEF Same
  <2>2. running' = l \/ sched'.ready[l] = 1
    <3>1. running' = l \/ sched' = signal_ready(sched, l)
      BY <1>6, Zenon DEF PollYield
    <3> QED
      BY <1>0, <3>1, SignalReadyTidy
  <2> QED
    BY <1>1, <1>5, <2>1, <2>2 DEF WaitsWell, Parked
<1>7. CASE PollSleep(l)
  <2>1. Timer(fut[l].deadline) \in WaitResource
    BY <1>0, <1>7, FutureFields, TimerIsResource, Zenon DEF PollSleep
  <2>2. CASE fut[l].armed /\ Ready(l, "ok") /\ UNCHANGED sched
    <3>1. running' = l /\ running = l /\ UNCHANGED <<chan, batch>> /\ \A k \in Lane \ {l} : fut'[k] = fut[k]
      BY <1>0, <1>7, <2>2, Zenon DEF PollSleep
    <3> QED
      BY <1>1, <1>5, <2>2, <3>1, Zenon DEF Same
  <2>3. CASE /\ Pending(l, Sleep(fut[l].deadline, TRUE))
             /\ sched' = register_wait(sched, l, Timer(fut[l].deadline))
    <3>1. /\ running = l /\ UNCHANGED <<chan, batch>> /\ \A k \in Lane \ {l} : fut'[k] = fut[k]
          /\ fut'[l] = Sleep(fut[l].deadline, TRUE)
      BY <1>0, <1>7, <2>3, Zenon DEF PollSleep
    <3>2. sched'.stalled[l] = Timer(fut[l].deadline) /\ \A k \in Lane \ {l} : Same(sched, sched', k)
      BY <1>0, <2>1, <2>3, RegisterWaitTidy
    <3>3. WaitsWell(l)'
      BY <3>1, <3>2 DEF WaitsWell, CanProceed, TimerArmed, SlotHeld, Sleep
    <3> QED
      BY <1>5, <3>1, <3>2, <3>3, Zenon
  <2> QED
    BY <1>7, <2>2, <2>3, Zenon DEF PollSleep
<1>8. CASE PollTimed(l)
  <2> DEFINE f == fut[l]
             c == f.ch
  <2>1. /\ c \in Channel /\ l \in ReceiversOf[c] /\ running = l /\ batch' = batch
        /\ f.deadline \in Time /\ \A k \in Lane \ {l} : fut'[k] = fut[k]
    BY <1>0, <1>8, FutureFields, Zenon DEF PollTimed, Ends
  <2>2. CASE RecvEmptyUntil(l, c, f.deadline) /\ Pending(l, Timed(c, f.left, f.deadline, TRUE))
    <3> DEFINE s1 == register_wait(sched, l, ChannelData(c))
    <3>1. ParkedOnEmpty(l, c) /\ sched' = register_wait(s1, l, Timer(f.deadline))
      BY <2>2, Zenon DEF RecvEmptyUntil, ParkedOnEmpty
    <3>2. Tidy(s1) /\ \A k \in Lane \ {l} : Same(sched, s1, k)
      <4>1. ChannelData(c) \in WaitResource
        BY <2>1, Zenon DEF WaitResource
      <4> QED
        BY <1>0, <4>1, RegisterWaitTidy, Zenon
    <3> HIDE DEF s1
    <3>3. sched'.stalled[l] = Timer(f.deadline) /\ \A k \in Lane \ {l} : Same(s1, sched', k)
      <4>1. Timer(f.deadline) \in WaitResource
        BY <2>1, TimerIsResource, Zenon
      <4> HIDE DEF f
      <4> QED
        BY <3>1, <3>2, <4>1, RegisterWaitTidy
    <3>4. \A k \in Lane \ {l} : Same(sched, sched', k)
      BY <3>2, <3>3, Zenon DEF Same
    <3>5. CASE m # l
      <4>1. Unserved(m)
        BY <1>0, <2>1, <3>1, <3>5, ParkBystander, Zenon
      <4> QED
        BY <1>0, <2>1, <3>4, <3>5, <4>1, Bystander, Zenon
    <3>6. CASE m = l
      <4>1. /\ fut'[l] = Timed(c, f.left, f.deadline, TRUE)
            /\ chan'[c].receiver_waiter = l /\ chan'[c].messages = << >> /\ ~chan'[c].closed
        BY <1>0, <2>1, <2>2, <3>1, RecvEmptyEffect, Zenon DEF ParkedOnEmpty
      <4> QED
        BY <3>3, <3>6, <4>1 DEF WaitsWell, CanProceed, TimerArmed, SlotHeld, Timed
    <3> QED
      BY <3>5, <3>6, Zenon
  <2>3. CASE /\ Received(c) \/ RecvClosed(c) \/ RecvEmpty(l, c)
             /\ running' = l
    BY <1>0, <1>1, <2>1, <2>3, OpBystander, Zenon
  <2> QED
    BY <1>8, <2>1, <2>2, <2>3, Zenon DEF PollTimed, TakeMessage
<1>9. ASSUME NEW c \in Channel, TrySend(l, c) PROVE WaitsWell(m)'
  <2>1. /\ l \in SendersOf[c] /\ running = l /\ running' = l /\ batch' = batch
        /\ \A k \in Lane \ {l} : fut'[k] = fut[k]
        /\ Sent(c) \/ SendFull(l, c) \/ SendClosed(c)
    BY <1>0, <1>9, Zenon DEF TrySend
  <2> QED
    BY <1>0, <1>1, <2>1, OpBystander, Zenon
<1>10. ASSUME NEW c \in Channel, TryReceive(l, c) PROVE WaitsWell(m)'
  <2>1. /\ l \in ReceiversOf[c] /\ running = l /\ running' = l /\ batch' = batch
        /\ \A k \in Lane \ {l} : fut'[k] = fut[k]
        /\ Received(c) \/ RecvEmpty(l, c) \/ RecvClosed(c)
    BY <1>0, <1>10, Zenon DEF TryReceive, TakeMessage
  <2> QED
    BY <1>0, <1>1, <2>1, OpBystander, Zenon
<1>11. ASSUME NEW c \in Channel, Close(l, c) PROVE WaitsWell(m)'
  <2>1. running = l /\ running' = l /\ batch' = batch /\ fut' = fut /\ close(c)
    BY <1>11, Zenon DEF Close
  <2> QED
    BY <1>0, <1>1, <2>1, OpBystander, Zenon
<1>12. ASSUME NEW child \in Lane, Spawn(l, child) PROVE WaitsWell(m)'
  <2>1. CASE m = child
    BY <1>0, <1>12, <2>1, Zenon DEF Spawn, WaitsWell, Parked, InExecutor, Queued
  <2>2. CASE m # child
    BY <1>0, <1>12, <2>2, Zenon DEF Spawn, WaitsWell, Parked, InExecutor, CanProceed, TimerArmed, SlotHeld
  <2> QED
    BY <2>1, <2>2, Zenon
<1>13. CASE Complete(l)
  <2>1. CASE m = l
    BY <1>0, <1>13, <2>1, Zenon DEF Complete, WaitsWell, Parked, InExecutor, Done
  <2>2. CASE m # l
    BY <1>0, <1>5, <1>13, <2>2, NotifyCompleteTidy, Zenon DEF Complete
  <2> QED
    BY <2>1, <2>2, Zenon
<1> QED
  BY <1>2, <1>3, <1>4, <1>6, <1>7, <1>8, <1>9, <1>10, <1>11, <1>12, <1>13, Zenon DEF LaneStep

LEMMA WaitInvInit == Init => WaitInv
<1> SUFFICES ASSUME Init, NEW l \in Lane PROVE WaitsWell(l)
  BY ChannelInvInit, Zenon DEF WaitInv
<1> QED
  BY Zenon DEF Init, WaitsWell, Parked, InExecutor, Queued, Absent

LEMMA WaitInvStep == ASSUME PointToPoint PROVE WaitInv /\ [Next]_vars => WaitInv'
<1> SUFFICES ASSUME WaitInv, [Next]_vars PROVE WaitInv'
  OBVIOUS
<1>1. ChannelInv'
  BY ChannelInvStep, Zenon DEF WaitInv
<1>2. CASE UNCHANGED vars
  <2>1. \A m \in Lane : WaitsWell(m)'
    BY <1>2, Zenon DEF WaitInv, vars, WaitsWell, Parked, InExecutor, CanProceed, TimerArmed, SlotHeld
  <2> QED
    BY <1>1, <2>1, Zenon DEF WaitInv
<1>3. CASE Next
  <2>1. \A m \in Lane : WaitsWell(m)'
    BY <1>3, LoopWaits, LaneWaits, Zenon DEF Next
  <2> QED
    BY <1>1, <2>1, Zenon DEF WaitInv
<1> QED
  BY <1>2, <1>3, Zenon

(* With one lane at each end of a channel, a lane that waits for a wake-up *)
(* can never already be served, and its timer, if it has one, is set: for  *)
(* any number of lanes, channels, contexts, capacities and deadlines, with *)
(* timeouts, non-blocking attempts and closing (channel.rs:9-12, 199-200). *)
THEOREM NoLostWakeupHolds == ASSUME PointToPoint PROVE Spec => []NoLostWakeup
<1>1. WaitInv => NoLostWakeup
  BY Zenon DEF WaitInv, WaitsWell, NoLostWakeup
<1>2. WaitInv /\ [Next]_vars => WaitInv'
  BY WaitInvStep, Zenon
<1> QED
  BY <1>1, <1>2, WaitInvInit, PTL DEF Spec

(* What the host has seen when it returns from run().                      *)
Stopped ==
    host = "stopped" =>
       /\ running = NoLane /\ batch = {} /\ ~SpawnsPending
       /\ ~has_ready(sched) /\ TimerLanes(sched) = {}

LEMMA StoppedStep == Base /\ Stopped /\ [Next]_vars => Stopped'
<1> SUFFICES ASSUME Base, Stopped, [Next]_vars, host' = "stopped" PROVE Stopped'
  BY Zenon DEF Stopped
<1>1. CASE RunIdle
  BY <1>1, Zenon DEF RunIdle, Stopped, SpawnsPending, TimerLanes, has_ready, ReadyLanes
<1>2. CASE UNCHANGED vars
  BY <1>2, Zenon DEF vars, Stopped, SpawnsPending, TimerLanes, has_ready, ReadyLanes
<1>3. ASSUME NEW l \in Lane, InstallSpawn(l) \/ RefuseSpawn(l) \/ PollLane(l) \/ PollNotFound(l)
      PROVE  FALSE
  BY <1>3, Zenon DEF InstallSpawn, RefuseSpawn, PollLane, PollNotFound, Stopped
<1>4. CASE EnterRun \/ (\E d \in Duration : advance_and_run(d)) \/ \E b \in SUBSET Lane : Dispatch(b)
  BY <1>4, Zenon DEF EnterRun, advance_and_run, Dispatch, Stopped
<1>5. ASSUME NEW l \in Lane, LaneStep(l) PROVE FALSE
  <2>1. running = l /\ host' = host
    BY <1>5, Zenon DEF LaneStep, Await, PollSend, PollRecv, PollYield, PollSleep, PollTimed, TrySend,
                TryReceive, Close, Spawn, Complete
  <2> QED
    BY <2>1, NoLaneIsNoLane, Zenon DEF Stopped
<1> QED
  BY <1>1, <1>2, <1>3, <1>4, <1>5, Zenon DEF Next

(* run() returns only when the application is idle: every lane left waits  *)
(* on a channel that cannot serve it (app.rs:103-112), under the same      *)
(* condition as the wake-ups it rests on.                                  *)
THEOREM StoppedIsIdleHolds == ASSUME PointToPoint PROVE Spec => []StoppedIsIdle
<1>1. WaitInv /\ Stopped => StoppedIsIdle
  <2> SUFFICES ASSUME WaitInv, Stopped, host = "stopped", NEW l \in Lane
               PROVE  fut[l] # Queued /\ (InExecutor(l) => fut[l].k \in {"send", "recv"} /\ ~CanProceed(l))
    BY Zenon DEF StoppedIsIdle
  <2>1. fut[l] # Queued
    BY Zenon DEF Stopped, SpawnsPending
  <2>2. ASSUME InExecutor(l) PROVE fut[l].k \in {"send", "recv"} /\ ~CanProceed(l)
    <3>1. fut[l] \in Future /\ Tidy(sched) /\ WaitsWell(l)
      BY Zenon DEF WaitInv, ChannelInv, Base
    <3>2. Parked(l)
      BY <2>2, <3>1, NoLaneIsNoLane DEF Parked, Stopped, has_ready, ReadyLanes, Tidy, SchedulerState
    <3>3. ~CanProceed(l) /\ TimerArmed(l)
      BY <3>1, <3>2, Zenon DEF WaitsWell
    <3>4. fut[l].k \notin {"sleep", "timed"}
      BY <3>3 DEF Stopped, TimerArmed, TimerLanes, IsTimer, Timer
    <3>5. fut[l].k \notin {"run", "yield"}
      BY <3>3, Zenon DEF CanProceed
    <3> QED
      BY <2>2, <3>1, <3>3, <3>4, <3>5, FutureFields, Zenon DEF InExecutor
  <2> QED
    BY <2>1, <2>2, Zenon
<1>2. WaitInv /\ [Next]_vars => WaitInv'
  BY WaitInvStep, Zenon
<1>3. WaitInv => Base
  BY Zenon DEF WaitInv, ChannelInv
<1>4. Init => Stopped
  BY Zenon DEF Init, Stopped
<1> QED
  BY <1>1, <1>2, <1>3, <1>4, StoppedStep, WaitInvInit, PTL DEF Spec
=============================================================================
