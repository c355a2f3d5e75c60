------------------------------ MODULE Channels ------------------------------
(***************************************************************************)
(* Kernel channels (cibos-kernel/src/channel.rs): bounded queues of copied *)
(* messages whose ends park through the scheduler.  Each outcome of        *)
(* try_send, try_recv and close is an action on the channel and on the     *)
(* scheduler it signals.                                                   *)
(*                                                                         *)
(* The code decides under the channel's lock and calls the scheduler after *)
(* releasing it.  Every execution context of this code base is one         *)
(* cooperative thread (the executor, or the ring-3 loop on one CPU), so    *)
(* nothing runs in that gap and an operation is one step.                  *)
(*                                                                         *)
(* A message is its sequence number on its channel: what was sent is told  *)
(* apart from what is received by the order of arrival alone.              *)
(***************************************************************************)
EXTENDS SchedulerOps, Sequences

CONSTANTS Capacity   \* buffer_capacity of each channel, from its ChannelTerms

(* ChannelTerms::new refuses a capacity of zero.                           *)
ASSUME ChannelConstants == Capacity \in [Channel -> Nat \ {0}]

VARIABLES
    sched,   \* the scheduler
    chan,    \* the state of each channel
    sent     \* sent[c]: how many messages have been accepted on c

NoLane == "none"   \* an empty waiter slot
ASSUME NoLaneIsNoLane == NoLane \notin Lane

ChannelState ==
    [messages : Seq(Nat), receiver_waiter : Lane \cup {NoLane},
     sender_waiter : Lane \cup {NoLane}, closed : BOOLEAN]

NewChannel == [messages |-> << >>, receiver_waiter |-> NoLane,
               sender_waiter |-> NoLane, closed |-> FALSE]

(* signal_ready for the lane in a waiter slot, if there is one.            *)
Wake(s, waiter) == IF waiter = NoLane THEN s ELSE signal_ready(s, waiter)
-----------------------------------------------------------------------------
(* try_send.                                                               *)
SendClosed(c) == chan[c].closed /\ UNCHANGED <<sched, chan, sent>>

SendTooLarge(c) == ~chan[c].closed /\ UNCHANGED <<sched, chan, sent>>

(* Mutants: a send that wakes nobody; one that fills one slot too many.    *)
Sent_NoWake(c) ==
    /\ ~chan[c].closed /\ Len(chan[c].messages) < Capacity[c]
    /\ chan' = [chan EXCEPT ![c].messages = Append(@, sent[c] + 1)]
    /\ sent' = [sent EXCEPT ![c] = @ + 1]
    /\ UNCHANGED sched
Sent_OneMore(c) ==
    /\ ~chan[c].closed /\ Len(chan[c].messages) <= Capacity[c]
    /\ chan' = [chan EXCEPT ![c].messages = Append(@, sent[c] + 1), ![c].receiver_waiter = NoLane]
    /\ sent' = [sent EXCEPT ![c] = @ + 1]
    /\ sched' = Wake(sched, chan[c].receiver_waiter)

Sent(c) ==
    /\ ~chan[c].closed
    /\ Len(chan[c].messages) < Capacity[c]
    /\ chan' = [chan EXCEPT ![c].messages = Append(chan[c].messages, sent[c] + 1),
                            ![c].receiver_waiter = NoLane]
    /\ sent' = [sent EXCEPT ![c] = @ + 1]
    /\ sched' = Wake(sched, chan[c].receiver_waiter)

SendFull(l, c) ==
    /\ ~chan[c].closed
    /\ Len(chan[c].messages) >= Capacity[c]
    /\ chan' = [chan EXCEPT ![c].sender_waiter = l]
    /\ sched' = register_wait(sched, l, ChannelBuffer(c))
    /\ UNCHANGED sent
-----------------------------------------------------------------------------
(* try_recv.  The message received is Head(chan[c].messages).              *)
(* Mutant: the sender's slot is cleared and the sender is not signalled.   *)
Received_NoWake(c) ==
    /\ chan[c].messages # << >>
    /\ chan' = [chan EXCEPT ![c].messages = Tail(chan[c].messages), ![c].sender_waiter = NoLane]
    /\ UNCHANGED <<sched, sent>>

Received(c) ==
    /\ chan[c].messages # << >>
    /\ chan' = [chan EXCEPT ![c].messages = Tail(chan[c].messages), ![c].sender_waiter = NoLane]
    /\ sched' = Wake(sched, chan[c].sender_waiter)
    /\ UNCHANGED sent

RecvClosed(c) ==
    chan[c].messages = << >> /\ chan[c].closed /\ UNCHANGED <<sched, chan, sent>>

RecvEmpty(l, c) ==
    /\ chan[c].messages = << >> /\ ~chan[c].closed
    /\ chan' = [chan EXCEPT ![c].receiver_waiter = l]
    /\ sched' = register_wait(sched, l, ChannelData(c))
    /\ UNCHANGED sent

(* An empty receive whose poll goes on to register a timer for the lane.   *)
RecvEmptyUntil(l, c, deadline) ==
    /\ chan[c].messages = << >> /\ ~chan[c].closed
    /\ chan' = [chan EXCEPT ![c].receiver_waiter = l]
    /\ sched' = register_wait(register_wait(sched, l, ChannelData(c)), l, Timer(deadline))
    /\ UNCHANGED sent
-----------------------------------------------------------------------------
(* Mutant: closing wakes the receiver only.                                *)
close_ReceiverOnly(c) ==
    /\ chan' = [chan EXCEPT ![c].closed = TRUE, ![c].receiver_waiter = NoLane]
    /\ sched' = Wake(sched, chan[c].receiver_waiter)
    /\ UNCHANGED sent

close(c) ==
    /\ chan' = [chan EXCEPT ![c].closed = TRUE, ![c].receiver_waiter = NoLane,
                            ![c].sender_waiter = NoLane]
    /\ sched' = Wake(Wake(sched, chan[c].receiver_waiter), chan[c].sender_waiter)
    /\ UNCHANGED sent
=============================================================================
