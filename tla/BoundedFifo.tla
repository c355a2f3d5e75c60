---------------------------- MODULE BoundedFifo ----------------------------
(* What a channel promises its two ends (cibos-kernel/src/channel.rs:1-12), *)
(* without the buffer, the waiters or the scheduler that provide it:        *)
(* messages are numbered as they are accepted, at most Capacity of them are *)
(* undelivered, the next one delivered is always the next number, and       *)
(* closing stops acceptance for good while what was accepted can still be   *)
(* taken.                                                                   *)
EXTENDS Integers

CONSTANTS Channel, Capacity

VARIABLES
    accepted,    \* accepted[c]: the number of messages c has accepted
    delivered,   \* delivered[c]: the last message c has delivered
    shut         \* shut[c]: c has been closed

FifoInit ==
    /\ accepted = [c \in Channel |-> 0] /\ delivered = [c \in Channel |-> 0]
    /\ shut = [c \in Channel |-> FALSE]

Accept(c) ==
    /\ ~shut[c] /\ accepted[c] - delivered[c] < Capacity[c]
    /\ accepted' = [accepted EXCEPT ![c] = @ + 1]
    /\ UNCHANGED <<delivered, shut>>

Deliver(c) ==
    /\ delivered[c] < accepted[c]
    /\ delivered' = [delivered EXCEPT ![c] = @ + 1]
    /\ UNCHANGED <<accepted, shut>>

Shut(c) ==
    /\ shut' = [shut EXCEPT ![c] = TRUE]
    /\ UNCHANGED <<accepted, delivered>>

FifoNext == \E c \in Channel : Accept(c) \/ Deliver(c) \/ Shut(c)

FifoSpec == FifoInit /\ [][FifoNext]_<<accepted, delivered, shut>>
=============================================================================
