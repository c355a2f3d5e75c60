------------------------------ MODULE MCKernel ------------------------------
(* Instances of the kernel loop: one channel between a sender and a        *)
(* receiver, with a third lane that is spawned while they run.             *)
EXTENDS Kernel, TLC

CONSTANTS snd, rcv, oth, c1

OneSlot == [c \in Channel |-> 1]
SenderOnly == [c \in Channel |-> {snd}]
ReceiverOnly == [c \in Channel |-> {rcv}]
ClosedByOther == [c \in Channel |-> {oth}]
=============================================================================
