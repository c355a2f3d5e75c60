-------------------------------- MODULE Nic --------------------------------
(***************************************************************************)
(* The network drivers, virtio_net.rs and e1000.rs: a probe at boot, and   *)
(* descriptor rings shared with a device that runs by itself.  Drivers are *)
(* polled and serialised by a lock, so only the device interleaves with a  *)
(* call.  Ring indices of virtio count modulo IDX (2^16); descriptors of   *)
(* e1000 are numbered modulo the ring length, and its head equal to its    *)
(* tail is an empty ring.                                                  *)
(***************************************************************************)
EXTENDS Integers, Sequences, FiniteSets, SequencesExt

CONSTANTS
    SIZE,           \* descriptors of a ring
    IDX,            \* the modulus of virtio's indices, a multiple of SIZE
    MaxSent,        \* bound: frames sent
    MaxArrived      \* bound: frames received

VARIABLES
    hw,         \* what the machine has: devices, queues, EEPROM, memory
    nic,        \* the installed driver: "unprobed", "virtio", "e1000" or "none"
    link,       \* the carrier
    tx,         \* the transmit ring: [buf, ring, avail, used, next, dd]
    sending,    \* the frame a send_frame waits for, with its target
    rx,         \* the receive ring: [buf, ring, avail, used, last, dd]
    reading,    \* recv_frame has copied this descriptor out
    wire,       \* frames transmitted
    txSent,       \* frames send_frame reported as sent
    tried,      \* number of calls of send_frame
    arrived,    \* frames the device stored, [id, usable]
    got         \* frames recv_frame returned

nicVars == <<hw, nic, link, tx, sending, rx, reading, wire, txSent, tried, arrived, got>>

Slots == 0..(SIZE - 1)
Idle == [frame |-> 0, target |-> 0]
NoFrame == [id |-> 0, usable |-> FALSE]
Empty == [buf |-> [i \in Slots |-> 0], ring |-> [i \in Slots |-> 0], avail |-> 0, used |-> 0, next |-> 0,
          dd |-> [i \in Slots |-> FALSE]]

(* VirtioNet::probe: the receive ring is filled with all its buffers.  The *)
(* indices start at 0; they are any number here, as after many frames.     *)
probe_virtio(k) ==
    /\ nic' = "virtio"
    /\ tx' = [Empty EXCEPT !.avail = k, !.used = k, !.next = k]
    /\ rx' = [Empty EXCEPT !.buf = [i \in Slots |-> NoFrame], !.ring = [i \in Slots |-> i],
                           !.avail = SIZE, !.used = 0, !.next = 0]

(* E1000::probe: every transmit descriptor is marked free, and the tail of *)
(* the receive ring is its last descriptor.                                *)
probe_e1000 ==
    /\ nic' = "e1000"
    /\ tx' = [Empty EXCEPT !.dd = [i \in Slots |-> TRUE]]
    /\ rx' = [Empty EXCEPT !.buf = [i \in Slots |-> NoFrame], !.avail = SIZE - 1]

(* What a driver needs: its device on the bus, queues or an EEPROM that    *)
(* answer, and memory for its rings.                                       *)
find_virtio_net == hw.virtio
setup_queue == hw.queues /\ hw.memory
find_e1000 == hw.e1000
eeprom_read == hw.eeprom
VirtioWorks == find_virtio_net /\ setup_queue
E1000Works == find_e1000 /\ eeprom_read /\ hw.memory

(* The first driver whose device is there and works is installed.          *)
probe_nic_at_boot ==
    /\ nic = "unprobed"
    /\ \/ VirtioWorks /\ \E k \in {0, IDX - 1} : probe_virtio(k)
       \/ ~VirtioWorks /\ E1000Works /\ probe_e1000
       \/ ~VirtioWorks /\ ~E1000Works
          /\ nic' = "none" /\ UNCHANGED <<tx, rx>>
    /\ UNCHANGED <<hw, link, sending, reading, wire, txSent, tried, arrived, got>>

carrier ==
    /\ link' = ~link
    /\ UNCHANGED <<hw, nic, tx, sending, rx, reading, wire, txSent, tried, arrived, got>>

Quiet == sending = Idle /\ reading = 0

---------------------------------------------------------------------------
(* virtio send_frame: the next slot round-robin, whether or not the device *)
(* is done with it; then it waits for the used index.                      *)
virtio_send_frame ==
    /\ nic = "virtio" /\ Quiet /\ tried < MaxSent
    /\ tried' = tried + 1
    /\ LET slot == tx.next % SIZE
           target == (tx.avail + 1) % IDX
       IN  /\ tx' = [tx EXCEPT !.next = (@ + 1) % IDX, !.buf[slot] = tried', !.ring[tx.avail % SIZE] = slot,
                               !.avail = target]
           /\ sending' = [frame |-> tried', target |-> target]
    /\ UNCHANGED <<hw, nic, link, rx, reading, wire, txSent, arrived, got>>

virtio_sent ==
    /\ nic = "virtio" /\ sending # Idle
    /\ \/ tx.used = sending.target /\ txSent' = txSent \cup {sending.frame}
       \/ tx.used # sending.target /\ UNCHANGED txSent         \* the budget is over: Busy
    /\ sending' = Idle
    /\ UNCHANGED <<hw, nic, link, tx, rx, reading, wire, tried, arrived, got>>

(* The device takes the next published descriptor and sends what is in its *)
(* buffer then.                                                            *)
virtio_transmit ==
    /\ nic = "virtio" /\ link /\ tx.used # tx.avail
    /\ wire' = Append(wire, tx.buf[tx.ring[tx.used % SIZE]])
    /\ tx' = [tx EXCEPT !.used = (@ + 1) % IDX]
    /\ UNCHANGED <<hw, nic, link, sending, rx, reading, txSent, tried, arrived, got>>

(* It stores a frame in the next available buffer.                         *)
virtio_arrive ==
    /\ nic = "virtio" /\ link /\ rx.used # rx.avail /\ Len(arrived) < MaxArrived
    /\ \E u \in BOOLEAN :
         LET f == [id |-> Len(arrived) + 1, usable |-> u]
             d == rx.ring[rx.used % SIZE]
         IN  arrived' = Append(arrived, f) /\ rx' = [rx EXCEPT !.buf[d] = f, !.used = (@ + 1) % IDX]
    /\ UNCHANGED <<hw, nic, link, tx, sending, reading, wire, txSent, tried, got>>

(* recv_frame copies the frame, and then hands the buffer back.  The used  *)
(* element at the reader's index names the descriptor: buffers come back   *)
(* in the order in which they were made available.                         *)
virtio_recv_frame ==
    /\ nic = "virtio" /\ Quiet /\ rx.used # rx.next
    /\ LET d == rx.ring[rx.next % SIZE]
       IN  /\ got' = IF rx.buf[d].usable THEN Append(got, rx.buf[d]) ELSE got
           /\ reading' = d + 1
    /\ UNCHANGED <<hw, nic, link, tx, sending, rx, wire, txSent, tried, arrived>>

recycle_rx ==
    /\ nic = "virtio" /\ reading # 0
    /\ rx' = [rx EXCEPT !.ring[rx.avail % SIZE] = reading - 1, !.avail = (@ + 1) % IDX, !.next = (@ + 1) % IDX]
    /\ reading' = 0
    /\ UNCHANGED <<hw, nic, link, tx, sending, wire, txSent, tried, arrived, got>>

---------------------------------------------------------------------------
(* e1000 send_frame: Busy at once if the slot is still in flight; else the *)
(* tail moves on, and the call waits for the descriptor's done bit.        *)
e1000_send_frame ==
    /\ nic = "e1000" /\ Quiet /\ tried < MaxSent
    /\ tried' = tried + 1
    /\ LET i == tx.next
       IN  IF tx.dd[i]
           THEN /\ tx' = [tx EXCEPT !.buf[i] = tried', !.dd[i] = FALSE, !.next = (i + 1) % SIZE,
                                    !.avail = (i + 1) % SIZE]
                /\ sending' = [frame |-> tried', target |-> i]
           ELSE UNCHANGED <<tx, sending>>
    /\ UNCHANGED <<hw, nic, link, rx, reading, wire, txSent, arrived, got>>

e1000_sent ==
    /\ nic = "e1000" /\ sending # Idle
    /\ txSent' = IF tx.dd[sending.target] THEN txSent \cup {sending.frame} ELSE txSent
    /\ sending' = Idle
    /\ UNCHANGED <<hw, nic, link, tx, rx, reading, wire, tried, arrived, got>>

e1000_transmit ==
    /\ nic = "e1000" /\ link /\ tx.used # tx.avail
    /\ wire' = Append(wire, tx.buf[tx.used])
    /\ tx' = [tx EXCEPT !.dd[tx.used] = TRUE, !.used = (@ + 1) % SIZE]
    /\ UNCHANGED <<hw, nic, link, sending, rx, reading, txSent, tried, arrived, got>>

e1000_arrive ==
    /\ nic = "e1000" /\ link /\ rx.used # rx.avail /\ Len(arrived) < MaxArrived
    /\ \E u \in BOOLEAN :
         LET f == [id |-> Len(arrived) + 1, usable |-> u]
         IN  /\ arrived' = Append(arrived, f)
             /\ rx' = [rx EXCEPT !.buf[rx.used] = f, !.dd[rx.used] = TRUE, !.used = (@ + 1) % SIZE]
    /\ UNCHANGED <<hw, nic, link, tx, sending, reading, wire, txSent, tried, got>>

(* A bug: a descriptor with a frame that is dropped is not handed back.    *)
e1000_recv_frame_Leaks ==
    /\ nic = "e1000" /\ Quiet /\ rx.dd[rx.next]
    /\ LET i == rx.next
       IN  /\ got' = IF rx.buf[i].usable THEN Append(got, rx.buf[i]) ELSE got
           /\ rx' = [rx EXCEPT !.dd[i] = FALSE, !.next = (i + 1) % SIZE,
                               !.avail = IF rx.buf[i].usable THEN i ELSE @]
    /\ UNCHANGED <<hw, nic, link, tx, sending, reading, wire, txSent, tried, arrived>>

(* A frame that is too long, or not whole, is dropped; the descriptor goes *)
(* back either way.                                                        *)
e1000_recv_frame ==
    /\ nic = "e1000" /\ Quiet /\ rx.dd[rx.next]
    /\ LET i == rx.next
       IN  /\ got' = IF rx.buf[i].usable THEN Append(got, rx.buf[i]) ELSE got
           /\ rx' = [rx EXCEPT !.dd[i] = FALSE, !.next = (i + 1) % SIZE, !.avail = i]
    /\ UNCHANGED <<hw, nic, link, tx, sending, reading, wire, txSent, tried, arrived>>

---------------------------------------------------------------------------
NicInit ==
    /\ hw \in [virtio : BOOLEAN, queues : BOOLEAN, e1000 : BOOLEAN, eeprom : BOOLEAN, memory : BOOLEAN]
    /\ nic = "unprobed" /\ link = TRUE
    /\ tx = Empty /\ rx = Empty /\ sending = Idle /\ reading = 0
    /\ wire = <<>> /\ txSent = {} /\ tried = 0 /\ arrived = <<>> /\ got = <<>>

NicNext ==
    \/ probe_nic_at_boot \/ carrier
    \/ virtio_send_frame \/ virtio_sent \/ virtio_transmit
    \/ virtio_arrive \/ virtio_recv_frame \/ recycle_rx
    \/ e1000_send_frame \/ e1000_sent \/ e1000_transmit \/ e1000_arrive \/ e1000_recv_frame

NicSpec == NicInit /\ [][NicNext]_nicVars

---------------------------------------------------------------------------
(* The rings carry frames faithfully.  A frame send_frame reports as sent  *)
(* has left unchanged, whatever earlier calls gave up on; the usable       *)
(* frames come out of recv_frame once each, in the order of arrival; and   *)
(* when all of them were taken every receive buffer is the device's again  *)
(* (e1000 keeps one, to tell a full ring from an empty one).               *)
Owned == (rx.avail - rx.used) % (IF nic = "virtio" THEN IDX ELSE SIZE)
RingsAreFaithful ==
    /\ txSent \subseteq {wire[i] : i \in DOMAIN wire}
    /\ IsPrefix(got, SelectSeq(arrived, LAMBDA f : f.usable))
    /\ /\ nic \in {"virtio", "e1000"} /\ reading = 0 /\ (nic = "e1000" => \A i \in Slots : ~rx.dd[i])
       /\ (nic = "virtio" => rx.used = rx.next)
       => Owned = IF nic = "virtio" THEN SIZE ELSE SIZE - 1
=============================================================================
