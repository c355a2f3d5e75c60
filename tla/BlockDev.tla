----------------------------- MODULE BlockDev -------------------------------
(***************************************************************************)
(* Block devices: the ATA driver (arch/ata.rs), the virtio driver          *)
(* (arch/virtio_blk_mmio.rs), and the write test verify_storage runs on    *)
(* the last sector of the boot disk.                                       *)
(*                                                                         *)
(* A sector holds a value.  The devices are external: they may fail a      *)
(* request or be late.  What the ATA device makes of a command it is given *)
(* while it still works on one that timed out is not defined: from then on *)
(* nothing is known of what it stores.  The virtio device may take up a    *)
(* request before or after the driver gave up on it; it is assumed to      *)
(* complete requests in the order it took them.                            *)
(***************************************************************************)
EXTENDS Integers, Sequences, FiniteSets, FiniteSetsExt

CONSTANTS
    NSectors,       \* sectors of the disk
    CHUNK,          \* sectors an ATA command may transfer: 255
    Values,         \* what a sector may hold
    MaxCount,       \* bound: sectors of one call
    MaxCalls        \* bound: calls

ASSUME BlkAssumption == NSectors \in Nat \ {0} /\ CHUNK \in Nat \ {0} /\ MaxCount \in Nat

VARIABLES
    drv,            \* the driver: "none", "ata", "virtio", "absent"
    medium,         \* lba -> value
    asked,           \* the call in progress
    dev,            \* ATA: the device's registers
    chain, status,  \* virtio: the descriptors and the status byte in memory
    avail, used,    \* virtio: ring indices
    taken,          \* virtio: requests the device has read, in order
    ret,            \* what the last call returned
    truth,          \* lba -> value, as the calls that returned Ok have it
    doubt,          \* sectors of which nothing is promised any more
    calls, test     \* calls so far; where the write test is

virtVars == <<chain, status, avail, used, taken>>
blkVars == <<drv, medium, asked, dev, virtVars, ret, truth, doubt, calls, test>>

Sectors == 0..(NSectors - 1)
Pattern == "pattern"
Unread == "unread"
NoRequest == [op |-> "none", lba |-> 0, buf |-> <<>>, done |-> 0, chunk |-> 0, s |-> 0, id |-> 0]
Lbas(c) == c.lba..(c.lba + Len(c.buf) - 1)
Code(r) == [code |-> r, lba |-> 0, buf |-> <<>>]

(* The devices a probe may meet.                                           *)
AtaDevices == [kind : {"ata"}, status : {0, 80}, settles : BOOLEAN, signature : {0, 235},
               drq : BOOLEAN, err : BOOLEAN, sectors : {0, NSectors}]
VirtioDevices == [kind : {"virtio"}, magic : BOOLEAN, id : {0, 1, 2}, version : {1, 2},
                  features : BOOLEAN, qmax : {0, 8}, frames : BOOLEAN]

(* AtaDisk::probe: IDENTIFY is answered by a plain ATA disk with sectors.  *)
ata_probe(d) ==
    /\ d.status # 0 /\ d.settles
    /\ d.signature = 0
    /\ d.drq /\ ~d.err
    /\ d.sectors > 0

(* VirtioBlkMmio::probe: a legacy block device, a queue, and memory for it.*)
virtio_probe(d) ==
    /\ d.magic /\ d.id = 2 /\ d.version = 1
    /\ d.features /\ d.qmax > 0
    /\ d.frames

probe ==
    /\ drv = "none"
    /\ \E d \in AtaDevices \cup VirtioDevices :
         LET works == IF d.kind = "ata" THEN ata_probe(d) ELSE virtio_probe(d)
         IN  drv' = IF works THEN d.kind ELSE "absent"
    /\ test' \in IF drv' = "ata" THEN {test, [test EXCEPT !.at = "mbr"]} ELSE {test}
    /\ UNCHANGED <<medium, asked, dev, virtVars, ret, truth, doubt, calls>>

(* check_range: a request of no sectors, or past the end, is refused.      *)
check_range(lba, count) == count > 0 /\ lba + count <= NSectors

---------------------------------------------------------------------------
(* The start of an ATA command: min(count - done, 255) sectors.            *)
setup(c) ==
    LET n == Min({Len(c.buf) - c.done, CHUNK})
    IN  asked' = [c EXCEPT !.chunk = n, !.s = 0] /\ dev' = [next |-> c.lba + c.done, left |-> n]

(* VirtioBlkMmio::request up to the notification: the one chain is filled, *)
(* its status byte reset, and its head published once more.                *)
submit(c) ==
    /\ asked' = c /\ chain' = c
    /\ status' = "unset" /\ avail' = avail + 1

BeginsAt(op, lba, buf) ==
    /\ asked = NoRequest /\ drv \in {"ata", "virtio"}
    /\ test.at = "off" => calls < MaxCalls
    /\ calls' = calls + 1
    /\ IF check_range(lba, Len(buf))
       THEN LET c == [NoRequest EXCEPT !.op = op, !.lba = lba, !.buf = buf, !.id = calls + 1]
            IN  /\ ret' = Code("none")
                /\ \/ drv = "ata" /\ setup(c) /\ UNCHANGED virtVars
                   \/ drv = "virtio" /\ submit(c) /\ UNCHANGED <<dev, used, taken>>
       ELSE ret' = Code("OutOfRange") /\ UNCHANGED <<asked, dev, virtVars>>
    /\ UNCHANGED <<drv, medium, truth, doubt>>

read_blocks(lba, count) ==
    test.at = "off" /\ BeginsAt("read", lba, [i \in 1..count |-> Unread]) /\ UNCHANGED test
write_blocks(lba, vals) ==
    test.at = "off" /\ BeginsAt("write", lba, vals) /\ UNCHANGED test

(* A call returns.  What it promised is recorded; a failed write leaves    *)
(* its sectors in doubt, an ATA command that timed out the whole disk.     *)
CallReturns(c, r) ==
    /\ asked' = NoRequest
    /\ ret' = IF r = "Ok" /\ c.op = "read" THEN [code |-> r, lba |-> c.lba, buf |-> c.buf] ELSE Code(r)
    /\ truth' = IF r = "Ok" /\ c.op = "write"
                THEN [l \in Sectors |-> IF l \in Lbas(c) THEN c.buf[l - c.lba + 1] ELSE truth[l]] ELSE truth
    /\ doubt' = IF r = "Timeout" /\ drv = "ata" THEN Sectors
                ELSE IF r # "Ok" /\ c.op = "write" THEN doubt \cup Lbas(c) ELSE doubt

(* One sector of an ATA command: the device is ready, reports an error, or *)
(* is not heard of.  The driver places the sector by its own count, the    *)
(* device by its registers.                                                *)
ata_sector ==
    /\ drv = "ata" /\ asked # NoRequest /\ asked.s < asked.chunk
    /\ \/ LET k == asked.done + asked.s + 1
              c == [asked EXCEPT !.s = @ + 1]
          IN  /\ dev' = [next |-> dev.next + 1, left |-> dev.left - 1]
              /\ \/ asked.op = "read" /\ asked' = [c EXCEPT !.buf[k] = medium[dev.next]] /\ UNCHANGED medium
                 \/ asked.op = "write" /\ asked' = c /\ medium' = [medium EXCEPT ![dev.next] = asked.buf[k]]
              /\ UNCHANGED <<ret, truth, doubt>>
       \/ \E r \in {"DeviceError", "Timeout"} : CallReturns(asked, r) /\ UNCHANGED <<medium, dev>>
    /\ UNCHANGED <<drv, virtVars, calls, test>>

(* The end of an ATA command: a write waits for the cache flush, and the   *)
(* call goes on with the next command or returns.                          *)
ata_command_done ==
    /\ drv = "ata" /\ asked # NoRequest /\ asked.s = asked.chunk
    /\ LET c == [asked EXCEPT !.done = @ + asked.chunk]
       IN  \/ c.done < Len(c.buf) /\ setup(c) /\ UNCHANGED <<ret, truth, doubt>>
           \/ c.done = Len(c.buf) /\ CallReturns(c, "Ok") /\ UNCHANGED dev
           \/ asked.op = "write" /\ CallReturns(asked, "Timeout") /\ UNCHANGED dev
    /\ UNCHANGED <<drv, medium, virtVars, calls, test>>

---------------------------------------------------------------------------
(* The virtio device takes up an entry of the ring: always descriptor 0,   *)
(* with whatever it holds by then.                                         *)
virtio_take ==
    /\ used + Len(taken) < avail
    /\ taken' = Append(taken, chain)
    /\ UNCHANGED <<drv, medium, asked, dev, chain, status, avail, used, ret, truth, doubt, calls, test>>

(* The device carries out the first request it took, or fails it.  It      *)
(* works on the memory the descriptors name: a buffer whose call has       *)
(* returned may hold anything by now.                                      *)
virtio_complete ==
    /\ taken # <<>> /\ taken' = Tail(taken) /\ used' = used + 1
    /\ LET c == Head(taken)
           live == asked.id = c.id
       IN  \/ status' = "ioerr" /\ UNCHANGED <<medium, asked>>
           \/ /\ status' = "ok" /\ c.op = "read"
              /\ asked' = IF live THEN [asked EXCEPT !.buf = [i \in DOMAIN @ |-> medium[c.lba + i - 1]]] ELSE asked
              /\ UNCHANGED medium
           \/ /\ status' = "ok" /\ c.op = "write"
              /\ \E junk \in Values :
                   medium' = [l \in Sectors |-> IF l \notin Lbas(c) THEN medium[l]
                                                ELSE IF live THEN c.buf[l - c.lba + 1] ELSE junk]
              /\ UNCHANGED asked
    /\ UNCHANGED <<drv, dev, chain, avail, ret, truth, doubt, calls, test>>

(* The rest of request: poll until as many requests were completed as were *)
(* published, or give up; then read the status byte.                       *)
request_AnyUsed ==
    /\ drv = "virtio" /\ asked # NoRequest
    /\ \/ used > 0 /\ CallReturns(asked, IF status = "ok" THEN "Ok" ELSE "DeviceError")
       \/ used # avail /\ CallReturns(asked, "Timeout")
    /\ UNCHANGED <<drv, medium, dev, virtVars, calls, test>>
request ==
    /\ drv = "virtio" /\ asked # NoRequest
    /\ \/ used = avail /\ CallReturns(asked, IF status = "ok" THEN "Ok" ELSE "DeviceError")
       \/ used # avail /\ CallReturns(asked, "Timeout")
    /\ UNCHANGED <<drv, medium, dev, virtVars, calls, test>>

---------------------------------------------------------------------------
(* verify_storage: read the boot record and the layout descriptor, whose   *)
(* outcome is only reported, then test the last sector: save it, write a   *)
(* pattern, read it back, and restore what was saved.                      *)
LastSector == NSectors - 1
TestStep(at, next, op, lba, buf) ==
    test.at = at /\ BeginsAt(op, lba, buf) /\ test' = [test EXCEPT !.at = next]

verify_mbr == TestStep("mbr", "descriptor", "read", 0, <<Unread>>)
verify_descriptor == TestStep("descriptor", "save", "read", 1, <<Unread>>)
verify_save == TestStep("save", "saving", "read", LastSector, <<Unread>>)
verify_pattern ==
    /\ test.at = "saving" /\ ret.code = "Ok"
    /\ BeginsAt("write", LastSector, <<Pattern>>)
    /\ test' = [at |-> "writing", saved |-> ret.buf[1], was |-> medium[LastSector]]
verify_readback == ret.code = "Ok" /\ TestStep("writing", "reading", "read", LastSector, <<Unread>>)
verify_restore == ret.code = "Ok" /\ TestStep("reading", "restoring", "write", LastSector, <<test.saved>>)
verify_reports ==
    /\ asked = NoRequest
    /\ \/ test.at = "restoring" /\ test' = [test EXCEPT !.at = "restored"]
       \/ /\ test.at \in {"saving", "writing", "reading"} /\ ret.code # "Ok"
          /\ test' = [test EXCEPT !.at = "failed"]
    /\ UNCHANGED <<drv, medium, asked, dev, virtVars, ret, truth, doubt, calls>>

---------------------------------------------------------------------------
BlkInit ==
    /\ drv = "none" /\ medium \in [Sectors -> Values] /\ truth = medium
    /\ asked = NoRequest /\ dev = [next |-> 0, left |-> 0]
    /\ chain = NoRequest /\ status = "unset" /\ avail = 0 /\ used = 0 /\ taken = <<>>
    /\ ret = Code("none") /\ doubt = {} /\ calls = 0
    /\ test = [at |-> "off", saved |-> Unread, was |-> Unread]

BlkNext ==
    \/ probe \/ ata_sector \/ ata_command_done
    \/ virtio_take \/ virtio_complete \/ request
    \/ \E lba \in 0..NSectors, count \in 0..MaxCount : read_blocks(lba, count)
    \/ \E lba \in 0..NSectors, n \in 0..MaxCount : \E vals \in [1..n -> Values] : write_blocks(lba, vals)
    \/ verify_mbr \/ verify_descriptor \/ verify_save \/ verify_pattern
    \/ verify_readback \/ verify_restore \/ verify_reports

BlkSpec == BlkInit /\ [][BlkNext]_blkVars

---------------------------------------------------------------------------
(* What the block drivers promise.  A sector no failed write has touched   *)
(* holds what the last write that returned Ok put there, whatever late     *)
(* requests the device still carries out; and a read that returned Ok has  *)
(* every such sector of its range, in its place (read_blocks,              *)
(* write_blocks, request).                                                 *)
OkIsTrue ==
    asked = NoRequest =>
        /\ \A l \in Sectors \ doubt : medium[l] = truth[l]
        /\ \A l \in Lbas(ret) \ doubt : ret.buf[l - ret.lba + 1] = truth[l]
=============================================================================
