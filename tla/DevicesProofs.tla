---------------------------- MODULE DevicesProofs ----------------------------
(***************************************************************************)
(* What the drivers guarantee, for every size of disk, of command and of   *)
(* virtqueue, every length of the key ring and every set of scancodes: an  *)
(* answered disk request is true, a timed wait can be woken, keys stay in  *)
(* order, and a line that is read is what was typed.                       *)
(***************************************************************************)
EXTENDS BlockDev, Input, WellFoundedInduction, TLAPS

(* The block drivers.  A buffer is a sequence, of whatever it holds.       *)
IsBuf(b) == Len(b) \in Nat /\ DOMAIN b = 1..Len(b) /\ b = [i \in DOMAIN b |-> b[i]]

RequestFields == {"op", "lba", "buf", "done", "chunk", "s", "id"}

(* A request in range.                                                     *)
Asks(c) ==
    /\ DOMAIN c = RequestFields /\ c.op \in {"read", "write"}
    /\ c.lba \in Nat /\ IsBuf(c.buf) /\ Len(c.buf) > 0 /\ c.lba + Len(c.buf) <= NSectors
    /\ c.id \in Nat \ {0}

BlkTypes ==
    /\ drv \in {"none", "ata", "virtio", "absent"} /\ calls \in Nat
    /\ DOMAIN medium = Sectors /\ doubt \subseteq Sectors
    /\ asked = NoRequest \/ (Asks(asked) /\ asked.id <= calls /\ drv \in {"ata", "virtio"})
    /\ drv # "virtio" => avail = 0 /\ used = 0 /\ taken = <<>>

(* A sector out of doubt is as promised, or about to be written.           *)
SectorsHold ==
    \A l \in Sectors \ doubt : medium[l] = truth[l] \/ (asked.op = "write" /\ l \in Lbas(asked))

RetTrue == \A l \in Lbas(ret) \ doubt : ret.buf[l - ret.lba + 1] = truth[l]

(* What the call in progress has transferred is in its place.              *)
Moved(n) == \A i \in 1..n : medium[asked.lba + i - 1] = asked.buf[i]

(* An ATA command: the driver's count and the device's registers agree.    *)
Aligned ==
    /\ asked.done \in Nat /\ asked.chunk \in Nat /\ asked.s \in 0..asked.chunk
    /\ asked.done + asked.chunk <= Len(asked.buf)
    /\ dev.next = asked.lba + asked.done + asked.s
    /\ Moved(asked.done + asked.s)

AtaInv == drv = "ata" /\ asked # NoRequest => Aligned

(* A request the device has not carried out: it is the call's, or what it  *)
(* may still write is in doubt.                                            *)
Pending(c) ==
    /\ Asks(c) /\ c.id <= calls
    /\ c.op = "write" /\ c.id # asked.id => Lbas(c) \subseteq doubt

(* The descriptors are the call's.                                         *)
Filled ==
    /\ chain.op = asked.op /\ chain.lba = asked.lba /\ chain.id = asked.id
    /\ Len(chain.buf) = Len(asked.buf)
    /\ asked.op = "write" => chain.buf = asked.buf

VirtInv ==
    /\ avail \in Nat /\ used \in Nat /\ IsBuf(taken) /\ used + Len(taken) <= avail
    /\ \A j \in DOMAIN taken : Pending(taken[j]) /\ (taken[j].id = asked.id => taken[j] = chain)
    /\ used + Len(taken) < avail => Pending(chain)
    /\ asked # NoRequest /\ drv = "virtio" =>
          /\ Filled
          /\ Len(taken) > 0 /\ used + Len(taken) = avail => taken[Len(taken)] = chain
          /\ used = avail /\ status = "ok" => Moved(Len(asked.buf))

BlkInv == BlkTypes /\ SectorsHold /\ RetTrue /\ AtaInv /\ VirtInv

LEMMA FunctionIsBuf ==
    ASSUME NEW n \in Nat, NEW f, f = [i \in 1..n |-> f[i]]
    PROVE  IsBuf(f) /\ Len(f) = n
<1> DEFINE S == {f[i] : i \in 1..n}
<1>1. f \in [1..n -> S]
  OBVIOUS
<1>2. f \in Seq(S) /\ DOMAIN f = 1..n
  BY <1>1
<1>3. Len(f) = n
  BY <1>2
<1> QED
  BY <1>2, <1>3, Zenon DEF IsBuf

LEMMA BufIsSeq ==
    ASSUME NEW b, IsBuf(b), NEW S, \A i \in DOMAIN b : b[i] \in S
    PROVE  b \in Seq(S)
<1>1. b \in [1..Len(b) -> S] /\ Len(b) \in Nat
  BY Zenon DEF IsBuf
<1> QED
  BY <1>1

LEMMA SeqIsBuf ==
    ASSUME NEW S, NEW b \in Seq(S)
    PROVE  IsBuf(b)
<1>1. Len(b) \in Nat /\ DOMAIN b = 1..Len(b) /\ b \in [1..Len(b) -> S]
  OBVIOUS
<1> QED
  BY <1>1, Zenon DEF IsBuf

LEMMA AppendBuf ==
    ASSUME NEW b, IsBuf(b), NEW e
    PROVE  /\ IsBuf(Append(b, e)) /\ Len(Append(b, e)) = Len(b) + 1 /\ Append(b, e)[Len(b) + 1] = e
           /\ \A i \in DOMAIN b : Append(b, e)[i] = b[i]
<1> DEFINE S == {b[i] : i \in DOMAIN b} \cup {e}
           a == Append(b, e)
<1>1. b \in Seq(S) /\ e \in S
  BY BufIsSeq, Zenon
<1> HIDE DEF S
<1>2. /\ a \in Seq(S) /\ Len(a) = Len(b) + 1 /\ a[Len(b) + 1] = e
      /\ \A i \in 1..Len(b) : a[i] = b[i]
  BY <1>1
<1>3. IsBuf(a)
  BY <1>2, SeqIsBuf, Zenon
<1> QED
  BY <1>2, <1>3, Zenon DEF IsBuf

LEMMA TailBuf ==
    ASSUME NEW b, IsBuf(b), b # <<>>
    PROVE  /\ IsBuf(Tail(b)) /\ Len(Tail(b)) = Len(b) - 1 /\ Head(b) = b[1] /\ 1 \in DOMAIN b
           /\ \A i \in DOMAIN Tail(b) : i + 1 \in DOMAIN b /\ Tail(b)[i] = b[i + 1]
<1> DEFINE S == {b[i] : i \in DOMAIN b}
           t == Tail(b)
<1>1. b \in Seq(S)
  BY BufIsSeq, Zenon
<1> HIDE DEF S
<1>2. /\ t \in Seq(S) /\ Len(t) = Len(b) - 1 /\ Head(b) = b[1] /\ Len(b) > 0
      /\ \A i \in 1..Len(t) : t[i] = b[i + 1]
  BY <1>1
<1>3. IsBuf(t)
  BY <1>2, SeqIsBuf, Zenon
<1> QED
  BY <1>2, <1>3 DEF IsBuf

LEMMA LeastOfTwo ==
    ASSUME NEW a \in Int, NEW b \in Int
    PROVE  Min({a, b}) \in {a, b} /\ Min({a, b}) <= a /\ Min({a, b}) <= b
<1>1. \E x \in {a, b} : \A y \in {a, b} : x <= y
  <2>1. CASE a <= b
    BY <2>1
  <2>2. CASE b <= a
    BY <2>2
  <2> QED
    BY <2>1, <2>2
<1> DEFINE m == Min({a, b})
<1>2. m \in {a, b} /\ \A y \in {a, b} : m <= y
  BY <1>1, Zenon DEF Min
<1> QED
  BY <1>2, Zenon

(* A call returns what it moved, and leaves in doubt what it may not have. *)
LEMMA ReturnIsTrue ==
    ASSUME BlkTypes, SectorsHold, NEW c, NEW r, CallReturns(c, r), asked # NoRequest,
           c.op = asked.op, c.lba = asked.lba, c.buf = asked.buf,
           r = "Ok" => Moved(Len(asked.buf)), UNCHANGED <<drv, medium, calls>>
    PROVE  /\ SectorsHold' /\ RetTrue' /\ asked' = NoRequest
           /\ doubt \subseteq doubt' /\ doubt' \subseteq Sectors
           /\ r # "Ok" /\ asked.op = "write" => Lbas(asked) \subseteq doubt'
<1>1. /\ asked.op \in {"read", "write"} /\ asked.lba \in Nat /\ Len(asked.buf) \in Nat
      /\ asked.lba + Len(asked.buf) <= NSectors /\ doubt \subseteq Sectors
  BY Zenon DEF BlkTypes, Asks, IsBuf
<1>2. Lbas(c) = Lbas(asked) /\ Lbas(asked) \subseteq Sectors /\ NSectors \in Nat
  BY <1>1, BlkAssumption DEF Lbas, Sectors
<1>3. asked' = NoRequest /\ NoRequest.op = "none"
  BY Zenon DEF CallReturns, NoRequest
<1>4. /\ doubt \subseteq doubt' /\ doubt' \subseteq Sectors
      /\ r # "Ok" /\ asked.op = "write" => Lbas(asked) \subseteq doubt'
  BY <1>1, <1>2, Zenon DEF CallReturns
<1>5. CASE r = "Ok"
  <2>1. Moved(Len(asked.buf))
    BY <1>5, Zenon
  <2>2. \A l \in Lbas(asked) : medium[l] = asked.buf[l - asked.lba + 1]
    <3> SUFFICES ASSUME NEW l \in Lbas(asked) PROVE medium[l] = asked.buf[l - asked.lba + 1]
      OBVIOUS
    <3> DEFINE i == l - asked.lba + 1
    <3> DEFINE n == Len(asked.buf)
    <3>0. n \in Nat /\ l \in asked.lba .. asked.lba + n - 1
      BY <1>1, Zenon DEF Lbas
    <3> HIDE DEF n
    <3>1. i \in 1..n /\ asked.lba + i - 1 = l
      BY <1>1, <3>0, SMTT(20)
    <3>2. medium[asked.lba + i - 1] = asked.buf[i]
      BY <2>1, <3>1, Zenon DEF Moved, n
    <3> QED
      BY <3>1, <3>2, Zenon
  <2>3. doubt' = doubt
    BY <1>5, Zenon DEF CallReturns
  <2>4. CASE asked.op = "write"
    <3>1. /\ truth' = [l \in Sectors |-> IF l \in Lbas(asked) THEN asked.buf[l - asked.lba + 1] ELSE truth[l]]
          /\ ret' = Code(r)
      BY <1>2, <1>5, <2>4, Zenon DEF CallReturns
    <3>2. SectorsHold'
      BY <1>2, <1>3, <2>2, <2>3, <3>1, Zenon DEF SectorsHold
    <3>3. RetTrue'
      BY <3>1 DEF RetTrue, Code, Lbas
    <3> QED
      BY <1>3, <1>4, <3>2, <3>3, Zenon
  <2>5. CASE asked.op = "read"
    <3>1. truth' = truth /\ ret' = [code |-> r, lba |-> asked.lba, buf |-> asked.buf]
      BY <1>5, <2>5, Zenon DEF CallReturns
    <3>2. \A l \in Sectors \ doubt : medium[l] = truth[l]
      BY <2>5, Zenon DEF SectorsHold
    <3>3. SectorsHold'
      BY <2>3, <3>1, <3>2, Zenon DEF SectorsHold
    <3>4. Lbas(ret)' = Lbas(asked) /\ ret'.lba = asked.lba /\ ret'.buf = asked.buf
      BY <3>1, Zenon DEF Lbas
    <3>5. RetTrue'
      BY <1>2, <2>2, <2>3, <3>1, <3>2, <3>4, Zenon DEF RetTrue
    <3> QED
      BY <1>3, <1>4, <3>3, <3>5, Zenon
  <2> QED
    BY <1>1, <2>4, <2>5, Zenon
<1>6. CASE r # "Ok"
  <2>1. truth' = truth /\ ret' = Code(r)
    BY <1>6, Zenon DEF CallReturns
  <2>2. SectorsHold'
    BY <1>1, <1>4, <1>6, <2>1, Zenon DEF SectorsHold
  <2>3. RetTrue'
    BY <2>1 DEF RetTrue, Code, Lbas
  <2> QED
    BY <1>3, <1>4, <2>2, <2>3, Zenon
<1> QED
  BY <1>5, <1>6, Zenon

(* A call begins: it is refused, or its first command is given.            *)
LEMMA BeginStep ==
    ASSUME BlkInv, NEW op \in {"read", "write"}, NEW lba \in Nat, NEW buf, IsBuf(buf),
           BeginsAt(op, lba, buf)
    PROVE  BlkInv'
<1> DEFINE c == [NoRequest EXCEPT !.op = op, !.lba = lba, !.buf = buf, !.id = calls + 1]
<1>0. BlkTypes /\ SectorsHold /\ RetTrue /\ AtaInv /\ VirtInv
  BY Zenon DEF BlkInv
<1>1. /\ asked = NoRequest /\ drv \in {"ata", "virtio"} /\ calls' = calls + 1 /\ calls \in Nat
      /\ UNCHANGED <<drv, medium, truth, doubt>>
  BY <1>0, Zenon DEF BeginsAt, BlkTypes
<1>2. NoRequest.op = "none" /\ NoRequest.id = 0
  BY Zenon DEF NoRequest
<1>3. \A k : Pending(k) => Pending(k)'
  <2> SUFFICES ASSUME NEW k, Pending(k), Asks(k), k.id <= calls, k.id \in Nat \ {0},
                      k.op = "write" => Lbas(k) \subseteq doubt
               PROVE  Pending(k)'
    BY <1>1, <1>2, Zenon DEF Pending, Asks
  <2> QED
    BY <1>1 DEF Pending
<1>4. CASE check_range(lba, Len(buf))
  <2>1. /\ ret' = Code("none")
        /\ \/ drv = "ata" /\ setup(c) /\ UNCHANGED virtVars
           \/ drv = "virtio" /\ submit(c) /\ UNCHANGED <<dev, used, taken>>
    BY <1>4, Zenon DEF BeginsAt
  <2>2. /\ DOMAIN c = RequestFields /\ c.op = op /\ c.lba = lba /\ c.buf = buf /\ c.id = calls + 1
        /\ c.done = 0 /\ c.chunk = 0 /\ c.s = 0
    BY Zenon DEF NoRequest, RequestFields
  <2> HIDE DEF c
  <2>3. Asks(c)
    BY <1>1, <1>4, <2>2 DEF Asks, check_range
  <2>4. RetTrue'
    BY <2>1 DEF RetTrue, Code, Lbas
  <2>5. SectorsHold'
    BY <1>0, <1>1, <1>2, Zenon DEF SectorsHold
  <2>6. CASE drv = "ata" /\ setup(c) /\ UNCHANGED virtVars
    <3> DEFINE n == Min({Len(buf), CHUNK})
    <3>1. n \in Nat /\ n <= Len(buf)
      <4>1. Len(buf) \in Nat /\ CHUNK \in Nat /\ Len(buf) \in Int /\ CHUNK \in Int
        BY BlkAssumption DEF IsBuf
      <4>2. n \in {Len(buf), CHUNK} /\ n <= Len(buf)
        BY <4>1, LeastOfTwo, Zenon
      <4> QED
        BY <4>1, <4>2, Zenon
    <3>2. Len(c.buf) - c.done = Len(buf) /\ c.lba + c.done = lba
      BY <2>2 DEF IsBuf
    <3>3. asked' = [c EXCEPT !.chunk = n, !.s = 0] /\ dev' = [next |-> lba, left |-> n]
      BY <2>6, <3>2, Zenon DEF setup
    <3> HIDE DEF n
    <3>4. /\ DOMAIN asked' = RequestFields /\ asked'.op = op /\ asked'.lba = lba /\ asked'.buf = buf
          /\ asked'.id = calls + 1 /\ asked'.done = 0 /\ asked'.chunk = n /\ asked'.s = 0
      BY <2>2, <3>3, Zenon DEF RequestFields
    <3>5. Asks(asked')
      BY <1>1, <2>2, <2>3, <3>4, Zenon DEF Asks
    <3>6. BlkTypes'
      BY <1>0, <1>1, <2>6, <3>4, <3>5 DEF BlkTypes, virtVars
    <3>7. AtaInv'
      BY <3>1, <3>3, <3>4 DEF AtaInv, Aligned, Moved
    <3>8. avail' = 0 /\ used' = 0 /\ taken' = <<>> /\ drv' = "ata"
      BY <1>0, <1>1, <2>6, Zenon DEF BlkTypes, virtVars
    <3>9. VirtInv'
      <4>1. IsBuf(<<>>) /\ Len(<<>>) = 0 /\ DOMAIN <<>> = {}
        BY DEF IsBuf
      <4> QED
        BY <3>8, <4>1 DEF VirtInv
    <3> QED
      BY <2>4, <2>5, <3>6, <3>7, <3>9, Zenon DEF BlkInv
  <2>7. CASE drv = "virtio" /\ submit(c) /\ UNCHANGED <<dev, used, taken>>
    <3>1. /\ asked' = c /\ chain' = c /\ status' = "unset" /\ avail' = avail + 1
          /\ drv' = "virtio" /\ used' = used /\ taken' = taken
      BY <1>1, <2>7, Zenon DEF submit
    <3>2. BlkTypes'
      BY <1>0, <1>1, <2>2, <2>3, <3>1 DEF BlkTypes
    <3>3. AtaInv'
      BY <3>1, Zenon DEF AtaInv
    <3>4. Filled' /\ Pending(chain)'
      BY <1>1, <2>2, <2>3, <3>1 DEF Filled, Pending
    <3>5. ASSUME NEW j \in DOMAIN taken PROVE Pending(taken[j])' /\ taken[j].id # asked'.id
      BY <1>0, <1>1, <1>3, <2>2, <3>1 DEF VirtInv, Pending, Asks
    <3>6. VirtInv'
      BY <1>0, <3>1, <3>4, <3>5 DEF VirtInv, IsBuf
    <3> QED
      BY <2>4, <2>5, <3>2, <3>3, <3>6, Zenon DEF BlkInv
  <2> QED
    BY <2>1, <2>6, <2>7, Zenon
<1>5. CASE ~check_range(lba, Len(buf))
  <2>1. ret' = Code("OutOfRange") /\ UNCHANGED <<asked, dev, virtVars>>
    BY <1>5, Zenon DEF BeginsAt
  <2>2. RetTrue'
    BY <2>1 DEF RetTrue, Code, Lbas
  <2>3. BlkTypes' /\ SectorsHold'
    BY <1>0, <1>1, <2>1 DEF BlkTypes, SectorsHold, virtVars
  <2>4. AtaInv' /\ VirtInv'
    BY <1>0, <1>1, <1>3, <2>1, Zenon DEF AtaInv, VirtInv, virtVars
  <2> QED
    BY <2>2, <2>3, <2>4, Zenon DEF BlkInv
<1> QED
  BY <1>4, <1>5, Zenon

(* With an ATA disk the rings stay empty.                                  *)
LEMMA AtaRings ==
    ASSUME BlkTypes', drv' = "ata"
    PROVE  VirtInv'
<1>1. avail' = 0 /\ used' = 0 /\ taken' = <<>>
  BY Zenon DEF BlkTypes
<1>2. IsBuf(<<>>) /\ Len(<<>>) = 0 /\ DOMAIN <<>> = {}
  BY DEF IsBuf
<1> QED
  BY <1>1, <1>2 DEF VirtInv

LEMMA AtaReturns ==
    ASSUME BlkInv, drv = "ata", asked # NoRequest, NEW c, NEW r, CallReturns(c, r),
           c.op = asked.op, c.lba = asked.lba, c.buf = asked.buf,
           r = "Ok" => Moved(Len(asked.buf)), UNCHANGED <<drv, medium, calls, virtVars>>
    PROVE  BlkInv'
<1>1. BlkTypes /\ SectorsHold
  BY Zenon DEF BlkInv
<1>2. /\ SectorsHold' /\ RetTrue' /\ asked' = NoRequest /\ doubt' \subseteq Sectors
  BY <1>1, ReturnIsTrue, Zenon
<1>3. BlkTypes'
  BY <1>1, <1>2, Zenon DEF BlkTypes, virtVars
<1>4. AtaInv'
  BY <1>2, Zenon DEF AtaInv
<1> QED
  BY <1>2, <1>3, <1>4, AtaRings, Zenon DEF BlkInv

(* One sector of a command.                                                *)
LEMMA AtaSector == BlkInv /\ ata_sector => BlkInv'
<1> SUFFICES ASSUME BlkInv, ata_sector PROVE BlkInv'
  OBVIOUS
<1> DEFINE k == asked.done + asked.s + 1
           c == [asked EXCEPT !.s = @ + 1]
<1>0. BlkTypes /\ SectorsHold /\ RetTrue /\ AtaInv
  BY Zenon DEF BlkInv
<1>1. /\ drv = "ata" /\ asked # NoRequest /\ asked.s < asked.chunk
      /\ UNCHANGED <<drv, virtVars, calls, test>>
  BY Zenon DEF ata_sector
<1>2. Asks(asked) /\ Aligned /\ asked.id <= calls /\ DOMAIN medium = Sectors
  BY <1>0, <1>1, Zenon DEF BlkTypes, AtaInv
<1>3. /\ asked.done \in Nat /\ asked.chunk \in Nat /\ asked.s \in Nat /\ asked.lba \in Nat
      /\ Len(asked.buf) \in Nat /\ asked.lba + Len(asked.buf) <= NSectors /\ NSectors \in Nat
      /\ asked.done + asked.chunk <= Len(asked.buf) /\ dev.next = asked.lba + asked.done + asked.s
  BY <1>2, BlkAssumption DEF Asks, Aligned, IsBuf
<1>4. /\ k \in 1..Len(asked.buf) /\ dev.next = asked.lba + k - 1
       /\ dev.next \in Lbas(asked) /\ dev.next \in Sectors
       /\ asked.s + 1 \in Nat /\ asked.s + 1 \in 0..asked.chunk
       /\ dev.next + 1 = asked.lba + asked.done + (asked.s + 1) /\ asked.done + (asked.s + 1) = k
       /\ \A i \in 1..k : i # k => /\ i \in 1..(asked.done + asked.s) /\ i \in 1..Len(asked.buf)
                                   /\ asked.lba + i - 1 \in Sectors /\ asked.lba + i - 1 # dev.next
  <2>1. PICK lba \in Nat, done \in Nat, s \in Nat, chunk \in Nat, n \in Nat :
              /\ lba = asked.lba /\ done = asked.done /\ s = asked.s /\ chunk = asked.chunk
              /\ n = Len(asked.buf)
    BY <1>3, Zenon
  <2>2. /\ s < chunk /\ done + chunk <= n /\ lba + n <= NSectors /\ NSectors \in Nat
        /\ k = done + s + 1 /\ dev.next = lba + done + s
    BY <1>1, <1>3, <2>1, Zenon
  <2> HIDE DEF k
  <2>3. /\ k \in 1..n /\ dev.next = lba + k - 1
        /\ dev.next \in lba..(lba + n - 1) /\ dev.next \in 0..(NSectors - 1)
        /\ s + 1 \in Nat /\ s + 1 \in 0..chunk /\ dev.next + 1 = lba + done + (s + 1) /\ done + (s + 1) = k
        /\ \A i \in 1..k : i # k => /\ i \in 1..(done + s) /\ i \in 1..n
                                    /\ lba + i - 1 \in 0..(NSectors - 1) /\ lba + i - 1 # dev.next
    BY <2>2
  <2> QED
    BY <2>1, <2>3, Zenon DEF Lbas, Sectors
<1>5. /\ DOMAIN c = RequestFields /\ c.op = asked.op /\ c.lba = asked.lba /\ c.buf = asked.buf
      /\ c.done = asked.done /\ c.chunk = asked.chunk /\ c.id = asked.id /\ c.s = asked.s + 1
  BY <1>2, Zenon DEF Asks, RequestFields
<1>6. CASE \E r \in {"DeviceError", "Timeout"} : CallReturns(asked, r) /\ UNCHANGED <<medium, dev>>
  <2>1. PICK r \in {"DeviceError", "Timeout"} : CallReturns(asked, r) /\ UNCHANGED <<medium, dev>>
    BY <1>6, Zenon
  <2>2. UNCHANGED <<drv, medium, calls, virtVars>>
    BY <1>1, <2>1, Zenon
  <2>3. r # "Ok"
    OBVIOUS
  <2> QED
    BY <1>1, <2>1, <2>2, <2>3, AtaReturns, Zenon
<1>7. CASE /\ dev' = [next |-> dev.next + 1, left |-> dev.left - 1]
           /\ asked.op = "read" /\ asked' = [c EXCEPT !.buf[k] = medium[dev.next]]
           /\ UNCHANGED <<medium, ret, truth, doubt>>
  <2> HIDE DEF c, k
  <2> DEFINE b == [asked.buf EXCEPT ![k] = medium[dev.next]]
  <2>1. IsBuf(b) /\ Len(b) = Len(asked.buf) /\ b[k] = medium[dev.next]
        /\ \A i \in 1..Len(asked.buf) : i # k => b[i] = asked.buf[i]
    <3>1. DOMAIN asked.buf = 1..Len(asked.buf) /\ k \in 1..Len(asked.buf)
      BY <1>2, <1>4, Zenon DEF Asks, IsBuf
    <3>2. b = [i \in 1..Len(asked.buf) |-> b[i]] /\ b[k] = medium[dev.next]
          /\ \A i \in 1..Len(asked.buf) : i # k => b[i] = asked.buf[i]
      BY <3>1, Zenon
    <3> HIDE DEF b
    <3> QED
      BY <1>3, <3>2, FunctionIsBuf, Zenon
  <2>2. asked' = [c EXCEPT !.buf = b]
    BY <1>5, <1>7, Zenon
  <2> HIDE DEF b
  <2>3. /\ DOMAIN asked' = RequestFields /\ asked'.op = "read" /\ asked'.lba = asked.lba /\ asked'.buf = b
        /\ asked'.done = asked.done /\ asked'.chunk = asked.chunk /\ asked'.id = asked.id
        /\ asked'.s = asked.s + 1
    BY <1>5, <1>7, <2>2, Zenon DEF RequestFields
  <2>4. Asks(asked')
    BY <1>2, <2>1, <2>3, Zenon DEF Asks
  <2>5. BlkTypes'
    BY <1>0, <1>1, <1>2, <1>7, <2>3, <2>4, Zenon DEF BlkTypes, virtVars
  <2>6. SectorsHold' /\ RetTrue'
    BY <1>0, <1>7, <2>3, Zenon DEF SectorsHold, RetTrue
  <2>7. Moved(asked.done + asked.s)'
    <3>0. asked'.done + asked'.s = k
      BY <1>4, <2>3, Zenon
    <3> SUFFICES ASSUME NEW i \in 1..k PROVE medium[asked.lba + i - 1] = b[i]
      BY <1>7, <2>3, <3>0, Zenon DEF Moved
    <3>1. CASE i = k
      BY <1>4, <2>1, <3>1, Zenon
    <3>2. CASE i # k
      BY <1>2, <1>4, <2>1, <3>2, Zenon DEF Aligned, Moved
    <3> QED
      BY <3>1, <3>2, Zenon
  <2>8. AtaInv'
    BY <1>3, <1>4, <1>7, <2>1, <2>3, <2>7, Zenon DEF AtaInv, Aligned
  <2> QED
    BY <1>1, <2>5, <2>6, <2>8, AtaRings, Zenon DEF BlkInv
<1>8. CASE /\ dev' = [next |-> dev.next + 1, left |-> dev.left - 1]
           /\ asked.op = "write" /\ asked' = c /\ medium' = [medium EXCEPT ![dev.next] = asked.buf[k]]
           /\ UNCHANGED <<ret, truth, doubt>>
  <2> HIDE DEF c, k
  <2>1. /\ DOMAIN medium' = Sectors /\ medium'[dev.next] = asked.buf[k]
        /\ \A l \in Sectors : l # dev.next => medium'[l] = medium[l]
    BY <1>2, <1>4, <1>8, Zenon
  <2>2. Asks(c)
    BY <1>2, <1>5, Zenon DEF Asks
  <2>3. BlkTypes'
    BY <1>0, <1>1, <1>2, <1>5, <1>8, <2>1, <2>2, Zenon DEF BlkTypes, virtVars
  <2>4. Lbas(c) = Lbas(asked)
    BY <1>5, Zenon DEF Lbas
  <2>5. SectorsHold' /\ RetTrue'
    BY <1>0, <1>4, <1>5, <1>8, <2>1, <2>4, Zenon DEF SectorsHold, RetTrue
  <2>6. Moved(asked.done + asked.s)'
    <3>0. asked'.done + asked'.s = k
      BY <1>4, <1>5, <1>8, Zenon
    <3> SUFFICES ASSUME NEW i \in 1..k PROVE medium'[asked.lba + i - 1] = asked.buf[i]
      BY <1>5, <1>8, <3>0, Zenon DEF Moved
    <3>1. CASE i = k
      BY <1>4, <2>1, <3>1, Zenon
    <3>2. CASE i # k
      BY <1>2, <1>4, <2>1, <3>2, Zenon DEF Aligned, Moved
    <3> QED
      BY <3>1, <3>2, Zenon
  <2>7. AtaInv'
    BY <1>3, <1>4, <1>5, <1>8, <2>6, Zenon DEF AtaInv, Aligned
  <2> QED
    BY <1>1, <2>3, <2>5, <2>7, AtaRings, Zenon DEF BlkInv
<1> QED
  BY <1>6, <1>7, <1>8, Zenon DEF ata_sector

(* The end of a command.                                                   *)
LEMMA AtaCommandDone == BlkInv /\ ata_command_done => BlkInv'
<1> SUFFICES ASSUME BlkInv, ata_command_done PROVE BlkInv'
  OBVIOUS
<1> DEFINE c == [asked EXCEPT !.done = @ + asked.chunk]
<1>0. BlkTypes /\ SectorsHold /\ RetTrue /\ AtaInv
  BY Zenon DEF BlkInv
<1>1. /\ drv = "ata" /\ asked # NoRequest /\ asked.s = asked.chunk
      /\ UNCHANGED <<drv, medium, virtVars, calls, test>>
  BY Zenon DEF ata_command_done
<1>2. Asks(asked) /\ Aligned /\ asked.id <= calls
  BY <1>0, <1>1, Zenon DEF BlkTypes, AtaInv
<1>3. /\ asked.done \in Nat /\ asked.chunk \in Nat /\ asked.lba \in Nat /\ Len(asked.buf) \in Nat
      /\ asked.done + asked.chunk <= Len(asked.buf) /\ Moved(asked.done + asked.chunk)
  BY <1>1, <1>2, Zenon DEF Asks, Aligned, IsBuf
<1>4. /\ DOMAIN c = RequestFields /\ c.op = asked.op /\ c.lba = asked.lba /\ c.buf = asked.buf
      /\ c.done = asked.done + asked.chunk /\ c.id = asked.id
  BY <1>2, Zenon DEF Asks, RequestFields
<1> HIDE DEF c
<1>5. CASE c.done < Len(c.buf) /\ setup(c) /\ UNCHANGED <<ret, truth, doubt>>
  <2>1. PICK lba \in Nat, done \in Nat, n \in Nat :
              /\ lba = asked.lba /\ done = asked.done + asked.chunk /\ n = Len(asked.buf) /\ done < n
    <3>1. asked.done + asked.chunk \in Nat /\ asked.done + asked.chunk < Len(asked.buf)
      BY <1>3, <1>4, <1>5
    <3> QED
      BY <1>3, <3>1, Zenon
  <2> DEFINE m == Min({n - done, CHUNK})
  <2>2. m \in Nat /\ done + m <= n
    <3>1. n - done \in Int /\ n - done > 0 /\ CHUNK \in Int /\ CHUNK > 0
      BY <2>1, BlkAssumption
    <3>2. m \in {n - done, CHUNK} /\ m <= n - done
      BY <3>1, LeastOfTwo, Zenon
    <3> HIDE DEF m
    <3> QED
      BY <2>1, <3>1, <3>2
  <2>3. asked' = [c EXCEPT !.chunk = m, !.s = 0] /\ dev' = [next |-> lba + done, left |-> m]
    BY <1>4, <1>5, <2>1, Zenon DEF setup
  <2> HIDE DEF m
  <2>4. /\ DOMAIN asked' = RequestFields /\ asked'.op = asked.op /\ asked'.lba = lba /\ asked'.buf = asked.buf
        /\ asked'.id = asked.id /\ asked'.done = done /\ asked'.chunk = m /\ asked'.s = 0
    BY <1>4, <2>1, <2>3, Zenon DEF RequestFields
  <2>5. Asks(asked')
    BY <1>2, <2>1, <2>4, Zenon DEF Asks
  <2>6. BlkTypes'
    BY <1>0, <1>1, <1>2, <1>5, <2>4, <2>5, Zenon DEF BlkTypes, virtVars
  <2>7. Lbas(asked)' = Lbas(asked)
    BY <2>1, <2>4, Zenon DEF Lbas
  <2>8. SectorsHold' /\ RetTrue'
    BY <1>0, <1>1, <1>5, <2>4, <2>7, Zenon DEF SectorsHold, RetTrue
  <2>9. Moved(done)'
    BY <1>1, <1>3, <2>1, <2>4, Zenon DEF Moved
  <2>10. done + 0 = done /\ lba + done + 0 = lba + done /\ 0 \in 0..m
    BY <2>1, <2>2
  <2>11. Aligned'
    BY <2>1, <2>2, <2>3, <2>4, <2>9, <2>10, Zenon DEF Aligned
  <2> QED
    BY <1>1, <2>6, <2>8, <2>11, AtaRings, Zenon DEF BlkInv, AtaInv
<1>6. CASE c.done = Len(c.buf) /\ CallReturns(c, "Ok") /\ UNCHANGED dev
  <2>1. Moved(Len(asked.buf)) /\ UNCHANGED <<drv, medium, calls, virtVars>>
    BY <1>1, <1>3, <1>4, <1>6, Zenon
  <2> QED
    BY <1>1, <1>4, <1>6, <2>1, AtaReturns, Zenon
<1>7. CASE asked.op = "write" /\ CallReturns(asked, "Timeout") /\ UNCHANGED dev
  <2>1. UNCHANGED <<drv, medium, calls, virtVars>> /\ "Timeout" # "Ok"
    BY <1>1, Zenon
  <2> QED
    BY <1>1, <1>7, <2>1, AtaReturns, Zenon
<1> QED
  BY <1>5, <1>6, <1>7, Zenon DEF ata_command_done, c

(* The virtio device reads the descriptors.                                *)
LEMMA VirtioTake == BlkInv /\ virtio_take => BlkInv'
<1> SUFFICES ASSUME BlkInv, virtio_take PROVE BlkInv'
  OBVIOUS
<1>0. BlkTypes /\ SectorsHold /\ RetTrue /\ AtaInv /\ VirtInv
  BY Zenon DEF BlkInv
<1>1. /\ used + Len(taken) < avail /\ taken' = Append(taken, chain)
      /\ UNCHANGED <<drv, medium, asked, dev, chain, status, avail, used, ret, truth, doubt, calls, test>>
  BY Zenon DEF virtio_take
<1>2. /\ IsBuf(taken) /\ avail \in Nat /\ used \in Nat /\ Len(taken) \in Nat /\ Pending(chain)
      /\ \A j \in DOMAIN taken : Pending(taken[j]) /\ (taken[j].id = asked.id => taken[j] = chain)
  BY <1>0, <1>1, Zenon DEF VirtInv, IsBuf
<1>3. /\ IsBuf(taken') /\ Len(taken') = Len(taken) + 1 /\ taken'[Len(taken) + 1] = chain
      /\ \A i \in DOMAIN taken : taken'[i] = taken[i]
  BY <1>1, <1>2, AppendBuf, Zenon
<1>4. drv = "virtio"
  <2>1. CASE drv # "virtio"
    <3>1. avail = 0 /\ used = 0
      BY <1>0, <2>1, Zenon DEF BlkTypes
    <3> QED
      BY <1>1, <1>2, <3>1
  <2> QED
    BY <2>1, Zenon
<1>5. BlkTypes' /\ SectorsHold' /\ RetTrue' /\ AtaInv'
  BY <1>0, <1>1, <1>4, Zenon DEF BlkTypes, SectorsHold, RetTrue, AtaInv
<1>6. \A k : Pending(k) => Pending(k)'
  BY <1>1, Zenon DEF Pending
<1>7. (\A j \in DOMAIN taken : Pending(taken[j]) /\ (taken[j].id = asked.id => taken[j] = chain))'
  <2> SUFFICES ASSUME NEW j \in DOMAIN taken'
               PROVE  /\ \E k : k = taken'[j] /\ Pending(k)'
                      /\ taken'[j].id = asked'.id => taken'[j] = chain'
    BY Zenon
  <2>1. PICK n \in Nat : n = Len(taken) /\ DOMAIN taken = 1..n /\ DOMAIN taken' = 1..(n + 1)
    BY <1>2, <1>3, Zenon DEF IsBuf
  <2>2. j \in DOMAIN taken \/ j = Len(taken) + 1
    BY <2>1
  <2>3. chain' = chain /\ asked' = asked
    BY <1>1, Zenon
  <2>4. \/ taken'[j] = chain
        \/ taken'[j] = taken[j] /\ j \in DOMAIN taken
    BY <1>3, <2>2, Zenon
  <2> QED
    BY <1>2, <1>6, <2>3, <2>4, Zenon
<1>8. used' + Len(taken') <= avail' /\ avail' \in Nat /\ used' \in Nat
  BY <1>1, <1>2, <1>3
<1>9. Pending(chain)'
  BY <1>1, <1>2, <1>6, Zenon
<1>10. asked' # NoRequest => /\ Filled' /\ (used' = avail' /\ status' = "ok" => Moved(Len(asked.buf))')
                             /\ taken'[Len(taken')] = chain'
  <2>1. SUFFICES ASSUME asked # NoRequest
                 PROVE  Filled' /\ used' # avail' /\ taken'[Len(taken')] = chain'
    BY <1>1, Zenon
  <2>2. Filled'
    BY <1>0, <1>1, <1>4, <2>1, Zenon DEF VirtInv, Filled
  <2>3. used' # avail'
    BY <1>1, <1>2
  <2> QED
    BY <1>1, <1>3, <2>2, <2>3, Zenon
<1>11. VirtInv'
  BY <1>3, <1>7, <1>8, <1>9, <1>10, Zenon DEF VirtInv
<1> QED
  BY <1>5, <1>11, Zenon DEF BlkInv

(* The virtio device carries out, or fails, the first request it took.     *)
LEMMA VirtioComplete == BlkInv /\ virtio_complete => BlkInv'
<1> SUFFICES ASSUME BlkInv, virtio_complete PROVE BlkInv'
  OBVIOUS
<1> DEFINE c == Head(taken)
           live == asked.id = c.id
<1>0. BlkTypes /\ SectorsHold /\ RetTrue /\ AtaInv /\ VirtInv
  BY Zenon DEF BlkInv
<1>1. /\ taken # <<>> /\ taken' = Tail(taken) /\ used' = used + 1
      /\ UNCHANGED <<drv, dev, chain, avail, ret, truth, doubt, calls, test>>
  BY Zenon DEF virtio_complete
<1>2. \/ status' = "ioerr" /\ UNCHANGED <<medium, asked>>
      \/ /\ status' = "ok" /\ c.op = "read" /\ UNCHANGED medium
         /\ asked' = IF live THEN [asked EXCEPT !.buf = [i \in DOMAIN @ |-> medium[c.lba + i - 1]]] ELSE asked
      \/ /\ status' = "ok" /\ c.op = "write" /\ UNCHANGED asked
         /\ \E junk \in Values :
              medium' = [l \in Sectors |-> IF l \notin Lbas(c) THEN medium[l]
                                           ELSE IF live THEN c.buf[l - c.lba + 1] ELSE junk]
  BY Zenon DEF virtio_complete
<1>3. drv = "virtio" /\ drv' = "virtio"
  BY <1>0, <1>1, Zenon DEF BlkTypes
<1>4. /\ IsBuf(taken) /\ avail \in Nat /\ used \in Nat /\ Len(taken) \in Nat
      /\ used + Len(taken) <= avail /\ DOMAIN taken = 1..Len(taken)
      /\ \A j \in DOMAIN taken : Pending(taken[j]) /\ (taken[j].id = asked.id => taken[j] = chain)
      /\ used + Len(taken) < avail => Pending(chain)
  BY <1>0, Zenon DEF VirtInv, IsBuf
<1>5. /\ IsBuf(taken') /\ Len(taken') = Len(taken) - 1 /\ c = taken[1] /\ 1 \in DOMAIN taken
      /\ \A i \in DOMAIN taken' : i + 1 \in DOMAIN taken /\ taken'[i] = taken[i + 1]
  BY <1>1, <1>4, TailBuf, Zenon
<1>6. Asks(c) /\ c.id \in Nat \ {0} /\ (live => c = chain) /\ (c.op = "write" /\ ~live => Lbas(c) \subseteq doubt)
  BY <1>4, <1>5, Zenon DEF Pending, Asks
<1>7. asked # NoRequest => Filled
  BY <1>0, <1>3, Zenon DEF VirtInv
<1>8. live => /\ asked # NoRequest /\ Asks(asked) /\ Filled /\ c = chain
              /\ c.op = asked.op /\ c.lba = asked.lba /\ Len(c.buf) = Len(asked.buf)
              /\ c.op = "write" => c.buf = asked.buf
  <2> SUFFICES ASSUME live PROVE asked # NoRequest /\ c = chain
    BY <1>0, <1>7, Zenon DEF BlkTypes, Filled
  <2>1. asked # NoRequest
    BY <1>6 DEF NoRequest
  <2> QED
    BY <1>6, <2>1, Zenon
<1>9. asked # NoRequest /\ used' = avail' => live
  <2> SUFFICES ASSUME asked # NoRequest, used' = avail' PROVE live
    OBVIOUS
  <2>1. used + 1 = avail
    BY <1>1, Zenon
  <2>2. Len(taken) = 1 /\ used + Len(taken) = avail /\ Len(taken) > 0
    BY <1>4, <1>5, <2>1
  <2>3. taken[1] = chain
    BY <1>0, <1>3, <2>2, Zenon DEF VirtInv
  <2> QED
    BY <1>5, <1>7, <2>3, Zenon DEF Filled
<1> HIDE DEF c, live
(* The request keeps its shape; only the buffer of a read may change.      *)
<1>10. /\ asked' = asked \/ (asked # NoRequest /\ asked.op = "read")
       /\ asked' # NoRequest => asked # NoRequest
       /\ asked # NoRequest => /\ Asks(asked') /\ asked'.op = asked.op /\ asked'.lba = asked.lba
                               /\ asked'.id = asked.id /\ Len(asked'.buf) = Len(asked.buf)
                               /\ asked.op = "write" => asked'.buf = asked.buf
       /\ asked'.id = asked.id /\ asked'.op = asked.op /\ Lbas(asked)' = Lbas(asked)
  <2>1. CASE asked' = asked
    BY <1>0, <2>1, Zenon DEF BlkTypes, Lbas
  <2>2. CASE live /\ c.op = "read"
             /\ asked' = [asked EXCEPT !.buf = [i \in DOMAIN @ |-> medium[c.lba + i - 1]]]
    <3>1. asked # NoRequest /\ Asks(asked) /\ asked.op = "read"
      BY <1>8, <2>2, Zenon
    <3> DEFINE b == [i \in DOMAIN asked.buf |-> medium[c.lba + i - 1]]
    <3>2. DOMAIN asked.buf = 1..Len(asked.buf) /\ Len(asked.buf) \in Nat
      BY <3>1, Zenon DEF Asks, IsBuf
    <3>3. b = [i \in 1..Len(asked.buf) |-> b[i]]
      BY <3>2, Zenon
    <3>4. asked' = [asked EXCEPT !.buf = b]
      BY <2>2, Zenon
    <3> HIDE DEF b
    <3>5. IsBuf(b) /\ Len(b) = Len(asked.buf)
      BY <3>2, <3>3, FunctionIsBuf, Zenon
    <3>6. /\ DOMAIN asked' = RequestFields /\ asked'.op = asked.op /\ asked'.lba = asked.lba
          /\ asked'.id = asked.id /\ asked'.buf = b
      BY <3>1, <3>4, Zenon DEF Asks, RequestFields
    <3>7. Asks(asked')
      BY <3>1, <3>5, <3>6, Zenon DEF Asks
    <3>8. Lbas(asked)' = Lbas(asked)
      BY <3>5, <3>6, Zenon DEF Lbas
    <3> QED
      BY <3>1, <3>5, <3>6, <3>7, <3>8, Zenon
  <2> QED
    BY <1>2, <2>1, <2>2, Zenon
<1>11. /\ DOMAIN medium' = Sectors
       /\ \A l \in Sectors \ doubt : medium'[l] = medium[l] \/ (asked.op = "write" /\ l \in Lbas(asked))
  <2>1. CASE UNCHANGED medium
    BY <1>0, <2>1, Zenon DEF BlkTypes
  <2>2. CASE /\ c.op = "write"
             /\ \E junk \in Values :
                  medium' = [l \in Sectors |-> IF l \notin Lbas(c) THEN medium[l]
                                               ELSE IF live THEN c.buf[l - c.lba + 1] ELSE junk]
    <3>1. DOMAIN medium' = Sectors /\ \A l \in Sectors : l \notin Lbas(c) => medium'[l] = medium[l]
      BY <2>2, Zenon
    <3>2. CASE live
      <4>1. Lbas(c) = Lbas(asked) /\ asked.op = "write"
        BY <1>8, <2>2, <3>2, Zenon DEF Lbas
      <4> QED
        BY <3>1, <4>1, Zenon
    <3>3. CASE ~live
      BY <1>6, <2>2, <3>1, <3>3, Zenon
    <3> QED
      BY <3>2, <3>3, Zenon
  <2> QED
    BY <1>2, <2>1, <2>2, Zenon

<1>12. BlkTypes' /\ RetTrue' /\ AtaInv'
  BY <1>0, <1>1, <1>3, <1>10, <1>11, Zenon DEF BlkTypes, RetTrue, AtaInv
<1>13. SectorsHold'
  BY <1>0, <1>1, <1>10, <1>11, Zenon DEF SectorsHold
<1>14. \A k : Pending(k) => Pending(k)'
  BY <1>1, <1>10, Zenon DEF Pending
<1>15. /\ avail' \in Nat /\ used' \in Nat /\ used' + Len(taken') = used + Len(taken)
       /\ used' + Len(taken') <= avail' /\ avail' = avail /\ chain' = chain /\ Len(taken') \in Nat
  <2>1. used' = used + 1 /\ avail' = avail /\ chain' = chain /\ Len(taken') \in Nat
    BY <1>1, <1>5, Zenon DEF IsBuf
  <2> QED
    BY <1>4, <1>5, <2>1, SMTT(20)
<1>16. (\A j \in DOMAIN taken : Pending(taken[j]) /\ (taken[j].id = asked.id => taken[j] = chain))'
  <2> SUFFICES ASSUME NEW j \in DOMAIN taken'
               PROVE  /\ \E k : k = taken'[j] /\ Pending(k)'
                      /\ taken'[j].id = asked'.id => taken'[j] = chain'
    BY Zenon
  <2>1. taken'[j] = taken[j + 1] /\ j + 1 \in DOMAIN taken
    BY <1>5, Zenon
  <2> QED
    BY <1>4, <1>10, <1>14, <1>15, <2>1, Zenon
<1>17. ASSUME asked' # NoRequest
       PROVE  /\ Filled'
              /\ Len(taken') > 0 /\ used' + Len(taken') = avail' => taken'[Len(taken')] = chain'
              /\ used' = avail' /\ status' = "ok" => Moved(Len(asked.buf))'
  <2>1. asked # NoRequest
    BY <1>10, <1>17, Zenon
  <2>2. Filled'
    BY <1>7, <1>10, <1>15, <2>1, Zenon DEF Filled
  <2>3. ASSUME Len(taken') > 0, used' + Len(taken') = avail' PROVE taken'[Len(taken')] = chain'
    <3>0. Len(taken') \in Nat /\ Len(taken') > 0 /\ Len(taken) = Len(taken') + 1
      BY <1>4, <1>5, <1>15, <2>3
    <3>1. PICK n \in Nat : n = Len(taken') /\ n > 0 /\ Len(taken) = n + 1
      BY <3>0, Zenon
    <3>2. DOMAIN taken' = 1..n
      BY <1>5, <3>1, Zenon DEF IsBuf
    <3>3. taken'[n] = taken[n + 1]
      BY <1>5, <3>1, <3>2
    <3>4. Len(taken) > 0 /\ used + Len(taken) = avail
      BY <1>15, <2>3, <3>1
    <3>5. taken[Len(taken)] = chain
      BY <1>0, <1>3, <2>1, <3>4, Zenon DEF VirtInv
    <3> QED
      BY <1>15, <3>1, <3>3, <3>5, Zenon
  <2>4. ASSUME used' = avail', status' = "ok" PROVE Moved(Len(asked.buf))'
    <3>1. live
      BY <1>9, <2>1, <2>4, Zenon
    <3>2. /\ Asks(asked) /\ c.op = asked.op /\ c.lba = asked.lba /\ Len(c.buf) = Len(asked.buf)
          /\ c.op = "write" => c.buf = asked.buf
      BY <1>8, <3>1, Zenon
    <3>3. PICK lba \in Nat, n \in Nat :
                /\ lba = asked.lba /\ n = Len(asked.buf) /\ lba + n <= NSectors /\ NSectors \in Nat
                /\ DOMAIN asked.buf = 1..n
      BY <3>2, BlkAssumption, Zenon DEF Asks, IsBuf
    <3>4. Len(asked'.buf) = n /\ asked'.lba = lba
      BY <1>10, <2>1, <3>3, Zenon
    <3> SUFFICES ASSUME NEW i \in 1..n PROVE medium'[lba + i - 1] = asked'.buf[i]
      BY <3>4, Zenon DEF Moved
    <3>5. CASE /\ c.op = "read" /\ UNCHANGED medium
               /\ asked' = [asked EXCEPT !.buf = [k \in DOMAIN @ |-> medium[c.lba + k - 1]]]
      <4>1. asked'.buf = [k \in 1..n |-> medium[lba + k - 1]]
        BY <3>2, <3>3, <3>5, Zenon DEF Asks, RequestFields
      <4> QED
        BY <3>5, <4>1, Zenon
    <3>6. CASE /\ c.op = "write" /\ UNCHANGED asked
               /\ medium' = [l \in Sectors |-> IF l \notin Lbas(c) THEN medium[l] ELSE c.buf[l - c.lba + 1]]
      <4>1. Lbas(c) = lba..(lba + n - 1) /\ c.buf = asked.buf /\ c.lba = lba
        BY <3>2, <3>3, <3>6, Zenon DEF Lbas
      <4>2. lba + i - 1 \in 0..(NSectors - 1) /\ lba + i - 1 \in lba..(lba + n - 1) /\ lba + i - 1 - lba + 1 = i
        BY <3>3, SMTT(20)
      <4>3. medium'[lba + i - 1] = c.buf[lba + i - 1 - lba + 1]
        BY <3>6, <4>1, <4>2 DEF Sectors
      <4> QED
        BY <3>6, <4>1, <4>2, <4>3, Zenon
    <3>7. \/ /\ c.op = "read" /\ UNCHANGED medium
             /\ asked' = [asked EXCEPT !.buf = [k \in DOMAIN @ |-> medium[c.lba + k - 1]]]
          \/ /\ c.op = "write" /\ UNCHANGED asked
             /\ medium' = [l \in Sectors |-> IF l \notin Lbas(c) THEN medium[l] ELSE c.buf[l - c.lba + 1]]
      BY <1>2, <2>4, <3>1, Zenon
    <3> QED
      BY <3>5, <3>6, <3>7, Zenon
  <2> QED
    BY <2>2, <2>3, <2>4, Zenon
<1>18. VirtInv'
  <2>1. used' + Len(taken') < avail' => Pending(chain)'
    BY <1>4, <1>14, <1>15, Zenon
  <2> QED
    BY <1>5, <1>15, <1>16, <1>17, <2>1, Zenon DEF VirtInv
<1> QED
  BY <1>12, <1>13, <1>18, Zenon DEF BlkInv

(* The virtio driver's poll ends: what it leaves to the device is in doubt.*)
LEMMA RequestStep == BlkInv /\ request => BlkInv'
<1> SUFFICES ASSUME BlkInv, request PROVE BlkInv'
  OBVIOUS
<1>0. BlkTypes /\ SectorsHold /\ RetTrue /\ AtaInv /\ VirtInv
  BY Zenon DEF BlkInv
<1>1. drv = "virtio" /\ asked # NoRequest /\ UNCHANGED <<drv, medium, dev, virtVars, calls, test>>
  BY Zenon DEF request
<1>2. PICK r : /\ CallReturns(asked, r)
               /\ r = "Ok" => used = avail /\ status = "ok"
  BY DEF request
<1>3. r = "Ok" => Moved(Len(asked.buf))
  BY <1>0, <1>1, <1>2, Zenon DEF VirtInv
<1>4. /\ SectorsHold' /\ RetTrue' /\ asked' = NoRequest
      /\ doubt \subseteq doubt' /\ doubt' \subseteq Sectors
      /\ r # "Ok" /\ asked.op = "write" => Lbas(asked) \subseteq doubt'
  BY <1>0, <1>1, <1>2, <1>3, ReturnIsTrue, Zenon
<1>5. BlkTypes' /\ AtaInv'
  BY <1>0, <1>1, <1>4, Zenon DEF BlkTypes, AtaInv, virtVars
<1>6. /\ avail \in Nat /\ used \in Nat /\ Len(taken) \in Nat /\ DOMAIN taken = 1..Len(taken)
      /\ used + Len(taken) <= avail /\ Filled
      /\ \A j \in DOMAIN taken : Pending(taken[j]) /\ (taken[j].id = asked.id => taken[j] = chain)
      /\ used + Len(taken) < avail => Pending(chain)
  BY <1>0, <1>1, Zenon DEF VirtInv, IsBuf
<1>7. r = "Ok" => DOMAIN taken = {} /\ ~(used + Len(taken) < avail)
  BY <1>2, <1>6
<1>8. asked.op = "write" /\ r # "Ok" => Lbas(chain) \subseteq doubt'
  <2>1. Lbas(chain) = Lbas(asked)
    BY <1>6, Zenon DEF Filled, Lbas
  <2> QED
    BY <1>4, <2>1, Zenon
<1>9. ASSUME NEW k, Pending(k), k.id = asked.id => k = chain, r # "Ok"
      PROVE  Pending(k)' /\ k.id # asked'.id
  <2>1. k.op = "write" => Lbas(k) \subseteq doubt'
    <3>1. CASE k.id = asked.id
      BY <1>6, <1>8, <1>9, <3>1, Zenon DEF Filled
    <3>2. CASE k.id # asked.id
      BY <1>4, <1>9, <3>2, Zenon DEF Pending
    <3> QED
      BY <3>1, <3>2, Zenon
  <2>2. Asks(k) /\ k.id <= calls' /\ k.id # 0
    BY <1>1, <1>9, Zenon DEF Pending, Asks
  <2> QED
    BY <1>4, <2>1, <2>2, Zenon DEF Pending, NoRequest
<1>10. (\A j \in DOMAIN taken : Pending(taken[j]) /\ (taken[j].id = asked.id => taken[j] = chain))'
  <2> SUFFICES ASSUME NEW j \in DOMAIN taken'
               PROVE  /\ \E k : k = taken'[j] /\ Pending(k)'
                      /\ taken'[j].id # asked'.id
    BY Zenon
  <2>1. taken' = taken
    BY <1>1, Zenon DEF virtVars
  <2>2. r # "Ok" /\ j \in DOMAIN taken
    BY <1>7, <2>1, Zenon
  <2> QED
    BY <1>6, <1>9, <2>1, <2>2, Zenon
<1>11. (used + Len(taken) < avail => Pending(chain))'
  <2>1. used' = used /\ taken' = taken /\ avail' = avail /\ chain' = chain
    BY <1>1, Zenon DEF virtVars
  <2>2. used + Len(taken) < avail => r # "Ok" /\ Pending(chain)
    BY <1>6, <1>7, Zenon
  <2> QED
    BY <1>9, <2>1, <2>2, Zenon
<1>12. VirtInv'
  <2>1. (avail \in Nat /\ used \in Nat /\ IsBuf(taken) /\ used + Len(taken) <= avail)'
    BY <1>0, <1>1, Zenon DEF VirtInv, virtVars
  <2> QED
    BY <1>4, <1>10, <1>11, <2>1, Zenon DEF VirtInv
<1> QED
  BY <1>4, <1>5, <1>12, Zenon DEF BlkInv

(* The steps that call no driver.                                          *)
LEMMA IdleSteps == BlkInv /\ (probe \/ verify_reports \/ UNCHANGED blkVars) => BlkInv'
<1> SUFFICES ASSUME BlkInv, probe \/ verify_reports \/ UNCHANGED blkVars PROVE BlkInv'
  OBVIOUS
<1>0. BlkTypes /\ SectorsHold /\ RetTrue /\ AtaInv /\ VirtInv
  BY Zenon DEF BlkInv
<1>1. UNCHANGED <<medium, asked, dev, virtVars, ret, truth, doubt, calls>>
  BY Zenon DEF probe, verify_reports, blkVars
<1>2. drv' = drv \/ (drv = "none" /\ drv' \in {"ata", "virtio", "absent"} /\ asked = NoRequest)
  <2>1. CASE probe
    <3>1. PICK d \in AtaDevices \cup VirtioDevices :
                drv' = IF IF d.kind = "ata" THEN ata_probe(d) ELSE virtio_probe(d) THEN d.kind ELSE "absent"
      BY <2>1, Zenon DEF probe
    <3>2. d.kind \in {"ata", "virtio"} /\ drv = "none"
      BY <2>1, Zenon DEF AtaDevices, VirtioDevices, probe
    <3> QED
      BY <1>0, <3>1, <3>2, Zenon DEF BlkTypes
  <2>2. CASE verify_reports \/ UNCHANGED blkVars
    BY <2>2, Zenon DEF verify_reports, blkVars
  <2> QED
    BY <2>1, <2>2, Zenon
<1>3. BlkTypes' /\ SectorsHold' /\ RetTrue'
  BY <1>0, <1>1, <1>2, Zenon DEF BlkTypes, SectorsHold, RetTrue, virtVars
<1>4. \A k : Pending(k) => Pending(k)'
  BY <1>1, Zenon DEF Pending
<1>5. AtaInv'
  BY <1>0, <1>1, <1>2, Zenon DEF AtaInv, Aligned, Moved
<1>6. VirtInv'
  <2>1. asked' = asked /\ avail' = avail /\ used' = used /\ taken' = taken /\ chain' = chain /\ status' = status
        /\ medium' = medium
    BY <1>1, Zenon DEF virtVars
  <2>2. asked # NoRequest => drv' = drv
    BY <1>2, Zenon
  <2> QED
    BY <1>0, <1>4, <2>1, <2>2, Zenon DEF VirtInv, Filled, Moved
<1> QED
  BY <1>3, <1>5, <1>6, Zenon DEF BlkInv

LEMMA BlkStep == BlkInv /\ [BlkNext]_blkVars => BlkInv'
<1> SUFFICES ASSUME BlkInv, [BlkNext]_blkVars PROVE BlkInv'
  OBVIOUS
<1>1. ASSUME NEW lba \in 0..NSectors, NEW count \in 0..MaxCount, read_blocks(lba, count) PROVE BlkInv'
  <2> DEFINE b == [i \in 1..count |-> Unread]
  <2>1. lba \in Nat /\ count \in Nat /\ b = [i \in 1..count |-> b[i]]
    BY BlkAssumption
  <2>2. BeginsAt("read", lba, b)
    BY <1>1, Zenon DEF read_blocks
  <2> HIDE DEF b
  <2> QED
    BY <2>1, <2>2, FunctionIsBuf, BeginStep, Zenon
<1>2. ASSUME NEW lba \in 0..NSectors, NEW n \in 0..MaxCount, NEW vals \in [1..n -> Values],
             write_blocks(lba, vals)
      PROVE  BlkInv'
  <2>1. lba \in Nat /\ n \in Nat /\ vals = [i \in 1..n |-> vals[i]]
    BY BlkAssumption
  <2>2. BeginsAt("write", lba, vals)
    BY <1>2, Zenon DEF write_blocks
  <2> QED
    BY <2>1, <2>2, FunctionIsBuf, BeginStep, Zenon
<1>3. ASSUME NEW x PROVE IsBuf(<<x>>)
  <2>1. <<x>> \in Seq({x})
    OBVIOUS
  <2> QED
    BY <2>1, SeqIsBuf, Zenon
<1>4. 0 \in Nat /\ 1 \in Nat /\ LastSector \in Nat
  BY BlkAssumption DEF LastSector
<1>5. CASE verify_mbr \/ verify_descriptor \/ verify_save \/ verify_pattern \/ verify_readback \/ verify_restore
  <2>1. \E op \in {"read", "write"}, lba \in Nat : \E x : BeginsAt(op, lba, <<x>>)
    BY <1>4, <1>5, Zenon DEF verify_mbr, verify_descriptor, verify_save, verify_pattern, verify_readback,
                      verify_restore, TestStep
  <2> QED
    BY <1>3, <2>1, BeginStep, Zenon
<1> QED
  BY <1>1, <1>2, <1>5, AtaSector, AtaCommandDone, VirtioTake, VirtioComplete, RequestStep, IdleSteps, Zenon DEF BlkNext

(* A block driver's Ok is true, whatever the device fails, delays or still *)
(* carries out, and whatever calls were made (read_blocks, write_blocks,   *)
(* request).                                                               *)
THEOREM OkIsTrueHolds == BlkSpec => []OkIsTrue
<1>1. BlkInit => BlkInv
  <2> SUFFICES ASSUME BlkInit PROVE BlkInv
    OBVIOUS
  <2>1. IsBuf(<<>>) /\ Len(<<>>) = 0 /\ DOMAIN <<>> = {}
    BY DEF IsBuf
  <2>2. BlkTypes /\ SectorsHold /\ RetTrue /\ AtaInv
    BY DEF BlkInit, BlkTypes, SectorsHold, RetTrue, AtaInv, Code, Lbas
  <2>3. VirtInv
    BY <2>1 DEF BlkInit, VirtInv
  <2> QED
    BY <2>2, <2>3, Zenon DEF BlkInv
<1>2. BlkInv => OkIsTrue
  BY DEF BlkInv, OkIsTrue, SectorsHold, RetTrue, NoRequest
<1> QED
  BY <1>1, <1>2, BlkStep, PTL DEF BlkSpec

-----------------------------------------------------------------------------
(* Numbers.                                                                *)

(* A set of numbers has a least one.                                       *)
LEMMA LeastNat ==
  ASSUME NEW T, T \subseteq Nat, T # {}
  PROVE  \E x \in T : \A y \in T : x <= y
<1> DEFINE R == {ss \in Nat \X Nat : ss[1] < ss[2]}
<1>1. IsWellFoundedOn(R, Nat)
  BY NatLessThanWellFounded, Zenon DEF OpToRel
<1>a. \A y, x \in Nat : y < x => <<y, x>> \in R
  OBVIOUS
<1> HIDE DEF R
<1>2. PICK x \in T : \A y \in T : ~(<<y, x>> \in R)
  BY <1>1, WFMin, Zenon
<1>3. \A y \in T : ~(y < x) /\ y \in Nat /\ x \in Nat
  BY <1>2, <1>a, Zenon
<1>4. \A y \in T : x <= y
  BY <1>3
<1> QED
  BY <1>4, Zenon

(* Induction, for a set in the place of a predicate.                       *)
LEMMA Inductive ==
  ASSUME NEW T, 0 \in T, \A n \in Nat : n \in T => n + 1 \in T
  PROVE  Nat \subseteq T
<1> SUFFICES ASSUME Nat \ T # {} PROVE FALSE
  OBVIOUS
<1>1. PICK x \in Nat \ T : \A y \in Nat \ T : x <= y
  BY LeastNat, Zenon
<1>2. x # 0 /\ x - 1 \in Nat /\ (x - 1) + 1 = x /\ ~(x <= x - 1)
  BY <1>1
<1>3. x - 1 \in T
  BY <1>1, <1>2, Zenon
<1> QED
  BY <1>1, <1>2, <1>3, Zenon

LEMMA LastIsMax == ASSUME NEW k \in Nat, NEW s \in SUBSET (1..k), k \in s PROVE Max(s) = k
<1>1. k \in s /\ \A y \in s : k >= y
  OBVIOUS
<1>2. \A z \in s : (\A y \in s : z >= y) => z = k
  OBVIOUS
<1> QED
  BY <1>1, <1>2, Zenon DEF Max

-----------------------------------------------------------------------------
(* The keyboard and the timer.                                             *)

\* The line a handler has to acknowledge.
Serves(v) == CASE v = 32 -> {0} [] v = 33 -> {1} [] v = 47 -> {2} [] OTHER -> {}

\* The program points at which the kernel waits for a time with interrupts on.
TimedPoints == {"wt_check", "wt_gap", "wt_halt", "wo_lock", "wo_pop", "wo_gap", "wo_halt", "sl_halt"}

\* The inductive invariant of TimedWaitsWake: what is in service is the line of
\* the handler that runs.
WakeInv ==
    /\ irq \in {0, 32, 33, 39, 47} /\ isr = Serves(irq)
    /\ irq = 0 /\ ip \in TimedPoints => ifl

LEMMA LeastOfOne == \A i \in Int : Min({i}) = i
BY DEF Min

(* An end-of-interrupt that the master gets while one of its lines is in   *)
(* service ends that line, and the slave's is not sent (pic_eoi,           *)
(* pic_spurious).                                                          *)
LEMMA EoiEnds ==
    /\ \A i \in 0..7 : eoi({i}, Master) = {} /\ eoi({i}, Slave) = {i}
    /\ pic_eoi(32, {0}) = {} /\ pic_eoi(33, {1}) = {}
    /\ pic_spurious(39, {}) = {} /\ pic_spurious(47, {2}) = {}
<1>1. \A i \in 0..7 : eoi({i}, Master) = {} /\ eoi({i}, Slave) = {i}
  <2> SUFFICES ASSUME NEW i \in 0..7 PROVE eoi({i}, Master) = {} /\ eoi({i}, Slave) = {i}
    OBVIOUS
  <2>1. i \in Master /\ i \notin Slave /\ Min({i}) = i
    BY LeastOfOne DEF Master, Slave
  <2>2. {i} \cap Master = {i} /\ {i} \cap Slave = {}
    BY <2>1, Zenon
  <2> QED
    BY <2>1, <2>2, Zenon DEF eoi
<1> QED
  BY <1>1 DEF pic_eoi, pic_spurious

LEMMA WakeStep == WakeInv /\ [InputNext]_inputVars => WakeInv'
<1> SUFFICES ASSUME WakeInv, [InputNext]_inputVars PROVE WakeInv'
  OBVIOUS
<1>1. CASE AcceptTimer \/ AcceptKeyboard \/ AcceptSpurious
  BY <1>1 DEF AcceptTimer, AcceptKeyboard, AcceptSpurious, Enter, WakeInv, Serves
<1>2. CASE cibos_timer_irq \/ cibos_keyboard_irq \/ cibos_pic_spurious_irq
  <2>1. irq' = 0 /\ ifl' = TRUE
    BY <1>2, Zenon DEF cibos_timer_irq, cibos_keyboard_irq, cibos_pic_spurious_irq, Iret
  <2>2. isr' = {}
    BY <1>2, EoiEnds DEF cibos_timer_irq, cibos_keyboard_irq, cibos_pic_spurious_irq, WakeInv, Serves
  <2> QED
    BY <2>1, <2>2 DEF WakeInv, Serves
<1>3. CASE PitTick \/ KeyByte \/ UNCHANGED inputVars
  BY <1>3, Zenon DEF PitTick, KeyByte, inputVars, WakeInv, Serves
<1>4. CASE Kernel
  <2> USE DEF Goto, HW, WakeInv, TimedPoints
  <2>1. CASE Hlt
    BY <2>1, Zenon DEF Hlt
  <2>2. CASE wait_ticks
    BY <2>2, Zenon DEF wait_ticks
  <2>3. CASE Lock
    BY <2>3, Zenon DEF Lock
  <2>4. CASE wait_ticks_or
    BY <2>4, Zenon DEF wait_ticks_or
  <2>5. CASE wait_for
    BY <2>5, Zenon DEF wait_for
  <2>6. CASE read_key
    BY <2>6, Zenon DEF read_key, Return
  <2>7. CASE read_key_woken
    BY <2>7, Zenon DEF read_key_woken, Return
  <2>8. CASE sleep_nanos
    BY <2>8, Zenon DEF sleep_nanos
  <2> QED
    BY <1>4, <2>1, <2>2, <2>3, <2>4, <2>5, <2>6, <2>7, <2>8, Zenon DEF Kernel
<1>5. CASE CallReadKey \/ CallSleep \/ run_gui_app
  BY <1>5, Zenon DEF CallReadKey, CallSleep, run_gui_app, Trap, HW, WakeInv, TimedPoints
<1> QED
  BY <1>1, <1>2, <1>3, <1>4, <1>5, Zenon DEF InputNext

(* Every wait for a time can be woken, through any number of spurious      *)
(* interrupts and any interleaving of the handlers with the program        *)
(* (arch/x86_64.rs, timer.rs, keyboard.rs).                                *)
THEOREM TimedWaitsWakeHolds == InputSpec => []TimedWaitsWake
<1>1. InputInit => WakeInv
  BY DEF InputInit, WakeInv, Serves
<1>2. WakeInv => TimedWaitsWake
  BY DEF WakeInv, TimedWaitsWake, TimedPoints, Serves
<1> QED
  BY <1>1, <1>2, WakeStep, PTL DEF InputSpec

-----------------------------------------------------------------------------
(* The key ring.                                                           *)

RingFields == {"buf", "head", "len"}

RingTypes ==
    /\ DOMAIN ring = RingFields /\ DOMAIN ring.buf = 0..(QUEUE_CAP - 1)
    /\ ring.head \in 0..(QUEUE_CAP - 1) /\ ring.len \in 0..QUEUE_CAP
    /\ popped \in Nat /\ lost \in Nat /\ \E S : struck \in Seq(S)

\* The inductive invariant of KeysInOrder.
RingInv == RingTypes /\ KeysInOrder

Place(a) == a % QUEUE_CAP

(* An index runs around the ring once at most.                             *)
LEMMA Around ==
    \A a \in Nat : a < 2 * QUEUE_CAP => Place(a) = IF a < QUEUE_CAP THEN a ELSE a - QUEUE_CAP
BY InputAssumption DEF Place

(* Places of the ring, counted from its head and from the place after it.  *)
LEMMA Places ==
    ASSUME NEW h \in 0..(QUEUE_CAP - 1)
    PROVE  /\ Place(h) = h /\ Place(h + QUEUE_CAP) = h /\ Place(h + 1) \in 0..(QUEUE_CAP - 1)
           /\ \A i \in 0..QUEUE_CAP : Place(h + i) \in 0..(QUEUE_CAP - 1)
           /\ \A i \in 1..(QUEUE_CAP - 1) : Place(h + i) # h
           /\ \A i \in 0..(QUEUE_CAP - 1) : Place(Place(h + 1) + i) = Place(h + (i + 1))
           /\ \A i, j \in 0..(QUEUE_CAP - 1) : Place(h + i) = Place(h + j) => i = j
<1>1. QUEUE_CAP \in Nat \ {0}
  BY InputAssumption, Zenon
<1> QED
  BY <1>1, Around

(* A key goes to the end of the history.                                   *)
LEMMA Strikes ==
    ASSUME \E S : struck \in Seq(S), NEW ev, struck' = Append(struck, ev)
    PROVE  /\ \E S : struck' \in Seq(S)
           /\ Len(struck) \in Nat /\ Len(struck') = Len(struck) + 1
           /\ struck'[Len(struck) + 1] = ev /\ \A i \in 1..Len(struck) : struck'[i] = struck[i]
<1>1. PICK S : struck \in Seq(S)
  OBVIOUS
<1>2. struck \in Seq(S \cup {ev})
  BY <1>1
<1> QED
  BY <1>2

(* A reader takes the oldest key (KeyQueue::pop).                          *)
LEMMA PopKeeps ==
    ASSUME RingInv, ring.len # 0, ring' = ring_pop(ring), popped' = popped + 1, UNCHANGED <<struck, lost>>
    PROVE  RingInv'
<1>1. PICK h \in 0..(QUEUE_CAP - 1), m \in 1..QUEUE_CAP, n \in Nat :
         /\ h = ring.head /\ m = ring.len /\ n = Len(struck) /\ popped + lost + m = n
         /\ \A i \in 0..(m - 1) : ring.buf[Place(h + i)] = struck[n - m + 1 + i]
  <2>1. Len(struck) \in Nat /\ ring.len \in 1..QUEUE_CAP
    BY InputAssumption DEF RingInv, RingTypes
  <2> QED
    BY <2>1, Zenon DEF RingInv, RingTypes, KeysInOrder, Place
<1>2. /\ DOMAIN ring = RingFields /\ DOMAIN ring.buf = 0..(QUEUE_CAP - 1) /\ popped \in Nat /\ lost \in Nat
      /\ \E S : struck \in Seq(S)
  BY Zenon DEF RingInv, RingTypes
<1>3. /\ DOMAIN ring' = RingFields /\ DOMAIN ring'.buf = 0..(QUEUE_CAP - 1)
      /\ ring'.head = Place(h + 1) /\ ring'.len = m - 1
      /\ \A k \in 0..(QUEUE_CAP - 1) : k # h => ring'.buf[k] = ring.buf[k]
  BY <1>1, <1>2, Zenon DEF ring_pop, RingFields, Place
<1>4. QUEUE_CAP \in Nat /\ Place(h) = h /\ Place(h + 1) \in 0..(QUEUE_CAP - 1)
  BY InputAssumption, Places, Zenon
<1>5. ASSUME NEW i \in 0..(m - 2)
      PROVE  ring'.buf[Place(Place(h + 1) + i)] = struck[n - (m - 1) + 1 + i]
  <2>1. /\ i \in 0..(QUEUE_CAP - 1) /\ i + 1 \in 0..QUEUE_CAP /\ i + 1 \in 1..(QUEUE_CAP - 1)
        /\ i + 1 \in 0..(m - 1) /\ n - m + 1 + (i + 1) = n - (m - 1) + 1 + i
    BY <1>4
  <2>2. /\ Place(Place(h + 1) + i) = Place(h + (i + 1)) /\ Place(h + (i + 1)) \in 0..(QUEUE_CAP - 1)
        /\ Place(h + (i + 1)) # h
    BY <2>1, Places, Zenon
  <2>3. ring.buf[Place(h + (i + 1))] = struck[n - m + 1 + (i + 1)]
    BY <1>1, <2>1, Zenon
  <2>4. ring'.buf[Place(h + (i + 1))] = ring.buf[Place(h + (i + 1))]
    BY <1>3, <2>2, Zenon
  <2> QED
    BY <2>1, <2>2, <2>3, <2>4, Zenon
<1>6. m - 1 \in 0..QUEUE_CAP /\ popped + 1 \in Nat /\ (popped + 1) + lost + (m - 1) = n /\ (m - 1) - 1 = m - 2
  <2>1. popped + lost + m = n
    BY <1>1, Zenon
  <2> QED
    BY <1>2, <1>4, <2>1
<1>7. RingTypes'
  BY <1>2, <1>3, <1>4, <1>6, Zenon DEF RingTypes
<1>8. KeysInOrder'
  <2>1. Len(struck') = n /\ struck' = struck /\ ring'.len - 1 = m - 2 /\ popped' + lost' + ring'.len = n
    BY <1>1, <1>3, <1>6, Zenon
  <2> SUFFICES ASSUME NEW i \in 0..(m - 2)
               PROVE  ring'.buf[(ring'.head + i) % QUEUE_CAP] = struck'[n - ring'.len + 1 + i]
    BY <2>1, Zenon DEF KeysInOrder
  <2> QED
    BY <1>3, <1>5, <2>1, Zenon DEF Place
<1> QED
  BY <1>7, <1>8, Zenon DEF RingInv

(* The keyboard handler adds the newest key, in the place of the oldest if *)
(* the ring is full (KeyQueue::push).                                      *)
LEMMA PushKeeps ==
    ASSUME RingInv, NEW ev, ring' = ring_push(ring, ev), struck' = Append(struck, ev), UNCHANGED popped,
           lost' = lost + bit(ring.len = QUEUE_CAP)
    PROVE  RingInv'
<1>1. PICK h \in 0..(QUEUE_CAP - 1), m \in 0..QUEUE_CAP, n \in Nat :
         /\ h = ring.head /\ m = ring.len /\ n = Len(struck) /\ popped + lost + m = n
         /\ \A i \in 0..(m - 1) : ring.buf[Place(h + i)] = struck[n - m + 1 + i]
  <2>1. Len(struck) \in Nat
    BY DEF RingInv, RingTypes
  <2> QED
    BY <2>1, Zenon DEF RingInv, RingTypes, KeysInOrder, Place
<1>2. /\ DOMAIN ring = RingFields /\ DOMAIN ring.buf = 0..(QUEUE_CAP - 1) /\ popped \in Nat /\ lost \in Nat
      /\ \E S : struck \in Seq(S)
  BY Zenon DEF RingInv, RingTypes
<1>3. /\ \E S : struck' \in Seq(S)
      /\ Len(struck') = n + 1 /\ struck'[n + 1] = ev /\ \A i \in 1..n : struck'[i] = struck[i]
  BY <1>1, <1>2, Strikes, Zenon
<1>4. /\ QUEUE_CAP \in Nat \ {0} /\ Place(h) = h /\ Place(h + 1) \in 0..(QUEUE_CAP - 1)
      /\ Place(h + QUEUE_CAP) = h /\ Place(h + m) \in 0..(QUEUE_CAP - 1)
  BY InputAssumption, Places, Zenon
<1>5. popped + lost + m = n /\ n >= m
  <2>1. popped + lost + m = n
    BY <1>1, Zenon
  <2> QED
    BY <1>2, <2>1
<1>6. CASE m = QUEUE_CAP
  <2>1. /\ DOMAIN ring' = RingFields /\ DOMAIN ring'.buf = 0..(QUEUE_CAP - 1)
        /\ ring'.head = Place(h + 1) /\ ring'.len = m /\ ring'.buf[h] = ev
        /\ \A k \in 0..(QUEUE_CAP - 1) : k # h => ring'.buf[k] = ring.buf[k]
    BY <1>1, <1>2, <1>6, Zenon DEF ring_push, RingFields, Place
  <2>2. lost' = lost + 1
    BY <1>1, <1>6, Zenon DEF bit
  <2>3. ASSUME NEW i \in 0..(m - 1)
        PROVE  ring'.buf[Place(Place(h + 1) + i)] = struck'[(n + 1) - m + 1 + i]
    <3>1. Place(Place(h + 1) + i) = Place(h + (i + 1))
      BY <1>4, <1>6, Places, Zenon
    <3>2. CASE i = m - 1
      <4>1. i + 1 = QUEUE_CAP /\ (n + 1) - m + 1 + i = n + 1
        BY <1>4, <1>6, <3>2
      <4> QED
        BY <1>3, <1>4, <2>1, <3>1, <4>1, Zenon
    <3>3. CASE i # m - 1
      <4>1. /\ i + 1 \in 1..(QUEUE_CAP - 1) /\ i + 1 \in 0..QUEUE_CAP /\ i + 1 \in 0..(m - 1)
            /\ n - m + 1 + (i + 1) = (n + 1) - m + 1 + i /\ (n + 1) - m + 1 + i \in 1..n
        BY <1>4, <1>6, <1>5, <3>3
      <4>2. Place(h + (i + 1)) \in 0..(QUEUE_CAP - 1) /\ Place(h + (i + 1)) # h
        BY <4>1, Places, Zenon
      <4>3. ring.buf[Place(h + (i + 1))] = struck[n - m + 1 + (i + 1)]
        BY <1>1, <4>1, Zenon
      <4>4. ring'.buf[Place(h + (i + 1))] = ring.buf[Place(h + (i + 1))]
        BY <2>1, <4>2, Zenon
      <4>5. struck'[(n + 1) - m + 1 + i] = struck[(n + 1) - m + 1 + i]
        BY <1>3, <4>1, Zenon
      <4> QED
        BY <3>1, <4>1, <4>3, <4>4, <4>5, Zenon
    <3> QED
      BY <3>2, <3>3, Zenon
  <2>4. lost + 1 \in Nat /\ popped + (lost + 1) + m = n + 1
    BY <1>2, <1>5
  <2>5. RingTypes'
    BY <1>2, <1>3, <1>4, <2>1, <2>2, <2>4, Zenon DEF RingTypes
  <2>6. KeysInOrder'
    <3>1. Len(struck') = n + 1 /\ ring'.len - 1 = m - 1 /\ popped' + lost' + ring'.len = n + 1
      BY <1>3, <2>1, <2>2, <2>4, Zenon
    <3> SUFFICES ASSUME NEW i \in 0..(m - 1)
                 PROVE  ring'.buf[(ring'.head + i) % QUEUE_CAP] = struck'[(n + 1) - ring'.len + 1 + i]
      BY <3>1, Zenon DEF KeysInOrder
    <3> QED
      BY <2>1, <2>3, Zenon DEF Place
  <2> QED
    BY <2>5, <2>6, Zenon DEF RingInv
<1>7. CASE m # QUEUE_CAP
  <2>1. /\ DOMAIN ring' = RingFields /\ DOMAIN ring'.buf = 0..(QUEUE_CAP - 1)
        /\ ring'.head = h /\ ring'.len = m + 1 /\ ring'.buf[Place(h + m)] = ev
        /\ \A k \in 0..(QUEUE_CAP - 1) : k # Place(h + m) => ring'.buf[k] = ring.buf[k]
    BY <1>1, <1>2, <1>4, <1>7, Zenon DEF ring_push, RingFields, Place
  <2>2. lost' = lost
    BY <1>1, <1>2, <1>7 DEF bit
  <2>3. ASSUME NEW i \in 0..m
        PROVE  ring'.buf[Place(h + i)] = struck'[(n + 1) - (m + 1) + 1 + i]
    <3>1. CASE i = m
      <4>1. (n + 1) - (m + 1) + 1 + i = n + 1
        BY <3>1
      <4> QED
        BY <1>3, <2>1, <3>1, <4>1, Zenon
    <3>2. CASE i # m
      <4>1. /\ i \in 0..(QUEUE_CAP - 1) /\ m \in 0..(QUEUE_CAP - 1) /\ i \in 0..(m - 1)
            /\ (n + 1) - (m + 1) + 1 + i = n - m + 1 + i /\ n - m + 1 + i \in 1..n
            /\ i \in 0..QUEUE_CAP
        BY <1>4, <1>7, <1>5, <3>2
      <4>2. Place(h + i) # Place(h + m) /\ Place(h + i) \in 0..(QUEUE_CAP - 1)
        <5>1. Place(h + i) \in 0..(QUEUE_CAP - 1)
          BY <4>1, Places, Zenon
        <5>2. \A j, k \in 0..(QUEUE_CAP - 1) : Place(h + j) = Place(h + k) => j = k
          BY Places, Zenon
        <5> QED
          BY <3>2, <4>1, <5>1, <5>2, Zenon
      <4>3. ring.buf[Place(h + i)] = struck[n - m + 1 + i]
        BY <1>1, <4>1, Zenon
      <4>4. ring'.buf[Place(h + i)] = ring.buf[Place(h + i)]
        BY <2>1, <4>2, Zenon
      <4>5. struck'[n - m + 1 + i] = struck[n - m + 1 + i]
        BY <1>3, <4>1, Zenon
      <4> QED
        BY <4>1, <4>3, <4>4, <4>5, Zenon
    <3> QED
      BY <3>1, <3>2, Zenon
  <2>4. m + 1 \in 0..QUEUE_CAP /\ popped + lost + (m + 1) = n + 1 /\ (m + 1) - 1 = m
    BY <1>2, <1>4, <1>7, <1>5
  <2>5. RingTypes'
    BY <1>2, <1>3, <1>4, <2>1, <2>2, <2>4, Zenon DEF RingTypes
  <2>6. KeysInOrder'
    <3>1. Len(struck') = n + 1 /\ ring'.len - 1 = m /\ popped' + lost' + ring'.len = n + 1
      BY <1>3, <2>1, <2>2, <2>4, Zenon
    <3> SUFFICES ASSUME NEW i \in 0..m
                 PROVE  ring'.buf[(ring'.head + i) % QUEUE_CAP] = struck'[(n + 1) - ring'.len + 1 + i]
      BY <3>1, Zenon DEF KeysInOrder
    <3> QED
      BY <2>1, <2>3, Zenon DEF Place
  <2> QED
    BY <2>5, <2>6, Zenon DEF RingInv
<1> QED
  BY <1>6, <1>7, Zenon

LEMMA RingStep == RingInv /\ [InputNext]_inputVars => RingInv'
<1> SUFFICES ASSUME RingInv, [InputNext]_inputVars PROVE RingInv'
  OBVIOUS
<1>1. CASE UNCHANGED <<ring, popped, lost, struck>>
  BY <1>1, Zenon DEF RingInv, RingTypes, KeysInOrder
<1>2. CASE poll_key /\ UNCHANGED <<lost, struck>>
  <2>1. CASE ring.len = 0
    BY <1>1, <1>2, <2>1, Zenon DEF poll_key
  <2>2. CASE ring.len # 0
    BY <1>2, <2>2, PopKeeps, Zenon DEF poll_key
  <2> QED
    BY <2>1, <2>2, Zenon
<1>3. CASE cibos_keyboard_irq
  <2> DEFINE ev == push(decoder, kbd).ev
  <2>1. CASE ev = NoKey
    <3>1. UNCHANGED <<ring, struck, popped>> /\ lost' = lost + bit(FALSE)
      BY <1>3, <2>1, Zenon DEF cibos_keyboard_irq
    <3>2. lost' = lost
      BY <3>1 DEF bit, RingInv, RingTypes
    <3> QED
      BY <1>1, <3>1, <3>2, Zenon
  <2>2. CASE ev # NoKey
    <3>1. /\ ring' = ring_push(ring, ev) /\ struck' = Append(struck, ev) /\ UNCHANGED popped
          /\ lost' = lost + bit(ring.len = QUEUE_CAP)
      <4>1. /\ ring' = (IF ev = NoKey THEN ring ELSE ring_push(ring, ev))
            /\ struck' = (IF ev = NoKey THEN struck ELSE Append(struck, ev))
            /\ UNCHANGED popped /\ lost' = lost + bit(ev # NoKey /\ ring.len = QUEUE_CAP)
        BY <1>3, Zenon DEF cibos_keyboard_irq
      <4> HIDE DEF ev
      <4>2. bit(ev # NoKey /\ ring.len = QUEUE_CAP) = bit(ring.len = QUEUE_CAP)
        BY <2>2, Zenon DEF bit
      <4> QED
        BY <2>2, <4>1, <4>2, Zenon
    <3> HIDE DEF ev
    <3> QED
      BY <3>1, PushKeeps, Zenon
  <2> QED
    BY <2>1, <2>2, Zenon
<1>4. CASE \/ AcceptTimer \/ AcceptKeyboard \/ AcceptSpurious \/ cibos_timer_irq \/ cibos_pic_spurious_irq
           \/ PitTick \/ KeyByte
  BY <1>1, <1>4, Zenon DEF AcceptTimer, AcceptKeyboard, AcceptSpurious, cibos_timer_irq, cibos_pic_spurious_irq,
                    PitTick, KeyByte
<1>5. CASE Hlt \/ wait_ticks \/ Lock \/ wait_for \/ sleep_nanos
  BY <1>1, <1>5, Zenon DEF Hlt, wait_ticks, Lock, wait_for, sleep_nanos, History
<1>6. CASE wait_ticks_or \/ read_key \/ read_key_woken
  BY <1>2, <1>6, Zenon DEF wait_ticks_or, read_key, read_key_woken, History
<1>7. CASE CallReadKey \/ CallSleep \/ run_gui_app
  BY <1>1, <1>7, Zenon DEF CallReadKey, CallSleep, run_gui_app, History
<1>8. CASE UNCHANGED inputVars
  BY <1>1, <1>8, Zenon DEF inputVars
<1> QED
  BY <1>3, <1>4, <1>5, <1>6, <1>7, <1>8, Zenon DEF InputNext, Kernel

LEMMA RingInit == InputInit => RingInv
<1> SUFFICES ASSUME InputInit PROVE RingInv
  OBVIOUS
<1>1. /\ ring.buf = [i \in 0..(QUEUE_CAP - 1) |-> NoKey] /\ ring.head = 0 /\ ring.len = 0
      /\ DOMAIN ring = RingFields /\ popped = 0 /\ lost = 0 /\ struck = <<>>
  BY Zenon DEF InputInit, RingFields
<1>2. struck \in Seq({}) /\ Len(struck) = 0
  BY <1>1
<1> QED
  BY <1>1, <1>2, InputAssumption DEF RingInv, RingTypes, KeysInOrder

(* The ring keeps the newest keys in the order they were struck, and every *)
(* key is there, was read once or was dropped by a full ring, whatever the *)
(* ring's size and whoever reads it (keyboard.rs, cibos-input).            *)
THEOREM KeysInOrderHolds == InputSpec => []KeysInOrder
<1>1. RingInv => KeysInOrder
  BY Zenon DEF RingInv
<1> QED
  BY <1>1, RingInit, RingStep, PTL DEF InputSpec

-----------------------------------------------------------------------------
(* The line that is read.                                                  *)

(* The text of the keys a + 1 to b of a sequence of events.                *)
Text(f, a, b) == MapThenFoldSet(LAMBDA key, text : edit(text, key), <<>>, LAMBDA i : f[i].key, Max, a + 1 .. b)

Edits(g, f, D) == g = [s \in SUBSET D |-> IF s = {} THEN <<>> ELSE edit(g[s \ {Max(s)}], f[Max(s)].key)]

(* The fold is a function that satisfies its equation.                     *)
LEMMA EditsExists == ASSUME NEW f PROVE \A k \in Nat : \E g : Edits(g, f, 1..k)
<1> DEFINE Has == {k \in Nat : \E g : Edits(g, f, 1..k)}
<1>1. 0 \in Has
  <2>1. SUBSET (1..0) = {{}}
    OBVIOUS
  <2>2. Edits([s \in SUBSET (1..0) |-> <<>>], f, 1..0)
    BY <2>1, Zenon DEF Edits
  <2> QED
    BY <2>2, Zenon
<1>2. ASSUME NEW k \in Nat, k \in Has PROVE k + 1 \in Has
  <2>1. PICK g : Edits(g, f, 1..k)
    BY <1>2, Zenon
  <2> DEFINE h == [s \in SUBSET (1..(k + 1)) |->
                     IF k + 1 \in s THEN edit(g[s \ {k + 1}], f[k + 1].key) ELSE g[s]]
             j == [s \in SUBSET (1..(k + 1)) |-> IF s = {} THEN <<>> ELSE edit(h[s \ {Max(s)}], f[Max(s)].key)]
  <2>2. ASSUME NEW s \in SUBSET (1..(k + 1)) PROVE h[s] = j[s]
    <3>1. CASE k + 1 \in s
      <4>1. Max(s) = k + 1
        <5>1. k + 1 \in Nat
          OBVIOUS
        <5> QED
          BY <3>1, <5>1, LastIsMax, Zenon
      <4>2. s \ {k + 1} \in SUBSET (1..(k + 1)) /\ k + 1 \notin s \ {k + 1} /\ s # {}
        BY <3>1, Zenon
      <4>3. h[s \ {k + 1}] = g[s \ {k + 1}]
        BY <4>2, Zenon
      <4> HIDE DEF h
      <4>4. j[s] = edit(g[s \ {k + 1}], f[k + 1].key)
        BY <4>1, <4>2, <4>3, Zenon
      <4> HIDE DEF j
      <4> QED
        BY <3>1, <4>4, Zenon DEF h
    <3>2. CASE k + 1 \notin s
      <4>1. s \in SUBSET (1..k)
        BY <3>2
      <4>2. s \ {Max(s)} \in SUBSET (1..(k + 1)) /\ k + 1 \notin s \ {Max(s)}
        BY <3>2, Zenon
      <4>3. h[s] = g[s] /\ h[s \ {Max(s)}] = g[s \ {Max(s)}]
        BY <3>2, <4>2, Zenon
      <4>4. g[s] = IF s = {} THEN <<>> ELSE edit(g[s \ {Max(s)}], f[Max(s)].key)
        BY <2>1, <4>1, Zenon DEF Edits
      <4> HIDE DEF h
      <4> QED
        BY <4>3, <4>4, Zenon
    <3> QED
      BY <3>1, <3>2, Zenon
  <2>3. h = [s \in SUBSET (1..(k + 1)) |-> h[s]] /\ j = [s \in SUBSET (1..(k + 1)) |-> j[s]]
    BY Zenon
  <2>4. h = j
    <3> HIDE DEF h, j
    <3>1. [s \in SUBSET (1..(k + 1)) |-> h[s]] = [s \in SUBSET (1..(k + 1)) |-> j[s]]
      BY <2>2, Zenon
    <3> QED
      BY <2>3, <3>1, Zenon
  <2>5. Edits(h, f, 1..(k + 1))
    <3> HIDE DEF h
    <3> QED
      BY <2>4, Zenon DEF Edits
  <2>6. k + 1 \in Nat
    OBVIOUS
  <2> HIDE DEF h, j
  <2> QED
    BY <2>5, <2>6, Zenon
<1>3. Nat \subseteq Has
  <2> HIDE DEF Has
  <2> QED
    BY <1>1, <1>2, Inductive, Zenon
<1> QED
  BY <1>3, Zenon

LEMMA TextEdits ==
    ASSUME NEW f, NEW a \in Nat, NEW b \in Nat
    PROVE  \E g : Edits(g, f, a + 1 .. b) /\ Text(f, a, b) = g[a + 1 .. b]
<1> DEFINE D == a + 1 .. b
           c == CHOOSE g : Edits(g, f, D)
<1>1. PICK g : Edits(g, f, 1..b)
  BY EditsExists, Zenon
<1>2. SUBSET D \subseteq SUBSET (1..b)
  OBVIOUS
<1> DEFINE h == [s \in SUBSET D |-> g[s]]
<1>3. Edits(h, f, D)
  <2> HIDE DEF D
  <2>1. ASSUME NEW s \in SUBSET D PROVE g[s] = IF s = {} THEN <<>> ELSE edit(h[s \ {Max(s)}], f[Max(s)].key)
    <3>1. s \ {Max(s)} \in SUBSET D /\ s \in SUBSET (1..b)
      BY <1>2, Zenon
    <3>2. h[s \ {Max(s)}] = g[s \ {Max(s)}]
      BY <3>1, Zenon
    <3> HIDE DEF h
    <3> QED
      BY <1>1, <3>1, <3>2, Zenon DEF Edits
  <2>2. [s \in SUBSET D |-> g[s]] = [s \in SUBSET D |-> IF s = {} THEN <<>> ELSE edit(h[s \ {Max(s)}], f[Max(s)].key)]
    <3> HIDE DEF h
    <3> QED
      BY <2>1, Zenon
  <2> QED
    BY <2>2, Zenon DEF Edits
<1>4. Edits(c, f, D)
  <2> HIDE DEF h, D
  <2> QED
    BY <1>3, Zenon
<1>5. Text(f, a, b) = c[D]
  BY Zenon DEF Text, MapThenFoldSet, Edits
<1> QED
  BY <1>4, <1>5, Zenon

(* Two folds agree on a set on which their sequences do.                   *)
Alike(g, f, D, h, e, E, m) ==
    /\ Edits(g, f, D) /\ Edits(h, e, E)
    /\ D \cap E \subseteq 1..m /\ \A x \in D \cap E : f[x] = e[x]

LEMMA EditsAgree ==
    ASSUME NEW D, NEW E, NEW f, NEW e, NEW g, NEW h, NEW m \in Nat,
           Alike(g, f, D, h, e, E, m)
    PROVE  g[D \cap E] = h[D \cap E]
<1> DEFINE Has == {k \in Nat : \A s \in SUBSET (D \cap E) : s \subseteq 1..k => g[s] = h[s]}
<1>1. \A s \in SUBSET (D \cap E) : /\ g[s] = IF s = {} THEN <<>> ELSE edit(g[s \ {Max(s)}], f[Max(s)].key)
                                   /\ h[s] = IF s = {} THEN <<>> ELSE edit(h[s \ {Max(s)}], e[Max(s)].key)
  <2>1. \A s \in SUBSET (D \cap E) : s \in SUBSET D /\ s \in SUBSET E
    BY Zenon
  <2> QED
    BY <2>1, Zenon DEF Alike, Edits
<1>2. 0 \in Has
  <2>1. \A s : s \subseteq 1..0 => s = {}
    OBVIOUS
  <2> QED
    BY <1>1, <2>1, Zenon
<1>3. ASSUME NEW k \in Nat, k \in Has PROVE k + 1 \in Has
  <2>1. ASSUME NEW s \in SUBSET (D \cap E), s \subseteq 1..(k + 1) PROVE g[s] = h[s]
    <3>1. CASE k + 1 \in s
      <4>1. Max(s) = k + 1
        <5>1. k + 1 \in Nat
          OBVIOUS
        <5> QED
          BY <2>1, <3>1, <5>1, LastIsMax, Zenon
      <4>2. s \ {k + 1} \in SUBSET (D \cap E) /\ s # {} /\ f[k + 1] = e[k + 1]
        BY <3>1, Zenon DEF Alike
      <4>3. s \ {k + 1} \subseteq 1..k
        BY <2>1
      <4>4. g[s \ {k + 1}] = h[s \ {k + 1}]
        BY <1>3, <4>2, <4>3, Zenon
      <4> QED
        BY <1>1, <4>1, <4>2, <4>4, Zenon
    <3>2. CASE k + 1 \notin s
      <4>1. s \subseteq 1..k
        BY <2>1, <3>2
      <4> QED
        BY <1>3, <4>1, Zenon
    <3> QED
      BY <3>1, <3>2, Zenon
  <2>2. k + 1 \in Nat
    OBVIOUS
  <2> QED
    BY <2>1, <2>2, Zenon
<1>4. m \in Has
  <2> HIDE DEF Has
  <2> QED
    BY <1>2, <1>3, Inductive, Zenon
<1> QED
  BY <1>4, Zenon DEF Alike

(* One more key edits the text; keys struck later do not change it.        *)
LEMMA TextGrows ==
    ASSUME NEW f, NEW a \in Nat, NEW b \in Nat, a <= b
    PROVE  Text(f, a, b + 1) = edit(Text(f, a, b), f[b + 1].key)
<1> DEFINE D == a + 1 .. b + 1
           E == a + 1 .. b
<1>1. /\ b + 1 \in Nat /\ D # {} /\ D \ {b + 1} = E /\ E \in SUBSET (D \cap E) /\ D \cap E \subseteq 1..b
      /\ b + 1 \in D /\ D \subseteq 1..(b + 1) /\ D \in SUBSET D
  OBVIOUS
<1>2. Max(D) = b + 1
  BY <1>1, LastIsMax
<1>3. PICK g : Edits(g, f, D) /\ Text(f, a, b + 1) = g[D]
  BY <1>1, TextEdits, Zenon
<1>4. PICK h : Edits(h, f, E) /\ Text(f, a, b) = h[E]
  BY TextEdits, Zenon
<1> HIDE DEF D, E
<1>5. g[D] = edit(g[E], f[b + 1].key)
  BY <1>1, <1>2, <1>3, Zenon DEF Edits
<1>6. g[E] = h[E]
  <2>1. Alike(g, f, D, h, f, E, b)
    BY <1>1, <1>3, <1>4, Zenon DEF Alike
  <2>2. D \cap E = E
    BY <1>1, Zenon
  <2>3. g[D \cap E] = h[D \cap E]
    BY <2>1, EditsAgree
  <2> QED
    BY <2>2, <2>3, Zenon
<1> QED
  BY <1>1, <1>3, <1>4, <1>5, <1>6, Zenon

SameTo(b, f, e) == \A x \in 1..b : f[x] = e[x]

LEMMA TextSame ==
    ASSUME NEW f, NEW e, NEW a \in Nat, NEW b \in Nat, SameTo(b, f, e)
    PROVE  Text(f, a, b) = Text(e, a, b)
<1> DEFINE D == a + 1 .. b
<1>1. D \cap D \subseteq 1..b /\ \A x \in D \cap D : f[x] = e[x]
  BY DEF SameTo
<1>2. PICK g : Edits(g, f, D) /\ Text(f, a, b) = g[D]
  BY TextEdits
<1>3. PICK h : Edits(h, e, D) /\ Text(e, a, b) = h[D]
  BY TextEdits
<1> HIDE DEF D
<1>4. Alike(g, f, D, h, e, D, b)
  BY <1>1, <1>2, <1>3, Zenon DEF Alike
<1>5. D \cap D = D
  BY Zenon
<1>6. g[D \cap D] = h[D \cap D]
  BY <1>4, EditsAgree
<1> QED
  BY <1>2, <1>3, <1>5, <1>6, Zenon

LEMMA TextEmpty == ASSUME NEW f, NEW a \in Nat PROVE Text(f, a, a) = <<>>
<1> DEFINE D == a + 1 .. a
<1>1. D = {}
  OBVIOUS
<1>2. PICK g : Edits(g, f, D) /\ Text(f, a, a) = g[D]
  BY TextEdits
<1> HIDE DEF D
<1> QED
  BY <1>1, <1>2, Zenon DEF Edits

\* A key that the decoder gives and that the packed value can carry.
IsKey(key) == (\E make, shift : key = <<"Char", make, shift>>) \/ (\E k \in 1..11 : key = Named(KindOf[k]))

LEMMA Threes ==
    ASSUME NEW a, NEW b, NEW c
    PROVE  Tail(<<a, b, c>>) = <<b, c>> /\ <<a>> \o <<b, c>> = <<a, b, c>> /\ <<a, b, c>>[1] = a
<1> DEFINE S == {a, b, c}
<1>1. <<a, b, c>> \in Seq(S) /\ <<b, c>> \in Seq(S) /\ <<a>> \in Seq(S)
  OBVIOUS
<1>2. Tail(<<a, b, c>>) = <<b, c>>
  BY <1>1
<1>3. <<a>> \o <<b, c>> = <<a, b, c>>
  <2> DEFINE s == <<a>> \o <<b, c>>
  <2>1. s \in Seq(S) /\ Len(s) = 3
    BY <1>1
  <2>2. s[1] = a /\ s[2] = b /\ s[3] = c
    BY <1>1
  <2> HIDE DEF s, S
  <2>3. s = <<a, b, c>>
    BY <2>1, <2>2
  <2> QED
    BY <2>3, Zenon DEF s
<1>4. <<a, b, c>>[1] = a
  OBVIOUS
<1> QED
  BY <1>2, <1>3, <1>4, Zenon

(* The application unpacks the key that ReadKey packed (encode_key,        *)
(* decode_key).                                                            *)
LEMMA Unpacks == ASSUME NEW ev, IsKey(ev.key) PROVE decode_key(encode_key(ev)).key = ev.key
<1>1. CASE \E make, shift : ev.key = <<"Char", make, shift>>
  <2>1. PICK make, shift : ev.key = <<"Char", make, shift>>
    BY <1>1, Zenon
  <2>2. /\ Tail(<<"Char", make, shift>>) = <<make, shift>>
        /\ <<"Char">> \o <<make, shift>> = <<"Char", make, shift>> /\ <<"Char", make, shift>>[1] = "Char"
    BY Threes, Zenon
  <2>3. encode_key(ev).ch = <<make, shift>> /\ encode_key(ev).kind = 0
    BY <2>1, <2>2, Zenon DEF encode_key, IsChar
  <2> QED
    BY <2>1, <2>2, <2>3, Zenon DEF decode_key
<1>2. CASE \E k \in 1..11 : ev.key = Named(KindOf[k])
  <2>1. PICK k \in 1..11 : ev.key = <<KindOf[k], 0, FALSE>>
    BY <1>2, Zenon DEF Named
  <2>2. KindOf[k] # "Char" /\ DOMAIN KindOf = 1..11
    BY DEF KindOf
  <2> DEFINE x == KindOf[k]
             n == CHOOSE i \in DOMAIN KindOf : KindOf[i] = x
  <2>3. n \in 1..11 /\ KindOf[n] = x /\ n # 0
    <3>1. n \in 1..11 /\ KindOf[n] = x
      BY <2>2, Zenon
    <3> HIDE DEF n
    <3> QED
      BY <3>1
  <2>4. ev.key = <<x, 0, FALSE>> /\ x # "Char"
    BY <2>1, <2>2, Zenon
  <2> HIDE DEF x
  <2>5. Tail(<<x, 0, FALSE>>) = <<0, FALSE>> /\ <<x>> \o <<0, FALSE>> = <<x, 0, FALSE>> /\ <<x, 0, FALSE>>[1] = x
    BY Threes, Zenon
  <2>6. encode_key(ev).ch = <<0, FALSE>> /\ encode_key(ev).kind = n
    BY <2>4, <2>5, Zenon DEF encode_key, IsChar
  <2> HIDE DEF n
  <2> QED
    BY <2>3, <2>4, <2>5, <2>6, Zenon DEF decode_key
<1> QED
  BY <1>1, <1>2, Zenon DEF IsKey

(* What the decoder completes is such a key (push).                        *)
LEMMA DecodesKeys == ASSUME NEW d, NEW byte, push(d, byte).ev # NoKey PROVE IsKey(push(d, byte).ev.key)
<1> DEFINE make == byte % BREAK_MASK
           key == IF d.extended THEN decode_extended(make) ELSE decode_main(make, d.shift)
           Kinds == {"Enter", "Backspace", "Delete", "Tab", "Escape", "Left", "Right", "Up", "Down", "Home", "End"}
<1>1. push(d, byte).ev.key = key /\ key # Named("none")
  BY Zenon DEF push
<1>2. \A x \in Kinds : \E k \in 1..11 : KindOf[k] = x
  BY DEF KindOf
<1> HIDE DEF make
<1>3. \E x \in Kinds \cup {"none"} : decode_extended(make) = Named(x)
  BY DEF decode_extended
<1>4. make \notin PRINTABLE => \E x \in Kinds \cup {"none"} : decode_main(make, d.shift) = Named(x)
  BY DEF decode_main
<1>5. make \in PRINTABLE => IsKey(decode_main(make, d.shift))
  BY Zenon DEF decode_main, Char, IsKey
<1> HIDE DEF Kinds
<1>6. IsKey(key)
  BY <1>1, <1>2, <1>3, <1>4, <1>5, Zenon DEF IsKey
<1> QED
  BY <1>1, <1>6, Zenon

\* The program points of a ReadKey, in the order it passes them.
ReadPoints == {"rk_lock", "rk_pop", "wf_lock", "wf_test", "wf_gap", "wf_halt", "rk2_lock", "rk2_pop"}
InLine == ip = "line" \/ (who = "line" /\ ip \in ReadPoints)

\* The inductive invariant of WhatWasTyped: the line is right all through the calls
\* of ReadKey that read_line makes.
LineInv ==
    /\ lineAt \in Nat /\ lineAt <= popped
    /\ ip = "line" => who = "line"
    /\ \A i \in 1..Len(struck) : IsKey(struck[i].key)
    /\ lost = 0 /\ InLine => line = Text(struck, lineAt, popped)

(* A key that is struck changes no line that is read.                      *)
LEMMA StrikeKeepsLine ==
    ASSUME RingInv, LineInv, NEW ev, IsKey(ev.key), struck' = Append(struck, ev), UNCHANGED <<line, popped, lineAt>>,
           lost' = 0 => lost = 0, InLine' => InLine, ip' = "line" => who' = "line"
    PROVE  LineInv'
<1>1. \E S : struck \in Seq(S)
  BY Zenon DEF RingInv, RingTypes
<1>2. /\ Len(struck) \in Nat /\ Len(struck') = Len(struck) + 1
      /\ struck'[Len(struck) + 1] = ev /\ \A i \in 1..Len(struck) : struck'[i] = struck[i]
  BY <1>1, Strikes, Zenon
<1>3. \A i \in 1..Len(struck') : IsKey(struck'[i].key)
  <2>1. \A i \in 1..(Len(struck) + 1) : i \in 1..Len(struck) \/ i = Len(struck) + 1
    BY <1>2
  <2> QED
    BY <1>2, <2>1, Zenon DEF LineInv
<1>4. lost = 0 => Text(struck', lineAt, popped) = Text(struck, lineAt, popped)
  <2>1. popped + lost + ring.len = Len(struck) /\ popped \in Nat /\ lost \in Nat /\ lineAt \in Nat
    BY Zenon DEF RingInv, RingTypes, KeysInOrder, LineInv
  <2>2. ring.len \in Nat
    BY InputAssumption DEF RingInv, RingTypes
  <2>3. \A i \in 1..popped : i \in 1..Len(struck)
    BY <1>2, <2>1, <2>2
  <2>4. SameTo(popped, struck', struck)
    BY <1>2, <2>3, Zenon DEF SameTo
  <2> QED
    BY <2>1, <2>4, TextSame, ZenonT(30)
<1> QED
  BY <1>3, <1>4, Zenon DEF LineInv

(* The oldest key in the ring is the next one to be read.                  *)
LEMMA NextKey ==
    ASSUME RingInv, LineInv, ring.len # 0
    PROVE  /\ IsKey(ring.buf[ring.head].key)
           /\ lost = 0 => ring.buf[ring.head] = struck[popped + 1]
<1>1. PICK h \in 0..(QUEUE_CAP - 1), m \in 1..QUEUE_CAP, n \in Nat :
         /\ h = ring.head /\ m = ring.len /\ n = Len(struck) /\ popped + lost + m = n
         /\ \A i \in 0..(m - 1) : ring.buf[Place(h + i)] = struck[n - m + 1 + i]
  <2>1. Len(struck) \in Nat /\ ring.len \in 1..QUEUE_CAP
    BY InputAssumption DEF RingInv, RingTypes
  <2> QED
    BY <2>1, Zenon DEF RingInv, RingTypes, KeysInOrder, Place
<1>2. popped \in Nat /\ lost \in Nat /\ popped + lost + m = n
  BY <1>1, Zenon DEF RingInv, RingTypes
<1>3. 0 \in 0..(m - 1) /\ h + 0 = h /\ n - m + 1 + 0 \in 1..n /\ (lost = 0 => n - m + 1 + 0 = popped + 1)
  BY <1>2, InputAssumption
<1>4. Place(h) = h
  BY Places
<1>5. ring.buf[h] = struck[n - m + 1 + 0]
  BY <1>1, <1>3, <1>4, Zenon
<1> QED
  BY <1>1, <1>3, <1>5, Zenon DEF LineInv

(* read_line edits its text with the key it reads.                         *)
LEMMA ReturnKeepsLine ==
    ASSUME RingInv, LineInv, ring.len # 0, poll_key, Return(ring.buf[ring.head]), ip \in ReadPoints,
           UNCHANGED <<who, struck, lost, lineAt>>
    PROVE  LineInv'
<1>1. popped \in Nat /\ popped' = popped + 1 /\ lineAt \in Nat /\ lineAt <= popped
  BY Zenon DEF RingInv, RingTypes, LineInv, poll_key
<1>2. lineAt <= popped + 1
  BY <1>1
<1> DEFINE key == ring.buf[ring.head].key
<1>3. IsKey(key) /\ (lost = 0 => ring.buf[ring.head] = struck[popped + 1])
  BY NextKey, Zenon
<1>4. decode_key(encode_key(ring.buf[ring.head])).key = key
  BY <1>3, Unpacks, Zenon
<1>5. /\ line' = IF who = "line" THEN edit(line, key) ELSE line
      /\ ip' = IF who = "line" /\ key[1] # "Enter" THEN "line" ELSE "user"
  BY <1>4, Zenon DEF Return
<1> HIDE DEF key
<1>6. lost = 0 => Text(struck, lineAt, popped + 1) = edit(Text(struck, lineAt, popped), key)
  <2>1. Text(struck, lineAt, popped + 1) = edit(Text(struck, lineAt, popped), struck[popped + 1].key)
    BY <1>1, TextGrows
  <2> QED
    BY <1>3, <2>1, Zenon DEF key
<1>7. ip' = "line" => who = "line"
  BY <1>5, Zenon
<1>8. lost' = 0 /\ InLine' => line' = Text(struck', lineAt', popped')
  BY <1>1, <1>5, <1>6, Zenon DEF LineInv, InLine, ReadPoints
<1> QED
  BY <1>1, <1>2, <1>7, <1>8, Zenon DEF LineInv

LEMMA LineStep == RingInv /\ LineInv /\ [InputNext]_inputVars => LineInv'
<1> SUFFICES ASSUME RingInv, LineInv, [InputNext]_inputVars PROVE LineInv'
  OBVIOUS
<1>1. CASE UNCHANGED <<struck, popped, lost, line, lineAt>> /\ (InLine' => InLine) /\ (ip' = "line" => who' = "line")
  BY <1>1, Zenon DEF LineInv
<1>2. ASSUME ip' = Resumed(ip), who' = who PROVE (InLine' => InLine) /\ (ip' = "line" => who' = "line")
  BY <1>2 DEF Resumed, InLine, ReadPoints, LineInv
<1>3. CASE cibos_keyboard_irq
  <2> DEFINE ev == push(decoder, kbd).ev
  <2>1. /\ UNCHANGED <<line, popped, lineAt, who>> /\ ip' = Resumed(ip)
        /\ struck' = (IF ev = NoKey THEN struck ELSE Append(struck, ev))
        /\ \E b \in BOOLEAN : lost' = lost + bit(b) /\ (ev = NoKey => ~b)
    BY <1>3, Zenon DEF cibos_keyboard_irq, Iret
  <2>2. ev # NoKey => IsKey(ev.key)
    BY DecodesKeys, Zenon
  <2> HIDE DEF ev
  <2>3. (lost' = 0 => lost = 0) /\ (ev = NoKey => lost' = lost)
    <3>1. lost \in Nat
      BY Zenon DEF RingInv, RingTypes
    <3>2. PICK b \in BOOLEAN : lost' = lost + bit(b) /\ (ev = NoKey => ~b)
      BY <2>1, Zenon
    <3>3. bit(TRUE) = 1 /\ bit(FALSE) = 0
      BY Zenon DEF bit
    <3>4. b = TRUE \/ b = FALSE
      BY Zenon
    <3>5. (\A l \in Nat : l + 0 = l) /\ \A l \in Nat : l + 1 # 0
      OBVIOUS
    <3> QED
      BY <3>1, <3>2, <3>3, <3>4, <3>5, Zenon
  <2>4. CASE ev = NoKey
    BY <1>1, <1>2, <2>1, <2>3, <2>4, Zenon
  <2>5. CASE ev # NoKey
    BY <1>2, <2>1, <2>2, <2>3, <2>5, StrikeKeepsLine, Zenon
  <2> QED
    BY <2>4, <2>5, Zenon
<1>4. CASE cibos_timer_irq \/ cibos_pic_spurious_irq
  BY <1>1, <1>2, <1>4, Zenon DEF cibos_timer_irq, cibos_pic_spurious_irq, Iret
<1>5. CASE AcceptTimer \/ AcceptKeyboard \/ AcceptSpurious \/ PitTick \/ KeyByte \/ UNCHANGED inputVars
  <2>1. UNCHANGED <<ip, who, struck, popped, lost, line, lineAt>>
    BY <1>5, Zenon DEF AcceptTimer, AcceptKeyboard, AcceptSpurious, PitTick, KeyByte, inputVars
  <2> QED
    BY <1>1, <2>1, Zenon DEF InLine, LineInv
<1>6. CASE Hlt \/ wait_ticks \/ Lock \/ wait_for \/ sleep_nanos
  <2>1. UNCHANGED <<who, struck, popped, lost, line, lineAt>>
    BY <1>6, Zenon DEF Hlt, wait_ticks, Lock, wait_for, sleep_nanos, History
  <2>2. ip' # "line" /\ (ip' \in ReadPoints => ip \in ReadPoints)
    BY <1>6 DEF Hlt, wait_ticks, Lock, wait_for, sleep_nanos, Goto, ReadPoints
  <2> QED
    BY <1>1, <2>1, <2>2, Zenon DEF InLine
<1>7. ASSUME UNCHANGED <<struck, lost, lineAt>>, poll_key, ~InLine', ip' # "line" PROVE LineInv'
  <2>1. popped \in Nat /\ lineAt \in Nat /\ lineAt <= popped /\ (popped' = popped \/ popped' = popped + 1)
    BY <1>7, Zenon DEF RingInv, RingTypes, LineInv, poll_key
  <2>2. lineAt <= popped'
    BY <2>1
  <2> QED
    BY <1>7, <2>2, Zenon DEF LineInv
<1>8. CASE wait_ticks_or
  <2>1. ip' \in {"wo_gap", "user"}
    BY <1>8, Zenon DEF wait_ticks_or, Goto
  <2>2. ~InLine' /\ ip' # "line"
    BY <2>1 DEF InLine, ReadPoints
  <2> QED
    BY <1>7, <1>8, <2>2, Zenon DEF wait_ticks_or, History
<1>9. CASE read_key
  <2>1. poll_key /\ UNCHANGED <<who, struck, lost, lineAt>> /\ ip = "rk_pop"
    BY <1>9, Zenon DEF read_key, History
  <2>2. CASE ring.len > 0
    <3>1. Return(ring.buf[ring.head])
      BY <1>9, <2>2, Zenon DEF read_key
    <3>2. ring.len # 0 /\ ip \in ReadPoints
      BY <2>1, <2>2 DEF ReadPoints
    <3> QED
      BY <2>1, <3>1, <3>2, ReturnKeepsLine, Zenon
  <2>3. CASE ~(ring.len > 0)
    <3>1. ring.len = 0
      BY <2>3, InputAssumption DEF RingInv, RingTypes
    <3>2. ip' \in {"user", "wf_lock"} /\ UNCHANGED <<line, popped>>
      BY <1>9, <2>1, <2>3, <3>1, Zenon DEF read_key, poll_key
    <3>3. ip' # "line" /\ (InLine' => InLine)
      BY <2>1, <3>2 DEF InLine, ReadPoints
    <3> QED
      BY <1>1, <2>1, <3>2, <3>3, Zenon
  <2> QED
    BY <2>2, <2>3, Zenon
<1>10. CASE read_key_woken
  <2>1. poll_key /\ UNCHANGED <<who, struck, lost, lineAt>> /\ ip = "rk2_pop"
    BY <1>10, Zenon DEF read_key_woken, History
  <2>2. CASE ring.len > 0 /\ who # "gui"
    <3>1. Return(ring.buf[ring.head])
      BY <1>10, <2>2, Zenon DEF read_key_woken
    <3>2. ring.len # 0 /\ ip \in ReadPoints
      BY <2>1, <2>2 DEF ReadPoints
    <3> QED
      BY <2>1, <3>1, <3>2, ReturnKeepsLine, Zenon
  <2>3. CASE ~(ring.len > 0 /\ who # "gui")
    <3>1. ip' = IF who = "gui" THEN "wf_lock" ELSE "user"
      BY <1>10, <2>3, Zenon DEF read_key_woken
    <3>2. ~InLine' /\ ip' # "line"
      BY <2>1, <3>1 DEF InLine, ReadPoints
    <3> QED
      BY <1>7, <2>1, <3>2, Zenon
  <2> QED
    BY <2>2, <2>3, Zenon
<1>11. CASE CallReadKey
  <2>1. UNCHANGED <<popped, struck, lost>> /\ ip' = "rk_lock"
    BY <1>11, Zenon DEF CallReadKey, Trap
  <2>2. \/ who' = "poll" /\ UNCHANGED <<line, lineAt>>
        \/ line' = <<>> /\ lineAt' = popped
        \/ ip = "line" /\ UNCHANGED <<line, lineAt>>
    BY <1>11, Zenon DEF CallReadKey
  <2>3. popped \in Nat /\ popped <= popped /\ Text(struck, popped, popped) = <<>>
    <3>1. popped \in Nat
      BY Zenon DEF RingInv, RingTypes
    <3> QED
      BY <3>1, TextEmpty
  <2>4. ip' # "line" /\ (who' = "poll" => ~InLine')
    BY <2>1 DEF InLine
  <2> QED
    BY <2>1, <2>2, <2>3, <2>4, Zenon DEF LineInv, InLine
<1>12. CASE CallSleep \/ run_gui_app
  <2>1. UNCHANGED <<popped, struck, lost, line, lineAt>>
    BY <1>12, Zenon DEF CallSleep, run_gui_app, History
  <2>2. ip' # "line" /\ ~InLine'
    BY <1>12 DEF CallSleep, run_gui_app, Trap, InLine, ReadPoints
  <2> QED
    BY <1>1, <2>1, <2>2, Zenon
<1> QED
  BY <1>3, <1>4, <1>5, <1>6, <1>8, <1>9, <1>10, <1>11, <1>12, Zenon DEF InputNext, Kernel

(* What is typed arrives: the ring keeps the keys in order, and the text   *)
(* of read_line is the edit of the keys struck since it was called, for    *)
(* any ring, any bytes and any interleaving of the handler with the        *)
(* readers (keyboard.rs, cibos-input, cibos-app/src/input.rs).             *)
THEOREM TypedKeysArriveHolds == InputSpec => []TypedKeysArrive
<1>1. InputInit => LineInv
  <2> SUFFICES ASSUME InputInit PROVE LineInv
    OBVIOUS
  <2>1. lineAt = 0 /\ popped = 0 /\ struck = <<>> /\ ip = "wt_check"
    BY Zenon DEF InputInit
  <2>2. ip # "line" /\ ~InLine /\ 1..Len(struck) = {} /\ lineAt \in Nat /\ lineAt <= popped
    BY <2>1 DEF InLine, ReadPoints
  <2> QED
    BY <2>2, Zenon DEF LineInv
<1>2. RingInv /\ LineInv => TypedKeysArrive
  BY Zenon DEF RingInv, LineInv, InLine, TypedKeysArrive, WhatWasTyped, Text
<1>3. InputSpec => []RingInv
  BY RingInit, RingStep, PTL DEF InputSpec
<1> QED
  BY <1>1, <1>2, <1>3, LineStep, PTL DEF InputSpec
==============================================================================
