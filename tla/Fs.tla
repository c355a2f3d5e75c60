--------------------------------- MODULE Fs ---------------------------------
(***************************************************************************)
(* CIBOSFS, cibos-kernel/src/fs.rs, and the boot path that mounts it.      *)
(*                                                                         *)
(* A call on the volume reads freely and changes the medium by a sequence  *)
(* of single-block writes.  The calls hold the volume exclusively, so the  *)
(* writes of a call are a function of the medium it starts from: starting  *)
(* a call computes them (`op'), and the medium changes one write at a      *)
(* time.  Between any two of them the power may fail or the device may     *)
(* report an error, and then the remaining writes never happen.            *)
(*                                                                         *)
(* Sizes are in blocks for a file (the padding of the last block is not    *)
(* visible to a reader) and in entries for a directory.  A file's contents *)
(* are a version and a length; block i of version v is <<"file", v, i>>.   *)
(***************************************************************************)
EXTENDS Integers, Sequences, FiniteSets, SequencesExt

CONSTANTS
  InodeCount,       \* inodes on the volume, the root included
  DataBlocks,       \* data blocks on the volume
  DIRECT_BLOCKS,    \* block pointers of an inode
  EntriesPerBlock,  \* directory entries in a block
  Path,             \* the paths in use: non-empty sequences of names
  Seed,             \* the directories the first boot creates, in order
  Version,          \* the contents callers write
  MaxLen,           \* the longest file a caller writes, in blocks
  MaxFaults,        \* power failures and device errors in a behaviour
  CutReclaims       \* whether a fault may cut a call that frees something

ASSUME FsAssumption ==
  /\ InodeCount \in Nat \ {0} /\ DataBlocks \in Nat \ {0}
  /\ DIRECT_BLOCKS \in Nat \ {0} /\ EntriesPerBlock \in Nat \ {0}
  /\ MaxLen \in Nat /\ MaxFaults \in Nat /\ CutReclaims \in BOOLEAN
  /\ \A p \in Path : p # <<>>
  /\ Seed \in Seq({p \in Path : Len(p) = 1})

VARIABLES
  disk,     \* the medium: [sb, bitmap, inodes, data]
  mounted,  \* whether ROOT_FS holds the volume
  op,       \* the writes the call in progress has still to make
  call,     \* that call: the paths it is about, and what holds after it
  expect,   \* per path: the contents a reader is owed (history)
  spoiled,  \* whether a call has failed or been cut short (history)
  faults

vars == <<disk, mounted, op, call, expect, spoiled, faults>>

Ino == 0 .. InodeCount - 1
ROOT_INODE == 0
Block == 1 .. DataBlocks
NoBlock == 0

NotFound == -1
WrongKind == -2

\* What a path holds.  Unknown: its last call failed, nothing is promised.
Absent == <<"absent">>
Dir == <<"dir">>
Unknown == <<"any">>
Contents(v, len) == [i \in 1 .. len |-> <<"file", v, i>>]
Holds(blocks) == <<"file", blocks>>
NoCall == [touch |-> {}]

Inode(kind) == [kind |-> kind, size |-> 0,
                direct |-> [i \in 1 .. DIRECT_BLOCKS |-> NoBlock]]

-----------------------------------------------------------------------------
(* Reading the medium                                                      *)

CeilDiv(n, k) == (n + k - 1) \div k

blocks_used(node) ==
  IF node.kind = "dir" THEN CeilDiv(node.size, EntriesPerBlock) ELSE node.size

read_inode_data(d, node) ==
  [k \in 1 .. blocks_used(node) |-> d.data[node.direct[k]]]

FreeEntry == <<0, "">>
EntriesOf(block) ==
  IF block[1] = "dir" THEN block[2] ELSE [k \in 1 .. EntriesPerBlock |-> FreeEntry]

\* The live entries <<inode, name>> of a directory, in order.
read_dir_entries(d, dir) ==
  LET node == d.inodes[dir]
      blocks == read_inode_data(d, node)
      slots == FlattenSeq([k \in DOMAIN blocks |-> EntriesOf(blocks[k])])
  IN  SelectSeq(SubSeq(slots, 1, node.size), LAMBDA e : e[1] # 0)

encode_dir(entries) ==
  [k \in 1 .. CeilDiv(Len(entries), EntriesPerBlock) |->
     <<"dir", [j \in 1 .. EntriesPerBlock |->
                 LET i == (k - 1) * EntriesPerBlock + j
                 IN  IF i <= Len(entries) THEN entries[i] ELSE FreeEntry]>>]

dir_lookup(d, dir, name) ==
  LET hits == SelectSeq(read_dir_entries(d, dir), LAMBDA e : e[2] = name)
  IN  IF d.inodes[dir].kind # "dir" THEN WrongKind
      ELSE IF hits = <<>> THEN NotFound ELSE hits[1][1]

resolve(d, path) ==
  FoldLeft(LAMBDA ino, name : IF ino < 0 THEN ino ELSE dir_lookup(d, ino, name),
           ROOT_INODE, path)

\* What a reader finds at a path: read_file, or list_dir for a directory.
ReadPath(d, path) ==
  LET ino == resolve(d, path) IN
  IF ino < 0 THEN Absent
  ELSE IF d.inodes[ino].kind = "dir" THEN Dir
  ELSE IF d.inodes[ino].kind = "free" THEN Absent
  ELSE Holds(read_inode_data(d, d.inodes[ino]))

-----------------------------------------------------------------------------
(* Planning the writes of a call: m is the medium as the writes so far     *)
(* leave it, those writes, the inode the call is editing, and whether the  *)
(* call has returned an error.                                             *)

Apply(d, w) ==
  CASE w[1] = "bit"    -> [d EXCEPT !.bitmap[w[2]] = w[3]]
    [] w[1] = "inode"  -> [d EXCEPT !.inodes[w[2]] = w[3]]
    [] w[1] = "data"   -> [d EXCEPT !.data[w[2]] = w[3]]
    [] w[1] = "bitmap" -> [d EXCEPT !.bitmap = [b \in Block |-> FALSE]]
    [] w[1] = "table"  -> [d EXCEPT !.inodes = [i \in Ino |-> Inode("free")]]
    [] w[1] = "super"  -> [d EXCEPT !.sb = TRUE]

Start(d) == [d |-> d, log |-> <<>>, node |-> Inode("free"), failed |-> FALSE]

Err(m) == [m EXCEPT !.failed = TRUE]

\* One device write, unless the call has already returned.
Write(m, w) ==
  IF m.failed THEN m
  ELSE [m EXCEPT !.d = Apply(m.d, w), !.log = Append(m.log, w)]

Least(S) == CHOOSE x \in S : \A y \in S : x <= y

\* Wrong: the block found is not marked.
alloc_block_Unmarked(m, i) ==
  LET free == {b \in Block : ~m.d.bitmap[b]} IN
  IF free = {} THEN Err(m) ELSE [m EXCEPT !.node.direct[i] = Least(free)]

alloc_block(m, i) ==
  LET free == {b \in Block : ~m.d.bitmap[b]} IN
  IF free = {} THEN Err(m)
  ELSE [Write(m, <<"bit", Least(free), TRUE>>) EXCEPT
          !.node.direct[i] = IF m.failed THEN m.node.direct[i] ELSE Least(free)]

free_block(m, i) ==
  IF m.node.direct[i] = NoBlock THEN m
  ELSE [Write(m, <<"bit", m.node.direct[i], FALSE>>) EXCEPT
          !.node.direct[i] = NoBlock]

\* The indices from a + 1 to b, in order.
Upto(a, b) == [k \in 1 .. (b - a) |-> a + k]

\* Wrong: the recorded size only ever grows.
write_inode_data_NeverShorter(m, ino, blocks, size) ==
  LET new   == Len(blocks)
      grown == FoldLeft(alloc_block, m, Upto(blocks_used(m.node), new))
      put   == FoldLeft(LAMBDA n, i : Write(n, <<"data", n.node.direct[i], blocks[i]>>),
                        grown, Upto(0, new))
  IN  IF m.failed \/ new > DIRECT_BLOCKS THEN Err(m)
      ELSE Write(put, <<"inode", ino,
                        [put.node EXCEPT !.size = IF size > m.node.size THEN size
                                                  ELSE m.node.size]>>)

\* Replace the contents of inode ino, whose in-memory copy is m.node.
write_inode_data(m, ino, blocks, size) ==
  LET old   == blocks_used(m.node)
      new   == Len(blocks)
      grown == FoldLeft(alloc_block, m, Upto(old, new))
      cut   == FoldLeft(free_block, grown, Upto(new, old))
      put   == FoldLeft(LAMBDA n, i : Write(n, <<"data", n.node.direct[i], blocks[i]>>),
                        cut, Upto(0, new))
  IN  IF m.failed \/ new > DIRECT_BLOCKS THEN Err(m)
      ELSE Write(put, <<"inode", ino, [put.node EXCEPT !.size = size]>>)

SetDir(m, dir, entries) ==
  write_inode_data([m EXCEPT !.node = m.d.inodes[dir]], dir,
                   encode_dir(entries), Len(entries))

dir_add(m, dir, ino, name) ==
  IF m.failed \/ m.d.inodes[dir].kind # "dir" THEN Err(m)
  ELSE SetDir(m, dir, Append(read_dir_entries(m.d, dir), <<ino, name>>))

dir_remove(m, dir, name) ==
  LET kept == SelectSeq(read_dir_entries(m.d, dir), LAMBDA e : e[2] # name) IN
  IF m.failed \/ Len(kept) = Len(read_dir_entries(m.d, dir)) THEN Err(m)
  ELSE SetDir(m, dir, kept)

\* alloc_inode, the new inode's write, and its entry in the parent: what
\* mkdir and the creating half of write_file share.
Create(m, parent, name, kind) ==
  LET free == {i \in Ino \ {ROOT_INODE} : m.d.inodes[i].kind = "free"} IN
  IF free = {} THEN Err(m)
  ELSE dir_add(Write(m, <<"inode", Least(free), Inode(kind)>>), parent, Least(free), name)

\* mkdir asks only whether the lookup succeeded, so a parent that is a file
\* is discovered by dir_add, after the inode has been written.
mkdir(m, path) ==
  LET parent == resolve(m.d, Front(path)) IN
  IF parent < 0 THEN Err(m)
  ELSE IF dir_lookup(m.d, parent, Last(path)) >= 0 THEN Err(m)
  ELSE Create(m, parent, Last(path), "dir")

write_file(m, path, v, len) ==
  LET parent == resolve(m.d, Front(path)) IN
  IF parent < 0 THEN Err(m)
  ELSE IF dir_lookup(m.d, parent, Last(path)) = WrongKind THEN Err(m)
  ELSE LET found == dir_lookup(m.d, parent, Last(path))
           made  == IF found = NotFound THEN Create(m, parent, Last(path), "file") ELSE m
           ino   == dir_lookup(made.d, parent, Last(path))
       IN  IF made.failed \/ made.d.inodes[ino].kind # "file" THEN Err(made)
           ELSE write_inode_data([made EXCEPT !.node = made.d.inodes[ino]], ino,
                                 Contents(v, len), len)

\* The data blocks, then the inode, then the entry.
remove_file(m, path) ==
  LET parent == resolve(m.d, Front(path))
      ino    == IF parent < 0 THEN parent ELSE dir_lookup(m.d, parent, Last(path))
  IN  IF ino < 0 THEN Err(m)
      ELSE IF m.d.inodes[ino].kind # "file" THEN Err(m)
      ELSE LET open == [m EXCEPT !.node = m.d.inodes[ino]]
               bare == FoldLeft(free_block, open, Upto(0, blocks_used(open.node)))
           IN  dir_remove(Write(bare, <<"inode", ino, Inode("free")>>), parent, Last(path))

format(m) ==
  FoldLeft(Write, m, <<<<"bitmap">>, <<"table">>, <<"super">>,
                       <<"inode", ROOT_INODE, Inode("dir")>>>>)

-----------------------------------------------------------------------------
(* The system                                                              *)

\* A medium without a superblock; what else is on it is left over.
Init ==
  /\ disk \in [sb     : {FALSE},
               bitmap : {[b \in Block |-> x] : x \in BOOLEAN},
               inodes : {[i \in Ino |-> Inode(k)] : k \in {"free", "file"}},
               data   : {[b \in Block |-> <<"old">>]}]
  /\ mounted = FALSE
  /\ op = <<>> /\ call = NoCall
  /\ expect = [p \in Path |-> Absent]
  /\ spoiled = FALSE
  /\ faults = 0

\* The plan frees a block or an inode: a removal, or a write that leaves a
\* file fewer blocks than it had.
GivesBack(m) ==
  \E k \in DOMAIN m.log :
    \/ m.log[k][1] = "bit" /\ ~m.log[k][3]
    \/ m.log[k][1] = "inode" /\ m.log[k][3].kind = "free"

\* A call whose plan is m takes the volume.  A call that fails without a
\* write changes nothing and is no step.
Begin(m, touch, after, mount) ==
  /\ m.log # <<>>
  /\ op' = m.log
  /\ call' = [touch |-> touch, after |-> after, mount |-> mount, gives |-> GivesBack(m)]
  /\ spoiled' = (spoiled \/ m.failed)
  /\ UNCHANGED <<disk, mounted, expect, faults>>

\* A call on one path.  One that fails leaves what was there before; if
\* nothing was there, nothing is promised of what is there afterwards.
Call(m, p, goal) ==
  /\ mounted /\ op = <<>>
  /\ Begin(m, {p},
           [expect EXCEPT ![p] = IF ~m.failed THEN goal
                                 ELSE IF expect[p] = Absent THEN Unknown ELSE expect[p]],
           TRUE)

Mkdir(p) == Call(mkdir(Start(disk), p), p, Dir)

WriteFile(p, v, len) == Call(write_file(Start(disk), p, v, len), p, Holds(Contents(v, len)))

RemoveFile(p) == Call(remove_file(Start(disk), p), p, Absent)

\* mount_root_fs_early: mount what has a superblock, else format and seed.
Boot ==
  /\ ~mounted /\ op = <<>>
  /\ IF disk.sb
     THEN /\ mounted' = TRUE
          /\ UNCHANGED <<disk, op, call, expect, spoiled, faults>>
     ELSE LET m == FoldLeft(mkdir, format(Start(disk)), Seed)
          IN  Begin(m, Path,
                    [p \in Path |-> IF m.failed THEN Unknown
                                    ELSE IF p \in ToSet(Seed) THEN Dir ELSE Absent],
                    ~m.failed)

\* The next write of the call reaches the medium; after the last the call
\* returns.
DeviceWrite ==
  /\ op # <<>>
  /\ disk' = Apply(disk, Head(op))
  /\ op' = Tail(op)
  /\ IF Len(op) > 1
     THEN UNCHANGED <<mounted, call, expect>>
     ELSE /\ mounted' = call.mount
          /\ expect' = call.after
          /\ call' = NoCall
  /\ UNCHANGED <<spoiled, faults>>

\* An orderly restart, between calls.
Reboot ==
  /\ mounted /\ op = <<>>
  /\ mounted' = FALSE
  /\ UNCHANGED <<disk, op, call, expect, spoiled, faults>>

\* The rest of a call is lost.  Nothing is promised of the paths it was about.
CutShort ==
  /\ op # <<>> /\ faults < MaxFaults /\ (call.gives => CutReclaims)
  /\ faults' = faults + 1
  /\ op' = <<>> /\ call' = NoCall
  /\ expect' = [p \in Path |-> IF p \in call.touch THEN Unknown ELSE expect[p]]
  /\ spoiled' = TRUE
  /\ UNCHANGED disk

PowerFail == CutShort /\ mounted' = FALSE
DeviceError == CutShort /\ UNCHANGED mounted

Next ==
  \/ Boot \/ Reboot \/ DeviceWrite \/ PowerFail \/ DeviceError
  \/ \E p \in Path : Mkdir(p) \/ RemoveFile(p)
  \/ \E p \in Path, v \in Version, len \in 0 .. MaxLen : WriteFile(p, v, len)

Spec == Init /\ [][Next]_vars

\* A device that loses power but reports no errors.
PowerSpec == Init /\ [][Next /\ ~DeviceError]_vars

-----------------------------------------------------------------------------
(* Properties                                                              *)

InUse == {i \in Ino : disk.inodes[i].kind # "free"}

Owned(i) == {disk.inodes[i].direct[k] : k \in 1 .. blocks_used(disk.inodes[i])}

Links == {<<i, k>> \in InUse \X (1 .. DIRECT_BLOCKS * EntriesPerBlock) :
            disk.inodes[i].kind = "dir" /\ k <= Len(read_dir_entries(disk, i))}

Linked(l) == read_dir_entries(disk, l[1])[l[2]]

\* Every path reads back what its last completed call left there, at every
\* single write of a call on another path, after any restart, and whatever
\* other calls have failed in between: fs.rs says files "survive a reboot".
ReadBack ==
  disk.sb => \A p \in Path \ call.touch :
               expect[p] \in {Unknown, ReadPath(disk, p)}

\* Between calls, the bitmap and the inodes agree: no two inodes, and no two
\* pointers of one, name the same data block, and every block an inode names
\* is marked, so alloc_block cannot hand it out again.
BlocksOwnedOnce ==
  mounted /\ op = <<>> =>
    /\ \A i \in InUse :
         /\ Cardinality(Owned(i)) = blocks_used(disk.inodes[i])
         /\ \A b \in Owned(i) : b # NoBlock /\ disk.bitmap[b]
    /\ \A i, j \in InUse : i # j => Owned(i) \cap Owned(j) = {}

\* Between calls, the directories form a tree: every entry names an inode in
\* use, no inode has two entries, no directory two entries of one name, and
\* the root has none.
TreeOfNames ==
  mounted /\ op = <<>> =>
    \A l \in Links :
      /\ Linked(l)[1] \in InUse \ {ROOT_INODE}
      /\ \A m \in Links \ {l} :
           /\ Linked(m)[1] # Linked(l)[1]
           /\ m[1] = l[1] => Linked(m)[2] # Linked(l)[2]

\* As long as no call has failed or been cut short, nothing is lost: every
\* marked block belongs to an inode and every inode in use has a name, so
\* remove_file and a shrinking write_file really give space back.
NothingLeaks ==
  mounted /\ op = <<>> /\ ~spoiled =>
    /\ \A b \in Block : disk.bitmap[b] => \E i \in InUse : b \in Owned(i)
    /\ \A i \in InUse \ {ROOT_INODE} : \E l \in Links : Linked(l)[1] = i

\* The structure a check of the file system would find: blocks owned once and
\* marked, a tree of names, and nothing lost, after every call, failed call and
\* restart (fs.rs:257-690).
FsIsSound == BlocksOwnedOnce /\ TreeOfNames /\ NothingLeaks
=============================================================================
