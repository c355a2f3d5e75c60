---------------------------- MODULE AddressSpace ----------------------------
(***************************************************************************)
(* Per-boundary address spaces: cibos-kernel/src/paging.rs and             *)
(* address_space.rs over the frame allocator of Frames.                    *)
(*                                                                         *)
(* Memory is the frames' contents, each read as a page table: an entry is  *)
(* <<frame, block>>, block marking a large-page leaf, or NoEntry.  Virtual *)
(* addresses are page numbers, and permissions are left out (a leaf's own  *)
(* bits decide them).  A page is its boundary's from the moment it is      *)
(* mapped, and holds whatever the boundary stores: words that read as      *)
(* present entries, which are still there when the frame comes back.       *)
(***************************************************************************)
EXTENDS Frames, Sequences, FiniteSetsExt, Folds

CONSTANTS
  Boundary,
  LEVELS,          \* levels of a page-table tree
  ENTRIES,         \* entries of a table
  MemoryMap,       \* the memory maps the firmware may report
  ReservedBelow,   \* bytes the kernel and the boot structures occupy
  Window,          \* shared and device memory the callers own: [phys, count] in frames
  MaxCount,        \* most pages one call maps
  Ring             \* frames of a device's contiguous ring

\* The frames an allocator never gives out: memory that is not usable, or beyond it.
Kept(a) == Nat \ FreeFrames(a)

ASSUME AddressSpaceAssumption ==
  /\ FRAME_SIZE \in Nat \ {0} /\ ENTRIES \in Nat \ {0} /\ LEVELS \in Nat \ {0, 1}
  /\ Window \subseteq [phys : Nat, count : Nat] /\ MaxCount \in Nat
  /\ Ring \in Nat \ {0}
  /\ \A regions \in MemoryMap :
       /\ IsFiniteSet(regions) /\ regions \subseteq [base : Nat, end : Nat, usable : BOOLEAN]
       /\ \A w \in Window : w.phys .. w.phys + w.count - 1 \subseteq Kept(from_regions(regions, ReservedBelow))

VARIABLES
  alloc,   \* the FrameAllocator
  mem,     \* per frame, its words read as page-table entries
  spaces,  \* per boundary: its root and the data frames recorded for it
  view,    \* per boundary: the pages mapped for it (history)
  tables,  \* per boundary: the page tables of its tree (history)
  dma,     \* the frames drivers have taken for their rings (history)
  leaked   \* the page tables of spaces torn down (history)

spaceVars == <<alloc, mem, spaces, view, tables, dma, leaked>>

Device == UNION {w.phys .. w.phys + w.count - 1 : w \in Window}
Page == 0 .. ENTRIES ^ LEVELS - 1
Index == 0 .. ENTRIES - 1
NoEntry == <<NoFrame, FALSE>>
Present(e) == e # NoEntry
Empty == [i \in Index |-> NoEntry]

NoSpace == [root |-> NoFrame, mapped |-> <<>>]
Unmapped == [p \in Page |-> NoFrame]

\* What a boundary may store in a page.
Stored == [i \in Index |-> <<0, FALSE>>]

\* Pages under one entry of a table at a level, the top level being 0.
Span(level) == ENTRIES ^ (LEVELS - 1 - level)

indices(virt) == [k \in 1 .. LEVELS |-> (virt \div Span(k - 1)) % ENTRIES]

\* A loop of n turns, the k-th taking the state x to op(x, k).
Loop(op(_, _), start, n) ==
  MapThenFoldSet(LAMBDA k, x : op(x, k), start, LAMBDA k : k, LAMBDA S : Max(S), 1 .. n)

-----------------------------------------------------------------------------
(* Reading                                                                 *)

\* The walk: a table to read next, or the frame a leaf on the way names.
Step(w, virt, level) ==
  LET e == mem[w.table][indices(virt)[level + 1]] IN
  IF w.done THEN w
  ELSE IF ~Present(e) THEN [w EXCEPT !.done = TRUE]
  ELSE IF level = LEVELS - 1 THEN [w EXCEPT !.done = TRUE, !.frame = e[1]]
  ELSE IF e[2] THEN [w EXCEPT !.done = TRUE, !.frame = e[1] + (virt % Span(level))]
  ELSE [w EXCEPT !.table = e[1]]

translate(root, virt) ==
  Loop(LAMBDA w, k : Step(w, virt, k - 1),
       [table |-> root, done |-> FALSE, frame |-> NoFrame], LEVELS).frame

Live == {b \in Boundary : spaces[b] # NoSpace}

-----------------------------------------------------------------------------
(* Mapping.  m is the state a call works on: the allocator, memory, the    *)
(* table the walk has reached, the frame last allocated, what has been     *)
(* recorded for the boundary, and whether the call has returned an error.  *)

Start(b) ==
  [a |-> alloc, mem |-> mem, root |-> spaces[b].root, table |-> NoFrame, got |-> NoFrame,
   mapped |-> spaces[b].mapped, view |-> view[b], tables |-> tables[b], next |-> 0,
   failed |-> FALSE]

Err(m) == [m EXCEPT !.failed = TRUE]

\* Wrong: the frame keeps what was in it.
allocate_zeroed_Dirty(m) ==
  IF m.failed \/ Found(m.a) = NoFrame THEN Err(m)
  ELSE [m EXCEPT !.a = allocate(m.a), !.got = Found(m.a)]

allocate_zeroed(m) ==
  IF m.failed \/ Found(m.a) = NoFrame THEN Err(m)
  ELSE [m EXCEPT !.a = allocate(m.a), !.got = Found(m.a), !.mem[Found(m.a)] = Empty]

\* One interior level: follow the table there, or put a new one there.
Descend(m, i) ==
  LET e == m.mem[m.table][i]
      n == allocate_zeroed(m)
  IN  IF m.failed THEN m
      ELSE IF Present(e) THEN IF e[2] THEN Err(m) ELSE [m EXCEPT !.table = e[1]]
      ELSE IF n.failed THEN n
      ELSE [n EXCEPT !.mem[m.table][i] = <<n.got, FALSE>>,
                     !.table = n.got, !.tables = n.tables \cup {n.got}]

Walk(m, virt, levels) ==
  Loop(LAMBDA n, k : Descend(n, indices(virt)[k]), [m EXCEPT !.table = m.root], levels)

\* The leaf itself, unless something is mapped there.
Leaf(m, i, frame, block, pages) ==
  IF m.failed THEN m
  ELSE IF Present(m.mem[m.table][i]) THEN Err(m)
  ELSE [m EXCEPT !.mem[m.table][i] = <<frame, block>>,
                 !.view = [p \in Page |-> IF p \in pages THEN frame + (p - Least(pages))
                                          ELSE m.view[p]]]

map(m, virt, frame) ==
  Leaf(Walk(m, virt, LEVELS - 1), indices(virt)[LEVELS], frame, FALSE, {virt})

map_block_2m(m, virt, frame) ==
  Leaf(Walk(m, virt, LEVELS - 2), indices(virt)[LEVELS - 1], frame, TRUE,
       virt .. virt + ENTRIES - 1)

\* Whether map_range takes a large page for the pages from i on.
TakesBlock(virt, phys, count, i) ==
  /\ (virt + i) % ENTRIES = 0 /\ (phys + i) % ENTRIES = 0
  /\ count - i >= ENTRIES

\* next is the loop's i: the pages before it are mapped.
map_range(m, virt, phys, count) ==
  Loop(LAMBDA n, k :
         LET i == k - 1 IN
         IF n.failed \/ i < n.next THEN n
         ELSE IF TakesBlock(virt, phys, count, i)
         THEN [map_block_2m(n, virt + i, phys + i) EXCEPT !.next = i + ENTRIES]
         ELSE [map(n, virt + i, phys + i) EXCEPT !.next = i + 1],
       m, count)

-----------------------------------------------------------------------------
(* The AddressSpaceManager                                                 *)

SpaceInit ==
  /\ alloc \in {from_regions(regions, ReservedBelow) : regions \in MemoryMap}
  /\ mem = [f \in 0 .. alloc.count - 1 |-> Stored]
  /\ spaces = [b \in Boundary |-> NoSpace]
  /\ view = [b \in Boundary |-> Unmapped]
  /\ tables = [b \in Boundary |-> {}]
  /\ dma = {} /\ leaked = {}

\* What a call leaves, its error included: nothing is undone.
Commit(b, m) ==
  /\ alloc' = m.a /\ mem' = m.mem
  /\ spaces' = [spaces EXCEPT ![b] = [root |-> m.root, mapped |-> m.mapped]]
  /\ view' = [view EXCEPT ![b] = m.view]
  /\ tables' = [tables EXCEPT ![b] = m.tables]
  /\ UNCHANGED <<dma, leaked>>

create_space(b) ==
  LET m == allocate_zeroed(Start(b)) IN
  /\ b \notin Live
  /\ ~m.failed
  /\ Commit(b, [m EXCEPT !.root = m.got, !.tables = {m.got}])

\* A frame whose mapping fails stays allocated and is not recorded.
map_new_pages(b, virt, count) ==
  /\ b \in Live
  /\ Commit(b, Loop(LAMBDA m, k :
                      LET z == allocate_zeroed(m)
                          n == map(z, virt + k - 1, z.got)
                      IN  IF n.failed THEN n
                          ELSE [n EXCEPT !.mapped = Append(n.mapped, z.got), !.mem[z.got] = Stored],
                    Start(b), count))

map_existing(b, virt, phys, count) ==
  /\ b \in Live
  /\ Commit(b, map_range(Start(b), virt, phys, count))

frees(a, seq) == Loop(LAMBDA n, k : free(n, seq[k]), a, Len(seq))

\* Wrong: the boundary's frames are freed and its space stays.
destroy_space_Keeps(b) ==
  /\ b \in Live
  /\ alloc' = frees(alloc, spaces[b].mapped)
  /\ UNCHANGED <<mem, spaces, view, tables, dma, leaked>>

\* Data frames go back; the frames of the tables do not.
destroy_space(b) ==
  /\ b \in Live
  /\ alloc' = frees(alloc, spaces[b].mapped)
  /\ spaces' = [spaces EXCEPT ![b] = NoSpace]
  /\ view' = [view EXCEPT ![b] = Unmapped]
  /\ tables' = [tables EXCEPT ![b] = {}]
  /\ leaked' = leaked \cup tables[b]
  /\ UNCHANGED <<mem, dma>>

\* A driver takes its ring, once, when it is brought up.
TakeRing ==
  /\ dma = {}
  /\ Runs(alloc, Ring) # {}
  /\ alloc' = allocate_contiguous(alloc, Ring)
  /\ dma' = alloc'.taken \ alloc.taken
  /\ UNCHANGED <<mem, spaces, view, tables, leaked>>

SpaceNext ==
  \/ TakeRing
  \/ \E b \in Boundary :
       \/ create_space(b)
       \/ destroy_space(b)
       \/ \E virt \in Page, count \in 1 .. MaxCount :
            virt + count - 1 \in Page /\ map_new_pages(b, virt, count)
       \/ \E virt \in Page, w \in Window :
            virt + w.count - 1 \in Page /\ map_existing(b, virt, w.phys, w.count)

SpaceSpec == SpaceInit /\ [][SpaceNext]_spaceVars

-----------------------------------------------------------------------------
(* Properties                                                              *)

\* The hardware walk finds what was mapped and nothing else: a boundary's
\* page tables translate every page to the frame its successful map calls
\* gave it, whatever spaces were torn down and whatever boundaries stored in
\* frames that are page tables now (AddressSpace::translate and map agree).
TranslatesWhatWasMapped ==
  \A b \in Live, p \in Page : translate(spaces[b].root, p) = view[b][p]

\* A frame that the allocator gave for a page of b.
Private(b, p) == view[b][p] \notin Device \cup {NoFrame}

\* No frame from the allocator is mapped in two spaces or twice in one, and
\* none that is mapped is a page table of any space or part of a driver's ring.
NothingShared ==
  \A b, c \in Live : \A p, q \in Page :
    /\ Private(b, p) /\ view[b][p] = view[c][q] => b = c /\ p = q
    /\ view[b][p] \notin dma \cup UNION {tables[d] : d \in Boundary}

\* Nothing in use can be handed out again: the tables and the allocator's
\* frames mapped in any space are marked, and the counter agrees with the
\* bitmap.
InUseIsTaken ==
  /\ \A b \in Live :
       /\ tables[b] \subseteq alloc.taken
       /\ \A p \in Page : Private(b, p) => view[b][p] \in alloc.taken
  /\ dma \subseteq alloc.taken
  /\ alloc.allocated = Cardinality(alloc.taken)

\* "Container A cannot read Container B" (address_space.rs:4): what one boundary
\* has mapped is in no other's space, no page table and no driver's ring, and
\* the allocator will give it to nobody while it is in use.
Isolated == NothingShared /\ InUseIsTaken

\* address_space.rs says a space is torn down "reclaiming every frame" but
\* for page-table nodes: with no space left, only those and the frames that
\* were never free are taken.
DataFramesReclaimed ==
  Live = {} => \A r \in MemoryMap :
    from_regions(r, ReservedBelow).count = alloc.count =>
      alloc.taken \subseteq from_regions(r, ReservedBelow).taken \cup leaked \cup dma
=============================================================================
