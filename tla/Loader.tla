------------------------------- MODULE Loader -------------------------------
(***************************************************************************)
(* From a linked program to a process: build.rs turns the sections of an   *)
(* ELF file into segments, AppImageBuilder writes them as a .capp image,   *)
(* AppImage::parse checks it, and loader.rs maps it page by page into a    *)
(* fresh address space, with a stack and a heap, and enters it.  Also the  *)
(* lanes of the multilane demonstration, which share one space and spawn   *)
(* more lanes in it.                                                       *)
(*                                                                         *)
(* A page has FRAME_SIZE bytes and a page table covers TableSpan pages;    *)
(* both are scaled down.  A frame the allocator hands out holds Garbage.   *)
(***************************************************************************)
EXTENDS Integers, Sequences, FiniteSets, FiniteSetsExt, SequencesExt, Functions

CONSTANTS
    FRAME_SIZE, TableSpan, NFrames,
    KernelPages,                    \* KERNEL_IDENTITY_MAP_BYTES / FRAME_SIZE
    AppBase, StackOffset, HeapOffset, HEAP_PAGES,
    HEADER_LEN, SEGMENT_LEN, MAX_SEGMENTS,
    Elfs,                           \* section layouts of linked programs
    Segments,                       \* segment lists given to the builder directly
    SpawnStack,                     \* SPAWN_STACK_NEXT at first
    MaxSpawns                       \* bound: lanes spawned

VARIABLES
    loadPc,     \* where the loader is
    want,       \* the memory the program asks for: address -> [byte, perms]
    image,      \* the .capp image, after it was stored
    seg, page,  \* load_app_image's loop
    frees,      \* free frames
    mem,        \* frame -> its bytes
    space,      \* the new address space: [root, tables, pages]
    cr3,        \* the installed root
    stackNext   \* SPAWN_STACK_NEXT

loaderVars == <<loadPc, want, image, seg, page, frees, mem, space, cr3, stackNext>>

KernelRoot == 0
Garbage == -1
Zero == [o \in 0..(FRAME_SIZE - 1) |-> 0]
Kernel_rwx == "kernel rwx"
user_rx == "user rx"
user_rw == "user rw"

---------------------------------------------------------------------------
(* build.rs.  A section that is missing has address 0.                     *)
Body(first, n) == [k \in 1..n |-> first + k]
Segment(vaddr, mem_size, flags, body) == [vaddr |-> vaddr, mem_size |-> mem_size, flags |-> flags, body |-> body]

build_rust_capp(elf) ==
    LET data == Body(200, elf.data.size)
        has == data # <<>> /\ elf.data.addr # 0
        vaddr == IF has THEN elf.data.addr ELSE elf.bss.addr
        size == IF elf.data.addr # 0 /\ elf.bss.addr # 0 THEN elf.bss.addr + elf.bss.size - elf.data.addr
                ELSE IF elf.bss.addr # 0 THEN elf.bss.size ELSE elf.data.size
    IN  <<Segment(AppBase, elf.text, user_rx, Body(100, elf.text))>>
        \o (IF size > 0 THEN <<Segment(vaddr, size, user_rw, IF has THEN data ELSE <<>>)>> ELSE <<>>)

(* AppImageBuilder::build: descriptors, then the bodies one after another. *)
build(segs) ==
    LET table == HEADER_LEN + Len(segs) * SEGMENT_LEN
        offset(i) == table + FoldLeft(LAMBDA n, s : n + Len(s.body), 0, SubSeq(segs, 1, i - 1))
    IN  [magic |-> TRUE, version |-> TRUE, entry |-> AppBase,
         segs |-> [i \in DOMAIN segs |-> [vaddr |-> segs[i].vaddr, offset |-> offset(i), flags |-> segs[i].flags,
                                          file_size |-> Len(segs[i].body), mem_size |-> segs[i].mem_size]],
         bytes |-> FoldLeft(LAMBDA b, s : b \o s.body, [k \in 1..table |-> 0], segs)]

parse(img) ==
    /\ Len(img.bytes) >= HEADER_LEN
    /\ img.magic /\ img.version /\ Len(img.segs) <= MAX_SEGMENTS
    /\ HEADER_LEN + Len(img.segs) * SEGMENT_LEN <= Len(img.bytes)
    /\ \A i \in DOMAIN img.segs :
          LET s == img.segs[i]
          IN  s.file_size <= s.mem_size /\ (s.file_size > 0 => s.offset + s.file_size <= Len(img.bytes))

segment_body(img, s) == SubSeq(img.bytes, s.offset + 1, s.offset + s.file_size)

---------------------------------------------------------------------------
(* AddressSpace::map: a frame for the table if there is none, and no page  *)
(* twice.  On failure what was allocated before stays allocated.           *)
NextFrame == Min(frees)
Mapped(sp, fr, p, f, perms) ==
    LET t == p \div TableSpan
        new == t \notin DOMAIN sp.tables
        tf == Min(fr)
        sp2 == IF new THEN [sp EXCEPT !.tables = [x \in DOMAIN @ \cup {t} |-> IF x = t THEN tf ELSE @[x]]] ELSE sp
    IN  IF new /\ fr = {} THEN [ok |-> FALSE, space |-> sp, frees |-> fr]
        ELSE [ok |-> p \notin DOMAIN sp.pages,
              space |-> IF p \in DOMAIN sp.pages THEN sp2
                        ELSE [sp2 EXCEPT !.pages = [x \in DOMAIN @ \cup {p} |->
                                IF x = p THEN [frame |-> f, perms |-> perms] ELSE @[x]]],
              frees |-> IF new THEN fr \ {tf} ELSE fr]

(* A page of the new space, from a frame with the given contents.          *)
MapFresh(p, perms, bytes, next, failed) ==
    IF frees = {} THEN failed /\ UNCHANGED <<frees, mem, space>>
    ELSE LET f == NextFrame
             m == Mapped(space, frees \ {f}, p, f, perms)
         IN  /\ frees' = m.frees /\ space' = m.space /\ mem' = [mem EXCEPT ![f] = bytes]
             /\ IF m.ok THEN next ELSE failed

GiveUp == loadPc' = "kernel" /\ UNCHANGED <<seg, page>>

(* AddressSpace::new and the identity map of the kernel, supervisor only.  *)
new_space(next) ==
    LET root == NextFrame
        tables == {p \div TableSpan : p \in 0..(KernelPages - 1)}
        tf == [t \in tables |-> root + 1 + t]
    IN  IF Cardinality(frees) < 1 + Cardinality(tables)
        THEN /\ loadPc' = "kernel" /\ UNCHANGED <<space, mem>>
             /\ frees' = {}
        ELSE /\ frees' = frees \ ({root} \cup {tf[t] : t \in tables})
             /\ space' = [root |-> root, tables |-> tf,
                          pages |-> [p \in 0..(KernelPages - 1) |-> [frame |-> -1 - p, perms |-> Kernel_rwx]]]
             /\ UNCHANGED mem /\ loadPc' = next

run_app_image_isolated ==
    /\ loadPc = "stored"
    /\ IF parse(image) THEN new_space("segments") ELSE loadPc' = "kernel" /\ UNCHANGED <<frees, space, mem>>
    /\ seg' = 1 /\ page' = 0
    /\ UNCHANGED <<want, image, cr3, stackNext>>

(* A bug: each page is filled from the start of the body.                  *)
CopiedPage_Restarts(s, p) ==
    LET body == segment_body(image, s)
    IN  [o \in DOMAIN Zero |-> IF o < Len(body) THEN body[o + 1] ELSE 0]

(* One page of load_app_image: the part of the body that falls in it is    *)
(* copied to its place in a zeroed frame.                                  *)
CopiedPage(s, p) ==
    LET lo == Max({s.vaddr, p * FRAME_SIZE})
        hi == Min({s.vaddr + s.file_size, (p + 1) * FRAME_SIZE})
        body == segment_body(image, s)
    IN  [o \in DOMAIN Zero |-> LET a == p * FRAME_SIZE + o
                               IN  IF lo <= a /\ a < hi THEN body[a - s.vaddr + 1] ELSE 0]

load_app_image ==
    /\ loadPc = "segments"
    /\ LET s == image.segs[seg]
           first == s.vaddr \div FRAME_SIZE
           count == (s.vaddr + s.mem_size - first * FRAME_SIZE + FRAME_SIZE - 1) \div FRAME_SIZE
       IN  IF seg > Len(image.segs) THEN loadPc' = "stack" /\ UNCHANGED <<seg, page, frees, mem, space>>
           ELSE IF page >= count THEN seg' = seg + 1 /\ page' = 0 /\ UNCHANGED <<loadPc, frees, mem, space>>
           ELSE MapFresh(first + page, s.flags, CopiedPage(s, first + page),
                         page' = page + 1 /\ UNCHANGED <<loadPc, seg>>, GiveUp)
    /\ UNCHANGED <<want, image, cr3, stackNext>>

(* map_user_stack, for the one-page stack and then for the heap.           *)
map_user_stack ==
    /\ loadPc \in {"stack", "heap"}
    /\ LET base == AppBase + (IF loadPc = "stack" THEN StackOffset ELSE HeapOffset)
           n == IF loadPc = "stack" THEN 1 ELSE HEAP_PAGES
           done == IF loadPc = "stack" THEN page' = 0 /\ loadPc' = "heap" ELSE page' = 0 /\ loadPc' = "enter"
       IN  MapFresh(base \div FRAME_SIZE + page, user_rw, Zero,
                    UNCHANGED seg /\ IF page + 1 = n THEN done ELSE page' = page + 1 /\ UNCHANGED loadPc, GiveUp)
    /\ UNCHANGED <<want, image, cr3, stackNext>>

enter_user_context ==
    /\ loadPc = "enter"
    /\ loadPc' = "user" /\ cr3' = space.root
    /\ UNCHANGED <<want, image, seg, page, frees, mem, space, stackNext>>

(* The application writes its own memory; its exit restores the kernel's   *)
(* root.  Nothing of the space is given back.                              *)
exit ==
    /\ loadPc \in {"user", "lanes"}
    /\ loadPc' = "kernel" /\ cr3' = KernelRoot
    /\ UNCHANGED <<want, image, seg, page, frees, mem, space, stackNext>>

---------------------------------------------------------------------------
(* The demonstration's lanes: a space, and for each lane a code page and a *)
(* stack page; then the space is installed, and a lane may spawn another   *)
(* with a stack of its own, at an address no lane was given before.        *)
LaneCode(i) == AppBase + i * FRAME_SIZE
LaneStack(i) == AppBase + (2 + i) * FRAME_SIZE
LanePage(p) ==      \* map_lane writes the code page and zeroes the stack page
    IF p < 2 THEN [o \in DOMAIN Zero |-> 100 + p] ELSE Zero

new_lane_space ==
    /\ loadPc = "demo"
    /\ new_space("map_lane") /\ page' = 0
    /\ UNCHANGED <<want, image, seg, cr3, stackNext>>

map_lane ==
    /\ loadPc = "map_lane"
    /\ LET k == page \div 2        \* lane
           stack == page % 2 = 1
           at == (IF stack THEN LaneStack(k) ELSE LaneCode(k)) \div FRAME_SIZE
       IN  MapFresh(at, IF stack THEN user_rw ELSE user_rx, LanePage(IF stack THEN 2 ELSE k),
                    page' = page + 1 /\ UNCHANGED seg /\ (IF page = 3 THEN loadPc' = "install" ELSE UNCHANGED loadPc),
                    GiveUp)
    /\ UNCHANGED <<want, image, cr3, stackNext>>

install_space ==
    /\ loadPc = "install"
    /\ loadPc' = "lanes" /\ cr3' = space.root
    /\ want' = [a \in LaneCode(0)..(LaneStack(2) - 1) |->
                  IF a < LaneStack(0) THEN [byte |-> 100 + (a - AppBase) \div FRAME_SIZE, perms |-> user_rx]
                  ELSE [byte |-> 0, perms |-> user_rw]]
    /\ UNCHANGED <<image, seg, page, frees, mem, space, stackNext>>

map_spawn_stack ==
    /\ loadPc = "lanes" /\ stackNext < SpawnStack + MaxSpawns * FRAME_SIZE
    /\ stackNext' = stackNext + FRAME_SIZE
    /\ MapFresh(stackNext \div FRAME_SIZE, user_rw, Zero,
                want' = [a \in DOMAIN want \cup (stackNext..(stackNext + FRAME_SIZE - 1)) |->
                           IF a \in DOMAIN want THEN want[a] ELSE [byte |-> 0, perms |-> user_rw]],
                UNCHANGED want)
    /\ UNCHANGED <<loadPc, image, seg, page, cr3>>

---------------------------------------------------------------------------
(* What a linked program, or a list of segments, asks of memory.           *)
SectionWants(elf) ==
    [a \in (AppBase..(AppBase + elf.text - 1))
           \cup (IF elf.data.addr = 0 THEN {} ELSE elf.data.addr..(elf.data.addr + elf.data.size - 1))
           \cup (IF elf.bss.addr = 0 THEN {} ELSE elf.bss.addr..(elf.bss.addr + elf.bss.size - 1)) |->
        IF a < AppBase + elf.text THEN [byte |-> 101 + a - AppBase, perms |-> user_rx]
        ELSE [byte |-> IF elf.data.addr # 0 /\ a < elf.data.addr + elf.data.size THEN 201 + a - elf.data.addr ELSE 0,
              perms |-> user_rw]]
SegmentWants(segs) ==
    LET at(s) == s.vaddr..(s.vaddr + s.mem_size - 1)
        of(a) == CHOOSE i \in DOMAIN segs : a \in at(segs[i])
    IN  [a \in UNION {at(segs[i]) : i \in DOMAIN segs} |->
            LET s == segs[of(a)]
            IN  [perms |-> s.flags, byte |-> IF a - s.vaddr < Len(s.body) THEN s.body[a - s.vaddr + 1] ELSE 0]]

(* A stored image may have lost its end, or not be an image at all.        *)
Stored(img) ==
    {img, [img EXCEPT !.magic = FALSE], [img EXCEPT !.version = FALSE],
     [img EXCEPT !.bytes = SubSeq(@, 1, Len(@) - 1)], [img EXCEPT !.bytes = <<>>]}

LoaderInit ==
    /\ \/ \E e \in Elfs : /\ want = SectionWants(e) /\ image \in Stored(build(build_rust_capp(e)))
                          /\ loadPc = "stored"
       \/ \E s \in Segments : want = SegmentWants(s) /\ image \in Stored(build(s)) /\ loadPc = "stored"
       \/ want = <<>> /\ image = build(<<>>) /\ loadPc = "demo"
    /\ \E n \in 0..NFrames : frees = 1..n
    /\ mem = [f \in 1..NFrames |-> [o \in DOMAIN Zero |-> Garbage]]
    /\ seg = 1 /\ page = 0 /\ cr3 = KernelRoot /\ stackNext = SpawnStack
    /\ space = [root |-> KernelRoot, tables |-> <<>>, pages |-> <<>>]

LoaderNext ==
    \/ run_app_image_isolated \/ load_app_image \/ map_user_stack \/ enter_user_context \/ exit
    \/ new_lane_space \/ map_lane \/ install_space \/ map_spawn_stack

LoaderSpec == LoaderInit /\ [][LoaderNext]_loaderVars

---------------------------------------------------------------------------
(* What runs is what was linked.  Whenever the application's space is      *)
(* installed, every byte the program asked for is mapped with its value    *)
(* and its permissions, every other byte of a user page is zero, the       *)
(* kernel's pages are there for the supervisor only, and no frame backs    *)
(* two pages, a page and a table, or is still free (loader.rs:154-243,     *)
(* build.rs:181-215, app_image.rs:362-405).  And the loader never leaves   *)
(* the kernel on another root.                                             *)
UserPages == {p \in DOMAIN space.pages : space.pages[p].perms # Kernel_rwx}
Byte(a) == mem[space.pages[a \div FRAME_SIZE].frame][a % FRAME_SIZE]
Frames_of(sp) == {sp.root} \cup Range(sp.tables)

RunsWhatWasLinked ==
    /\ loadPc \notin {"user", "lanes"} => cr3 = KernelRoot
    /\ cr3 # KernelRoot =>
        /\ cr3 = space.root
        /\ \A a \in DOMAIN want : /\ a \div FRAME_SIZE \in UserPages
                                  /\ Byte(a) = want[a].byte
                                  /\ space.pages[a \div FRAME_SIZE].perms = want[a].perms
        /\ \A p \in UserPages : \A o \in DOMAIN Zero :
              p * FRAME_SIZE + o \notin DOMAIN want => mem[space.pages[p].frame][o] = 0
        /\ \A p \in 0..(KernelPages - 1) : p \in DOMAIN space.pages \ UserPages
        /\ \A p, q \in UserPages : space.pages[p].frame = space.pages[q].frame => p = q
        /\ \A p \in UserPages : space.pages[p].frame \notin frees \cup Frames_of(space)
        /\ \A p \in UserPages : p \div TableSpan \in DOMAIN space.tables
=============================================================================
