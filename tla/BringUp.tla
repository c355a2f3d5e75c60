------------------------------ MODULE BringUp -------------------------------
(***************************************************************************)
(* The kernel's bring-up (kernel-image/src/boot.rs, kernel_entry): device  *)
(* discovery and the registry of device windows, the handoff, the phases   *)
(* of the bring-up contract, the page tables of the running kernel, and    *)
(* the applications started on it.                                         *)
(*                                                                         *)
(* Addresses are numbers; a page is FRAME_SIZE of them.  What the frames   *)
(* of the page tables themselves are is left to module AddressSpace: here  *)
(* a mapping may run out of frames at any page.                            *)
(***************************************************************************)
EXTENDS Integers, Sequences, FiniteSets, FiniteSetsExt, Functions, Folds

CONSTANTS
    FRAME_SIZE,     \* addresses of a page
    CAP,            \* capacity of the registry of device windows
    SLOT,           \* least size of a virtio slot: 0x200
    PL011_LEN,      \* size of the PL011 register file: 0x1000
    Boards          \* the machines, and how the image was built for them

VARIABLES
    board,          \* the machine this is
    phase,          \* where kernel_entry is
    todo,           \* nodes of the device tree still to be looked up
    registry,       \* mmio_registry: windows, rounded to pages
    warned,         \* nodes the boot log complains of
    virtio,         \* VIRTIO_MMIO_BASE, _SLOT, _COUNT
    regions,        \* the memory map of the handoff
    pages,          \* page -> "Normal" or "Device"
    booted,         \* what is up: subset of {"rng", "rootfs", "mmu", "irq", "table"}
    disk,           \* the data disk: "absent", "blank", "fs"
    ran             \* the applications run so far, with what they returned

bringVars == <<board, phase, todo, registry, warned, virtio, regions, pages, booted, disk, ran>>

NoNode == <<>>
Floor(a) == a \div FRAME_SIZE
Ceil(a) == (a + FRAME_SIZE - 1) \div FRAME_SIZE
Usable(rs) == SelectSeq(rs, LAMBDA r : r.kind = "Usable")
Span(s, e) == s..(e - 1)

---------------------------------------------------------------------------
(* The nodes kernel_entry looks up, in its order.                          *)
Nodes(arch) ==
    CASE arch = "aarch64" -> <<"pl011", "intc", "virtio_mmio">>
      [] arch = "riscv64" -> <<"plic", "clint", "serial", "virtio_mmio">>
      [] OTHER -> <<>>

(* mmio_registry::register: an empty window and one already there are fine,*)
(* a full registry refuses.                                                *)
register(base, size) ==
    LET w == <<Floor(base), Ceil(base + size)>>
    IN  IF size = 0 \/ w \in Range(registry) THEN <<TRUE, registry>>
        ELSE IF Len(registry) >= CAP THEN <<FALSE, registry>>
        ELSE <<TRUE, Append(registry, w)>>

(* One lookup.  The PL011 has a register file of a known size; the virtio  *)
(* slots are an array from the lowest node on, as long as there are nodes. *)
discover ==
    /\ phase = "discover" /\ todo # <<>> /\ todo' = Tail(todo)
    /\ LET n == Head(todo)
           w == board.dtb[n]
           slot == IF w[2] = 0 THEN SLOT ELSE w[2]
           len == CASE n = "pl011" -> PL011_LEN
                    [] n = "virtio_mmio" -> slot * Max({board.slots, 1})
                    [] OTHER -> w[2]
           r == register(w[1], len)
       IN  IF w = NoNode THEN warned' = warned \cup {n} /\ UNCHANGED <<registry, virtio>>
           ELSE /\ registry' = r[2]
                /\ warned' = IF r[1] THEN warned ELSE warned \cup {n}
                /\ virtio' = IF n = "virtio_mmio"
                             THEN [base |-> w[1], slot |-> slot, count |-> Max({board.slots, 1})] ELSE virtio
    /\ UNCHANGED <<board, phase, regions, pages, booted, disk, ran>>

(* obtain_handoff and what kernel_entry does with it.  Self-boot images    *)
(* make their own: the RAM of the device tree, or no boot at all.          *)
synth_handoff ==
    IF board.arch \in {"x86_64", "x86"} THEN board.handoff
    ELSE IF board.dtb["memory"] = NoNode \/ board.dtb["memory"][2] = 0 THEN <<>>
    ELSE <<[base |-> board.dtb["memory"][1], length |-> board.dtb["memory"][2], kind |-> "Usable"]>>

obtain_handoff ==
    /\ phase = "discover" /\ todo = <<>>
    /\ regions' = IF board.self_boot THEN synth_handoff ELSE board.handoff
    /\ phase' = IF \/ board.self_boot /\ regions' = <<>>            \* panic
                   \/ ~board.self_boot /\ board.profile = "mismatch"
                   \/ ~board.self_boot /\ ~board.valid              \* Kernel::from_handoff
                THEN "halted" ELSE "entropy"
    /\ UNCHANGED <<board, todo, registry, warned, virtio, pages, booted, disk, ran>>

seed_entropy ==
    /\ phase = "entropy" /\ phase' = "mount"
    /\ booted' = booted \cup {"rng"}
    /\ UNCHANGED <<board, todo, registry, warned, virtio, regions, pages, disk, ran>>

(* The phases an architecture reports as skipped (impl ArchBringUp); ARM   *)
(* and RISC-V only report on the storage they verified with the MMU.       *)
Skips(phs) ==
    phs \in CASE board.arch = "x86" -> {"mount", "mmu", "storage"}
               [] board.arch = "x86_64" -> IF board.features \cap {"selftest", "interactive"} = {} THEN {"mount"} ELSE {}
               [] OTHER -> {"mount", "storage"}

(* mount_root_fs_early: mount what is there; only a disk without a file    *)
(* system is formatted.  The device may fail at either.                    *)
mount_root_fs ==
    /\ phase = "mount" /\ phase' = "mmu"
    /\ IF Skips("mount") \/ disk = "absent"
       THEN UNCHANGED <<booted, disk>>
       ELSE \/ disk = "fs" /\ booted' = booted \cup {"rootfs"} /\ UNCHANGED disk
            \/ disk = "blank" /\ disk' = "fs" /\ booted' = booted \cup {"rootfs"}
            \/ UNCHANGED <<booted, disk>>                             \* an I/O error
    /\ UNCHANGED <<board, todo, registry, warned, virtio, regions, pages, ran>>

---------------------------------------------------------------------------
(* bring_up_mmu_generic.                                                   *)
ram_base == Min({Usable(regions)[i].base : i \in DOMAIN Usable(regions)} \cup {2^30})
ram_end == Max({Usable(regions)[i].base + Usable(regions)[i].length : i \in DOMAIN Usable(regions)} \cup {0})
reserved_below == (IF Usable(regions) = <<>> THEN 0 ELSE ram_base) + board.kernel_span
map_end == Floor(Max({board.min_map, Floor(ram_end) * FRAME_SIZE}))

(* FrameAllocator::from_regions: the whole frames of usable memory above   *)
(* the kernel.                                                             *)
from_regions ==
    UNION {Span(Ceil(r.base), Floor(r.base + r.length)) : r \in Range(Usable(regions))}
        \ Span(0, Ceil(reserved_below))

(* The device windows, rounded outward; taken in ascending order, one that *)
(* touches the last is merged into it.                                     *)
devices ==
    {<<Floor(w[1]), Ceil(w[1] + w[2])>> : w \in {x \in board.fixed : x[2] > 0}} \cup Range(registry)
Highest(ws) == CHOOSE w \in ws : \A v \in ws : v[1] < w[1] \/ (v[1] = w[1] /\ v[2] <= w[2])
merged ==
    MapThenFoldSet(LAMBDA w, acc :
                       IF acc # <<>> /\ w[1] <= acc[Len(acc)][2]
                       THEN [acc EXCEPT ![Len(acc)] = <<@[1], Max({@[2], w[2]})>>] ELSE Append(acc, w),
                   <<>>, LAMBDA w : w, Highest, devices)

(* map_normal_region: the segments of a region between the device windows. *)
segments_Outward(r) ==
    LET ws == merged
        rb == Floor(r.base)
        re == Min({Ceil(r.base + r.length), map_end})
        clamp(a) == Min({Max({a, rb}), re})
        end == MapThenFoldSet(LAMBDA w, st :
                    IF clamp(w[1]) >= clamp(w[2]) THEN st
                    ELSE [cursor |-> Max({st.cursor, clamp(w[2])}),
                          segs |-> st.segs \cup IF st.cursor < clamp(w[1]) THEN {<<st.cursor, clamp(w[1])>>} ELSE {}],
                    [cursor |-> rb, segs |-> {}], LAMBDA i : ws[i], Max, DOMAIN ws)
    IN  IF rb >= re THEN {} ELSE end.segs \cup IF end.cursor < re THEN {<<end.cursor, re>>} ELSE {}
segments(r) ==
    LET ws == merged
        rb == Ceil(r.base)
        re == Min({Floor(r.base + r.length), map_end})
        clamp(a) == Min({Max({a, rb}), re})
        end == MapThenFoldSet(LAMBDA w, st :
                    IF clamp(w[1]) >= clamp(w[2]) THEN st
                    ELSE [cursor |-> Max({st.cursor, clamp(w[2])}),
                          segs |-> st.segs \cup IF st.cursor < clamp(w[1]) THEN {<<st.cursor, clamp(w[1])>>} ELSE {}],
                    [cursor |-> rb, segs |-> {}], LAMBDA i : ws[i], Max, DOMAIN ws)
    IN  IF rb >= re THEN {} ELSE end.segs \cup IF end.cursor < re THEN {<<end.cursor, re>>} ELSE {}

(* map_range over a set of segments: a page already mapped is an error.    *)
map_range(old, segs, type) ==
    LET new == UNION {Span(s[1], s[2]) : s \in segs}
    IN  IF new \cap DOMAIN old # {} THEN <<FALSE, old>>
        ELSE <<TRUE, [p \in DOMAIN old \cup new |-> IF p \in new THEN type ELSE old[p]]>>

(* The regions one after another, then the devices.                        *)
identity_map ==
    LET us == Usable(regions)
        normal == MapThenFoldSet(LAMBDA r, st : IF ~st[1] THEN st ELSE map_range(st[2], segments(r), "Normal"),
                                 <<TRUE, pages>>, LAMBDA i : us[i], Max, DOMAIN us)
    IN  IF ~normal[1] THEN normal ELSE map_range(normal[2], Range(merged), "Device")

bring_up_mmu ==
    /\ phase = "mmu"
    /\ \/ /\ ~Skips("mmu") /\ identity_map[1]
          /\ pages' = identity_map[2] /\ booted' = booted \cup {"mmu"}        \* P::install
          /\ phase' = IF board.arch = "x86_64" THEN "ring3" ELSE "virtio"
       \/ phase' = "storage" /\ UNCHANGED <<pages, booted>>       \* no map, or no frames for it
    /\ UNCHANGED <<board, todo, registry, warned, virtio, regions, disk, ran>>

---------------------------------------------------------------------------
(* verify_virtio_blk: the slots from the base on; a disk found in one is   *)
(* formatted.                                                              *)
slots ==
    IF virtio.base = 0 THEN {}
    ELSE {Floor(virtio.base + i * Max({virtio.slot, SLOT})) : i \in 0..(virtio.count - 1)}

verify_virtio_blk ==
    /\ phase = "virtio" /\ phase' = "storage"
    /\ disk' = IF slots = {} \/ disk = "absent" THEN disk ELSE "fs"
    /\ UNCHANGED <<board, todo, registry, warned, virtio, regions, pages, booted, ran>>

(* start_ring3_runtime up to its first application: tables, interrupt      *)
(* controller and timer, interrupts on, the table of channel handles.      *)
start_ring3_runtime ==
    /\ phase = "ring3" /\ phase' = "apps"
    /\ booted' = booted \cup {"irq", "table"}
    /\ UNCHANGED <<board, todo, registry, warned, virtio, regions, pages, disk, ran>>

(* The applications, in order.  The shell is run on a login that returned  *)
(* 0 only: in the scripted session after the second, in the live one after *)
(* its own.                                                                *)
Script ==
    <<"hello">> \o (IF "app-hello" \in board.features THEN <<"hello-rs">> ELSE <<>>)
    \o (IF {"selftest", "app-login"} \subseteq board.features
        THEN <<"create", "login">> \o IF "app-shell" \in board.features THEN <<"shell">> ELSE <<>> ELSE <<>>)
    \o (IF "interactive" \in board.features THEN <<"login", "shell">> ELSE <<>>)

Skipped(i) == Script[i] = "shell" /\ ran[i - 1].code # 0
run_app_image_isolated_Ungated ==
    /\ phase = "apps" /\ Len(ran) < Len(Script)
    /\ \E code \in {0, 1, 7, -1} : ran' = Append(ran, [app |-> Script[Len(ran) + 1], code |-> code])
    /\ UNCHANGED <<board, phase, todo, registry, warned, virtio, regions, pages, booted, disk>>
run_app_image_isolated ==
    /\ phase = "apps" /\ Len(ran) < Len(Script)
    /\ LET i == Len(ran) + 1
       IN  \/ ~Skipped(i) /\ \E code \in {0, 1, 7, -1} : ran' = Append(ran, [app |-> Script[i], code |-> code])
           \/ Skipped(i) /\ ran' = Append(ran, [app |-> "none", code |-> -1])
    /\ UNCHANGED <<board, phase, todo, registry, warned, virtio, regions, pages, booted, disk>>

apps_done ==
    /\ phase = "apps" /\ Len(ran) = Len(Script) /\ phase' = "storage"
    /\ UNCHANGED <<board, todo, registry, warned, virtio, regions, pages, booted, disk, ran>>

(* verify_storage: a self-test image without a root file system formats    *)
(* the data disk and mounts it.                                            *)
verify_storage ==
    /\ phase = "storage" /\ phase' = "complete"
    /\ IF ~Skips("storage") /\ "selftest" \in board.features /\ "rootfs" \notin booted /\ disk # "absent"
       THEN disk' = "fs" /\ booted' \in {booted, booted \cup {"rootfs"}}
       ELSE UNCHANGED <<booted, disk>>
    /\ UNCHANGED <<board, todo, registry, warned, virtio, regions, pages, ran>>

---------------------------------------------------------------------------
BringInit ==
    /\ board \in Boards /\ phase = "discover" /\ todo = Nodes(board.arch)
    /\ registry = <<>> /\ warned = {} /\ virtio = [base |-> 0, slot |-> 0, count |-> 0]
    /\ regions = <<>> /\ pages = <<>> /\ booted = {}
    /\ disk \in {"absent", "blank", "fs"} /\ ran = <<>>

BringNext ==
    \/ discover \/ obtain_handoff \/ seed_entropy \/ mount_root_fs \/ bring_up_mmu
    \/ verify_virtio_blk \/ start_ring3_runtime \/ run_app_image_isolated \/ apps_done \/ verify_storage

BringSpec == BringInit /\ [][BringNext]_bringVars

---------------------------------------------------------------------------
Windows ==      \* what the machine says of its devices
    {<<w[1], w[1] + w[2]>> : w \in board.fixed}
    \cup {LET w == board.dtb[n]
          IN  <<w[1], w[1] + (CASE n = "pl011" -> PL011_LEN
                                [] n = "virtio_mmio" -> (IF w[2] = 0 THEN SLOT ELSE w[2]) * board.slots
                                [] OTHER -> w[2])>>
          : n \in {m \in Range(Nodes(board.arch)) \ warned : board.dtb[m] # NoNode}}
Addresses(p) == (p * FRAME_SIZE)..((p + 1) * FRAME_SIZE - 1)
IsDevice(p) == \E w \in Windows : \E a \in Addresses(p) : w[1] <= a /\ a < w[2]
IsRam(p) == \A a \in Addresses(p) : \E r \in Range(Usable(regions)) : r.base <= a /\ a < r.base + r.length

(* "The kernel must therefore map each page with the type the platform     *)
(* says it has": once the MMU is on, exactly the pages any device window   *)
(* the log did not complain of reaches into are Device, and exactly the    *)
(* pages wholly in usable memory that no device reaches into are Normal;   *)
(* every frame the allocator can hand out is among them (bring_up_mmu_     *)
(* generic, mmio_registry), and so is every virtio slot that is probed.    *)
MapFollowsPlatform ==
    "mmu" \in booted =>
        LET all == 0..Max(DOMAIN pages \cup {Ceil(w[2]) : w \in Windows} \cup {Floor(ram_end) + 1})
        IN  /\ \A p \in all : p \in DOMAIN pages <=> IsDevice(p) \/ IsRam(p)
            /\ \A p \in DOMAIN pages : (pages[p] = "Device") <=> IsDevice(p)
            /\ from_regions \subseteq {p \in DOMAIN pages : pages[p] = "Normal"}
            /\ "virtio_mmio" \notin warned => slots \subseteq {p \in DOMAIN pages : pages[p] = "Device"}

(* No application runs before the kernel's own page tables, the random     *)
(* number generator, interrupts and the handle table are up; a shell       *)
(* session only ever follows a login that was granted (start_ring3_        *)
(* runtime, run_interactive_session).                                      *)
AppsRunReady ==
    /\ ran # <<>> => {"rng", "mmu", "irq", "table"} \subseteq booted
    /\ \A i \in DOMAIN ran : ran[i].app = "shell" => i > 1 /\ ran[i - 1] = [app |-> "login", code |-> 0]
=============================================================================
