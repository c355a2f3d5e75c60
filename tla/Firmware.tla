------------------------------ MODULE Firmware ------------------------------
(***************************************************************************)
(* From the image builder to the kernel's first instruction: mkimage       *)
(* (tools/mkimage) builds and signs a CIBOS image, mkbootimage lays it out *)
(* on a disk, the bootloader or the platform's loader puts it in memory,   *)
(* and CIBIOS (cibios/src) detects the machine, verifies the image, places *)
(* its components, and hands the machine over.                             *)
(*                                                                         *)
(* An image is a sequence of cells, a memory a function of addresses to    *)
(* cells: the header, a component descriptor and a signature are a cell    *)
(* each, a component's body is a cell per byte.  A cell read as what it is *)
(* not yields Noise.  SHA-256 and a signature are as good as the bytes     *)
(* they are of.  The image may be damaged, or cut, on the medium.          *)
(***************************************************************************)
EXTENDS Integers, Sequences, FiniteSets, SequencesExt

CONSTANTS
    MAX_COMPONENTS,
    MAX_E820,       \* entries the bootloader keeps of the BIOS memory map
    SECTOR,         \* cells of a disk sector
    CHUNK_SECTORS,  \* sectors the bootloader reads at a time
    LowTop,         \* 1 MiB
    MemTop,         \* addresses of the machine
    RootKey,        \* the trusted root key compiled into the firmware
    Machines,       \* the machines, and how CIBIOS was built for them
    Builds          \* what mkimage is asked to build

VARIABLES
    mach,           \* the machine
    built,          \* what mkimage was asked to build
    image,          \* the image, as it is on the medium
    hurt,           \* what befell it there: "none", "table", "body", "sig", "cut"
    told,           \* what `mkimage verify` said of it: "", "VERIFIED", "refused"
    ram,
    fw              \* where the firmware is, and what it knows

fwVars == <<mach, built, image, hurt, told, ram, fw>>

HEADER_LEN == 1
DESCRIPTOR_LEN == 1
SIGNATURE_LEN == 1
Profiles == {"MaximumIsolation", "Balanced", "Performance", "Compute"}
Algorithms == {"Ed25519", "SphincsPlus", "MlDsa"}
Byte(v) == [by |-> v]
sha256(cells) == [sha |-> cells]
Signature(key, cells) == [sg |-> [key |-> key, over |-> cells]]
Noise == [offset |-> 0, length |-> 0, load_addr |-> 0, hash |-> [sha |-> <<[by |-> -1]>>]]
At(cells, start, len) == SubSeq(cells, start + 1, start + len)

---------------------------------------------------------------------------
(* The image (cibios/src/image.rs): its builder and its reader.            *)
build_unsigned(params, components) ==
    LET bodies == [i \in DOMAIN components |-> components[i].body]
        start(i) == HEADER_LEN + Len(bodies) * DESCRIPTOR_LEN + Len(FlattenSeq(SubSeq(bodies, 1, i - 1)))
    IN  <<[hd |-> [magic |-> "CIBOS", version |-> 1, architecture |-> params.architecture,
                   cibos_profile |-> params.cibos_profile, component_count |-> Len(components),
                   signature_algorithm |-> params.signature_algorithm, entry_point |-> params.entry_point,
                   signed_region_len |-> start(Len(bodies) + 1), signature_len |-> params.signature_len]]>>
        \o [i \in DOMAIN components |->
              [ds |-> [offset |-> start(i), length |-> Len(bodies[i]),
                       load_addr |-> components[i].load_addr, hash |-> sha256(bodies[i])]]]
        \o FlattenSeq(bodies)

finalize_signed(unsigned, signature) == unsigned \o signature

header(bytes) == bytes[1].hd

(* ImageView::parse: the descriptor table and the signature lie within the *)
(* image, the table within the signed region.                              *)
parses(bytes) ==
    /\ Len(bytes) >= HEADER_LEN
    /\ LET h == header(bytes)
           descriptors_end == HEADER_LEN + h.component_count * DESCRIPTOR_LEN
       IN  /\ h.magic = "CIBOS" /\ h.version = 1
           /\ h.component_count <= MAX_COMPONENTS
           /\ descriptors_end <= Len(bytes)
           /\ h.signed_region_len >= descriptors_end
           /\ h.signed_region_len + h.signature_len <= Len(bytes)

descriptor(bytes, i) ==
    LET cell == bytes[HEADER_LEN + i * DESCRIPTOR_LEN]
    IN  IF "ds" \in DOMAIN cell THEN cell.ds ELSE Noise

(* component_body: within the image, though it need not be within the      *)
(* region that is signed.                                                  *)
has_body(bytes, d) == d.offset + d.length <= Len(bytes)
component_body(bytes, d) == At(bytes, d.offset, d.length)

verify_component_hashes_SkipsLast(bytes) ==
    \A i \in 1..(header(bytes).component_count - 1) :
        /\ has_body(bytes, descriptor(bytes, i))
        /\ sha256(component_body(bytes, descriptor(bytes, i))) = descriptor(bytes, i).hash

verify_component_hashes(bytes) ==
    \A i \in 1..header(bytes).component_count :
        /\ has_body(bytes, descriptor(bytes, i))
        /\ sha256(component_body(bytes, descriptor(bytes, i))) = descriptor(bytes, i).hash

---------------------------------------------------------------------------
(* verify_image (cibios/src/verification.rs): the architecture, the hashes *)
(* always, the signature when the policy requires it, under the algorithm  *)
(* the header names; one that is unknown or not compiled in fails closed.  *)
verify_with(algorithm, key, message, signature) ==
    algorithm = "SphincsPlus" /\ signature = <<Signature(key, message)>>

verify_signature(bytes, key) ==
    LET h == header(bytes)
    IN  /\ h.signature_algorithm \in Algorithms
        /\ verify_with(h.signature_algorithm, key, At(bytes, 0, h.signed_region_len),
                       At(bytes, h.signed_region_len, h.signature_len))

verify_image(bytes, policy, key) ==
    /\ parses(bytes)
    /\ header(bytes).architecture = policy.running_architecture
    /\ verify_component_hashes(bytes)
    /\ policy.require_signature => verify_signature(bytes, key)

---------------------------------------------------------------------------
(* mkimage.  A build names no profile or one of the four; the default is   *)
(* Balanced.                                                               *)
profile_from(b) == IF b.profile = "" THEN "Balanced" ELSE b.profile

ImageParams(b, algorithm, len) ==
    [architecture |-> b.arch, cibos_profile |-> profile_from(b), entry_point |-> b.entry,
     signature_algorithm |-> algorithm, signature_len |-> len]

cmd_build(b) == build_unsigned(ImageParams(b, "none", 0), b.components)

cmd_sign(b, secret_key) ==
    LET unsigned == build_unsigned(ImageParams(b, "SphincsPlus", SIGNATURE_LEN), b.components)
    IN  finalize_signed(unsigned, <<Signature(secret_key, unsigned)>>)

MkImage ==
    /\ fw.at = "off" /\ image = <<>>
    /\ image' = IF built.key = "" THEN cmd_build(built) ELSE cmd_sign(built, built.key)
    /\ UNCHANGED <<mach, built, hurt, told, ram, fw>>

(* `mkimage verify image arch [pubkey]`, for the machine's architecture.   *)
cmd_verify ==
    /\ fw.at = "off" /\ image # <<>> /\ hurt = "none" /\ told = ""
    /\ \E pubkey \in {"", RootKey} :
         told' = IF verify_image(image, [require_signature |-> pubkey # "", running_architecture |-> mach.arch], pubkey)
                 THEN IF pubkey = "" THEN "hashes" ELSE "VERIFIED"
                 ELSE "refused"
    /\ UNCHANGED <<mach, built, image, hurt, ram, fw>>

---------------------------------------------------------------------------
(* A cell gone bad on the medium, or the tail of the image lost.           *)
Damaged(cell) ==
    IF "hd" \in DOMAIN cell
    THEN {[hd |-> h] : h \in {[cell.hd EXCEPT !.magic = "noise"], [cell.hd EXCEPT !.version = 2],
                              [cell.hd EXCEPT !.architecture = "noise"], [cell.hd EXCEPT !.entry_point = @ + 1],
                              [cell.hd EXCEPT !.component_count = @ + 1], [cell.hd EXCEPT !.component_count = @ - 1],
                              [cell.hd EXCEPT !.signed_region_len = @ + 1], [cell.hd EXCEPT !.signed_region_len = @ - 1],
                              [cell.hd EXCEPT !.signature_algorithm = "noise"], [cell.hd EXCEPT !.signature_len = 1 - @],
                              [cell.hd EXCEPT !.component_count = MAX_COMPONENTS + 1], [cell.hd EXCEPT !.cibos_profile = "noise"]}}
    ELSE IF "ds" \in DOMAIN cell
    THEN {[ds |-> d] : d \in {[cell.ds EXCEPT !.offset = @ + 1], [cell.ds EXCEPT !.length = @ + 1],
                              [cell.ds EXCEPT !.length = @ - 1], [cell.ds EXCEPT !.load_addr = @ + 1],
                              [cell.ds EXCEPT !.hash = Noise.hash]}}
    ELSE IF "sg" \in DOMAIN cell THEN {[cell EXCEPT !.sg.key = "noise"]}
    ELSE {Byte(255)}

Damage ==
    /\ fw.at = "off" /\ image # <<>> /\ hurt = "none"
    /\ \E i \in DOMAIN image :
         \/ /\ \E cell \in Damaged(image[i]) : image' = [image EXCEPT ![i] = cell]
            /\ hurt' = IF "by" \in DOMAIN image[i] THEN "body" ELSE IF "sg" \in DOMAIN image[i] THEN "sig" ELSE "table"
         \/ /\ i > 1 /\ image' = SubSeq(image, 1, i - 1) /\ hurt' = "cut"
    /\ UNCHANGED <<mach, built, told, ram, fw>>

---------------------------------------------------------------------------
(* The disk of mkbootimage: stage 1, the descriptor, stage 2, CIBIOS and   *)
(* the image, each padded to whole sectors.                                *)
sectors_for(len) == (len + SECTOR - 1) \div SECTOR
Padded(cells) == cells \o [i \in 1..(sectors_for(Len(cells)) * SECTOR - Len(cells)) |-> Byte(0)]

BootLayoutDescriptor(m, cibos) ==
    LET cibios_lba == 2 + sectors_for(m.stage2)
    IN  [cibos_lba |-> cibios_lba + sectors_for(m.cibios), cibos_sectors |-> sectors_for(Len(cibos)),
         cibos_load_addr |-> m.image_at, cibos_size |-> Len(cibos)]

mkbootimage(m, cibos) ==
    LET filler(n) == Padded([i \in 1..n |-> Byte(254)])
    IN  filler(2 * SECTOR) \o filler(m.stage2) \o filler(m.cibios) \o Padded(cibos)

(* load_one_image: chunks of at most CHUNK_SECTORS sectors, each copied to *)
(* its place before the next is read.                                      *)
Put(r, addr, cells) == [a \in DOMAIN r |-> IF a \in addr..(addr + Len(cells) - 1) THEN cells[a - addr + 1] ELSE r[a]]

load_one_image(r, disk, lba, sectors, dest) ==
    LET chunks == 0..((sectors - 1) \div CHUNK_SECTORS)
        chunk(k) == At(disk, (lba + k * CHUNK_SECTORS) * SECTOR,
                       SECTOR * (IF sectors - k * CHUNK_SECTORS < CHUNK_SECTORS THEN sectors - k * CHUNK_SECTORS ELSE CHUNK_SECTORS))
        step[k \in chunks] == Put(IF k = 0 THEN r ELSE step[k - 1], dest + k * CHUNK_SECTORS * SECTOR, chunk(k))
    IN  step[(sectors - 1) \div CHUNK_SECTORS]

(* The BIOS's entries, less those of no length and those it marks ignored, *)
(* up to the capacity of the array.                                        *)
e820_collect(map) ==
    LET kept == SelectSeq(map, LAMBDA r : r.length > 0 /\ ~r.ignored)
    IN  SubSeq(kept, 1, IF Len(kept) < MAX_E820 THEN Len(kept) ELSE MAX_E820)

(* module_table, parse_module_entry, /chosen's initrd: was an image given? *)
has_module(m) == m.source = "bootloader" \/ m.module

(* The machine is switched on: the bootloader loads the image from the     *)
(* disk and leaves a BootHandoff; a multiboot loader, or the platform,     *)
(* puts it in memory as a module or an initrd, if it was given one.        *)
Load ==
    LET bld == BootLayoutDescriptor(mach, image)
        none == ~has_module(mach)
    IN  /\ fw.at = "off" /\ image # <<>>
        /\ ram' = IF none THEN ram
                  ELSE IF mach.source = "bootloader"
                  THEN load_one_image(ram, mkbootimage(mach, image), bld.cibos_lba, bld.cibos_sectors, bld.cibos_load_addr)
                  ELSE Put(ram, mach.image_at, image)
        /\ fw' = [fw EXCEPT !.at = "detect", !.image = [addr |-> mach.image_at, size |-> IF none THEN 0 ELSE bld.cibos_size],
                            !.map = IF mach.source = "bootloader" THEN e820_collect(mach.map) ELSE mach.map]
        /\ UNCHANGED <<mach, built, image, hurt, told>>

---------------------------------------------------------------------------
(* Hardware detection (cibios/src/bare/arch).  Total: all usable RAM; the  *)
(* base is that of the first usable region from 1 MiB on (of the first     *)
(* bank, in a device tree).                                                *)
UsableRam(map) == SelectSeq(map, LAMBDA r : r.usable)
Total(map) == FoldLeft(LAMBDA n, r : n + r.length, 0, UsableRam(map))
HighBases(map) == SelectSeq(UsableRam(map), LAMBDA r : r.base >= LowTop)

parse_memory_map(map) == [base |-> IF HighBases(map) = <<>> THEN 0 ELSE HighBases(map)[1].base, length |-> Total(map)]

Detected(r) == [fail |-> FALSE, memory |-> r]
Failed == [fail |-> TRUE, memory |-> [base |-> 0, length |-> 0]]

read_memory_map_e820(map) ==
    IF map = <<>> \/ HighBases(map) = <<>> THEN Failed
    ELSE Detected([base |-> HighBases(map)[1].base, length |-> Total(map)])

parse_device_tree(map) ==
    Detected([base |-> IF UsableRam(map) = <<>> THEN 0 ELSE UsableRam(map)[1].base, length |-> Total(map)])

read_memory_map(m, map) ==
    CASE m.source = "bootloader" -> read_memory_map_e820(map)
      [] m.source = "multiboot" -> IF m.mmap THEN Detected(parse_memory_map(map)) ELSE Failed
      [] OTHER -> IF m.tree THEN parse_device_tree(map) ELSE Failed

(* apply_smt_policy and CoreTopology::new.  The processors detected are    *)
(* taken for cores: none is known to be a second thread of one.            *)
apply_smt_policy(m, physical, logical) ==
    IF ~m.smt_forced /\ m.profile = "Standard" THEN [physical |-> physical, logical |-> physical, smt |-> FALSE]
    ELSE [physical |-> physical, logical |-> logical, smt |-> logical > physical]

topology_ok(t) == t.physical # 0 /\ t.logical >= t.physical /\ (~t.smt => t.logical = t.physical)

assemble_profile(m) == LET cores == IF m.cpus = 0 THEN 1 ELSE m.cpus IN apply_smt_policy(m, cores, cores)

Halt(why) == fw' = [fw EXCEPT !.at = "halt", !.why = why] /\ UNCHANGED <<mach, built, image, hurt, told, ram>>
Goto(f) == fw' = f /\ UNCHANGED <<mach, built, image, hurt, told, ram>>

(* run: detection, the hardware profile, and where the image is.           *)
detect ==
    /\ fw.at = "detect"
    /\ LET d == read_memory_map(mach, fw.map)
       IN  IF d.fail THEN Halt("detect")
           ELSE IF ~topology_ok(assemble_profile(mach)) THEN Halt("profile")
           ELSE Goto([fw EXCEPT !.at = "locate", !.memory = d.memory, !.topology = assemble_profile(mach)])

locate_image ==
    /\ fw.at = "locate"
    /\ \/ fw.image.size = 0 /\ Halt("no image")
       \/ fw.image.size > 0 /\ Goto([fw EXCEPT !.at = "verify"])

(* boot_image.  The image stays where it was loaded while its components   *)
(* are copied out of it: it is read from there at every step.              *)
Image == [i \in 1..fw.image.size |-> ram[fw.image.addr + i - 1]]
firmware_policy == [require_signature |-> mach.profile = "Standard", running_architecture |-> mach.arch]
trusted_root_key == IF mach.profile = "Standard" THEN RootKey ELSE ""

verify ==
    /\ fw.at = "verify"
    /\ \/ ~verify_image(Image, firmware_policy, trusted_root_key) /\ Halt("verify")
       \/ /\ verify_image(Image, firmware_policy, trusted_root_key)
          /\ Goto([fw EXCEPT !.at = "place", !.entry_point = header(Image).entry_point,
                             !.cibos_profile = header(Image).cibos_profile])

for_each_component ==
    /\ fw.at = "place" /\ fw.placed < header(Image).component_count
    /\ LET d == descriptor(Image, fw.placed + 1)
       IN  IF ~has_body(Image, d) THEN Halt("place")
           ELSE /\ ram' = Put(ram, d.load_addr, component_body(Image, d))
                /\ fw' = [fw EXCEPT !.placed = @ + 1]
                /\ UNCHANGED <<mach, built, image, hurt, told>>

(* HandoffData::new and validate (shared/src/protocols/handoff.rs).        *)
handoff_mode(profile) == IF profile = "Standard" THEN "Cryptographic" ELSE "Lightweight"

accepts(profile, kernel) ==
    IF profile = "Standard" THEN kernel \in {"MaximumIsolation", "Balanced", "Performance"}
    ELSE kernel \in {"Compute", "Performance"}

HandoffData ==
    [cibios_profile |-> mach.profile, cibos_profile |-> fw.cibos_profile, handoff_mode |-> handoff_mode(mach.profile),
     topology |-> fw.topology, regions |-> <<[base |-> fw.memory.base, length |-> fw.memory.length]>>]

validate(h) ==
    /\ h.cibos_profile \in Profiles
    /\ accepts(h.cibios_profile, h.cibos_profile)
    /\ h.handoff_mode = handoff_mode(h.cibios_profile)
    /\ topology_ok(h.topology)

build_handoff ==
    /\ fw.at = "place" /\ fw.placed >= header(Image).component_count
    /\ \/ ~validate(HandoffData) /\ Halt("handoff")
       \/ validate(HandoffData) /\ Goto([fw EXCEPT !.at = "kernel", !.handoff = <<HandoffData>>])

---------------------------------------------------------------------------
FwInit ==
    /\ mach \in Machines /\ built \in Builds
    /\ image = <<>> /\ hurt = "none" /\ told = ""
    /\ ram = [a \in 0..(MemTop - 1) |-> Byte(0)]
    /\ fw = [at |-> "off", image |-> [addr |-> 0, size |-> 0], map |-> <<>>, memory |-> [base |-> 0, length |-> 0],
             topology |-> [physical |-> 0, logical |-> 0, smt |-> FALSE], entry_point |-> 0, cibos_profile |-> "",
             placed |-> 0, handoff |-> <<>>, why |-> ""]

FwNext ==
    \/ MkImage \/ cmd_verify \/ Damage \/ Load
    \/ detect \/ locate_image \/ verify \/ for_each_component \/ build_handoff

FwSpec == FwInit /\ [][FwNext]_fwVars

---------------------------------------------------------------------------
(* When the firmware jumps, the entry point,                               *)
(* the profile handed over and every byte of every component in memory are *)
(* those mkimage was given: under the Standard profile whatever cell of    *)
(* the image was damaged, and then only if it was signed with the trusted  *)
(* key; under Lightweight, which checks hashes only, unless the header or  *)
(* a descriptor was.  (A builder's load ranges overlap neither each other  *)
(* nor the image: boot_image does not check this.)                         *)
RunsWhatWasBuilt ==
    fw.at = "kernel" /\ (mach.profile = "Standard" \/ hurt # "table") =>
        /\ mach.profile = "Standard" => built.key = RootKey
        /\ built.arch = mach.arch
        /\ fw.entry_point = built.entry
        /\ fw.handoff[1].cibos_profile = profile_from(built)
        /\ \A i \in DOMAIN built.components :
             LET c == built.components[i]
             IN  \A k \in DOMAIN c.body : ram[c.load_addr + k - 1] = c.body[k]

(* A boot is refused for a cause only: an image that is whole, for this    *)
(* architecture and this firmware's profile, signed if that is required,   *)
(* boots on every machine that found RAM, and a signed one `mkimage        *)
(* verify` verified is not refused by the firmware's own verification.     *)
RefusedForCause ==
    /\ fw.at = "halt" /\ hurt = "none" =>
        \/ fw.why \in {"detect", "no image"}
        \/ fw.why = "verify" /\ (built.arch # mach.arch \/ (mach.profile = "Standard" /\ built.key # RootKey))
        \/ fw.why = "handoff" /\ ~accepts(mach.profile, profile_from(built))
    /\ fw.at = "halt" /\ told = "VERIFIED" /\ hurt = "none" => fw.why # "verify"

(* What runs is what was built, and what was built runs: damage, a foreign *)
(* key, architecture or profile stop a boot, and nothing else does         *)
(* (cibios/src/bare/mod.rs boot_image, cibios/src/verification.rs).        *)
BootsAsBuilt == RunsWhatWasBuilt /\ RefusedForCause
=============================================================================
