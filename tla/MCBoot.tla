------------------------------- MODULE MCBoot -------------------------------
(* From power-on to an open session, one part at a time: the firmware that  *)
(* verifies and loads the image, the device tree it and the kernel read,    *)
(* the kernel's bring-up of a board, the kernel loop of MCKernel, and the   *)
(* gates a user logs in at.  The parts share no state; `part' says which    *)
(* one a behaviour is of, and the others stay in one initial state.         *)
EXTENDS MCKernel, BringUp, Firmware, Fdt, Session

VARIABLE part

bootVars == <<part, vars, bringVars, fwVars, fdtVars, sessionVars>>
-----------------------------------------------------------------------------
(* The boards of the bring-up: a PC, an Arm and a RISC-V machine, with the  *)
(* nodes of their device trees present, absent, overlapping or without size.*)
R(b, l, k) == [base |-> b, length |-> l, kind |-> k]
NoTree == [n \in {"memory", "pl011", "intc", "plic", "clint", "serial", "virtio_mmio"} |-> NoNode]
PcBoard ==
    [arch |-> "x86_64", dtb |-> NoTree, slots |-> 0, self_boot |-> FALSE, profile |-> "same",
     valid |-> TRUE, fixed |-> {<<4, 3>>, <<52, 6>>}, min_map |-> 24, kernel_span |-> 6,
     handoff |-> <<R(9, 15, "Usable"), R(0, 8, "FirmwareReserved"), R(30, 12, "Usable")>>,
     features |-> {"selftest", "app-hello", "app-login", "app-shell"}]
Virt(a, dtb, n, self) ==
    [PcBoard EXCEPT !.arch = a, !.dtb = dtb, !.slots = n, !.self_boot = self, !.fixed = {},
                    !.features = {}, !.handoff = <<R(21, 20, "Usable")>>]
ArmTree(m, u, i, v) ==
    [NoTree EXCEPT !["memory"] = m, !["pl011"] = u, !["intc"] = i, !["virtio_mmio"] = v]
RvTree(v) ==
    [NoTree EXCEPT !["memory"] = <<24, 16>>, !["plic"] = <<3, 4>>, !["clint"] = <<1, 2>>,
                   !["serial"] = <<12, 0>>, !["virtio_mmio"] = v]
BoardsDef ==
    {PcBoard, [PcBoard EXCEPT !.features = {"interactive", "selftest"}],
     [PcBoard EXCEPT !.features = {}, !.self_boot = TRUE], [PcBoard EXCEPT !.profile = "mismatch"],
     [PcBoard EXCEPT !.valid = FALSE], [PcBoard EXCEPT !.arch = "x86"],
     [PcBoard EXCEPT !.handoff = <<R(8, 16, "Usable"), R(20, 12, "Usable")>>]}
    \cup {Virt("aarch64", ArmTree(m, u, i, v), n, TRUE) :
            m \in {NoNode, <<24, 15>>, <<30, 10>>}, u \in {NoNode, <<4, 1>>, <<14, 1>>},
            i \in {NoNode, <<9, 6>>}, v \in {NoNode, <<16, 2>>, <<16, 0>>}, n \in {1, 3}}
    \cup {Virt("riscv64", RvTree(v), n, self) :
            v \in {NoNode, <<14, 4>>, <<41, 2>>}, n \in {1, 3}, self \in BOOLEAN}
-----------------------------------------------------------------------------
(* The firmware's machines and the images mkimage builds for them.          *)
Region(b, l, u, i) == [base |-> b, length |-> l, usable |-> u, ignored |-> i]
PcMachine ==
    [arch |-> "x86_64", source |-> "bootloader", profile |-> "Standard", smt_forced |-> FALSE,
     cpus |-> 2, stage2 |-> 3, cibios |-> 5, image_at |-> 16, module |-> TRUE, mmap |-> TRUE,
     tree |-> TRUE,
     map |-> <<Region(0, 3, TRUE, FALSE), Region(3, 1, FALSE, FALSE), Region(4, 26, TRUE, FALSE),
               Region(30, 2, FALSE, FALSE)>>]
MachinesDef ==
    {PcMachine, [PcMachine EXCEPT !.profile = "Lightweight"],
     [PcMachine EXCEPT !.smt_forced = TRUE, !.map[3].ignored = TRUE],
     [PcMachine EXCEPT !.source = "multiboot", !.map = <<@[3]>>],
     [PcMachine EXCEPT !.source = "multiboot", !.mmap = FALSE],
     [PcMachine EXCEPT !.source = "multiboot", !.profile = "Lightweight", !.module = FALSE],
     [PcMachine EXCEPT !.source = "dtb", !.arch = "riscv64", !.profile = "Lightweight", !.cpus = 0],
     [PcMachine EXCEPT !.source = "dtb", !.arch = "aarch64", !.tree = FALSE],
     [PcMachine EXCEPT !.source = "dtb", !.arch = "aarch64"]}
Loaded(a, body) == [load_addr |-> a, body |-> [i \in DOMAIN body |-> Byte(body[i])]]
BuildsDef ==
    {[arch |-> a, profile |-> p, entry |-> 6, key |-> k, components |-> cs] :
        a \in {"x86_64", "riscv64", "aarch64"}, p \in {"", "Performance", "Compute"},
        k \in {"", "root", "other"},
        cs \in {<<Loaded(6, <<1, 2, 3>>)>>, <<Loaded(6, <<1, 2>>), Loaded(10, <<3, 1>>)>>}}
-----------------------------------------------------------------------------
(* The nodes a device tree's root may have.                                 *)
RegOf(ws) == Prop("reg", ws)
KidsDef ==
    {Nop,
     Node(<<"memory", "@", "0">>, <<RegOf(<<0, 1, 0, 2>>)>>, <<>>),
     Node(<<"memory", "@", "1">>, <<RegOf(<<1, 0, 0, 1>>)>>, <<>>),
     Node(<<"cpus">>, <<Prop("#address-cells", <<1>>)>>,
          <<Node(<<"cpu", "@", "0">>, <<RegOf(<<0>>)>>, <<Node(<<"cache">>, <<>>, <<>>)>>),
            Node(<<"cpu", "-map">>, <<>>, <<>>)>>),
     Node(<<"virtio_mmio", "@", "2">>, <<Prop("dma-coherent", <<>>), RegOf(<<0, 2, 0, 1>>)>>, <<>>),
     Node(<<"virtio_mmio", "@", "1">>, <<RegOf(<<0, 1>>), Prop("cbom-block-size", <<1>>)>>, <<>>),
     Node(<<"soc">>, <<>>,
          <<Node(<<"serial", "@", "3">>, <<RegOf(<<1, 1, 0, 1>>)>>, <<>>),
            Node(<<"virtio_mmio", "@", "0">>, <<RegOf(<<0, 0, 0, 1>>)>>, <<>>)>>),
     Node(<<"chosen">>, <<Prop("initrd-start", <<1>>), Prop("initrd-end", <<0, 2>>)>>, <<>>)}
-----------------------------------------------------------------------------
(* Nothing, a digit, a digit and a blank, and two digits typed at a prompt; *)
(* the host's registry and the ring-3 program's records one at a time.  On  *)
(* the pad two digits, or one while two profiles are enrolled.              *)
PasswordsDef == {<<>>, <<"1">>, <<"1", " ">>, <<"5", "1">>}
ShortEntries ==
    /\ Max({Len(gate.entered), Len(typed)}) <= IF Cardinality(DOMAIN profiles) < 2 THEN 2 ELSE 1
    /\ records = <<>> \/ profiles = <<>>
-----------------------------------------------------------------------------
Idle(p, choice, first) == part = p \/ choice = first
EmptyTree == Node(<<"">>, <<Prop("#address-cells", <<2>>), Prop("#size-cells", <<2>>)>>, <<>>)
FirstOf(S) == CHOOSE v \in S : TRUE

BootInit ==
    /\ part \in {"kernel", "bringup", "firmware", "tree", "session"}
    /\ Init
    /\ BringInit /\ Idle("bringup", <<board, disk>>, <<PcBoard, "blank">>)
    /\ FwInit /\ Idle("firmware", <<mach, built>>, <<PcMachine, FirstOf(Builds)>>)
    /\ FdtInit /\ Idle("tree", tree, EmptyTree)
    /\ SessionInit

(* Booting ends: in the kernel's idle loop, at the jump, or in a halt.      *)
Halted == part # "kernel" /\ UNCHANGED bootVars

BootNext ==
    \/ part = "kernel" /\ Next /\ UNCHANGED <<part, bringVars, fwVars, fdtVars, sessionVars>>
    \/ part = "bringup" /\ BringNext /\ UNCHANGED <<part, vars, fwVars, fdtVars, sessionVars>>
    \/ part = "firmware" /\ FwNext /\ UNCHANGED <<part, vars, bringVars, fdtVars, sessionVars>>
    \/ part = "tree" /\ FdtNext /\ UNCHANGED <<part, vars, bringVars, fwVars, sessionVars>>
    \/ part = "session" /\ SessionNext /\ UNCHANGED <<part, vars, bringVars, fwVars, fdtVars>>
    \/ Halted

BootSpec == BootInit /\ [][BootNext]_bootVars
=============================================================================
