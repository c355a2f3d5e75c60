---------------------------- MODULE PageEntries ----------------------------
(***************************************************************************)
(* The three page-table encoders (kernel-image/src/arch/paging*.rs) under  *)
(* the portable walk of cibos-kernel/src/paging.rs, against the processor  *)
(* that reads the entries.  AddressSpace models the walk with entries that *)
(* are what they mean; here an entry is the flag bits the encoder sets and *)
(* a frame number, the kernel reads them back with its own predicates, and *)
(* the processor with the rules of its architecture.  The tree has three   *)
(* levels of two entries, so that there is a table level above the level   *)
(* of blocks, as in the code.                                              *)
(***************************************************************************)
EXTENDS Integers, Sequences, FiniteSets

CONSTANTS Archs,       \* subset of {"x86_64", "aarch64", "riscv64"}
          DataFrames,  \* frames that are mapped
          MaxMaps      \* bound: pages and blocks mapped

VARIABLES arch,    \* the architecture of this build
          ptTables,  \* table frame -> index -> entry; table 0 is the root
          nxe,     \* EFER.NXE
          stage,   \* "off", "building" the tables, or "on": the root is loaded
          asked    \* history: page -> [frame, perms] the kernel mapped

ptVars == <<arch, ptTables, nxe, stage, asked>>

Entry(bits, frame) == [bits |-> bits, frame |-> frame]
Zeroed == [i \in 0 .. 1 |-> Entry({}, 0)]
Pages == 0 .. 7
PtIndex(page) == <<page \div 4, (page \div 2) % 2, page % 2>>

Perms(w, x, u, d) == [write |-> w, execute |-> x, user |-> u, device |-> d]

\* The permissions the kernel maps with: Permissions' constructors, the
\* loader's segments, and the kernel's own identity map.
Permissions ==
  {Perms(w, x, FALSE, FALSE) : w, x \in BOOLEAN}
  \cup {Perms(w, x, TRUE, FALSE) : w, x \in BOOLEAN} \cup {Perms(TRUE, FALSE, FALSE, TRUE)}

If(c, bits) == IF c THEN bits ELSE {}

-----------------------------------------------------------------------------
(* x86_64                                                                  *)

x86_encode_table_KernelOnly(child) == Entry({"PRESENT", "WRITABLE"}, child)

x86_encode_table(child) == Entry({"PRESENT", "WRITABLE", "USER"}, child)

x86_encode_leaf(frame, p) ==
  Entry({"PRESENT"} \cup If(p.write, {"WRITABLE"}) \cup If(p.user, {"USER"})
        \cup If(~p.execute, {"NO_EXECUTE"}) \cup If(p.device, {"PWT", "PCD"}), frame)

x86_encode_block_leaf(frame, p) ==
  Entry({"PRESENT", "PS"} \cup If(p.write, {"WRITABLE"}) \cup If(p.user, {"USER"})
        \cup If(~p.execute, {"NO_EXECUTE"}) \cup If(p.device, {"PWT", "PCD"}), frame)

x86_is_block_leaf(e) == {"PRESENT", "PS"} \subseteq e.bits

\* The processor: a set NX bit is reserved until EFER.NXE, a large page must be
\* aligned, user and write access need their bit on the whole path.  The rights
\* are those of the level the page belongs to; CR0.WP is never set, so the kernel
\* writes its own pages whatever the entry says.
X86Access(path, block) ==
  LET all(b) == \A k \in DOMAIN path : b \in path[k].bits
      leaf == path[Len(path)]
      nx == \E k \in DOMAIN path : "NO_EXECUTE" \in path[k].bits
  IN IF (nx /\ ~nxe) \/ (block /\ leaf.frame % 2 # 0) THEN [fault |-> TRUE]
     ELSE [user |-> all("USER"), write |-> all("WRITABLE") \/ ~all("USER"), execute |-> ~nx,
           device |-> "PCD" \in leaf.bits]

-----------------------------------------------------------------------------
(* aarch64                                                                 *)

arm_encode_table(child) == Entry({"VALID", "TABLE_OR_PAGE"}, child)

ArmAccessBits(p) ==
  If(~p.write, {"AP_RO"}) \cup If(p.user, {"AP_EL0"})
  \cup (IF ~p.execute THEN {"PXN", "UXN"} ELSE If(~p.user, {"UXN"}))
  \cup (IF p.device THEN {"ATTR_DEVICE"} ELSE {"SH_INNER"})

arm_encode_leaf(frame, p) == Entry({"VALID", "TABLE_OR_PAGE", "AF"} \cup ArmAccessBits(p), frame)

arm_encode_block_leaf(frame, p) == Entry({"VALID", "AF"} \cup ArmAccessBits(p), frame)

arm_is_block_leaf(e) == "VALID" \in e.bits /\ "TABLE_OR_PAGE" \notin e.bits

\* The processor: the access flag is set, AP governs both levels, a page that
\* user code may write is never privileged-executable.
ArmAccess(path, block) ==
  LET leaf == path[Len(path)]
      el0 == "AP_EL0" \in leaf.bits
      rw == "AP_RO" \notin leaf.bits
  IN IF "AF" \notin leaf.bits \/ (block /\ leaf.frame % 2 # 0) THEN [fault |-> TRUE]
     ELSE [user |-> el0, write |-> rw,
           execute |-> IF el0 THEN "UXN" \notin leaf.bits ELSE "PXN" \notin leaf.bits,
           device |-> "ATTR_DEVICE" \in leaf.bits]

-----------------------------------------------------------------------------
(* riscv64, Sv48                                                           *)

riscv_encode_table(child) == Entry({"V"}, child)

riscv_encode_leaf(frame, p) ==
  Entry({"V", "R", "A", "D"} \cup If(p.write, {"W"}) \cup If(p.execute, {"X"}) \cup If(p.user, {"U"}), frame)

riscv_encode_block_leaf(frame, p) ==
  Entry({"V", "R", "A", "D"} \cup If(p.write, {"W"}) \cup If(p.execute, {"X"}) \cup If(p.user, {"U"}), frame)

riscv_is_block_leaf(e) == "V" \in e.bits /\ e.bits \cap {"R", "W", "X"} # {}

\* The processor: W without R is reserved, A and D are set, a misaligned
\* superpage faults.  The memory type is not in the entry.
RiscvAccess(path, block) ==
  LET leaf == path[Len(path)].bits IN
  IF (leaf \cap {"R", "W"} = {"W"}) \/ ~({"A", "D"} \subseteq leaf) \/ (block /\ path[Len(path)].frame % 2 # 0)
  THEN [fault |-> TRUE]
  ELSE [user |-> "U" \in leaf, write |-> "W" \in leaf, execute |-> "X" \in leaf, device |-> FALSE]

-----------------------------------------------------------------------------
(* trait PageTableEncoder, by architecture                                 *)

encode_table(child) ==
  CASE arch = "x86_64" -> x86_encode_table(child)
    [] arch = "aarch64" -> arm_encode_table(child)
    [] arch = "riscv64" -> riscv_encode_table(child)

encode_leaf(frame, p) ==
  CASE arch = "x86_64" -> x86_encode_leaf(frame, p)
    [] arch = "aarch64" -> arm_encode_leaf(frame, p)
    [] arch = "riscv64" -> riscv_encode_leaf(frame, p)

encode_block_leaf(frame, p) ==
  CASE arch = "x86_64" -> x86_encode_block_leaf(frame, p)
    [] arch = "aarch64" -> arm_encode_block_leaf(frame, p)
    [] arch = "riscv64" -> riscv_encode_block_leaf(frame, p)

is_present(e) == {"PRESENT", "VALID", "V"} \cap e.bits # {}

is_block_leaf(e) ==
  CASE arch = "x86_64" -> x86_is_block_leaf(e)
    [] arch = "aarch64" -> arm_is_block_leaf(e)
    [] arch = "riscv64" -> riscv_is_block_leaf(e)

-----------------------------------------------------------------------------
(* The kernel's walk over the entries                                      *)

\* One interior level: the child table, allocated zeroed when there is none.
\* With `stop`, as map walks, a block in the way is an error.
PtDescend(m, index, stop) ==
  LET e == m.tables[m.at][index]
      fresh == Cardinality(DOMAIN m.tables)
  IN IF m.failed THEN m
     ELSE IF is_present(e)
     THEN IF stop /\ is_block_leaf(e) THEN [m EXCEPT !.failed = TRUE] ELSE [m EXCEPT !.at = e.frame]
     ELSE [tables |-> [t \in DOMAIN m.tables \cup {fresh} |->
                         IF t = fresh THEN Zeroed
                         ELSE IF t = m.at THEN [m.tables[t] EXCEPT ![index] = encode_table(fresh)]
                         ELSE m.tables[t]],
           at |-> fresh, failed |-> FALSE]

Begin == [tables |-> ptTables, at |-> 0, failed |-> FALSE]

\* The last level: an entry that is present already is an error.
Write(m, index, e, ps, frame, p) ==
  LET ok == ~m.failed /\ ~is_present(m.tables[m.at][index]) IN
  /\ ptTables' = IF ok THEN [m.tables EXCEPT ![m.at][index] = e] ELSE m.tables
  /\ asked' = IF ok THEN [v \in DOMAIN asked \cup ps |->
                            IF v \in ps THEN [frame |-> frame + (v - (CHOOSE w \in ps : \A x \in ps : w <= x)), perms |-> p]
                            ELSE asked[v]]
              ELSE asked
  /\ UNCHANGED <<arch, nxe, stage>>

pt_map(page, frame, p) ==
  LET i == PtIndex(page) IN
  /\ stage # "off" /\ Cardinality(DOMAIN asked) < MaxMaps
  /\ Write(PtDescend(PtDescend(Begin, i[1], TRUE), i[2], TRUE), i[3], encode_leaf(frame, p), {page}, frame, p)

pt_map_block_2m(page, frame, p) ==
  LET i == PtIndex(page) IN
  /\ stage # "off" /\ Cardinality(DOMAIN asked) < MaxMaps
  /\ page % 2 = 0 /\ frame % 2 = 0
  /\ Write(PtDescend(Begin, i[1], FALSE), i[2], encode_block_leaf(frame, p), {page, page + 1}, frame, p)

PteInit ==
  /\ arch \in Archs
  /\ ptTables = [t \in {0} |-> Zeroed]
  /\ nxe = FALSE /\ stage = "off"
  /\ asked = <<>>

\* Only x86_64 has a feature to turn on.
enable_table_features == nxe' = (nxe \/ arch = "x86_64")

\* bring_up_mmu_generic turns on what the entries need before it builds any.
Bring_up ==
  /\ stage = "off" /\ stage' = "building"
  /\ enable_table_features
  /\ UNCHANGED <<arch, ptTables, asked>>

\* CR3, TTBR0_EL1 with MAIR, TCR and SCTLR, or satp.
install ==
  /\ stage = "building" /\ stage' = "on"
  /\ UNCHANGED <<arch, ptTables, nxe, asked>>

PteNext ==
  \/ Bring_up \/ install
  \/ \E page \in Pages, frame \in DataFrames, p \in Permissions :
       pt_map(page, frame, p) \/ pt_map_block_2m(page, frame, p)

PteSpec == PteInit /\ [][PteNext]_ptVars

-----------------------------------------------------------------------------
(* The processor's walk: at the two upper levels an entry is a table or,   *)
(* at the second, a block by the architecture's own rule; at the last it   *)
(* is a page, which on aarch64 needs the bit a block must not have.        *)

HwTable(e) ==
  CASE arch = "x86_64" -> "PS" \notin e.bits
    [] arch = "aarch64" -> "TABLE_OR_PAGE" \in e.bits
    [] arch = "riscv64" -> e.bits \cap {"R", "W", "X"} = {}

HwPage(e) ==
  CASE arch = "x86_64" -> TRUE
    [] arch = "aarch64" -> "TABLE_OR_PAGE" \in e.bits
    [] arch = "riscv64" -> e.bits \cap {"R", "W", "X"} # {}

Access(path, block) ==
  CASE arch = "x86_64" -> X86Access(path, block)
    [] arch = "aarch64" -> ArmAccess(path, block)
    [] arch = "riscv64" -> RiscvAccess(path, block)

HwWalk(page) ==
  LET i == PtIndex(page)
      fault == [frame |-> -1, to |-> [fault |-> TRUE]]
      e1 == ptTables[0][i[1]]
      e2 == ptTables[e1.frame][i[2]]
      e3 == ptTables[e2.frame][i[3]]
  IN IF ~is_present(e1) THEN fault
     ELSE IF ~HwTable(e1) \/ e1.frame \notin DOMAIN ptTables \/ ~is_present(e2) THEN fault
     ELSE IF ~HwTable(e2) THEN [frame |-> e2.frame + i[3], to |-> Access(<<e1, e2>>, TRUE)]
     ELSE IF e2.frame \notin DOMAIN ptTables THEN fault
     ELSE IF ~is_present(e3) \/ ~HwPage(e3) THEN fault
     ELSE [frame |-> e3.frame, to |-> Access(<<e1, e2, e3>>, FALSE)]

(* Once the tables are installed, the processor reaches for every page the *)
(* frame the kernel mapped it to, with the rights and the memory type the  *)
(* kernel asked for and no others, and faults on every other page: the     *)
(* entries of the upper levels neither add to nor take from the leaf's     *)
(* rights (without CR0.WP the x86_64 kernel writes all its own             *)
(* pages), a block is read as a block and a table as a table on all three  *)
(* architectures, and no entry holds a bit the processor reserves          *)
(* (encode_table, encode_leaf, encode_block_leaf, is_block_leaf, map,      *)
(* map_block_2m, enable_table_features).                                   *)
WalksAsAsked ==
  stage = "on" =>
    \A page \in Pages :
      IF page \in DOMAIN asked
      THEN HwWalk(page) = [frame |-> asked[page].frame,
                           to |-> [asked[page].perms EXCEPT
                                     !.device = @ /\ arch # "riscv64",
                                     !.write = @ \/ (arch = "x86_64" /\ ~asked[page].perms.user)]]
      ELSE HwWalk(page).to = [fault |-> TRUE]

=============================================================================
