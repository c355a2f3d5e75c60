-------------------------------- MODULE Fdt ---------------------------------
(***************************************************************************)
(* The two device-tree parsers: cibos-dtb's queries, with which the kernel *)
(* finds its RAM and its devices, and cibios/src/fdt.rs, with which the    *)
(* firmware detects memory and processors.  Both walk the same stream of   *)
(* tokens and keep a few flags; what they answer is compared with the tree *)
(* the stream was written from.                                            *)
(*                                                                         *)
(* A name is a sequence of parts, so that a prefix is a prefix: cpu@0 is   *)
(* <<"cpu", "@0">>.  A cell is a number below WORD, which stands for 2^32. *)
(***************************************************************************)
EXTENDS Integers, Sequences, FiniteSets, FiniteSetsExt, SequencesExt

CONSTANTS
    WORD,           \* values of a cell
    Kids,           \* nodes the root may have
    MaxKids,        \* bound: how many
    Cells           \* values of #address-cells and of #size-cells

VARIABLES
    tree,           \* the device tree
    blob,           \* its tokens, as far as the blob holds them
    short,          \* where the blob ends early: "no", "blob" or "size"; "none": no usable blob
    read            \* what the parsers answered

fdtVars == <<tree, blob, short, read>>

None == <<>>
DefaultSize == -1       \* 0x1000
Node(name, props, kids) == [name |-> name, props |-> props, kids |-> kids]
Prop(name, val) == [t |-> "prop", name |-> name, val |-> val]
Nop == Node(<<"NOP">>, <<>>, <<>>)

RECURSIVE Tokens(_)
Tokens(n) ==
    IF n = Nop THEN <<[t |-> "nop"]>>
    ELSE <<[t |-> "begin", name |-> n.name]>> \o n.props
         \o FoldLeft(LAMBDA s, k : s \o Tokens(k), <<>>, n.kids) \o <<[t |-> "end node"]>>

---------------------------------------------------------------------------
(* cibos-dtb.  Every query walks the stream in the same way: step is       *)
(* applied to each token until the walk stops, and off is what becomes of  *)
(* the walk when the blob ends before the stream does.                     *)
Walk(start, step(_, _), off(_)) ==
    LET s == FoldLeft(LAMBDA st, t : IF st.stop THEN st ELSE step(st, t), start, blob)
    IN  IF ~s.stop /\ short = "blob" THEN off(s) ELSE s

In(st, t, prefix) ==        \* in_target
    CASE t.t = "begin" -> [st EXCEPT !.in = IsPrefix(prefix, t.name)]
      [] t.t = "end node" -> [st EXCEPT !.in = FALSE]
      [] t.t = "nop" -> st
      [] t.t = "end" -> [st EXCEPT !.stop = TRUE]
      [] OTHER -> [st EXCEPT !.stop = TRUE, !.fail = TRUE]

Found == [stop |-> FALSE, in |-> FALSE, fail |-> FALSE, val |-> None]
be64(reg, at) == IF Len(reg) < at + 2 THEN None ELSE <<reg[at + 1] * WORD + reg[at + 2]>>

node_reg(prefix) ==
    LET step(st, t) == IF t.t # "prop" THEN In(st, t, prefix)
                       ELSE IF st.in /\ t.name = "reg" THEN [st EXCEPT !.stop = TRUE, !.val = t.val] ELSE st
        s == Walk(Found, step, LAMBDA st : [st EXCEPT !.fail = TRUE])
    IN  IF s.fail THEN None ELSE s.val

ram_region ==
    LET reg == node_reg(<<"memory">>)
    IN  IF be64(reg, 0) = None \/ be64(reg, 2) = None THEN None ELSE be64(reg, 0) \o be64(reg, 2)
device_base(prefix) == be64(node_reg(prefix), 0)
Window(reg) ==
    IF be64(reg, 0) = None THEN None
    ELSE be64(reg, 0) \o (IF be64(reg, 2) = None THEN <<DefaultSize>> ELSE be64(reg, 2))
device_reg(prefix) == Window(node_reg(prefix))

(* A bug: the first window is taken for the lowest.                        *)
device_reg_lowest_First(prefix) == device_reg(prefix)

device_reg_lowest(prefix) ==
    LET better(st, w) == w # None /\ (st.val = None \/ w[1] < st.val[1])
        step(st, t) == IF t.t # "prop" THEN In(st, t, prefix)
                       ELSE IF st.in /\ t.name = "reg" /\ better(st, Window(t.val))
                            THEN [st EXCEPT !.val = Window(t.val)] ELSE st
        s == Walk(Found, step, LAMBDA st : [st EXCEPT !.fail = TRUE])
    IN  IF s.fail THEN None ELSE s.val

count_nodes(prefix) ==
    LET step(st, t) == IF t.t = "prop" THEN st
                       ELSE IF t.t = "begin" /\ IsPrefix(prefix, t.name) THEN [st EXCEPT !.val = Append(@, 1)]
                       ELSE In(st, t, prefix)
    IN  Len(Walk(Found, step, LAMBDA st : st).val)

find_prop_u32(prop) ==
    LET step(st, t) == IF t.t # "prop" THEN In(st, t, None)
                       ELSE IF t.name = prop /\ t.val # None
                            THEN [st EXCEPT !.stop = TRUE, !.val = <<t.val[1]>>] ELSE st
        s == Walk(Found, step, LAMBDA st : [st EXCEPT !.fail = TRUE])
    IN  IF s.fail THEN None ELSE s.val

node_has_prop(prefix, prop) ==
    LET step(st, t) == IF t.t # "prop" THEN In(st, t, prefix)
                       ELSE IF st.in /\ t.name = prop THEN [st EXCEPT !.stop = TRUE, !.val = <<1>>] ELSE st
    IN  Walk(Found, step, LAMBDA st : [st EXCEPT !.val = None]).val # None

(* The kernel's way to them: without a pointer from the firmware, with a   *)
(* size that no tree has or a header that is no tree's there is no answer. *)
HasTree == short # "none"
dtb_ram_region == IF HasTree THEN ram_region ELSE None
dtb_device_base(prefix) == IF HasTree THEN device_base(prefix) ELSE None
dtb_device_reg(prefix) == IF HasTree THEN device_reg(prefix) ELSE None
dtb_find_prop_u32(prop) == IF HasTree THEN find_prop_u32(prop) ELSE None
dtb_node_has_prop(prefix, prop) == HasTree /\ node_has_prop(prefix, prop)
dtb_device_reg_lowest(prefix) == IF HasTree THEN device_reg_lowest(prefix) ELSE None
dtb_count_nodes(prefix) == IF HasTree THEN count_nodes(prefix) ELSE 0

---------------------------------------------------------------------------
(* cibios/src/fdt.rs.  One walk, with the cells of the root and the depth. *)
read_cells(words) == FoldLeft(LAMBDA v, w : v * WORD + w, 0, words)

read_prop_int(val) == IF Len(val) \in {1, 2} THEN <<read_cells(val)>> ELSE None

(* The base of the first entry, and the sum of the sizes.                  *)
parse_reg(val, ac, sc) ==
    LET n == Len(val) \div (ac + sc)
        entry(i) == SubSeq(val, i * (ac + sc) + 1, (i + 1) * (ac + sc))
    IN  IF ac + sc = 0 THEN <<0, 0>>
        ELSE IF Len(val) % (ac + sc) # 0 THEN None
        ELSE <<IF n = 0 THEN 0 ELSE read_cells(SubSeq(entry(0), 1, ac)),
               FoldLeft(LAMBDA x, i : x + read_cells(SubSeq(entry(i - 1), ac + 1, ac + sc)), 0, [i \in 1..n |-> i])>>

DeviceTreeInfo == [memory_base |-> 0, total_memory |-> 0, cpu_count |-> 0, initrd_start |-> 0, initrd_end |-> 0]
Start == [stop |-> FALSE, fail |-> FALSE, depth |-> 0, memory |-> FALSE, chosen |-> FALSE,
          cpus |-> -1, ac |-> 2, sc |-> 1, info |-> DeviceTreeInfo]
Malformed(st) == [st EXCEPT !.stop = TRUE, !.fail = TRUE]

begin_node(st, name) ==
    LET d == st.depth + 1
        s == [st EXCEPT !.depth = d, !.memory = IsPrefix(<<"memory">>, name), !.chosen = (name = <<"chosen">>)]
    IN  IF name = <<"cpus">> THEN [s EXCEPT !.cpus = d]
        ELSE IF st.cpus # -1 /\ d = st.cpus + 1 /\ IsPrefix(<<"cpu">>, name)
        THEN [s EXCEPT !.info.cpu_count = @ + 1] ELSE s

end_node(st) ==
    LET s == [st EXCEPT !.cpus = IF @ = st.depth THEN -1 ELSE @, !.depth = @ - 1, !.memory = FALSE, !.chosen = FALSE]
    IN  IF s.depth < 0 THEN Malformed(s) ELSE s

property(st, t) ==
    LET reg == parse_reg(t.val, st.ac, st.sc)
        int == read_prop_int(t.val)
    IN  IF st.depth = 1 /\ t.name = "#address-cells" /\ Len(t.val) = 1 THEN [st EXCEPT !.ac = t.val[1]]
        ELSE IF st.depth = 1 /\ t.name = "#size-cells" /\ Len(t.val) = 1 THEN [st EXCEPT !.sc = t.val[1]]
        ELSE IF st.memory /\ t.name = "reg"
        THEN IF reg = None THEN Malformed(st)
             ELSE [st EXCEPT !.info.memory_base = IF st.info.total_memory = 0 THEN reg[1] ELSE @,
                             !.info.total_memory = @ + reg[2]]
        ELSE IF st.chosen /\ t.name \in {"initrd-start", "initrd-end"}
        THEN IF int = None THEN Malformed(st)
             ELSE IF t.name = "initrd-start" THEN [st EXCEPT !.info.initrd_start = int[1]]
             ELSE [st EXCEPT !.info.initrd_end = int[1]]
        ELSE st

parse_step(st, t) ==
    CASE t.t = "begin" -> begin_node(st, t.name)
      [] t.t = "end node" -> end_node(st)
      [] t.t = "prop" -> property(st, t)
      [] t.t = "nop" -> st
      [] t.t = "end" -> [st EXCEPT !.stop = TRUE]
      [] OTHER -> Malformed(st)

parse ==
    LET s == FoldLeft(LAMBDA st, t : IF st.stop THEN st ELSE parse_step(st, t), Start, blob)
    IN  IF s.fail \/ ~s.stop THEN None ELSE <<s.info>>

initrd(info) == IF info.initrd_end > info.initrd_start THEN <<info.initrd_start, info.initrd_end>> ELSE None

---------------------------------------------------------------------------
Names == {<<"memory">>, <<"virtio_mmio">>, <<"serial">>}
Answers ==
    [base |-> [p \in Names |-> dtb_device_base(p)], reg |-> [p \in Names |-> dtb_device_reg(p)],
     lowest |-> [p \in Names |-> dtb_device_reg_lowest(p)], count |-> [p \in Names |-> dtb_count_nodes(p)],
     coherent |-> dtb_node_has_prop(<<"virtio_mmio">>, "dma-coherent"),
     block |-> dtb_find_prop_u32("cbom-block-size"), ram |-> dtb_ram_region, info |-> parse]

FdtInit ==
    /\ \E ac \in Cells, sc \in Cells, kids \in BoundedSeq(Kids, MaxKids) :
         tree = Node(<<"">>, <<Prop("#address-cells", <<ac>>), Prop("#size-cells", <<sc>>)>>, kids)
    /\ blob = <<>> /\ short = "unread" /\ read = None

(* The boot loader leaves the tree in memory, perhaps not all of it, or    *)
(* leaves none.                                                            *)
place ==
    /\ short = "unread"
    /\ LET all == Append(Tokens(tree), [t |-> "end"])
       IN  \/ blob' = all /\ short' = "no"
           \/ blob' = SubSeq(all, 1, Len(all) \div 2) /\ short' \in {"blob", "size"}
           \/ blob' = <<>> /\ short' = "none"
           \/ blob' = SubSeq(all, 1, Len(all) - 2) \o <<[t |-> "corrupt"]>> /\ short' = "no"
    /\ UNCHANGED <<tree, read>>

walk ==
    /\ short # "unread" /\ read = None
    /\ read' = <<Answers>>
    /\ UNCHANGED <<tree, blob, short>>

FdtNext == place \/ walk
FdtSpec == FdtInit /\ [][FdtNext]_fdtVars

---------------------------------------------------------------------------
(* The tree itself: its nodes in order, and what they say.                 *)
RECURSIVE Below(_)
Below(n) == FoldLeft(LAMBDA s, k : s \o <<k>> \o Below(k), <<>>, SelectSeq(n.kids, LAMBDA k : k # Nop))
Called(prefix) == SelectSeq(Below(tree), LAMBDA n : IsPrefix(prefix, n.name))
Has(n) == {n.props[i].name : i \in DOMAIN n.props}
Values(n, prop) == LET ps == SelectSeq(n.props, LAMBDA p : p.name = prop) IN IF ps = <<>> THEN None ELSE ps[1].val
Regs(prefix) == SelectSeq([i \in DOMAIN Called(prefix) |-> Values(Called(prefix)[i], "reg")], LAMBDA v : v # None)
DeviceWindows(prefix) == {Window(Regs(prefix)[i]) : i \in DOMAIN Regs(prefix)} \ {None}
Banks == [i \in DOMAIN Regs(<<"memory">>) |->
            parse_reg(Regs(<<"memory">>)[i], tree.props[1].val[1], tree.props[2].val[1])]
TotalMemory(banks) == FoldLeft(LAMBDA x, b : x + b[2], 0, banks)
Cpus(P(_)) == LET all == FoldLeft(LAMBDA s, k : IF k.name = <<"cpus">> THEN s \o k.kids ELSE s, <<>>, tree.kids)
              IN  Len(SelectSeq(all, LAMBDA k : P(k.name)))

(* What is read is what the tree says.  On a whole tree the kernel's       *)
(* queries find the first node of a name, the lowest of the windows and    *)
(* the number of nodes, and the firmware sums the memory of the nodes and  *)
(* counts those under /cpus, whatever other nodes, properties and padding  *)
(* lie between (cibos-dtb/src/lib.rs:122-336, cibios/src/fdt.rs:86-224);   *)
(* on a tree that is cut off or damaged nothing wrong is read: a query     *)
(* fails, or finds what lies before the damage.                            *)
TreeRead ==
    read # None =>
      LET r == read[1] IN
      /\ \A p \in Names :
           /\ r.lowest[p] # None => r.lowest[p] \in DeviceWindows(p)
           /\ r.reg[p] # None => r.reg[p] = Window(Regs(p)[1]) /\ r.base[p] = <<r.reg[p][1]>>
           /\ short = "no" /\ Last(blob).t = "end" =>
                /\ r.count[p] = Len(Called(p))
                /\ r.reg[p] = IF Regs(p) = <<>> THEN None ELSE Window(Regs(p)[1])
                /\ DeviceWindows(p) # {} => r.lowest[p] \in DeviceWindows(p) /\ \A w \in DeviceWindows(p) : r.lowest[p][1] <= w[1]
      /\ r.coherent => \E i \in DOMAIN Called(<<"virtio_mmio">>) : "dma-coherent" \in Has(Called(<<"virtio_mmio">>)[i])
      /\ r.info # None =>
           /\ None \notin {Banks[i] : i \in DOMAIN Banks}
           /\ r.info[1].total_memory = TotalMemory(Banks)
           /\ TotalMemory(Banks) > 0 => r.info[1].memory_base = SelectSeq(Banks, LAMBDA b : b[2] > 0)[1][1]
           /\ r.info[1].cpu_count = Cpus(LAMBDA n : IsPrefix(<<"cpu">>, n))
      /\ tree.props[1].val = <<2>> /\ tree.props[2].val = <<2>> /\ r.ram # None /\ r.info # None /\ Len(Banks) = 1 /\ Len(Regs(<<"memory">>)[1]) = 4
           => r.ram = <<r.info[1].memory_base, r.info[1].total_memory>>
=============================================================================
