------------------------------- MODULE MCUser -------------------------------
(* User mode, one part at a time: the loop over ring-3 lanes (a lane in     *)
(* each of two boundaries, and a child that the first one may spawn), the   *)
(* loader that builds an application's address space, the heap of an        *)
(* application, its system calls, and the keys and sleeps it waits for.     *)
(* The parts share no state; `part' says which one a behaviour is of, and   *)
(* the others stay in one initial state.                                    *)
EXTENDS Ring3, Loader, Heap, Syscalls, Input, TLC

CONSTANTS la, lb, lk, bnd1, bnd2, c1, g1

VARIABLE part

userVars == <<part, vars, loaderVars, heapVars, sysVars, inputVars>>

Residence == (la :> bnd1) @@ (lb :> bnd2) @@ (lk :> bnd1)
OneSlot == [c \in Channel |-> 1]
-----------------------------------------------------------------------------
(* Programs: sections that share a page, start inside one, reach into the   *)
(* next or are empty; and segments given to the builder directly, one of    *)
(* them at an address the loader refuses.                                   *)
Nothing == [addr |-> 0, size |-> 0]
ElfsDef ==
    [text : 1..3, data : {Nothing} \cup [addr : {12}, size : 0..3],
     bss : {Nothing, [addr |-> 15, size |-> 2], [addr |-> 16, size |-> 1]}]
Part(vaddr, memsz, perms, filesz) == Segment(vaddr, memsz, perms, Body(300, filesz))
SegmentsDef ==
    {<<Part(8, 3, user_rx, 2), Part(13, memsz, user_rw, filesz)>> : memsz \in {1, 2}, filesz \in 0..1}
    \cup {<<Part(9, 4, user_rx, 4)>>, <<Part(8, 1, user_rx, 1), Part(9, 1, user_rw, 1)>>,
          <<Part(8, 1, user_rx, 1), Part(2, 1, user_rw, 1)>>}
-----------------------------------------------------------------------------
(* Names of one, two and too many characters, a two-byte one among them;    *)
(* messages that fit a buffer, a channel, a file or none of them.           *)
NamesDef == {<<97, 98>>, <<195, 169>>, <<97, 97, 97>>}
DataDef == {<<1, 2>>, <<1, 2, 3>>, <<1, 1, 1, 1, 1>>}

(* Files and messages share nothing: each is explored without the other,    *)
(* messages while the disk is mounted.  The disk and the random numbers are *)
(* independent too: both or neither.  The warden's list is about gates: it  *)
(* is empty once a channel was asked for.                                   *)
FilesOrMessages ==
    /\ \/ files = <<>> /\ mounted
       \/ queue["channel"] \o queue["link"] = <<>> /\ shut = {} /\ ~offered
    /\ denied = {} \/ asked = <<>>
-----------------------------------------------------------------------------
UserInit ==
    /\ part \in {"ring3", "loader", "heap", "syscalls", "input"}
    /\ Init
    /\ LoaderInit /\ (part = "loader" \/ (loadPc = "demo" /\ frees = {}))
    /\ heap_init
    /\ SysInit /\ mounted = seeded /\ (part = "syscalls" \/ mounted)
    /\ InputInit

(* An application image is loaded and run once, and a processor that halts  *)
(* with interrupts off stops for good.                                      *)
Halted == part \in {"loader", "input"} /\ UNCHANGED userVars

OfLoop(A) == part = "ring3" /\ A /\ UNCHANGED <<part, loaderVars, heapVars, sysVars, inputVars>>

UserNext ==
    \/ OfLoop(Next)
    \/ part = "loader" /\ LoaderNext /\ UNCHANGED <<part, vars, heapVars, sysVars, inputVars>>
    \/ part = "heap" /\ HeapNext /\ UNCHANGED <<part, vars, loaderVars, sysVars, inputVars>>
    \/ part = "syscalls" /\ SysNext /\ UNCHANGED <<part, vars, loaderVars, heapVars, inputVars>>
    \/ part = "input" /\ InputNext /\ UNCHANGED <<part, vars, loaderVars, heapVars, sysVars>>
    \/ Halted

(* The fairness of Ring3, for the loop's part.                              *)
UserSpec ==
    /\ UserInit /\ [][UserNext]_userVars
    /\ WF_userVars(OfLoop(LoopStep))
    /\ \A l \in Lane : SF_userVars(OfLoop(Yield(l) \/ Exit(l)))

(* Every run of the ring-3 loop ends with every lane exited                 *)
(* (ring3.rs:211-279).                                                      *)
LoopCompletes == part = "ring3" => RunsToCompletion
=============================================================================
