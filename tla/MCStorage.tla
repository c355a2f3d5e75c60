----------------------------- MODULE MCStorage -----------------------------
(* Storage, one part at a time: the kernel's file system (the instance of   *)
(* MCFs), the block drivers below it, and the applications that keep their  *)
(* files above it.  The parts share no state; `part' says which one a       *)
(* behaviour is of, and the others stay in one initial state.               *)
EXTENDS MCFs, BlockDev, Apps

VARIABLE part

storageVars == <<part, vars, blkVars, appVars>>

(* A package that is what the catalogue says, and one that is not; a path   *)
(* with a trailing blank, and one inside the package repository.            *)
PackagesDef ==
    {[name |-> "w", version |-> <<1>>, contents |-> <<7>>, declared |-> <<7>>],
     [name |-> "x", version |-> <<1>>, contents |-> <<8>>, declared |-> <<7, 7>>]}
UserPathsDef == {<<"a">>, <<"a", " ">>, <<"repo", "w">>}
UserDataDef == {<<>>, <<5>>}

FewFiles ==
    LET n == Cardinality(DOMAIN files \cup DOMAIN saved)
    IN  n <= (IF back = "sdk" THEN 2 ELSE 5) /\ (buffer = <<>> \/ n <= 1)

StorageInit ==
    /\ part \in {"fs", "blocks", "apps"}
    /\ Init /\ (part = "fs" \/ (InUse = {} /\ TRUE \notin {disk.bitmap[n] : n \in Block}))
    /\ BlkInit /\ (part = "blocks" \/ \A n \in Sectors : medium[n] = "a")
    /\ AppsInit /\ (part = "apps" \/ back = "sdk")

(* The bound on calls ends a behaviour of the block drivers.                *)
Halted == part = "blocks" /\ UNCHANGED storageVars

StorageNext ==
    \/ part = "fs" /\ Next /\ UNCHANGED <<part, blkVars, appVars>>
    \/ part = "blocks" /\ BlkNext /\ UNCHANGED <<part, vars, appVars>>
    \/ part = "apps" /\ AppsNext /\ UNCHANGED <<part, vars, blkVars>>
    \/ Halted

StorageSpec == StorageInit /\ [][StorageNext]_storageVars
=============================================================================
