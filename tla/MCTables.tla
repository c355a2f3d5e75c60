------------------------------ MODULE MCTables ------------------------------
(* The kernel's tables, one at a time: the scheduler's pool and list, the   *)
(* boundaries' address spaces (the instance of MCAddressSpace), the entries *)
(* of the page tables on each architecture, and the containers' limits.     *)
(* They share no state here; `part' says which one a behaviour is of, and   *)
(* the others stay in one initial state.                                    *)
EXTENDS MCAddressSpace, Scheduler, PageEntries, Containers

VARIABLE part

tableVars == <<part, vars, spaceVars, ptVars, accountVars>>

LimitsDef == {[memory_bytes |-> 3, max_lanes |-> 1, max_channels |-> 1],
              [memory_bytes |-> 6, max_lanes |-> 1, max_channels |-> 0]}

(* The registry and the memory manager share nothing either, so a state of  *)
(* one is explored with the other fresh.                                    *)
FreshRegistry == \A i \in DOMAIN containers : /\ containers[i].peak = 0
                                              /\ containers[i].lanes \cup containers[i].channels = {}
Apart == by_boundary = <<>> \/ FreshRegistry

(* Classes and overrides only bias the draw: one lane at a time has them.   *)
OneWeighed ==
    Cardinality({l \in Lane : sched.classes[l] # NoClass \/ sched.overrides[l] # 0}) <= 1

Alike == Permutations(Lane) \cup Boundaries

TablesInit ==
    /\ part \in {"scheduler", "spaces", "entries", "accounts"}
    /\ Init
    /\ SpaceInit
    /\ PteInit /\ (part = "entries" \/ arch = "x86_64")
    /\ AccountsInit /\ (part = "accounts" \/ containers[0].limits.max_channels = 1)

TablesNext ==
    \/ part = "scheduler" /\ Next /\ UNCHANGED <<part, spaceVars, ptVars, accountVars>>
    \/ part = "spaces" /\ SpaceNext /\ UNCHANGED <<part, vars, ptVars, accountVars>>
    \/ part = "entries" /\ PteNext /\ UNCHANGED <<part, vars, spaceVars, accountVars>>
    \/ part = "accounts" /\ AccountsNext /\ UNCHANGED <<part, vars, spaceVars, ptVars>>

TablesSpec == TablesInit /\ [][TablesNext]_tableVars
=============================================================================
