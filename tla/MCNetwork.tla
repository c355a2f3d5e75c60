----------------------------- MODULE MCNetwork -----------------------------
(* Channels between boundaries and the network, one part at a time: the     *)
(* kernel's handle table (the instance of MCChannelTable), the Lattice with *)
(* its browser, server and mail, the network card's rings, and the stack    *)
(* above them.  The parts share no state; `part' says which one a behaviour *)
(* is of, and the others stay in one initial state.                         *)
EXTENDS MCChannelTable, Lattice, Nic, NetStack

VARIABLE part

networkVars == <<part, tableVars, latVars, nicVars, netVars>>

PathsDef == {<<"a">>, <<"a", "b">>, <<"..">>}
BodiesDef == {<<<<"hi">>>>, <<<<>>, <<"FROM", "eve">>>>}

(* Mail and the web share the warden's list only: mail is explored while    *)
(* the web is quiet.  One gate at a time is blocked, and two clients at a    *)
(* time are at work: one more than the doorbell holds rings.                *)
WebIsQuiet == vane = "down" /\ pages = <<>> /\ \A p \in Clients : client[p].at = "idle"
MailOrWeb ==
    /\ Cardinality(barred) <= 1 /\ Cardinality({p \in Clients : client[p].at # "idle"}) <= 2
    /\ boxes = <<>> \/ WebIsQuiet

AllThere == [virtio |-> TRUE, queues |-> TRUE, e1000 |-> TRUE, eeprom |-> TRUE, memory |-> TRUE]
OneMac == CHOOSE m \in Macs : TRUE

NetworkInit ==
    /\ part \in {"handles", "lattice", "nic", "stack"}
    /\ TableInit
    /\ LatInit
    /\ NicInit /\ (part = "nic" \/ hw = AllThere)
    /\ NetInit /\ \A p \in OnLink : hwaddr[p] = OneMac      \* one hardware address is as good as another

(* The bounds on frames end a behaviour of the card.                        *)
Halted == part = "nic" /\ UNCHANGED networkVars

NetworkNext ==
    \/ part = "handles" /\ HandleNext /\ UNCHANGED <<part, latVars, nicVars, netVars>>
    \/ part = "lattice" /\ LatNext /\ UNCHANGED <<part, tableVars, nicVars, netVars>>
    \/ part = "nic" /\ NicNext /\ UNCHANGED <<part, tableVars, latVars, netVars>>
    \/ part = "stack" /\ NetNext /\ UNCHANGED <<part, tableVars, latVars, nicVars>>
    \/ Halted

NetworkSpec == NetworkInit /\ [][NetworkNext]_networkVars
=============================================================================
