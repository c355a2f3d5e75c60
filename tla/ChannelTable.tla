---------------------------- MODULE ChannelTable ----------------------------
(***************************************************************************)
(* The kernel's table of channel handles: the request/accept handshake     *)
(* between boundaries (ChannelRegistry, cibos-kernel/src/channel.rs), the  *)
(* Gates, Links and the Warden of the Lattice (cibos-kernel/src/gate.rs),  *)
(* and the system calls of kernel-image/src/boot.rs that hand out handles  *)
(* on the channels they create.  A call holds the table's lock to its end, *)
(* so it is one step.  A call that fails and changes nothing is a stutter. *)
(*                                                                         *)
(* Handle numbers come from one counter for all boundaries, and no handle  *)
(* is ever removed: `handles' is a sequence and a handle its index.        *)
(* Channel identifiers are drawn from `Channel' in any order; no code      *)
(* compares two of them.                                                   *)
(***************************************************************************)
EXTENDS Channels

CONSTANTS
    Boundary, BoundaryOf,   \* the boundaries, and the one each lane belongs to
    Gate,                   \* gate numbers
    MaxRequests,            \* bound: requests ever made
    MaxMessages             \* bound: messages accepted per channel

ASSUME TableConstants ==
    /\ BoundaryOf \in [Lane -> Boundary]
    /\ MaxRequests \in Nat /\ MaxMessages \in Nat

VARIABLES
    pending,    \* request id -> the proposal waiting for its target
    accepted,   \* request id -> the requester's handle, until it is collected
    handles,    \* the handles registered, in order
    bound,      \* gate -> its owner and the links waiting to be accepted
    denied,     \* the Warden's deny list
    (* History, read by no action.                                         *)
    asked,      \* every proposal made, by request id
    made,       \* the channel made for each request, or NoChannel
    answer,     \* what each requester has been told
    ends,       \* the two boundaries each channel was made for
    author      \* the boundary that sent each message of a channel

table == <<pending, accepted, handles, bound, denied, asked, made, answer, ends>>
tableVars == <<sched, chan, sent, table, author>>

Unbound == [owner |-> "nobody", pending |-> << >>]
NoAnswer == 0     \* handles are counted from 1
NotFound == -1
NoChannel == "none"

TableInit ==
    /\ sched = new
    /\ chan = [c \in Channel |-> NewChannel] /\ sent = [c \in Channel |-> 0]
    /\ pending = << >> /\ accepted = << >> /\ handles = << >>
    /\ bound = [g \in Gate |-> Unbound] /\ denied = {}
    /\ asked = << >> /\ made = << >> /\ answer = << >>
    /\ ends = [c \in Channel |-> {}]
    /\ author = [c \in Channel |-> << >>]

Fresh == {c \in Channel : ends[c] = {}}
HandlesOn(c) == {h \in DOMAIN handles : handles[h].ch = c}
Handle(b, c) == [owner |-> b, ch |-> c]
Without(f, x) == [y \in DOMAIN f \ {x} |-> f[y]]
With(f, x, v) == [y \in DOMAIN f \cup {x} |-> IF y = x THEN v ELSE f[y]]
-----------------------------------------------------------------------------
(* A channel of the caller's own boundary.                                 *)
open_channel(l) ==
    /\ \E c \in Fresh : /\ handles' = Append(handles, Handle(BoundaryOf[l], c))
                        /\ ends' = [ends EXCEPT ![c] = {BoundaryOf[l]}]
    /\ UNCHANGED <<sched, chan, sent, pending, accepted, bound, denied, asked, made, answer, author>>

(* The dispatcher refuses a target in the caller's own boundary; nothing   *)
(* checks that the target exists.                                          *)
request_channel(l, target) ==
    /\ target # BoundaryOf[l] /\ Len(asked) < MaxRequests
    /\ LET proposal == [from |-> BoundaryOf[l], target |-> target]
       IN /\ asked' = Append(asked, proposal)
          /\ pending' = With(pending, Len(asked) + 1, proposal)
    /\ made' = Append(made, NoChannel) /\ answer' = Append(answer, NoAnswer)
    /\ UNCHANGED <<sched, chan, sent, accepted, handles, bound, denied, ends, author>>

(* Mutants: anyone may accept; the requester's handle is not kept for it.  *)
Decides_Anyone(l, id) == id \in DOMAIN pending

(* Only the target of a pending request decides it.                        *)
Decides(l, id) == id \in DOMAIN pending /\ pending[id].target = BoundaryOf[l]

accept_channel_Forgets(l, id) ==
    /\ Decides(l, id)
    /\ \E c \in Fresh :
          /\ handles' = handles \o <<Handle(BoundaryOf[l], c), Handle(pending[id].from, c)>>
          /\ made' = [made EXCEPT ![id] = c]
          /\ ends' = [ends EXCEPT ![c] = {asked[id].from, asked[id].target}]
    /\ pending' = Without(pending, id)
    /\ UNCHANGED <<sched, chan, sent, accepted, bound, denied, asked, answer, author>>

accept_channel(l, id) ==
    /\ Decides(l, id)
    /\ \E c \in Fresh :
          /\ handles' = handles \o <<Handle(BoundaryOf[l], c), Handle(pending[id].from, c)>>
          /\ made' = [made EXCEPT ![id] = c]
          /\ ends' = [ends EXCEPT ![c] = {asked[id].from, asked[id].target}]
    /\ accepted' = With(accepted, id, [requester |-> pending[id].from, handle |-> Len(handles) + 2])
    /\ pending' = Without(pending, id)
    /\ UNCHANGED <<sched, chan, sent, bound, denied, asked, answer, author>>

reject_channel(l, id) ==
    /\ Decides(l, id)
    /\ pending' = Without(pending, id)
    /\ UNCHANGED <<sched, chan, sent, accepted, handles, bound, denied, asked, made, answer, ends, author>>

(* The answer is the handle once, NotFound for a request that is neither   *)
(* pending nor waiting to be collected, NotPermitted and WouldBlock else.  *)
(* The history keeps a requester's first answer that is not WouldBlock.    *)
poll_channel_outcome(l, id) ==
    /\ \/ /\ id \in DOMAIN accepted /\ accepted[id].requester = BoundaryOf[l]
          /\ accepted' = Without(accepted, id)
          /\ answer' = [answer EXCEPT ![id] = accepted[id].handle]
       \/ /\ id \in DOMAIN asked \ (DOMAIN accepted \cup DOMAIN pending)
          /\ asked[id].from = BoundaryOf[l] /\ answer[id] = NoAnswer
          /\ answer' = [answer EXCEPT ![id] = NotFound]
          /\ UNCHANGED accepted
    /\ UNCHANGED <<sched, chan, sent, pending, handles, bound, denied, asked, made, ends, author>>
-----------------------------------------------------------------------------
(* The Lattice.                                                            *)
is_allowed(g) == g \notin denied

gate_bind(l, g) ==
    /\ is_allowed(g) /\ bound[g] = Unbound
    /\ bound' = [bound EXCEPT ![g] = [owner |-> BoundaryOf[l], pending |-> << >>]]
    /\ UNCHANGED <<sched, chan, sent, pending, accepted, handles, denied, asked, made, answer, ends, author>>

(* The links queued at the gate go with it.                                *)
unbind(l, g) ==
    /\ bound[g].owner = BoundaryOf[l]
    /\ bound' = [bound EXCEPT ![g] = Unbound]
    /\ UNCHANGED <<sched, chan, sent, pending, accepted, handles, denied, asked, made, answer, ends, author>>

(* The connector has its half at once, the owner's half waits in the gate. *)
gate_connect(l, g) ==
    /\ is_allowed(g) /\ bound[g] # Unbound
    /\ \E c \in Fresh :
          /\ bound' = [bound EXCEPT ![g].pending = Append(bound[g].pending, c)]
          /\ handles' = Append(handles, Handle(BoundaryOf[l], c))
          /\ ends' = [ends EXCEPT ![c] = {BoundaryOf[l], bound[g].owner}]
    /\ UNCHANGED <<sched, chan, sent, pending, accepted, denied, asked, made, answer, author>>

gate_accept(l, g) ==
    /\ bound[g].owner = BoundaryOf[l] /\ bound[g].pending # << >>
    /\ handles' = Append(handles, Handle(BoundaryOf[l], Head(bound[g].pending)))
    /\ bound' = [bound EXCEPT ![g].pending = Tail(bound[g].pending)]
    /\ UNCHANGED <<sched, chan, sent, pending, accepted, denied, asked, made, answer, ends, author>>

warden_set(g, allow) ==
    /\ denied' = IF allow THEN denied \ {g} ELSE denied \cup {g}
    /\ UNCHANGED <<sched, chan, sent, pending, accepted, handles, bound, asked, made, answer, ends, author>>
-----------------------------------------------------------------------------
(* The calls on a handle; channel and link calls share them.  After a      *)
(* WouldBlock the lane is a registered waiter and goes on running.         *)
resolve(l, h) == h \in DOMAIN handles /\ handles[h].owner = BoundaryOf[l]

channel_send(l, h) ==
    /\ resolve(l, h)
    /\ LET c == handles[h].ch
       IN \/ /\ sent[c] < MaxMessages /\ Sent(c)
             /\ author' = [author EXCEPT ![c] = Append(author[c], BoundaryOf[l])]
          \/ SendFull(l, c) /\ UNCHANGED author
    /\ UNCHANGED table

channel_recv(l, h) ==
    /\ resolve(l, h)
    /\ Received(handles[h].ch) \/ RecvEmpty(l, handles[h].ch)
    /\ UNCHANGED <<table, author>>

link_close(l, h) ==
    /\ resolve(l, h)
    /\ close(handles[h].ch)
    /\ UNCHANGED <<table, author>>
-----------------------------------------------------------------------------
(* Any lane of any boundary may make any call at any time.                 *)
Handshake(l) ==
    \/ \E target \in Boundary : request_channel(l, target)
    \/ \E id \in 1..Len(asked) : \/ accept_channel(l, id) \/ reject_channel(l, id)
                                \/ poll_channel_outcome(l, id)

Lattice(l) ==
    \E g \in Gate : \/ gate_bind(l, g) \/ unbind(l, g) \/ gate_connect(l, g) \/ gate_accept(l, g)
                    \/ \E allow \in BOOLEAN : warden_set(g, allow)

DataCall(l) ==
    \E h \in DOMAIN handles : channel_send(l, h) \/ channel_recv(l, h) \/ link_close(l, h)

TableNext == \E l \in Lane : open_channel(l) \/ Handshake(l) \/ Lattice(l) \/ DataCall(l)

TableSpec == TableInit /\ [][TableNext]_tableVars
-----------------------------------------------------------------------------
(* A channel has at most two handles, and they belong to the two           *)
(* boundaries it was made for: the requester and the target that accepted, *)
(* or the connector and the gate's owner; a channel of one boundary's own  *)
(* has one.  "A different boundary cannot claim" an end                    *)
(* (boot.rs:2781-2801, 2882-2899; channel.rs:391-408).                     *)
HandlesMatchEnds ==
    \A c \in Channel :
       /\ Cardinality(HandlesOn(c)) <= 2
       /\ \A h \in HandlesOn(c) : handles[h].owner \in ends[c]
       /\ \A h, i \in HandlesOn(c) : h # i => {handles[h].owner, handles[i].owner} = ends[c]

(* A requester is told what its target decided.  NotFound means that no   *)
(* channel was or will be made for the request.  A handle is the           *)
(* requester's own, on a channel on which its target holds the other one.  *)
(* And an acceptance waits to be collected until the requester knows,      *)
(* whatever other boundaries request, accept and poll in the meantime      *)
(* (boot.rs:2781-2841).                                                    *)
AnswersAreTrue ==
    \A id \in DOMAIN asked :
       /\ answer[id] = NotFound => id \notin DOMAIN pending /\ made[id] = NoChannel
       /\ made[id] # NoChannel =>
             LET h == IF id \in DOMAIN accepted THEN accepted[id].handle ELSE answer[id]
             IN /\ h \in DOMAIN handles
                /\ handles[h] = Handle(asked[id].from, made[id])
                /\ \E i \in DOMAIN handles : handles[i] = Handle(asked[id].target, made[id])

(* A link waits at one gate, once, with only its connector's handle        *)
(* registered, and the gate's owner is its other end: no link is accepted  *)
(* twice, or by a boundary its connector did not reach (gate.rs:160-206).  *)
QueuedLinksAreHalfOpen ==
    \A g \in Gate : \A i \in 1..Len(bound[g].pending) :
       LET c == bound[g].pending[i]
       IN /\ Cardinality(HandlesOn(c)) = 1
          /\ bound[g].owner \in ends[c]
          /\ \A k \in Gate : \A j \in 1..Len(bound[k].pending) :
                bound[k].pending[j] = c => k = g /\ j = i

(* Only the two parties of a channel ever hold an end of it or wait for    *)
(* one, whatever boundaries request, accept, connect, bind and block in    *)
(* whatever order (boot.rs:2781-2899, gate.rs:160-206).                    *)
OnlyTheParties == HandlesMatchEnds /\ QueuedLinksAreHalfOpen

(* "bytes sent by one boundary are received by the other" (boot.rs:2232),  *)
(* a Link is "a bidirectional byte stream to the peer boundary"            *)
(* (cibos-app/src/net.rs:37): what a boundary receives on a channel it     *)
(* shares with another boundary was sent by that other boundary.           *)
PeerReceives ==
    [][\A l \in Lane, h \in DOMAIN handles :
          LET c == handles[h].ch
          IN channel_recv(l, h) /\ chan[c].messages # << >> /\ Cardinality(ends[c]) = 2
                => author[c][Head(chan[c].messages)] # BoundaryOf[l]]_tableVars
=============================================================================
