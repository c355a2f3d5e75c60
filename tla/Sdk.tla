-------------------------------- MODULE Sdk ---------------------------------
(***************************************************************************)
(* Containers on one host (cibos-sdk): the lane handles an application     *)
(* creates, submits to, joins and drops (lane.rs, system.rs), and the      *)
(* rendezvous through which one container opens a channel to another       *)
(* (broker.rs, channel.rs), run by the kernel loop of module Kernel.       *)
(*                                                                         *)
(* A handle has a one-slot completion channel, a container that listens    *)
(* for requests a doorbell, and a request an accept signal: the channels   *)
(* of this module.  The code between two awaits is one lane's; what a      *)
(* value's Drop does is a step of the lane that held it, and a lane        *)
(* finishes only after it has dropped what it holds.                       *)
(***************************************************************************)
EXTENDS Kernel

CONSTANTS
    Boundary,      \* the containers
    Home,          \* Home[l]: the container whose System mints lane l
    max_lanes,     \* ResourceLimits of every container
    max_channels,
    Request,       \* the channel requests that may be made
    Requesters,    \* the lanes that make requests
    Listeners      \* the lanes that await them

Completion(l) == <<"lane-join", l>>
Doorbell(b) == <<"xc-doorbell", b>>
AcceptSignal(r) == <<"xc-accept", r>>

ASSUME SdkConstants ==
    /\ Home \in [Lane -> Boundary] /\ Listeners \subseteq Lane /\ Requesters \subseteq Lane
    /\ max_lanes \in Nat /\ max_channels \in Nat
    /\ Channel = {Completion(l) : l \in Lane} \cup {Doorbell(b) : b \in Boundary}
                   \cup {AcceptSignal(r) : r \in Request}
    /\ \A l \in Lane : Capacity[Completion(l)] = 1
    /\ \A r \in Request : Capacity[AcceptSignal(r)] = 1

VARIABLES
    handle,    \* handle[l]: the Lane value for id l, [holder, occupied], if there is one
    owned,     \* owned[l]: l was minted for a handle (release_on_complete is false)
    count,     \* count[b]: the counters active, outbound and inbound of System b
    inbox,     \* inbox[b]: the requests waiting for container b
    bells,     \* the containers that have a doorbell
    req,       \* req[r]: [by, at, taker]
    ends,      \* the open endpoints: <<r, "out">> and <<r, "in">>
    refused    \* the lanes the executor has refused (history)

sdk == <<handle, owned, count, inbox, bells, req, ends, refused>>
sdkVars == <<vars, sdk>>

NoHandle == [holder |-> NoLane, occupied |-> FALSE]
Join(w) == [k |-> "join", lane |-> w]
Wait(r, timed, armed) == [k |-> "request", r |-> r, timed |-> timed, armed |-> armed]
Listen == [k |-> "listen"]      \* at the top of await_channel_request's loop
Bell == [k |-> "bell"]          \* at its doorbell.recv(..).await

SdkInit ==
    /\ Init
    /\ handle = [l \in Lane |-> NoHandle]
    /\ owned = [l \in Lane |-> FALSE]
    /\ count = [b \in Boundary |->
                  [active |-> Cardinality({l \in InitialLanes : Home[l] = b}),
                   outbound |-> 0, inbound |-> 0]]
    /\ inbox = [b \in Boundary |-> <<>>] /\ bells = {}
    /\ req = [r \in Request |-> [by |-> NoLane, at |-> "new", taker |-> NoLane]]
    /\ ends = {} /\ refused = {}

saturating_dec(n) == IF n > 0 THEN n - 1 ELSE 0

note_lane_complete(l) == [count EXCEPT ![Home[l]].active = saturating_dec(@)]
Code(l) == running = l /\ fut[l].k = "run"
-----------------------------------------------------------------------------
(* The host (multihost.rs).                                                *)

(* A refused spawn gives a slot back, whoever reserved it.                 *)
Refused(l) ==
    RefuseSpawn(l) /\ count' = note_lane_complete(l) /\ refused' = refused \cup {l}
      /\ UNCHANGED <<handle, owned, inbox, bells, req, ends>>

HostStep ==
    \/ \E l \in Lane : Refused(l)
    \/ /\ \/ \E l \in Lane : InstallSpawn(l) \/ PollLane(l) \/ PollNotFound(l)
          \/ EnterRun \/ RunIdle
          \/ \E b \in SUBSET Lane : Dispatch(b)
       /\ UNCHANGED sdk
-----------------------------------------------------------------------------
(* Lanes and their handles.                                                *)
mint_lane_counted(l, w) ==
    /\ fut[w] = Absent /\ Home[w] = Home[l]
    /\ count' = [count EXCEPT ![Home[l]].active = @ + 1]

spawn(l, w) ==
    /\ Code(l) /\ mint_lane_counted(l, w)
    /\ fut' = [fut EXCEPT ![w] = Queued]
    /\ UNCHANGED <<sched, chan, sent, batch, running, host, rcvd>>
    /\ UNCHANGED <<handle, owned, inbox, bells, req, ends, refused>>

create(l, w) ==
    /\ Code(l) /\ count[Home[l]].active < max_lanes /\ mint_lane_counted(l, w)
    /\ fut' = [fut EXCEPT ![w] = Done]
    /\ handle' = [handle EXCEPT ![w].holder = l] /\ owned' = [owned EXCEPT ![w] = TRUE]
    /\ UNCHANGED <<sched, chan, sent, batch, running, host, rcvd>>
    /\ UNCHANGED <<inbox, bells, req, ends, refused>>

submit(l, w) ==
    /\ Code(l) /\ handle[w].holder = l /\ ~handle[w].occupied
    /\ sent[Completion(w)] < MaxMessages
    /\ fut' = [fut EXCEPT ![w] = Queued]
    /\ handle' = [handle EXCEPT ![w].occupied = TRUE]
    /\ UNCHANGED <<sched, chan, sent, batch, running, host, rcvd>>
    /\ UNCHANGED <<owned, count, inbox, bells, req, ends, refused>>

join(l, w) ==
    /\ Code(l) /\ handle[w].holder = l /\ handle[w].occupied
    /\ fut' = [fut EXCEPT ![l] = Join(w)]
    /\ UNCHANGED <<sched, chan, sent, batch, running, host, rcvd, sdk>>

(* Mutant: join does not wait for the token.                               *)
PollJoin_NoWait(l) ==
    /\ running = l /\ fut[l].k = "join"
    /\ Ready(l, "ok") /\ handle' = [handle EXCEPT ![fut[l].lane].occupied = FALSE]
    /\ UNCHANGED <<sched, chan, sent, batch, host, rcvd, owned, count, inbox, bells, req, ends, refused>>

PollJoin(l) ==
    /\ running = l /\ fut[l].k = "join"
    /\ LET w == fut[l].lane
       IN \/ /\ Received(Completion(w)) /\ Ready(l, "ok")
             /\ handle' = [handle EXCEPT ![w].occupied = FALSE]
          \/ RecvEmpty(l, Completion(w)) /\ Pending(l, fut[l]) /\ UNCHANGED handle
    /\ UNCHANGED <<batch, host, rcvd, owned, count, inbox, bells, req, ends, refused>>

(* destroy, or Drop: the slot goes back once, even while a future runs.    *)
destroy(l, w) ==
    /\ Code(l) /\ handle[w].holder = l
    /\ handle' = [handle EXCEPT ![w].holder = NoLane]
    /\ count' = note_lane_complete(w)
    /\ UNCHANGED <<vars, owned, inbox, bells, req, ends, refused>>

Holds(l) ==
    \/ \E w \in Lane : handle[w].holder = l
    \/ \E r \in Request : \/ <<r, "out">> \in ends /\ req[r].by = l
                          \/ req[r].taker = l /\ (req[r].at = "held" \/ <<r, "in">> \in ends)

(* The future is Ready and the executor reaps it.  A fire-and-forget lane  *)
(* returns its slot; a handle's lane has just sent its completion token.   *)
Finish(l) ==
    /\ Code(l) /\ ~Holds(l)
    /\ Pending(l, Done)
    /\ IF owned[l]
       THEN LET c == Completion(l)
            IN /\ chan[c].messages = <<>>
               /\ chan' = [chan EXCEPT ![c].messages = <<sent[c] + 1>>, ![c].receiver_waiter = NoLane]
               /\ sent' = [sent EXCEPT ![c] = @ + 1]
               /\ sched' = notify_complete(Wake(sched, chan[c].receiver_waiter), l)
               /\ UNCHANGED count
       ELSE /\ sched' = notify_complete(sched, l) /\ count' = note_lane_complete(l)
            /\ UNCHANGED <<chan, sent>>
    /\ UNCHANGED <<batch, host, rcvd, handle, owned, inbox, bells, req, ends, refused>>
-----------------------------------------------------------------------------
(* Requests between containers.                                            *)

(* Mutant: the doorbell is not rung.                                       *)
ring_Silent(l, b) == UNCHANGED <<sched, chan, sent>>

(* ChannelBroker::submit rings the target's doorbell if it has one; on a   *)
(* full doorbell the ringer is left in its waiter slot.                    *)
ring(l, b) ==
    IF b \in bells THEN Sent(Doorbell(b)) \/ SendFull(l, Doorbell(b))
                   ELSE UNCHANGED <<sched, chan, sent>>

request(l, r, to, timed) ==
    /\ Code(l) /\ l \in Requesters /\ req[r].at = "new" /\ count[Home[l]].outbound < max_channels
    /\ req' = [req EXCEPT ![r].by = l, ![r].at = "inbox"]
    /\ inbox' = [inbox EXCEPT ![to] = Append(@, r)]
    /\ ring(l, to)
    /\ count' = [count EXCEPT ![Home[l]].outbound = @ + 1] /\ ends' = ends \cup {<<r, "out">>}
    /\ fut' = [fut EXCEPT ![l] = Wait(r, timed, FALSE)]
    /\ UNCHANGED <<batch, running, host, rcvd, handle, owned, bells, refused>>

KeepEnd == UNCHANGED <<count, ends>>

(* SideGuard::release, for the outbound and for the inbound endpoint.      *)
DropOut(r) ==
    /\ count' = [count EXCEPT ![Home[req[r].by]].outbound = saturating_dec(@)]
    /\ ends' = ends \ {<<r, "out">>}
DropIn(r) ==
    /\ count' = [count EXCEPT ![Home[req[r].taker]].inbound = saturating_dec(@)]
    /\ ends' = ends \ {<<r, "in">>}

(* The requester polls its accept signal, alone or under with_timeout.     *)
PollRequest(l) ==
    /\ running = l /\ fut[l].k = "request"
    /\ LET r == fut[l].r
           c == AcceptSignal(r)
       IN \/ /\ Received(c)
             /\ \/ req[r].at = "accepted" /\ Ready(l, "ok") /\ KeepEnd
                \/ req[r].at # "accepted" /\ Ready(l, "err") /\ DropOut(r)
          \/ ~fut[l].timed /\ RecvEmpty(l, c) /\ Pending(l, fut[l]) /\ KeepEnd
          \/ /\ fut[l].timed /\ ~fut[l].armed /\ RecvEmptyUntil(l, c, Deadline(1))
             /\ Pending(l, Wait(r, TRUE, TRUE)) /\ KeepEnd
          \/ fut[l].armed /\ RecvEmpty(l, c) /\ Ready(l, "timeout") /\ DropOut(r)
    /\ UNCHANGED <<batch, host, rcvd, handle, owned, inbox, bells, req, refused>>

await_channel_request(l) ==
    /\ Code(l) /\ l \in Listeners
    /\ fut' = [fut EXCEPT ![l] = Listen]
    /\ UNCHANGED <<sched, chan, sent, batch, running, host, rcvd, sdk>>

(* ChannelBroker::take, and the downcast: a request for another message    *)
(* type is dropped together with its accept signal.                        *)
take(l) ==
    /\ running = l /\ fut[l] = Listen /\ inbox[Home[l]] # <<>>
    /\ inbox' = [inbox EXCEPT ![Home[l]] = Tail(@)]
    /\ LET r == Head(inbox[Home[l]])
       IN \/ Ready(l, "ok") /\ req' = [req EXCEPT ![r].at = "held", ![r].taker = l]
          \/ Ready(l, "err") /\ req' = [req EXCEPT ![r].at = "mistyped"]
    /\ UNCHANGED <<sched, chan, sent, batch, host, rcvd, handle, owned, count, bells, ends, refused>>

(* The mailbox is empty: wait for the doorbell, made on first use.         *)
GoToBell(l) ==
    /\ running = l /\ fut[l] = Listen /\ inbox[Home[l]] = <<>>
    /\ bells' = bells \cup {Home[l]}
    /\ fut' = [fut EXCEPT ![l] = Bell]
    /\ UNCHANGED <<sched, chan, sent, batch, running, host, rcvd>>
    /\ UNCHANGED <<handle, owned, count, inbox, req, ends, refused>>

PollBell(l) ==
    /\ running = l /\ fut[l] = Bell
    /\ \/ /\ Received(Doorbell(Home[l]))
          /\ fut' = [fut EXCEPT ![l] = Listen] /\ UNCHANGED running
       \/ RecvEmpty(l, Doorbell(Home[l])) /\ Pending(l, Bell)
    /\ UNCHANGED <<batch, host, rcvd, sdk>>

accept(l, r) ==
    /\ Code(l) /\ req[r].taker = l /\ req[r].at = "held"
    /\ Sent(AcceptSignal(r))
    /\ req' = [req EXCEPT ![r].at = "accepted"]
    /\ count' = [count EXCEPT ![Home[l]].inbound = @ + 1] /\ ends' = ends \cup {<<r, "in">>}
    /\ UNCHANGED <<fut, batch, running, host, rcvd, handle, owned, inbox, bells, refused>>

(* reject, or Drop of an undecided request.                                *)
reject(l, r) ==
    /\ Code(l) /\ req[r].taker = l /\ req[r].at = "held"
    /\ Sent(AcceptSignal(r))
    /\ req' = [req EXCEPT ![r].at = "rejected"]
    /\ UNCHANGED <<fut, batch, running, host, rcvd, handle, owned, count, inbox, bells, ends, refused>>

(* Channel::close, or Drop of the last handle of an endpoint.              *)
CloseEnd(l, r) ==
    /\ Code(l)
    /\ \/ req[r].by = l /\ <<r, "out">> \in ends /\ DropOut(r)
       \/ req[r].taker = l /\ <<r, "in">> \in ends /\ DropIn(r)
    /\ UNCHANGED <<vars, handle, owned, inbox, bells, req, refused>>
-----------------------------------------------------------------------------
Rendezvous(l) ==
    \/ \E r \in Request, to \in Boundary, timed \in BOOLEAN : request(l, r, to, timed)
    \/ PollRequest(l) \/ await_channel_request(l) \/ take(l) \/ GoToBell(l) \/ PollBell(l)
    \/ \E r \in Request : accept(l, r) \/ reject(l, r) \/ CloseEnd(l, r)

SdkNext ==
    \/ HostStep
    \/ \E l \in Lane :
         \/ \E w \in Lane : \/ spawn(l, w) \/ create(l, w) \/ submit(l, w)
                            \/ join(l, w) \/ destroy(l, w)
         \/ PollJoin(l) \/ Finish(l) \/ Rendezvous(l)
    \/ host = "stopped" /\ UNCHANGED sdkVars

SdkSpec == SdkInit /\ [][SdkNext]_sdkVars
-----------------------------------------------------------------------------
(* A handle that accepts a submit has no future left: nothing of its lane  *)
(* is queued or in the executor and no old token is in its completion      *)
(* channel, so spawn_on never meets a lane id in flight                    *)
(* (executor.rs:132-133, 147-150; lane.rs:144-176).                        *)
FreeHandleIsFree ==
    \A w \in Lane :
       /\ handle[w].holder # NoLane /\ ~handle[w].occupied =>
             fut[w] = Done /\ chan[Completion(w)].messages = <<>>
       /\ owned[w] /\ InExecutor(w) => chan[Completion(w)].messages = <<>>

Slots(b) == {l \in Lane : /\ Home[l] = b
                          /\ IF owned[l] THEN handle[l].holder # NoLane
                                         ELSE fut[l] = Queued \/ InExecutor(l)}

(* A container never loses capacity: no counter exceeds what the container *)
(* holds, through refused spawns, handles dropped while their future runs, *)
(* rejections and abandoned requests.  The channel counters are exact, and *)
(* so is the lane counter until the executor refuses a handle's lane,      *)
(* whose slot is given back twice (system.rs:244-346, channel.rs:48-70,    *)
(* multihost.rs:75-83).                                                    *)
CapacityAccounted ==
    \A b \in Boundary :
       /\ count[b].active <= Cardinality(Slots(b))
       /\ (\A l \in refused : ~owned[l]) => count[b].active = Cardinality(Slots(b))
       /\ count[b].outbound =
             Cardinality({r \in Request : <<r, "out">> \in ends /\ Home[req[r].by] = b})
       /\ count[b].inbound =
             Cardinality({r \in Request : <<r, "in">> \in ends /\ Home[req[r].taker] = b})

(* Lanes and channels are taken and given back exactly: a handle is free   *)
(* when its lane is, and a container's counters are what it holds          *)
(* (cibos-sdk/src/lane.rs:144-176, system.rs:244-346).                     *)
HandlesAreAccounted == FreeHandleIsFree /\ CapacityAccounted

(* A parked lane waits for something that can still happen.  A listener is *)
(* never parked beside a request ("race-free", broker.rs:11-14), a joiner  *)
(* never after its lane has finished, and a requester never after its      *)
(* request was decided or dropped ("so the requester does not wait         *)
(* forever", channel.rs:429-430).  The two waits that do last for ever are *)
(* named: a lane the executor refused, and a request of another type.      *)
NobodyForgotten ==
    \A l \in Lane : Parked(l) =>
       CASE fut[l].k = "bell" -> inbox[Home[l]] = <<>>
         [] fut[l].k = "join" -> /\ chan[Completion(fut[l].lane)].messages = <<>>
                                 /\ fut[fut[l].lane] = Done => fut[l].lane \in refused
         [] fut[l].k = "request" -> req[fut[l].r].at \in {"inbox", "held", "mistyped"}
         [] OTHER -> FALSE
=============================================================================
