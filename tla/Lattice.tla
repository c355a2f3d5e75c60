------------------------------ MODULE Lattice ------------------------------
(***************************************************************************)
(* The in-memory network of a container (cibos-sdk/src/net.rs) and the     *)
(* programs on it: the Vane web daemon, the Lens browser, the web protocol *)
(* between them, Postbox and Courier mail, and Probe, which works the      *)
(* firewall.  All of them are tasks of one executor, so a step runs from   *)
(* one await to the next: connecting and sending the request is one step   *)
(* of browse, and a daemon sweeps every pending connection in one step.    *)
(* A program that calls open and request itself may be suspended between   *)
(* the two.                                                                *)
(***************************************************************************)
EXTENDS Integers, Sequences, FiniteSets, SequencesExt

CONSTANTS WebGate,          \* the gate Vane serves and Lens browses
          MailGate,         \* a Postbox mailbox
          InboxGate,        \* a Courier inbox
          Browsers,         \* tasks that call browse
          Splitters,        \* programs that call open and request themselves
          Paths,            \* request paths: sequences of words
          Bodies,           \* what a mail may say: sequences of lines
          BellCap,          \* capacity of the doorbell channel
          MaxMail,          \* bound: mails sent to a gate
          MaxPages          \* bound: versions of a page

Gates == {WebGate, MailGate, InboxGate}
Clients == Browsers \cup Splitters

VARIABLES barred,     \* LatticeState::denied
          listeners,  \* gate -> [pending, bell]; bell is -1 without a doorbell
          client,     \* client -> its call and its end of the link
          vane,       \* "down", "bound" (polled), "daemon", or "lost" to another binder
          pages,      \* the document root: word -> version
          boxes,      \* mail gate -> received mail
          given       \* history: mail gate -> mail whose send returned Ok

latVars == <<barred, listeners, client, vane, pages, boxes, given>>

\* A link is its two queues and the closed mark that close puts on both.
\* `might` is history: the answers that were right at some moment of the call.
Free == [at |-> "idle", ask |-> <<>>, down |-> <<>>, closed |-> FALSE, might |-> {}]

\* Everything a step leaves alone but the named group.
OnlyGates == UNCHANGED <<client, vane, pages, boxes, given>>
OnlyMail  == UNCHANGED <<barred, client, vane, pages>>

-----------------------------------------------------------------------------
(* web-protocol: a head line of words, then the body                       *)

encode_request(verb, path, body) == [head |-> <<verb>> \o path, body |-> body]

\* The head is split at white space, so a path with a blank is cut there.
decode_request(m) ==
  IF m.head = <<>> THEN [bad |-> "malformed"]
  ELSE IF Head(m.head) \notin {"FETCH", "PUSH"} THEN [bad |-> "unknown verb"]
  ELSE IF Len(m.head) < 2 THEN [bad |-> "malformed"]
  ELSE [verb |-> m.head[1], path |-> m.head[2], body |-> m.body]

\* A document root under the requests answered so far: the response and the new root.
handle_request(req, root) ==
  IF req.path = ".." THEN [status |-> 400, body |-> 0, root |-> root]
  ELSE IF req.verb = "PUSH"
  THEN [status |-> 201, body |-> 0, root |-> [w \in DOMAIN root \cup {req.path} |->
                                       IF w = req.path THEN req.body ELSE root[w]]]
  ELSE IF req.path \in DOMAIN root THEN [status |-> 200, body |-> root[req.path], root |-> root]
  ELSE [status |-> 404, body |-> 0, root |-> root]

Answer(m, root) ==
  LET req == decode_request(m) IN
  IF "bad" \in DOMAIN req THEN [status |-> 400, body |-> 0, root |-> root]
  ELSE handle_request(req, root)

Response(a) == [status |-> a.status, body |-> a.body]

-----------------------------------------------------------------------------
(* Gates and the warden                                                    *)

LatInit ==
  /\ barred = {} /\ listeners = <<>> /\ vane = "down"
  /\ client = [c \in Clients |-> Free]
  /\ pages = <<>>
  /\ boxes = <<>>
  /\ given = [g \in {MailGate, InboxGate} |-> <<>>]

warden_deny(g) == g \notin barred /\ barred' = barred \cup {g} /\ UNCHANGED listeners /\ OnlyGates

warden_allow(g) == g \in barred /\ barred' = barred \ {g} /\ UNCHANGED listeners /\ OnlyGates

\* Probe's commands: block and allow; the others only read.
handle(g) == warden_deny(g) \/ warden_allow(g)

CanBind(g) == g \notin barred /\ g \notin DOMAIN listeners

bind(ls, g, bell) ==
  [h \in DOMAIN ls \cup {g} |-> IF h = g THEN [pending |-> <<>>, bell |-> bell] ELSE ls[h]]

listener_unbind(ls, g) == [h \in DOMAIN ls \ {g} |-> ls[h]]

CanConnect(g) == g \notin barred /\ g \in DOMAIN listeners

\* The server's end of a new link waits in `pending`; `up` is what was sent to it.
connect(ls, g, who, up) == [ls EXCEPT ![g].pending = Append(@, [who |-> who, up |-> up])]

\* The ring is a try_send whose failure is ignored.
connect_signaling(ls, g, who, up) ==
  LET l == connect(ls, g, who, up) IN
  IF l[g].bell \in 0 .. BellCap - 1 THEN [l EXCEPT ![g].bell = @ + 1] ELSE l

\* Probe binds the gates of its demonstration services and never serves them;
\* Listener has no Drop, so they stay bound when Probe is gone.
probe_run ==
  /\ vane = "down" /\ CanBind(WebGate)
  /\ listeners' = bind(listeners, WebGate, -1)
  /\ vane' = "lost"
  /\ UNCHANGED <<barred, client, pages, boxes, given>>

-----------------------------------------------------------------------------
(* Vane                                                                    *)

vane_bind ==
  /\ vane = "down" /\ CanBind(WebGate)
  /\ listeners' = bind(listeners, WebGate, -1)
  /\ vane' = "bound"
  /\ UNCHANGED <<barred, client, pages, boxes, given>>

listen ==
  /\ vane = "down" /\ CanBind(WebGate)
  /\ listeners' = bind(listeners, WebGate, 0)
  /\ vane' = "daemon"
  /\ UNCHANGED <<barred, client, pages, boxes, given>>

\* One accepted link: an answer is sent before the link is closed; a link with
\* nothing sent on it yet is dropped, neither answered nor closed.
serve_link(acc, link) ==
  IF link.up = <<>> THEN acc
  ELSE LET a == Answer(Head(link.up), acc.root) IN
       [root |-> a.root,
        client |-> [c \in Clients |->
           [acc.client[c] EXCEPT !.down = IF c = link.who THEN Append(@, Response(a)) ELSE @,
                                 !.closed = @ \/ c = link.who,
                                 !.might = @ \cup (IF acc.client[c].at = "waiting"
                                                   THEN {Response(Answer(acc.client[c].ask[1], a.root))}
                                                   ELSE {})]]]

Sweep(pending) == FoldLeft(serve_link, [root |-> pages, client |-> client], pending)

serve_pending_First ==
  LET p == listeners[WebGate].pending IN
  /\ pages' = Sweep(SubSeq(p, 1, 1)).root
  /\ client' = Sweep(SubSeq(p, 1, 1)).client
  /\ listeners' = [listeners EXCEPT ![WebGate].pending = SubSeq(p, 2, Len(p)),
                                    ![WebGate].bell = IF @ > 0 THEN @ - 1 ELSE @]

\* Every pending link is accepted; a daemon has taken one ring from its doorbell.
serve_pending ==
  LET p == listeners[WebGate].pending IN
  /\ pages' = Sweep(p).root
  /\ client' = Sweep(p).client
  /\ listeners' = [listeners EXCEPT ![WebGate].pending = <<>>,
                                    ![WebGate].bell = IF @ > 0 THEN @ - 1 ELSE @]

serve_forever ==
  /\ vane = "daemon" /\ listeners[WebGate].bell > 0
  /\ serve_pending
  /\ UNCHANGED <<barred, vane, boxes, given>>

\* The host of a polled server calls serve_pending when it likes.
serve_polled ==
  /\ vane = "bound" /\ listeners[WebGate].pending # <<>>
  /\ serve_pending
  /\ UNCHANGED <<barred, vane, boxes, given>>

\* Listener::close: the gate is unbound, the links still pending are dropped unclosed.
close_listener ==
  /\ vane = "bound"
  /\ listeners' = listener_unbind(listeners, WebGate)
  /\ vane' = "down"
  /\ UNCHANGED <<barred, client, pages, boxes, given>>

-----------------------------------------------------------------------------
(* Lens                                                                    *)

Asking(m) == [Free EXCEPT !.at = "waiting", !.ask = <<m>>, !.might = {Response(Answer(m, pages))}]

\* browse up to its first await; a refused or blocked connection ends it.
browse(c, path) ==
  LET m == encode_request("FETCH", path, 0) IN
  /\ client[c].at = "idle" /\ CanConnect(WebGate)
  /\ listeners' = connect_signaling(listeners, WebGate, c, <<m>>)
  /\ client' = [client EXCEPT ![c] = Asking(m)]
  /\ UNCHANGED <<barred, vane, pages, boxes, given>>

open(c) ==
  /\ client[c].at = "idle" /\ CanConnect(WebGate)
  /\ listeners' = connect(listeners, WebGate, c, <<>>)
  /\ client' = [client EXCEPT ![c].at = "open"]
  /\ UNCHANGED <<barred, vane, pages, boxes, given>>

\* The message enters the queue whether or not anyone still holds the other end.
request(c, m) ==
  /\ client[c].at = "open"
  /\ listeners' = [g \in DOMAIN listeners |->
       [listeners[g] EXCEPT !.pending = [k \in DOMAIN @ |->
          IF @[k].who = c THEN [@[k] EXCEPT !.up = <<m>>] ELSE @[k]]]]
  /\ client' = [client EXCEPT ![c] = Asking(m)]
  /\ UNCHANGED <<barred, vane, pages, boxes, given>>

\* A waiting message is handed over before a close is reported (status 0).
try_recv(q) ==
  IF q.down # <<>> THEN <<Head(q.down)>>
  ELSE IF q.closed THEN <<[status |-> 0, body |-> 0]>> ELSE <<>>

\* A poll that finds something ends the wait with it; one that does not changes nothing.
Poll(c) ==
  /\ client[c].at = "waiting" /\ try_recv(client[c]) # <<>>
  /\ client' = [client EXCEPT ![c].at = "done", ![c].down = try_recv(client[c])]
  /\ UNCHANGED <<barred, listeners, vane, pages, boxes, given>>

\* browse after its await, and the reader of a link that open made.
browse_loop(c) == c \in Browsers /\ Poll(c)

read_response(c) == c \in Splitters /\ Poll(c)

\* The next use of a client.
Again(c) ==
  /\ client[c].at = "done"
  /\ client' = [client EXCEPT ![c] = Free]
  /\ UNCHANGED <<barred, listeners, vane, pages, boxes, given>>

-----------------------------------------------------------------------------
(* Postbox and Courier.  A line is a key and a value: the text "FROM ann"  *)
(* is <<"FROM", "ann">>, the blank line <<>>; a body is one line or more   *)
(* and may hold both.  The subject is a header like the sender.            *)

Mail(from, body) == [from |-> from, body |-> body]

encode(g, mail) ==
  IF g = MailGate THEN <<<<"TO", "bob">>, <<"FROM", mail.from>>, <<>>>> \o mail.body
  ELSE <<<<"FROM", mail.from>>>> \o mail.body

Lines(ls, key) == SelectSeq(ls, LAMBDA l : l # <<>> /\ Head(l) = key)

decode_mail_AllLines(ls) ==
  LET blank == {k \in DOMAIN ls : ls[k] = <<>>}
      cut == IF blank = {} THEN Len(ls) + 1 ELSE CHOOSE k \in blank : \A j \in blank : k <= j
  IN IF Lines(ls, "TO") = <<>> \/ Lines(ls, "FROM") = <<>> THEN <<>>
     ELSE <<Mail(Last(Lines(ls, "FROM"))[2], SubSeq(ls, cut + 1, Len(ls)))>>

\* Postbox: the headers end at the first blank line; the last of a kind counts.
decode_mail(ls) ==
  LET blank == {k \in DOMAIN ls : ls[k] = <<>>}
      cut == IF blank = {} THEN Len(ls) + 1 ELSE CHOOSE k \in blank : \A j \in blank : k <= j
      head == SubSeq(ls, 1, cut - 1)
  IN IF Lines(head, "TO") = <<>> \/ Lines(head, "FROM") = <<>> THEN <<>>
     ELSE <<Mail(Last(Lines(head, "FROM"))[2], SubSeq(ls, cut + 1, Len(ls)))>>

\* Courier: the first line is the sender, the rest the body.
decode_message(ls) ==
  IF Len(ls) < 2 \/ ls[1] = <<>> THEN <<>>
  ELSE IF ls[1][1] # "FROM" THEN <<>> ELSE <<Mail(ls[1][2], Tail(ls))>>

decode(g, ls) == IF g = MailGate THEN decode_mail(ls) ELSE decode_message(ls)

\* Connect, send, close: the sender's end is closed before anyone has read it.
send(g, mail) ==
  /\ Len(given[g]) < MaxMail
  /\ IF CanConnect(g)
     THEN /\ listeners' = connect(listeners, g, "sender", <<encode(g, mail)>>)
          /\ given' = [given EXCEPT ![g] = Append(@, mail)]
     ELSE UNCHANGED <<listeners, given>>
  /\ UNCHANGED boxes /\ OnlyMail

open_box(g) ==
  /\ CanBind(g)
  /\ listeners' = bind(listeners, g, -1)
  /\ boxes' = [h \in DOMAIN boxes \cup {g} |-> IF h = g THEN <<>> ELSE boxes[h]]
  /\ UNCHANGED given /\ OnlyMail

\* Every pending link is accepted, read once, decoded and closed.
receive_pending(g) ==
  /\ g \in DOMAIN boxes /\ listeners[g].pending # <<>>
  /\ boxes' = [boxes EXCEPT ![g] = FoldLeft(LAMBDA b, l : b \o decode(g, l.up[1]), @, listeners[g].pending)]
  /\ listeners' = [listeners EXCEPT ![g].pending = <<>>]
  /\ UNCHANGED given /\ OnlyMail

-----------------------------------------------------------------------------
Wanted == {encode_request("FETCH", p, 0) : p \in Paths}
          \cup {encode_request("PUSH", p, v) : p \in Paths, v \in 1 .. MaxPages}

LatNext ==
  \/ \E g \in Gates : handle(g)
  \/ probe_run \/ vane_bind \/ listen \/ serve_forever \/ serve_polled \/ close_listener
  \/ \E c \in Browsers, p \in Paths : browse(c, p)
  \/ \E c \in Splitters : open(c) \/ (\E m \in Wanted : request(c, m))
  \/ \E c \in Clients : browse_loop(c) \/ read_response(c) \/ Again(c)
  \/ \E g \in {MailGate, InboxGate} :
       \/ open_box(g) \/ receive_pending(g)
       \/ \E b \in Bodies : send(g, Mail("ann", b))

LatSpec == LatInit /\ [][LatNext]_latVars

-----------------------------------------------------------------------------
(* While the link of a browse is pending at a live daemon, a ring is left  *)
(* in its doorbell, however many rings were dropped because the doorbell   *)
(* was full and whatever the warden denied meanwhile: the daemon, which    *)
(* parks between two rings, cannot sleep over the connection               *)
(* (connect_signaling, serve_forever, serve_pending).                      *)
NoLostRing ==
  (vane = "daemon" /\ \E k \in DOMAIN listeners[WebGate].pending :
                         listeners[WebGate].pending[k].who \in Browsers)
  => listeners[WebGate].bell > 0

(* Whoever gets an answer gets the answer to its own request, as the pages *)
(* were at some moment between the request and the answer, and a link that *)
(* the server closed after answering is never reported closed instead      *)
(* (serve_link, try_recv).                                                 *)
AnswersWereTrue ==
  \A c \in Clients : client[c].at = "done" => client[c].down[1] \in client[c].might

(* A browser is never forgotten and never misled, whatever other clients   *)
(* connect, push and drop around it (vane/src/lib.rs, lens/src/lib.rs).    *)
BrowsersAreServed == NoLostRing /\ AnswersWereTrue

(* A mail whose send returned Ok is in the box or on its way to it, once,  *)
(* in the order sent, with the sender and the text it was composed with,   *)
(* although the sender closes the link before it is read and a body may    *)
(* hold blank lines and lines that look like headers (send,                *)
(* receive_pending, encode, decode).                                       *)
MailArrives ==
  \A g \in DOMAIN boxes :
    given[g] = boxes[g] \o FoldLeft(LAMBDA b, l : b \o decode(g, l.up[1]), <<>>, listeners[g].pending)

=============================================================================
