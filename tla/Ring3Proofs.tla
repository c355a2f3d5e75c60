----------------------------- MODULE Ring3Proofs -----------------------------
(***************************************************************************)
(* That a channel belongs to its two parties only, that a requester is     *)
(* told the truth, and that the ring-3 loop keeps its lanes and the handle *)
(* table these promises while they run: for any number of boundaries,      *)
(* lanes, channels, gates and requests, any guard and any sequence of      *)
(* system calls.                                                           *)
(***************************************************************************)
EXTENDS Ring3, SchedulerOpsProofs

(* Appending one or two elements, and taking the first away.               *)
LEMMA AppendOne ==
    ASSUME NEW S, NEW s \in Seq(S), NEW e \in S
    PROVE  /\ Append(s, e) \in Seq(S) /\ DOMAIN Append(s, e) = DOMAIN s \cup {Len(s) + 1}
           /\ Len(s) + 1 \notin DOMAIN s /\ Append(s, e)[Len(s) + 1] = e
           /\ \A i \in DOMAIN s : Append(s, e)[i] = s[i]
OBVIOUS

(***************************************************************************)
(* The handle table: who holds an end of a channel.                        *)
(***************************************************************************)
Queued(g) == bound[g].pending

HandleTypes ==
    /\ handles \in Seq([owner : Boundary, ch : Channel])
    /\ bound \in [Gate -> {Unbound} \cup [owner : Boundary, pending : Seq(Channel)]]
    /\ ends \in [Channel -> SUBSET Boundary]

(* A handle's owner is a party, two handles on a channel are its two       *)
(* parties', and there is no third.  A fresh channel has no handle, since  *)
(* it has no parties.                                                      *)
HandlesPair ==
    /\ \A h \in DOMAIN handles : handles[h].owner \in ends[handles[h].ch]
    /\ \A h, i \in DOMAIN handles :
          h # i /\ handles[h].ch = handles[i].ch => {handles[h].owner, handles[i].owner} = ends[handles[h].ch]
    /\ \A h, i, j \in DOMAIN handles :
          handles[h].ch = handles[i].ch /\ handles[i].ch = handles[j].ch => h = i \/ i = j \/ h = j

(* A queued link has one handle, its connector's; it is queued once.       *)
HalfOpen(c, b) ==
    \E h \in DOMAIN handles : /\ handles[h].ch = c /\ ends[c] = {handles[h].owner, b}
                              /\ \A k \in DOMAIN handles : handles[k].ch = c => k = h

LinksWait ==
    \A g \in Gate : \A i \in DOMAIN Queued(g) :
       /\ HalfOpen(Queued(g)[i], bound[g].owner)
       /\ \A k \in Gate : \A j \in DOMAIN Queued(k) : Queued(k)[j] = Queued(g)[i] => k = g /\ j = i

PartiesInv == HandleTypes /\ HandlesPair /\ LinksWait

(* What is known of a request's answer, whoever polls and decides next.   *)
AnswerTypes ==
    /\ asked \in Seq([from : Boundary, target : Boundary])
    /\ made \in Seq(Channel \cup {NoChannel}) /\ answer \in Seq(Int)
    /\ Len(made) = Len(asked) /\ Len(answer) = Len(asked)
    /\ DOMAIN pending \subseteq DOMAIN asked /\ DOMAIN accepted \subseteq DOMAIN asked

Undecided ==
    \A id \in DOMAIN pending :
       /\ pending[id] = asked[id] /\ made[id] = NoChannel
       /\ answer[id] = NoAnswer /\ id \notin DOMAIN accepted

Uncollected == \A id \in DOMAIN accepted : answer[id] = NoAnswer /\ accepted[id].handle \in DOMAIN handles

AnswersInv == AnswerTypes /\ Undecided /\ Uncollected /\ AnswersAreTrue
-----------------------------------------------------------------------------
LEMMA AppendTwo ==
    ASSUME NEW S, NEW s \in Seq(S), NEW d \in S, NEW e \in S
    PROVE  /\ s \o <<d, e>> \in Seq(S) /\ Len(s \o <<d, e>>) = Len(s) + 2
           /\ DOMAIN (s \o <<d, e>>) = DOMAIN s \cup {Len(s) + 1, Len(s) + 2}
           /\ Len(s) + 1 \notin DOMAIN s /\ Len(s) + 2 \notin DOMAIN s
           /\ (s \o <<d, e>>)[Len(s) + 1] = d /\ (s \o <<d, e>>)[Len(s) + 2] = e
           /\ \A i \in DOMAIN s : (s \o <<d, e>>)[i] = s[i]
<1>1. <<d, e>> \in Seq(S) /\ Len(<<d, e>>) = 2 /\ <<d, e>>[1] = d /\ <<d, e>>[2] = e
  OBVIOUS
<1> QED
  BY <1>1

LEMMA TailOf ==
    ASSUME NEW S, NEW s \in Seq(S), s # << >>
    PROVE  /\ Tail(s) \in Seq(S) /\ Head(s) = s[1] /\ 1 \in DOMAIN s /\ Head(s) \in S
           /\ \A i \in DOMAIN Tail(s) : i + 1 \in DOMAIN s /\ Tail(s)[i] = s[i + 1] /\ i + 1 # 1
OBVIOUS

LEMMA ElementOf == ASSUME NEW S, NEW s \in Seq(S), NEW i \in DOMAIN s PROVE s[i] \in S
OBVIOUS

LEMMA HandleType ==
    ASSUME HandleTypes, NEW h \in DOMAIN handles
    PROVE  handles[h].owner \in Boundary /\ handles[h].ch \in Channel
<1>1. handles[h] \in [owner : Boundary, ch : Channel]
  BY ElementOf, Zenon DEF HandleTypes
<1> QED
  BY <1>1, Zenon

(* A fresh channel has no handle and waits at no gate.                     *)
LEMMA FreshIsUnused ==
    ASSUME PartiesInv, NEW c \in Fresh
    PROVE  /\ c \in Channel /\ ends[c] = {}
           /\ \A h \in DOMAIN handles : handles[h].ch # c
           /\ \A g \in Gate : \A i \in DOMAIN Queued(g) : Queued(g)[i] # c
<1>1. c \in Channel /\ ends[c] = {}
  BY Zenon DEF Fresh
<1>2. \A h \in DOMAIN handles : handles[h].ch # c
  BY <1>1, Zenon DEF PartiesInv, HandlesPair
<1>3. ASSUME NEW g \in Gate, NEW i \in DOMAIN Queued(g) PROVE Queued(g)[i] # c
  BY <1>2 DEF PartiesInv, LinksWait, HalfOpen
<1> QED
  BY <1>1, <1>2, <1>3, Zenon

(* A step that registers the handles N, all of them on the channel c: one, *)
(* or two that are the two parties'.                                       *)
NewOn(c, N) ==
    /\ DOMAIN handles' = DOMAIN handles \cup N /\ N \cap DOMAIN handles = {}
    /\ \A h \in DOMAIN handles : handles'[h] = handles[h]
    /\ \A d \in Channel \ {c} : ends'[d] = ends[d]
    /\ \A n \in N : handles'[n].ch = c /\ handles'[n].owner \in ends'[c]
    /\ \A n, m \in N : n # m => {handles'[n].owner, handles'[m].owner} = ends'[c]
    /\ \A n, m, k \in N : n = m \/ m = k \/ n = k

(* One or two handles on a fresh channel, the second for the other party:  *)
(* the handles still come in pairs, and links queued before are as before. *)
LEMMA FreshHandles ==
    ASSUME PartiesInv, NEW c \in Fresh, NEW N, NewOn(c, N)
    PROVE  /\ HandlesPair'
           /\ \A d, b : d # c /\ HalfOpen(d, b) => HalfOpen(d, b)'
<1>1. /\ c \in Channel /\ \A h \in DOMAIN handles : handles[h].ch # c
      /\ \A g \in Gate : \A i \in DOMAIN Queued(g) : Queued(g)[i] # c
  BY FreshIsUnused, Zenon
<1> USE DEF NewOn
<1>2. \A h \in DOMAIN handles : handles[h].ch \in Channel \ {c}
  BY <1>1, HandleType, Zenon DEF PartiesInv
<1>3. \A h, i \in DOMAIN handles' :
         handles'[h].ch = handles'[i].ch => \/ h \in DOMAIN handles /\ i \in DOMAIN handles
                                            \/ h \in N /\ i \in N
  BY <1>2
<1>4. \A h \in DOMAIN handles' : handles'[h].owner \in ends'[handles'[h].ch]
  <2>1. ASSUME NEW h \in DOMAIN handles PROVE handles'[h].owner \in ends'[handles'[h].ch]
    BY <1>2 DEF PartiesInv, HandlesPair
  <2> QED
    BY <2>1, Zenon
<1>5. ASSUME NEW h \in DOMAIN handles', NEW i \in DOMAIN handles', h # i, handles'[h].ch = handles'[i].ch
      PROVE  {handles'[h].owner, handles'[i].owner} = ends'[handles'[h].ch]
  <2>1. CASE h \in DOMAIN handles /\ i \in DOMAIN handles
    <3>1. {handles[h].owner, handles[i].owner} = ends[handles[h].ch]
      BY <1>5, <2>1, Zenon DEF PartiesInv, HandlesPair
    <3> QED
      BY <1>2, <2>1, <3>1, Zenon
  <2>2. CASE h \in N /\ i \in N
    BY <1>5, <2>2
  <2> QED
    BY <1>3, <1>5, <2>1, <2>2, Zenon
<1>6. ASSUME NEW h \in DOMAIN handles', NEW i \in DOMAIN handles', NEW j \in DOMAIN handles',
             handles'[h].ch = handles'[i].ch, handles'[i].ch = handles'[j].ch
      PROVE  h = i \/ i = j \/ h = j
  <2>1. CASE h \in DOMAIN handles /\ i \in DOMAIN handles /\ j \in DOMAIN handles
    <3>1. handles[h].ch = handles[i].ch /\ handles[i].ch = handles[j].ch
      BY <1>6, <2>1, Zenon
    <3> QED
      BY <2>1, <3>1, Zenon DEF PartiesInv, HandlesPair
  <2>2. CASE h \in N /\ i \in N /\ j \in N
    BY <2>2, Zenon
  <2> QED
    BY <1>3, <1>6, <2>1, <2>2, Zenon
<1>7. ASSUME NEW d, NEW b, d # c, HalfOpen(d, b) PROVE HalfOpen(d, b)'
  <2>1. PICK h \in DOMAIN handles : /\ handles[h].ch = d /\ ends[d] = {handles[h].owner, b}
                                    /\ \A k \in DOMAIN handles : handles[k].ch = d => k = h
    BY <1>7, Zenon DEF HalfOpen
  <2>2. h \in DOMAIN handles' /\ handles'[h] = handles[h] /\ ends'[d] = ends[d]
    BY <1>2, <2>1, Zenon
  <2>3. \A k \in DOMAIN handles' : handles'[k].ch = d => k = h
    BY <1>7, <2>1, Zenon
  <2> QED
    BY <2>1, <2>2, <2>3, Zenon DEF HalfOpen
<1> QED
  BY <1>4, <1>5, <1>6, <1>7, Zenon DEF HandlesPair

LEMMA OpenKeepsParties ==
    ASSUME PartiesInv, NEW l \in Lane, open_channel(l)
    PROVE  PartiesInv'
<1> DEFINE b == BoundaryOf[l]
           n == Len(handles) + 1
<1>1. PICK c \in Fresh : /\ handles' = Append(handles, Handle(b, c))
                         /\ ends' = [ends EXCEPT ![c] = {b}]
  BY Zenon DEF open_channel
<1>2. c \in Channel
  BY Zenon DEF Fresh
<1>3. b \in Boundary /\ Handle(b, c) \in [owner : Boundary, ch : Channel]
  BY <1>2, TableConstants, Zenon DEF Handle
<1>4. /\ handles' \in Seq([owner : Boundary, ch : Channel])
      /\ DOMAIN handles' = DOMAIN handles \cup {n} /\ n \notin DOMAIN handles
      /\ handles'[n] = Handle(b, c) /\ \A i \in DOMAIN handles : handles'[i] = handles[i]
  BY <1>1, <1>3, AppendOne DEF PartiesInv, HandleTypes
<1>5. ends'[c] = {b} /\ \A d \in Channel \ {c} : ends'[d] = ends[d]
  BY <1>1, <1>2, Zenon DEF PartiesInv, HandleTypes
<1>6. bound' = bound
  BY Zenon DEF open_channel
<1>7. HandleTypes'
  BY <1>1, <1>3, <1>4, <1>6, Zenon DEF PartiesInv, HandleTypes
<1>8. handles'[n].ch = c /\ handles'[n].owner \in ends'[c]
  BY <1>4, <1>5 DEF Handle
<1> HIDE DEF n
<1>9. HandlesPair' /\ \A d, e : d # c /\ HalfOpen(d, e) => HalfOpen(d, e)'
  <2>1. NewOn(c, {n})
    BY <1>4, <1>5, <1>8, Zenon DEF NewOn
  <2> QED
    BY <2>1, FreshHandles, Zenon
<1>10. LinksWait'
  BY <1>6, <1>9, FreshIsUnused DEF PartiesInv, LinksWait, Queued
<1> QED
  BY <1>7, <1>9, <1>10, Zenon DEF PartiesInv

(* The acceptor and the requester get a handle each.                       *)
LEMMA AcceptKeepsParties ==
    ASSUME PartiesInv, AnswersInv, NEW l \in Lane, NEW id, accept_channel(l, id)
    PROVE  PartiesInv'
<1> DEFINE b == BoundaryOf[l]
           f == pending[id].from
           n == Len(handles) + 1
           m == Len(handles) + 2
<1>1. PICK c \in Fresh : /\ handles' = handles \o <<Handle(b, c), Handle(f, c)>>
                         /\ ends' = [ends EXCEPT ![c] = {asked[id].from, asked[id].target}]
  BY Zenon DEF accept_channel
<1>2. c \in Channel
  BY Zenon DEF Fresh
<1>3. id \in DOMAIN asked /\ pending[id] = asked[id] /\ asked[id].target = b
  BY Zenon DEF accept_channel, Decides, AnswersInv, AnswerTypes, Undecided
<1>4. b \in Boundary /\ f \in Boundary
  <2>1. asked[id] \in [from : Boundary, target : Boundary]
    BY <1>3, ElementOf, Zenon DEF AnswersInv, AnswerTypes
  <2> QED
    BY <1>3, <2>1, TableConstants, Zenon
<1>5. Handle(b, c) \in [owner : Boundary, ch : Channel] /\ Handle(f, c) \in [owner : Boundary, ch : Channel]
  BY <1>2, <1>4, Zenon DEF Handle
<1>6. /\ handles' \in Seq([owner : Boundary, ch : Channel])
      /\ DOMAIN handles' = DOMAIN handles \cup {n, m} /\ n \notin DOMAIN handles /\ m \notin DOMAIN handles
      /\ handles'[n] = Handle(b, c) /\ handles'[m] = Handle(f, c)
      /\ \A i \in DOMAIN handles : handles'[i] = handles[i]
  BY <1>1, <1>5, AppendTwo DEF PartiesInv, HandleTypes
<1>7. ends'[c] = {b, f} /\ \A d \in Channel \ {c} : ends'[d] = ends[d]
  BY <1>1, <1>2, <1>3, Zenon DEF PartiesInv, HandleTypes
<1>8. bound' = bound
  BY Zenon DEF accept_channel
<1>9. HandleTypes'
  BY <1>1, <1>2, <1>3, <1>4, <1>6, <1>8, Zenon DEF PartiesInv, HandleTypes
<1>10. HandlesPair' /\ \A d, e : d # c /\ HalfOpen(d, e) => HalfOpen(d, e)'
  <2>1. handles'[n].ch = c /\ handles'[m].ch = c /\ handles'[n].owner = b /\ handles'[m].owner = f
    BY <1>6 DEF Handle
  <2> HIDE DEF n, m, b, f
  <2>2. NewOn(c, {n, m})
    BY <1>6, <1>7, <2>1 DEF NewOn
  <2> QED
    BY <2>2, FreshHandles, Zenon
<1>11. LinksWait'
  BY <1>8, <1>10, FreshIsUnused DEF PartiesInv, LinksWait, Queued
<1> QED
  BY <1>9, <1>10, <1>11, Zenon DEF PartiesInv

(* The connector gets its handle at once, the link waits at the gate.      *)
LEMMA ConnectKeepsParties ==
    ASSUME PartiesInv, NEW l \in Lane, NEW g \in Gate, gate_connect(l, g)
    PROVE  PartiesInv'
<1> DEFINE b == BoundaryOf[l]
           n == Len(handles) + 1
           q == Len(Queued(g)) + 1
<1>1. PICK c \in Fresh : /\ bound' = [bound EXCEPT ![g].pending = Append(Queued(g), c)]
                         /\ handles' = Append(handles, Handle(b, c))
                         /\ ends' = [ends EXCEPT ![c] = {b, bound[g].owner}]
  BY Zenon DEF gate_connect, Queued
<1>2. c \in Channel
  BY Zenon DEF Fresh
<1>3. b \in Boundary /\ Handle(b, c) \in [owner : Boundary, ch : Channel]
  BY <1>2, TableConstants, Zenon DEF Handle
<1>4. /\ handles' \in Seq([owner : Boundary, ch : Channel])
      /\ DOMAIN handles' = DOMAIN handles \cup {n} /\ n \notin DOMAIN handles
      /\ handles'[n] = Handle(b, c) /\ \A i \in DOMAIN handles : handles'[i] = handles[i]
  BY <1>1, <1>3, AppendOne DEF PartiesInv, HandleTypes
<1>5. ends'[c] = {b, bound[g].owner} /\ \A d \in Channel \ {c} : ends'[d] = ends[d]
  BY <1>1, <1>2, Zenon DEF PartiesInv, HandleTypes
<1>6. bound[g] \in [owner : Boundary, pending : Seq(Channel)]
  BY Zenon DEF gate_connect, PartiesInv, HandleTypes
<1>7. /\ bound'[g] = [owner |-> bound[g].owner, pending |-> Append(Queued(g), c)]
      /\ \A k \in Gate \ {g} : bound'[k] = bound[k]
  BY <1>1, <1>6, Zenon DEF PartiesInv, HandleTypes, Queued
<1>8. /\ DOMAIN Queued(g)' = DOMAIN Queued(g) \cup {q} /\ Queued(g)'[q] = c
      /\ Queued(g)' \in Seq(Channel) /\ \A i \in DOMAIN Queued(g) : Queued(g)'[i] = Queued(g)[i]
  BY <1>2, <1>6, <1>7, AppendOne DEF Queued
<1>9. HandleTypes'
  <2>1. bound'[g] \in [owner : Boundary, pending : Seq(Channel)]
    BY <1>6, <1>7, <1>8 DEF Queued
  <2>2. bound' \in [Gate -> {Unbound} \cup [owner : Boundary, pending : Seq(Channel)]]
    BY <1>1, <1>7, <2>1, Zenon DEF PartiesInv, HandleTypes
  <2> QED
    BY <1>1, <1>3, <1>4, <1>6, <2>2, Zenon DEF PartiesInv, HandleTypes
<1>10. handles'[n].ch = c /\ handles'[n].owner = b /\ \A h \in DOMAIN handles : handles[h].ch # c
  BY <1>4, FreshIsUnused DEF Handle
<1> HIDE DEF n, q
<1>11. HandlesPair' /\ \A d, e : d # c /\ HalfOpen(d, e) => HalfOpen(d, e)'
  <2>1. NewOn(c, {n})
    BY <1>4, <1>5, <1>10, Zenon DEF NewOn
  <2> QED
    BY <2>1, FreshHandles, Zenon
<1>12. HalfOpen(c, bound[g].owner)'
  BY <1>4, <1>5, <1>7, <1>10 DEF HalfOpen
<1>13. ASSUME NEW k \in Gate, NEW i \in DOMAIN Queued(k)'
       PROVE  \/ k = g /\ i = q /\ Queued(k)'[i] = c
              \/ i \in DOMAIN Queued(k) /\ Queued(k)'[i] = Queued(k)[i] /\ Queued(k)[i] # c
  <2>1. CASE k = g
    BY <1>8, <1>13, <2>1, FreshIsUnused, Zenon
  <2>2. CASE k # g
    BY <1>7, <1>13, <2>2, FreshIsUnused DEF Queued
  <2> QED
    BY <2>1, <2>2, Zenon
<1>14. LinksWait'
  <2>1. ASSUME NEW k \in Gate, NEW i \in DOMAIN Queued(k)' PROVE HalfOpen(Queued(k)[i], bound[k].owner)'
    BY <1>7, <1>11, <1>12, <1>13, <2>1 DEF PartiesInv, LinksWait
  <2>2. ASSUME NEW k \in Gate, NEW i \in DOMAIN Queued(k)', NEW e \in Gate, NEW j \in DOMAIN Queued(e)',
               Queued(e)'[j] = Queued(k)'[i]
        PROVE  e = k /\ j = i
    BY <1>13, <2>2 DEF PartiesInv, LinksWait
  <2> QED
    BY <2>1, <2>2, Zenon DEF LinksWait
<1> QED
  BY <1>9, <1>11, <1>14, Zenon DEF PartiesInv

(* The gate's owner gets the other half of the link that waited longest.   *)
LEMMA GateAcceptKeepsParties ==
    ASSUME PartiesInv, NEW l \in Lane, NEW g \in Gate, gate_accept(l, g)
    PROVE  PartiesInv'
<1> DEFINE b == BoundaryOf[l]
           c == Queued(g)[1]
           n == Len(handles) + 1
<1>1. Queued(g) # << >> /\ bound[g].owner = b
  BY Zenon DEF gate_accept, Queued
<1>2. bound[g] \in [owner : Boundary, pending : Seq(Channel)]
  BY <1>1 DEF PartiesInv, HandleTypes, Unbound, Queued
<1>3. /\ 1 \in DOMAIN Queued(g) /\ c = Head(Queued(g)) /\ c \in Channel /\ Tail(Queued(g)) \in Seq(Channel)
      /\ \A i \in DOMAIN Tail(Queued(g)) :
            i + 1 \in DOMAIN Queued(g) /\ Tail(Queued(g))[i] = Queued(g)[i + 1] /\ i + 1 # 1
  BY <1>1, <1>2, TailOf, Zenon DEF Queued
<1>4. /\ bound' = [bound EXCEPT ![g].pending = Tail(Queued(g))]
      /\ handles' = Append(handles, Handle(b, c)) /\ ends' = ends
  BY <1>3, Zenon DEF gate_accept, Queued
<1>5. /\ handles' \in Seq([owner : Boundary, ch : Channel])
      /\ DOMAIN handles' = DOMAIN handles \cup {n} /\ n \notin DOMAIN handles
      /\ handles'[n].owner = b /\ handles'[n].ch = c
      /\ \A i \in DOMAIN handles : handles'[i] = handles[i]
  <2>1. Handle(b, c) \in [owner : Boundary, ch : Channel] /\ Handle(b, c).owner = b /\ Handle(b, c).ch = c
    BY <1>3, TableConstants, Zenon DEF Handle
  <2> QED
    BY <1>4, <2>1, AppendOne DEF PartiesInv, HandleTypes
<1>6. /\ bound'[g] = [owner |-> b, pending |-> Tail(Queued(g))]
      /\ \A k \in Gate \ {g} : bound'[k] = bound[k]
  BY <1>1, <1>2, <1>4, Zenon DEF PartiesInv, HandleTypes
<1>7. HandleTypes'
  <2>1. bound'[g] \in [owner : Boundary, pending : Seq(Channel)]
    BY <1>1, <1>2, <1>3, <1>6
  <2>2. bound' \in [Gate -> {Unbound} \cup [owner : Boundary, pending : Seq(Channel)]]
    BY <1>4, <1>6, <2>1, Zenon DEF PartiesInv, HandleTypes
  <2> QED
    BY <1>4, <1>5, <2>2, Zenon DEF PartiesInv, HandleTypes
<1>8. PICK h \in DOMAIN handles : /\ handles[h].ch = c /\ ends[c] = {handles[h].owner, b}
                                  /\ \A k \in DOMAIN handles : handles[k].ch = c => k = h
  <2>1. HalfOpen(c, b)
    BY <1>1, <1>3, Zenon DEF PartiesInv, LinksWait
  <2> QED
    BY <2>1, Zenon DEF HalfOpen
<1>9. ASSUME NEW k \in Gate, NEW i \in DOMAIN Queued(k)'
      PROVE  /\ \E j \in DOMAIN Queued(k) :
                   Queued(k)'[i] = Queued(k)[j] /\ j = IF k = g THEN i + 1 ELSE i
             /\ Queued(k)'[i] # c /\ bound'[k].owner = bound[k].owner
  <2>1. \A j \in DOMAIN Queued(k) : Queued(k)[j] = c => k = g /\ j = 1
    BY <1>3, Zenon DEF PartiesInv, LinksWait
  <2>2. CASE k = g
    <3> DEFINE rest == Tail(Queued(g))
    <3>0. bound'[k] = [owner |-> b, pending |-> rest]
      BY <1>6, <2>2, Zenon
    <3> HIDE DEF rest
    <3>1. Queued(k)' = rest /\ bound'[k].owner = b
      BY <3>0 DEF Queued
    <3>2. /\ i \in DOMAIN Tail(Queued(g)) /\ i + 1 \in DOMAIN Queued(g) /\ i + 1 # 1
          /\ Queued(k)'[i] = Queued(g)[i + 1]
      BY <1>3, <1>9, <3>1, Zenon DEF rest
    <3> QED
      BY <1>1, <2>1, <2>2, <3>1, <3>2, Zenon
  <2>3. CASE k # g
    BY <1>6, <1>9, <2>1, <2>3, Zenon DEF Queued
  <2> QED
    BY <2>2, <2>3, Zenon
<1> HIDE DEF n, c
<1>10. HandlesPair'
  <2>1. \A k \in DOMAIN handles' : handles'[k].owner \in ends'[handles'[k].ch]
    BY <1>4, <1>5, <1>8 DEF PartiesInv, HandlesPair
  <2>2. ASSUME NEW i \in DOMAIN handles', NEW j \in DOMAIN handles', i # j, handles'[i].ch = handles'[j].ch
        PROVE  {handles'[i].owner, handles'[j].owner} = ends'[handles'[i].ch]
    <3>1. CASE i \in DOMAIN handles /\ j \in DOMAIN handles
      BY <1>4, <1>5, <2>2, <3>1 DEF PartiesInv, HandlesPair
    <3>2. CASE i = n \/ j = n
      <4>1. (i = n /\ j = h) \/ (i = h /\ j = n)
        BY <1>5, <1>8, <2>2, <3>2, Zenon
      <4> QED
        BY <1>4, <1>5, <1>8, <4>1
    <3> QED
      BY <1>5, <3>1, <3>2, Zenon
  <2>3. ASSUME NEW i \in DOMAIN handles', NEW j \in DOMAIN handles', NEW k \in DOMAIN handles',
               handles'[i].ch = handles'[j].ch, handles'[j].ch = handles'[k].ch
        PROVE  i = j \/ j = k \/ i = k
    <3>1. CASE i \in DOMAIN handles /\ j \in DOMAIN handles /\ k \in DOMAIN handles
      BY <1>5, <2>3, <3>1 DEF PartiesInv, HandlesPair
    <3>2. CASE i = n \/ j = n \/ k = n
      BY <1>5, <1>8, <2>3, <3>2, Zenon
    <3> QED
      BY <1>5, <3>1, <3>2, Zenon
  <2> QED
    BY <2>1, <2>2, <2>3, Zenon DEF HandlesPair
<1>11. LinksWait'
  <2>1. ASSUME NEW d, NEW e, d # c, HalfOpen(d, e) PROVE HalfOpen(d, e)'
    BY <1>4, <1>5, <2>1 DEF HalfOpen
  <2>2. ASSUME NEW k \in Gate, NEW i \in DOMAIN Queued(k)' PROVE HalfOpen(Queued(k)[i], bound[k].owner)'
    BY <1>9, <2>1, <2>2 DEF PartiesInv, LinksWait
  <2>3. ASSUME NEW k \in Gate, NEW i \in DOMAIN Queued(k)', NEW e \in Gate, NEW j \in DOMAIN Queued(e)',
               Queued(e)'[j] = Queued(k)'[i]
        PROVE  e = k /\ j = i
    <3>1. PICK x \in DOMAIN Queued(k) : Queued(k)'[i] = Queued(k)[x] /\ x = IF k = g THEN i + 1 ELSE i
      BY <1>9, Zenon
    <3>2. PICK y \in DOMAIN Queued(e) : Queued(e)'[j] = Queued(e)[y] /\ y = IF e = g THEN j + 1 ELSE j
      BY <1>9, Zenon
    <3>3. e = k /\ y = x
      BY <2>3, <3>1, <3>2 DEF PartiesInv, LinksWait
    <3>4. i \in Int /\ j \in Int
      BY <1>7, SMTT(20) DEF HandleTypes, Queued, Unbound
    <3> QED
      BY <3>1, <3>2, <3>3, <3>4
  <2> QED
    BY <2>2, <2>3, Zenon DEF LinksWait
<1> QED
  BY <1>7, <1>10, <1>11, Zenon DEF PartiesInv

(* Binding a gate and giving it up queue nothing.                          *)
LEMMA BindKeepsParties ==
    ASSUME PartiesInv, NEW l \in Lane, NEW g \in Gate, gate_bind(l, g) \/ unbind(l, g)
    PROVE  PartiesInv'
<1>1. /\ handles' = handles /\ ends' = ends
      /\ bound'[g].pending = << >> /\ \A k \in Gate \ {g} : bound'[k] = bound[k]
      /\ bound' \in [Gate -> {Unbound} \cup [owner : Boundary, pending : Seq(Channel)]]
  <2>1. CASE gate_bind(l, g)
    <3>1. [owner |-> BoundaryOf[l], pending |-> << >>] \in [owner : Boundary, pending : Seq(Channel)]
      BY TableConstants
    <3> QED
      BY <2>1, <3>1, Zenon DEF gate_bind, PartiesInv, HandleTypes
  <2>2. CASE unbind(l, g)
    <3>1. Unbound.pending = << >>
      BY Zenon DEF Unbound
    <3> QED
      BY <2>2, <3>1, Zenon DEF unbind, PartiesInv, HandleTypes
  <2> QED
    BY <2>1, <2>2, Zenon
<1>2. \A k \in Gate : \A i \in DOMAIN Queued(k)' : k # g /\ i \in DOMAIN Queued(k) /\ Queued(k)' = Queued(k)
  BY <1>1 DEF Queued
<1>3. LinksWait'
  BY <1>1, <1>2 DEF PartiesInv, LinksWait, HalfOpen
<1>4. HandleTypes' /\ HandlesPair'
  BY <1>1 DEF PartiesInv, HandleTypes, HandlesPair
<1> QED
  BY <1>3, <1>4, Zenon DEF PartiesInv
-----------------------------------------------------------------------------
(***************************************************************************)
(* The handle table: what requesters are told.                             *)
(***************************************************************************)
(* New handles change nothing for the requests made before.                *)
LEMMA GrowthKeepsAnswers ==
    ASSUME AnswersInv, UNCHANGED <<pending, accepted, asked, made, answer>>,
           DOMAIN handles \subseteq DOMAIN handles', \A h \in DOMAIN handles : handles'[h] = handles[h]
    PROVE  AnswersInv'
<1>1. AnswerTypes' /\ Undecided' /\ Uncollected'
  BY Zenon DEF AnswersInv, AnswerTypes, Undecided, Uncollected
<1>2. AnswersAreTrue'
  BY DEF AnswersInv, AnswersAreTrue
<1> QED
  BY <1>1, <1>2, Zenon DEF AnswersInv

LEMMA RequestKeepsAnswers ==
    ASSUME AnswersInv, NEW l \in Lane, NEW target \in Boundary, request_channel(l, target)
    PROVE  AnswersInv'
<1> DEFINE p == [from |-> BoundaryOf[l], target |-> target]
           n == Len(asked) + 1
<1>1. p \in [from : Boundary, target : Boundary] /\ NoChannel \in Channel \cup {NoChannel} /\ NoAnswer \in Int
  BY TableConstants DEF NoAnswer
<1>2. /\ asked' = Append(asked, p) /\ made' = Append(made, NoChannel) /\ answer' = Append(answer, NoAnswer)
      /\ pending' = With(pending, n, p) /\ accepted' = accepted /\ handles' = handles
  BY Zenon DEF request_channel
<1>3. Len(made) + 1 = n /\ Len(answer) + 1 = n
  BY Zenon DEF AnswersInv, AnswerTypes
<1>4. /\ asked' \in Seq([from : Boundary, target : Boundary])
      /\ DOMAIN asked' = DOMAIN asked \cup {n} /\ n \notin DOMAIN asked
      /\ asked'[n] = p /\ \A i \in DOMAIN asked : asked'[i] = asked[i]
  BY <1>1, <1>2, AppendOne DEF AnswersInv, AnswerTypes
<1>5. /\ made' \in Seq(Channel \cup {NoChannel}) /\ DOMAIN made = DOMAIN asked
      /\ made'[n] = NoChannel /\ \A i \in DOMAIN asked : made'[i] = made[i]
  BY <1>1, <1>2, <1>3, AppendOne DEF AnswersInv, AnswerTypes
<1>6. /\ answer' \in Seq(Int) /\ DOMAIN answer = DOMAIN asked
      /\ answer'[n] = NoAnswer /\ \A i \in DOMAIN asked : answer'[i] = answer[i]
  BY <1>1, <1>2, <1>3, AppendOne DEF AnswersInv, AnswerTypes
<1>7. /\ DOMAIN pending' = DOMAIN pending \cup {n} /\ pending'[n] = p
      /\ \A i \in DOMAIN pending : i # n => pending'[i] = pending[i]
  BY <1>2, Zenon DEF With
<1>8. DOMAIN pending \subseteq DOMAIN asked /\ DOMAIN accepted \subseteq DOMAIN asked
  BY Zenon DEF AnswersInv, AnswerTypes
<1>9. Len(made') = Len(asked') /\ Len(answer') = Len(asked')
  BY <1>2 DEF AnswersInv, AnswerTypes
<1> HIDE DEF n, p
<1>10. AnswerTypes'
  BY <1>2, <1>4, <1>5, <1>6, <1>7, <1>8, <1>9, Zenon DEF AnswerTypes
<1>11. Undecided' /\ Uncollected'
  BY <1>2, <1>4, <1>5, <1>6, <1>7, <1>8 DEF AnswersInv, Undecided, Uncollected
<1>12. AnswersAreTrue'
  <2>1. ASSUME NEW id \in DOMAIN asked
        PROVE  answer'[id] = NotFound => id \notin DOMAIN pending' /\ made'[id] = NoChannel
    BY <1>4, <1>5, <1>6, <1>7, Zenon DEF AnswersInv, AnswersAreTrue
  <2>2. ASSUME NEW id \in DOMAIN asked, made'[id] # NoChannel
        PROVE  LET h == IF id \in DOMAIN accepted' THEN accepted'[id].handle ELSE answer'[id]
               IN /\ h \in DOMAIN handles' /\ handles'[h] = Handle(asked'[id].from, made'[id])
                  /\ \E i \in DOMAIN handles' : handles'[i] = Handle(asked'[id].target, made'[id])
    BY <1>2, <1>4, <1>5, <1>6, <2>2 DEF AnswersInv, AnswersAreTrue
  <2>3. answer'[n] # NotFound /\ made'[n] = NoChannel
    BY <1>5, <1>6 DEF NoAnswer, NotFound
  <2> QED
    BY <1>4, <2>1, <2>2, <2>3, Zenon DEF AnswersAreTrue
<1> QED
  BY <1>10, <1>11, <1>12, Zenon DEF AnswersInv

(* The acceptor's decision: the request is made, and waits to be collected.*)
LEMMA AcceptKeepsAnswers ==
    ASSUME PartiesInv, AnswersInv, NEW l \in Lane, NEW id, accept_channel(l, id)
    PROVE  AnswersInv'
<1> DEFINE n == Len(handles) + 1
           m == Len(handles) + 2
<1>1. PICK c \in Fresh : /\ handles' = handles \o <<Handle(BoundaryOf[l], c), Handle(pending[id].from, c)>>
                         /\ made' = [made EXCEPT ![id] = c]
  BY Zenon DEF accept_channel
<1>2. /\ id \in DOMAIN asked /\ id \in DOMAIN pending /\ id \notin DOMAIN accepted /\ c \in Channel
      /\ pending[id] = asked[id] /\ asked[id].target = BoundaryOf[l]
  BY Zenon DEF accept_channel, Decides, AnswersInv, AnswerTypes, Undecided, Fresh
<1>3. /\ DOMAIN handles' = DOMAIN handles \cup {n, m}
      /\ handles'[n] = Handle(asked[id].target, c) /\ handles'[m] = Handle(asked[id].from, c)
      /\ \A i \in DOMAIN handles : handles'[i] = handles[i]
  <2>1. asked[id] \in [from : Boundary, target : Boundary]
    BY <1>2, ElementOf, Zenon DEF AnswersInv, AnswerTypes
  <2>2. /\ Handle(asked[id].target, c) \in [owner : Boundary, ch : Channel]
        /\ Handle(asked[id].from, c) \in [owner : Boundary, ch : Channel]
    BY <1>2, <2>1, Zenon DEF Handle
  <2> QED
    BY <1>1, <1>2, <2>2, AppendTwo DEF PartiesInv, HandleTypes
<1>4. /\ accepted' = With(accepted, id, [requester |-> pending[id].from, handle |-> m])
      /\ pending' = Without(pending, id) /\ asked' = asked /\ answer' = answer
  BY Zenon DEF accept_channel
<1>5. /\ DOMAIN accepted' = DOMAIN accepted \cup {id} /\ accepted'[id].handle = m
      /\ \A i \in DOMAIN accepted : accepted'[i] = accepted[i]
  BY <1>2, <1>4, Zenon DEF With
<1>6. DOMAIN pending' = DOMAIN pending \ {id} /\ \A i \in DOMAIN pending' : pending'[i] = pending[i]
  BY <1>4, Zenon DEF Without
<1>7. /\ made' \in Seq(Channel \cup {NoChannel}) /\ Len(made') = Len(made)
      /\ made'[id] = c /\ \A i \in DOMAIN asked \ {id} : made'[i] = made[i]
  BY <1>1, <1>2 DEF AnswersInv, AnswerTypes
<1>8. AnswerTypes'
  BY <1>2, <1>4, <1>5, <1>6, <1>7, Zenon DEF AnswersInv, AnswerTypes
<1> HIDE DEF n, m
<1>9. Undecided'
  BY <1>2, <1>4, <1>5, <1>6, <1>7, Zenon DEF AnswersInv, AnswerTypes, Undecided
<1>10. Uncollected'
  <2>1. answer'[id] = NoAnswer
    BY <1>2, <1>4, Zenon DEF AnswersInv, Undecided
  <2> QED
    BY <1>3, <1>4, <1>5, <2>1, Zenon DEF AnswersInv, Uncollected
<1>11. AnswersAreTrue'
  <2>1. answer'[id] # NotFound
    BY <1>2, <1>4 DEF AnswersInv, Undecided, NoAnswer, NotFound
  <2>2. ASSUME NEW i \in DOMAIN asked \ {id}
        PROVE  answer'[i] = NotFound => i \notin DOMAIN pending' /\ made'[i] = NoChannel
    BY <1>4, <1>6, <1>7, Zenon DEF AnswersInv, AnswersAreTrue
  <2>3. ASSUME NEW i \in DOMAIN asked \ {id}, made'[i] # NoChannel
        PROVE  LET h == IF i \in DOMAIN accepted' THEN accepted'[i].handle ELSE answer'[i]
               IN /\ h \in DOMAIN handles' /\ handles'[h] = Handle(asked'[i].from, made'[i])
                  /\ \E j \in DOMAIN handles' : handles'[j] = Handle(asked'[i].target, made'[i])
    <3> DEFINE g == IF i \in DOMAIN accepted THEN accepted[i].handle ELSE answer[i]
    <3>1. /\ g \in DOMAIN handles /\ handles[g] = Handle(asked[i].from, made[i])
          /\ \E j \in DOMAIN handles : handles[j] = Handle(asked[i].target, made[i])
      BY <1>7, <2>3, Zenon DEF AnswersInv, AnswersAreTrue
    <3>2. g = IF i \in DOMAIN accepted' THEN accepted'[i].handle ELSE answer'[i]
      BY <1>4, <1>5, <2>3, Zenon
    <3> HIDE DEF g
    <3>3. asked' = asked /\ made'[i] = made[i] /\ g \in DOMAIN handles' /\ handles'[g] = handles[g]
      BY <1>3, <1>4, <1>7, <3>1, Zenon
    <3> QED
      BY <1>3, <3>1, <3>2, <3>3, Zenon
  <2>4. LET h == IF id \in DOMAIN accepted' THEN accepted'[id].handle ELSE answer'[id]
        IN /\ h \in DOMAIN handles' /\ handles'[h] = Handle(asked'[id].from, made'[id])
           /\ \E j \in DOMAIN handles' : handles'[j] = Handle(asked'[id].target, made'[id])
    BY <1>3, <1>4, <1>5, <1>7, Zenon
  <2> QED
    BY <1>4, <2>1, <2>2, <2>3, <2>4, Zenon DEF AnswersAreTrue
<1> QED
  BY <1>8, <1>9, <1>10, <1>11, Zenon DEF AnswersInv

LEMMA RejectKeepsAnswers ==
    ASSUME AnswersInv, NEW l \in Lane, NEW id, reject_channel(l, id)
    PROVE  AnswersInv'
<1>1. /\ DOMAIN pending' = DOMAIN pending \ {id} /\ \A i \in DOMAIN pending' : pending'[i] = pending[i]
      /\ UNCHANGED <<accepted, handles, asked, made, answer>>
  BY Zenon DEF reject_channel, Without
<1>2. AnswerTypes' /\ Undecided' /\ Uncollected'
  BY <1>1, Zenon DEF AnswersInv, AnswerTypes, Undecided, Uncollected
<1>3. AnswersAreTrue'
  BY <1>1, Zenon DEF AnswersInv, AnswersAreTrue
<1> QED
  BY <1>2, <1>3, Zenon DEF AnswersInv

(* The requester is told: what it gets is what waited for it, or there is  *)
(* neither a channel nor a decision to come.                               *)
LEMMA PollKeepsAnswers ==
    ASSUME PartiesInv, AnswersInv, NEW l \in Lane, NEW id, poll_channel_outcome(l, id)
    PROVE  AnswersInv'
<1>1. UNCHANGED <<pending, handles, asked, made>>
  BY Zenon DEF poll_channel_outcome
<1>2. DOMAIN answer = DOMAIN asked /\ DOMAIN handles \subseteq Nat \ {0}
  BY DEF AnswersInv, AnswerTypes, PartiesInv, HandleTypes
<1>3. CASE id \in DOMAIN accepted /\ answer' = [answer EXCEPT ![id] = accepted[id].handle]
           /\ accepted' = Without(accepted, id)
  <2> DEFINE h == accepted[id].handle
  <2>1. id \in DOMAIN asked /\ id \notin DOMAIN pending /\ h \in DOMAIN handles
    BY <1>3, Zenon DEF AnswersInv, AnswerTypes, Undecided, Uncollected
  <2>2. /\ DOMAIN accepted' = DOMAIN accepted \ {id} /\ \A i \in DOMAIN accepted' : accepted'[i] = accepted[i]
        /\ answer'[id] = h /\ \A i \in DOMAIN asked \ {id} : answer'[i] = answer[i]
    BY <1>2, <1>3, <2>1, Zenon DEF Without, AnswersInv, AnswerTypes
  <2>3. answer' \in Seq(Int) /\ Len(answer') = Len(answer) /\ h # NotFound
    BY <1>2, <1>3, <2>1 DEF AnswersInv, AnswerTypes, NotFound
  <2>4. AnswerTypes' /\ Undecided' /\ Uncollected'
    BY <1>1, <2>1, <2>2, <2>3, Zenon DEF AnswersInv, AnswerTypes, Undecided, Uncollected
  <2>5. AnswersAreTrue'
    BY <1>1, <1>3, <2>1, <2>2, <2>3 DEF AnswersInv, AnswersAreTrue
  <2> QED
    BY <2>4, <2>5, Zenon DEF AnswersInv
<1>4. CASE /\ id \in DOMAIN asked \ (DOMAIN accepted \cup DOMAIN pending) /\ answer[id] = NoAnswer
           /\ answer' = [answer EXCEPT ![id] = NotFound] /\ accepted' = accepted
  <2>1. answer' \in Seq(Int) /\ Len(answer') = Len(answer)
    BY <1>2, <1>4 DEF AnswersInv, AnswerTypes, NotFound
  <2>2. answer'[id] = NotFound /\ \A i \in DOMAIN asked \ {id} : answer'[i] = answer[i]
    BY <1>2, <1>4, Zenon DEF AnswersInv, AnswerTypes
  <2>3. made[id] = NoChannel
    BY <1>2, <1>4, Zenon DEF AnswersInv, AnswersAreTrue, NoAnswer
  <2>4. AnswerTypes' /\ Undecided' /\ Uncollected'
    BY <1>1, <1>4, <2>1, <2>2, Zenon DEF AnswersInv, AnswerTypes, Undecided, Uncollected
  <2>5. AnswersAreTrue'
    BY <1>1, <1>4, <2>2, <2>3, Zenon DEF AnswersInv, AnswersAreTrue
  <2> QED
    BY <2>4, <2>5, Zenon DEF AnswersInv
<1> QED
  BY <1>3, <1>4, Zenon DEF poll_channel_outcome
-----------------------------------------------------------------------------
(* Every call keeps what is known of handles and of answers.               *)
TableInv == PartiesInv /\ AnswersInv

LEMMA SameParties ==
    ASSUME PartiesInv, UNCHANGED <<handles, bound, ends>>
    PROVE  PartiesInv'
<1>1. HandleTypes' /\ HandlesPair'
  BY DEF PartiesInv, HandleTypes, HandlesPair
<1>2. \A c, b : HalfOpen(c, b)' <=> HalfOpen(c, b)
  BY Zenon DEF HalfOpen
<1>3. LinksWait'
  BY <1>2 DEF PartiesInv, LinksWait, Queued
<1> QED
  BY <1>1, <1>3, Zenon DEF PartiesInv

LEMMA CallKeepsTable ==
    ASSUME TableInv, NEW l \in Lane, open_channel(l) \/ Handshake(l) \/ Lattice(l) \/ DataCall(l)
    PROVE  TableInv'
<1> USE DEF TableInv
<1>2. ASSUME UNCHANGED <<pending, accepted, asked, made, answer>>, NEW e, handles' = Append(handles, e)
      PROVE  AnswersInv'
  BY <1>2, GrowthKeepsAnswers DEF PartiesInv, HandleTypes
<1>3. ASSUME UNCHANGED <<pending, accepted, asked, made, answer, handles>> PROVE AnswersInv'
  BY <1>3, GrowthKeepsAnswers, Zenon
<1>4. CASE open_channel(l)
  BY <1>2, <1>4, OpenKeepsParties, Zenon DEF open_channel
<1>5. CASE Handshake(l)
  <2>1. ASSUME NEW target \in Boundary, request_channel(l, target) PROVE TableInv'
    BY SameParties, <2>1, RequestKeepsAnswers, Zenon DEF request_channel
  <2>2. ASSUME NEW id, accept_channel(l, id) PROVE TableInv'
    BY <2>2, AcceptKeepsParties, AcceptKeepsAnswers, Zenon
  <2>3. ASSUME NEW id, reject_channel(l, id) PROVE TableInv'
    BY SameParties, <2>3, RejectKeepsAnswers, Zenon DEF reject_channel
  <2>4. ASSUME NEW id, poll_channel_outcome(l, id) PROVE TableInv'
    BY SameParties, <2>4, PollKeepsAnswers, Zenon DEF poll_channel_outcome
  <2> QED
    BY <1>5, <2>1, <2>2, <2>3, <2>4, Zenon DEF Handshake
<1>6. CASE Lattice(l)
  <2>1. ASSUME NEW g \in Gate, gate_bind(l, g) \/ unbind(l, g) PROVE TableInv'
    BY <1>3, <2>1, BindKeepsParties, Zenon DEF gate_bind, unbind
  <2>2. ASSUME NEW g \in Gate, gate_connect(l, g) PROVE TableInv'
    BY <1>2, <2>2, ConnectKeepsParties, Zenon DEF gate_connect
  <2>3. ASSUME NEW g \in Gate, gate_accept(l, g) PROVE TableInv'
    BY <1>2, <2>3, GateAcceptKeepsParties, Zenon DEF gate_accept
  <2>4. ASSUME NEW g \in Gate, NEW allow, warden_set(g, allow) PROVE TableInv'
    BY SameParties, <1>3, <2>4, Zenon DEF warden_set
  <2> QED
    BY <1>6, <2>1, <2>2, <2>3, <2>4, Zenon DEF Lattice
<1>7. CASE DataCall(l)
  BY SameParties, <1>3, <1>7, Zenon DEF DataCall, channel_send, channel_recv, link_close, table
<1> QED
  BY <1>4, <1>5, <1>6, <1>7, Zenon

LEMMA TableInitially == TableInit => TableInv
<1> SUFFICES ASSUME TableInit PROVE TableInv
  OBVIOUS
<1>1. DOMAIN handles = {} /\ DOMAIN asked = {} /\ DOMAIN pending = {} /\ DOMAIN accepted = {}
  BY DEF TableInit
<1>2. \A g \in Gate : DOMAIN Queued(g) = {}
  BY SMTT(20) DEF TableInit, Unbound, Queued
<1>3. PartiesInv
  BY <1>1, <1>2 DEF TableInit, PartiesInv, HandleTypes, HandlesPair, LinksWait
<1>4. AnswersInv
  BY <1>1 DEF TableInit, AnswersInv, AnswerTypes, Undecided, Uncollected, AnswersAreTrue
<1> QED
  BY <1>3, <1>4, Zenon DEF TableInv

(***************************************************************************)
(* Sets of at most two elements, counted from the definition.              *)
(***************************************************************************)
OneOf(T) == CHOOSE z : z \in T
Counts(S, f) == f = [T \in SUBSET S |-> IF T = {} THEN 0 ELSE 1 + f[T \ {OneOf(T)}]]

LEMMA OneOfIsIn == \A T : T # {} => OneOf(T) \in T
BY Zenon DEF OneOf

LEMMA CountedBy ==
    ASSUME NEW S, NEW f, Counts(S, f)
    PROVE  \E c : Counts(S, c) /\ Cardinality(S) = c[S]
<1> DEFINE c == CHOOSE cs : Counts(S, cs)
<1>1. Counts(S, c)
  BY Zenon
<1>2. Cardinality(S) = c[S]
  BY Zenon DEF Cardinality, Counts, OneOf
<1> QED
  BY <1>1, <1>2, Zenon

LEMMA CountsAre ==
    ASSUME NEW S, NEW c, Counts(S, c)
    PROVE  c[{}] = 0 /\ \A T \in SUBSET S : T # {} => c[T] = 1 + c[T \ {OneOf(T)}]
BY Zenon DEF Counts

LEMMA EmptyIsNone == Cardinality({}) = 0
<1> DEFINE f == [T \in SUBSET {} |-> 0]
<1>1. Counts({}, f)
  BY Zenon DEF Counts
<1> QED
  BY <1>1, CountedBy, CountsAre, Zenon

LEMMA SingletonIsOne == ASSUME NEW x PROVE Cardinality({x}) = 1
<1> DEFINE f == [T \in SUBSET {x} |-> IF T = {} THEN 0 ELSE 1]
<1>1. \A T \in SUBSET {x} : T # {} => T = {x} /\ T \ {OneOf(T)} = {}
  BY OneOfIsIn, Zenon
<1>2. Counts({x}, f)
  BY <1>1 DEF Counts
<1>3. PICK c : Counts({x}, c) /\ Cardinality({x}) = c[{x}]
  BY <1>2, CountedBy, Zenon
<1>4. {x} # {} /\ {x} \ {OneOf({x})} = {}
  BY <1>1, Zenon
<1>5. c[{}] = 0 /\ \A T \in SUBSET {x} : T # {} => c[T] = 1 + c[T \ {OneOf(T)}]
  BY <1>3, CountsAre, Zenon
<1>6. c[{x}] = 1 + c[{}]
  BY <1>4, <1>5, Zenon
<1>7. c[{x}] = 1
  BY <1>5, <1>6
<1> QED
  BY <1>3, <1>7, Zenon

LEMMA PairIsTwo == ASSUME NEW x, NEW y, x # y PROVE Cardinality({x, y}) = 2
<1> DEFINE S == {x, y}
           f == [T \in SUBSET S |-> IF T = {} THEN 0 ELSE IF T = S THEN 2 ELSE 1]
<1>1. S # {} /\ S \ {OneOf(S)} \in SUBSET S /\ S \ {OneOf(S)} \notin {{}, S}
  BY OneOfIsIn
<1>2. \A T \in SUBSET S : T \notin {{}, S} => T \ {OneOf(T)} = {}
  BY OneOfIsIn
<1> HIDE DEF S
<1>3. \A T \in SUBSET S : f[T] = IF T = {} THEN 0 ELSE 1 + f[T \ {OneOf(T)}]
  <2> SUFFICES ASSUME NEW T \in SUBSET S
               PROVE  f[T] = IF T = {} THEN 0 ELSE 1 + f[T \ {OneOf(T)}]
    BY Zenon
  <2>1. CASE T = {}
    BY <2>1, Zenon
  <2>2. CASE T = S
    BY <1>1, <2>2
  <2>3. CASE T \notin {{}, S}
    BY <1>1, <1>2, <2>3
  <2> QED
    BY <2>1, <2>2, <2>3, Zenon
<1>4. Counts(S, f)
  BY <1>3, Zenon DEF Counts
<1>5. PICK c : Counts(S, c) /\ Cardinality(S) = c[S]
  BY <1>4, CountedBy, Zenon
<1>6. c[{}] = 0 /\ \A T \in SUBSET S : T # {} => c[T] = 1 + c[T \ {OneOf(T)}]
  BY <1>5, CountsAre
<1>7. c[S \ {OneOf(S)}] = 1
  BY <1>1, <1>2, <1>6
<1>8. S \in SUBSET S /\ c[S] = 1 + c[S \ {OneOf(S)}]
  BY <1>1, <1>6, Zenon
<1> QED
  BY <1>5, <1>7, <1>8 DEF S

(* A set of which no three elements differ has at most two.                *)
LEMMA AtMostTwo ==
    ASSUME NEW S, \A x, y, z \in S : x = y \/ y = z \/ x = z
    PROVE  Cardinality(S) <= 2
<1>1. CASE S = {}
  BY <1>1, EmptyIsNone
<1>2. ASSUME NEW x \in S PROVE Cardinality(S) <= 2
  <2>1. CASE S = {x}
    BY <2>1, SingletonIsOne
  <2>2. ASSUME NEW y \in S, x # y PROVE Cardinality(S) <= 2
    <3>1. S = {x, y}
      BY <2>2, Zenon
    <3>2. Cardinality({x, y}) = 2
      BY <2>2, PairIsTwo, Zenon
    <3>3. Cardinality(S) = 2
      BY <3>1, <3>2, Zenon
    <3> QED
      BY <3>3
  <2> QED
    BY <2>1, <2>2, Zenon
<1> QED
  BY <1>1, <1>2, Zenon

LEMMA PartiesOnly == PartiesInv => OnlyTheParties
<1> SUFFICES ASSUME PartiesInv PROVE OnlyTheParties
  OBVIOUS
<1>1. HandlesMatchEnds
  <2> SUFFICES ASSUME NEW c \in Channel
               PROVE  /\ Cardinality(HandlesOn(c)) <= 2
                      /\ \A h \in HandlesOn(c) : handles[h].owner \in ends[c]
                      /\ \A h, i \in HandlesOn(c) : h # i => {handles[h].owner, handles[i].owner} = ends[c]
    BY Zenon DEF HandlesMatchEnds
  <2>1. \A h, i, j \in HandlesOn(c) : h = i \/ i = j \/ h = j
    BY DEF HandlesOn, PartiesInv, HandlesPair
  <2>2. Cardinality(HandlesOn(c)) <= 2
    BY <2>1, AtMostTwo, Zenon
  <2> QED
    BY <2>2, Zenon DEF HandlesOn, PartiesInv, HandlesPair
<1>2. QueuedLinksAreHalfOpen
  <2>1. ASSUME NEW g \in Gate PROVE DOMAIN Queued(g) = 1..Len(Queued(g))
    BY DEF PartiesInv, HandleTypes, Queued, Unbound
  <2>2. ASSUME NEW c, NEW b, HalfOpen(c, b) PROVE Cardinality(HandlesOn(c)) = 1 /\ b \in ends[c]
    <3>1. PICK h \in DOMAIN handles : /\ handles[h].ch = c /\ ends[c] = {handles[h].owner, b}
                                      /\ \A k \in DOMAIN handles : handles[k].ch = c => k = h
      BY <2>2, Zenon DEF HalfOpen
    <3>2. HandlesOn(c) = {h}
      BY <3>1, Zenon DEF HandlesOn
    <3> QED
      BY <3>1, <3>2, SingletonIsOne, Zenon
  <2> QED
    BY <2>1, <2>2 DEF PartiesInv, LinksWait, QueuedLinksAreHalfOpen, Queued
<1> QED
  BY <1>1, <1>2, Zenon DEF OnlyTheParties

LEMMA TableStep == TableInv /\ [TableNext]_tableVars => TableInv'
<1>1. ASSUME TableInv, UNCHANGED tableVars PROVE TableInv'
  <2>1. UNCHANGED <<pending, accepted, handles, bound, asked, made, answer, ends>>
    BY <1>1, Zenon DEF tableVars, table
  <2> QED
    BY <1>1, <2>1, SameParties, GrowthKeepsAnswers, Zenon DEF TableInv
<1> QED
  BY <1>1, CallKeepsTable, Zenon DEF TableNext

(* "A different boundary cannot claim" an end of a channel (boot.rs:       *)
(* 2781-2801, 2882-2899): whatever calls any number of boundaries make,    *)
(* a channel has at most two handles, held by the two parties it was made  *)
(* for, and a link waits once, at one gate, for its other party only.      *)
THEOREM OnlyThePartiesHolds == TableSpec => []OnlyTheParties
<1>1. TableInv => OnlyTheParties
  BY PartiesOnly, Zenon DEF TableInv
<1> QED
  BY <1>1, TableInitially, TableStep, PTL DEF TableSpec

(* A requester is told what its target decided (boot.rs:2781-2841), for    *)
(* any number of requests, decisions and polls in any order: NotFound only *)
(* when there is no channel and none will be made, a handle only on the    *)
(* channel its target accepted, and an acceptance waits to be collected.   *)
THEOREM AnswersAreTrueHolds == TableSpec => []AnswersAreTrue
<1>1. TableInv => AnswersAreTrue
  BY Zenon DEF TableInv, AnswersInv
<1> QED
  BY <1>1, TableInitially, TableStep, PTL DEF TableSpec

(***************************************************************************)
(* The ring-3 loop.                                                        *)
(***************************************************************************)
(* Outside a pass over the lanes none of them runs or is about to.         *)
LoopTypes ==
    /\ chan \in [Channel -> ChannelState] /\ sent \in [Channel -> Nat]
    /\ batch \in SUBSET Lane /\ active \in Lane \cup {NoLane}
    /\ lanes \in [Lane -> {"absent", "live", "exited"}] /\ parks \in Nat /\ passes \in Nat
    /\ pc # "lanes" => active = NoLane /\ batch = {}

(* The inductive invariant.                                                *)
LoopInv == TableInv /\ Tidy(sched) /\ LoopTypes /\ LanesAreKept

(* A step of the scheduler that strands nobody but, perhaps, the lane l:   *)
(* every other lane stays where it is or becomes ready.                    *)
Lets(s, t, l) == \A k \in Lane \ {l} : t.ready[k] = 1 \/ Same(s, t, k)

LEMMA WakeLets ==
    ASSUME NEW s, Tidy(s), NEW w \in Lane \cup {NoLane}
    PROVE  Tidy(Wake(s, w)) /\ \A l : Lets(s, Wake(s, w), l)
<1>1. CASE w = NoLane
  BY <1>1, Zenon DEF Wake, Lets, Same
<1>2. CASE w # NoLane
  <2>1. w \in Lane /\ Wake(s, w) = signal_ready(s, w)
    BY <1>2, Zenon DEF Wake
  <2> QED
    BY <2>1, SignalReadyTidy DEF Lets
<1> QED
  BY <1>1, <1>2, Zenon

(* The calls on a handle wake the waiters they find and park the caller.   *)
LEMMA DataCallLets ==
    ASSUME Tidy(sched), chan \in [Channel -> ChannelState], sent \in [Channel -> Nat], PartiesInv,
           NEW l \in Lane, DataCall(l)
    PROVE  /\ Tidy(sched') /\ Lets(sched, sched', l)
           /\ chan' \in [Channel -> ChannelState] /\ sent' \in [Channel -> Nat]
<1>1. PICK h \in DOMAIN handles : channel_send(l, h) \/ channel_recv(l, h) \/ link_close(l, h)
  BY Zenon DEF DataCall
<1> DEFINE c == handles[h].ch
<1>2. c \in Channel
  BY HandleType, Zenon DEF PartiesInv
<1>3. Sent(c) \/ SendFull(l, c) \/ Received(c) \/ RecvEmpty(l, c) \/ close(c)
  BY <1>1, Zenon DEF channel_send, channel_recv, link_close
<1> HIDE DEF c
<1>4. /\ chan[c].messages \in Seq(Nat) /\ chan[c].receiver_waiter \in Lane \cup {NoLane}
      /\ chan[c].sender_waiter \in Lane \cup {NoLane}
  BY <1>2, Zenon DEF ChannelState
<1>5. ChannelData(c) \in WaitResource /\ ChannelBuffer(c) \in WaitResource
  BY <1>2, Zenon DEF WaitResource
<1>6. CASE Sent(c)
  <2>1. Append(chan[c].messages, sent[c] + 1) \in Seq(Nat)
    BY <1>2, <1>4
  <2>2. sent' \in [Channel -> Nat]
    BY <1>2, <1>6 DEF Sent
  <2>3. chan' \in [Channel -> ChannelState]
    BY <1>2, <1>6, <2>1, Zenon DEF Sent, ChannelState
  <2> QED
    BY <1>4, <1>6, <2>2, <2>3, WakeLets, Zenon DEF Sent
<1>7. CASE SendFull(l, c)
  <2>1. chan' \in [Channel -> ChannelState] /\ sent' \in [Channel -> Nat]
    BY <1>2, <1>7, Zenon DEF SendFull, ChannelState
  <2> QED
    BY <1>5, <1>7, <2>1, RegisterWaitTidy, Zenon DEF SendFull, Lets
<1>8. CASE Received(c)
  <2>1. Tail(chan[c].messages) \in Seq(Nat)
    BY <1>4, <1>8 DEF Received
  <2>2. chan' \in [Channel -> ChannelState] /\ sent' \in [Channel -> Nat]
    BY <1>2, <1>8, <2>1, Zenon DEF Received, ChannelState
  <2> QED
    BY <1>4, <1>8, <2>2, WakeLets, Zenon DEF Received
<1>9. CASE RecvEmpty(l, c)
  <2>1. chan' \in [Channel -> ChannelState] /\ sent' \in [Channel -> Nat]
    BY <1>2, <1>9, Zenon DEF RecvEmpty, ChannelState
  <2> QED
    BY <1>5, <1>9, <2>1, RegisterWaitTidy, Zenon DEF RecvEmpty, Lets
<1>10. CASE close(c)
  <2> DEFINE e == [chan[c] EXCEPT !.closed = TRUE, !.receiver_waiter = NoLane, !.sender_waiter = NoLane]
  <2>a. e \in ChannelState
    BY <1>2, Zenon DEF ChannelState
  <2>b. chan' = [chan EXCEPT ![c] = e] /\ sent' = sent
    BY <1>10, Zenon DEF close
  <2> HIDE DEF e
  <2>1. chan' \in [Channel -> ChannelState] /\ sent' \in [Channel -> Nat]
    BY <1>2, <2>a, <2>b, Zenon
  <2> DEFINE t == Wake(sched, chan[c].receiver_waiter)
  <2>2. Tidy(t) /\ Lets(sched, t, l)
    BY <1>4, WakeLets, Zenon
  <2>3. sched' = Wake(t, chan[c].sender_waiter)
    BY <1>10, Zenon DEF close
  <2> HIDE DEF t
  <2>4. Tidy(sched') /\ Lets(t, sched', l)
    BY <1>4, <2>2, <2>3, WakeLets, Zenon
  <2> QED
    BY <2>1, <2>2, <2>4, Zenon DEF Lets, Same
<1> QED
  BY <1>3, <1>6, <1>7, <1>8, <1>9, <1>10, Zenon

LEMMA CallLets ==
    ASSUME LoopInv, NEW l \in Lane, Syscall(l)
    PROVE  /\ Tidy(sched') /\ Lets(sched, sched', l)
           /\ chan' \in [Channel -> ChannelState] /\ sent' \in [Channel -> Nat]
<1>1. CASE UNCHANGED <<sched, chan, sent>>
  BY <1>1, Zenon DEF LoopInv, LoopTypes, Lets, Same
<1>2. CASE DataCall(l)
  BY <1>2, DataCallLets, Zenon DEF LoopInv, LoopTypes, TableInv
<1>3. CASE open_channel(l)
  BY <1>1, <1>3, Zenon DEF open_channel
<1>4. CASE Handshake(l)
  BY <1>1, <1>4, Zenon DEF Handshake, request_channel, accept_channel, reject_channel, poll_channel_outcome
<1>5. CASE Lattice(l)
  BY <1>1, <1>5, Zenon DEF Lattice, gate_bind, unbind, gate_connect, gate_accept, warden_set
<1> QED
  BY <1>2, <1>3, <1>4, <1>5, Zenon DEF Syscall

(* Spawning makes the new lane ready.                                      *)
LEMMA SpawnLets ==
    ASSUME Tidy(sched), NEW l \in Lane, spawn_lane(l)
    PROVE  Tidy(sched') /\ sched'.ready[l] = 1 /\ \A k \in Lane \ {l} : Same(sched, sched', k)
<1> DEFINE s == register_lane(sched, l, "User")
<1>1. Tidy(s) /\ \A k \in Lane : Same(sched, s, k)
  BY RegisterLaneTidy, Zenon DEF WeightClass
<1>2. sched' = signal_ready(s, l)
  BY Zenon DEF spawn_lane
<1> HIDE DEF s
<1> QED
  BY <1>1, <1>2, SignalReadyTidy DEF Same

(* The clock takes lanes from their timers to the pool.                    *)
LEMMA ClockLets ==
    ASSUME Tidy(sched), sched' = advance_clock(sched, 1)
    PROVE  Tidy(sched') /\ \A l : Lets(sched, sched', l)
<1>1. PICK t \in Time : sched' = ReleaseMatured(sched, t)
  BY AdvanceClockReleases, Zenon
<1> QED
  BY <1>1, ReleaseMaturedTidy DEF Lets

(* With nobody running, a loop that is not busy has no live lane.          *)
LEMMA IdleIsOver ==
    ASSUME LoopInv, active = NoLane, batch = {}, ~busy
    PROVE  \A l \in Lane : lanes[l] # "live"
<1> SUFFICES ASSUME NEW l \in Lane, lanes[l] = "live" PROVE FALSE
  OBVIOUS
<1>1. sched.ready[l] > 0 \/ IsTimer(sched.stalled[l])
  BY NoLaneIsNoLane, Zenon DEF LoopInv, LanesAreKept, NeverStranded
<1> QED
  BY <1>1 DEF busy, has_ready, ReadyLanes, IsTimer, NotStalled

(* A step that leaves the table of lanes alone keeps the lanes, if it      *)
(* strands none but the one that runs before and after it.                 *)
LEMMA StrandsNobody ==
    ASSUME LoopInv, UNCHANGED <<lanes, batch, active>>, NEW l, Lets(sched, sched', l),
           l \in Lane => active = l
    PROVE  NeverStranded' /\ ExitedNeverRuns'
BY DEF LoopInv, LanesAreKept, NeverStranded, ExitedNeverRuns, Lets, Same

LEMMA SameTable == ASSUME TableInv, UNCHANGED table PROVE TableInv'
<1>1. UNCHANGED <<pending, accepted, handles, bound, asked, made, answer, ends>>
  BY Zenon DEF table
<1> QED
  BY <1>1, SameParties, GrowthKeepsAnswers, Zenon DEF TableInv

LEMMA LoopKept == LoopInv /\ LoopStep => LoopInv'
<1> SUFFICES ASSUME LoopInv, LoopStep PROVE LoopInv'
  OBVIOUS
<1>0. TableInv /\ Tidy(sched) /\ LoopTypes /\ NeverStranded /\ ExitedNeverRuns /\ StopsClean
  BY Zenon DEF LoopInv, LanesAreKept
<1>1. ASSUME NEW l \in Lane, SpawnSeed(l) PROVE LoopInv'
  <2>1. Tidy(sched') /\ sched'.ready[l] = 1 /\ \A k \in Lane \ {l} : Same(sched, sched', k)
    BY <1>0, <1>1, SpawnLets, Zenon DEF SpawnSeed
  <2>2. /\ pc = "setup" /\ lanes' = [lanes EXCEPT ![l] = "live"]
        /\ UNCHANGED <<chan, sent, table, batch, active, pc, passes, parks>>
    BY <1>1, Zenon DEF SpawnSeed, spawn_lane
  <2>3. LoopTypes' /\ active = NoLane
    BY <1>0, <2>2, Zenon DEF LoopTypes
  <2>4. NeverStranded' /\ ExitedNeverRuns' /\ StopsClean'
    BY <1>0, <2>1, <2>2, <2>3 DEF NeverStranded, ExitedNeverRuns, StopsClean, LoopTypes, Same
  <2> QED
    BY <1>0, <2>1, <2>2, <2>3, <2>4, SameTable, Zenon DEF LoopInv, LanesAreKept
<1>2. CASE StartLoop
  BY <1>0, <1>2, SameTable, Zenon DEF StartLoop, tableVars, LoopInv, LoopTypes, LanesAreKept, NeverStranded,
                               ExitedNeverRuns, StopsClean
<1>3. CASE Stop
  <2>1. active = NoLane /\ batch = {}
    BY <1>0, <1>3, Zenon DEF Stop, LoopTypes
  <2>2. StopsClean'
    <3>1. busy' = busy
      BY <1>3, Zenon DEF Stop, busy, tableVars
    <3> QED
      BY <1>0, <1>3, <2>1, <3>1, IdleIsOver DEF Stop, StopsClean, LoopTypes
  <2> QED
    BY <1>0, <1>3, <2>2, SameTable, Zenon DEF Stop, tableVars, LoopInv, LoopTypes, LanesAreKept, NeverStranded,
                                       ExitedNeverRuns
<1>4. CASE TakeBatch
  <2>1. PICK b \in select(sched) : batch' = b /\ sched' = take_dispatch_batch(sched, b)
    BY <1>4, Zenon DEF TakeBatch
  <2>2. b \in SUBSET Lane /\ Tidy(sched') /\ \A k \in Lane \ b : Same(sched, sched', k)
    BY <1>0, <2>1, SelectType, TakeDispatchBatchTidy, Zenon
  <2>3. /\ UNCHANGED <<chan, sent, table, lanes, active, parks>> /\ pc = "pass" /\ pc' = "lanes"
        /\ passes' = passes + 1 /\ batch = {} /\ active = NoLane
    BY <1>0, <1>4, Zenon DEF TakeBatch, LoopTypes
  <2>4. LoopTypes' /\ NeverStranded' /\ ExitedNeverRuns' /\ StopsClean'
    BY <1>0, <2>1, <2>2, <2>3 DEF LoopTypes, NeverStranded, ExitedNeverRuns, StopsClean, Same
  <2> QED
    BY <1>0, <2>2, <2>3, <2>4, SameTable, Zenon DEF LoopInv, LanesAreKept
<1>5. CASE IdlePass
  <2>1. Tidy(sched') /\ Lets(sched, sched', NoLane)
    BY <1>0, <1>5, ClockLets, Zenon DEF IdlePass
  <2>2. NeverStranded' /\ ExitedNeverRuns'
    BY <1>5, <2>1, StrandsNobody, NoLaneIsNoLane, Zenon DEF IdlePass
  <2> QED
    BY <1>0, <1>5, <2>1, <2>2, SameTable DEF IdlePass, LoopInv, LanesAreKept, LoopTypes, StopsClean
<1>6. CASE EndPass
  <2>1. Tidy(sched') /\ Lets(sched, sched', NoLane)
    BY <1>0, <1>6, ClockLets, Zenon DEF EndPass
  <2>2. NeverStranded' /\ ExitedNeverRuns'
    BY <1>6, <2>1, StrandsNobody, NoLaneIsNoLane, Zenon DEF EndPass
  <2> QED
    BY <1>0, <1>6, <2>1, <2>2, SameTable, Zenon DEF EndPass, LoopInv, LanesAreKept, LoopTypes, StopsClean
<1>7. ASSUME NEW l \in Lane, ResumeLane(l) PROVE LoopInv'
  <2>1. /\ UNCHANGED <<sched, chan, sent, table, lanes, pc, passes, parks>> /\ pc = "lanes"
        /\ batch' = batch \ {l} /\ active' = (IF lanes[l] = "live" THEN l ELSE NoLane) /\ active = NoLane
    BY <1>7, Zenon DEF ResumeLane, Resumable, tableVars
  <2>2. LoopTypes'
    BY <1>0, <2>1, Zenon DEF LoopTypes
  <2>3. ASSUME NEW k \in Lane, lanes[k] = "live", active' # k, k \notin batch'
        PROVE  k \notin batch
    BY <2>1, <2>3, Zenon
  <2>4. NeverStranded'
    BY <1>0, <2>1, <2>3, NoLaneIsNoLane, Zenon DEF NeverStranded
  <2>5. ExitedNeverRuns' /\ StopsClean'
    BY <2>1, Zenon DEF ExitedNeverRuns, StopsClean
  <2> QED
    BY <1>0, <2>1, <2>2, <2>4, <2>5, SameTable, Zenon DEF LoopInv, LanesAreKept
<1> QED
  BY <1>1, <1>2, <1>3, <1>4, <1>5, <1>6, <1>7, Zenon DEF LoopStep

LEMMA RunningKept ==
    ASSUME LoopInv, NEW l \in Lane, Yield(l) \/ Exit(l) \/ Syscall(l) \/ \E child \in Lane : Spawn(l, child)
    PROVE  LoopInv'
<1>0. /\ TableInv /\ Tidy(sched) /\ LoopTypes /\ NeverStranded /\ ExitedNeverRuns
      /\ active = l /\ pc = "lanes"
  BY NoLaneIsNoLane, Zenon DEF LoopInv, LanesAreKept, LoopTypes, Yield, Exit, Syscall, Spawn
<1>1. CASE Yield(l)
  <2> DEFINE d == saturating_add(1, ParkStep * (parks + 1))
  <2>1. d \in Time
    <3>1. \A a, b \in Nat : a * b \in Nat
      OBVIOUS
    <3>2. ParkStep * (parks + 1) \in Nat
      BY <1>0, <3>1, Ring3Constants DEF LoopTypes
    <3> QED
      BY <3>2, SchedulerConstants DEF saturating_add, Time
  <2>2. Timer(d) \in WaitResource /\ IsTimer(Timer(d))
    BY <2>1, Zenon DEF WaitResource, Timer, IsTimer
  <2>3. /\ sched' = register_wait(sched, l, Timer(d)) /\ active' = NoLane /\ parks' = parks + 1
        /\ UNCHANGED <<chan, sent, table, lanes, batch, pc, passes>>
    BY <1>1, Zenon DEF Yield, Park
  <2> HIDE DEF d
  <2>4. Tidy(sched') /\ sched'.stalled[l] = Timer(d) /\ \A k \in Lane \ {l} : Same(sched, sched', k)
    BY <1>0, <2>2, <2>3, RegisterWaitTidy, Zenon
  <2>5. LoopTypes' /\ NeverStranded' /\ ExitedNeverRuns' /\ StopsClean'
    BY <1>0, <2>2, <2>3, <2>4 DEF LoopTypes, NeverStranded, ExitedNeverRuns, StopsClean, Same
  <2> QED
    BY <1>0, <2>3, <2>4, <2>5, SameTable, Zenon DEF LoopInv, LanesAreKept
<1>2. CASE Exit(l)
  <2>1. /\ lanes' = [lanes EXCEPT ![l] = "exited"] /\ sched' = notify_complete(sched, l)
        /\ active' = NoLane /\ UNCHANGED <<chan, sent, table, batch, pc, passes, parks>>
    BY <1>2, Zenon DEF Exit
  <2>2. Tidy(sched') /\ \A k \in Lane \ {l} : Same(sched, sched', k)
    BY <1>0, <2>1, NotifyCompleteTidy, Zenon
  <2>3. LoopTypes' /\ NeverStranded' /\ ExitedNeverRuns' /\ StopsClean'
    BY <1>0, <2>1, <2>2, Zenon DEF LoopTypes, NeverStranded, ExitedNeverRuns, StopsClean, Same
  <2> QED
    BY <1>0, <2>1, <2>2, <2>3, SameTable, Zenon DEF LoopInv, LanesAreKept
<1>3. CASE Syscall(l)
  <2>1. /\ Tidy(sched') /\ Lets(sched, sched', l)
        /\ chan' \in [Channel -> ChannelState] /\ sent' \in [Channel -> Nat]
    BY <1>3, CallLets, Zenon
  <2>2. TableInv' /\ UNCHANGED loop
    BY <1>0, <1>3, CallKeepsTable, Zenon DEF Syscall
  <2>3. NeverStranded' /\ ExitedNeverRuns'
    BY <1>0, <2>1, <2>2, StrandsNobody, Zenon DEF loop
  <2> QED
    BY <1>0, <2>1, <2>2, <2>3, Zenon DEF LoopInv, LanesAreKept, LoopTypes, StopsClean, loop
<1>4. ASSUME NEW child \in Lane, Spawn(l, child) PROVE LoopInv'
  <2>1. Tidy(sched') /\ sched'.ready[child] = 1 /\ \A k \in Lane \ {child} : Same(sched, sched', k)
    BY <1>0, <1>4, SpawnLets, Zenon DEF Spawn
  <2>2. /\ lanes[child] = "absent" /\ lanes' = [lanes EXCEPT ![child] = "live"]
        /\ UNCHANGED <<chan, sent, table, batch, active, pc, passes, parks>>
    BY <1>4, Zenon DEF Spawn, spawn_lane
  <2>3. LoopTypes' /\ StopsClean'
    BY <1>0, <2>1, <2>2, Zenon DEF LoopTypes, StopsClean
  <2>4. NeverStranded'
    BY <1>0, <2>1, <2>2 DEF LoopTypes, NeverStranded, Same
  <2>5. ExitedNeverRuns'
    BY <1>0, <2>1, <2>2, Zenon DEF LoopTypes, ExitedNeverRuns, Same
  <2>6. TableInv'
    BY <1>0, <2>2, SameTable, Zenon DEF LoopInv
  <2> QED
    BY <2>1, <2>3, <2>4, <2>5, <2>6, Zenon DEF LoopInv, LanesAreKept
<1> QED
  BY <1>1, <1>2, <1>3, <1>4, Zenon

LEMMA LoopInitially == Init => LoopInv
<1> SUFFICES ASSUME Init PROVE LoopInv
  OBVIOUS
<1>1. /\ TableInit /\ lanes = [l \in Lane |-> "absent"]
      /\ batch = {} /\ active = NoLane /\ pc = "setup" /\ passes = 0 /\ parks = 0
  BY Zenon DEF Init
<1>2. /\ sched = new /\ chan = [c \in Channel |-> NewChannel] /\ sent = [c \in Channel |-> 0]
  BY <1>1, Zenon DEF TableInit
<1>3. TableInv /\ Tidy(sched)
  BY <1>1, <1>2, TableInitially, NewTidy, Zenon
<1>4. NewChannel \in ChannelState
  BY DEF NewChannel, ChannelState
<1>5. LoopTypes
  BY <1>1, <1>2, <1>4, Zenon DEF LoopTypes
<1>6. LanesAreKept
  BY <1>1, Zenon DEF LanesAreKept, NeverStranded, ExitedNeverRuns, StopsClean
<1> QED
  BY <1>3, <1>5, <1>6, Zenon DEF LoopInv

LEMMA RingStep == LoopInv /\ [Next]_vars => LoopInv'
<1> SUFFICES ASSUME LoopInv, [Next]_vars PROVE LoopInv'
  OBVIOUS
<1>1. CASE UNCHANGED vars
  <2>1. UNCHANGED <<sched, chan, sent, table, loop>>
    BY <1>1, Zenon DEF vars, tableVars
  <2>2. LoopTypes' /\ NeverStranded' /\ ExitedNeverRuns' /\ StopsClean'
    BY <2>1, Zenon DEF LoopInv, LanesAreKept, LoopTypes, NeverStranded, ExitedNeverRuns, StopsClean, busy, loop
  <2> QED
    BY <2>1, <2>2, SameTable, Zenon DEF LoopInv, LanesAreKept
<1> QED
  BY <1>1, LoopKept, RunningKept, Zenon DEF Next, Stopped

(* A ring-3 lane that has not exited is running, about to run, ready or on *)
(* a timer; an exited one never runs; and the loop ends with every lane    *)
(* exited unless its guard ends it (ring3.rs:162-279): for any lanes and   *)
(* any calls they make.                                                    *)
THEOREM LanesAreKeptHolds == Spec => []LanesAreKept
<1>1. LoopInv => LanesAreKept
  BY Zenon DEF LoopInv
<1> QED
  BY <1>1, LoopInitially, RingStep, PTL DEF Spec

(* The handle table's promises hold for ring-3 code as the loop schedules  *)
(* it, with its yields, exits and spawns between the calls (boot.rs:       *)
(* 2781-2899).                                                             *)
THEOREM TableHoldsInRing3 == Spec => [](OnlyTheParties /\ AnswersAreTrue)
<1>1. LoopInv => OnlyTheParties /\ AnswersAreTrue
  BY PartiesOnly, Zenon DEF LoopInv, TableInv, AnswersInv
<1> QED
  BY <1>1, LoopInitially, RingStep, PTL DEF Spec
=============================================================================
