-------------------------- MODULE EventStreamProofs --------------------------
(***************************************************************************)
(* The event stream, for any number of sockets, events and failures and    *)
(* for queues of any length.  The argument has four layers.                *)
(*                                                                         *)
(* OwnersInv: two handlers never come to hold the queues of one connection *)
(* id.  An id is a socket's own, taken once when its WebConn starts afresh *)
(* or once when its write pump gives it another, or it is inherited from   *)
(* the one owner there is, who is then gone.                               *)
(*                                                                         *)
(* Ring: after n messages the dead queue has the last of them, in order;   *)
(* what is looked up, resent and added is said of that ring.               *)
(*                                                                         *)
(* StreamInv: whoever holds the queues of the page's id has its next       *)
(* message under the number the page wants, and what the page can still    *)
(* read joins what it has read.                                            *)
(*                                                                         *)
(* Told: an event the page lacks is still in those queues, or a hello      *)
(* under a new id is behind it that makes the page reload, or it came      *)
(* before the first id or in a handover.                                   *)
(*                                                                         *)
(* From these follow the types, InStep, LostOnlyInHandover, and that the   *)
(* event stream implements the subscription.                               *)
(***************************************************************************)
EXTENDS EventStream, TLAPS, SequenceTheorems

Shape(r) == {"stage", "id", "listed", "active"} \subseteq DOMAIN r

\* The handlers and connections are where they are expected to be.
Wires ==
    /\ wc = [s \in Sock |-> wc[s]] /\ \A s \in Sock : Shape(wc[s])
    /\ link = [s \in Sock |-> link[s]]
    /\ nsock \in 0..MaxSockets /\ conn \in 0..nsock
    /\ \A s \in Sock : s > nsock => wc[s].stage = "none" /\ link[s] = "none"
    /\ \A s \in Sock : link[s] = "dialling" => wc[s].stage = "none"
    /\ \A s \in Sock : wc[s].stage \in {"none", "upgraded"} => ~wc[s].listed

\* A socket's own ids can be in use.
Begun(n) == wc[n].stage \notin {"none", "upgraded"}
Renamed(n) == wc[n].stage \notin {"none", "upgraded", "checked", "registered"}

OwnIds ==
    \A s \in Sock : Owner(s) =>
        /\ \A n \in Sock : wc[s].id = n => Begun(n)
        /\ \A n \in Sock : wc[s].id = MaxSockets + n => Renamed(n)

OwnersInv == Wires /\ OwnIds /\ QueuesHaveOneOwner

\* A step that makes no new owner.
LEMMA OwnersStay ==
    ASSUME OwnersInv, Wires',
           \A s \in Sock : Owner(s)' => Owner(s) /\ wc'[s].id = wc[s].id,
           \A n \in Sock : (Begun(n) => Begun(n)') /\ (Renamed(n) => Renamed(n)')
    PROVE  OwnersInv'
<1>1. OwnIds'
  BY DEF OwnersInv, OwnIds
<1>2. QueuesHaveOneOwner'
  BY DEF OwnersInv, QueuesHaveOneOwner
<1> QED
  BY <1>1, <1>2 DEF OwnersInv

LEMMA GoneShape ==
    /\ Shape(Gone) /\ Gone.stage = "ended" /\ ~Gone.listed
    /\ \A id, seq : /\ Shape(NewWebConn(id, seq)) /\ NewWebConn(id, seq).id = id
                    /\ NewWebConn(id, seq).stage = "none"
                    /\ ~NewWebConn(id, seq).listed
  BY DEF Shape, Gone, NewWebConn

-----------------------------------------------------------------------------
(***************************************************************************)
(* What one step of one handler does to it.                                *)
(***************************************************************************)
\* Handler s goes on from one stage to the next and keeps its id, or is gone;
\* nothing else changes but its connection, which may break.
LEMMA HandlerGoesOn ==
    ASSUME OwnersInv, NEW s \in Sock, NEW r, wc' = [wc EXCEPT ![s] = r],
           Shape(r), Begun(s), r.stage \notin {"none", "upgraded"},
           Renamed(s) => r.stage \notin {"checked", "registered"},
           r.stage \in Live \/ r.listed => Owner(s) /\ r.id = wc[s].id,
           link' = [link EXCEPT ![s] = "cut"] \/ link' = link,
           nsock' = nsock, conn' = conn
    PROVE  OwnersInv'
<1>1. Wires
  BY DEF OwnersInv
<1>2. wc'[s] = r /\ \A t \in Sock \ {s} : wc'[t] = wc[t]
  BY <1>1 DEF Wires
<1>3. Wires'
  BY <1>1, <1>2 DEF Wires, Begun
<1>4. \A t \in Sock : Owner(t)' => Owner(t) /\ wc'[t].id = wc[t].id
  BY <1>2 DEF Owner
<1>5. \A n \in Sock : (Begun(n) => Begun(n)') /\ (Renamed(n) => Renamed(n)')
  BY <1>2 DEF Begun, Renamed
<1> QED
  BY <1>3, <1>4, <1>5, OwnersStay

\* A handler or a connection of a page's socket that has taken no step yet.
LEMMA HandlersStay ==
    ASSUME OwnersInv, Wires', \A s \in Sock : wc'[s] = wc[s] \/ ~Owner(s)',
           \A s \in Sock : wc'[s].stage = wc[s].stage \/ wc'[s].stage = "ended"
    PROVE  OwnersInv'
<1>1. \A s \in Sock : Owner(s)' => Owner(s) /\ wc'[s].id = wc[s].id
  BY DEF Owner
<1>2. \A n \in Sock : (Begun(n) => Begun(n)') /\ (Renamed(n) => Renamed(n)')
  BY DEF Begun, Renamed
<1> QED
  BY <1>1, <1>2, OwnersStay

LEMMA ServerStep ==
    ASSUME OwnersInv, NEW s \in Sock,
           \/ Register(s) \/ WritePumpStarts(s) \/ WritePump(s)
           \/ PumpEnds(s) \/ Reap(s) \/ RegisterFails(s)
    PROVE  OwnersInv'
<1>0. Wires /\ OwnIds /\ Shape(wc[s])
  BY DEF OwnersInv, Wires
<1>1. CASE Register(s)
  <2> DEFINE r == [wc[s] EXCEPT !.stage = "registered", !.active = TRUE,
                     !.listed = TRUE,
                     !.send = IF wc[s].reused THEN @
                              ELSE Append(@, Hello(wc[s].id, posted))]
  <2>1. wc' = [wc EXCEPT ![s] = r]
    BY <1>1, <1>0 DEF Register, Wires
  <2>2. Shape(r) /\ r.id = wc[s].id /\ r.stage = "registered"
    BY <1>0 DEF Shape
  <2>3. wc[s].stage = "checked" /\ link' = link /\ nsock' = nsock /\ conn' = conn
    BY <1>1 DEF Register, clientVars
  <2> HIDE DEF r
  <2> QED
    BY <2>1, <2>2, <2>3, HandlerGoesOn DEF Begun, Renamed, Owner, Live
<1>2. CASE WritePump(s)
  <2> DEFINE m == [seq |-> wc[s].seq, hello |-> Head(wc[s].send).hello,
                   ev |-> Head(wc[s].send).ev]
             r == [wc[s] EXCEPT !.send = Tail(@), !.seq = @ + 1,
                                !.dead = AddToDeadQueue(@, wc[s].ptr, m),
                                !.ptr = NextSlot(@)]
  <2>1. wc' = [wc EXCEPT ![s] = r]
    BY <1>2, <1>0 DEF WritePump, Wires
  <2>2. Shape(r) /\ r.id = wc[s].id /\ r.stage = wc[s].stage
    BY <1>0 DEF Shape
  <2>3. wc[s].stage = "pumping" /\ link' = link /\ nsock' = nsock /\ conn' = conn
    BY <1>2 DEF WritePump, clientVars
  <2> HIDE DEF r
  <2> QED
    BY <2>1, <2>2, <2>3, HandlerGoesOn DEF Begun, Renamed, Owner, Live
<1>3. CASE PumpEnds(s)
  <2> DEFINE r == IF wc[s].listed
                  THEN [wc[s] EXCEPT !.stage = "ended", !.active = FALSE]
                  ELSE Gone
  <2>1. wc' = [wc EXCEPT ![s] = r]
    BY <1>3, <1>0 DEF PumpEnds, Wires
  <2>2. Shape(r) /\ r.stage = "ended" /\ (r.listed => wc[s].listed /\ r.id = wc[s].id)
    BY <1>0, GoneShape DEF Shape
  <2>3. /\ wc[s].stage \in {"registered", "pumping"}
        /\ link' = [link EXCEPT ![s] = "cut"] /\ nsock' = nsock /\ conn' = conn
    BY <1>3 DEF PumpEnds, clientVars
  <2> HIDE DEF r
  <2> QED
    BY <2>1, <2>2, <2>3, HandlerGoesOn DEF Begun, Renamed, Owner, Live
<1>4. CASE Reap(s) \/ RegisterFails(s)
  <2>1. /\ wc' = [wc EXCEPT ![s] = Gone] /\ Begun(s)
        /\ link' = [link EXCEPT ![s] = "cut"] \/ link' = link
        /\ nsock' = nsock /\ conn' = conn
    BY <1>0, <1>4 DEF Reap, RegisterFails, Begun, Wires, clientVars
  <2> QED
    BY <2>1, GoneShape, HandlerGoesOn DEF Live
<1>5. CASE WritePumpStarts(s)
  <2>0. wc[s].stage = "registered" /\ link' = link /\ nsock' = nsock /\ conn' = conn
    BY <1>5 DEF WritePumpStarts, clientVars
  <2>1. CASE \E i \in Slots : Resend(s, i)
    <3>1. PICK i \in Slots : Resend(s, i)
      BY <2>1
    <3> DEFINE ms == DrainDeadQueue(wc[s].dead, wc[s].ptr, i)
               r == [wc[s] EXCEPT !.stage = "pumping", !.seq = @ + Len(ms)]
    <3>2. wc' = [wc EXCEPT ![s] = r]
      BY <3>1, <1>0 DEF Resend, Wires
    <3>3. Shape(r) /\ r.id = wc[s].id /\ r.stage = "pumping"
      BY <1>0 DEF Shape
    <3> HIDE DEF r
    <3> QED
      BY <2>0, <3>2, <3>3, HandlerGoesOn DEF Begun, Renamed, Owner, Live
  <2>2. CASE wc' = [wc EXCEPT ![s].stage = "pumping"]
    <3> DEFINE r == [wc[s] EXCEPT !.stage = "pumping"]
    <3>1. wc' = [wc EXCEPT ![s] = r]
      BY <2>2, <1>0 DEF Wires
    <3>2. Shape(r) /\ r.id = wc[s].id /\ r.stage = "pumping"
      BY <1>0 DEF Shape
    <3> HIDE DEF r
    <3> QED
      BY <2>0, <3>1, <3>2, HandlerGoesOn DEF Begun, Renamed, Owner, Live
  <2>3. CASE Lost(s)
    <3> DEFINE m == [seq |-> 0, hello |-> MaxSockets + s, ev |-> Newest(s)]
               r == [wc[s] EXCEPT !.stage = "pumping", !.id = m.hello, !.seq = 1,
                       !.dead = AddToDeadQueue(ClearedDeadQueue, 0, m),
                       !.ptr = NextSlot(0)]
    <3>1. wc' = [wc EXCEPT ![s] = r]
      BY <2>3, <1>0 DEF Lost, Wires
    <3>2. Shape(r) /\ r.id = MaxSockets + s /\ r.stage = "pumping"
      BY <1>0 DEF Shape
    <3> HIDE DEF r
    <3>3. wc'[s] = r /\ \A t \in Sock \ {s} : wc'[t] = wc[t]
      BY <3>1, <1>0 DEF Wires
    <3>4. Wires'
      BY <1>0, <2>0, <3>1, <3>2, <3>3 DEF Wires
    <3>5. \A t \in Sock \ {s} : Owner(t)' => Owner(t) /\ wc'[t].id = wc[t].id
      BY <3>3 DEF Owner
    <3>6. \A n \in Sock : (Begun(n) => Begun(n)') /\ (Renamed(n) => Renamed(n)')
      BY <3>2, <3>3 DEF Begun, Renamed
    <3>7. Renamed(s)' /\ ~Renamed(s)
      BY <2>0, <3>2, <3>3 DEF Renamed
    <3>8. OwnIds'
      <4>1. ASSUME NEW t \in Sock \ {s}, Owner(t)', NEW n \in Sock
            PROVE  /\ wc'[t].id = n => Begun(n)'
                   /\ wc'[t].id = MaxSockets + n => Renamed(n)'
        BY <1>0, <3>5, <3>6, <4>1 DEF OwnIds
      <4>2. ASSUME NEW n \in Sock
            PROVE  wc'[s].id # n /\ (wc'[s].id = MaxSockets + n => Renamed(n)')
        <5>1. wc'[s].id = MaxSockets + s
          BY <3>2, <3>3
        <5>2. wc'[s].id # n
          BY <5>1, SizesOK DEF Sock
        <5>3. ASSUME wc'[s].id = MaxSockets + n PROVE Renamed(n)'
          <6>1. n = s
            BY <5>1, <5>3, SizesOK DEF Sock
          <6> QED
            BY <3>7, <6>1 DEF Renamed
        <5> QED
          BY <5>2, <5>3
      <4> QED
        BY <4>1, <4>2 DEF OwnIds
    <3>9. \A t \in Sock \ {s} : Owner(t) => wc[t].id # MaxSockets + s
      BY <1>0, <3>7 DEF OwnIds
    <3>10. QueuesHaveOneOwner'
      BY <3>2, <3>3, <3>5, <3>9 DEF OwnersInv, QueuesHaveOneOwner
    <3> QED
      BY <3>4, <3>8, <3>10 DEF OwnersInv
  <2> QED
    BY <1>5, <2>1, <2>2, <2>3 DEF WritePumpStarts
<1> QED
  BY <1>1, <1>2, <1>3, <1>4, <1>5

LEMMA CheckConnStep ==
    ASSUME OwnersInv, NEW s \in Sock, CheckConn(s) PROVE OwnersInv'
<1>0. /\ Wires /\ OwnIds /\ QueuesHaveOneOwner /\ \A t \in Sock : Shape(wc[t])
      /\ wc[s].stage = "upgraded" /\ UNCHANGED <<link, nsock, conn>>
      /\ ~Owner(s)
  BY DEF OwnersInv, Wires, CheckConn, Owner, Live, clientVars
<1>1. ASSUME NEW t \in Sock, HandOver(s, t) PROVE OwnersInv'
  <2> DEFINE r == [wc[s] EXCEPT !.stage = "checked", !.reused = TRUE,
                                !.send = wc[t].send, !.dead = wc[t].dead,
                                !.ptr = wc[t].ptr]
  <2>1. wc' = [wc EXCEPT ![t] = Gone, ![s] = r]
    BY <1>1 DEF HandOver
  <2>2. Shape(r) /\ r.id = wc[s].id /\ r.stage = "checked"
    BY <1>0 DEF Shape
  <2>3. t # s /\ wc[t].listed /\ wc[t].id = wc[s].id /\ Owner(t) /\ Begun(t)
    BY <1>0, <1>1 DEF HandOver, Inactive, Owner, Wires, Begun
  <2> HIDE DEF r
  <2>4. wc'[s] = r /\ wc'[t] = Gone /\ \A u \in Sock \ {s, t} : wc'[u] = wc[u]
    BY <1>0, <2>1, <2>3 DEF Wires
  <2>5. Wires'
    BY <1>0, <2>1, <2>2, <2>3, <2>4, GoneShape DEF Wires, Begun
  <2>6. ~Owner(t)'
    BY <2>4, GoneShape DEF Owner, Live
  <2>7. \A u \in Sock \ {s, t} : Owner(u)' => Owner(u) /\ wc'[u].id = wc[u].id
    BY <2>4 DEF Owner
  <2>8. \A n \in Sock : (Begun(n) => Begun(n)') /\ (Renamed(n) => Renamed(n)')
    BY <1>0, <2>2, <2>4, GoneShape DEF Begun, Renamed
  <2>9. wc'[s].id = wc[t].id
    BY <2>2, <2>3, <2>4
  <2>10. OwnIds'
    <3>1. ASSUME NEW u \in Sock, Owner(u)'
          PROVE  \E v \in Sock : Owner(v) /\ wc'[u].id = wc[v].id
      BY <2>3, <2>6, <2>7, <2>9, <3>1
    <3> QED
      BY <1>0, <2>8, <3>1 DEF OwnIds
  <2>11. QueuesHaveOneOwner'
    <3>1. ASSUME NEW u \in Sock \ {s}, Owner(u)' PROVE wc'[u].id # wc'[s].id
      BY <1>0, <2>3, <2>6, <2>7, <2>9, <3>1 DEF QueuesHaveOneOwner
    <3>2. ASSUME NEW u \in Sock \ {s}, NEW v \in Sock \ {s}, u # v,
                 Owner(u)', Owner(v)'
          PROVE  wc'[u].id # wc'[v].id
      BY <1>0, <2>6, <2>7, <3>2 DEF QueuesHaveOneOwner
    <3> QED
      BY <3>1, <3>2 DEF QueuesHaveOneOwner
  <2> QED
    BY <2>5, <2>10, <2>11 DEF OwnersInv
<1>2. CASE StartAfresh(s)
  <2> DEFINE r == [NewWebConn(s, 0) EXCEPT !.stage = "checked"]
  <2>1. wc' = [wc EXCEPT ![s] = r]
    BY <1>2 DEF StartAfresh
  <2>2. Shape(r) /\ r.id = s /\ r.stage = "checked"
    BY DEF Shape, NewWebConn
  <2> HIDE DEF r
  <2>3. wc'[s] = r /\ \A t \in Sock \ {s} : wc'[t] = wc[t]
    BY <1>0, <2>1 DEF Wires
  <2>4. Wires'
    BY <1>0, <2>1, <2>2, <2>3 DEF Wires
  <2>5. \A t \in Sock \ {s} : Owner(t)' => Owner(t) /\ wc'[t].id = wc[t].id
    BY <2>3 DEF Owner
  <2>6. \A n \in Sock : (Begun(n) => Begun(n)') /\ (Renamed(n) => Renamed(n)')
    BY <1>0, <2>2, <2>3 DEF Begun, Renamed
  <2>7. Begun(s)' /\ ~Begun(s)
    BY <1>0, <2>2, <2>3 DEF Begun
  <2>8. \A n \in Sock : s # MaxSockets + n
    BY SizesOK DEF Sock
  <2>9. OwnIds'
    <3>1. ASSUME NEW t \in Sock \ {s}, Owner(t)', NEW n \in Sock
          PROVE  /\ wc'[t].id = n => Begun(n)'
                 /\ wc'[t].id = MaxSockets + n => Renamed(n)'
      BY <1>0, <2>5, <2>6, <3>1 DEF OwnIds
    <3>2. ASSUME NEW n \in Sock
          PROVE  wc'[s].id # MaxSockets + n /\ (wc'[s].id = n => Begun(n)')
      BY <2>2, <2>3, <2>7, <2>8
    <3> QED
      BY <3>1, <3>2 DEF OwnIds
  <2>10. \A t \in Sock \ {s} : Owner(t) => wc[t].id # s
    BY <1>0, <2>7 DEF OwnIds
  <2>11. QueuesHaveOneOwner'
    BY <1>0, <2>2, <2>3, <2>5, <2>10 DEF QueuesHaveOneOwner
  <2> QED
    BY <2>4, <2>9, <2>11 DEF OwnersInv
<1> QED
  BY <1>1, <1>2 DEF CheckConn

\* The network, the page and the hub's broadcasts make no owner.
LEMMA OtherStep ==
    ASSUME OwnersInv, Post \/ Client \/ Restart \/ Online \/ UNCHANGED vars
                      \/ \E s \in Sock : Cut(s) \/ Upgrade(s)
    PROVE  OwnersInv'
<1>0. Wires /\ \A s \in Sock : Shape(wc[s])
  BY DEF OwnersInv, Wires
<1>1. CASE Post
  <2>1. wc' = Broadcast(posted + 1) /\ UNCHANGED <<link, nsock, conn>>
    BY <1>1 DEF Post, clientVars
  <2>2. ASSUME NEW s \in Sock
        PROVE  /\ Shape(wc'[s]) /\ wc'[s].stage = wc[s].stage
               /\ wc'[s].id = wc[s].id /\ (wc'[s].listed => wc[s].listed)
    BY <1>0, <2>1 DEF Broadcast, Shape
  <2>3. wc' = [s \in Sock |-> wc'[s]]
    BY <2>1 DEF Broadcast
  <2>4. Wires'
    BY <1>0, <2>1, <2>2, <2>3 DEF Wires
  <2> QED
    BY <2>2, <2>4, OwnersStay DEF Owner, Begun, Renamed
<1>2. CASE Restart
  <2>1. /\ wc' = [s \in Sock |-> IF wc[s].stage = "none" THEN wc[s] ELSE Gone]
        /\ link' = [s \in Sock |-> IF link[s] = "up" THEN "cut" ELSE link[s]]
        /\ nsock' = nsock /\ conn' = conn
    BY <1>2 DEF Restart, clientVars
  <2>2. Wires'
    BY <1>0, <2>1, GoneShape DEF Wires
  <2>3. \A s \in Sock : Owner(s)' => Owner(s) /\ wc'[s].id = wc[s].id
    BY <2>1, GoneShape DEF Owner, Live
  <2>4. \A n \in Sock : (Begun(n) => Begun(n)') /\ (Renamed(n) => Renamed(n)')
    BY <2>1, GoneShape DEF Begun, Renamed
  <2> QED
    BY <2>2, <2>3, <2>4, OwnersStay
<1>3. ASSUME wc' = wc, nsock' = nsock, conn' \in {0, conn},
             \/ link' = link
             \/ \E s \in 1..nsock : link' = [link EXCEPT ![s] = "cut"]
      PROVE  OwnersInv'
  <2>1. Wires'
    BY <1>0, <1>3 DEF Wires
  <2> QED
    BY <1>3, <2>1, OwnersStay DEF Owner, Begun, Renamed
<1>4. ASSUME Dial PROVE OwnersInv'
  <2>0. PICK s \in Sock : s = nsock + 1
    BY <1>0, <1>4, SizesOK DEF Dial, Wires, Sock
  <2> DEFINE r == NewWebConn(connectionId, serverSequence)
  <2>1. /\ nsock \in Nat /\ nsock' = s /\ s > nsock /\ conn' = s
        /\ link' = [link EXCEPT ![s] = "dialling"]
        /\ wc' = [wc EXCEPT ![s] = r]
    BY <1>0, <1>4, <2>0 DEF Dial, Wires
  <2>2. wc[s].stage = "none" /\ ~wc[s].listed
    BY <1>0, <2>1 DEF Wires
  <2>3. Shape(r) /\ r.stage = "none" /\ ~r.listed
    BY GoneShape
  <2> HIDE DEF r
  <2>4. wc'[s] = r /\ \A t \in Sock \ {s} : wc'[t] = wc[t]
    BY <1>0, <2>1 DEF Wires
  <2>5. Wires'
    <3>1. /\ wc' = [t \in Sock |-> wc'[t]] /\ \A t \in Sock : Shape(wc'[t])
          /\ link' = [t \in Sock |-> link'[t]]
      BY <1>0, <2>1, <2>3, <2>4 DEF Wires
    <3>2. nsock' \in 0..MaxSockets /\ conn' \in 0..nsock'
      BY <2>1, SizesOK DEF Sock
    <3>3. \A t \in Sock : t > nsock' => wc'[t].stage = "none" /\ link'[t] = "none"
      BY <1>0, <2>1, <2>4, SizesOK DEF Wires, Sock
    <3>4. \A t \in Sock : link'[t] = "dialling" => wc'[t].stage = "none"
      BY <1>0, <2>1, <2>3, <2>4 DEF Wires
    <3>5. \A t \in Sock : wc'[t].stage \in {"none", "upgraded"} => ~wc'[t].listed
      BY <1>0, <2>3, <2>4 DEF Wires
    <3> QED
      BY <3>1, <3>2, <3>3, <3>4, <3>5 DEF Wires
  <2>6. ~Owner(s) /\ ~Owner(s)'
    BY <2>2, <2>3, <2>4 DEF Owner, Live
  <2>7. \A t \in Sock : Owner(t)' => Owner(t) /\ wc'[t].id = wc[t].id
    BY <2>4, <2>6 DEF Owner
  <2>8. \A n \in Sock : (Begun(n) => Begun(n)') /\ (Renamed(n) => Renamed(n)')
    BY <2>2, <2>4 DEF Begun, Renamed
  <2> QED
    BY <2>5, <2>7, <2>8, OwnersStay
<1>5. ASSUME NEW s \in Sock, Upgrade(s) PROVE OwnersInv'
  <2> DEFINE r == [wc[s] EXCEPT !.stage = "upgraded"]
  <2>1. /\ link[s] = "dialling" /\ wc[s].stage = "none" /\ ~wc[s].listed
        /\ ~(s > nsock) /\ nsock' = nsock /\ conn' = conn
        /\ link' = [link EXCEPT ![s] = "up"] /\ wc' = [wc EXCEPT ![s] = r]
    BY <1>0, <1>5 DEF Upgrade, Wires, clientVars
  <2>2. Shape(r) /\ r.stage = "upgraded" /\ ~r.listed
    BY <1>0, <2>1 DEF Shape
  <2> HIDE DEF r
  <2>3. wc'[s] = r /\ \A t \in Sock \ {s} : wc'[t] = wc[t]
    BY <1>0, <2>1 DEF Wires
  <2>4. Wires'
    BY <1>0, <2>1, <2>2, <2>3 DEF Wires
  <2>5. \A t \in Sock : Owner(t)' => Owner(t) /\ wc'[t].id = wc[t].id
    BY <2>1, <2>2, <2>3 DEF Owner, Live
  <2>6. \A n \in Sock : (Begun(n) => Begun(n)') /\ (Renamed(n) => Renamed(n)')
    BY <2>1, <2>3 DEF Begun, Renamed
  <2> QED
    BY <2>4, <2>5, <2>6, OwnersStay
<1>6. CASE Online \/ Open \/ OnClose \/ SyncRead \/ UNCHANGED vars
  <2>1. UNCHANGED <<wc, link, nsock>> /\ conn' \in {0, conn}
    BY <1>6 DEF Online, Open, OnClose, Closed, SyncRead, vars, socketVars, clientVars
  <2> QED
    BY <1>3, <2>1
<1>7. CASE PingTimeout \/ OnMessage
  <2>1. /\ wc' = wc /\ nsock' = nsock /\ conn' \in {0, conn} /\ conn # 0
        /\ link' = link \/ link' = [link EXCEPT ![conn] = "cut"]
    BY <1>7 DEF PingTimeout, OnMessage, Closed, Abandon
  <2>2. conn \in 1..nsock
    BY <1>0, <2>1 DEF Wires
  <2> QED
    BY <1>3, <2>1, <2>2
<1>8. ASSUME NEW s \in Sock, Cut(s) PROVE OwnersInv'
  <2>1. /\ UNCHANGED <<wc, nsock, conn>> /\ link[s] # "none"
        /\ link' = [link EXCEPT ![s] = "cut"]
    BY <1>8 DEF Cut, clientVars
  <2>2. s \in 1..nsock
    BY <1>0, <2>1 DEF Wires, Sock
  <2> QED
    BY <1>3, <2>1, <2>2
<1>9. CASE Mount \/ Reconnect
  <2>1. Dial \/ UNCHANGED <<wc, link, nsock, conn>>
    BY <1>9 DEF Mount, Reconnect
  <2> QED
    BY <1>3, <1>4, <2>1
<1> QED
  BY <1>1, <1>2, <1>5, <1>6, <1>7, <1>8, <1>9 DEF Client

LEMMA OwnersStep == OwnersInv /\ [Next]_vars => OwnersInv'
  BY ServerStep, CheckConnStep, OtherStep DEF Next, Faults, Server

LEMMA OwnersInit == Init => OwnersInv
<1> SUFFICES ASSUME Init PROVE OwnersInv
  OBVIOUS
<1>1. \A s \in Sock : wc[s] = NewWebConn(0, 0)
  BY DEF Init
<1>2. wc = [s \in Sock |-> wc[s]] /\ link = [s \in Sock |-> link[s]]
  BY DEF Init
<1>3. Wires
  BY <1>1, <1>2, GoneShape, SizesOK DEF Init, Wires
<1>4. \A s \in Sock : ~Owner(s)
  BY <1>1, GoneShape DEF Owner, Live
<1> QED
  BY <1>3, <1>4 DEF OwnersInv, OwnIds, QueuesHaveOneOwner

LEMMA OwnersHold == Spec => []OwnersInv
<1>1. Init => OwnersInv
  BY OwnersInit
<1>2. OwnersInv /\ [Next]_vars => OwnersInv'
  BY OwnersStep
<1> QED
  BY <1>1, <1>2, PTL DEF Spec

(* No two WebConns hold the queues of one connection id, whatever requests *)
(* race each other (RemoveInactiveByConnectionID takes out what it finds). *)
THEOREM QueuesAreOwnedOnce == Spec => []QueuesHaveOneOwner
<1>1. OwnersInv => QueuesHaveOneOwner
  BY DEF OwnersInv
<1> QED
  BY <1>1, OwnersHold, PTL

-----------------------------------------------------------------------------
(***************************************************************************)
(* The dead queue.  When n messages have been written, their numbers 0, 1, *)
(* ..., the ring has the last of them: from slot 0 on those before the     *)
(* pointer, and behind it, once it has rolled over, the older ones.        *)
(***************************************************************************)
Ring(dq, p, n) ==
    /\ dq \in [Slots -> Message \cup {Nil}] /\ p \in Slots /\ n \in Nat
    /\ n >= p /\ (n # p => n - p >= DeadQueueSize)
    /\ \A j \in Slots : j < p => dq[j] # Nil /\ dq[j].seq = (n - p) + j
    /\ \A j \in Slots : j >= p =>
         IF n = p THEN dq[j] = Nil
         ELSE dq[j] # Nil /\ dq[j].seq = ((n - p) - DeadQueueSize) + j

\* The slot written last, and the number of the next message by it.
Before(p) == IF p = 0 THEN DeadQueueSize - 1 ELSE p - 1
NextNumber(dq, p) == IF dq[Before(p)] = Nil THEN 0 ELSE dq[Before(p)].seq + 1

InRing(dq) == {dq[j] : j \in {i \in Slots : dq[i] # Nil}}

LEMMA SlotFacts ==
    /\ DeadQueueSize \in Nat /\ DeadQueueSize >= 2
    /\ Slots = 0..(DeadQueueSize - 1) /\ 0 \in Slots
    /\ \A m \in Message : m # Nil /\ m.seq \in Nat /\ m.ev \in Nat /\ m.hello \in Nat
    /\ Nil.ev = 0
    /\ \A p \in Slots : Before(p) \in Slots /\ NextSlot(p) \in Slots
<1>1. DeadQueueSize \in Nat /\ DeadQueueSize >= 2
  BY DeadQueueSizeOK
<1>2. \A m \in Message : m # Nil /\ m.seq \in Nat /\ m.ev \in Nat /\ m.hello \in Nat
  BY DEF Message, Nil
<1>3. \A p \in Slots : Before(p) \in Slots /\ NextSlot(p) \in Slots
  BY <1>1 DEF Before, NextSlot, Slots
<1> QED
  BY <1>1, <1>2, <1>3 DEF Slots, Nil

LEMMA SlotSize ==
    /\ DeadQueueSize \in Nat /\ DeadQueueSize >= 2
    /\ Slots = 0..(DeadQueueSize - 1)
  BY SlotFacts

LEMMA Wraps ==
    ASSUME NEW x \in Nat, x < 2 * DeadQueueSize
    PROVE  x % DeadQueueSize = IF x < DeadQueueSize THEN x ELSE x - DeadQueueSize
<1>1. DeadQueueSize \in Nat /\ DeadQueueSize >= 2
  BY SlotSize
<1>2. CASE x < DeadQueueSize
  BY <1>1, <1>2
<1>3. CASE x >= DeadQueueSize
  BY <1>1, <1>3
<1> QED
  BY <1>1, <1>2, <1>3

LEMMA RingEmpty ==
    /\ Ring(ClearedDeadQueue, 0, 0)
    /\ InRing(ClearedDeadQueue) = {}
    /\ NextNumber(ClearedDeadQueue, 0) = 0
  BY SlotFacts DEF Ring, ClearedDeadQueue, InRing, NextNumber, Before

\* What the ring has, it has in a slot.
LEMMA RingMessages ==
    ASSUME NEW dq, NEW p, NEW n, Ring(dq, p, n)
    PROVE  /\ InRing(dq) \subseteq Message
           /\ \A m \in InRing(dq) : m.seq < n /\ m.seq + DeadQueueSize >= n
           /\ \A m, k \in InRing(dq) : m.seq = k.seq => m = k
           /\ NextNumber(dq, p) = n
           /\ n > 0 => dq[Before(p)] \in InRing(dq) /\ dq[Before(p)].seq = n - 1
<1>1. InRing(dq) \subseteq Message
  BY DEF Ring, InRing
<1>2. ASSUME NEW j \in Slots, dq[j] # Nil
      PROVE  /\ dq[j] \in Message
             /\ IF j < p THEN dq[j].seq = (n - p) + j
                ELSE n # p /\ dq[j].seq = ((n - p) - DeadQueueSize) + j
  <2>1. dq[j] \in Message
    BY <1>2 DEF Ring
  <2>2. CASE j < p
    BY <2>1, <2>2 DEF Ring
  <2>3. CASE ~(j < p)
    <3>1. j >= p
      BY <2>3, SlotFacts DEF Ring
    <3> QED
      BY <1>2, <2>1, <2>3, <3>1 DEF Ring
  <2> QED
    BY <2>2, <2>3
<1>0. n \in Nat /\ p \in Slots /\ n >= p /\ (n # p => n - p >= DeadQueueSize)
  BY DEF Ring
<1>3. \A m \in InRing(dq) : m.seq < n /\ m.seq + DeadQueueSize >= n
  <2> SUFFICES ASSUME NEW j \in Slots, dq[j] # Nil
               PROVE  dq[j].seq < n /\ dq[j].seq + DeadQueueSize >= n
    BY DEF InRing
  <2> QED
    BY <1>0, <1>2, SlotFacts
<1>4. \A m, k \in InRing(dq) : m.seq = k.seq => m = k
  <2> SUFFICES ASSUME NEW i \in Slots, dq[i] # Nil, NEW j \in Slots, dq[j] # Nil,
                      dq[i].seq = dq[j].seq
               PROVE  i = j
    BY DEF InRing
  <2>1. IF i < p THEN dq[i].seq = (n - p) + i
        ELSE n # p /\ dq[i].seq = ((n - p) - DeadQueueSize) + i
    BY <1>2
  <2>2. IF j < p THEN dq[i].seq = (n - p) + j
        ELSE n # p /\ dq[i].seq = ((n - p) - DeadQueueSize) + j
    BY <1>2
  <2> QED
    BY <1>0, <2>1, <2>2, SlotSize
<1>5. /\ NextNumber(dq, p) = n
      /\ n > 0 => dq[Before(p)] \in InRing(dq) /\ dq[Before(p)].seq = n - 1
  <2>0. Before(p) \in Slots
    BY <1>0, SlotFacts
  <2>1. CASE n = 0
    <3>1. p = 0 /\ Before(p) >= p
      BY <1>0, <2>0, <2>1, SlotFacts
    <3>2. dq[Before(p)] = Nil
      BY <2>0, <2>1, <3>1 DEF Ring
    <3> QED
      BY <2>1, <3>2 DEF NextNumber
  <2>2. CASE n > 0
    <3>1. dq[Before(p)] # Nil
      <4>1. CASE p = 0
        <5>1. Before(p) >= p /\ n # p
          BY <1>0, <2>0, <2>2, <4>1, SlotFacts
        <5> QED
          BY <2>0, <5>1 DEF Ring
      <4>2. CASE p # 0
        <5>1. Before(p) < p
          BY <1>0, <4>2, SlotFacts DEF Before
        <5> QED
          BY <2>0, <5>1 DEF Ring
      <4> QED
        BY <4>1, <4>2
    <3>2. dq[Before(p)].seq = n - 1
      BY <1>0, <1>2, <2>0, <3>1, SlotFacts DEF Before
    <3> QED
      BY <1>0, <2>0, <3>1, <3>2 DEF NextNumber, InRing
  <2> QED
    BY <1>0, <2>1, <2>2
<1> QED
  BY <1>1, <1>3, <1>4, <1>5

\* A message written takes the place of the one DeadQueueSize before it.
LEMMA RingAdd ==
    ASSUME NEW dq, NEW p, NEW n, Ring(dq, p, n), NEW m \in Message, m.seq = n
    PROVE  /\ Ring(AddToDeadQueue(dq, p, m), NextSlot(p), n + 1)
           /\ InRing(AddToDeadQueue(dq, p, m)) \subseteq InRing(dq) \cup {m}
           /\ m \in InRing(AddToDeadQueue(dq, p, m))
           /\ \A x \in InRing(dq) :
                x \in InRing(AddToDeadQueue(dq, p, m)) \/ x.seq + DeadQueueSize <= n
<1> DEFINE add == AddToDeadQueue(dq, p, m)
           q == NextSlot(p)
<1>0. /\ n \in Nat /\ p \in Slots /\ n >= p /\ (n # p => n - p >= DeadQueueSize)
      /\ dq \in [Slots -> Message \cup {Nil}]
  BY DEF Ring
<1>1. /\ add \in [Slots -> Message \cup {Nil}] /\ add[p] = m
      /\ \A j \in Slots : j # p => add[j] = dq[j]
  BY <1>0 DEF AddToDeadQueue
<1>2. m # Nil
  BY SlotFacts
<1>q. q \in Slots /\ q = IF p + 1 = DeadQueueSize THEN 0 ELSE p + 1
  BY <1>0, SlotFacts DEF NextSlot
<1> HIDE DEF add, q
<1>3. Ring(add, q, n + 1)
  <2>1. CASE p + 1 = DeadQueueSize
    <3>0. q = 0
      BY <1>q, <2>1
    <3>1. n + 1 \in Nat /\ n + 1 >= q /\ n + 1 # q /\ (n + 1) - q >= DeadQueueSize
      BY <1>0, <2>1, <3>0, SlotFacts
    <3>2. \A j \in Slots : ~(j < q)
      BY <3>0, SlotFacts
    <3>3. ASSUME NEW j \in Slots
          PROVE  add[j] # Nil /\ add[j].seq = (((n + 1) - q) - DeadQueueSize) + j
      <4>1. CASE j = p
        <5>1. add[j] = m /\ m.seq = n
          BY <1>1, <4>1
        <5>2. (((n + 1) - q) - DeadQueueSize) + j = n
          BY <1>0, <2>1, <3>0, <4>1, SlotSize
        <5> QED
          BY <1>2, <5>1, <5>2
      <4>2. CASE j # p
        <5>1. j < p
          BY <1>0, <2>1, <4>2, SlotFacts
        <5>2. dq[j] # Nil /\ dq[j].seq = (n - p) + j
          BY <5>1 DEF Ring
        <5> QED
          <6>1. (((n + 1) - q) - DeadQueueSize) + j = (n - p) + j
            BY <1>0, <2>1, <3>0, SlotSize
          <6> QED
            BY <1>1, <4>2, <5>2, <6>1
      <4> QED
        BY <4>1, <4>2
    <3> QED
      BY <1>1, <1>q, <3>1, <3>2, <3>3 DEF Ring
  <2>2. CASE p + 1 # DeadQueueSize
    <3>0. q = p + 1
      BY <1>q, <2>2
    <3>1. /\ n + 1 \in Nat /\ n + 1 >= q /\ (n + 1) - q = n - p
          /\ (n + 1 # q => (n + 1) - q >= DeadQueueSize) /\ (n + 1 = q <=> n = p)
      BY <1>0, <3>0, SlotFacts
    <3>2. ASSUME NEW j \in Slots, j < q
          PROVE  add[j] # Nil /\ add[j].seq = ((n + 1) - q) + j
      <4>1. CASE j = p
        <5>1. add[j] = m /\ m.seq = n
          BY <1>1, <4>1
        <5>2. ((n + 1) - q) + j = n
          BY <1>0, <3>1, <4>1, SlotSize
        <5> QED
          BY <1>2, <5>1, <5>2
      <4>2. CASE j # p
        <5>1. j < p
          BY <1>0, <3>0, <3>2, <4>2, SlotFacts
        <5>2. dq[j] # Nil /\ dq[j].seq = (n - p) + j
          BY <5>1 DEF Ring
        <5> QED
          BY <1>1, <3>1, <4>2, <5>2
      <4> QED
        BY <4>1, <4>2
    <3>3. ASSUME NEW j \in Slots, j >= q
          PROVE  IF n + 1 = q THEN add[j] = Nil
                 ELSE add[j] # Nil /\ add[j].seq = (((n + 1) - q) - DeadQueueSize) + j
      <4>1. j >= p /\ j # p
        BY <1>0, <3>0, <3>3, SlotFacts
      <4>2. IF n = p THEN dq[j] = Nil
            ELSE dq[j] # Nil /\ dq[j].seq = ((n - p) - DeadQueueSize) + j
        BY <4>1 DEF Ring
      <4> QED
        BY <1>1, <3>1, <4>1, <4>2
    <3> QED
      BY <1>1, <1>q, <3>1, <3>2, <3>3 DEF Ring
  <2> QED
    BY <2>1, <2>2
<1>4. InRing(add) \subseteq InRing(dq) \cup {m}
  BY <1>1 DEF InRing
<1>5. m \in InRing(add)
  BY <1>0, <1>1, <1>2 DEF InRing
<1>6. ASSUME NEW j \in Slots, dq[j] # Nil
      PROVE  dq[j] \in InRing(add) \/ dq[j].seq + DeadQueueSize <= n
  <2>1. CASE j # p
    BY <1>1, <1>6, <2>1 DEF InRing
  <2>2. CASE j = p
    <3>1. j >= p
      BY <2>2, SlotFacts
    <3>2. n # p /\ dq[j].seq = ((n - p) - DeadQueueSize) + j
      BY <1>6, <3>1 DEF Ring
    <3> QED
      BY <1>0, <2>2, <3>2, SlotFacts
  <2> QED
    BY <2>1, <2>2
<1> QED
  BY <1>3, <1>4, <1>5, <1>6 DEF add, q, InRing


\* What the search for a number ends in: the number is found, nothing is
\* missing, or the number is too old for the ring.
LEMMA RingSearch ==
    ASSUME NEW dq, NEW p, NEW n, Ring(dq, p, n), NEW q \in Nat, 1 <= q, q <= n
    PROVE  /\ (\A i \in Slots : ~InDeadQueue(dq, q, i)) => q = n \/ q + DeadQueueSize < n
           /\ HasMsgLoss(dq, p, q) <=> q # n
<1>0. n \in Nat /\ p \in Slots /\ n >= p /\ (n # p => n - p >= DeadQueueSize) /\ n > 0
  BY DEF Ring
<1>1. ASSUME q # n, q + DeadQueueSize >= n
      PROVE  \E i \in Slots : InDeadQueue(dq, q, i)
  <2>1. CASE n = p
    <3>1. q \in Slots /\ q < p
      BY <1>0, <1>1, <2>1, SlotSize
    <3>2. dq[q].seq = q
      BY <1>0, <2>1, <3>1, SlotSize DEF Ring
    <3>3. \A j \in Slots : j <= q => dq[j] # Nil
      BY <1>0, <3>1, SlotSize DEF Ring
    <3> QED
      BY <3>1, <3>2, <3>3 DEF InDeadQueue
  <2>2. CASE n # p
    <3> DEFINE i == IF q >= n - p THEN q - (n - p)
                    ELSE q - ((n - p) - DeadQueueSize)
    <3>1. i \in Slots
      BY <1>0, <1>1, <2>2, SlotSize
    <3>2. dq[i].seq = q
      <4>1. CASE q >= n - p
        <5>1. i < p
          BY <1>0, <1>1, <4>1, SlotSize
        <5>2. dq[i].seq = (n - p) + i
          BY <3>1, <5>1 DEF Ring
        <5> QED
          BY <1>0, <4>1, <5>2, SlotSize
      <4>2. CASE ~(q >= n - p)
        <5>1. i >= p
          BY <1>0, <1>1, <2>2, <4>2, SlotSize
        <5>2. dq[i].seq = ((n - p) - DeadQueueSize) + i
          <6> HIDE DEF i
          <6> QED
            BY <2>2, <3>1, <5>1 DEF Ring
        <5> QED
          BY <1>0, <4>2, <5>2, SlotSize
      <4> QED
        BY <4>1, <4>2
    <3>3. \A j \in Slots : dq[j] # Nil
      <4> TAKE j \in Slots
      <4>1. j < p \/ j >= p
        BY <1>0, SlotSize
      <4> QED
        BY <2>2, <4>1 DEF Ring
    <3> QED
      BY <3>1, <3>2, <3>3 DEF InDeadQueue
  <2> QED
    BY <2>1, <2>2
<1>2. HasMsgLoss(dq, p, q) <=> q # n
  <2>1. dq[Before(p)].seq = n - 1 /\ dq[Before(p)] # Nil
    <3>1. dq[Before(p)] \in InRing(dq) /\ dq[Before(p)].seq = n - 1
      BY <1>0, RingMessages
    <3> QED
      BY <3>1 DEF InRing
  <2>2. CASE p = 0
    <3>1. n # p /\ 0 >= p
      BY <1>0, <2>2
    <3>2. dq[0] # Nil
      BY <3>1, SlotSize DEF Ring
    <3> QED
      BY <1>0, <2>1, <2>2, <3>2 DEF HasMsgLoss, Before
  <2>3. CASE p # 0
    BY <1>0, <2>1, <2>3 DEF HasMsgLoss, Before
  <2> QED
    BY <2>2, <2>3
<1> QED
  BY <1>0, <1>1, <1>2, SlotSize

\* What is written again is what the ring has from number q on, in order.
LEMMA RingDrain ==
    ASSUME NEW dq, NEW p, NEW n, Ring(dq, p, n), NEW q \in Nat, NEW i \in Slots,
           InDeadQueue(dq, q, i)
    PROVE  /\ q < n /\ n <= q + DeadQueueSize
           /\ DrainDeadQueue(dq, p, i) \in Seq(Message)
           /\ Len(DrainDeadQueue(dq, p, i)) = n - q
           /\ \A k \in 1..(n - q) :
                /\ DrainDeadQueue(dq, p, i)[k] \in InRing(dq)
                /\ DrainDeadQueue(dq, p, i)[k].seq = q + (k - 1)
<1>0. n \in Nat /\ p \in Slots /\ n >= p /\ (n # p => n - p >= DeadQueueSize)
  BY DEF Ring
<1>1. dq[i].seq = q /\ dq[i] # Nil /\ dq[i] \in InRing(dq) /\ i \in Nat
  BY SlotSize DEF InDeadQueue, InRing
<1>2. q < n /\ n <= q + DeadQueueSize
  BY <1>0, <1>1, RingMessages, SlotSize
<1>3. IF i < p THEN q = (n - p) + i ELSE n # p /\ q = ((n - p) - DeadQueueSize) + i
  <2>1. i < p \/ i >= p
    BY <1>0, SlotSize
  <2> QED
    BY <1>0, <1>1, <2>1, SlotSize DEF Ring
<1>w. \A k \in 0..(DeadQueueSize - 1) :
         /\ (i + k) % DeadQueueSize \in Slots
         /\ (i + k) % DeadQueueSize = IF i + k < DeadQueueSize THEN i + k
                                      ELSE (i + k) - DeadQueueSize
  <2> TAKE k \in 0..(DeadQueueSize - 1)
  <2> DEFINE x == i + k
  <2>1. x \in Nat /\ x < 2 * DeadQueueSize
    BY SlotSize
  <2> HIDE DEF x
  <2>2. x % DeadQueueSize = IF x < DeadQueueSize THEN x ELSE x - DeadQueueSize
    BY <2>1, Wraps
  <2>3. x % DeadQueueSize \in Slots
    BY <2>1, <2>2, SlotSize
  <2> QED
    BY <2>2, <2>3 DEF x
<1> DEFINE at(k) == (i + k) % DeadQueueSize
<1>4. \A k \in 0..((n - q) - 1) :
         at(k) \in Slots /\ dq[at(k)] # Nil /\ dq[at(k)].seq = q + k
  <2> TAKE k \in 0..((n - q) - 1)
  <2>1. k \in 0..(DeadQueueSize - 1)
    BY <1>0, <1>2, SlotSize
  <2>2. /\ at(k) \in Slots
        /\ at(k) = IF i + k < DeadQueueSize THEN i + k ELSE (i + k) - DeadQueueSize
    BY <1>w, <2>1
  <2> HIDE DEF at
  <2>3. CASE at(k) < p
    <3>1. dq[at(k)] # Nil /\ dq[at(k)].seq = (n - p) + at(k)
      BY <2>2, <2>3 DEF Ring
    <3>2. (n - p) + at(k) = q + k
      <4> DEFINE a == at(k)
      <4>1. k \in Nat /\ k < DeadQueueSize /\ i < DeadQueueSize /\ n <= q + DeadQueueSize
            /\ q + k < n
        BY <1>0, <1>2, <2>1, SlotSize
      <4>2. a \in Nat /\ a < p /\ a = IF i + k < DeadQueueSize THEN i + k
                                      ELSE (i + k) - DeadQueueSize
        BY <2>2, <2>3, SlotSize
      <4>3. (n - p) + a = q + k
        <5>0. n \in Nat /\ p \in Nat /\ p < DeadQueueSize /\ i \in Nat /\ q \in Nat
              /\ DeadQueueSize \in Nat
          BY <1>0, <1>1, SlotSize
        <5> HIDE DEF a
        <5>1. CASE i < p
          <6>1. q = (n - p) + i
            BY <1>3, <5>1
          <6>2. a = i + k
            BY <4>1, <4>2, <5>0, <6>1
          <6> QED
            BY <4>1, <5>0, <6>1, <6>2
        <5>2. CASE ~(i < p)
          <6>1. q = ((n - p) - DeadQueueSize) + i
            BY <1>3, <5>2
          <6>2. a = (i + k) - DeadQueueSize
            BY <4>1, <4>2, <5>0, <5>2
          <6> QED
            BY <4>1, <5>0, <6>1, <6>2
        <5> QED
          BY <5>1, <5>2
      <4> QED
        BY <4>3
    <3> QED
      BY <2>2, <3>1, <3>2
  <2>4. CASE at(k) >= p
    <3> DEFINE a == at(k)
    <3>a. k \in Nat /\ k < DeadQueueSize /\ i < DeadQueueSize /\ n <= q + DeadQueueSize
          /\ q + k < n
      BY <1>0, <1>2, <2>1, SlotSize
    <3>b. a \in Nat /\ a >= p /\ a < DeadQueueSize
          /\ a = IF i + k < DeadQueueSize THEN i + k ELSE (i + k) - DeadQueueSize
      BY <2>2, <2>4, SlotSize
    <3>1. n # p
      <4> HIDE DEF a
      <4> QED
        BY <1>0, <1>1, <1>3, <3>a, <3>b, SlotSize
    <3>2. dq[at(k)] # Nil /\ dq[at(k)].seq = ((n - p) - DeadQueueSize) + at(k)
      BY <2>2, <2>4, <3>1 DEF Ring
    <3>3. ((n - p) - DeadQueueSize) + at(k) = q + k
      <4>1. ((n - p) - DeadQueueSize) + a = q + k
        <5> HIDE DEF a
        <5> QED
          BY <1>0, <1>1, <1>3, <3>1, <3>a, <3>b, SlotSize
      <4> QED
        BY <4>1
    <3> QED
      BY <2>2, <3>2, <3>3
  <2> QED
    <3> DEFINE a == at(k)
    <3>1. a < p \/ a >= p
      <4>1. a \in Slots
        BY <2>2
      <4> HIDE DEF a
      <4> QED
        BY <1>0, <4>1, SlotSize
    <3> QED
      BY <2>3, <2>4, <3>1
<1> HIDE DEF at
<1>5. DrainLength(dq, p, i) = n - q
  <2>1. CASE dq[p] = Nil
    <3>1. n = p
      BY <1>0, <2>1, SlotSize DEF Ring
    <3> QED
      BY <1>0, <1>1, <1>3, <2>1, <3>1, SlotSize DEF DrainLength
  <2>2. CASE dq[p] # Nil
    <3>1. n # p /\ n - p >= DeadQueueSize
      BY <1>0, <2>2, SlotSize DEF Ring
    <3> DEFINE At(k) == dq[(i + k) % DeadQueueSize].seq
               Falls(k) == At(k) > At(k + 1)
               last0 == (n - q) - 1
    <3>2. last0 \in Slots
      BY <1>0, <1>2, SlotSize
    <3>3. \A k \in 0..last0 : At(k) = q + k
      BY <1>4 DEF at
    <3>4. \A k \in Slots : k < last0 => ~Falls(k)
      <4> TAKE k \in Slots
      <4> HAVE k < last0
      <4>1. k \in 0..last0 /\ k + 1 \in 0..last0
        <5> HIDE DEF last0
        <5> QED
          BY <3>2, SlotSize
      <4>2. At(k) = q + k /\ At(k + 1) = q + (k + 1)
        BY <3>3, <4>1
      <4>3. k \in Nat
        BY SlotSize
      <4> HIDE DEF At, last0
      <4> QED
        BY <4>2, <4>3
    <3>5. Falls(last0)
      <4>1. At(last0) = n - 1
        <5>1. last0 \in 0..last0 /\ q + last0 = n - 1
          BY <1>0, <3>2, SlotSize
        <5> HIDE DEF At, last0
        <5> QED
          BY <3>3, <5>1
      <4>2. At(last0 + 1) = n - DeadQueueSize
        <5> DEFINE z == (i + (last0 + 1)) % DeadQueueSize
        <5>1. z = p
          <6>1. i + (last0 + 1) = IF i < p THEN p ELSE p + DeadQueueSize
            <7>1. i + (last0 + 1) = i + (n - q)
              BY <1>0, <1>1, SlotSize
            <7> HIDE DEF last0
            <7> QED
              BY <1>0, <1>1, <1>3, <7>1, SlotSize
          <6>2. p % DeadQueueSize = p /\ (p + DeadQueueSize) % DeadQueueSize = p
            <7>1. p \in Nat /\ p < DeadQueueSize /\ p + DeadQueueSize \in Nat
                  /\ p + DeadQueueSize < 2 * DeadQueueSize
              BY <1>0, SlotSize
            <7>2. p % DeadQueueSize = p
              BY <7>1, SlotSize
            <7> DEFINE x == p + DeadQueueSize
            <7>3. x \in Nat /\ x < 2 * DeadQueueSize /\ ~(x < DeadQueueSize)
                  /\ x - DeadQueueSize = p
              BY <1>0, <7>1, SlotSize
            <7> HIDE DEF x
            <7>4. x % DeadQueueSize = p
              BY <7>3, Wraps
            <7> QED
              BY <7>2, <7>4 DEF x
          <6> QED
            BY <6>1, <6>2
        <5>2. dq[p].seq = ((n - p) - DeadQueueSize) + p
          BY <1>0, <3>1, SlotSize DEF Ring
        <5> HIDE DEF z
        <5>3. dq[z].seq = n - DeadQueueSize
          BY <1>0, <5>1, <5>2, SlotSize
        <5> QED
          BY <5>3 DEF z
      <4> HIDE DEF At, last0
      <4> QED
        BY <1>0, <4>1, <4>2, SlotSize
    <3> HIDE DEF At
    <3>6. (CHOOSE k \in Slots : Falls(k) /\ \A j \in Slots : j < k => ~Falls(j)) = last0
      <4> HIDE DEF Falls, last0
      <4>1. \A k \in Slots : (Falls(k) /\ \A j \in Slots : j < k => ~Falls(j)) => k = last0
        BY <3>2, <3>4, <3>5, SlotSize
      <4> QED
        BY <3>2, <3>4, <3>5, <4>1
    <3>7. DrainLength(dq, p, i) = 1 + last0
      <4> HIDE DEF last0
      <4> QED
        BY <2>2, <3>6 DEF DrainLength, At
    <3> QED
      BY <1>0, <1>2, <3>7
  <2> QED
    BY <2>1, <2>2
<1> DEFINE ms == DrainDeadQueue(dq, p, i)
<1>6. ms = [k \in 1..(n - q) |-> dq[at(k - 1)]]
  <2>1. \A k \in 1..(n - q) : (i + k) - 1 = i + (k - 1)
    BY <1>0, <1>1, SlotSize
  <2> QED
    BY <1>5, <2>1 DEF DrainDeadQueue, at
<1>7. \A k \in 1..(n - q) : ms[k] \in InRing(dq) /\ ms[k].seq = q + (k - 1)
  <2> TAKE k \in 1..(n - q)
  <2>1. k - 1 \in 0..((n - q) - 1)
    BY <1>0
  <2>2. at(k - 1) \in Slots /\ dq[at(k - 1)] # Nil /\ dq[at(k - 1)].seq = q + (k - 1)
    BY <1>4, <2>1
  <2>3. ms[k] = dq[at(k - 1)]
    BY <1>6
  <2> HIDE DEF ms
  <2> QED
    BY <2>2, <2>3 DEF InRing
<1>8. ms \in Seq(Message) /\ Len(ms) = n - q
  <2>1. n - q \in Nat
    BY <1>0, <1>2
  <2>2. \A k \in 1..(n - q) : ms[k] \in Message
    BY <1>7, RingMessages
  <2> DEFINE len == n - q
  <2>3. ms = [k \in 1..len |-> ms[k]]
    BY <1>6
  <2> HIDE DEF ms, len
  <2>4. len \in Nat /\ \A k \in 1..len : ms[k] \in Message
    BY <2>1, <2>2 DEF len
  <2>5. ms \in [1..len -> Message]
    BY <2>3, <2>4
  <2> QED
    BY <2>4, <2>5 DEF len
<1> QED
  BY <1>2, <1>7, <1>8

-----------------------------------------------------------------------------
(***************************************************************************)
(* What a WebConn holds: the messages of its ring and those queued behind, *)
(* with the numbers they will be written under.                            *)
(***************************************************************************)
WebConn == [stage : {"none", "upgraded", "ended"} \cup Live,
            id : Nat, seq : Nat, reused : BOOLEAN,
            send : Seq(Item), closed : BOOLEAN,
            dead : [Slots -> Message \cup {Nil}], ptr : Slots,
            active : BOOLEAN, listed : BOOLEAN]

Num(r) == NextNumber(r.dead, r.ptr)

Numbered(n, q) ==
    {[seq |-> n + (i - 1), hello |-> q[i].hello, ev |-> q[i].ev] : i \in 1..Len(q)}

Waiting(r) == Numbered(Num(r), r.send)
Items(r) == InRing(r.dead) \cup Waiting(r)

Empty(r) == r.send = <<>> /\ r.dead = ClearedDeadQueue /\ r.ptr = 0

\* The stages of the handler of socket s, and the number its client wants.
Staged(r, s) ==
    /\ r.stage \in {"none", "upgraded"} => Empty(r) /\ ~r.listed
    /\ r.stage \in {"checked", "registered"} =>
         IF r.reused THEN r.id # 0 /\ 1 <= r.seq /\ r.seq <= Num(r)
         ELSE r.id = s /\ r.seq = 0 /\ Num(r) = 0
    /\ r.stage = "checked" => ~r.listed /\ (~r.reused => Empty(r))
    /\ r.stage = "pumping" => r.seq = Num(r)
    /\ r.listed => (r.active <=> r.stage # "ended") /\ Num(r) + Len(r.send) >= 1

\* A hello is the first message of its id; numbers and events rise together.
Sound(r, s, p) ==
    /\ r \in WebConn
    /\ Ring(r.dead, r.ptr, Num(r))
    /\ Staged(r, s)
    /\ \A m \in Items(r) :
         /\ m.hello # 0 <=> m.seq = 0
         /\ m.hello # 0 => m.hello = r.id
         /\ m.ev <= p
    /\ \A m, k \in Items(r) : m.seq < k.seq => m.ev < k.ev

\* A client that wants number q next has the events up to e, and no other.
Fits(r, q, e) ==
    /\ q <= Num(r)
    /\ \A m \in Items(r) : m.seq < q <=> m.ev <= e

-----------------------------------------------------------------------------
(***************************************************************************)
(* The invariant.  Unread is what the page can still read, StreamId the    *)
(* connection id it belongs to and Front the number behind it.             *)
(***************************************************************************)
Unread == IF conn = 0 THEN <<>> ELSE wire[conn]

StreamOf(u, c) == IF u # <<>> /\ u[1].hello # 0 THEN u[1].hello ELSE c

FrontOf(u, q) == IF u = <<>> THEN q ELSE u[1].seq + Len(u)

StreamId == StreamOf(Unread, connectionId)

Streaming(t, id) == Owner(t) /\ wc[t].id = id /\ id # 0

\* An id is known to others only when its socket's write pump has begun.
PumpHasBegun(r) == r.stage \notin {"none", "upgraded", "checked", "registered"}

KnownIn(id, w) ==
    \A n \in Sock : id = n \/ id = MaxSockets + n => PumpHasBegun(w[n])

Fresh(r) == r.stage \in {"checked", "registered"} /\ ~r.reused

Sounds == \A s \in Sock : Sound(wc[s], s, posted)

Counts ==
    /\ posted \in 0..MaxEvents /\ drops \in Nat
    /\ wire \in [Sock -> Seq(Message)]
    /\ opened \in BOOLEAN /\ armed \in BOOLEAN /\ failed \in BOOLEAN
    /\ connectionId \in Nat /\ serverSequence \in Nat
    /\ syncing \in BOOLEAN
    /\ page \subseteq 1..posted /\ last \in Nat
    /\ heard \subseteq 1..posted /\ early \subseteq 1..posted
    /\ handover \subseteq 1..posted

Links ==
    /\ wc \in [Sock -> WebConn] /\ link \in [Sock -> {"none", "dialling", "up", "cut"}]
    /\ \A s \in Sock : s # conn => wire[s] = <<>> /\ link[s] \in {"none", "cut"}
    /\ \A s \in Sock : link[s] = "up" => wc[s].stage \notin {"none", "ended"}
    /\ opened => conn # 0
    /\ conn = 0 => (syncing /\ nsock = 0) \/ (failed /\ ~opened)

Ids ==
    /\ KnownIn(connectionId, wc)
    /\ \A s \in Sock : Fresh(wc[s]) \/ KnownIn(wc[s].id, wc)
    /\ \A k \in 1..Len(Unread) : KnownIn(Unread[k].hello, wc)

\* A client that dials has read less than the owner of the queues has written.
Dialled ==
    \A s \in Sock : wc[s].stage \in {"none", "upgraded"} /\ wc[s].id # 0 =>
        /\ wc[s].seq >= 1
        /\ \A t \in Sock : Streaming(t, wc[s].id) => wc[s].seq <= Num(wc[t])

\* What a page can still read is behind what the WebConn has written.
Along(r, u, q) ==
    /\ FrontOf(u, q) <= Num(r)
    /\ \A k \in 1..Len(u) : Fits(r, u[k].seq + 1, u[k].ev)

Positions ==
    /\ last <= posted
    /\ IF connectionId = 0 THEN serverSequence = 0 ELSE serverSequence >= 1
    /\ \A t \in Sock : Streaming(t, connectionId) => Fits(wc[t], serverSequence, last)
    /\ \A t \in Sock : Streaming(t, StreamId) => Along(wc[t], Unread, serverSequence)

\* Messages that follow one another, from a hello on or without one.
Chain(u, p) ==
    /\ \A k \in 1..Len(u) :
         /\ u[k].hello # 0 <=> u[k].seq = 0
         /\ u[k].seq = u[1].seq + (k - 1)
         /\ u[k].ev <= p
    /\ \A i, k \in 1..Len(u) : i < k => u[i].ev < u[k].ev

\* The first of them follows what the page of id c has, q messages and the
\* events up to e.
Joins(m, c, q, e) ==
    IF m.hello = 0 THEN c # 0 /\ m.seq = q /\ e < m.ev
    ELSE m.hello # c /\ e <= m.ev

Row(u, c, q, e, p) == Chain(u, p) /\ (u # <<>> => Joins(u[1], c, q, e))

InRow == Row(Unread, connectionId, serverSequence, last, posted)

\* How far the server is with the page's connection.
AtPage(r, lk, u, c, q, e) ==
    /\ r.stage \in {"none", "upgraded"} => r.id = c /\ r.seq = q /\ u = <<>>
    /\ r.stage \in {"checked", "registered"} =>
         /\ u = <<>>
         /\ IF r.reused THEN r.id = c /\ r.seq = q ELSE r.id # c
    /\ r.stage = "pumping" /\ lk = "up" =>
         IF u = <<>> THEN Num(r) = (IF r.id = c THEN q ELSE 0)
         ELSE Num(r) = FrontOf(u, q)
    /\ u # <<>> /\ r # Gone => r.id = StreamOf(u, c)
    /\ \A m \in Items(r) : m.hello # 0 /\ m.hello # c => m.ev >= e

Phase ==
    conn # 0 => AtPage(wc[conn], link[conn], Unread, connectionId, serverSequence, last)

Took(r) == \A m \in Items(r) : m.hello = 0 => m.ev \in heard

HeardIs ==
    /\ \A t \in Sock : t = conn \/ Streaming(t, connectionId) => Took(wc[t])
    /\ \A k \in 1..Len(Unread) : Unread[k].hello = 0 => Unread[k].ev \in heard

StreamInv ==
    /\ Sounds /\ Counts /\ Links /\ Ids /\ Dialled /\ Positions /\ InRow /\ Phase
    /\ HeardIs

-----------------------------------------------------------------------------
(***************************************************************************)
(* What holds of one WebConn, and what each operation makes of it.         *)
(***************************************************************************)
LEMMA ItemFacts ==
    ASSUME NEW r \in WebConn, Ring(r.dead, r.ptr, Num(r))
    PROVE  /\ Num(r) \in Nat /\ Len(r.send) \in Nat
           /\ Items(r) \subseteq Message
           /\ \A m \in InRing(r.dead) : m.seq < Num(r) /\ m.seq + DeadQueueSize >= Num(r)
           /\ \A m \in Waiting(r) : Num(r) <= m.seq /\ m.seq < Num(r) + Len(r.send)
           /\ \A m, k \in Items(r) : m.seq = k.seq => m = k
<1>1. Num(r) \in Nat
  BY DEF Ring
<1>2. r.send \in Seq(Item) /\ Len(r.send) \in Nat
  BY DEF WebConn
<1>3. \A i \in 1..Len(r.send) : r.send[i] \in Item
  BY <1>2
<1>4. \A i \in 1..Len(r.send) : r.send[i].hello \in Nat /\ r.send[i].ev \in Nat
  BY <1>3 DEF Item
<1>5. \A m \in Waiting(r) : m \in Message /\ Num(r) <= m.seq /\ m.seq < Num(r) + Len(r.send)
  <2> SUFFICES ASSUME NEW i \in 1..Len(r.send)
               PROVE  /\ [seq |-> Num(r) + (i - 1), hello |-> r.send[i].hello,
                          ev |-> r.send[i].ev] \in Message
                      /\ Num(r) <= Num(r) + (i - 1)
                      /\ Num(r) + (i - 1) < Num(r) + Len(r.send)
    BY DEF Waiting, Numbered
  <2>1. Num(r) + (i - 1) \in Nat /\ Num(r) <= Num(r) + (i - 1)
        /\ Num(r) + (i - 1) < Num(r) + Len(r.send)
    BY <1>1, <1>2
  <2> QED
    BY <1>4, <2>1 DEF Message
<1>6. /\ InRing(r.dead) \subseteq Message
      /\ \A m \in InRing(r.dead) : m.seq < Num(r) /\ m.seq + DeadQueueSize >= Num(r)
      /\ \A m, k \in InRing(r.dead) : m.seq = k.seq => m = k
  BY RingMessages
<1>7. \A m, k \in Waiting(r) : m.seq = k.seq => m = k
  <2> SUFFICES ASSUME NEW i \in 1..Len(r.send), NEW j \in 1..Len(r.send),
                      Num(r) + (i - 1) = Num(r) + (j - 1)
               PROVE  i = j
    BY DEF Waiting, Numbered
  <2> QED
    BY <1>1, <1>2
<1>8. \A m \in InRing(r.dead), k \in Waiting(r) : m.seq # k.seq
  <2> SUFFICES ASSUME NEW m \in InRing(r.dead), NEW k \in Waiting(r) PROVE m.seq # k.seq
    OBVIOUS
  <2>1. m.seq \in Nat /\ k.seq \in Nat /\ m.seq < Num(r) /\ Num(r) <= k.seq
    BY <1>5, <1>6 DEF Message
  <2> QED
    BY <1>1, <2>1
<1> QED
  BY <1>1, <1>2, <1>5, <1>6, <1>7, <1>8 DEF Items

LEMMA SoundFacts ==
    ASSUME NEW r, NEW s, NEW p, Sound(r, s, p)
    PROVE  /\ r \in WebConn /\ Ring(r.dead, r.ptr, Num(r)) /\ Staged(r, s)
           /\ Num(r) \in Nat /\ Len(r.send) \in Nat
           /\ Items(r) \subseteq Message
           /\ \A m \in Items(r) : m.seq \in Nat /\ m.ev \in Nat
           /\ \A m \in InRing(r.dead) : m.seq < Num(r) /\ m.seq + DeadQueueSize >= Num(r)
           /\ \A m \in Waiting(r) : Num(r) <= m.seq /\ m.seq < Num(r) + Len(r.send)
           /\ \A m, k \in Items(r) : m.seq = k.seq => m = k
<1>1. r \in WebConn /\ Ring(r.dead, r.ptr, Num(r)) /\ Staged(r, s)
  BY DEF Sound
<1>2. Items(r) \subseteq Message
  BY <1>1, ItemFacts
<1>3. \A m \in Items(r) : m.seq \in Nat /\ m.ev \in Nat
  BY <1>2, SlotFacts
<1> QED
  BY <1>1, <1>2, <1>3, ItemFacts

LEMMA NumberedAppend ==
    ASSUME NEW n \in Nat, NEW q \in Seq(Item), NEW x \in Item
    PROVE  Numbered(n, Append(q, x)) =
             Numbered(n, q) \cup {[seq |-> n + Len(q), hello |-> x.hello, ev |-> x.ev]}
<1> DEFINE a == Append(q, x)
           len == Len(q)
<1>1. /\ len \in Nat /\ Len(a) = len + 1 /\ a[len + 1] = x
      /\ \A i \in 1..len : a[i] = q[i]
  OBVIOUS
<1> DEFINE E(i) == [seq |-> n + (i - 1), hello |-> a[i].hello, ev |-> a[i].ev]
<1>2. Numbered(n, a) = {E(i) : i \in 1..(len + 1)}
  BY <1>1 DEF Numbered
<1>3. E(len + 1) = [seq |-> n + len, hello |-> x.hello, ev |-> x.ev]
  <2>1. n + ((len + 1) - 1) = n + len
    BY <1>1
  <2> QED
    BY <1>1, <2>1
<1>4. Numbered(n, q) = {E(i) : i \in 1..len}
  BY <1>1 DEF Numbered
<1>5. 1..(len + 1) = 1..len \cup {len + 1}
  BY <1>1
<1> HIDE DEF a, len, E
<1>6. {E(i) : i \in 1..(len + 1)} = {E(i) : i \in 1..len} \cup {E(len + 1)}
  BY <1>5
<1> QED
  BY <1>2, <1>3, <1>4, <1>6 DEF a, len

LEMMA NumberedTail ==
    ASSUME NEW n \in Nat, NEW q \in Seq(Item), q # <<>>
    PROVE  /\ Tail(q) \in Seq(Item) /\ Len(Tail(q)) = Len(q) - 1 /\ Len(q) >= 1
           /\ Head(q) = q[1] /\ Head(q) \in Item
           /\ Numbered(n, q) = {[seq |-> n, hello |-> Head(q).hello, ev |-> Head(q).ev]}
                               \cup Numbered(n + 1, Tail(q))
<1> DEFINE t == Tail(q)
           len == Len(q)
<1>1. /\ len \in Nat /\ len >= 1 /\ t \in Seq(Item) /\ Len(t) = len - 1
      /\ Head(q) = q[1] /\ q[1] \in Item
      /\ \A i \in 1..(len - 1) : t[i] = q[i + 1]
  OBVIOUS
<1> DEFINE E(i) == [seq |-> n + (i - 1), hello |-> q[i].hello, ev |-> q[i].ev]
           F(i) == [seq |-> (n + 1) + (i - 1), hello |-> t[i].hello, ev |-> t[i].ev]
<1>2. Numbered(n, q) = {E(i) : i \in 1..len}
  BY DEF Numbered
<1>3. Numbered(n + 1, t) = {F(i) : i \in 1..(len - 1)}
  BY <1>1 DEF Numbered
<1>4. E(1) = [seq |-> n, hello |-> Head(q).hello, ev |-> Head(q).ev]
  <2>1. n + (1 - 1) = n
    OBVIOUS
  <2> QED
    BY <1>1, <2>1
<1>5. \A i \in 1..(len - 1) : F(i) = E(i + 1)
  <2> TAKE i \in 1..(len - 1)
  <2>1. (n + 1) + (i - 1) = n + ((i + 1) - 1)
    BY <1>1
  <2> QED
    BY <1>1, <2>1
<1>6. \A i \in 1..len : i = 1 \/ (i - 1 \in 1..(len - 1) /\ (i - 1) + 1 = i)
  BY <1>1
<1>7. \A i \in 1..(len - 1) : i + 1 \in 1..len
  BY <1>1
<1>8. 1 \in 1..len
  BY <1>1
<1> HIDE DEF t, len, E, F
<1>9. {E(i) : i \in 1..len} = {E(1)} \cup {F(i) : i \in 1..(len - 1)}
  <2>1. ASSUME NEW i \in 1..len PROVE E(i) \in {E(1)} \cup {F(k) : k \in 1..(len - 1)}
    <3>1. CASE i = 1
      BY <3>1
    <3>2. CASE i - 1 \in 1..(len - 1) /\ (i - 1) + 1 = i
      <4>1. F(i - 1) = E(i)
        BY <1>5, <3>2
      <4> QED
        BY <3>2, <4>1
    <3> QED
      BY <1>6, <3>1, <3>2
  <2>2. ASSUME NEW i \in 1..(len - 1) PROVE F(i) \in {E(k) : k \in 1..len}
    BY <1>5, <1>7
  <2> QED
    BY <1>8, <2>1, <2>2
<1> QED
  BY <1>1, <1>2, <1>3, <1>4, <1>9 DEF t, len

\* A WebConn with nothing written and nothing queued.
LEMMA SoundEmpty ==
    ASSUME NEW r \in WebConn, Empty(r), NEW s, NEW p, Staged(r, s)
    PROVE  Sound(r, s, p) /\ Num(r) = 0 /\ Items(r) = {}
<1>1. Num(r) = 0 /\ InRing(r.dead) = {} /\ Ring(r.dead, r.ptr, Num(r))
  BY RingEmpty DEF Empty, Num
<1>2. Waiting(r) = {}
  BY DEF Empty, Waiting, Numbered
<1>3. Items(r) = {}
  BY <1>1, <1>2 DEF Items
<1> QED
  BY <1>1, <1>3 DEF Sound

\* The same queues under the same id.
LEMMA SoundSame ==
    ASSUME NEW r, NEW r2 \in WebConn, NEW s, NEW t, NEW p \in Nat, NEW p2 \in Nat, p <= p2,
           Sound(r, t, p), r2.send = r.send, r2.dead = r.dead, r2.ptr = r.ptr
    PROVE  /\ Num(r2) = Num(r) /\ Items(r2) = Items(r) /\ Waiting(r2) = Waiting(r)
           /\ r2.id = r.id /\ Staged(r2, s) => Sound(r2, s, p2)
<1>1. Num(r2) = Num(r)
  BY DEF Num
<1>2. Waiting(r2) = Waiting(r) /\ Items(r2) = Items(r)
  BY <1>1 DEF Waiting, Items
<1>3. ASSUME r2.id = r.id, Staged(r2, s) PROVE Sound(r2, s, p2)
  <2>1. \A m \in Items(r) : m.ev \in Nat /\ m.ev <= p
    BY SoundFacts DEF Sound
  <2>2. \A m \in Items(r2) : m.ev <= p2
    <3>1. \A x \in Nat : x <= p => x <= p2
      OBVIOUS
    <3> QED
      BY <1>2, <2>1, <3>1
  <2> QED
    BY <1>1, <1>2, <1>3, <2>2 DEF Sound
<1> QED
  BY <1>1, <1>2, <1>3

\* What an item or a message of the ring is to the messages around it.
LEMMA SoundFits ==
    ASSUME NEW r, NEW s, NEW p, Sound(r, s, p), NEW m \in InRing(r.dead)
    PROVE  Fits(r, m.seq + 1, m.ev)
<1>1. /\ Items(r) \subseteq Message /\ Num(r) \in Nat
      /\ \A x \in Items(r) : x.seq \in Nat /\ x.ev \in Nat
      /\ \A x, k \in Items(r) : x.seq = k.seq => x = k
      /\ \A x, k \in Items(r) : x.seq < k.seq => x.ev < k.ev
      /\ m.seq < Num(r) /\ m \in Items(r)
  BY SoundFacts DEF Sound, Items
<1>2. ASSUME NEW x \in Items(r) PROVE x.seq < m.seq + 1 <=> x.ev <= m.ev
  <2>1. x.seq \in Nat /\ x.ev \in Nat /\ m.seq \in Nat /\ m.ev \in Nat
    BY <1>1
  <2>2. CASE x.seq < m.seq
    BY <1>1, <2>1, <2>2
  <2>3. CASE x.seq = m.seq
    BY <1>1, <2>1, <2>3
  <2>4. CASE m.seq < x.seq
    BY <1>1, <2>1, <2>4
  <2> QED
    BY <2>1, <2>2, <2>3, <2>4
<1>3. m.seq + 1 <= Num(r)
  BY <1>1
<1> QED
  BY <1>2, <1>3 DEF Fits

\* A newer event queued behind everything else.
LEMMA SoundQueued ==
    ASSUME NEW r, NEW s, NEW p \in Nat, Sound(r, s, p), r.listed,
           NEW r2, r2 = [r EXCEPT !.send = Append(@, [hello |-> 0, ev |-> p + 1])]
    PROVE  /\ Sound(r2, s, p + 1) /\ Num(r2) = Num(r)
           /\ Items(r2) = Items(r) \cup
                {[seq |-> Num(r) + Len(r.send), hello |-> 0, ev |-> p + 1]}
           /\ Waiting(r2) = Waiting(r) \cup
                {[seq |-> Num(r) + Len(r.send), hello |-> 0, ev |-> p + 1]}
<1> DEFINE x == [hello |-> 0, ev |-> p + 1]
           m == [seq |-> Num(r) + Len(r.send), hello |-> 0, ev |-> p + 1]
<1>0. /\ r \in WebConn /\ Ring(r.dead, r.ptr, Num(r)) /\ Staged(r, s)
      /\ Num(r) \in Nat /\ Len(r.send) \in Nat
      /\ \A k \in Items(r) : k.seq \in Nat /\ k.ev \in Nat /\ k.ev <= p
      /\ \A k \in InRing(r.dead) : k.seq < Num(r)
      /\ \A k \in Waiting(r) : k.seq < Num(r) + Len(r.send)
  BY SoundFacts DEF Sound
<1>1. x \in Item /\ r.send \in Seq(Item)
  BY <1>0 DEF Item, WebConn
<1>2. /\ r2.send = Append(r.send, x) /\ r2.dead = r.dead /\ r2.ptr = r.ptr
      /\ r2.id = r.id /\ r2.stage = r.stage /\ r2.seq = r.seq /\ r2.reused = r.reused
      /\ r2.active = r.active /\ r2.listed = r.listed
      /\ Append(r.send, x) \in Seq(Item) => r2 \in WebConn
  BY <1>0 DEF WebConn
<1>3. r2.send \in Seq(Item) /\ Len(r2.send) = Len(r.send) + 1 /\ r2 \in WebConn
  BY <1>1, <1>2
<1>4. Num(r2) = Num(r)
  BY <1>2 DEF Num
<1>5. Waiting(r2) = Waiting(r) \cup {m}
  <2>1. Numbered(Num(r), Append(r.send, x)) = Numbered(Num(r), r.send)
          \cup {[seq |-> Num(r) + Len(r.send), hello |-> x.hello, ev |-> x.ev]}
    BY <1>0, <1>1, NumberedAppend
  <2> QED
    BY <1>2, <1>4, <2>1 DEF Waiting
<1>6. Items(r2) = Items(r) \cup {m}
  BY <1>2, <1>5 DEF Items
<1>7. \A k \in Items(r) : k.seq < m.seq /\ k.ev < m.ev
  BY <1>0 DEF Items
<1>8. m.seq \in Nat /\ m.seq > 0 /\ m.ev = p + 1 /\ m.hello = 0
  BY <1>0 DEF Staged
<1> HIDE DEF m, x
<1>9. Staged(r2, s)
  <2>1. r.stage \notin {"none", "upgraded", "checked"}
    BY <1>0 DEF Staged
  <2> QED
    BY <1>0, <1>2, <1>3, <1>4, <2>1 DEF Staged
<1>10. \A k \in Items(r2) : /\ k.hello # 0 <=> k.seq = 0
                            /\ k.hello # 0 => k.hello = r2.id
                            /\ k.ev <= p + 1
  <2>1. \A k \in Items(r) : /\ k.hello # 0 <=> k.seq = 0
                            /\ k.hello # 0 => k.hello = r.id
    BY DEF Sound
  <2>2. \A k \in Items(r) : k.ev <= p + 1
    BY <1>0
  <2> QED
    BY <1>2, <1>6, <1>8, <2>1, <2>2
<1>11. \A k, l \in Items(r2) : k.seq < l.seq => k.ev < l.ev
  <2> SUFFICES ASSUME NEW k \in Items(r2), NEW l \in Items(r2), k.seq < l.seq
               PROVE  k.ev < l.ev
    OBVIOUS
  <2>1. CASE k \in Items(r) /\ l \in Items(r)
    BY <2>1 DEF Sound
  <2>2. CASE k = m
    <3>1. l = m \/ l.seq < k.seq
      BY <1>6, <1>7, <2>2
    <3>2. l.seq \in Nat /\ k.seq \in Nat
      BY <1>0, <1>6, <1>8, <2>2
    <3> QED
      BY <2>2, <3>1, <3>2
  <2>3. CASE k \in Items(r) /\ l = m
    BY <1>7, <2>3
  <2> QED
    BY <1>6, <2>1, <2>2, <2>3
<1>12. Ring(r2.dead, r2.ptr, Num(r2))
  BY <1>0, <1>2, <1>4
<1> QED
  BY <1>3, <1>4, <1>5, <1>6, <1>9, <1>10, <1>11, <1>12 DEF Sound, m

\* The write pump writes the first message that waits.
NextMessage(r) == [seq |-> r.seq, hello |-> Head(r.send).hello, ev |-> Head(r.send).ev]

AfterWrite(r, m) ==
    [r EXCEPT !.send = Tail(r.send), !.seq = r.seq + 1,
              !.dead = AddToDeadQueue(r.dead, r.ptr, m), !.ptr = NextSlot(r.ptr)]

LEMMA SoundWrite ==
    ASSUME NEW r, NEW s, NEW p, Sound(r, s, p), r.stage = "pumping", r.send # <<>>,
           NEW m, m = NextMessage(r), NEW r2, r2 = AfterWrite(r, m)
    PROVE  /\ Sound(r2, s, p) /\ Num(r2) = Num(r) + 1 /\ Items(r2) \subseteq Items(r)
           /\ m \in Items(r) /\ m \in InRing(r2.dead) /\ m.seq = Num(r)
           /\ m \in Waiting(r) /\ Waiting(r) = {m} \cup Waiting(r2)
           /\ \A x \in Items(r) : x \in Items(r2) \/ x.seq + DeadQueueSize <= Num(r)
<1>0. /\ r \in WebConn /\ Ring(r.dead, r.ptr, Num(r)) /\ Staged(r, s)
      /\ Num(r) \in Nat /\ Len(r.send) \in Nat /\ r.seq = Num(r)
  BY SoundFacts DEF Staged
<1>1. r.send \in Seq(Item)
  BY <1>0 DEF WebConn
<1>2. /\ Tail(r.send) \in Seq(Item) /\ Len(Tail(r.send)) = Len(r.send) - 1
      /\ Len(r.send) >= 1 /\ Head(r.send) \in Item
      /\ Waiting(r) = {m} \cup Numbered(Num(r) + 1, Tail(r.send))
  BY <1>0, <1>1, NumberedTail DEF Waiting, NextMessage
<1>3. m \in Message /\ m.seq = Num(r)
  BY <1>0, <1>2 DEF Message, Item, NextMessage
<1> DEFINE add == AddToDeadQueue(r.dead, r.ptr, m)
           q == NextSlot(r.ptr)
<1>4. /\ Ring(add, q, Num(r) + 1) /\ InRing(add) \subseteq InRing(r.dead) \cup {m}
      /\ m \in InRing(add)
      /\ \A x \in InRing(r.dead) : x \in InRing(add) \/ x.seq + DeadQueueSize <= Num(r)
  BY <1>0, <1>3, RingAdd
<1>5. NextNumber(add, q) = Num(r) + 1
  BY <1>4, RingMessages
<1>6. add \in [Slots -> Message \cup {Nil}] /\ q \in Slots
  BY <1>4 DEF Ring
<1> HIDE DEF add, q
<1>7. r2 = [r EXCEPT !.send = Tail(r.send), !.seq = r.seq + 1, !.dead = add, !.ptr = q]
  BY DEF add, q, AfterWrite
<1>8. /\ r2.send = Tail(r.send) /\ r2.dead = add /\ r2.ptr = q /\ r2.seq = Num(r) + 1
      /\ r2.id = r.id /\ r2.stage = "pumping" /\ r2.reused = r.reused
      /\ r2.active = r.active /\ r2.listed = r.listed
  BY <1>0, <1>7 DEF WebConn
<1>9. r2 \in WebConn
  <2>1. r.seq + 1 \in Nat
    BY <1>0
  <2> HIDE DEF Item, Message, Nil
  <2> QED
    BY <1>0, <1>2, <1>6, <1>7, <2>1 DEF WebConn
<1>10. Num(r2) = Num(r) + 1
  BY <1>5, <1>8 DEF Num
<1>11. Waiting(r) = {m} \cup Waiting(r2)
  BY <1>2, <1>8, <1>10 DEF Waiting
<1>12. /\ Items(r2) \subseteq Items(r) /\ m \in Items(r)
       /\ \A x \in Items(r) : x \in Items(r2) \/ x.seq + DeadQueueSize <= Num(r)
  BY <1>4, <1>8, <1>11 DEF Items
<1>13. Staged(r2, s)
  BY <1>0, <1>2, <1>8, <1>10 DEF Staged
<1>14. Ring(r2.dead, r2.ptr, Num(r2))
  BY <1>4, <1>8, <1>10
<1>15. Sound(r2, s, p)
  BY <1>8, <1>9, <1>12, <1>13, <1>14 DEF Sound
<1> QED
  BY <1>3, <1>4, <1>8, <1>10, <1>11, <1>12, <1>15

\* A message loss: the ring starts again with a hello under a new id.
FirstHello(r, id) == [seq |-> 0, hello |-> id, ev |-> r.dead[Before(r.ptr)].ev]

AfterLoss(r, id, m) ==
    [r EXCEPT !.stage = "pumping", !.id = id, !.seq = 1,
              !.dead = AddToDeadQueue(ClearedDeadQueue, 0, m), !.ptr = NextSlot(0)]

LEMMA SoundLost ==
    ASSUME NEW r, NEW s, NEW p \in Nat, Sound(r, s, p), r.stage = "registered",
           r.seq # 0, NEW id \in Nat \ {0},
           NEW m, m = FirstHello(r, id), NEW r2, r2 = AfterLoss(r, id, m)
    PROVE  /\ Sound(r2, s, p) /\ Num(r2) = 1 /\ m \in Message
           /\ m \in InRing(r2.dead) /\ Items(r2) = {m} \cup Waiting(r2)
           /\ \A x \in Waiting(r2) : /\ x.hello = 0
                                     /\ \E k \in Waiting(r) : k.ev = x.ev /\ k.hello = 0
           /\ \A k \in Waiting(r) : \E x \in Waiting(r2) : k.ev = x.ev /\ x.hello = 0
           /\ r.dead[Before(r.ptr)] \in InRing(r.dead)
           /\ r.dead[Before(r.ptr)].seq = Num(r) - 1
<1> DEFINE new == r.dead[Before(r.ptr)]
<1>0. /\ r \in WebConn /\ Ring(r.dead, r.ptr, Num(r)) /\ Staged(r, s)
      /\ Num(r) \in Nat /\ Len(r.send) \in Nat
      /\ \A k \in Items(r) : k.seq \in Nat /\ k.ev \in Nat
  BY SoundFacts
<1>1. r.reused /\ Num(r) >= 1 /\ r.id # 0
  BY <1>0 DEF Staged, WebConn
<1>2. new \in InRing(r.dead) /\ new.seq = Num(r) - 1
  BY <1>0, <1>1, RingMessages
<1>3. new \in Items(r) /\ new.ev \in Nat /\ new.ev <= p
  BY <1>0, <1>2 DEF Items, Sound
<1>4. m \in Message /\ m.seq = 0 /\ m.hello = id /\ m.ev = new.ev
  BY <1>3 DEF Message, FirstHello
<1> HIDE DEF new
<1> DEFINE add == AddToDeadQueue(ClearedDeadQueue, 0, m)
           q == NextSlot(0)
<1>5. /\ Ring(add, q, 0 + 1) /\ InRing(add) \subseteq {m} /\ m \in InRing(add)
  BY <1>4, RingEmpty, RingAdd
<1>6. NextNumber(add, q) = 1 /\ InRing(add) = {m}
  BY <1>5, RingMessages
<1>7. add \in [Slots -> Message \cup {Nil}] /\ q \in Slots
  BY <1>5 DEF Ring
<1> HIDE DEF add, q
<1>8. r2 = [r EXCEPT !.stage = "pumping", !.id = id, !.seq = 1, !.dead = add, !.ptr = q]
  BY DEF add, q, AfterLoss
<1>9. /\ r2.send = r.send /\ r2.dead = add /\ r2.ptr = q /\ r2.seq = 1
      /\ r2.id = id /\ r2.stage = "pumping" /\ r2.reused = r.reused
      /\ r2.active = r.active /\ r2.listed = r.listed
  BY <1>0, <1>8 DEF WebConn
<1>10. r2 \in WebConn
  <2> DEFINE Stages == {"none", "upgraded", "ended"} \cup Live
  <2>1. "pumping" \in Stages
    BY DEF Live
  <2>2. id \in Nat /\ 1 \in Nat
    OBVIOUS
  <2> HIDE DEF Item, Message, Nil, Stages
  <2> QED
    BY <1>0, <1>7, <1>8, <2>1, <2>2 DEF WebConn, Stages
<1>11. Num(r2) = 1 /\ InRing(r2.dead) = {m} /\ Items(r2) = {m} \cup Waiting(r2)
       /\ Ring(r2.dead, r2.ptr, Num(r2))
  BY <1>5, <1>6, <1>9 DEF Num, Items
<1> DEFINE Old(i) == [seq |-> Num(r) + (i - 1), hello |-> r.send[i].hello, ev |-> r.send[i].ev]
           New(i) == [seq |-> 1 + (i - 1), hello |-> r.send[i].hello, ev |-> r.send[i].ev]
<1>12. Waiting(r) = {Old(i) : i \in 1..Len(r.send)} /\ Waiting(r2) = {New(i) : i \in 1..Len(r.send)}
  BY <1>9, <1>11 DEF Waiting, Numbered
<1>13. \A i \in 1..Len(r.send) :
          /\ Old(i) \in Items(r) /\ Old(i).hello = 0 /\ New(i).hello = 0
          /\ Old(i).ev = r.send[i].ev /\ New(i).ev = r.send[i].ev
          /\ New(i).seq = i /\ Old(i).seq = Num(r) + (i - 1)
          /\ new.ev < r.send[i].ev /\ r.send[i].ev <= p /\ r.send[i].ev \in Nat
  <2> TAKE i \in 1..Len(r.send)
  <2>1. Old(i) \in Items(r) /\ Old(i).seq = Num(r) + (i - 1) /\ Old(i).ev = r.send[i].ev
    BY <1>12 DEF Items
  <2>2. Old(i).seq # 0 /\ new.seq < Old(i).seq
    BY <1>0, <1>1, <1>2, <2>1
  <2>3. Old(i).hello = 0 /\ new.ev < Old(i).ev /\ Old(i).ev <= p
    BY <1>3, <2>1, <2>2 DEF Sound
  <2>4. Old(i).ev \in Nat
    BY <1>0, <2>1
  <2>5. New(i).seq = i
    BY <1>0
  <2> QED
    BY <2>1, <2>2, <2>3, <2>4, <2>5
<1>14. \A i, j \in 1..Len(r.send) : i < j => r.send[i].ev < r.send[j].ev
  <2> TAKE i, j \in 1..Len(r.send)
  <2> HAVE i < j
  <2>1. Old(i).seq = Num(r) + (i - 1) /\ Old(j).seq = Num(r) + (j - 1)
    BY <1>13
  <2>2. Old(i).seq < Old(j).seq
    BY <1>0, <2>1
  <2>3. Old(i) \in Items(r) /\ Old(j) \in Items(r)
    BY <1>13
  <2>4. Old(i).ev < Old(j).ev
    <3> HIDE DEF Old
    <3> QED
      BY <2>2, <2>3 DEF Sound
  <2> QED
    BY <1>13, <2>4
<1> HIDE DEF Old, New
<1>15. \A x \in Items(r2) : /\ x.hello # 0 <=> x.seq = 0
                            /\ x.hello # 0 => x.hello = r2.id
                            /\ x.ev <= p
  <2>1. \A i \in 1..Len(r.send) : New(i).hello = 0 /\ New(i).seq # 0 /\ New(i).ev <= p
    <3> TAKE i \in 1..Len(r.send)
    <3>1. New(i).hello = 0 /\ New(i).seq = i /\ New(i).ev = r.send[i].ev /\ r.send[i].ev <= p
      BY <1>13
    <3>2. i # 0
      OBVIOUS
    <3> QED
      BY <3>1, <3>2
  <2> QED
    BY <1>3, <1>4, <1>9, <1>11, <1>12, <2>1
<1>16. \A x, y \in Items(r2) : x.seq < y.seq => x.ev < y.ev
  <2> SUFFICES ASSUME NEW x \in Items(r2), NEW y \in Items(r2), x.seq < y.seq
               PROVE  x.ev < y.ev
    OBVIOUS
  <2>1. CASE x = m
    <3>1. y # m
      BY <1>4, <2>1
    <3>2. PICK j \in 1..Len(r.send) : y = New(j)
      BY <1>11, <1>12, <3>1
    <3> QED
      BY <1>4, <1>13, <2>1, <3>2
  <2>2. CASE x # m
    <3>1. PICK i \in 1..Len(r.send) : x = New(i)
      BY <1>11, <1>12, <2>2
    <3>2. y # m
      BY <1>0, <1>4, <1>13, <3>1
    <3>3. PICK j \in 1..Len(r.send) : y = New(j)
      BY <1>11, <1>12, <3>2
    <3> QED
      BY <1>13, <1>14, <3>1, <3>3
  <2> QED
    BY <2>1, <2>2
<1>17. Staged(r2, s)
  <2>1. r.listed => r.active
    BY <1>0 DEF Staged
  <2> QED
    BY <1>0, <1>9, <1>11, <2>1 DEF Staged, WebConn
<1>18. Sound(r2, s, p)
  BY <1>10, <1>11, <1>15, <1>16, <1>17 DEF Sound
<1>19. /\ \A x \in Waiting(r2) : /\ x.hello = 0
                                 /\ \E k \in Waiting(r) : k.ev = x.ev /\ k.hello = 0
       /\ \A k \in Waiting(r) : \E x \in Waiting(r2) : k.ev = x.ev /\ x.hello = 0
  BY <1>12, <1>13
<1> QED
  BY <1>2, <1>4, <1>11, <1>18, <1>19 DEF new

\* A WebConn that registers: a fresh one is queued its hello.
LEMMA SoundRegistered ==
    ASSUME NEW r, NEW s \in Nat \ {0}, NEW p \in Nat, Sound(r, s, p), r.stage = "checked",
           NEW r2 \in WebConn, r2.stage = "registered", r2.active, r2.listed,
           r2.id = r.id, r2.seq = r.seq, r2.reused = r.reused,
           r2.dead = r.dead, r2.ptr = r.ptr,
           r.reused => r2.send = r.send,
           ~r.reused => r2.send = Append(<<>>, Hello(s, p))
    PROVE  /\ Sound(r2, s, p) /\ Num(r2) = Num(r)
           /\ r.reused => Items(r2) = Items(r) /\ Waiting(r2) = Waiting(r)
           /\ ~r.reused =>
                /\ Items(r2) = {[seq |-> 0, hello |-> s, ev |-> p]}
                /\ Waiting(r2) = {[seq |-> 0, hello |-> s, ev |-> p]}
<1>0. /\ r \in WebConn /\ Ring(r.dead, r.ptr, Num(r)) /\ Staged(r, s)
      /\ Num(r) \in Nat /\ Len(r.send) \in Nat
  BY SoundFacts
<1>2. Num(r2) = Num(r)
  BY DEF Num
<1>3. CASE r.reused
  <2>1. r2.send = r.send
    BY <1>3
  <2>2. Staged(r2, s)
    <3>1. r.id # 0 /\ 1 <= r.seq /\ r.seq <= Num(r)
      BY <1>0, <1>3 DEF Staged
    <3>2. Num(r2) + Len(r2.send) >= 1
      BY <1>0, <1>2, <2>1, <3>1 DEF WebConn
    <3> QED
      BY <1>2, <1>3, <3>1, <3>2 DEF Staged
  <2>3. /\ Num(r2) = Num(r) /\ Items(r2) = Items(r) /\ Waiting(r2) = Waiting(r)
        /\ Sound(r2, s, p)
    BY <2>1, <2>2, SoundSame
  <2> QED
    BY <1>3, <2>3
<1>4. CASE ~r.reused
  <2>1. Num(r) = 0 /\ r.id = s /\ r.seq = 0 /\ r.dead = ClearedDeadQueue
    BY <1>0, <1>4 DEF Staged, Empty
  <2> DEFINE x == Hello(s, p)
             m == [seq |-> 0, hello |-> s, ev |-> p]
  <2>2. x \in Item /\ x.hello = s /\ x.ev = p
    BY DEF Hello, Item
  <2>3. r2.send = Append(<<>>, x)
    BY <1>4
  <2>4. Waiting(r2) = {m}
    <3> DEFINE none == <<>>
    <3>0. none \in Seq(Item) /\ Len(none) = 0 /\ Numbered(0, none) = {}
      BY DEF Numbered
    <3>1. Numbered(0, Append(none, x)) = Numbered(0, none)
            \cup {[seq |-> 0 + Len(none), hello |-> x.hello, ev |-> x.ev]}
      <4>1. x \in Item /\ none \in Seq(Item) /\ 0 \in Nat
        BY <2>2, <3>0
      <4> HIDE DEF x, none
      <4>2. \A n \in Nat, q \in Seq(Item), y \in Item :
              Numbered(n, Append(q, y)) =
                Numbered(n, q) \cup {[seq |-> n + Len(q), hello |-> y.hello, ev |-> y.ev]}
        BY NumberedAppend
      <4> QED
        BY <4>1, <4>2
    <3> HIDE DEF x, none
    <3>2. Waiting(r2) = Numbered(0, Append(none, x))
      BY <1>2, <2>1, <2>3 DEF Waiting, none
    <3> QED
      BY <2>2, <3>0, <3>1, <3>2
  <2>5. Items(r2) = {m}
    BY <2>1, <2>4, RingEmpty DEF Items
  <2>6. Staged(r2, s)
    <3>1. Len(r2.send) = 1
      BY <2>3
    <3> QED
      BY <1>2, <1>4, <2>1, <3>1 DEF Staged
  <2>7. Ring(r2.dead, r2.ptr, Num(r2))
    BY <1>0, <1>2
  <2>8. /\ \A k \in Items(r2) : /\ k.hello # 0 <=> k.seq = 0
                                /\ k.hello # 0 => k.hello = r2.id
                                /\ k.ev <= p
        /\ \A k, l \in Items(r2) : k.seq < l.seq => k.ev < l.ev
    BY <2>1, <2>5
  <2> QED
    BY <1>2, <1>4, <2>4, <2>5, <2>6, <2>7, <2>8 DEF Sound
<1> QED
  BY <1>2, <1>3, <1>4

-----------------------------------------------------------------------------
(***************************************************************************)
(* What the page can read: a row of messages read from the front, written  *)
(* at the end and cut short.                                               *)
(***************************************************************************)
LEMMA ReadsNext ==
    ASSUME NEW u \in Seq(Message), u # <<>>, NEW c \in Nat, NEW q \in Nat, NEW e \in Nat,
           NEW p \in Nat, Row(u, c, q, e, p),
           NEW c2, c2 = (IF u[1].hello # 0 THEN u[1].hello ELSE c)
    PROVE  /\ Head(u) = u[1] /\ u[1] \in Message /\ Tail(u) \in Seq(Message) /\ Len(u) >= 1
           /\ Row(Tail(u), c2, u[1].seq + 1, u[1].ev, p)
           /\ StreamOf(u, c) = c2 /\ StreamOf(Tail(u), c2) = c2 /\ c2 \in Nat /\ c2 # 0
           /\ FrontOf(Tail(u), u[1].seq + 1) = FrontOf(u, q)
           /\ Len(Tail(u)) = Len(u) - 1
           /\ \A k \in 1..Len(Tail(u)) : k + 1 \in 1..Len(u) /\ Tail(u)[k] = u[k + 1]
           /\ u[1].ev <= p /\ e <= u[1].ev
<1> DEFINE t == Tail(u)
           n == Len(u)
<1>1. /\ n \in Nat /\ n >= 1 /\ t \in Seq(Message) /\ Len(t) = n - 1 /\ Head(u) = u[1]
      /\ \A k \in 1..n : u[k] \in Message
      /\ \A k \in 1..(n - 1) : t[k] = u[k + 1]
      /\ (t = <<>> <=> n = 1)
  <2>1. n \in Nat /\ n >= 1 /\ t \in Seq(Message) /\ Len(t) = n - 1 /\ Head(u) = u[1]
    OBVIOUS
  <2>2. \A k \in 1..n : u[k] \in Message
    OBVIOUS
  <2>3. \A k \in 1..(n - 1) : t[k] = u[k + 1]
    OBVIOUS
  <2>4. t = <<>> <=> Len(t) = 0
    <3>1. t \in Seq(Message)
      BY <2>1
    <3> HIDE DEF t
    <3> QED
      BY <3>1
  <2> QED
    BY <2>1, <2>2, <2>3, <2>4
<1>2. \A k \in 1..n : u[k].seq \in Nat /\ u[k].ev \in Nat /\ u[k].hello \in Nat
  BY <1>1 DEF Message
<1>3. Chain(u, p) /\ Joins(u[1], c, q, e)
  BY DEF Row
<1>n. 1 \in 1..n
  BY <1>1
<1> HIDE DEF t, n
<1>4. /\ \A k \in 1..n : /\ u[k].hello # 0 <=> u[k].seq = 0
                         /\ u[k].seq = u[1].seq + (k - 1)
                         /\ u[k].ev <= p
      /\ \A i, k \in 1..n : i < k => u[i].ev < u[k].ev
  BY <1>3 DEF Chain, n
<1>5. \A k \in 1..(n - 1) : k + 1 \in 1..n /\ t[k] = u[k + 1]
  BY <1>1
<1>6. \A k \in 1..(n - 1) : t[k].seq = (u[1].seq + 1) + (k - 1) /\ t[k].hello = 0
                            /\ t[k].seq # 0 /\ t[k].ev <= p /\ u[1].ev < t[k].ev
  <2> TAKE k \in 1..(n - 1)
  <2>1. u[k + 1].seq = u[1].seq + ((k + 1) - 1)
    BY <1>4, <1>5
  <2>2. u[1].seq + ((k + 1) - 1) = (u[1].seq + 1) + (k - 1) /\ u[k + 1].seq # 0
    BY <1>1, <1>2, <1>n, <2>1
  <2>3. u[k + 1].hello = 0 /\ u[k + 1].ev <= p
    BY <1>4, <1>5, <2>2
  <2>4. u[1].ev < u[k + 1].ev
    BY <1>1, <1>4, <1>5, <1>n
  <2> QED
    BY <1>5, <2>1, <2>2, <2>3, <2>4
<1>7. \A i, k \in 1..(n - 1) : i < k => t[i].ev < t[k].ev
  <2> TAKE i, k \in 1..(n - 1)
  <2> HAVE i < k
  <2>1. i + 1 < k + 1 /\ i + 1 \in 1..n /\ k + 1 \in 1..n
    BY <1>1
  <2> QED
    BY <1>4, <1>5, <2>1
<1>8. c2 \in Nat /\ c2 # 0
  BY <1>2, <1>3, <1>n DEF Joins
<1>9. e <= u[1].ev
  BY <1>2, <1>3, <1>n DEF Joins
<1>10. Chain(t, p)
  <2>1. \A k \in 1..(n - 1) : t[k].seq = t[1].seq + (k - 1)
    <3> TAKE k \in 1..(n - 1)
    <3>1. 1 \in 1..(n - 1)
      BY <1>1
    <3>2. t[1].seq = (u[1].seq + 1) + (1 - 1) /\ t[k].seq = (u[1].seq + 1) + (k - 1)
      BY <1>6, <3>1
    <3> QED
      BY <1>2, <1>n, <3>2
  <2> QED
    BY <1>1, <1>6, <1>7, <2>1 DEF Chain
<1>11. ASSUME t # <<>> PROVE /\ Joins(t[1], c2, u[1].seq + 1, u[1].ev)
                             /\ t[1].hello = 0 /\ t[1].seq = u[1].seq + 1
  <2>1. 1 \in 1..(n - 1)
    BY <1>1, <1>11
  <2>2. t[1].seq = (u[1].seq + 1) + (1 - 1) /\ t[1].hello = 0 /\ u[1].ev < t[1].ev
    BY <1>6, <2>1
  <2>3. t[1].seq = u[1].seq + 1
    BY <1>2, <1>n, <2>2
  <2> QED
    BY <1>8, <2>2, <2>3 DEF Joins
<1>12. Row(t, c2, u[1].seq + 1, u[1].ev, p)
  BY <1>10, <1>11 DEF Row
<1>13. StreamOf(u, c) = c2 /\ StreamOf(t, c2) = c2
  BY <1>11 DEF StreamOf
<1>14. FrontOf(t, u[1].seq + 1) = FrontOf(u, q)
  <2>1. FrontOf(u, q) = u[1].seq + n
    BY DEF FrontOf, n
  <2>2. CASE t = <<>>
    BY <1>1, <2>1, <2>2 DEF FrontOf
  <2>3. CASE t # <<>>
    <3>1. FrontOf(t, u[1].seq + 1) = (u[1].seq + 1) + (n - 1)
      <4>1. FrontOf(t, u[1].seq + 1) = t[1].seq + Len(t)
        BY <2>3 DEF FrontOf
      <4> QED
        BY <1>1, <1>11, <2>3, <4>1
    <3>2. (u[1].seq + 1) + (n - 1) = u[1].seq + n
      BY <1>1, <1>2, <1>n
    <3> QED
      BY <2>1, <3>1, <3>2
  <2> QED
    BY <2>2, <2>3
<1>15. u[1].ev <= p
  BY <1>4, <1>n
<1> QED
  BY <1>1, <1>5, <1>8, <1>9, <1>12, <1>13, <1>14, <1>15, <1>n DEF t, n

\* The last message of a row has the number before its front.
LEMMA FrontOfRow ==
    ASSUME NEW u \in Seq(Message), u # <<>>, NEW p \in Nat, Chain(u, p), NEW q
    PROVE  /\ Len(u) \in 1..Len(u) /\ u[Len(u)].seq + 1 = FrontOf(u, q)
           /\ u[1] \in Message /\ u[Len(u)] \in Message
<1>1. Len(u) \in Nat /\ Len(u) >= 1 /\ u[1] \in Message /\ u[Len(u)] \in Message
  OBVIOUS
<1>2. u[Len(u)].seq = u[1].seq + (Len(u) - 1)
  BY <1>1 DEF Chain
<1>3. u[1].seq \in Nat
  BY <1>1 DEF Message
<1> QED
  BY <1>1, <1>2, <1>3 DEF FrontOf

LEMMA Between ==
    ASSUME NEW a \in Nat, NEW b \in Nat, NEW c \in Nat, NEW d \in Nat, a <= b, b < c, c <= d
    PROVE  a < d
  OBVIOUS

LEMMA WritesMore ==
    ASSUME NEW u \in Seq(Message), NEW ms \in Seq(Message), ms # <<>>,
           NEW c \in Nat, NEW q \in Nat, NEW e \in Nat, NEW p \in Nat,
           Row(u, c, q, e, p), Chain(ms, p),
           u = <<>> => Joins(ms[1], c, q, e),
           u # <<>> => ms[1].seq = FrontOf(u, q) /\ u[Len(u)].ev < ms[1].ev
    PROVE  /\ u \o ms \in Seq(Message) /\ u \o ms # <<>>
           /\ Row(u \o ms, c, q, e, p)
           /\ StreamOf(u \o ms, c) = IF u = <<>> THEN StreamOf(ms, c) ELSE StreamOf(u, c)
           /\ FrontOf(u \o ms, q) = ms[1].seq + Len(ms)
           /\ \A k \in 1..Len(u \o ms) :
                \/ k \in 1..Len(u) /\ (u \o ms)[k] = u[k]
                \/ \E j \in 1..Len(ms) : (u \o ms)[k] = ms[j]
<1> DEFINE v == u \o ms
           n == Len(u)
           l == Len(ms)
<1>1. /\ n \in Nat /\ l \in Nat /\ l >= 1 /\ Len(v) = n + l /\ v \in Seq(Message)
      /\ \A k \in 1..n : v[k] = u[k]
      /\ \A j \in 1..l : v[n + j] = ms[j]
      /\ v # <<>> /\ (u = <<>> <=> n = 0)
  OBVIOUS
<1>2. \A k \in 1..n : u[k] \in Message
  OBVIOUS
<1>3. \A j \in 1..l : ms[j] \in Message
  OBVIOUS
<1> HIDE DEF v, n, l
<1>4. \A k \in 1..(n + l) : k \in 1..n \/ (k - n \in 1..l /\ n + (k - n) = k)
  BY <1>1
<1>5. \A k \in 1..(n + l) : \/ k \in 1..n /\ v[k] = u[k]
                            \/ k - n \in 1..l /\ v[k] = ms[k - n]
  BY <1>1, <1>4
<1>6. /\ \A k \in 1..n : u[k].seq \in Nat /\ u[k].ev \in Nat
      /\ \A k \in 1..l : ms[k].seq \in Nat /\ ms[k].ev \in Nat
  BY <1>2, <1>3 DEF Message
<1>7. 1 \in 1..l /\ (n # 0 => 1 \in 1..n /\ n \in 1..n)
  BY <1>1
<1>8. /\ \A k \in 1..n : /\ u[k].hello # 0 <=> u[k].seq = 0
                         /\ u[k].seq = u[1].seq + (k - 1)
                         /\ u[k].ev <= p
      /\ \A i, k \in 1..n : i < k => u[i].ev < u[k].ev
  BY DEF Row, Chain, n
<1>9. /\ \A k \in 1..l : /\ ms[k].hello # 0 <=> ms[k].seq = 0
                         /\ ms[k].seq = ms[1].seq + (k - 1)
                         /\ ms[k].ev <= p
      /\ \A i, k \in 1..l : i < k => ms[i].ev < ms[k].ev
  BY DEF Chain, l
<1>10. n # 0 => ms[1].seq = u[1].seq + n /\ u[n].ev < ms[1].ev
  BY <1>1 DEF FrontOf, n
<1>11. v[1] = IF n = 0 THEN ms[1] ELSE u[1]
  <2>1. CASE n = 0
    BY <1>1, <1>7, <2>1
  <2>2. CASE n # 0
    BY <1>1, <1>7, <2>2
  <2> QED
    BY <2>1, <2>2
<1>12. \A k \in 1..(n + l) : /\ v[k].hello # 0 <=> v[k].seq = 0
                             /\ v[k].ev <= p
  BY <1>5, <1>8, <1>9
<1>13. \A k \in 1..(n + l) : v[k].seq = v[1].seq + (k - 1)
  <2> TAKE k \in 1..(n + l)
  <2>1. CASE k \in 1..n /\ v[k] = u[k]
    BY <1>1, <1>8, <1>11, <2>1
  <2>2. CASE k - n \in 1..l /\ v[k] = ms[k - n]
    <3>1. v[k].seq = ms[1].seq + ((k - n) - 1)
      BY <1>9, <2>2
    <3>2. CASE n = 0
      <4>1. k - n = k
        BY <3>2
      <4> QED
        BY <1>11, <3>1, <3>2, <4>1
    <3>3. CASE n # 0
      <4>1. ms[1].seq = u[1].seq + n /\ v[1] = u[1] /\ u[1].seq \in Nat
        BY <1>6, <1>7, <1>10, <1>11, <3>3
      <4>2. (u[1].seq + n) + ((k - n) - 1) = u[1].seq + (k - 1)
        <5>1. n \in Nat /\ k \in Int /\ u[1].seq \in Int
          BY <1>1, <4>1
        <5> QED
          BY <5>1
      <4> QED
        BY <3>1, <4>1, <4>2
    <3> QED
      BY <3>2, <3>3
  <2> QED
    BY <1>5, <2>1, <2>2
<1>14. ASSUME NEW i \in 1..n, NEW j \in 1..l PROVE u[i].ev < ms[j].ev
  <2>1. n # 0 /\ u[i].ev <= u[n].ev
    <3>1. i = n \/ i < n
      BY <1>1
    <3>2. u[i].ev \in Nat /\ u[n].ev \in Nat /\ n # 0
      BY <1>1, <1>6, <1>7
    <3>3. i < n => u[i].ev < u[n].ev
      BY <1>7, <1>8, <3>2
    <3> QED
      BY <3>1, <3>2, <3>3
  <2>2. ms[1].ev <= ms[j].ev
    <3>1. j = 1 \/ 1 < j
      BY <1>1
    <3>2. ms[1].ev \in Nat /\ ms[j].ev \in Nat
      BY <1>6, <1>7
    <3>3. 1 < j => ms[1].ev < ms[j].ev
      BY <1>7, <1>9
    <3> QED
      BY <3>1, <3>2, <3>3
  <2>3. /\ u[i].ev \in Nat /\ u[n].ev \in Nat /\ ms[1].ev \in Nat /\ ms[j].ev \in Nat
        /\ u[n].ev < ms[1].ev
    BY <1>6, <1>7, <1>10, <2>1
  <2>4. u[i].ev <= u[n].ev
    BY <2>1
  <2> QED
    BY <2>2, <2>3, <2>4, Between
<1>15. \A i, k \in 1..(n + l) : i < k => v[i].ev < v[k].ev
  <2> TAKE i, k \in 1..(n + l)
  <2> HAVE i < k
  <2>1. CASE i \in 1..n /\ k \in 1..n
    <3>1. v[i] = u[i] /\ v[k] = u[k]
      BY <1>1, <2>1
    <3> QED
      BY <1>8, <2>1, <3>1
  <2>2. CASE i \in 1..n /\ k \notin 1..n
    <3>1. v[i] = u[i]
      BY <1>1, <2>2
    <3>2. k - n \in 1..l /\ v[k] = ms[k - n]
      BY <1>5, <2>2
    <3>3. u[i].ev < ms[k - n].ev
      BY <1>14, <2>2, <3>2
    <3> QED
      BY <3>1, <3>2, <3>3
  <2>3. CASE i \notin 1..n
    <3>1. k \notin 1..n
      BY <1>1, <2>3
    <3>2. k - n \in 1..l /\ i - n \in 1..l /\ i - n < k - n
      BY <1>1, <2>3, <3>1
    <3> QED
      BY <1>5, <1>9, <2>3, <3>1, <3>2
  <2> QED
    BY <2>1, <2>2, <2>3
<1>16. Chain(v, p)
  BY <1>1, <1>12, <1>13, <1>15 DEF Chain
<1>17. Joins(v[1], c, q, e)
  BY <1>1, <1>11 DEF Row
<1>18. Row(v, c, q, e, p)
  BY <1>16, <1>17 DEF Row
<1>19. StreamOf(v, c) = IF u = <<>> THEN StreamOf(ms, c) ELSE StreamOf(u, c)
  BY <1>1, <1>11 DEF StreamOf
<1>20. FrontOf(v, q) = ms[1].seq + l
  <2>1. FrontOf(v, q) = v[1].seq + (n + l)
    BY <1>1 DEF FrontOf
  <2>2. CASE n = 0
    BY <1>1, <1>11, <2>1, <2>2
  <2>3. CASE n # 0
    <3>1. v[1] = u[1] /\ ms[1].seq = u[1].seq + n /\ u[1].seq \in Nat
      BY <1>6, <1>7, <1>10, <1>11, <2>3
    <3>2. u[1].seq + (n + l) = (u[1].seq + n) + l
      BY <1>1, <3>1
    <3> QED
      BY <2>1, <3>1, <3>2
  <2> QED
    BY <2>2, <2>3
<1>21. \A k \in 1..(n + l) : \/ k \in 1..n /\ v[k] = u[k]
                             \/ \E j \in 1..l : v[k] = ms[j]
  BY <1>5
<1> QED
  BY <1>1, <1>18, <1>19, <1>20, <1>21 DEF v, n, l

\* What is left of a row of which the end is lost.
LEMMA CutShort ==
    ASSUME NEW u \in Seq(Message), NEW k \in 0..Len(u), NEW c, NEW q, NEW e, NEW p,
           Row(u, c, q, e, p)
    PROVE  /\ SubSeq(u, 1, k) \in Seq(Message) /\ Row(SubSeq(u, 1, k), c, q, e, p)
           /\ Len(SubSeq(u, 1, k)) = k /\ Len(u) \in Nat
           /\ \A j \in 1..k : j \in 1..Len(u) /\ SubSeq(u, 1, k)[j] = u[j]
           /\ SubSeq(u, 1, k) # <<>> =>
                 u # <<>> /\ StreamOf(SubSeq(u, 1, k), c) = StreamOf(u, c)
<1> DEFINE v == SubSeq(u, 1, k)
<1>1. v \in Seq(Message) /\ Len(v) = k /\ \A j \in 1..k : v[j] = u[j]
  OBVIOUS
<1>2. \A j \in 1..k : j \in 1..Len(u)
  OBVIOUS
<1>3. v # <<>> => 1 \in 1..k /\ u # <<>>
  <2> SUFFICES ASSUME v # <<>> PROVE 1 \in 1..k /\ u # <<>>
    OBVIOUS
  <2>1. k # 0
    BY <1>1
  <2> QED
    BY <2>1
<1> HIDE DEF v
<1>4. Chain(v, p)
  <2>1. \A j \in 1..k : /\ u[j].hello # 0 <=> u[j].seq = 0
                        /\ u[j].seq = u[1].seq + (j - 1)
                        /\ u[j].ev <= p
    BY <1>2 DEF Row, Chain
  <2>2. \A i, j \in 1..k : i < j => u[i].ev < u[j].ev
    BY <1>2 DEF Row, Chain
  <2>3. \A j \in 1..k : v[j] = u[j] /\ v[1] = u[1]
    BY <1>1, <1>2
  <2> QED
    BY <1>1, <2>1, <2>2, <2>3 DEF Chain
<1>5. v # <<>> => Joins(v[1], c, q, e)
  BY <1>1, <1>3 DEF Row
<1>6. v # <<>> => u # <<>> /\ StreamOf(v, c) = StreamOf(u, c)
  BY <1>1, <1>3 DEF StreamOf
<1> QED
  BY <1>1, <1>2, <1>4, <1>5, <1>6 DEF Row, v

-----------------------------------------------------------------------------
(***************************************************************************)
(* A step of the server leaves the page alone.  It takes no queue back,    *)
(* gives no id that others know to a new queue, and at most writes at the  *)
(* end of what the page can read.                                          *)
(***************************************************************************)
Begins == \A n \in Sock : PumpHasBegun(wc[n]) => PumpHasBegun(wc'[n])

\* Who owns the queues of an id in use has them from the one before.
Follows ==
    \A t \in Sock : Owner(t)' =>
        \/ ~KnownIn(wc'[t].id, wc)
        \/ \E u \in Sock : /\ Owner(u) /\ wc[u].id = wc'[t].id
                           /\ Num(wc[u]) <= Num(wc'[t])
                           /\ Items(wc'[t]) \subseteq Items(wc[u])

\* No handler goes back, and a handler that has dealt with the URL has an id
\* that is in use, or its own.
Proceeds ==
    \A t \in Sock :
        /\ wc'[t].stage \in {"none", "upgraded"} =>
             /\ wc[t].stage \in {"none", "upgraded"}
             /\ wc'[t].id = wc[t].id /\ wc'[t].seq = wc[t].seq
        /\ Fresh(wc'[t]) \/ KnownIn(wc'[t].id, wc')

PageRests == UNCHANGED <<connectionId, serverSequence, last, posted, heard, conn>>

LEMMA FitsLater ==
    ASSUME NEW r, NEW r2, Num(r) \in Nat, Num(r2) \in Nat, Num(r) <= Num(r2),
           Items(r2) \subseteq Items(r)
    PROVE  \A q \in Nat : \A e : Fits(r, q, e) => Fits(r2, q, e)
  BY DEF Fits

LEMMA KnownStays ==
    ASSUME Begins PROVE \A id : KnownIn(id, wc) => KnownIn(id, wc')
  BY DEF Begins, KnownIn

LEMMA KeepsPace ==
    ASSUME StreamInv, Sounds', Begins, Follows, Proceeds, PageRests,
           conn # 0 => Took(wc'[conn])
    PROVE  /\ Dialled'
           /\ last' <= posted'
           /\ IF connectionId' = 0 THEN serverSequence' = 0 ELSE serverSequence' >= 1
           /\ \A t \in Sock : Streaming(t, connectionId)' => Fits(wc'[t], serverSequence', last')
           /\ \A id : \A t \in Sock : KnownIn(id, wc) /\ Owner(t)' /\ wc'[t].id = id /\ id # 0 =>
                \E u \in Sock : /\ Streaming(u, id)
                                /\ Num(wc[u]) <= Num(wc'[t])
                                /\ \A q \in Nat : \A e : Fits(wc[u], q, e) => Fits(wc'[t], q, e)
           /\ \A t \in Sock : t = conn' \/ Streaming(t, connectionId)' =>
                \A m \in Items(wc'[t]) : m.hello = 0 => m.ev \in heard'
<1>0. /\ Sounds /\ Counts /\ Ids /\ Dialled /\ Positions /\ HeardIs
  BY DEF StreamInv
<1>1. \A t \in Sock : Num(wc[t]) \in Nat /\ Num(wc'[t]) \in Nat
  <2>1. \A t \in Sock : Sound(wc[t], t, posted) /\ Sound(wc'[t], t, posted')
    BY <1>0 DEF Sounds
  <2> QED
    BY <2>1, SoundFacts
<1>2. ASSUME NEW id, NEW t \in Sock, KnownIn(id, wc), Owner(t)', wc'[t].id = id, id # 0
      PROVE  \E u \in Sock : /\ Streaming(u, id)
                             /\ Num(wc[u]) <= Num(wc'[t])
                             /\ Items(wc'[t]) \subseteq Items(wc[u])
                             /\ \A q \in Nat : \A e : Fits(wc[u], q, e) => Fits(wc'[t], q, e)
  <2>1. PICK u \in Sock : /\ Owner(u) /\ wc[u].id = id
                          /\ Num(wc[u]) <= Num(wc'[t])
                          /\ Items(wc'[t]) \subseteq Items(wc[u])
    BY <1>2 DEF Follows
  <2>2. \A q \in Nat : \A e : Fits(wc[u], q, e) => Fits(wc'[t], q, e)
    BY <1>1, <2>1, FitsLater
  <2> QED
    BY <1>2, <2>1, <2>2 DEF Streaming
<1>3. Dialled'
  <2> SUFFICES ASSUME NEW s \in Sock, wc'[s].stage \in {"none", "upgraded"}, wc'[s].id # 0
               PROVE  /\ wc'[s].seq >= 1
                      /\ \A t \in Sock : Owner(t)' /\ wc'[t].id = wc'[s].id =>
                           wc'[s].seq <= Num(wc'[t])
    BY DEF Dialled, Streaming
  <2>1. /\ wc[s].stage \in {"none", "upgraded"} /\ wc[s].id # 0
        /\ wc'[s].id = wc[s].id /\ wc'[s].seq = wc[s].seq
    BY DEF Proceeds
  <2>2. KnownIn(wc[s].id, wc)
    BY <1>0, <2>1 DEF Ids, Fresh
  <2>3. wc[s].seq >= 1 /\ \A u \in Sock : Streaming(u, wc[s].id) => wc[s].seq <= Num(wc[u])
    BY <1>0, <2>1 DEF Dialled
  <2>4. wc[s].seq \in Nat
    BY <1>0 DEF Sounds, Sound, WebConn
  <2>5. ASSUME NEW t \in Sock, Owner(t)', wc'[t].id = wc'[s].id
        PROVE  wc'[s].seq <= Num(wc'[t])
    <3>1. PICK u \in Sock : Streaming(u, wc[s].id) /\ Num(wc[u]) <= Num(wc'[t])
      BY <1>2, <2>1, <2>2, <2>5
    <3>2. wc[s].seq <= Num(wc[u])
      BY <2>3, <3>1
    <3> QED
      BY <1>1, <2>1, <2>4, <3>1, <3>2
  <2> QED
    BY <2>1, <2>3, <2>5
<1>4. /\ last' <= posted'
      /\ IF connectionId' = 0 THEN serverSequence' = 0 ELSE serverSequence' >= 1
  BY <1>0 DEF Positions, PageRests
<1>5. ASSUME NEW t \in Sock, Streaming(t, connectionId)'
      PROVE  /\ Fits(wc'[t], serverSequence', last')
             /\ \A m \in Items(wc'[t]) : m.hello = 0 => m.ev \in heard'
  <2>1. Owner(t)' /\ wc'[t].id = connectionId /\ connectionId # 0
    BY <1>5 DEF Streaming, PageRests
  <2>2. KnownIn(connectionId, wc)
    BY <1>0 DEF Ids
  <2>3. PICK u \in Sock : /\ Streaming(u, connectionId)
                          /\ Items(wc'[t]) \subseteq Items(wc[u])
                          /\ \A q \in Nat : \A e : Fits(wc[u], q, e) => Fits(wc'[t], q, e)
    BY <1>2, <2>1, <2>2
  <2>4. Fits(wc[u], serverSequence, last) /\ Took(wc[u])
    BY <1>0, <2>3 DEF Positions, HeardIs
  <2>5. serverSequence \in Nat
    BY <1>0 DEF Counts
  <2> QED
    BY <2>3, <2>4, <2>5 DEF PageRests, Took
<1>6. ASSUME NEW t \in Sock, t = conn', conn' = conn, conn # 0
      PROVE  \A m \in Items(wc'[t]) : m.hello = 0 => m.ev \in heard'
  BY <1>6 DEF Took, PageRests
<1>7. conn' = conn /\ (conn \in Sock => conn # 0)
  BY SizesOK DEF PageRests, Sock
<1> QED
  BY <1>2, <1>3, <1>4, <1>5, <1>6, <1>7

LEMMA PageReads ==
    ASSUME Wires, Counts
    PROVE  /\ conn # 0 => conn \in Sock
           /\ Unread \in Seq(Message) /\ Len(Unread) \in Nat
           /\ \A k \in 1..Len(Unread) : /\ Unread[k] \in Message /\ Unread[k].seq + 1 \in Nat
                                       /\ Unread[k].ev \in Nat /\ Unread[k].hello \in Nat
           /\ Unread # <<>> => 1 \in 1..Len(Unread) /\ Len(Unread) \in 1..Len(Unread)
           /\ FrontOf(Unread, serverSequence) \in Nat
<1>1. conn # 0 => conn \in Sock
  BY SizesOK DEF Wires, Sock
<1>2. Unread \in Seq(Message)
  <2>1. CASE conn = 0
    <3>1. <<>> \in Seq(Message)
      OBVIOUS
    <3> QED
      BY <2>1, <3>1 DEF Unread
  <2>2. CASE conn # 0
    BY <1>1, <2>2 DEF Unread, Counts
  <2> QED
    BY <2>1, <2>2
<1> DEFINE u == Unread
<1>3. u \in Seq(Message)
  BY <1>2
<1> HIDE DEF u
<1>4. /\ Len(u) \in Nat /\ \A k \in 1..Len(u) : u[k] \in Message
      /\ u # <<>> => 1 \in 1..Len(u) /\ Len(u) \in 1..Len(u)
  BY <1>3
<1>5. \A k \in 1..Len(u) : u[k].seq + 1 \in Nat /\ u[k].ev \in Nat /\ u[k].hello \in Nat
                          /\ u[k].seq \in Nat
  BY <1>4 DEF Message
<1>6. FrontOf(u, serverSequence) \in Nat
  <2>1. CASE u = <<>>
    BY <2>1 DEF FrontOf, Counts
  <2>2. CASE u # <<>>
    <3>1. u[1].seq + Len(u) \in Nat
      BY <1>4, <1>5, <2>2
    <3> QED
      BY <2>2, <3>1 DEF FrontOf
  <2> QED
    BY <2>1, <2>2
<1> QED
  BY <1>1, <1>2, <1>4, <1>5, <1>6 DEF u

LEMMA StreamIsKnown ==
    ASSUME Wires, Counts, Ids PROVE KnownIn(StreamId, wc)
<1>1. CASE Unread # <<>> /\ Unread[1].hello # 0
  <2>1. 1 \in 1..Len(Unread)
    BY <1>1, PageReads
  <2> QED
    BY <1>1, <2>1 DEF Ids, StreamId, StreamOf
<1>2. CASE ~(Unread # <<>> /\ Unread[1].hello # 0)
  BY <1>2 DEF Ids, StreamId, StreamOf
<1> QED
  BY <1>1, <1>2

LEMMA AlongLater ==
    ASSUME NEW r, NEW r2, Num(r) \in Nat, Num(r2) \in Nat, Num(r) <= Num(r2),
           \A q \in Nat : \A e : Fits(r, q, e) => Fits(r2, q, e),
           NEW u, NEW q, FrontOf(u, q) \in Nat,
           \A k \in 1..Len(u) : u[k].seq + 1 \in Nat, Along(r, u, q)
    PROVE  Along(r2, u, q)
  BY DEF Along

\* Nothing is written.
LEMMA QuietStep ==
    ASSUME OwnersInv, StreamInv, Sounds', Counts', Links', Phase',
           Begins, Follows, Proceeds, PageRests, wire' = wire,
           conn # 0 => Took(wc'[conn])
    PROVE  StreamInv'
<1>0. /\ Ids /\ Positions /\ InRow /\ HeardIs /\ Counts
  BY DEF StreamInv
<1>w. Wires
  BY DEF OwnersInv
<1>1. /\ Unread' = Unread /\ StreamId' = StreamId
      /\ connectionId' = connectionId /\ serverSequence' = serverSequence
      /\ last' = last /\ posted' = posted /\ heard' = heard
  BY DEF PageRests, Unread, StreamId
<1>2. /\ Dialled' /\ last' <= posted'
      /\ IF connectionId' = 0 THEN serverSequence' = 0 ELSE serverSequence' >= 1
      /\ \A t \in Sock : Streaming(t, connectionId)' => Fits(wc'[t], serverSequence', last')
      /\ \A t \in Sock : t = conn' \/ Streaming(t, connectionId)' =>
           \A m \in Items(wc'[t]) : m.hello = 0 => m.ev \in heard'
  BY KeepsPace
<1>3. \A id : KnownIn(id, wc) => KnownIn(id, wc')
  BY KnownStays
<1>4. Ids'
  BY <1>0, <1>1, <1>3 DEF Ids, Proceeds
<1>5. ASSUME NEW t \in Sock, Owner(t)', wc'[t].id = StreamId, StreamId # 0
      PROVE  Along(wc'[t], Unread, serverSequence)
  <2>1. KnownIn(StreamId, wc)
    BY <1>0, <1>w, StreamIsKnown
  <2>2. PICK u \in Sock : /\ Streaming(u, StreamId) /\ Num(wc[u]) <= Num(wc'[t])
                          /\ \A q \in Nat : \A e : Fits(wc[u], q, e) => Fits(wc'[t], q, e)
    BY <1>5, <2>1, KeepsPace
  <2>3. Along(wc[u], Unread, serverSequence)
    BY <1>0, <2>2 DEF Positions
  <2>4. Num(wc[u]) \in Nat /\ Num(wc'[t]) \in Nat
    <3>1. Sound(wc[u], u, posted) /\ Sound(wc'[t], t, posted')
      BY DEF StreamInv, Sounds
    <3> QED
      BY <3>1, SoundFacts
  <2>5. /\ FrontOf(Unread, serverSequence) \in Nat
        /\ \A k \in 1..Len(Unread) : Unread[k].seq + 1 \in Nat
    BY <1>0, <1>w, PageReads
  <2> QED
    BY <2>2, <2>3, <2>4, <2>5, AlongLater
<1>6. Positions'
  BY <1>1, <1>2, <1>5 DEF Positions, Streaming
<1>7. InRow'
  BY <1>0, <1>1 DEF InRow
<1>8. HeardIs'
  BY <1>0, <1>1, <1>2 DEF HeardIs, Took
<1> QED
  BY <1>2, <1>4, <1>6, <1>7, <1>8 DEF StreamInv


\* The page's connection is up, and messages are written to it.
LEMMA WriteStep ==
    ASSUME OwnersInv, OwnersInv', StreamInv, Sounds', Counts', Links',
           Begins, Follows, Proceeds, PageRests, NEW c \in Sock, c = conn,
           NEW ms \in Seq(Message), ms # <<>>, Chain(ms, posted),
           wire' = [wire EXCEPT ![conn] = wire[conn] \o ms],
           Unread = <<>> => /\ Joins(ms[1], connectionId, serverSequence, last)
                            /\ wc'[c].id = StreamOf(ms, connectionId),
           Unread # <<>> => /\ ms[1].seq = FrontOf(Unread, serverSequence)
                            /\ Unread[Len(Unread)].ev < ms[1].ev
                            /\ wc'[c].id = StreamId,
           wc'[c].stage = "pumping", Num(wc'[c]) = ms[1].seq + Len(ms),
           \A j \in 1..Len(ms) : /\ Fits(wc'[c], ms[j].seq + 1, ms[j].ev)
                                 /\ KnownIn(ms[j].hello, wc')
                                 /\ ms[j].hello = 0 => ms[j].ev \in heard,
           Took(wc'[c]),
           \A m \in Items(wc'[c]) : m.hello # 0 /\ m.hello # connectionId => m.ev >= last
    PROVE  StreamInv'
<1>0. Ids /\ Positions /\ InRow /\ HeardIs /\ Counts /\ Wires /\ conn # 0
  BY SizesOK DEF StreamInv, OwnersInv, Sock
<1>1. /\ connectionId' = connectionId /\ serverSequence' = serverSequence
      /\ last' = last /\ posted' = posted /\ heard' = heard /\ conn' = conn
  BY DEF PageRests
<1>2. /\ Unread \in Seq(Message) /\ Unread = wire[conn]
      /\ connectionId \in Nat /\ serverSequence \in Nat /\ last \in Nat /\ posted \in Nat
      /\ Row(Unread, connectionId, serverSequence, last, posted)
  BY <1>0, PageReads DEF Unread, Counts, InRow
<1> DEFINE v == Unread \o ms
<1>3. Unread' = v
  BY <1>0, <1>1, <1>2 DEF Unread, Counts
<1>4. /\ v \in Seq(Message) /\ v # <<>>
      /\ Row(v, connectionId, serverSequence, last, posted)
      /\ StreamOf(v, connectionId) = IF Unread = <<>> THEN StreamOf(ms, connectionId)
                                     ELSE StreamOf(Unread, connectionId)
      /\ FrontOf(v, serverSequence) = ms[1].seq + Len(ms)
      /\ \A k \in 1..Len(v) :
           \/ k \in 1..Len(Unread) /\ v[k] = Unread[k]
           \/ \E j \in 1..Len(ms) : v[k] = ms[j]
  BY <1>2, WritesMore
<1> HIDE DEF v
<1>5. StreamOf(v, connectionId) = wc'[c].id /\ StreamId' = wc'[c].id
  BY <1>1, <1>3, <1>4 DEF StreamId
<1>6. /\ Dialled' /\ last' <= posted'
      /\ IF connectionId' = 0 THEN serverSequence' = 0 ELSE serverSequence' >= 1
      /\ \A t \in Sock : Streaming(t, connectionId)' => Fits(wc'[t], serverSequence', last')
      /\ \A t \in Sock : t = conn' \/ Streaming(t, connectionId)' =>
           \A m \in Items(wc'[t]) : m.hello = 0 => m.ev \in heard'
  BY KeepsPace
<1>7. \A id : KnownIn(id, wc) => KnownIn(id, wc')
  BY KnownStays
<1>8. Ids'
  <2>1. \A k \in 1..Len(v) : KnownIn(v[k].hello, wc')
    BY <1>0, <1>4, <1>7 DEF Ids
  <2> QED
    <3>1. \A k \in 1..Len(Unread') : KnownIn(Unread'[k].hello, wc')
      BY <1>3, <2>1
    <3>2. KnownIn(connectionId', wc')
      BY <1>0, <1>1, <1>7 DEF Ids
    <3>3. \A s \in Sock : Fresh(wc'[s]) \/ KnownIn(wc'[s].id, wc')
      BY DEF Proceeds
    <3> QED
      BY <3>1, <3>2, <3>3 DEF Ids
<1>9. Owner(c)'
  BY DEF Owner, Live
<1>p. \A id : \A t \in Sock : KnownIn(id, wc) /\ Owner(t)' /\ wc'[t].id = id /\ id # 0 =>
        \E u \in Sock : /\ Streaming(u, id) /\ Num(wc[u]) <= Num(wc'[t])
                        /\ \A q \in Nat : \A e : Fits(wc[u], q, e) => Fits(wc'[t], q, e)
  BY KeepsPace
<1>o. \A s, t \in Sock : s # t /\ Owner(s)' /\ Owner(t)' => wc'[s].id # wc'[t].id
  BY DEF OwnersInv, QueuesHaveOneOwner
<1>10. ASSUME NEW k \in 1..Len(Unread), wc'[c].id # 0
       PROVE  Fits(wc'[c], Unread[k].seq + 1, Unread[k].ev)
  <2>1. Unread # <<>>
    BY <1>10
  <2>2. KnownIn(StreamId, wc) /\ wc'[c].id = StreamId
    BY <1>0, <2>1, StreamIsKnown
  <2>3. PICK u \in Sock : /\ Streaming(u, StreamId)
                          /\ \A q \in Nat : \A e : Fits(wc[u], q, e) => Fits(wc'[c], q, e)
    BY <1>9, <1>10, <1>p, <2>2
  <2>4. Along(wc[u], Unread, serverSequence)
    BY <1>0, <2>3 DEF Positions
  <2>5. Unread[k].seq + 1 \in Nat
    BY <1>0, PageReads
  <2> QED
    BY <2>3, <2>4, <2>5 DEF Along
<1>11. ASSUME wc'[c].id # 0 PROVE Along(wc'[c], v, serverSequence)
  <2>1. \A k \in 1..Len(v) : Fits(wc'[c], v[k].seq + 1, v[k].ev)
    BY <1>4, <1>10, <1>11
  <2>2. Num(wc'[c]) \in Nat
    <3>1. Sound(wc'[c], c, posted')
      BY DEF Sounds
    <3> QED
      BY <3>1, SoundFacts
  <2> QED
    BY <1>4, <2>1, <2>2 DEF Along
<1>12. Positions'
  <2>1. ASSUME NEW t \in Sock, Owner(t)', wc'[t].id = StreamId', StreamId' # 0
        PROVE  Along(wc'[t], v, serverSequence)
    <3>1. t = c
      BY <1>5, <1>9, <1>o, <2>1
    <3> QED
      BY <1>5, <1>11, <2>1, <3>1
  <2> QED
    BY <1>1, <1>3, <1>6, <2>1 DEF Positions, Streaming
<1>13. InRow'
  BY <1>1, <1>3, <1>4 DEF InRow
<1>14. HeardIs'
  <2>1. \A k \in 1..Len(v) : v[k].hello = 0 => v[k].ev \in heard
    BY <1>0, <1>4 DEF HeardIs
  <2> QED
    BY <1>1, <1>3, <1>6, <2>1 DEF HeardIs, Took
<1>15. Phase'
  <2>1. AtPage(wc'[c], link'[c], v, connectionId, serverSequence, last)
    BY <1>4, <1>5 DEF AtPage
  <2> QED
    BY <1>1, <1>3, <2>1 DEF Phase
<1> QED
  BY <1>6, <1>8, <1>12, <1>13, <1>14, <1>15 DEF StreamInv

-----------------------------------------------------------------------------
(***************************************************************************)
(* One handler moves on: its WebConn becomes r.                            *)
(***************************************************************************)
GoesOn(s, r) ==
    /\ Sound(r, s, posted)
    /\ r.stage \in {"none", "upgraded"} =>
         wc[s].stage \in {"none", "upgraded"} /\ r.id = wc[s].id /\ r.seq = wc[s].seq
    /\ PumpHasBegun(wc[s]) => PumpHasBegun(r)
    /\ r.stage \in Live \/ r.listed =>
         \/ ~KnownIn(r.id, wc)
         \/ /\ Owner(s) /\ wc[s].id = r.id /\ Num(wc[s]) <= Num(r)
            /\ Items(r) \subseteq Items(wc[s])

LEMMA OneMoves ==
    ASSUME OwnersInv, StreamInv, NEW s \in Sock, NEW r, GoesOn(s, r),
           Fresh(r) \/ KnownIn(r.id, wc'), wc' = [wc EXCEPT ![s] = r], posted' = posted
    PROVE  /\ Sounds' /\ Begins /\ Follows /\ Proceeds /\ wc' \in [Sock -> WebConn]
           /\ wc'[s] = r /\ \A t \in Sock \ {s} : wc'[t] = wc[t]
<1>0. Sounds /\ Ids /\ wc \in [Sock -> WebConn]
  BY DEF StreamInv, Links
<1>1. wc'[s] = r /\ \A t \in Sock \ {s} : wc'[t] = wc[t]
  BY <1>0
<1>2. r \in WebConn /\ Sound(r, s, posted)
  BY DEF GoesOn, Sound
<1>3. wc' \in [Sock -> WebConn]
  BY <1>0, <1>2
<1>4. Sounds'
  BY <1>0, <1>1, <1>2 DEF Sounds
<1>5. Begins
  BY <1>1 DEF Begins, GoesOn
<1>6. \A t \in Sock : Num(wc[t]) \in Nat
  <2>1. \A t \in Sock : Sound(wc[t], t, posted)
    BY <1>0 DEF Sounds
  <2> QED
    BY <2>1, SoundFacts
<1>7. Follows
  <2> SUFFICES ASSUME NEW t \in Sock, Owner(t)'
               PROVE  \/ ~KnownIn(wc'[t].id, wc)
                      \/ \E u \in Sock : /\ Owner(u) /\ wc[u].id = wc'[t].id
                                         /\ Num(wc[u]) <= Num(wc'[t])
                                         /\ Items(wc'[t]) \subseteq Items(wc[u])
    BY DEF Follows
  <2>1. CASE t = s
    <3>1. r.stage \in Live \/ r.listed
      BY <1>1, <2>1 DEF Owner
    <3> QED
      BY <1>1, <2>1, <3>1 DEF GoesOn
  <2>2. CASE t # s
    <3>1. wc'[t] = wc[t] /\ Owner(t)
      BY <1>1, <2>2 DEF Owner
    <3>2. Num(wc[t]) <= Num(wc[t])
      BY <1>6
    <3> QED
      BY <3>1, <3>2
  <2> QED
    BY <2>1, <2>2
<1>8. Proceeds
  <2> SUFFICES ASSUME NEW t \in Sock
               PROVE  /\ wc'[t].stage \in {"none", "upgraded"} =>
                           /\ wc[t].stage \in {"none", "upgraded"}
                           /\ wc'[t].id = wc[t].id /\ wc'[t].seq = wc[t].seq
                      /\ Fresh(wc'[t]) \/ KnownIn(wc'[t].id, wc')
    BY DEF Proceeds
  <2>1. CASE t = s
    BY <1>1, <2>1 DEF GoesOn
  <2>2. CASE t # s
    <3>1. wc'[t] = wc[t] /\ (Fresh(wc[t]) \/ KnownIn(wc[t].id, wc))
      BY <1>0, <1>1, <2>2 DEF Ids
    <3> QED
      BY <1>5, <3>1, KnownStays
  <2> QED
    BY <2>1, <2>2
<1> QED
  BY <1>1, <1>3, <1>4, <1>5, <1>7, <1>8

PageAlone == UNCHANGED <<hubVars, nsock, clientVars, pageVars>> /\ drops' \in Nat

LEMMA PageAloneFacts ==
    ASSUME Counts, PageAlone, wire' \in [Sock -> Seq(Message)]
    PROVE  /\ PageRests /\ Counts' /\ posted' = posted /\ conn' = conn
           /\ opened' = opened /\ failed' = failed /\ syncing' = syncing /\ nsock' = nsock
           /\ last' = last /\ connectionId' = connectionId
           /\ serverSequence' = serverSequence
  BY DEF Counts, PageAlone, PageRests, hubVars, clientVars, pageVars

LEMMA LinksStay ==
    ASSUME Links, wc' \in [Sock -> WebConn], NEW s \in Sock,
           \A t \in Sock \ {s} : wc'[t] = wc[t],
           link' = link \/ link' = [link EXCEPT ![s] = "cut"],
           link'[s] = "up" => wc'[s].stage \notin {"none", "ended"},
           \A t \in Sock : t # conn => wire'[t] = wire[t],
           conn' = conn, opened' = opened, failed' = failed, syncing' = syncing,
           nsock' = nsock
    PROVE  Links'
<1>1. link' \in [Sock -> {"none", "dialling", "up", "cut"}]
  BY DEF Links
<1>2. \A t \in Sock : link'[t] = link[t] \/ (t = s /\ link'[t] = "cut")
  BY DEF Links
<1>3. \A t \in Sock : t # conn => wire'[t] = <<>> /\ link'[t] \in {"none", "cut"}
  BY <1>2 DEF Links
<1>4. \A t \in Sock : link'[t] = "up" => wc'[t].stage \notin {"none", "ended"}
  BY <1>2 DEF Links
<1> QED
  BY <1>1, <1>3, <1>4 DEF Links

\* It writes nothing.
LEMMA OneQuiet ==
    ASSUME OwnersInv, StreamInv, NEW s \in Sock, NEW r, GoesOn(s, r),
           Fresh(r) \/ KnownIn(r.id, wc'), wc' = [wc EXCEPT ![s] = r],
           PageAlone, wire' = wire, link' = link \/ link' = [link EXCEPT ![s] = "cut"],
           link'[s] = "up" => r.stage \notin {"none", "ended"},
           s = conn => /\ Took(r)
                       /\ AtPage(r, link'[s], Unread, connectionId, serverSequence, last)
    PROVE  StreamInv'
<1>0. Counts /\ Links /\ Phase /\ HeardIs /\ Wires /\ wire \in [Sock -> Seq(Message)]
  BY DEF StreamInv, Counts, OwnersInv
<1>1. /\ PageRests /\ Counts' /\ posted' = posted /\ conn' = conn
      /\ opened' = opened /\ failed' = failed /\ syncing' = syncing /\ nsock' = nsock
      /\ last' = last /\ connectionId' = connectionId
      /\ serverSequence' = serverSequence
  BY <1>0, PageAloneFacts
<1>2. /\ Sounds' /\ Begins /\ Follows /\ Proceeds /\ wc' \in [Sock -> WebConn]
      /\ wc'[s] = r /\ \A t \in Sock \ {s} : wc'[t] = wc[t]
  BY <1>1, OneMoves
<1>3. Links'
  BY <1>0, <1>1, <1>2, LinksStay
<1>4. conn # 0 => conn \in Sock
  BY <1>0, PageReads
<1>5. Unread' = Unread
  BY <1>1 DEF Unread
<1>6. Phase'
  <2>1. ASSUME conn # 0
        PROVE  AtPage(wc'[conn], link'[conn], Unread, connectionId, serverSequence, last)
    <3>1. CASE conn = s
      BY <1>2, <3>1
    <3>2. CASE conn # s
      <4>1. wc'[conn] = wc[conn] /\ link'[conn] = link[conn]
        BY <1>0, <1>2, <1>4, <2>1, <3>2 DEF Links
      <4> QED
        BY <1>0, <2>1, <4>1 DEF Phase
    <3> QED
      BY <3>1, <3>2
  <2> QED
    BY <1>1, <1>5, <2>1 DEF Phase
<1>7. conn # 0 => Took(wc'[conn])
  BY <1>0, <1>2, <1>4 DEF HeardIs
<1> QED
  BY <1>1, <1>2, <1>3, <1>6, <1>7, QuietStep

\* It writes to the page.
LEMMA OneWrites ==
    ASSUME OwnersInv, OwnersInv', StreamInv, NEW s \in Sock, NEW r, GoesOn(s, r),
           KnownIn(r.id, wc'), wc' = [wc EXCEPT ![s] = r],
           PageAlone, link' = link, link[s] = "up", r.stage = "pumping", Took(r),
           NEW ms \in Seq(Message), ms # <<>>, Chain(ms, posted),
           wire' = [wire EXCEPT ![s] = wire[s] \o ms],
           s = conn /\ Unread = <<>> => /\ Joins(ms[1], connectionId, serverSequence, last)
                                        /\ r.id = StreamOf(ms, connectionId),
           s = conn /\ Unread # <<>> => /\ ms[1].seq = FrontOf(Unread, serverSequence)
                                        /\ Unread[Len(Unread)].ev < ms[1].ev
                                        /\ r.id = StreamId,
           Num(r) = ms[1].seq + Len(ms),
           \A j \in 1..Len(ms) : /\ Fits(r, ms[j].seq + 1, ms[j].ev)
                                 /\ ms[j].hello = 0 \/ ms[j].hello = r.id
                                 /\ ms[j].hello = 0 => ms[j].ev \in heard,
           \A m \in Items(r) : m.hello # 0 /\ m.hello # connectionId => m.ev >= last
    PROVE  StreamInv'
<1>0. Counts /\ Links /\ Wires /\ wire \in [Sock -> Seq(Message)]
  BY DEF StreamInv, Counts, OwnersInv
<1>1. s = conn
  BY <1>0 DEF Links
<1>2. wire' \in [Sock -> Seq(Message)] /\ \A t \in Sock : t # s => wire'[t] = wire[t]
  <2>1. wire[s] \in Seq(Message)
    BY <1>0
  <2>2. wire[s] \o ms \in Seq(Message)
    BY <2>1
  <2> QED
    BY <1>0, <2>2
<1>3. /\ PageRests /\ Counts' /\ posted' = posted /\ conn' = conn
      /\ opened' = opened /\ failed' = failed /\ syncing' = syncing /\ nsock' = nsock
  BY <1>0, <1>2, PageAloneFacts
<1>4. /\ Sounds' /\ Begins /\ Follows /\ Proceeds /\ wc' \in [Sock -> WebConn]
      /\ wc'[s] = r /\ \A t \in Sock \ {s} : wc'[t] = wc[t]
  BY <1>3, OneMoves
<1>5. Links'
  <2>1. wc'[s].stage \notin {"none", "ended"}
    BY <1>4
  <2> QED
    BY <1>0, <1>1, <1>2, <1>3, <1>4, <2>1, LinksStay
<1>6. KnownIn(0, wc')
  BY SizesOK DEF KnownIn, Sock
<1>7. \A j \in 1..Len(ms) : KnownIn(ms[j].hello, wc')
  BY <1>6
<1>8. /\ wire' = [wire EXCEPT ![conn] = wire[conn] \o ms]
      /\ Unread = <<>> => /\ Joins(ms[1], connectionId, serverSequence, last)
                          /\ wc'[s].id = StreamOf(ms, connectionId)
      /\ Unread # <<>> => /\ ms[1].seq = FrontOf(Unread, serverSequence)
                          /\ Unread[Len(Unread)].ev < ms[1].ev
                          /\ wc'[s].id = StreamId
      /\ wc'[s].stage = "pumping" /\ Num(wc'[s]) = ms[1].seq + Len(ms) /\ Took(wc'[s])
      /\ \A j \in 1..Len(ms) : /\ Fits(wc'[s], ms[j].seq + 1, ms[j].ev)
                               /\ KnownIn(ms[j].hello, wc')
                               /\ ms[j].hello = 0 => ms[j].ev \in heard
      /\ \A m \in Items(wc'[s]) : m.hello # 0 /\ m.hello # connectionId => m.ev >= last
  BY <1>1, <1>4, <1>7
<1> QED
  BY <1>1, <1>3, <1>4, <1>5, <1>8, WriteStep


LEMMA OwnIdsKnown ==
    ASSUME NEW s \in Sock, NEW w
    PROVE  /\ KnownIn(s, w) <=> PumpHasBegun(w[s])
           /\ KnownIn(MaxSockets + s, w) <=> PumpHasBegun(w[s])
           /\ KnownIn(0, w) /\ s \in Nat \ {0} /\ MaxSockets + s \in Nat \ {0}
<1>1. \A n \in Sock : /\ n \in Nat \ {0} /\ s # MaxSockets + n
                      /\ MaxSockets + s # n /\ MaxSockets + n # 0
                      /\ MaxSockets + n \in Nat
                      /\ (MaxSockets + s = MaxSockets + n <=> s = n)
  BY SizesOK DEF Sock
<1>2. KnownIn(s, w) <=> PumpHasBegun(w[s])
  BY <1>1 DEF KnownIn
<1>3. KnownIn(MaxSockets + s, w) <=> PumpHasBegun(w[s])
  BY <1>1 DEF KnownIn
<1>4. KnownIn(0, w)
  BY <1>1 DEF KnownIn
<1> QED
  BY <1>1, <1>2, <1>3, <1>4

LEMMA NewIsSound ==
    ASSUME NEW s \in Sock, NEW p, NEW id \in Nat, NEW seq \in Nat
    PROVE  /\ Sound(NewWebConn(id, seq), s, p) /\ Items(NewWebConn(id, seq)) = {}
           /\ Sound(Gone, s, p) /\ Items(Gone) = {}
           /\ NewWebConn(id, seq).id = id /\ NewWebConn(id, seq).seq = seq
           /\ NewWebConn(id, seq).stage = "none" /\ ~NewWebConn(id, seq).listed
           /\ Gone.stage = "ended" /\ ~Gone.listed /\ Gone.id = 0
<1> DEFINE r == NewWebConn(id, seq)
<1>1. /\ r.stage = "none" /\ r.id = id /\ r.seq = seq /\ r.listed = FALSE /\ Empty(r)
      /\ Gone.stage = "ended" /\ Gone.listed = FALSE /\ Empty(Gone) /\ Gone.id = 0
  BY DEF NewWebConn, Gone, Empty
<1>2. <<>> \in Seq(Item) /\ ClearedDeadQueue \in [Slots -> Message \cup {Nil}] /\ 0 \in Slots
  BY SlotFacts DEF ClearedDeadQueue
<1>3. r \in WebConn /\ Gone \in WebConn
  <2> DEFINE Stages == {"none", "upgraded", "ended"} \cup Live
             Queues == Seq(Item)
             Rings == [Slots -> Message \cup {Nil}]
  <2>1. "none" \in Stages /\ "ended" \in Stages /\ 0 \in Nat
    OBVIOUS
  <2>2. <<>> \in Queues /\ ClearedDeadQueue \in Rings
    BY <1>2
  <2>3. WebConn = [stage : Stages, id : Nat, seq : Nat, reused : BOOLEAN,
                   send : Queues, closed : BOOLEAN, dead : Rings, ptr : Slots,
                   active : BOOLEAN, listed : BOOLEAN]
    BY DEF WebConn
  <2> HIDE DEF Stages, Queues, Rings
  <2>4. r \in WebConn /\ NewWebConn(0, 0) \in WebConn
    BY <1>2, <2>1, <2>2, <2>3 DEF NewWebConn
  <2>5. Gone \in WebConn
    <3>1. NewWebConn(0, 0) \in WebConn
      BY <2>4
    <3> HIDE DEF NewWebConn
    <3> QED
      BY <2>1, <2>3, <3>1 DEF Gone
  <2> QED
    BY <2>4, <2>5
<1>4. Staged(r, s) /\ Staged(Gone, s)
  BY <1>1 DEF Staged
<1> HIDE DEF r
<1>5. Sound(r, s, p) /\ Items(r) = {} /\ Sound(Gone, s, p) /\ Items(Gone) = {}
  BY <1>1, <1>3, <1>4, SoundEmpty
<1> QED
  BY <1>1, <1>5 DEF r

\* A WebConn that nothing refers to any more.
LEMMA OneGone ==
    ASSUME OwnersInv, StreamInv, NEW s \in Sock, wc' = [wc EXCEPT ![s] = Gone],
           PageAlone, wire' = wire,
           link' = [link EXCEPT ![s] = "cut"] \/ (link' = link /\ wc[s].stage = "ended")
    PROVE  StreamInv'
<1>0. Links
  BY DEF StreamInv
<1>1. /\ Sound(Gone, s, posted) /\ Items(Gone) = {} /\ Gone.stage = "ended"
      /\ ~Gone.listed /\ Gone.id = 0
  BY NewIsSound
<1>2. GoesOn(s, Gone)
  BY <1>1 DEF GoesOn, Live, PumpHasBegun
<1>3. KnownIn(Gone.id, wc')
  BY <1>1, OwnIdsKnown
<1>4. link'[s] = "up" => Gone.stage \notin {"none", "ended"}
  BY <1>0 DEF Links
<1>5. Took(Gone) /\ AtPage(Gone, link'[s], Unread, connectionId, serverSequence, last)
  BY <1>1 DEF Took, AtPage
<1> HIDE DEF Gone
<1> QED
  BY <1>2, <1>3, <1>4, <1>5, OneQuiet

LEMMA HandlerIs ==
    ASSUME OwnersInv, StreamInv, NEW s \in Sock
    PROVE  /\ Sound(wc[s], s, posted) /\ wc[s] \in WebConn /\ Staged(wc[s], s)
           /\ wc[s].stage # "ended" => wc[s] # Gone
           /\ Num(wc[s]) \in Nat /\ posted \in Nat /\ wc[s].id \in Nat
           /\ conn # 0 => conn \in Sock
           /\ conn # 0 => AtPage(wc[conn], link[conn], Unread, connectionId,
                                 serverSequence, last)
           /\ conn # 0 => Took(wc[conn])
           /\ s = conn => conn # 0
           /\ Fresh(wc[s]) \/ KnownIn(wc[s].id, wc)
           /\ Streaming(s, connectionId) => Took(wc[s]) /\ Fits(wc[s], serverSequence, last)
           /\ connectionId \in Nat /\ serverSequence \in Nat /\ last \in Nat /\ last <= posted
           /\ connectionId # 0 => serverSequence >= 1
           /\ KnownIn(connectionId, wc)
<1>1. Sounds /\ Counts /\ Phase /\ HeardIs /\ Ids /\ Wires /\ Positions
  BY DEF StreamInv, OwnersInv
<1>2. Sound(wc[s], s, posted)
  BY <1>1 DEF Sounds
<1>3. conn # 0 => conn \in Sock
  BY <1>1, PageReads
<1>4. s # 0
  BY OwnIdsKnown
<1>5. Num(wc[s]) \in Nat /\ wc[s] \in WebConn /\ Staged(wc[s], s)
  BY <1>2, SoundFacts
<1>6. wc[s].id \in Nat
  BY <1>5 DEF WebConn
<1>7. Gone.stage = "ended"
  BY DEF Gone, NewWebConn
<1>8. conn # 0 => AtPage(wc[conn], link[conn], Unread, connectionId, serverSequence, last)
  BY <1>1 DEF Phase
<1>9. conn # 0 => Took(wc[conn])
  BY <1>1, <1>3 DEF HeardIs
<1>10. Streaming(s, connectionId) => Took(wc[s]) /\ Fits(wc[s], serverSequence, last)
  BY <1>1 DEF HeardIs, Positions
<1>11. /\ connectionId \in Nat /\ serverSequence \in Nat /\ last \in Nat /\ last <= posted
       /\ connectionId # 0 => serverSequence >= 1
       /\ posted \in Nat
  BY <1>1 DEF Counts, Positions
<1>12. (Fresh(wc[s]) \/ KnownIn(wc[s].id, wc)) /\ KnownIn(connectionId, wc)
  BY <1>1 DEF Ids
<1> QED
  BY <1>2, <1>3, <1>4, <1>5, <1>6, <1>7, <1>8, <1>9, <1>10, <1>11, <1>12

LEMMA AfreshStep ==
    ASSUME OwnersInv, StreamInv, NEW s \in Sock, wc[s].stage = "upgraded", StartAfresh(s),
           PageAlone, wire' = wire, link' = link
    PROVE  StreamInv'
<1> DEFINE r == [NewWebConn(s, 0) EXCEPT !.stage = "checked"]
<1>1. wc' = [wc EXCEPT ![s] = r]
  BY DEF StartAfresh
<1>2. /\ r.stage = "checked" /\ r.id = s /\ r.seq = 0 /\ r.reused = FALSE
      /\ r.listed = FALSE /\ Empty(r)
  BY DEF NewWebConn, Empty
<1>3. r \in WebConn
  <2>1. NewWebConn(s, 0) \in WebConn
    <3>1. Sound(NewWebConn(s, 0), s, posted)
      BY NewIsSound, OwnIdsKnown
    <3> QED
      BY <3>1, SoundFacts
  <2>2. r = [NewWebConn(s, 0) EXCEPT !.stage = "checked"]
    OBVIOUS
  <2> DEFINE Stages == {"none", "upgraded", "ended"} \cup Live
  <2>3. "checked" \in Stages
    BY DEF Live
  <2> HIDE DEF r, NewWebConn, Item, Message, Nil, Stages
  <2> QED
    BY <2>1, <2>2, <2>3 DEF WebConn, Stages
<1> HIDE DEF r
<1>4. Num(r) = 0
  BY <1>2, RingEmpty DEF Num, Empty
<1>5. Staged(r, s)
  BY <1>2, <1>4 DEF Staged
<1>6. Sound(r, s, posted) /\ Items(r) = {}
  BY <1>2, <1>3, <1>5, SoundEmpty
<1>7. ~KnownIn(s, wc) /\ ~PumpHasBegun(wc[s])
  BY OwnIdsKnown DEF PumpHasBegun
<1>8. GoesOn(s, r)
  BY <1>2, <1>6, <1>7 DEF GoesOn
<1>9. Fresh(r)
  BY <1>2 DEF Fresh
<1>10. s = conn => /\ Took(r)
                   /\ AtPage(r, link'[s], Unread, connectionId, serverSequence, last)
  <2> SUFFICES ASSUME s = conn
               PROVE  /\ Took(r)
                      /\ AtPage(r, link'[s], Unread, connectionId, serverSequence, last)
    OBVIOUS
  <2>1. Unread = <<>> /\ connectionId # s
    BY <1>7, HandlerIs DEF AtPage
  <2> QED
    BY <1>2, <1>6, <2>1 DEF Took, AtPage
<1> QED
  BY <1>1, <1>2, <1>8, <1>9, <1>10, OneQuiet

LEMMA RegisterStep ==
    ASSUME OwnersInv, StreamInv, NEW s \in Sock, Register(s) PROVE StreamInv'
<1> DEFINE r == [wc[s] EXCEPT !.stage = "registered", !.active = TRUE,
                   !.listed = TRUE,
                   !.send = IF wc[s].reused THEN wc[s].send
                            ELSE Append(wc[s].send, Hello(wc[s].id, posted))]
           o == wc[s]
<1>0. /\ Sound(o, s, posted) /\ o \in WebConn /\ Staged(o, s) /\ Num(o) \in Nat
      /\ o.stage = "checked" /\ posted \in Nat /\ s \in Nat \ {0}
      /\ wc \in [Sock -> WebConn]
  BY HandlerIs, OwnIdsKnown DEF Register, StreamInv, Links
<1>1. wc' = [wc EXCEPT ![s] = r] /\ PageAlone /\ wire' = wire /\ link' = link
  <2>1. wc' = [wc EXCEPT ![s] = r]
    BY <1>0 DEF Register, WebConn
  <2>2. drops' \in Nat
    BY DEF Register, StreamInv, Counts
  <2> QED
    BY <2>1, <2>2 DEF Register, PageAlone, hubVars, clientVars, pageVars
<1>2. ~o.reused => o.id = s /\ o.send = <<>> /\ o.seq = 0
  BY <1>0 DEF Staged, Empty
<1>3. /\ r.stage = "registered" /\ r.active = TRUE /\ r.listed = TRUE
      /\ r.id = o.id /\ r.seq = o.seq /\ r.reused = o.reused
      /\ r.dead = o.dead /\ r.ptr = o.ptr
      /\ o.reused => r.send = o.send
      /\ ~o.reused => r.send = Append(<<>>, Hello(s, posted))
  BY <1>0, <1>2 DEF WebConn
<1>4. r \in WebConn
  <2> DEFINE Stages == {"none", "upgraded", "ended"} \cup Live
             q == IF wc[s].reused THEN wc[s].send
                  ELSE Append(wc[s].send, Hello(wc[s].id, posted))
  <2>1. "registered" \in Stages
    BY DEF Live
  <2>2. q \in Seq(Item)
    <3>1. wc[s].send \in Seq(Item) /\ Hello(wc[s].id, posted) \in Item
      BY <1>0 DEF WebConn, Hello, Item
    <3> QED
      BY <3>1
  <2> HIDE DEF Stages, q, Item, Message, Nil
  <2>3. r = [wc[s] EXCEPT !.stage = "registered", !.active = TRUE,
               !.listed = TRUE, !.send = q]
    BY DEF q
  <2> QED
    BY <1>0, <2>1, <2>2, <2>3 DEF WebConn, Stages
<1> HIDE DEF r, o
<1>5. /\ Sound(r, s, posted) /\ Num(r) = Num(o)
      /\ o.reused => Items(r) = Items(o)
      /\ ~o.reused => Items(r) = {[seq |-> 0, hello |-> s, ev |-> posted]}
  BY <1>0, <1>3, <1>4, SoundRegistered
<1>6. ~PumpHasBegun(o) /\ ~KnownIn(s, wc) /\ Owner(s)
  BY <1>0, OwnIdsKnown DEF PumpHasBegun, Owner, Live, o
<1>7. GoesOn(s, r)
  <2>1. CASE o.reused
    BY <1>0, <1>3, <1>5, <1>6, <2>1 DEF GoesOn, o
  <2>2. CASE ~o.reused
    BY <1>2, <1>3, <1>5, <1>6, <2>2 DEF GoesOn, o
  <2> QED
    BY <2>1, <2>2
<1>8. Fresh(r) \/ KnownIn(r.id, wc')
  <2>1. Fresh(o) \/ KnownIn(o.id, wc)
    BY HandlerIs DEF o
  <2>2. Fresh(o) => Fresh(r)
    BY <1>3 DEF Fresh
  <2>3. Begins
    BY <1>0, <1>1, <1>6 DEF Begins, o
  <2> QED
    BY <1>3, <2>1, <2>2, <2>3, KnownStays
<1>9. s = conn => /\ Took(r)
                  /\ AtPage(r, link'[s], Unread, connectionId, serverSequence, last)
  <2> SUFFICES ASSUME s = conn
               PROVE  /\ Took(r)
                      /\ AtPage(r, link'[s], Unread, connectionId, serverSequence, last)
    OBVIOUS
  <2>1. /\ AtPage(o, link[s], Unread, connectionId, serverSequence, last) /\ Took(o)
        /\ last <= posted
    BY HandlerIs DEF o
  <2>2. \A m \in Items(r) : m.hello # 0 /\ m.hello # connectionId => m.ev >= last
    BY <1>0, <1>5, <2>1, HandlerIs DEF AtPage
  <2>3. Unread = <<>> /\ IF r.reused THEN r.id = connectionId /\ r.seq = serverSequence
                         ELSE r.id # connectionId
    BY <1>0, <1>3, <2>1 DEF AtPage
  <2>4. Took(r)
    BY <1>0, <1>5, <2>1 DEF Took
  <2> QED
    BY <1>3, <2>2, <2>3, <2>4 DEF AtPage
<1> QED
  BY <1>1, <1>3, <1>7, <1>8, <1>9, OneQuiet


LEMMA EndStep ==
    ASSUME OwnersInv, StreamInv, NEW s \in Sock, PumpEnds(s) PROVE StreamInv'
<1> DEFINE o == wc[s]
<1>0. /\ Sound(o, s, posted) /\ o \in WebConn /\ Staged(o, s) /\ posted \in Nat
      /\ o.stage \in {"registered", "pumping"} /\ wc \in [Sock -> WebConn]
      /\ link \in [Sock -> {"none", "dialling", "up", "cut"}]
  BY HandlerIs DEF PumpEnds, StreamInv, Links
<1>1. /\ PageAlone /\ wire' = wire /\ link' = [link EXCEPT ![s] = "cut"]
      /\ link'[s] = "cut"
  <2>1. drops' \in Nat
    BY DEF PumpEnds, StreamInv, Counts
  <2> QED
    BY <1>0, <2>1 DEF PumpEnds, PageAlone, hubVars, clientVars, pageVars
<1>2. CASE ~o.listed
  <2>1. wc' = [wc EXCEPT ![s] = Gone]
    BY <1>2 DEF PumpEnds
  <2> QED
    BY <1>1, <2>1, OneGone
<1>3. CASE o.listed
  <2> DEFINE r == [wc[s] EXCEPT !.stage = "ended", !.active = FALSE]
  <2>1. wc' = [wc EXCEPT ![s] = r]
    BY <1>3 DEF PumpEnds
  <2>2. /\ r.stage = "ended" /\ r.active = FALSE /\ r.listed = o.listed /\ r.id = o.id
        /\ r.send = o.send /\ r.dead = o.dead /\ r.ptr = o.ptr
    BY <1>0 DEF WebConn
  <2>3. r \in WebConn
    <3> DEFINE Stages == {"none", "upgraded", "ended"} \cup Live
    <3>1. "ended" \in Stages
      OBVIOUS
    <3> HIDE DEF Stages, Item, Message, Nil
    <3> QED
      BY <1>0, <3>1 DEF WebConn, Stages
  <2> HIDE DEF r
  <2>4. Num(r) = Num(o) /\ Items(r) = Items(o) /\ Num(o) \in Nat
    <3>1. Num(o) \in Nat
      BY <1>0, SoundFacts
    <3>2. posted <= posted
      BY <1>0
    <3> HIDE DEF o
    <3> QED
      BY <1>0, <2>2, <2>3, <3>1, <3>2, SoundSame
  <2>5. Staged(r, s)
    BY <1>0, <1>3, <2>2, <2>4 DEF Staged
  <2>6. Sound(r, s, posted)
    BY <1>0, <2>2, <2>3, <2>5, SoundSame
  <2>7. Owner(s)
    BY <1>3 DEF Owner
  <2>8. GoesOn(s, r)
    BY <2>2, <2>4, <2>6, <2>7 DEF GoesOn, PumpHasBegun
  <2>9. KnownIn(r.id, wc')
    <3>0. PumpHasBegun(r) /\ wc'[s] = r
      BY <1>0, <2>1, <2>2 DEF PumpHasBegun
    <3>1. CASE KnownIn(o.id, wc)
      <4>1. Begins
        BY <1>0, <2>1, <3>0 DEF Begins
      <4> QED
        BY <2>2, <3>1, <4>1, KnownStays
    <3>2. CASE Fresh(o)
      <4>1. o.id = s
        BY <1>0, <3>2 DEF Staged, Fresh
      <4> QED
        BY <2>2, <3>0, <4>1, OwnIdsKnown
    <3> QED
      BY <3>1, <3>2, HandlerIs
  <2>10. s = conn => /\ Took(r)
                     /\ AtPage(r, link'[s], Unread, connectionId, serverSequence, last)
    <3> SUFFICES ASSUME s = conn
                 PROVE  /\ Took(r)
                        /\ AtPage(r, link'[s], Unread, connectionId, serverSequence, last)
      OBVIOUS
    <3>1. /\ AtPage(o, link[s], Unread, connectionId, serverSequence, last) /\ Took(o)
          /\ o # Gone
      BY <1>0, HandlerIs
    <3>2. \A m \in Items(r) : m.hello # 0 /\ m.hello # connectionId => m.ev >= last
      BY <2>4, <3>1 DEF AtPage
    <3>3. Unread # <<>> => r.id = StreamOf(Unread, connectionId)
      BY <2>2, <3>1 DEF AtPage
    <3> QED
      BY <1>1, <2>2, <2>4, <3>1, <3>2, <3>3 DEF AtPage, Took
  <2> QED
    BY <1>1, <2>1, <2>8, <2>9, <2>10, OneQuiet
<1> QED
  BY <1>2, <1>3

LEMMA RemovedStep ==
    ASSUME OwnersInv, StreamInv, NEW s \in Sock, Reap(s) \/ RegisterFails(s)
    PROVE  StreamInv'
<1>1. /\ wc' = [wc EXCEPT ![s] = Gone] /\ PageAlone /\ wire' = wire
  <2>1. drops' \in Nat
    <3>1. drops \in Nat /\ (drops' = drops \/ drops' = drops + 1)
      BY DEF Reap, RegisterFails, Drop, StreamInv, Counts
    <3> QED
      BY <3>1
  <2> QED
    BY <2>1 DEF Reap, RegisterFails, PageAlone, hubVars, clientVars, pageVars
<1>2. link' = [link EXCEPT ![s] = "cut"] \/ (link' = link /\ wc[s].stage = "ended")
  <2>1. Staged(wc[s], s)
    BY HandlerIs
  <2> QED
    BY <2>1 DEF Reap, RegisterFails, Staged
<1> QED
  BY <1>1, <1>2, OneGone

\* The write pump starts with nothing to write again.
LEMMA PlainStep ==
    ASSUME OwnersInv, StreamInv, NEW s \in Sock, wc[s].stage = "registered",
           \/ wc[s].seq = 0
           \/ ~InQueue(s) /\ ~HasMsgLoss(wc[s].dead, wc[s].ptr, wc[s].seq),
           wc' = [wc EXCEPT ![s].stage = "pumping"],
           PageAlone, wire' = wire, link' = link
    PROVE  StreamInv'
<1> DEFINE o == wc[s]
           r == [wc[s] EXCEPT !.stage = "pumping"]
<1>0. /\ Sound(o, s, posted) /\ o \in WebConn /\ Staged(o, s) /\ posted \in Nat
      /\ wc \in [Sock -> WebConn] /\ o.stage = "registered"
  BY HandlerIs DEF StreamInv, Links
<1>1. wc' = [wc EXCEPT ![s] = r]
  BY <1>0
<1>2. /\ r.stage = "pumping" /\ r.active = o.active /\ r.listed = o.listed /\ r.id = o.id
      /\ r.send = o.send /\ r.dead = o.dead /\ r.ptr = o.ptr /\ r.seq = o.seq
  BY <1>0 DEF WebConn
<1>3. r \in WebConn
  <2> DEFINE Stages == {"none", "upgraded", "ended"} \cup Live
  <2>1. "pumping" \in Stages
    BY DEF Live
  <2> HIDE DEF Stages, Item, Message, Nil
  <2> QED
    BY <1>0, <2>1 DEF WebConn, Stages
<1> HIDE DEF r
<1>4. Num(r) = Num(o) /\ Items(r) = Items(o) /\ Num(o) \in Nat
      /\ Ring(o.dead, o.ptr, Num(o)) /\ o.seq \in Nat
  <2>1. Num(o) \in Nat /\ Ring(o.dead, o.ptr, Num(o)) /\ o.seq \in Nat
    BY <1>0, SoundFacts DEF WebConn
  <2>2. posted <= posted
    BY <1>0
  <2> HIDE DEF o
  <2> QED
    BY <1>0, <1>2, <1>3, <2>1, <2>2, SoundSame
<1>5. o.seq = Num(o)
  <2>1. CASE o.reused
    <3>1. 1 <= o.seq /\ o.seq <= Num(o)
      BY <1>0, <2>1 DEF Staged
    <3>2. HasMsgLoss(o.dead, o.ptr, o.seq) <=> o.seq # Num(o)
      BY <1>4, <3>1, RingSearch
    <3> QED
      BY <1>4, <3>1, <3>2
  <2>2. CASE ~o.reused
    BY <1>0, <2>2 DEF Staged
  <2> QED
    BY <2>1, <2>2
<1>6. Staged(r, s)
  BY <1>0, <1>2, <1>4, <1>5 DEF Staged
<1>7. Sound(r, s, posted)
  BY <1>0, <1>2, <1>3, <1>6, SoundSame
<1>8. GoesOn(s, r)
  BY <1>0, <1>2, <1>4, <1>7 DEF GoesOn, PumpHasBegun, Owner, Live
<1>9. KnownIn(r.id, wc')
  <2>0. PumpHasBegun(r) /\ wc'[s] = r
    BY <1>0, <1>1, <1>2 DEF PumpHasBegun
  <2>1. CASE KnownIn(o.id, wc)
    <3>1. Begins
      BY <1>0, <1>1, <2>0 DEF Begins
    <3> QED
      BY <1>2, <2>1, <3>1, KnownStays
  <2>2. CASE Fresh(o)
    <3>1. o.id = s
      BY <1>0, <2>2 DEF Staged, Fresh
    <3>2. KnownIn(s, wc')
      BY <2>0, OwnIdsKnown
    <3> QED
      BY <1>2, <3>1, <3>2
  <2> QED
    BY <2>1, <2>2, HandlerIs
<1>10. s = conn => /\ Took(r)
                   /\ AtPage(r, link'[s], Unread, connectionId, serverSequence, last)
  <2> SUFFICES ASSUME s = conn
               PROVE  /\ Took(r)
                      /\ AtPage(r, link'[s], Unread, connectionId, serverSequence, last)
    OBVIOUS
  <2>1. AtPage(o, link[s], Unread, connectionId, serverSequence, last) /\ Took(o)
    BY HandlerIs
  <2>2. \A m \in Items(r) : m.hello # 0 /\ m.hello # connectionId => m.ev >= last
    BY <1>4, <2>1 DEF AtPage
  <2>3. Unread = <<>> /\ Num(r) = (IF r.id = connectionId THEN serverSequence ELSE 0)
    <3>1. CASE o.reused
      BY <1>0, <1>2, <1>4, <1>5, <2>1, <3>1 DEF AtPage
    <3>2. CASE ~o.reused
      BY <1>0, <1>2, <1>4, <2>1, <3>2 DEF AtPage, Staged
    <3> QED
      BY <3>1, <3>2
  <2> QED
    BY <1>2, <1>4, <2>1, <2>2, <2>3 DEF AtPage, Took
<1>11. link'[s] = "up" => r.stage \notin {"none", "ended"}
  BY <1>2
<1> HIDE DEF o
<1> QED
  BY <1>1, <1>8, <1>9, <1>10, <1>11, OneQuiet


LEMMA WrittenIs ==
    ASSUME StreamInv, NEW s \in Sock, NEW ms, wire' = Written(s, ms)
    PROVE  \/ link[s] = "up" /\ wire' = [wire EXCEPT ![s] = wire[s] \o ms]
           \/ link[s] # "up" /\ wire' = wire
<1>1. wire \in [Sock -> Seq(Message)]
  BY DEF StreamInv, Counts
<1> QED
  BY <1>1 DEF Written

\* The next message of the WebConn follows what the page can read.
LEMMA NextFollows ==
    ASSUME OwnersInv, StreamInv, NEW s \in Sock, s = conn, Unread # <<>>,
           wc[s].stage = "pumping", link[s] = "up",
           NEW m \in Items(wc[s]), m.seq = Num(wc[s])
    PROVE  /\ m.seq = FrontOf(Unread, serverSequence)
           /\ Unread[Len(Unread)].ev < m.ev /\ wc[s].id = StreamId
<1> DEFINE o == wc[s]
           u == Unread
<1>0. /\ Wires /\ Counts /\ Row(u, connectionId, serverSequence, last, posted)
      /\ u \in Seq(Message) /\ Positions
      /\ AtPage(o, link[s], u, connectionId, serverSequence, last) /\ o # Gone
      /\ Sound(o, s, posted) /\ posted \in Nat
  <2>1. Wires /\ Counts /\ InRow /\ Positions
    BY DEF OwnersInv, StreamInv
  <2> QED
    BY <2>1, HandlerIs, PageReads DEF InRow
<1>1. m.seq \in Nat /\ m.ev \in Nat
  BY <1>0, SoundFacts
<1> HIDE DEF o
<1>2. Num(o) = FrontOf(u, serverSequence) /\ o.id = StreamOf(u, connectionId)
  BY <1>0 DEF AtPage, o
<1>3. u[1] \in Message /\ u[Len(u)].seq + 1 = FrontOf(u, serverSequence)
      /\ Len(u) \in 1..Len(u) /\ u[Len(u)] \in Message
  <2>1. Chain(u, posted)
    BY <1>0 DEF Row
  <2> HIDE DEF u
  <2> QED
    BY <1>0, <2>1, FrontOfRow DEF u
<1>4. StreamId = o.id /\ StreamId # 0
  <2>1. Joins(u[1], connectionId, serverSequence, last)
    BY <1>0 DEF Row
  <2> QED
    BY <1>2, <2>1 DEF StreamId, StreamOf, Joins
<1>5. Along(wc[s], u, serverSequence)
  BY <1>0, <1>4 DEF Positions, Streaming, Owner, Live, o
<1>6. Fits(wc[s], u[Len(u)].seq + 1, u[Len(u)].ev)
  BY <1>3, <1>5 DEF Along
<1>7. m.seq < u[Len(u)].seq + 1 <=> m.ev <= u[Len(u)].ev
  BY <1>6 DEF Fits
<1>8. u[Len(u)].ev \in Nat /\ u[Len(u)].seq \in Nat
  BY <1>3 DEF Message
<1> QED
  BY <1>1, <1>2, <1>3, <1>4, <1>7, <1>8 DEF o

LEMMA PumpStep ==
    ASSUME OwnersInv, OwnersInv', StreamInv, NEW s \in Sock, WritePump(s) PROVE StreamInv'
<1> DEFINE o == wc[s]
           m == [seq |-> wc[s].seq, hello |-> Head(wc[s].send).hello,
                 ev |-> Head(wc[s].send).ev]
           r == [wc[s] EXCEPT !.send = Tail(wc[s].send), !.seq = wc[s].seq + 1,
                              !.dead = AddToDeadQueue(wc[s].dead, wc[s].ptr, m),
                              !.ptr = NextSlot(wc[s].ptr)]
<1>0. /\ Sound(o, s, posted) /\ o \in WebConn /\ Staged(o, s) /\ posted \in Nat
      /\ wc \in [Sock -> WebConn] /\ o.stage = "pumping" /\ o.send # <<>>
      /\ o # Gone
  BY HandlerIs DEF StreamInv, Links, WritePump
<1>1. /\ wc' = [wc EXCEPT ![s] = r] /\ wire' = Written(s, <<m>>)
      /\ PageAlone /\ link' = link
  <2>1. wc' = [wc EXCEPT ![s] = r] /\ wire' = Written(s, <<m>>)
    BY <1>0 DEF WritePump, WebConn
  <2>2. drops' \in Nat
    BY DEF WritePump, StreamInv, Counts
  <2> QED
    BY <2>1, <2>2 DEF WritePump, PageAlone, hubVars, clientVars, pageVars
<1>2. r.stage = o.stage /\ r.id = o.id /\ r.listed = o.listed
  BY <1>0 DEF WebConn
<1>3. /\ Sound(r, s, posted) /\ Num(r) = Num(o) + 1 /\ Items(r) \subseteq Items(o)
      /\ m \in Items(o) /\ m \in InRing(r.dead) /\ m.seq = Num(o)
  <2>1. m = NextMessage(o) /\ r = AfterWrite(o, m)
    BY DEF NextMessage, AfterWrite
  <2> HIDE DEF m, r, o
  <2> QED
    BY <1>0, <2>1, SoundWrite
<1> HIDE DEF r, m
<1>4. /\ Num(o) \in Nat /\ m \in Message /\ m.seq \in Nat /\ m.ev \in Nat
      /\ m.hello # 0 <=> m.seq = 0
      /\ m.hello # 0 => m.hello = o.id
      /\ m.ev <= posted
  <2>1. Num(o) \in Nat /\ Items(o) \subseteq Message /\ m.seq \in Nat /\ m.ev \in Nat
    BY <1>0, <1>3, SoundFacts
  <2> QED
    BY <1>0, <1>3, <2>1 DEF Sound
<1>5. GoesOn(s, r)
  <2>1. Num(o) <= Num(r)
    BY <1>3, <1>4
  <2> QED
    BY <1>0, <1>2, <1>3, <2>1 DEF GoesOn, PumpHasBegun, Owner, Live
<1>6. KnownIn(r.id, wc')
  <2>1. KnownIn(o.id, wc)
    <3>1. ~Fresh(o)
      BY <1>0 DEF Fresh
    <3> QED
      BY <3>1, HandlerIs
  <2>2. Begins
    BY <1>0, <1>1, <1>2 DEF Begins, PumpHasBegun
  <2> QED
    BY <1>2, <2>1, <2>2, KnownStays
<1>7. s = conn => /\ Took(r) /\ Took(o)
                  /\ AtPage(o, link[s], Unread, connectionId, serverSequence, last)
                  /\ \A k \in Items(r) : k.hello # 0 /\ k.hello # connectionId => k.ev >= last
                  /\ m.hello # 0 /\ m.hello # connectionId => m.ev >= last
  <2> SUFFICES ASSUME s = conn
               PROVE  /\ Took(r) /\ Took(o)
                      /\ AtPage(o, link[s], Unread, connectionId, serverSequence, last)
                      /\ \A k \in Items(r) : k.hello # 0 /\ k.hello # connectionId => k.ev >= last
                      /\ m.hello # 0 /\ m.hello # connectionId => m.ev >= last
    OBVIOUS
  <2>1. AtPage(o, link[s], Unread, connectionId, serverSequence, last) /\ Took(o)
    BY HandlerIs
  <2>2. \A k \in Items(o) : k.hello # 0 /\ k.hello # connectionId => k.ev >= last
    BY <2>1 DEF AtPage
  <2> QED
    BY <1>3, <2>1, <2>2 DEF Took
<1>8. CASE link[s] # "up"
  <2>1. wire' = wire
    BY <1>1, <1>8, WrittenIs
  <2>2. s = conn => AtPage(r, link'[s], Unread, connectionId, serverSequence, last)
    <3>1. s = conn /\ Unread # <<>> => r.id = StreamOf(Unread, connectionId)
      BY <1>0, <1>2, <1>7 DEF AtPage
    <3> QED
      BY <1>0, <1>1, <1>2, <1>7, <1>8, <3>1 DEF AtPage
  <2> QED
    BY <1>1, <1>5, <1>6, <1>7, <1>8, <2>1, <2>2, OneQuiet
<1>9. CASE link[s] = "up"
  <2> DEFINE ms == <<m>>
  <2>1. wire' = [wire EXCEPT ![s] = wire[s] \o ms]
    BY <1>1, <1>9, WrittenIs
  <2>2. ms \in Seq(Message) /\ Len(ms) = 1 /\ ms[1] = m /\ ms # <<>>
    BY <1>4
  <2>3. s = conn /\ wc[s] = o
    BY <1>9 DEF StreamInv, Links
  <2> HIDE DEF ms, o
  <2>4. Chain(ms, posted)
    <3>1. m.seq = m.seq + (1 - 1)
      BY <1>4
    <3> QED
      BY <1>4, <2>2, <3>1 DEF Chain
  <2>5. \A j \in 1..Len(ms) : ms[j] = m
    BY <2>2
  <2>6. Fits(r, m.seq + 1, m.ev)
    BY <1>3, SoundFits
  <2>7. m.hello = 0 => m.ev \in heard
    BY <1>3, <1>7, <2>3 DEF Took
  <2>8. ASSUME Unread = <<>>
        PROVE  Joins(m, connectionId, serverSequence, last) /\ r.id = StreamOf(ms, connectionId)
    <3>1. Num(o) = (IF o.id = connectionId THEN serverSequence ELSE 0)
      BY <1>0, <1>7, <1>9, <2>3, <2>8 DEF AtPage
    <3>2. CASE o.id = connectionId
      <4>1. connectionId # 0
        <5>1. connectionId = 0 => serverSequence = 0
          BY DEF StreamInv, Positions
        <5> QED
          BY <1>3, <1>4, <3>1, <3>2, <5>1
      <4>2. Fits(wc[s], serverSequence, last) /\ serverSequence >= 1 /\ last \in Nat
        BY <1>0, <2>3, <3>2, <4>1, HandlerIs DEF Streaming, Owner, Live
      <4>3. m.seq < serverSequence <=> m.ev <= last
        BY <1>3, <2>3, <4>2 DEF Fits
      <4>4. m.seq = serverSequence /\ m.hello = 0 /\ last < m.ev
        BY <1>3, <1>4, <3>1, <3>2, <4>2, <4>3
      <4> QED
        BY <1>2, <2>2, <3>2, <4>1, <4>4 DEF Joins, StreamOf
    <3>3. CASE o.id # connectionId
      <4>1. m.hello # 0 /\ m.hello = o.id
        BY <1>3, <1>4, <3>1, <3>3
      <4>2. last <= m.ev
        BY <1>4, <1>7, <2>3, <3>3, <4>1, HandlerIs
      <4> QED
        BY <1>2, <2>2, <3>3, <4>1, <4>2 DEF Joins, StreamOf
    <3> QED
      BY <3>2, <3>3
  <2>9. ASSUME Unread # <<>>
        PROVE  /\ m.seq = FrontOf(Unread, serverSequence)
               /\ Unread[Len(Unread)].ev < m.ev /\ r.id = StreamId
    BY <1>0, <1>2, <1>3, <1>9, <2>3, <2>9, NextFollows
  <2>10. Num(r) = ms[1].seq + Len(ms)
    BY <1>3, <2>2
  <2>11. s = conn /\ Unread = <<>> => /\ Joins(ms[1], connectionId, serverSequence, last)
                                      /\ r.id = StreamOf(ms, connectionId)
    BY <2>2, <2>8
  <2>12. s = conn /\ Unread # <<>> => /\ ms[1].seq = FrontOf(Unread, serverSequence)
                                      /\ Unread[Len(Unread)].ev < ms[1].ev
                                      /\ r.id = StreamId
    BY <2>2, <2>9
  <2>13. \A j \in 1..Len(ms) : /\ Fits(r, ms[j].seq + 1, ms[j].ev)
                               /\ ms[j].hello = 0 \/ ms[j].hello = r.id
                               /\ ms[j].hello = 0 => ms[j].ev \in heard
    BY <1>2, <1>4, <2>5, <2>6, <2>7
  <2>14. \A k \in Items(r) : k.hello # 0 /\ k.hello # connectionId => k.ev >= last
    BY <1>7, <2>3
  <2>15. PageAlone /\ link' = link /\ r.stage = "pumping" /\ Took(r)
    BY <1>0, <1>1, <1>2, <1>7, <2>3
  <2>16. KnownIn(r.id, wc') /\ wc' = [wc EXCEPT ![s] = r] /\ GoesOn(s, r)
    BY <1>0, <1>1, <1>5, <1>6
  <2> HIDE DEF r, m
  <2> QED
    BY <1>9, <2>1, <2>2, <2>4, <2>10, <2>11, <2>12, <2>13, <2>14, <2>15, <2>16,
       OneWrites
<1> QED
  BY <1>8, <1>9


LEMMA ResendStep ==
    ASSUME OwnersInv, OwnersInv', StreamInv, NEW s \in Sock, wc[s].stage = "registered",
           wc[s].seq # 0, NEW i \in Slots, Resend(s, i), PageAlone, link' = link
    PROVE  StreamInv'
<1> DEFINE o == wc[s]
           ms == DrainDeadQueue(wc[s].dead, wc[s].ptr, i)
           r == [wc[s] EXCEPT !.stage = "pumping", !.seq = wc[s].seq + Len(ms)]
<1>0. /\ Sound(o, s, posted) /\ o \in WebConn /\ Staged(o, s) /\ posted \in Nat
      /\ wc \in [Sock -> WebConn] /\ o.stage = "registered"
      /\ Num(o) \in Nat /\ Ring(o.dead, o.ptr, Num(o)) /\ o.seq \in Nat
  <2>1. /\ Sound(o, s, posted) /\ posted \in Nat /\ wc \in [Sock -> WebConn]
    BY HandlerIs DEF StreamInv, Links
  <2> QED
    BY <2>1, SoundFacts DEF WebConn
<1>1. wc' = [wc EXCEPT ![s] = r] /\ wire' = Written(s, ms)
  BY <1>0 DEF Resend, WebConn
<1>2. o.reused /\ o.id # 0 /\ 1 <= o.seq /\ o.seq <= Num(o)
  BY <1>0 DEF Staged
<1>3. /\ o.seq < Num(o) /\ ms \in Seq(Message) /\ Len(ms) = Num(o) - o.seq
      /\ \A k \in 1..(Num(o) - o.seq) : ms[k] \in InRing(o.dead) /\ ms[k].seq = o.seq + (k - 1)
  <2>1. InDeadQueue(o.dead, o.seq, i)
    BY DEF Resend
  <2>2. ms = DrainDeadQueue(o.dead, o.ptr, i)
    OBVIOUS
  <2> HIDE DEF o, ms
  <2> QED
    BY <1>0, <2>1, <2>2, RingDrain
<1>4. /\ r.stage = "pumping" /\ r.seq = o.seq + Len(ms) /\ r.id = o.id
      /\ r.active = o.active /\ r.listed = o.listed
      /\ r.send = o.send /\ r.dead = o.dead /\ r.ptr = o.ptr
  BY <1>0 DEF WebConn
<1> DEFINE len == Len(ms)
<1>5. len \in Nat /\ len >= 1 /\ len = Num(o) - o.seq /\ ms # <<>>
  <2>1. ms \in Seq(Message) /\ len = Num(o) - o.seq /\ len >= 1
    BY <1>0, <1>3
  <2> HIDE DEF ms, o
  <2> QED
    BY <2>1
<1> HIDE DEF ms
<1>6. r \in WebConn
  <2> DEFINE Stages == {"none", "upgraded", "ended"} \cup Live
             q == wc[s].seq + len
  <2>1. "pumping" \in Stages /\ q \in Nat
    BY <1>0, <1>5 DEF Live
  <2>2. r = [wc[s] EXCEPT !.stage = "pumping", !.seq = q]
    OBVIOUS
  <2> HIDE DEF Stages, Item, Message, Nil, r, q
  <2> QED
    BY <1>0, <2>1, <2>2 DEF WebConn, Stages
<1> HIDE DEF r, o, len
<1>7. Num(r) = Num(o) /\ Items(r) = Items(o)
  <2>1. posted <= posted
    BY <1>0
  <2> QED
    BY <1>0, <1>4, <1>6, <2>1, SoundSame
<1>8. r.seq = Num(r)
  BY <1>0, <1>4, <1>5, <1>7 DEF len
<1>9. Staged(r, s)
  <2>1. r.listed => (r.active <=> r.stage # "ended") /\ Num(r) + Len(r.send) >= 1
    BY <1>0, <1>4, <1>7 DEF Staged
  <2> QED
    BY <1>4, <1>8, <2>1 DEF Staged
<1>10. Sound(r, s, posted)
  <2>1. posted <= posted
    BY <1>0
  <2> QED
    BY <1>0, <1>4, <1>6, <1>9, <2>1, SoundSame
<1>11. GoesOn(s, r)
  BY <1>0, <1>4, <1>7, <1>10 DEF GoesOn, PumpHasBegun, Owner, Live, o
<1>12. KnownIn(r.id, wc')
  <2>1. KnownIn(o.id, wc)
    <3>1. ~Fresh(o)
      BY <1>2 DEF Fresh
    <3> QED
      BY <3>1, HandlerIs DEF o
  <2>2. Begins
    BY <1>0, <1>1, <1>4 DEF Begins, PumpHasBegun
  <2> QED
    BY <1>4, <2>1, <2>2, KnownStays
<1>13. s = conn => /\ Took(r) /\ Unread = <<>>
                   /\ o.id = connectionId /\ o.seq = serverSequence
                   /\ \A k \in Items(r) : k.hello # 0 /\ k.hello # connectionId => k.ev >= last
  <2> SUFFICES ASSUME s = conn
               PROVE  /\ Took(r) /\ Unread = <<>>
                      /\ o.id = connectionId /\ o.seq = serverSequence
                      /\ \A k \in Items(r) :
                           k.hello # 0 /\ k.hello # connectionId => k.ev >= last
    OBVIOUS
  <2>1. AtPage(o, link[s], Unread, connectionId, serverSequence, last) /\ Took(o)
    BY HandlerIs DEF o
  <2> QED
    BY <1>0, <1>2, <1>7, <2>1 DEF Took, AtPage
<1>14. CASE link[s] # "up"
  <2>1. wire' = wire
    BY <1>1, <1>14, WrittenIs
  <2>2. s = conn => AtPage(r, link'[s], Unread, connectionId, serverSequence, last)
    BY <1>4, <1>13, <1>14 DEF AtPage
  <2> QED
    BY <1>1, <1>4, <1>11, <1>12, <1>13, <2>1, <2>2, OneQuiet
<1>15. CASE link[s] = "up"
  <2>1. wire' = [wire EXCEPT ![s] = wire[s] \o ms]
    BY <1>1, <1>15, WrittenIs
  <2>2. s = conn
    BY <1>15 DEF StreamInv, Links
  <2>3. \A k \in 1..len : ms[k] \in InRing(r.dead) /\ ms[k] \in Items(o)
                          /\ ms[k].seq = o.seq + (k - 1)
    BY <1>3, <1>4, <1>5 DEF Items
  <2>4. \A k \in 1..len : /\ ms[k].hello = 0 /\ ms[k].seq # 0 /\ ms[k].ev <= posted
                          /\ ms[k].seq \in Nat /\ ms[k].ev \in Nat
                          /\ ms[k].ev \in heard
    <3> TAKE k \in 1..len
    <3>1. ms[k].seq = o.seq + (k - 1) /\ ms[k] \in Items(o)
      BY <2>3
    <3>2. ms[k].seq # 0
      BY <1>0, <1>2, <3>1
    <3>3. ms[k].hello = 0 /\ ms[k].ev <= posted
      BY <1>0, <3>1, <3>2 DEF Sound
    <3>4. ms[k].seq \in Nat /\ ms[k].ev \in Nat
      BY <1>0, <3>1, SoundFacts
    <3>5. ms[k].ev \in heard
      BY <1>7, <1>13, <2>2, <3>1, <3>3 DEF Took
    <3> QED
      BY <3>2, <3>3, <3>4, <3>5
  <2>5. 1 \in 1..len /\ ms[1].seq = o.seq
    <3>1. 1 \in 1..len
      BY <1>5
    <3>2. ms[1].seq = o.seq + (1 - 1)
      BY <2>3, <3>1
    <3> QED
      BY <1>0, <3>1, <3>2
  <2>6. Chain(ms, posted)
    <3>1. \A k \in 1..len : ms[k].seq = ms[1].seq + (k - 1)
      BY <2>3, <2>5
    <3>2. ASSUME NEW k \in 1..len, NEW l \in 1..len, k < l PROVE ms[k].ev < ms[l].ev
      <4>1. ms[k].seq = o.seq + (k - 1) /\ ms[l].seq = o.seq + (l - 1)
        BY <2>3
      <4>2. ms[k].seq < ms[l].seq
        BY <1>0, <3>2, <4>1
      <4>3. ms[k] \in Items(o) /\ ms[l] \in Items(o)
        BY <2>3
      <4> QED
        BY <1>0, <4>2, <4>3 DEF Sound
    <3> QED
      BY <2>4, <3>1, <3>2 DEF Chain, len
  <2>7. Joins(ms[1], connectionId, serverSequence, last) /\ r.id = StreamOf(ms, connectionId)
    <3>1. ms[1].seq = serverSequence /\ ms[1].hello = 0 /\ connectionId # 0
      BY <1>2, <1>13, <2>2, <2>4, <2>5
    <3>2. Fits(wc[s], serverSequence, last)
      BY <1>0, <1>2, <1>13, <2>2, HandlerIs DEF Streaming, Owner, Live, o
    <3>3. ms[1].seq < serverSequence <=> ms[1].ev <= last
      BY <2>3, <2>5, <3>2 DEF Fits, o
    <3>4. last < ms[1].ev
      <4>1. last \in Nat /\ serverSequence \in Nat
        BY HandlerIs
      <4> QED
        BY <2>4, <2>5, <3>1, <3>3, <4>1
    <3> QED
      BY <1>4, <1>13, <2>2, <3>1, <3>4 DEF Joins, StreamOf
  <2>8. Num(r) = ms[1].seq + Len(ms)
    BY <1>0, <1>5, <1>7, <2>5 DEF len
  <2>9. \A j \in 1..Len(ms) : /\ Fits(r, ms[j].seq + 1, ms[j].ev)
                              /\ ms[j].hello = 0 \/ ms[j].hello = r.id
                              /\ ms[j].hello = 0 => ms[j].ev \in heard
    BY <1>10, <2>3, <2>4, SoundFits DEF len
  <2> QED
    BY <1>1, <1>3, <1>4, <1>5, <1>11, <1>12, <1>13, <1>15, <2>1, <2>2, <2>6, <2>7, <2>8,
       <2>9, OneWrites
<1> QED
  BY <1>14, <1>15

LEMMA NewestIs ==
    ASSUME NEW s \in Sock, wc[s].ptr \in Slots
    PROVE  Newest(s) = wc[s].dead[Before(wc[s].ptr)].ev
<1> DEFINE p == wc[s].ptr
           x == p + DeadQueueSize - 1
<1>1. x \in Nat /\ x < 2 * DeadQueueSize /\ p \in Slots
  BY SlotSize
<1>2. IF x < DeadQueueSize THEN x = Before(p) ELSE x - DeadQueueSize = Before(p)
  BY <1>1, SlotSize DEF Before
<1> HIDE DEF x
<1>3. x % DeadQueueSize = Before(p)
  BY <1>1, <1>2, Wraps
<1> QED
  BY <1>3 DEF Newest, x

LEMMA LostStep ==
    ASSUME OwnersInv, OwnersInv', StreamInv, NEW s \in Sock, wc[s].stage = "registered",
           wc[s].seq # 0, ~InQueue(s), HasMsgLoss(wc[s].dead, wc[s].ptr, wc[s].seq),
           Lost(s), PageAlone, link' = link
    PROVE  StreamInv'
<1> DEFINE o == wc[s]
           id == MaxSockets + s
           m == FirstHello(o, id)
           r == AfterLoss(o, id, m)
<1>0. /\ Sound(o, s, posted) /\ o \in WebConn /\ Staged(o, s) /\ posted \in Nat
      /\ wc \in [Sock -> WebConn] /\ o.stage = "registered"
      /\ Num(o) \in Nat /\ Ring(o.dead, o.ptr, Num(o)) /\ o.seq \in Nat /\ o.ptr \in Slots
  <2>1. /\ Sound(o, s, posted) /\ posted \in Nat /\ wc \in [Sock -> WebConn]
    BY HandlerIs DEF StreamInv, Links
  <2> QED
    BY <2>1, SoundFacts DEF WebConn
<1>1. wc' = [wc EXCEPT ![s] = r] /\ wire' = Written(s, <<m>>)
  <2>1. m = [seq |-> 0, hello |-> MaxSockets + s, ev |-> Newest(s)]
    BY <1>0, NewestIs DEF FirstHello
  <2>2. m.hello = id
    BY DEF FirstHello
  <2> QED
    BY <2>1, <2>2 DEF Lost, AfterLoss
<1>2. o.reused /\ o.id # 0 /\ 1 <= o.seq /\ o.seq <= Num(o)
  BY <1>0 DEF Staged
<1>3. /\ id \in Nat \ {0} /\ ~PumpHasBegun(o) /\ ~KnownIn(id, wc)
      /\ \A w : KnownIn(id, w) <=> PumpHasBegun(w[s])
  BY <1>0, OwnIdsKnown DEF PumpHasBegun
<1>4. /\ m.seq = 0 /\ m.hello = id /\ m.ev = o.dead[Before(o.ptr)].ev
  BY DEF FirstHello
<1>5. r.stage = "pumping" /\ r.id = id /\ PumpHasBegun(r)
  BY <1>0 DEF AfterLoss, WebConn, PumpHasBegun
<1>u. m = FirstHello(o, id) /\ r = AfterLoss(o, id, m) /\ o.seq # 0
  OBVIOUS
<1>v. id \in Nat \ {0}
  BY OwnIdsKnown
<1> HIDE DEF o, id, m, r
<1>6. /\ Sound(r, s, posted) /\ Num(r) = 1 /\ m \in Message
      /\ m \in InRing(r.dead) /\ Items(r) = {m} \cup Waiting(r)
      /\ \A x \in Waiting(r) : /\ x.hello = 0
                               /\ \E k \in Waiting(o) : k.ev = x.ev /\ k.hello = 0
      /\ o.dead[Before(o.ptr)] \in InRing(o.dead)
      /\ o.dead[Before(o.ptr)].seq = Num(o) - 1
  <2>1. Sound(o, s, posted) /\ posted \in Nat /\ o.stage = "registered"
    BY <1>0
  <2>2. Sound(r, s, posted) /\ Num(r) = 1 /\ m \in Message
    BY <1>u, <1>v, <2>1, SoundLost
  <2>5. m \in InRing(r.dead)
    BY <1>u, <1>v, <2>1, SoundLost
  <2>6. Items(r) = {m} \cup Waiting(r)
    BY <1>u, <1>v, <2>1, SoundLost
  <2>3. \A x \in Waiting(r) : /\ x.hello = 0
                             /\ \E k \in Waiting(o) : k.ev = x.ev /\ k.hello = 0
    BY <1>u, <1>v, <2>1, SoundLost
  <2>4. /\ o.dead[Before(o.ptr)] \in InRing(o.dead)
        /\ o.dead[Before(o.ptr)].seq = Num(o) - 1
    BY <1>u, <1>v, <2>1, SoundLost
  <2> QED
    BY <2>2, <2>3, <2>4, <2>5, <2>6
<1>7. GoesOn(s, r)
  BY <1>3, <1>5, <1>6 DEF GoesOn, o
<1>8. KnownIn(r.id, wc')
  <2>1. wc'[s] = r
    BY <1>0, <1>1
  <2>2. KnownIn(id, wc') <=> PumpHasBegun(wc'[s])
    BY <1>3
  <2> QED
    BY <1>5, <2>1, <2>2
<1>9. o.seq + DeadQueueSize < Num(o)
  <2>1. \A i \in Slots : ~InDeadQueue(o.dead, o.seq, i)
    BY DEF InQueue, o
  <2>2. /\ (\A i \in Slots : ~InDeadQueue(o.dead, o.seq, i)) =>
             o.seq = Num(o) \/ o.seq + DeadQueueSize < Num(o)
        /\ HasMsgLoss(o.dead, o.ptr, o.seq) <=> o.seq # Num(o)
    BY <1>0, <1>2, RingSearch
  <2> QED
    BY <2>1, <2>2 DEF o
<1>10. m.ev \in Nat /\ m.ev <= posted /\ m.seq = 0
  <2>1. o.dead[Before(o.ptr)] \in Items(o)
    BY <1>6 DEF Items
  <2> QED
    BY <1>0, <1>4, <2>1, SoundFacts DEF Sound
<1>11. s = conn => /\ Took(r) /\ Unread = <<>> /\ last <= m.ev /\ id # connectionId
                   /\ \A k \in Items(r) : k.hello # 0 /\ k.hello # connectionId => k.ev >= last
  <2> SUFFICES ASSUME s = conn
               PROVE  /\ Took(r) /\ Unread = <<>> /\ last <= m.ev /\ id # connectionId
                      /\ \A k \in Items(r) :
                           k.hello # 0 /\ k.hello # connectionId => k.ev >= last
    OBVIOUS
  <2>1. AtPage(o, link[s], Unread, connectionId, serverSequence, last) /\ Took(o)
    BY HandlerIs DEF o
  <2>2. Unread = <<>> /\ o.id = connectionId /\ o.seq = serverSequence
    BY <1>0, <1>2, <2>1 DEF AtPage
  <2>3. id # connectionId
    BY <1>3, HandlerIs
  <2>4. Fits(wc[s], serverSequence, last)
    BY <1>0, <1>2, <2>2, HandlerIs DEF Streaming, Owner, Live, o
  <2>5. last <= m.ev
    <3> DEFINE n == o.dead[Before(o.ptr)]
    <3>1. n \in Items(o) /\ n.seq = Num(o) - 1 /\ n.ev = m.ev
      BY <1>4, <1>6 DEF Items
    <3> HIDE DEF n
    <3>2. n.seq < serverSequence <=> n.ev <= last
      BY <2>4, <3>1 DEF Fits, o
    <3>3. last \in Nat /\ ~(n.seq < serverSequence)
      BY <1>0, <1>9, <2>2, <3>1, HandlerIs, SlotSize
    <3> QED
      BY <1>10, <3>1, <3>2, <3>3
  <2>6. \A k \in Items(r) : k.hello # 0 => k = m
    BY <1>6
  <2>7. \A k \in Items(r) : k.hello # 0 /\ k.hello # connectionId => k.ev >= last
    BY <1>10, <2>5, <2>6, HandlerIs
  <2>8. Took(r)
    <3> SUFFICES ASSUME NEW k \in Items(r), k.hello = 0 PROVE k.ev \in heard
      BY DEF Took
    <3>1. k \in Waiting(r)
      BY <1>3, <1>4, <1>6
    <3>2. PICK l \in Waiting(o) : l.ev = k.ev /\ l.hello = 0
      BY <1>6, <3>1
    <3> QED
      BY <2>1, <3>2 DEF Took, Items
  <2> QED
    BY <2>2, <2>3, <2>5, <2>7, <2>8
<1>12. CASE link[s] # "up"
  <2>1. wire' = wire
    BY <1>1, <1>12, WrittenIs
  <2>2. s = conn => AtPage(r, link'[s], Unread, connectionId, serverSequence, last)
    BY <1>5, <1>11, <1>12 DEF AtPage
  <2> QED
    BY <1>1, <1>5, <1>7, <1>8, <1>11, <2>1, <2>2, OneQuiet
<1>13. CASE link[s] = "up"
  <2> DEFINE ms == <<m>>
  <2>1. wire' = [wire EXCEPT ![s] = wire[s] \o ms]
    BY <1>1, <1>13, WrittenIs
  <2>2. ms \in Seq(Message) /\ Len(ms) = 1 /\ ms[1] = m /\ ms # <<>>
    BY <1>6
  <2>3. s = conn
    BY <1>13 DEF StreamInv, Links
  <2> HIDE DEF ms
  <2>4. Chain(ms, posted)
    <3>1. m.seq = m.seq + (1 - 1)
      BY <1>10
    <3> QED
      BY <1>3, <1>4, <1>10, <2>2, <3>1 DEF Chain
  <2>5. Joins(ms[1], connectionId, serverSequence, last) /\ r.id = StreamOf(ms, connectionId)
    BY <1>3, <1>4, <1>5, <1>11, <2>2, <2>3 DEF Joins, StreamOf
  <2>6. Fits(r, m.seq + 1, m.ev)
    BY <1>6, SoundFits
  <2>7. \A j \in 1..Len(ms) : /\ Fits(r, ms[j].seq + 1, ms[j].ev)
                              /\ ms[j].hello = 0 \/ ms[j].hello = r.id
                              /\ ms[j].hello = 0 => ms[j].ev \in heard
    <3>1. \A j \in 1..Len(ms) : ms[j] = m
      BY <2>2
    <3>2. m.hello = r.id /\ m.hello # 0
      BY <1>3, <1>4, <1>5
    <3> QED
      BY <2>6, <3>1, <3>2
  <2>8. Num(r) = ms[1].seq + Len(ms)
    BY <1>6, <1>10, <2>2
  <2> QED
    BY <1>1, <1>5, <1>7, <1>8, <1>11, <1>13, <2>1, <2>2, <2>3, <2>4, <2>5, <2>7, <2>8,
       OneWrites
<1> QED
  BY <1>12, <1>13

LEMMA PumpStartsStep ==
    ASSUME OwnersInv, OwnersInv', StreamInv, NEW s \in Sock, WritePumpStarts(s)
    PROVE  StreamInv'
<1>1. wc[s].stage = "registered" /\ PageAlone /\ link' = link
  <2>1. drops' \in Nat
    BY DEF WritePumpStarts, StreamInv, Counts
  <2> QED
    BY <2>1 DEF WritePumpStarts, PageAlone, hubVars, clientVars, pageVars
<1>2. CASE wc[s].seq # 0 /\ \E i \in Slots : Resend(s, i)
  BY <1>1, <1>2, ResendStep
<1>3. CASE /\ wc[s].seq # 0 /\ ~InQueue(s)
           /\ HasMsgLoss(wc[s].dead, wc[s].ptr, wc[s].seq) /\ Lost(s)
  BY <1>1, <1>3, LostStep
<1>4. CASE /\ \/ wc[s].seq = 0
              \/ ~InQueue(s) /\ ~HasMsgLoss(wc[s].dead, wc[s].ptr, wc[s].seq)
           /\ wc' = [wc EXCEPT ![s].stage = "pumping"]
           /\ UNCHANGED wire
  BY <1>1, <1>4, PlainStep
<1> QED
  BY <1>2, <1>3, <1>4 DEF WritePumpStarts

LEMMA UpgradeStep ==
    ASSUME OwnersInv, StreamInv, NEW s \in Sock, Upgrade(s) PROVE StreamInv'
<1> DEFINE o == wc[s]
           r == [wc[s] EXCEPT !.stage = "upgraded"]
<1>0. /\ Counts /\ Links /\ Phase /\ Wires /\ wc \in [Sock -> WebConn]
      /\ wire \in [Sock -> Seq(Message)]
      /\ link \in [Sock -> {"none", "dialling", "up", "cut"}]
  BY DEF StreamInv, OwnersInv, Counts, Links
<1>1. s = conn /\ o.stage = "none"
  BY <1>0 DEF Upgrade, Links, Wires
<1>2. /\ Sound(o, s, posted) /\ Staged(o, s) /\ posted \in Nat /\ o \in WebConn
      /\ AtPage(o, link[s], Unread, connectionId, serverSequence, last) /\ Took(o)
      /\ KnownIn(o.id, wc)
  <2>1. ~Fresh(o)
    BY <1>1 DEF Fresh
  <2> QED
    BY <1>1, <2>1, HandlerIs
<1>3. wc' = [wc EXCEPT ![s] = r]
  BY <1>0 DEF Upgrade
<1>4. /\ r.stage = "upgraded" /\ r.listed = o.listed /\ r.id = o.id /\ r.seq = o.seq
      /\ r.send = o.send /\ r.dead = o.dead /\ r.ptr = o.ptr
  BY <1>2 DEF WebConn
<1>5. r \in WebConn
  <2> DEFINE Stages == {"none", "upgraded", "ended"} \cup Live
  <2>1. "upgraded" \in Stages
    OBVIOUS
  <2> HIDE DEF Stages, Item, Message, Nil
  <2> QED
    BY <1>2, <2>1 DEF WebConn, Stages
<1>6. /\ wire' = wire /\ PageAlone /\ link'[s] = "up"
      /\ \A t \in Sock : t # s => link'[t] = link[t]
      /\ link' \in [Sock -> {"none", "dialling", "up", "cut"}]
  BY <1>0 DEF Upgrade, PageAlone, Counts, hubVars, clientVars, pageVars
<1> HIDE DEF r
<1>7. Staged(r, s)
  BY <1>1, <1>2, <1>4 DEF Staged, Empty
<1>8. Sound(r, s, posted) /\ Items(r) = Items(o)
  <2>1. posted <= posted
    BY <1>2
  <2> QED
    BY <1>2, <1>4, <1>5, <1>7, <2>1, SoundSame
<1>9. GoesOn(s, r)
  BY <1>1, <1>2, <1>4, <1>8 DEF GoesOn, PumpHasBegun, Live, Staged
<1>10. Fresh(r) \/ KnownIn(r.id, wc')
  <2>1. Begins
    BY <1>0, <1>1, <1>3 DEF Begins, PumpHasBegun
  <2> QED
    BY <1>2, <1>4, <2>1, KnownStays
<1>11. /\ PageRests /\ Counts' /\ posted' = posted /\ conn' = conn
       /\ opened' = opened /\ failed' = failed /\ syncing' = syncing /\ nsock' = nsock
       /\ last' = last /\ connectionId' = connectionId
       /\ serverSequence' = serverSequence
  BY <1>0, <1>6, PageAloneFacts
<1>12. /\ Sounds' /\ Begins /\ Follows /\ Proceeds /\ wc' \in [Sock -> WebConn]
       /\ wc'[s] = r /\ \A t \in Sock \ {s} : wc'[t] = wc[t]
  BY <1>3, <1>9, <1>10, <1>11, OneMoves
<1>13. Links'
  <2>1. \A t \in Sock : link'[t] = "up" => wc'[t].stage \notin {"none", "ended"}
    BY <1>0, <1>4, <1>6, <1>12 DEF Links
  <2> QED
    BY <1>0, <1>1, <1>6, <1>11, <1>12, <2>1 DEF Links
<1>14. Phase'
  <2>1. Unread' = Unread
    BY <1>6, <1>11 DEF Unread
  <2>2. AtPage(r, link'[s], Unread, connectionId, serverSequence, last)
    BY <1>1, <1>2, <1>4, <1>8 DEF AtPage
  <2> QED
    BY <1>1, <1>11, <1>12, <2>1, <2>2 DEF Phase
<1>15. Took(wc'[conn])
  BY <1>1, <1>2, <1>8, <1>12 DEF Took
<1> QED
  BY <1>6, <1>11, <1>12, <1>13, <1>14, <1>15, QuietStep

LEMMA HandOverStep ==
    ASSUME OwnersInv, StreamInv, NEW s \in Sock, NEW t \in Sock,
           wc[s].stage = "upgraded", wc[s].id # 0, HandOver(s, t),
           PageAlone, wire' = wire, link' = link
    PROVE  StreamInv'
<1> DEFINE o == wc[s]
           w == wc[t]
           r == [wc[s] EXCEPT !.stage = "checked", !.reused = TRUE,
                              !.send = wc[t].send, !.dead = wc[t].dead,
                              !.ptr = wc[t].ptr]
<1>0. /\ Counts /\ Links /\ Phase /\ Wires /\ Ids /\ Dialled /\ Sounds /\ HeardIs
      /\ wc \in [Sock -> WebConn]
  BY DEF StreamInv, OwnersInv, Links
<1>1. /\ Sound(o, s, posted) /\ Staged(o, s) /\ posted \in Nat /\ o \in WebConn
      /\ Sound(w, t, posted) /\ Staged(w, t) /\ w \in WebConn /\ Num(w) \in Nat
      /\ o.stage = "upgraded" /\ o.id # 0
  BY HandlerIs
<1>2. /\ w.listed /\ ~w.active /\ w.id = o.id /\ w.stage = "ended" /\ ~o.listed /\ s # t
      /\ Owner(t)
  BY <1>1 DEF HandOver, Inactive, Staged, Owner
<1>3. /\ wc' = [wc EXCEPT ![t] = Gone, ![s] = r] /\ wc'[s] = r /\ wc'[t] = Gone
      /\ \A n \in Sock : n # s /\ n # t => wc'[n] = wc[n]
  BY <1>0, <1>2 DEF HandOver
<1>4. /\ r.stage = "checked" /\ r.reused /\ ~r.listed /\ r.id = o.id /\ r.seq = o.seq
      /\ r.send = w.send /\ r.dead = w.dead /\ r.ptr = w.ptr
  BY <1>1, <1>2 DEF WebConn
<1>5. r \in WebConn
  <2> DEFINE Stages == {"none", "upgraded", "ended"} \cup Live
             Queues == Seq(Item)
             Rings == [Slots -> Message \cup {Nil}]
  <2>1. "checked" \in Stages
    BY DEF Live
  <2>2. w.send \in Queues /\ w.dead \in Rings /\ w.ptr \in Slots
    BY <1>1 DEF WebConn
  <2>3. WebConn = [stage : Stages, id : Nat, seq : Nat, reused : BOOLEAN,
                   send : Queues, closed : BOOLEAN, dead : Rings, ptr : Slots,
                   active : BOOLEAN, listed : BOOLEAN]
    BY DEF WebConn
  <2> HIDE DEF Stages, Queues, Rings
  <2> QED
    BY <1>1, <2>1, <2>2, <2>3
<1> HIDE DEF r
<1>6. Num(r) = Num(w) /\ Items(r) = Items(w)
  <2>1. posted <= posted
    BY <1>1
  <2> HIDE DEF w
  <2> QED
    BY <1>1, <1>4, <1>5, <2>1, SoundSame
<1>7. Staged(r, s)
  <2>1. Streaming(t, o.id)
    BY <1>1, <1>2 DEF Streaming
  <2>2. o.seq >= 1 /\ o.seq <= Num(w)
    BY <1>0, <1>1, <2>1 DEF Dialled
  <2>3. o.seq \in Nat
    BY <1>1 DEF WebConn
  <2> QED
    BY <1>1, <1>4, <1>6, <2>2, <2>3 DEF Staged
<1>8. Sound(r, s, posted)
  <2>1. posted <= posted
    BY <1>1
  <2> QED
    BY <1>1, <1>2, <1>4, <1>5, <1>7, <2>1, SoundSame
<1>9. /\ Sound(Gone, t, posted) /\ Items(Gone) = {} /\ Gone.stage = "ended"
      /\ ~Gone.listed /\ Gone.id = 0 /\ Gone \in WebConn
  <2>1. Sound(Gone, t, posted)
    BY NewIsSound
  <2> QED
    BY <2>1, NewIsSound, SoundFacts
<1> HIDE DEF Gone
<1>10. wc' \in [Sock -> WebConn]
  BY <1>0, <1>3, <1>5, <1>9
<1>11. /\ PageRests /\ Counts' /\ posted' = posted /\ conn' = conn
       /\ opened' = opened /\ failed' = failed /\ syncing' = syncing /\ nsock' = nsock
       /\ last' = last /\ connectionId' = connectionId
       /\ serverSequence' = serverSequence
  BY <1>0, PageAloneFacts DEF Counts
<1>12. Sounds'
  <2>1. \A n \in Sock : Sound(wc'[n], n, posted)
    BY <1>0, <1>3, <1>8, <1>9 DEF Sounds
  <2> QED
    BY <1>11, <2>1 DEF Sounds
<1>13. Begins
  BY <1>1, <1>3, <1>9 DEF Begins, PumpHasBegun
<1>14. Follows
  <2> SUFFICES ASSUME NEW n \in Sock, Owner(n)'
               PROVE  \E u \in Sock : /\ Owner(u) /\ wc[u].id = wc'[n].id
                                      /\ Num(wc[u]) <= Num(wc'[n])
                                      /\ Items(wc'[n]) \subseteq Items(wc[u])
    BY DEF Follows
  <2>1. CASE n = s
    <3>1. Num(w) <= Num(r) /\ wc[t].id = r.id /\ Items(r) \subseteq Items(w)
      BY <1>1, <1>2, <1>4, <1>6
    <3> QED
      BY <1>2, <1>3, <2>1, <3>1
  <2>2. CASE n = t
    BY <1>3, <1>9, <2>2 DEF Owner, Live
  <2>3. CASE n # s /\ n # t
    <3>1. wc'[n] = wc[n] /\ Owner(n) /\ Num(wc[n]) \in Nat
      BY <1>3, <2>3, HandlerIs DEF Owner
    <3>2. Num(wc[n]) <= Num(wc[n])
      BY <3>1
    <3> QED
      BY <3>1, <3>2
  <2> QED
    BY <2>1, <2>2, <2>3
<1>15. Proceeds
  <2>1. \A id : KnownIn(id, wc) => KnownIn(id, wc')
    BY <1>13, KnownStays
  <2>2. KnownIn(o.id, wc)
    BY <1>0, <1>1 DEF Ids, Fresh
  <2>3. KnownIn(0, wc')
    BY OwnIdsKnown
  <2> QED
    BY <1>0, <1>3, <1>4, <1>9, <2>1, <2>2, <2>3 DEF Proceeds, Ids
<1>16. Links'
  <2>1. \A n \in Sock : link'[n] = "up" => wc'[n].stage \notin {"none", "ended"}
    BY <1>0, <1>2, <1>3, <1>4 DEF Links
  <2> QED
    BY <1>0, <1>10, <1>11, <2>1 DEF Links
<1>17. ASSUME conn # 0
       PROVE  /\ Took(wc'[conn])
              /\ AtPage(wc'[conn], link[conn], Unread, connectionId, serverSequence, last)
  <2>1. conn \in Sock
    BY <1>17, HandlerIs
  <2>2. AtPage(wc[conn], link[conn], Unread, connectionId, serverSequence, last)
        /\ Took(wc[conn])
    BY <1>17, HandlerIs
  <2>3. CASE conn = s
    <3>1. Unread = <<>> /\ o.id = connectionId /\ o.seq = serverSequence
      BY <1>1, <2>2, <2>3 DEF AtPage
    <3>2. Took(w)
      BY <1>0, <1>1, <1>2, <3>1 DEF HeardIs, Streaming
    <3>3. \A m \in Items(r) : m.hello # 0 => m.hello = connectionId
      BY <1>4, <1>8, <3>1 DEF Sound
    <3> QED
      BY <1>3, <1>4, <1>6, <2>3, <3>1, <3>2, <3>3 DEF Took, AtPage
  <2>4. CASE conn = t
    BY <1>3, <1>9, <2>4 DEF Took, AtPage
  <2>5. CASE conn # s /\ conn # t
    BY <1>3, <2>1, <2>2, <2>5
  <2> QED
    BY <2>3, <2>4, <2>5
<1>18. Phase'
  <2>1. Unread' = Unread
    BY <1>11 DEF Unread
  <2> QED
    BY <1>11, <1>17, <2>1 DEF Phase
<1> QED
  BY <1>11, <1>12, <1>13, <1>14, <1>15, <1>16, <1>17, <1>18, QuietStep

LEMMA CheckStep ==
    ASSUME OwnersInv, StreamInv, NEW s \in Sock, CheckConn(s) PROVE StreamInv'
<1>1. PageAlone /\ wire' = wire /\ link' = link /\ wc[s].stage = "upgraded"
  <2>1. drops' \in Nat
    BY DEF CheckConn, StreamInv, Counts
  <2> QED
    BY <2>1 DEF CheckConn, PageAlone, hubVars, clientVars, pageVars
<1>2. CASE wc[s].id # 0 /\ \E t \in Sock : HandOver(s, t)
  BY <1>1, <1>2, HandOverStep
<1>3. CASE StartAfresh(s)
  BY <1>1, <1>3, AfreshStep
<1> QED
  BY <1>2, <1>3 DEF CheckConn

-----------------------------------------------------------------------------
(***************************************************************************)
(* An event is broadcast.                                                  *)
(***************************************************************************)
LEMMA FitsMore ==
    ASSUME NEW r, NEW r2, Num(r) \in Nat, Num(r2) = Num(r), NEW p \in Nat, NEW x,
           x.seq \in Nat, x.seq >= Num(r), x.ev = p + 1,
           Items(r2) \subseteq Items(r) \cup {x}
    PROVE  \A q \in Nat, e \in Nat : Fits(r, q, e) /\ e <= p => Fits(r2, q, e)
  BY DEF Fits

\* What becomes of one WebConn.
LEMMA QueuedFor ==
    ASSUME OwnersInv, StreamInv, Post, NEW t \in Sock
    PROVE  /\ wc'[t].stage = wc[t].stage /\ wc'[t].id = wc[t].id
           /\ wc'[t].seq = wc[t].seq /\ wc'[t].reused = wc[t].reused
           /\ wc'[t].listed => wc[t].listed
           /\ Sound(wc'[t], t, posted + 1) /\ Num(wc'[t]) = Num(wc[t])
           /\ Items(wc'[t]) \subseteq Items(wc[t])
              \/ /\ wc[t].listed /\ ~Full(t)
                 /\ \E x : /\ Items(wc'[t]) \subseteq Items(wc[t]) \cup {x}
                           /\ x.seq \in Nat /\ x.seq >= Num(wc[t])
                           /\ x.hello = 0 /\ x.ev = posted + 1
           /\ wc[t] = Gone => wc'[t] = Gone
<1> DEFINE o == wc[t]
<1>0. /\ Sound(o, t, posted) /\ o \in WebConn /\ Staged(o, t) /\ Num(o) \in Nat
      /\ posted \in Nat /\ posted <= posted + 1 /\ Len(o.send) \in Nat
  <2>1. /\ Sound(o, t, posted) /\ o \in WebConn /\ Staged(o, t) /\ Num(o) \in Nat
        /\ posted \in Nat
    BY HandlerIs
  <2>2. Len(o.send) \in Nat
    BY <2>1, SoundFacts
  <2>3. posted <= posted + 1
    BY <2>1
  <2> QED
    BY <2>1, <2>2, <2>3
<1>1. wc'[t] = IF ~o.listed THEN o
               ELSE IF Full(t) THEN [wc[t] EXCEPT !.closed = TRUE, !.listed = FALSE]
               ELSE [wc[t] EXCEPT !.send = Append(@, [hello |-> 0, ev |-> posted + 1])]
  BY DEF Post, Broadcast
<1>2. CASE ~o.listed
  <2>1. wc'[t] = o
    BY <1>1, <1>2
  <2>2. Sound(o, t, posted + 1)
    BY <1>0, SoundSame
  <2> QED
    BY <2>1, <2>2
<1>3. CASE o.listed /\ Full(t)
  <2> DEFINE r == [wc[t] EXCEPT !.closed = TRUE, !.listed = FALSE]
  <2>1. wc'[t] = r
    BY <1>1, <1>3
  <2>2. /\ r.stage = o.stage /\ r.id = o.id /\ r.seq = o.seq /\ r.reused = o.reused
        /\ r.send = o.send /\ r.dead = o.dead /\ r.ptr = o.ptr /\ ~r.listed
    BY <1>0 DEF WebConn
  <2>3. r \in WebConn
    <3> HIDE DEF Item, Message, Nil
    <3> QED
      BY <1>0 DEF WebConn
  <2> HIDE DEF r
  <2>4. Num(r) = Num(o) /\ Items(r) = Items(o)
    <3>1. posted <= posted
      BY <1>0
    <3> HIDE DEF o
    <3> QED
      BY <1>0, <2>2, <2>3, <3>1, SoundSame
  <2>5. Staged(r, t)
    BY <1>0, <1>3, <2>2, <2>4 DEF Staged
  <2>6. Sound(r, t, posted + 1)
    <3> HIDE DEF o
    <3> QED
      BY <1>0, <2>2, <2>3, <2>5, SoundSame
  <2>7. o # Gone
    BY <1>3 DEF Gone, NewWebConn
  <2> QED
    BY <1>3, <2>1, <2>2, <2>4, <2>6, <2>7
<1>4. CASE o.listed /\ ~Full(t)
  <2> DEFINE r == [wc[t] EXCEPT !.send = Append(@, [hello |-> 0, ev |-> posted + 1])]
             x == [seq |-> Num(o) + Len(o.send), hello |-> 0, ev |-> posted + 1]
  <2>1. wc'[t] = r
    BY <1>1, <1>4
  <2>2. /\ r.stage = o.stage /\ r.id = o.id /\ r.seq = o.seq /\ r.reused = o.reused
        /\ r.listed = o.listed
    BY <1>0 DEF WebConn
  <2>3. r = [o EXCEPT !.send = Append(@, [hello |-> 0, ev |-> posted + 1])]
    OBVIOUS
  <2>4. o # Gone
    BY <1>4 DEF Gone, NewWebConn
  <2> HIDE DEF r, o
  <2>5. Sound(r, t, posted + 1) /\ Num(r) = Num(o) /\ Items(r) = Items(o) \cup {x}
    <3>1. /\ Sound(o, t, posted) /\ o.listed /\ posted \in Nat
      BY <1>0, <1>4
    <3>2. /\ Sound(r, t, posted + 1) /\ Num(r) = Num(o)
          /\ Items(r) = Items(o) \cup
               {[seq |-> Num(o) + Len(o.send), hello |-> 0, ev |-> posted + 1]}
          /\ Waiting(r) = Waiting(o) \cup
               {[seq |-> Num(o) + Len(o.send), hello |-> 0, ev |-> posted + 1]}
      BY <2>3, <3>1, SoundQueued
    <3> QED
      BY <3>2
  <2>6. x.seq \in Nat /\ x.seq >= Num(o) /\ x.hello = 0 /\ x.ev = posted + 1
    BY <1>0
  <2> HIDE DEF x
  <2> QED
    BY <1>4, <2>1, <2>2, <2>4, <2>5, <2>6 DEF o
<1> QED
  BY <1>2, <1>3, <1>4

LEMMA PostStep ==
    ASSUME OwnersInv, StreamInv, Post PROVE StreamInv'
<1>0. /\ Sounds /\ Counts /\ Links /\ Ids /\ Dialled /\ Positions /\ InRow /\ Phase
      /\ HeardIs /\ Wires
  BY DEF StreamInv, OwnersInv
<1>1. /\ posted' = posted + 1 /\ posted \in Nat /\ posted + 1 <= MaxEvents
      /\ UNCHANGED <<link, wire, nsock, clientVars, pageVars, drops>>
      /\ conn' = conn /\ connectionId' = connectionId /\ serverSequence' = serverSequence
      /\ last' = last /\ last \in Nat /\ last <= posted
      /\ serverSequence \in Nat /\ MaxEvents \in Nat
  BY <1>0, SizesOK DEF Post, Counts, Positions, clientVars, pageVars
<1>2. \A t \in Sock : /\ wc'[t].stage = wc[t].stage /\ wc'[t].id = wc[t].id
                      /\ wc'[t].seq = wc[t].seq /\ wc'[t].reused = wc[t].reused
                      /\ wc'[t].listed => wc[t].listed
                      /\ Sound(wc'[t], t, posted + 1) /\ Num(wc'[t]) = Num(wc[t])
                      /\ wc[t] = Gone => wc'[t] = Gone
  BY QueuedFor
<1>3. /\ heard \subseteq heard' /\ heard' \subseteq 1..posted'
      /\ Queued(posted + 1) => posted + 1 \in heard'
  <2>1. /\ heard \subseteq heard' /\ heard' \subseteq heard \cup {posted + 1}
        /\ Queued(posted + 1) => posted + 1 \in heard'
    BY DEF Post
  <2>2. heard \subseteq 1..posted
    BY <1>0 DEF Counts
  <2> QED
    BY <1>1, <2>1, <2>2
<1>4. Sounds'
  BY <1>1, <1>2 DEF Sounds
<1>5. Counts'
  <2>1. /\ early' \subseteq early \cup {posted + 1}
        /\ handover' \subseteq handover \cup {posted + 1}
    BY DEF Post
  <2>2. /\ page \subseteq 1..posted /\ early \subseteq 1..posted
        /\ handover \subseteq 1..posted
    BY <1>0 DEF Counts
  <2>3. /\ early' \subseteq 1..posted' /\ handover' \subseteq 1..posted'
        /\ page \subseteq 1..posted' /\ posted' \in 0..MaxEvents
    BY <1>1, <2>1, <2>2
  <2> QED
    BY <1>0, <1>1, <1>3, <2>3 DEF Counts, clientVars, pageVars
<1>6. Links'
  <2>1. wc' \in [Sock -> WebConn]
    <3>1. \A t \in Sock : wc'[t] \in WebConn
      BY <1>2 DEF Sound
    <3>2. wc' = [t \in Sock |-> wc'[t]]
      BY DEF Post, Broadcast
    <3> QED
      BY <3>1, <3>2
  <2> QED
    BY <1>0, <1>1, <1>2, <2>1 DEF Links, clientVars, pageVars
<1>7. Unread' = Unread /\ StreamId' = StreamId
  BY <1>1 DEF Unread, StreamId
<1>8. \A id : KnownIn(id, wc') <=> KnownIn(id, wc)
  BY <1>2 DEF KnownIn, PumpHasBegun
<1>9. Ids'
  BY <1>0, <1>1, <1>2, <1>7, <1>8 DEF Ids, Fresh
<1>10. \A t \in Sock : \A id : Streaming(t, id)' => Streaming(t, id)
  BY <1>2 DEF Streaming, Owner
<1>11. Dialled'
  BY <1>0, <1>2, <1>10 DEF Dialled, Streaming
<1>12. ASSUME NEW t \in Sock
       PROVE  /\ \A q \in Nat, e \in Nat : Fits(wc[t], q, e) /\ e <= posted
                                           => Fits(wc'[t], q, e)
              /\ (t = conn \/ Streaming(t, connectionId)) /\ Took(wc[t]) =>
                   \A m \in Items(wc'[t]) : m.hello = 0 => m.ev \in heard'
              /\ \A m \in Items(wc'[t]) : m \in Items(wc[t]) \/ m.hello = 0
  <2>1. Num(wc[t]) \in Nat /\ Num(wc'[t]) = Num(wc[t])
    BY <1>2, HandlerIs
  <2>2. CASE Items(wc'[t]) \subseteq Items(wc[t])
    <3>1. \A q \in Nat : \A e : Fits(wc[t], q, e) => Fits(wc'[t], q, e)
      BY <2>1, <2>2 DEF Fits
    <3> QED
      BY <1>3, <2>2, <3>1 DEF Took
  <2>3. ASSUME wc[t].listed, ~Full(t), NEW x,
               Items(wc'[t]) \subseteq Items(wc[t]) \cup {x},
               x.seq \in Nat, x.seq >= Num(wc[t]), x.hello = 0, x.ev = posted + 1
        PROVE  /\ \A q \in Nat, e \in Nat : Fits(wc[t], q, e) /\ e <= posted
                                            => Fits(wc'[t], q, e)
               /\ (t = conn \/ Streaming(t, connectionId)) /\ Took(wc[t]) =>
                   \A m \in Items(wc'[t]) : m.hello = 0 => m.ev \in heard'
               /\ \A m \in Items(wc'[t]) : m \in Items(wc[t]) \/ m.hello = 0
    <3>1. \A q \in Nat, e \in Nat : Fits(wc[t], q, e) /\ e <= posted => Fits(wc'[t], q, e)
      BY <1>1, <2>1, <2>3, FitsMore
    <3>2. t = conn \/ Streaming(t, connectionId) => posted + 1 \in heard'
      BY <1>3, <2>3 DEF Queued, Streams, Streaming
    <3> QED
      BY <1>3, <2>3, <3>1, <3>2 DEF Took
  <2> QED
    BY <2>2, <2>3, QueuedFor
<1>13. Positions'
  <2>1. last' <= posted'
    BY <1>1
  <2>2. ASSUME NEW t \in Sock, Streaming(t, connectionId)'
        PROVE  Fits(wc'[t], serverSequence', last')
    <3>1. Streaming(t, connectionId)
      BY <1>1, <1>2, <2>2 DEF Streaming, Owner
    <3>2. Fits(wc[t], serverSequence, last)
      BY <1>0, <3>1 DEF Positions
    <3> QED
      BY <1>1, <1>12, <3>2
  <2>3. ASSUME NEW t \in Sock, Streaming(t, StreamId)'
        PROVE  Along(wc'[t], Unread', serverSequence')
    <3>1. Streaming(t, StreamId)
      BY <1>2, <1>7, <2>3 DEF Streaming, Owner
    <3>2. Along(wc[t], Unread, serverSequence)
      BY <1>0, <3>1 DEF Positions
    <3>3. \A k \in 1..Len(Unread) : /\ Unread[k].seq + 1 \in Nat /\ Unread[k].ev \in Nat
                                     /\ Unread[k].ev <= posted
      BY <1>0, PageReads DEF InRow, Row, Chain
    <3>4. Num(wc'[t]) = Num(wc[t])
      BY <1>2
    <3> QED
      BY <1>1, <1>7, <1>12, <3>2, <3>3, <3>4 DEF Along
  <2>4. IF connectionId' = 0 THEN serverSequence' = 0 ELSE serverSequence' >= 1
    BY <1>0, <1>1 DEF Positions
  <2> QED
    BY <2>1, <2>2, <2>3, <2>4 DEF Positions
<1>14. InRow'
  <2> DEFINE u == Unread
  <2>1. \A k \in 1..Len(u) : u[k].ev \in Nat /\ u[k].ev <= posted
    BY <1>0, PageReads DEF InRow, Row, Chain
  <2>2. Row(u, connectionId, serverSequence, last, posted)
    BY <1>0 DEF InRow
  <2> HIDE DEF u
  <2>3. \A k \in 1..Len(u) : u[k].ev <= posted + 1
    BY <1>1, <2>1
  <2>4. Chain(u, posted + 1)
    BY <2>2, <2>3 DEF Row, Chain
  <2>5. Row(u, connectionId, serverSequence, last, posted + 1)
    BY <2>2, <2>4 DEF Row
  <2> QED
    BY <1>1, <1>7, <2>5 DEF InRow, u
<1>15. Phase'
  <2> SUFFICES ASSUME conn # 0
               PROVE  AtPage(wc'[conn], link[conn], Unread, connectionId, serverSequence, last)
    BY <1>1, <1>7 DEF Phase
  <2>1. conn \in Sock /\ AtPage(wc[conn], link[conn], Unread, connectionId,
                                serverSequence, last)
    BY <1>0, PageReads DEF Phase
  <2>2. \A m \in Items(wc'[conn]) : m \in Items(wc[conn]) \/ m.hello = 0
    BY <1>12, <2>1
  <2> QED
    BY <1>2, <2>1, <2>2 DEF AtPage
<1>16. HeardIs'
  <2>1. ASSUME NEW t \in Sock, t = conn' \/ Streaming(t, connectionId)'
        PROVE  \A m \in Items(wc'[t]) : m.hello = 0 => m.ev \in heard'
    <3>1. t = conn \/ Streaming(t, connectionId)
      BY <1>1, <1>2, <2>1 DEF Streaming, Owner
    <3>2. Took(wc[t])
      BY <1>0, <3>1 DEF HeardIs
    <3> QED
      BY <1>12, <3>1, <3>2
  <2>2. \A k \in 1..Len(Unread') : Unread'[k].hello = 0 => Unread'[k].ev \in heard'
    BY <1>0, <1>3, <1>7 DEF HeardIs
  <2> QED
    BY <2>1, <2>2 DEF HeardIs, Took
<1> QED
  BY <1>4, <1>5, <1>6, <1>9, <1>11, <1>13, <1>14, <1>15, <1>16 DEF StreamInv

-----------------------------------------------------------------------------
(***************************************************************************)
(* The network and the page.                                               *)
(***************************************************************************)
\* The queues, the connections and what the page has read stay as they are.
LEMMA SameStep ==
    ASSUME StreamInv, Counts',
           UNCHANGED <<wc, link, wire, nsock, conn, posted, heard,
                       connectionId, serverSequence, last>>,
           opened' => conn # 0,
           conn = 0 => (syncing' /\ nsock = 0) \/ (failed' /\ ~opened')
    PROVE  StreamInv'
<1>0. /\ Sounds /\ Links /\ Ids /\ Dialled /\ Positions /\ InRow /\ Phase /\ HeardIs
  BY DEF StreamInv
<1>1. Unread' = Unread /\ StreamId' = StreamId
  BY DEF Unread, StreamId
<1>2. \A t \in Sock : \A id : Streaming(t, id)' <=> Streaming(t, id)
  BY DEF Streaming, Owner
<1>3. Sounds' /\ Dialled'
  BY <1>0, <1>2 DEF Sounds, Dialled, Streaming, Owner
<1>4. Links'
  BY <1>0 DEF Links
<1>5. Ids' /\ InRow' /\ Phase'
  BY <1>0, <1>1 DEF Ids, InRow, Phase
<1>6. Positions'
  BY <1>0, <1>1 DEF Positions, Streaming, Owner
<1>7. HeardIs'
  BY <1>0, <1>1 DEF HeardIs, Took, Streaming, Owner
<1> QED
  BY <1>3, <1>4, <1>5, <1>6, <1>7 DEF StreamInv

\* The server is restarted.
LEMMA RestartStep ==
    ASSUME OwnersInv, StreamInv, Restart PROVE StreamInv'
<1>0. /\ Counts /\ Links /\ Phase /\ Ids /\ Sounds /\ HeardIs /\ Wires
      /\ wc \in [Sock -> WebConn]
  BY DEF StreamInv, OwnersInv, Links
<1>1. /\ PageAlone /\ wire' = wire
  <2>1. drops' \in Nat
    <3>1. drops \in Nat /\ drops' = drops + 1
      BY <1>0 DEF Restart, Drop, Counts
    <3> QED
      BY <3>1
  <2> QED
    BY <2>1 DEF Restart, PageAlone, hubVars, clientVars, pageVars
<1>2. /\ PageRests /\ Counts' /\ posted' = posted /\ conn' = conn
      /\ opened' = opened /\ failed' = failed /\ syncing' = syncing /\ nsock' = nsock
      /\ last' = last /\ connectionId' = connectionId
      /\ serverSequence' = serverSequence
  BY <1>0, <1>1, PageAloneFacts DEF Counts
<1>3. \A s \in Sock : wc'[s] = IF wc[s].stage = "none" THEN wc[s] ELSE Gone
  BY DEF Restart
<1>4. /\ link' \in [Sock -> {"none", "dialling", "up", "cut"}]
      /\ \A s \in Sock : /\ link'[s] # "up"
                         /\ link[s] \in {"none", "cut"} => link'[s] = link[s]
  BY <1>0 DEF Restart, Links
<1>5. \A s \in Sock : /\ Sound(Gone, s, posted) /\ Items(Gone) = {}
                      /\ Gone.stage = "ended" /\ ~Gone.listed /\ Gone.id = 0
  BY NewIsSound
<1>6. Gone \in WebConn
  <2>1. 1 \in Sock
    BY SizesOK DEF Sock
  <2> QED
    BY <1>5, <2>1, SoundFacts
<1> HIDE DEF Gone
<1>7. Sounds'
  BY <1>0, <1>2, <1>3, <1>5 DEF Sounds
<1>8. Begins
  BY <1>3, <1>5 DEF Begins, PumpHasBegun
<1>9. Follows
  <2>1. \A s \in Sock : wc[s].stage = "none" => ~wc[s].listed
    BY <1>0 DEF Wires
  <2> QED
    BY <1>3, <1>5, <2>1 DEF Follows, Owner, Live
<1>10. Proceeds
  <2>1. \A id : KnownIn(id, wc) => KnownIn(id, wc')
    BY <1>8, KnownStays
  <2>2. \A s \in Sock : wc[s].stage = "none" => KnownIn(wc[s].id, wc)
    BY <1>0 DEF Ids, Fresh
  <2>3. \A s \in Sock : KnownIn(0, wc')
    BY OwnIdsKnown
  <2> QED
    BY <1>3, <1>5, <2>1, <2>2, <2>3 DEF Proceeds
<1>11. Links'
  <2>1. wc' \in [Sock -> WebConn]
    <3>1. \A s \in Sock : wc'[s] \in WebConn
      BY <1>0, <1>3, <1>6
    <3>2. wc' = [s \in Sock |-> wc'[s]]
      BY DEF Restart
    <3> QED
      BY <3>1, <3>2
  <2> QED
    BY <1>0, <1>1, <1>2, <1>4, <2>1 DEF Links
<1>12. ASSUME conn # 0
       PROVE  /\ Took(wc'[conn])
              /\ AtPage(wc'[conn], link'[conn], Unread, connectionId, serverSequence, last)
  <2>1. /\ conn \in Sock /\ Took(wc[conn])
        /\ AtPage(wc[conn], link[conn], Unread, connectionId, serverSequence, last)
    BY <1>0, <1>12, PageReads DEF Phase, HeardIs
  <2> QED
    BY <1>3, <1>4, <1>5, <2>1 DEF Took, AtPage
<1>13. Phase'
  <2>1. Unread' = Unread
    BY <1>1, <1>2 DEF Unread
  <2> QED
    BY <1>2, <1>12, <2>1 DEF Phase
<1> QED
  BY <1>1, <1>2, <1>7, <1>8, <1>9, <1>10, <1>11, <1>12, <1>13, QuietStep

\* The connection breaks, or the page gives it up: no more than a part of what
\* it could have read is left to it.
LEMMA LessToRead ==
    ASSUME OwnersInv, StreamInv, Counts', conn # 0,
           UNCHANGED <<wc, nsock, posted, heard, connectionId, serverSequence, last>>,
           NEW k \in 0..Len(Unread), wire' = [wire EXCEPT ![conn] = SubSeq(Unread, 1, k)],
           link' = [link EXCEPT ![conn] = "cut"] \/ (link' = link /\ link[conn] = "cut"),
           \/ conn' = conn /\ UNCHANGED <<opened, failed, syncing>>
           \/ k = 0 /\ conn' = 0 /\ failed' /\ ~opened'
    PROVE  StreamInv'
<1> DEFINE u == Unread
           v == SubSeq(Unread, 1, k)
<1>0. /\ Sounds /\ Counts /\ Links /\ Ids /\ Dialled /\ Positions /\ InRow /\ Phase
      /\ HeardIs /\ Wires /\ wire \in [Sock -> Seq(Message)]
      /\ link \in [Sock -> {"none", "dialling", "up", "cut"}]
  BY DEF StreamInv, OwnersInv, Counts, Links
<1>1. conn \in Sock /\ u \in Seq(Message) /\ Row(u, connectionId, serverSequence, last, posted)
      /\ \A j \in 1..Len(u) : /\ u[j].seq + 1 \in Nat
  BY <1>0, PageReads DEF InRow
<1>2. /\ v \in Seq(Message) /\ Row(v, connectionId, serverSequence, last, posted)
      /\ Len(v) = k /\ Len(u) \in Nat
      /\ \A j \in 1..k : j \in 1..Len(u) /\ v[j] = u[j]
      /\ v # <<>> => u # <<>> /\ StreamOf(v, connectionId) = StreamOf(u, connectionId)
  BY <1>1, CutShort
<1>3. /\ wire'[conn] = v /\ \A s \in Sock : s # conn => wire'[s] = wire[s]
      /\ link'[conn] = "cut" /\ \A s \in Sock : s # conn => link'[s] = link[s]
      /\ link' \in [Sock -> {"none", "dialling", "up", "cut"}]
  BY <1>0, <1>1
<1>z. k = 0 => v = <<>>
  BY <1>2
<1> HIDE DEF u, v
<1>4. /\ Unread' = v
      /\ conn' = conn \/ (conn' = 0 /\ v = <<>>)
  <2>1. CASE conn' = conn
    BY <1>3, <2>1 DEF Unread
  <2>2. CASE k = 0 /\ conn' = 0
    BY <1>z, <2>2 DEF Unread
  <2> QED
    BY <2>1, <2>2
<1>5. \A t \in Sock : \A id : Streaming(t, id)' <=> Streaming(t, id)
  BY DEF Streaming, Owner
<1>6. Sounds' /\ Dialled'
  BY <1>0 DEF Sounds, Dialled, Streaming, Owner
<1>7. Links'
  <2>1. \A s \in Sock : s # conn' => wire'[s] = <<>> /\ link'[s] \in {"none", "cut"}
    BY <1>0, <1>3, <1>4 DEF Links
  <2>2. \A s \in Sock : link'[s] = "up" => wc'[s].stage \notin {"none", "ended"}
    BY <1>0, <1>3 DEF Links
  <2> QED
    BY <1>0, <1>3, <2>1, <2>2 DEF Links
<1>8. Ids'
  <2>1. \A j \in 1..k : KnownIn(v[j].hello, wc)
    BY <1>0, <1>2 DEF Ids, u
  <2> QED
    BY <1>0, <1>2, <1>4, <2>1 DEF Ids
<1>9. Positions'
  <2>1. ASSUME NEW t \in Sock, Streaming(t, StreamOf(v, connectionId))
        PROVE  Along(wc[t], v, serverSequence)
    <3>1. CASE v = <<>>
      <4>1. Streaming(t, connectionId)
        BY <2>1, <3>1 DEF StreamOf
      <4>2. Fits(wc[t], serverSequence, last)
        BY <1>0, <4>1 DEF Positions
      <4>3. k = 0
        <5>1. Len(<<>>) = 0
          OBVIOUS
        <5> QED
          BY <1>2, <3>1, <5>1
      <4> QED
        BY <1>2, <3>1, <4>2, <4>3 DEF Along, Fits, FrontOf
    <3>2. CASE v # <<>>
      <4>1. Along(wc[t], u, serverSequence)
        BY <1>0, <1>2, <2>1, <3>2 DEF Positions, StreamId, u
      <4>2. \A j \in 1..k : Fits(wc[t], v[j].seq + 1, v[j].ev)
        BY <1>2, <4>1 DEF Along
      <4>3. FrontOf(v, serverSequence) <= Num(wc[t])
        <5>1. FrontOf(v, serverSequence) = v[1].seq + k
          BY <1>2, <3>2 DEF FrontOf
        <5>2. FrontOf(u, serverSequence) = u[1].seq + Len(u)
          BY <1>2, <3>2 DEF FrontOf
        <5>3. v[1] = u[1] /\ k \in Nat /\ k <= Len(u) /\ u[1].seq \in Nat
          <6>1. k # 0
            BY <1>z, <3>2
          <6>2. 1 \in 1..k /\ k \in Nat /\ k <= Len(u)
            BY <1>2, <6>1 DEF u
          <6>3. v[1] = u[1] /\ u[1] \in Message
            BY <1>1, <1>2, <6>2
          <6> QED
            BY <6>2, <6>3 DEF Message
        <5>4. u[1].seq + Len(u) <= Num(wc[t])
          BY <4>1, <5>2 DEF Along
        <5>5. Num(wc[t]) \in Nat
          BY HandlerIs
        <5> QED
          BY <1>2, <5>1, <5>3, <5>4, <5>5
      <4> QED
        BY <1>2, <4>2, <4>3 DEF Along
    <3> QED
      BY <3>1, <3>2
  <2>2. \A t \in Sock : Streaming(t, StreamId)' => Along(wc'[t], Unread', serverSequence')
    BY <1>4, <2>1 DEF StreamId, Streaming, Owner
  <2>3. \A t \in Sock : Streaming(t, connectionId)' => Fits(wc'[t], serverSequence', last')
    BY <1>0 DEF Positions, Streaming, Owner
  <2> QED
    BY <1>0, <2>2, <2>3 DEF Positions
<1>10. InRow'
  BY <1>2, <1>4 DEF InRow
<1>11. Phase'
  <2> SUFFICES ASSUME conn' # 0
               PROVE  AtPage(wc[conn], "cut", v, connectionId, serverSequence, last)
    BY <1>3, <1>4 DEF Phase
  <2>1. AtPage(wc[conn], link[conn], u, connectionId, serverSequence, last)
    BY <1>0 DEF Phase, u
  <2> QED
    BY <1>2, <2>1 DEF AtPage
<1>12. HeardIs'
  <2>1. \A j \in 1..k : v[j].hello = 0 => v[j].ev \in heard
    BY <1>0, <1>2 DEF HeardIs, u
  <2>2. \A t \in Sock : t = conn' \/ Streaming(t, connectionId)' => Took(wc[t])
    <3>1. \A t \in Sock : t # 0
      BY OwnIdsKnown
    <3> QED
      BY <1>0, <1>4, <3>1 DEF HeardIs, Streaming, Owner
  <2> QED
    BY <1>2, <1>4, <2>1, <2>2 DEF HeardIs, Took
<1> QED
  BY <1>6, <1>7, <1>8, <1>9, <1>10, <1>11, <1>12 DEF StreamInv

LEMMA CutStep ==
    ASSUME OwnersInv, StreamInv, NEW s \in Sock, Cut(s) PROVE StreamInv'
<1>0. Counts /\ Links /\ wire \in [Sock -> Seq(Message)]
  BY DEF StreamInv, Counts
<1>1. s = conn /\ conn # 0
  <2>1. s = conn
    BY <1>0 DEF Cut, Links
  <2> QED
    BY <2>1, HandlerIs
<1>2. Unread = wire[conn]
  BY <1>1 DEF Unread
<1>3. PICK k \in 0..Len(Unread) : wire' = [wire EXCEPT ![conn] = SubSeq(Unread, 1, k)]
  BY <1>1, <1>2 DEF Cut
<1>4. Counts'
  <2>1. SubSeq(Unread, 1, k) \in Seq(Message)
    BY <1>0, <1>1, <1>2
  <2>2. wire' \in [Sock -> Seq(Message)]
    BY <1>0, <1>3, <2>1
  <2>3. drops \in Nat /\ drops' = drops + 1
    BY <1>0 DEF Counts, Cut, Drop
  <2>4. drops' \in Nat
    BY <2>3
  <2> QED
    BY <1>0, <2>2, <2>4 DEF Cut, Counts, hubVars, clientVars, pageVars
<1>5. /\ UNCHANGED <<wc, nsock, posted, heard, connectionId, serverSequence, last>>
      /\ UNCHANGED <<conn, opened, failed, syncing>>
      /\ link' = [link EXCEPT ![conn] = "cut"]
  BY <1>1 DEF Cut, hubVars, clientVars, pageVars
<1> QED
  BY <1>1, <1>3, <1>4, <1>5, LessToRead

\* The page is done with its connection.
LEMMA GivenUp ==
    ASSUME OwnersInv, StreamInv, conn # 0, Closed,
           UNCHANGED <<wc, nsock, hubVars, connectionId, serverSequence, pageVars>>,
           wire' = [wire EXCEPT ![conn] = <<>>], drops' \in Nat,
           link' = [link EXCEPT ![conn] = "cut"] \/ (link' = link /\ link[conn] = "cut")
    PROVE  StreamInv'
<1>0. Counts /\ wire \in [Sock -> Seq(Message)] /\ Len(Unread) \in Nat
  <2>1. Counts /\ Wires
    BY DEF StreamInv, OwnersInv
  <2> QED
    BY <2>1, PageReads DEF Counts
<1>1. SubSeq(Unread, 1, 0) = <<>> /\ 0 \in 0..Len(Unread)
  BY <1>0
<1>2. Counts'
  <2>1. wire' \in [Sock -> Seq(Message)]
    <3>1. <<>> \in Seq(Message)
      OBVIOUS
    <3> QED
      BY <1>0, <3>1
  <2> QED
    BY <1>0, <2>1 DEF Counts, Closed, hubVars, pageVars
<1>3. /\ UNCHANGED <<wc, nsock, posted, heard, connectionId, serverSequence, last>>
      /\ conn' = 0 /\ failed' /\ ~opened'
  BY DEF Closed, hubVars, pageVars
<1>4. wire' = [wire EXCEPT ![conn] = SubSeq(Unread, 1, 0)]
  BY <1>1
<1> QED
  BY <1>1, <1>2, <1>3, <1>4, LessToRead

LEMMA CloseStep ==
    ASSUME OwnersInv, StreamInv, OnClose \/ PingTimeout PROVE StreamInv'
<1>1. drops \in Nat
  BY DEF StreamInv, Counts
<1>2. drops' \in Nat
  <2>1. drops' = drops \/ drops' = drops + 1
    BY DEF OnClose, PingTimeout, Drop
  <2> QED
    BY <1>1, <2>1
<1>3. CASE OnClose
  BY <1>2, <1>3, GivenUp DEF OnClose, pageVars, hubVars
<1>4. CASE PingTimeout
  BY <1>2, <1>4, GivenUp DEF PingTimeout, Abandon, pageVars, hubVars
<1> QED
  BY <1>3, <1>4

\* A new socket: the page asks to go on where it is.
LEMMA DialStep ==
    ASSUME OwnersInv, StreamInv, conn = 0, Dial,
           UNCHANGED <<hubVars, wire, failed, connectionId, serverSequence, pageVars, drops>>,
           armed' \in BOOLEAN
    PROVE  StreamInv'
<1> DEFINE n == nsock + 1
           r == NewWebConn(connectionId, serverSequence)
<1>0. /\ Sounds /\ Counts /\ Links /\ Ids /\ Dialled /\ Positions /\ InRow /\ Phase
      /\ HeardIs /\ Wires /\ wc \in [Sock -> WebConn]
      /\ connectionId \in Nat /\ serverSequence \in Nat
      /\ link \in [Sock -> {"none", "dialling", "up", "cut"}]
  BY DEF StreamInv, OwnersInv, Links, Counts
<1>1. n \in Sock /\ n # 0 /\ wc[n].stage = "none" /\ \A s \in Sock : s # 0
  <2>1. n \in Sock /\ n # 0 /\ n > nsock
    BY <1>0, SizesOK DEF Wires, Dial, Sock
  <2>2. \A s \in Sock : s # 0
    BY OwnIdsKnown
  <2> QED
    BY <1>0, <2>1, <2>2 DEF Wires
<1>2. /\ conn' = n /\ opened' = FALSE /\ wc'[n] = r /\ \A s \in Sock : s # n => wc'[s] = wc[s]
      /\ link'[n] = "dialling" /\ \A s \in Sock : s # n => link'[s] = link[s]
  <2>1. /\ conn' = n /\ opened' = FALSE
        /\ wc' = [wc EXCEPT ![n] = r] /\ link' = [link EXCEPT ![n] = "dialling"]
    BY DEF Dial
  <2> HIDE DEF n, r
  <2>2. wc'[n] = r /\ \A s \in Sock : s # n => wc'[s] = wc[s]
    BY <1>0, <1>1, <2>1
  <2>3. link'[n] = "dialling" /\ \A s \in Sock : s # n => link'[s] = link[s]
    BY <1>0, <1>1, <2>1
  <2> QED
    BY <2>1, <2>2, <2>3
<1>w. wc' = [wc EXCEPT ![n] = r] /\ link' = [link EXCEPT ![n] = "dialling"]
  BY DEF Dial
<1>3. /\ Sound(r, n, posted) /\ Items(r) = {} /\ r.id = connectionId
      /\ r.seq = serverSequence /\ r.stage = "none" /\ ~r.listed
  <2>1. n \in Sock /\ connectionId \in Nat /\ serverSequence \in Nat
    BY <1>0, <1>1
  <2> HIDE DEF n
  <2>2. Sound(r, n, posted) /\ Items(r) = {}
    BY <2>1, NewIsSound
  <2>3. r.id = connectionId /\ r.seq = serverSequence
    BY <2>1, NewIsSound
  <2>4. r.stage = "none" /\ ~r.listed
    BY <2>1, NewIsSound
  <2> QED
    BY <2>2, <2>3, <2>4
<1>4. r \in WebConn
  BY <1>3, SoundFacts
<1> HIDE DEF n, r
<1>5. wire[n] = <<>> /\ Unread' = <<>> /\ Unread = <<>>
      /\ StreamId = connectionId /\ StreamId' = connectionId
  <2>1. wire[n] = <<>> /\ Unread' = <<>> /\ Unread = <<>>
    BY <1>0, <1>1, <1>2 DEF Links, Unread
  <2> QED
    BY <2>1 DEF StreamId, StreamOf
<1>6. /\ posted' = posted /\ heard' = heard /\ connectionId' = connectionId
      /\ serverSequence' = serverSequence /\ last' = last /\ wire' = wire
  BY DEF hubVars, pageVars
<1>7. Sounds'
  BY <1>0, <1>2, <1>3, <1>6 DEF Sounds
<1>8. Counts'
  BY <1>0, <1>2 DEF Counts, hubVars, pageVars
<1>9. Links'
  <2>1. wc' \in [Sock -> WebConn] /\ link' \in [Sock -> {"none", "dialling", "up", "cut"}]
    BY <1>0, <1>1, <1>4, <1>w
  <2>2. \A s \in Sock : s # n => wire[s] = <<>> /\ link'[s] \in {"none", "cut"}
    BY <1>0, <1>1, <1>2 DEF Links
  <2>3. \A s \in Sock : link'[s] = "up" => wc'[s].stage \notin {"none", "ended"}
    BY <1>0, <1>2 DEF Links
  <2> QED
    BY <1>1, <1>2, <1>6, <2>1, <2>2, <2>3 DEF Links
<1>10. \A id : KnownIn(id, wc) => KnownIn(id, wc')
  BY <1>1, <1>2 DEF KnownIn, PumpHasBegun
<1>11. Ids'
  <2>1. \A s \in Sock : Fresh(wc'[s]) \/ KnownIn(wc'[s].id, wc')
    BY <1>0, <1>2, <1>3, <1>10 DEF Ids
  <2>2. Len(<<>>) = 0
    OBVIOUS
  <2> QED
    BY <1>0, <1>5, <1>6, <1>10, <2>1, <2>2 DEF Ids
<1>12. \A t \in Sock : (Owner(t)' => t # n /\ Owner(t) /\ wc'[t] = wc[t])
  BY <1>2, <1>3 DEF Owner, Live
<1>13. Dialled'
  <2> SUFFICES ASSUME NEW s \in Sock, wc'[s].stage \in {"none", "upgraded"}, wc'[s].id # 0
               PROVE  /\ wc'[s].seq >= 1
                      /\ \A t \in Sock : Owner(t)' /\ wc'[t].id = wc'[s].id =>
                           wc'[s].seq <= Num(wc'[t])
    BY DEF Dialled, Streaming
  <2>1. CASE s = n
    <3>1. wc'[s].id = connectionId /\ wc'[s].seq = serverSequence
      BY <1>2, <1>3, <2>1
    <3>2. \A t \in Sock : Owner(t) /\ wc[t].id = connectionId => serverSequence <= Num(wc[t])
      BY <1>0, <3>1 DEF Positions, Streaming, Fits
    <3>3. serverSequence >= 1
      BY <1>0, <3>1 DEF Positions
    <3> QED
      BY <1>12, <3>1, <3>2, <3>3
  <2>2. CASE s # n
    BY <1>0, <1>2, <1>12, <2>2 DEF Dialled, Streaming
  <2> QED
    BY <2>1, <2>2
<1>14. Positions'
  <2>1. \A t \in Sock : Streaming(t, connectionId)' => Fits(wc'[t], serverSequence', last')
    BY <1>0, <1>6, <1>12 DEF Positions, Streaming
  <2>2. \A t \in Sock : Streaming(t, StreamId)' => Along(wc'[t], Unread', serverSequence')
    <3>1. Len(<<>>) = 0
      OBVIOUS
    <3>2. \A t \in Sock : Streaming(t, StreamId)' => serverSequence <= Num(wc'[t])
      BY <1>0, <1>5, <1>12 DEF Positions, Streaming, Fits
    <3> QED
      BY <1>5, <1>6, <3>1, <3>2 DEF Along, FrontOf
  <2> QED
    BY <1>0, <1>6, <2>1, <2>2 DEF Positions
<1>15. InRow'
  BY <1>0, <1>5, <1>6 DEF InRow
<1>16. Phase'
  BY <1>2, <1>3, <1>5, <1>6 DEF Phase, AtPage
<1>17. HeardIs'
  <2>1. Len(<<>>) = 0
    OBVIOUS
  <2>2. ASSUME NEW t \in Sock, t = conn' \/ Streaming(t, connectionId)'
        PROVE  \A m \in Items(wc'[t]) : m.hello = 0 => m.ev \in heard
    <3>1. CASE t = n
      BY <1>2, <1>3, <3>1
    <3>2. CASE t # n
      BY <1>0, <1>2, <1>6, <1>12, <2>2, <3>2 DEF HeardIs, Streaming, Took
    <3> QED
      BY <3>1, <3>2
  <2> QED
    BY <1>5, <1>6, <2>1, <2>2 DEF HeardIs, Took
<1> QED
  BY <1>7, <1>8, <1>9, <1>11, <1>13, <1>14, <1>15, <1>16, <1>17 DEF StreamInv

\* The steps of the page that read no event, and no step at all.
LEMMA PageStep ==
    ASSUME OwnersInv, StreamInv,
           Mount \/ Reconnect \/ Open \/ Online \/ SyncRead \/ UNCHANGED vars
    PROVE  StreamInv'
<1>0. Counts /\ Wires /\ drops \in Nat
  BY DEF StreamInv, OwnersInv, Counts
<1>1. CASE Mount
  <2>1. conn = 0
    BY <1>0, <1>1 DEF Mount, Wires
  <2> QED
    BY <1>0, <1>1, <2>1, DialStep DEF Mount, Counts
<1>2. CASE Reconnect /\ conn = 0
  BY <1>2, DialStep DEF Reconnect
<1>3. CASE \/ Reconnect /\ conn # 0
           \/ Open \/ Online \/ SyncRead \/ UNCHANGED vars
  <2>1. UNCHANGED <<wc, link, wire, nsock, conn, posted, heard,
                    connectionId, serverSequence, last>>
    BY <1>3 DEF Reconnect, Open, Online, SyncRead, vars, hubVars, socketVars, clientVars,
                pageVars
  <2>2. UNCHANGED <<early, handover>>
    BY <1>3 DEF Reconnect, Open, Online, SyncRead, vars, hubVars
  <2>3. drops' \in Nat
    <3>1. drops' = drops \/ drops' = drops + 1
      BY <1>3 DEF Reconnect, Open, Online, SyncRead, vars, Drop
    <3> QED
      BY <1>0, <3>1
  <2>4. /\ opened' \in BOOLEAN /\ armed' \in BOOLEAN /\ failed' \in BOOLEAN
        /\ syncing' \in BOOLEAN
    BY <1>0, <1>3 DEF Reconnect, Open, Online, SyncRead, vars, clientVars, pageVars, Counts
  <2>5. page' \subseteq 1..posted
    BY <1>0, <1>3 DEF Reconnect, Open, Online, SyncRead, vars, pageVars, Counts
  <2>6. Counts'
    BY <1>0, <2>1, <2>2, <2>3, <2>4, <2>5 DEF Counts
  <2>7. /\ opened' => conn # 0
        /\ conn = 0 => (syncing' /\ nsock = 0) \/ (failed' /\ ~opened')
    <3>1. /\ opened => conn # 0
          /\ conn = 0 => (syncing /\ nsock = 0) \/ (failed /\ ~opened)
      BY DEF StreamInv, Links
    <3> QED
      BY <1>3, <3>1 DEF Reconnect, Open, Online, SyncRead, vars, clientVars, pageVars
  <2> QED
    BY <2>1, <2>6, <2>7, SameStep
<1> QED
  BY <1>1, <1>2, <1>3

-----------------------------------------------------------------------------
(***************************************************************************)
(* Whose ids are whose: a socket has an id of its own or of one before it, *)
(* the page's socket is the last, and a hello the page has not read is of  *)
(* that socket.                                                            *)
(***************************************************************************)
OwnIdsOf(n) == {n, MaxSockets + n}

Origins ==
    /\ \A t, n \in Sock : wc[t].id \in OwnIdsOf(n) => n <= t
    /\ \A n \in Sock : connectionId \in OwnIdsOf(n) => n <= nsock
    /\ conn = 0 \/ conn = nsock
    /\ conn # 0 => wc[conn].id \in {0, connectionId} \cup OwnIdsOf(conn)
    /\ Unread # <<>> /\ Unread[1].hello # 0 => Unread[1].hello \in OwnIdsOf(conn)

LEMMA OwnIdsDiffer ==
    ASSUME NEW n \in Sock, NEW t \in Sock, NEW x \in OwnIdsOf(t)
    PROVE  x \in OwnIdsOf(n) => n = t
  BY SizesOK DEF OwnIdsOf, Sock

LEMMA ZeroIsNobodys ==
    ASSUME NEW n \in Sock PROVE 0 \notin OwnIdsOf(n) /\ n <= n /\ n # 0
  BY SizesOK DEF OwnIdsOf, Sock

\* The handlers' ids change, if at all, to ids of their own.
LEMMA OriginsStay ==
    ASSUME Wires, Origins, StreamInv', UNCHANGED <<conn, nsock, connectionId>>,
           \A t \in Sock : wc'[t].id \in {wc[t].id, 0} \cup OwnIdsOf(t),
           \/ Unread' = <<>>
           \/ Unread # <<>> /\ Unread'[1] = Unread[1]
           \/ conn # 0 /\ wc'[conn] # Gone
    PROVE  Origins'
<1>1. conn # 0 => conn \in Sock
  BY SizesOK DEF Wires, Sock
<1>2. ASSUME NEW t \in Sock, NEW n \in Sock, wc'[t].id \in OwnIdsOf(n) PROVE n <= t
  <2>1. CASE wc'[t].id = wc[t].id
    BY <1>2, <2>1 DEF Origins
  <2>2. CASE wc'[t].id = 0
    BY <1>2, <2>2, ZeroIsNobodys
  <2>3. CASE wc'[t].id \in OwnIdsOf(t)
    <3>1. n = t
      BY <1>2, <2>3, OwnIdsDiffer
    <3> QED
      BY <3>1, ZeroIsNobodys
  <2> QED
    BY <2>1, <2>2, <2>3
<1>3. conn # 0 => wc'[conn].id \in {0, connectionId} \cup OwnIdsOf(conn)
  <2> SUFFICES ASSUME conn # 0
               PROVE  wc'[conn].id \in {0, connectionId} \cup OwnIdsOf(conn)
    OBVIOUS
  <2>1. wc'[conn].id \in {wc[conn].id, 0} \cup OwnIdsOf(conn)
    BY <1>1
  <2> QED
    BY <2>1 DEF Origins
<1>4. ASSUME Unread' # <<>>, Unread'[1].hello # 0
      PROVE  Unread'[1].hello \in OwnIdsOf(conn)
  <2>1. CASE Unread # <<>> /\ Unread'[1] = Unread[1]
    BY <1>4, <2>1 DEF Origins
  <2>2. CASE conn # 0 /\ wc'[conn] # Gone
    <3>1. AtPage(wc'[conn], link'[conn], Unread', connectionId, serverSequence', last')
      BY <2>2 DEF StreamInv, Phase
    <3>2. wc'[conn].id = Unread'[1].hello
      BY <1>4, <2>2, <3>1 DEF AtPage, StreamOf
    <3>3. Unread'[1].hello # connectionId
      BY <1>4 DEF StreamInv, InRow, Row, Joins
    <3> QED
      BY <1>3, <1>4, <2>2, <3>2, <3>3
  <2> QED
    BY <1>4, <2>1, <2>2
<1> QED
  BY <1>2, <1>3, <1>4 DEF Origins

\* The id a handler has after a step of its own.
LEMMA IdsStay ==
    ASSUME OwnersInv, StreamInv, NEW s \in Sock,
           Server(s) \/ Reap(s) \/ RegisterFails(s)
    PROVE  /\ UNCHANGED <<conn, nsock, connectionId>>
           /\ \A t \in Sock : wc'[t].id \in {wc[t].id, 0} \cup OwnIdsOf(t)
<1>0. wc \in [Sock -> WebConn] /\ s \in Nat \ {0}
  BY OwnIdsKnown DEF StreamInv, Links
<1>1. UNCHANGED <<conn, nsock, connectionId>>
  BY DEF Server, Upgrade, CheckConn, Register, WritePumpStarts, WritePump, PumpEnds, Reap,
         RegisterFails, clientVars
<1>2. Gone.id = 0
  BY <1>0, NewIsSound
<1>3. NewWebConn(s, 0).id = s /\ MaxSockets + s \in OwnIdsOf(s) /\ s \in OwnIdsOf(s)
  BY DEF NewWebConn, OwnIdsOf
<1> HIDE DEF Gone, NewWebConn
<1>4. CASE CheckConn(s)
  <2>1. CASE \E t \in Sock : HandOver(s, t)
    <3>1. PICK t \in Sock : HandOver(s, t)
      BY <2>1
    <3> DEFINE r == [wc[s] EXCEPT !.stage = "checked", !.reused = TRUE,
                                  !.send = wc[t].send, !.dead = wc[t].dead,
                                  !.ptr = wc[t].ptr]
    <3>2. r.id = wc[s].id
      BY <1>0 DEF WebConn
    <3>3. wc' = [wc EXCEPT ![t] = Gone, ![s] = r]
      BY <3>1 DEF HandOver
    <3> HIDE DEF r
    <3>4. \A n \in Sock : (wc'[n] = r /\ n = s) \/ wc'[n] = Gone \/ wc'[n] = wc[n]
      BY <1>0, <3>3
    <3> QED
      BY <1>1, <1>2, <3>2, <3>4
  <2>2. CASE StartAfresh(s)
    <3> DEFINE r == [NewWebConn(s, 0) EXCEPT !.stage = "checked"]
    <3>1. r.id = s
      BY DEF NewWebConn
    <3>2. wc' = [wc EXCEPT ![s] = r]
      BY <2>2 DEF StartAfresh
    <3> HIDE DEF r
    <3>3. \A n \in Sock : (wc'[n] = r /\ n = s) \/ wc'[n] = wc[n]
      BY <1>0, <3>2
    <3> QED
      BY <1>1, <1>3, <3>1, <3>3
  <2> QED
    BY <1>4, <2>1, <2>2 DEF CheckConn
<1>5. ASSUME ~CheckConn(s)
      PROVE  /\ \A t \in Sock : t # s => wc'[t] = wc[t]
             /\ wc'[s].id \in {wc[s].id, 0} \cup OwnIdsOf(s)
  <2>0. wc[s] \in WebConn
    BY <1>0
  <2>1. CASE Upgrade(s)
    BY <1>0, <2>0, <2>1 DEF Upgrade, WebConn
  <2>2. CASE Register(s)
    <3> DEFINE r == wc'[s]
    <3>1. \A t \in Sock : t # s => wc'[t] = wc[t]
      BY <1>0, <2>2 DEF Register
    <3>2. wc'[s].id = wc[s].id
      BY <1>0, <2>0, <2>2 DEF Register, WebConn
    <3> QED
      BY <3>1, <3>2
  <2>3. CASE WritePumpStarts(s)
    <3>1. CASE \E i \in Slots : Resend(s, i)
      BY <1>0, <2>0, <3>1 DEF Resend, WebConn
    <3>2. CASE Lost(s)
      BY <1>0, <1>3, <2>0, <3>2 DEF Lost, WebConn
    <3>3. CASE wc' = [wc EXCEPT ![s].stage = "pumping"]
      BY <1>0, <2>0, <3>3 DEF WebConn
    <3> QED
      BY <2>3, <3>1, <3>2, <3>3 DEF WritePumpStarts
  <2>4. CASE WritePump(s)
    BY <1>0, <2>0, <2>4 DEF WritePump, WebConn
  <2>5. CASE PumpEnds(s)
    BY <1>0, <1>2, <2>0, <2>5 DEF PumpEnds, WebConn
  <2>6. CASE Reap(s) \/ RegisterFails(s)
    BY <1>0, <1>2, <2>6 DEF Reap, RegisterFails
  <2> QED
    BY <1>5, <2>1, <2>2, <2>3, <2>4, <2>5, <2>6 DEF Server
<1>6. \A t \in Sock : t # s => wc[t].id \in {wc[t].id, 0} \cup OwnIdsOf(t)
  OBVIOUS
<1> QED
  BY <1>1, <1>4, <1>5, <1>6

\* What the page can read after a step of the server.
LEMMA StillUnread ==
    ASSUME OwnersInv, StreamInv, NEW s \in Sock,
           Server(s) \/ Reap(s) \/ RegisterFails(s)
    PROVE  Unread' = Unread \/ (conn # 0 /\ wc'[conn] # Gone)
<1>0. /\ wc \in [Sock -> WebConn] /\ Gone.stage = "ended" /\ wire \in [Sock -> Seq(Message)]
  <2>1. wc \in [Sock -> WebConn] /\ wire \in [Sock -> Seq(Message)]
    BY DEF StreamInv, Links, Counts
  <2>2. Gone.stage = "ended"
    BY NewIsSound
  <2> QED
    BY <2>1, <2>2
<1>1. conn' = conn
  BY IdsStay
<1>2. wc[s] \in WebConn
  BY <1>0
<1>3. CASE wire' = wire
  BY <1>1, <1>3 DEF Unread
<1>4. CASE \E ms : wire' = Written(s, ms) /\ wc'[s].stage = "pumping"
  <2>1. PICK ms : wire' = Written(s, ms) /\ wc'[s].stage = "pumping"
    BY <1>4
  <2>2. CASE link[s] = "up"
    <3>1. s = conn /\ conn # 0
      <4>1. s = conn
        BY <2>2 DEF StreamInv, Links
      <4> QED
        BY <4>1, HandlerIs
    <3> QED
      BY <1>0, <2>1, <3>1
  <2>3. CASE link[s] # "up"
    <3>1. wire' = wire
      BY <1>0, <2>1, <2>3 DEF Written
    <3> QED
      BY <1>1, <3>1 DEF Unread
  <2> QED
    BY <2>2, <2>3
<1>5. CASE WritePumpStarts(s)
  <2>1. CASE \E i \in Slots : Resend(s, i)
    <3>1. wc'[s].stage = "pumping"
      BY <1>0, <1>2, <2>1 DEF Resend, WebConn
    <3>2. \E ms : wire' = Written(s, ms)
      BY <2>1 DEF Resend
    <3> QED
      BY <1>4, <3>1, <3>2
  <2>2. CASE Lost(s)
    <3>1. wc'[s].stage = "pumping"
      BY <1>0, <1>2, <2>2 DEF Lost, WebConn
    <3>2. \E ms : wire' = Written(s, ms)
      BY <2>2 DEF Lost
    <3> QED
      BY <1>4, <3>1, <3>2
  <2> QED
    BY <1>3, <1>5, <2>1, <2>2 DEF WritePumpStarts
<1>6. CASE WritePump(s)
  <2>1. wc'[s].stage = "pumping"
    BY <1>0, <1>2, <1>6 DEF WritePump, WebConn
  <2>2. \E ms : wire' = Written(s, ms)
    BY <1>6 DEF WritePump
  <2> QED
    BY <1>4, <2>1, <2>2
<1>7. CASE ~WritePumpStarts(s) /\ ~WritePump(s)
  BY <1>3, <1>7 DEF Server, Upgrade, CheckConn, Register, PumpEnds, Reap, RegisterFails
<1> QED
  BY <1>5, <1>6, <1>7

-----------------------------------------------------------------------------
(***************************************************************************)
(* The page reads a message.                                               *)
(***************************************************************************)
\* It carries the number the page expects.
LEMMA NextIsExpected ==
    ASSUME OwnersInv, StreamInv, conn # 0, wire[conn] # <<>>
    PROVE  /\ Unread = wire[conn] /\ Unread \in Seq(Message) /\ Head(Unread) = Unread[1]
           /\ Unread[1] \in Message /\ Unread[1].seq = Greeted(Unread[1]).seq
           /\ Row(Unread, connectionId, serverSequence, last, posted)
           /\ posted \in Nat /\ connectionId \in Nat /\ serverSequence \in Nat /\ last \in Nat
<1> DEFINE m == Unread[1]
<1>1. /\ Unread = wire[conn] /\ Unread \in Seq(Message) /\ 1 \in 1..Len(Unread)
      /\ Row(Unread, connectionId, serverSequence, last, posted)
      /\ m \in Message /\ Positions /\ Counts
  BY PageReads DEF StreamInv, OwnersInv, Unread, InRow
<1>2. posted \in Nat /\ connectionId \in Nat /\ serverSequence \in Nat /\ last \in Nat
  BY <1>1 DEF Counts
<1>3. /\ m.hello # 0 <=> m.seq = 0
      /\ IF m.hello = 0 THEN connectionId # 0 /\ m.seq = serverSequence
         ELSE m.hello # connectionId
  BY <1>1 DEF Row, Chain, Joins
<1>4. m.seq = Greeted(m).seq
  BY <1>1, <1>3 DEF Greeted, OtherId, Positions
<1>5. Head(Unread) = m
  <2> DEFINE u == Unread
  <2>1. u \in Seq(Message) /\ u # <<>>
    BY <1>1
  <2> HIDE DEF u
  <2>2. Head(u) = u[1]
    BY <2>1
  <2> QED
    BY <2>2 DEF u
<1> QED
  BY <1>1, <1>2, <1>4, <1>5

LEMMA MessageIsRead ==
    ASSUME OwnersInv, StreamInv, OnMessage, NEW m, m = Unread[1]
    PROVE  /\ conn # 0 /\ opened /\ Unread = wire[conn] /\ Unread # <<>>
           /\ connectionId' = (IF m.hello # 0 THEN m.hello ELSE connectionId)
           /\ serverSequence' = m.seq + 1 /\ last' = m.ev
           /\ wire' = [wire EXCEPT ![conn] = Tail(Unread)] /\ page' = Apply(m)
           /\ syncing' = (syncing \/ (m.hello # 0 /\ OtherId(m)))
           /\ UNCHANGED <<conn, opened, armed, failed, link, hubVars, wc, nsock, drops>>
<1>1. conn # 0 /\ opened /\ wire[conn] # <<>>
  BY DEF OnMessage
<1>2. Unread = wire[conn] /\ Head(wire[conn]) = m /\ m.seq = Greeted(m).seq
  BY <1>1, NextIsExpected
<1>3. /\ connectionId' = Greeted(m).id /\ syncing' = (syncing \/ Greeted(m).missed)
      /\ serverSequence' = m.seq + 1 /\ last' = m.ev /\ page' = Apply(m)
      /\ wire' = [wire EXCEPT ![conn] = Tail(@)]
      /\ UNCHANGED <<conn, opened, armed, failed, link, hubVars, wc, nsock, drops>>
  BY <1>2 DEF OnMessage
<1> QED
  BY <1>1, <1>2, <1>3 DEF Greeted

LEMMA MessageStep ==
    ASSUME OwnersInv, StreamInv, Origins, OnMessage PROVE StreamInv'
<1> DEFINE u == Unread
           m == Unread[1]
           c2 == IF m.hello # 0 THEN m.hello ELSE connectionId
           t == Tail(Unread)
<1>0. /\ Sounds /\ Counts /\ Links /\ Ids /\ Dialled /\ Positions /\ InRow /\ Phase
      /\ HeardIs /\ Wires /\ wire \in [Sock -> Seq(Message)]
  BY DEF StreamInv, OwnersInv, Counts
<1>1. /\ conn # 0 /\ opened /\ u = wire[conn] /\ u # <<>>
      /\ connectionId' = c2
      /\ serverSequence' = m.seq + 1 /\ last' = m.ev
      /\ wire' = [wire EXCEPT ![conn] = t] /\ page' = Apply(m)
      /\ syncing' = (syncing \/ (m.hello # 0 /\ OtherId(m)))
      /\ UNCHANGED <<conn, opened, armed, failed, link, hubVars, wc, nsock, drops>>
  BY MessageIsRead
<1>2. /\ u \in Seq(Message) /\ Row(u, connectionId, serverSequence, last, posted)
      /\ posted \in Nat /\ connectionId \in Nat /\ serverSequence \in Nat /\ last \in Nat
      /\ conn \in Sock
  BY <1>0, <1>1, NextIsExpected, PageReads
<1>3. /\ m \in Message /\ t \in Seq(Message) /\ Len(u) >= 1
      /\ Row(t, c2, m.seq + 1, m.ev, posted)
      /\ StreamOf(u, connectionId) = c2 /\ StreamOf(t, c2) = c2 /\ c2 \in Nat /\ c2 # 0
      /\ FrontOf(t, m.seq + 1) = FrontOf(u, serverSequence)
      /\ Len(t) = Len(u) - 1
      /\ \A k \in 1..Len(t) : k + 1 \in 1..Len(u) /\ t[k] = u[k + 1]
      /\ m.ev <= posted
  <2>1. u # <<>> /\ u \in Seq(Message) /\ Row(u, connectionId, serverSequence, last, posted)
    BY <1>1, <1>2
  <2>2. t = Tail(u) /\ m = u[1] /\ c2 = (IF u[1].hello # 0 THEN u[1].hello ELSE connectionId)
    OBVIOUS
  <2> HIDE DEF u, t, m, c2
  <2>3. /\ u[1] \in Message /\ Tail(u) \in Seq(Message) /\ Len(u) >= 1
        /\ Row(Tail(u), c2, u[1].seq + 1, u[1].ev, posted)
        /\ StreamOf(u, connectionId) = c2 /\ StreamOf(Tail(u), c2) = c2
        /\ c2 \in Nat /\ c2 # 0
        /\ FrontOf(Tail(u), u[1].seq + 1) = FrontOf(u, serverSequence)
        /\ Len(Tail(u)) = Len(u) - 1
        /\ \A k \in 1..Len(Tail(u)) : k + 1 \in 1..Len(u) /\ Tail(u)[k] = u[k + 1]
        /\ u[1].ev <= posted
    BY <1>2, <2>1, <2>2, ReadsNext
  <2> QED
    BY <2>2, <2>3
<1>4. m.seq \in Nat /\ m.ev \in Nat /\ m.hello \in Nat /\ 1 \in 1..Len(u)
  <2>1. 1 \in 1..Len(u)
    BY <1>2, <1>3
  <2> QED
    BY <1>3, <2>1 DEF Message
<1>5. StreamId = c2 /\ posted' = posted /\ heard' = heard
  BY <1>1, <1>3 DEF StreamId, hubVars
<1>6. Unread' = t /\ StreamId' = c2
  <2>1. Unread' = t
    BY <1>0, <1>1, <1>2 DEF Unread
  <2> QED
    BY <1>1, <1>3, <2>1 DEF StreamId
<1>7. m.hello = 0 => m.ev \in heard
  BY <1>0, <1>4 DEF HeardIs
<1>8. KnownIn(c2, wc)
  BY <1>0, <1>4 DEF Ids
<1>9. conn = nsock /\ (m.hello # 0 => m.hello \in OwnIdsOf(conn))
  BY <1>1 DEF Origins
<1>10. AtPage(wc[conn], link[conn], u, connectionId, serverSequence, last) /\ Took(wc[conn])
  BY <1>1, HandlerIs, <1>2
<1> HIDE DEF u, m, t, c2
<1>11. Sounds' /\ Dialled'
  BY <1>0, <1>1, <1>5 DEF Sounds, Dialled, Streaming, Owner
<1>12. Counts'
  <2>1. wire' \in [Sock -> Seq(Message)]
    BY <1>0, <1>1, <1>3
  <2>2. page' \subseteq 1..posted
    <3>1. page \subseteq 1..posted /\ heard \subseteq 1..posted
      BY <1>0 DEF Counts
    <3>2. page' = IF m.hello = 0 THEN page \cup {m.ev} ELSE page
      BY <1>1 DEF Apply
    <3> QED
      BY <1>7, <3>1, <3>2
  <2>3. serverSequence' \in Nat /\ last' \in Nat /\ connectionId' \in Nat
        /\ syncing' \in BOOLEAN
    BY <1>1, <1>3, <1>4
  <2> QED
    BY <1>0, <1>1, <2>1, <2>2, <2>3 DEF Counts, hubVars
<1>13. Links'
  <2>1. \A s \in Sock : s # conn => wire'[s] = wire[s]
    BY <1>0, <1>1
  <2> QED
    BY <1>0, <1>1, <2>1 DEF Links
<1>14. Ids'
  <2>1. \A k \in 1..Len(t) : KnownIn(t[k].hello, wc)
    BY <1>0, <1>3 DEF Ids, u
  <2> QED
    BY <1>0, <1>1, <1>6, <1>8, <2>1 DEF Ids
<1>15. ASSUME NEW s \in Sock, Streaming(s, c2)
       PROVE  Along(wc[s], u, serverSequence)
  BY <1>0, <1>5, <1>15 DEF Positions, u
<1>16. Positions'
  <2>1. last' <= posted'
    BY <1>1, <1>3, <1>5
  <2>2. connectionId' # 0 /\ serverSequence' >= 1
    BY <1>1, <1>3, <1>4
  <2>3. ASSUME NEW s \in Sock, Streaming(s, connectionId)'
        PROVE  Fits(wc'[s], serverSequence', last')
    <3>1. Streaming(s, c2)
      BY <1>1, <2>3 DEF Streaming, Owner
    <3> QED
      BY <1>1, <1>4, <1>15, <3>1 DEF Along, m, u
  <2>4. ASSUME NEW s \in Sock, Streaming(s, StreamId)'
        PROVE  Along(wc'[s], Unread', serverSequence')
    <3>1. Streaming(s, c2)
      BY <1>1, <1>6, <2>4 DEF Streaming, Owner
    <3>2. Along(wc[s], u, serverSequence)
      BY <1>15, <3>1
    <3>3. Along(wc[s], t, m.seq + 1)
      BY <1>3, <3>2 DEF Along
    <3> QED
      BY <1>1, <1>6, <3>3
  <2> QED
    BY <2>1, <2>2, <2>3, <2>4 DEF Positions
<1>17. InRow'
  BY <1>1, <1>3, <1>5, <1>6 DEF InRow
<1>18. Phase'
  <2> DEFINE r == wc[conn]
  <2>1. r.stage \notin {"none", "upgraded", "checked", "registered"}
    BY <1>1, <1>10 DEF AtPage
  <2>2. r # Gone => r.id = c2
    BY <1>1, <1>3, <1>10 DEF AtPage
  <2>3. r.stage # "ended" => r # Gone
    BY <1>2, HandlerIs
  <2>4. r.stage = "pumping" /\ link[conn] = "up" =>
          IF t = <<>> THEN Num(r) = (IF r.id = c2 THEN m.seq + 1 ELSE 0)
          ELSE Num(r) = FrontOf(t, m.seq + 1)
    <3> SUFFICES ASSUME r.stage = "pumping", link[conn] = "up"
                 PROVE  Num(r) = FrontOf(t, m.seq + 1) /\ r.id = c2
      BY DEF FrontOf
    <3>1. r.id = c2
      BY <2>2, <2>3
    <3>2. Num(r) = FrontOf(u, serverSequence)
      BY <1>1, <1>10 DEF AtPage
    <3> QED
      BY <1>3, <3>1, <3>2
  <2>5. \A x \in Items(r) : x.hello # 0 /\ x.hello # c2 => x.ev >= m.ev
    <3>1. CASE r = Gone
      BY <1>2, <3>1, NewIsSound
    <3>2. CASE r # Gone
      <4>1. \A x \in Items(r) : x.hello # 0 => x.hello = r.id
        BY <1>2, HandlerIs DEF Sound
      <4> QED
        BY <2>2, <3>2, <4>1
    <3> QED
      BY <3>1, <3>2
  <2> HIDE DEF r
  <2>6. AtPage(r, link[conn], t, c2, m.seq + 1, m.ev)
    BY <1>3, <2>1, <2>2, <2>4, <2>5 DEF AtPage
  <2> QED
    BY <1>1, <1>6, <2>6 DEF Phase, r
<1>19. HeardIs'
  <2>1. ASSUME NEW s \in Sock, Streaming(s, c2), s # conn PROVE connectionId = c2
    <3>1. CASE m.hello = 0
      BY <3>1 DEF c2
    <3>2. CASE m.hello # 0
      <4>1. wc[s].id \in OwnIdsOf(conn)
        BY <1>9, <2>1, <3>2 DEF Streaming, c2
      <4>2. conn <= s
        BY <1>2, <4>1 DEF Origins
      <4>3. s <= nsock
        <5>1. wc[s].stage # "none" \/ wc[s].listed
          BY <2>1 DEF Streaming, Owner, Live
        <5>2. wc[s].stage # "none"
          BY <1>0, <5>1 DEF Wires
        <5>3. ~(s > nsock)
          BY <1>0, <5>2 DEF Wires
        <5> QED
          BY <1>0, <5>3, SizesOK DEF Wires, Sock
      <4> QED
        BY <1>0, <1>9, <2>1, <4>2, <4>3, SizesOK DEF Wires, Sock
    <3> QED
      BY <3>1, <3>2
  <2>2. \A s \in Sock : s = conn \/ Streaming(s, c2) => Took(wc[s])
    BY <1>0, <2>1 DEF HeardIs
  <2>3. \A s \in Sock : s = conn' \/ Streaming(s, connectionId)' => Took(wc[s])
    BY <1>1, <2>2 DEF Streaming, Owner
  <2>4. \A k \in 1..Len(t) : t[k].hello = 0 => t[k].ev \in heard
    BY <1>0, <1>3 DEF HeardIs, u
  <2> QED
    BY <1>1, <1>5, <1>6, <2>3, <2>4 DEF HeardIs, Took
<1> QED
  BY <1>11, <1>12, <1>13, <1>14, <1>16, <1>17, <1>18, <1>19 DEF StreamInv

LEMMA OriginsFirst ==
    ASSUME Wires, Wires', Origins, UNCHANGED <<nsock, wc>>, conn' = 0, Unread' = <<>>,
           connectionId' = connectionId
    PROVE  Origins'
  BY DEF Origins

LEMMA OriginsDial ==
    ASSUME OwnersInv, StreamInv, Origins, conn = 0, Dial, StreamInv', wire' = wire,
           connectionId' = connectionId
    PROVE  Origins'
<1> DEFINE n == nsock + 1
<1>0. /\ wc \in [Sock -> WebConn] /\ n \in Sock /\ n > nsock /\ nsock \in Nat
      /\ conn' = n /\ nsock' = n /\ n # 0 /\ wire[n] = <<>>
  <2>1. Wires /\ Links
    BY DEF OwnersInv, StreamInv
  <2>2. n \in Sock /\ n > nsock /\ nsock \in Nat /\ n # 0
    BY <2>1, SizesOK DEF Wires, Dial, Sock
  <2> QED
    BY <2>1, <2>2 DEF Links, Dial
<1>1. wc' = [wc EXCEPT ![n] = NewWebConn(connectionId, serverSequence)]
  BY DEF Dial
<1>2. NewWebConn(connectionId, serverSequence).id = connectionId
  BY DEF NewWebConn
<1> HIDE DEF n, NewWebConn
<1>3. wc'[n].id = connectionId /\ \A t \in Sock : t # n => wc'[t] = wc[t]
  BY <1>0, <1>1, <1>2
<1>4. \A k \in Sock : connectionId \in OwnIdsOf(k) => k <= nsock /\ k <= n
  <2> SUFFICES ASSUME NEW k \in Sock, connectionId \in OwnIdsOf(k)
               PROVE  k <= nsock /\ k <= n
    OBVIOUS
  <2>1. k <= nsock
    BY DEF Origins
  <2>2. k \in Nat /\ n \in Nat
    BY <1>0 DEF Sock
  <2> QED
    BY <1>0, <2>1, <2>2
<1>5. \A t, k \in Sock : wc'[t].id \in OwnIdsOf(k) => k <= t
  BY <1>3, <1>4 DEF Origins
<1>6. Unread' = <<>>
  BY <1>0 DEF Unread
<1> QED
  BY <1>0, <1>3, <1>4, <1>5, <1>6 DEF Origins

LEMMA OriginsRead ==
    ASSUME OwnersInv, StreamInv, Origins, OnMessage PROVE Origins'
<1> DEFINE u == Unread
           m == Unread[1]
           c2 == IF m.hello # 0 THEN m.hello ELSE connectionId
           t == Tail(Unread)
<1>1. /\ conn # 0 /\ opened /\ u = wire[conn] /\ u # <<>>
      /\ connectionId' = c2 /\ wire' = [wire EXCEPT ![conn] = t]
      /\ UNCHANGED <<conn, wc, nsock>>
  BY MessageIsRead
<1>2. /\ u \in Seq(Message) /\ Row(u, connectionId, serverSequence, last, posted)
      /\ posted \in Nat /\ connectionId \in Nat /\ serverSequence \in Nat /\ last \in Nat
      /\ conn \in Sock /\ wire \in [Sock -> Seq(Message)]
      /\ AtPage(wc[conn], link[conn], u, connectionId, serverSequence, last)
  <2>1. Wires /\ Counts /\ Phase
    BY DEF StreamInv, OwnersInv
  <2> QED
    BY <1>1, <2>1, NextIsExpected, PageReads DEF Phase, Counts
<1>3. /\ Row(t, c2, m.seq + 1, m.ev, posted) /\ StreamOf(u, connectionId) = c2
      /\ StreamOf(t, c2) = c2
  <2> HIDE DEF u
  <2> QED
    BY <1>1, <1>2, ReadsNext DEF u
<1>4. Unread' = t
  BY <1>1, <1>2 DEF Unread
<1>5. m.hello # 0 => c2 \in OwnIdsOf(conn)
  BY <1>1 DEF Origins
<1>6. Gone.id = 0
  BY <1>2, NewIsSound
<1> HIDE DEF u, m, t, c2, Gone
<1>7. \A n \in Sock : c2 \in OwnIdsOf(n) => n <= nsock
  <2> SUFFICES ASSUME NEW n \in Sock, c2 \in OwnIdsOf(n) PROVE n <= nsock
    OBVIOUS
  <2>1. CASE m.hello = 0
    BY <2>1 DEF Origins, c2
  <2>2. CASE m.hello # 0
    <3>1. n = conn
      BY <1>2, <1>5, <2>2, OwnIdsDiffer
    <3>2. conn = nsock
      BY <1>1 DEF Origins
    <3> QED
      BY <3>1, <3>2, ZeroIsNobodys
  <2> QED
    BY <2>1, <2>2
<1>8. wc[conn].id \in {0, c2} \cup OwnIdsOf(conn)
  BY <1>1, <1>2, <1>3, <1>6 DEF AtPage
<1>9. ASSUME t # <<>>, t[1].hello # 0 PROVE t[1].hello \in OwnIdsOf(conn)
  <2>1. t[1].hello # c2
    BY <1>3, <1>9 DEF Row, Joins
  <2> QED
    BY <1>3, <1>9, <2>1 DEF StreamOf
<1> QED
  BY <1>1, <1>4, <1>7, <1>8, <1>9 DEF Origins

LEMMA OriginsStep ==
    ASSUME OwnersInv, OwnersInv', StreamInv, StreamInv', Origins, [Next]_vars
    PROVE  Origins'
<1>0. Wires /\ Wires' /\ Counts /\ Links
  BY DEF OwnersInv, StreamInv
<1>1. ASSUME NEW s \in Sock, Server(s) \/ Reap(s) \/ RegisterFails(s) PROVE Origins'
  <2>1. /\ UNCHANGED <<conn, nsock, connectionId>>
        /\ \A t \in Sock : wc'[t].id \in {wc[t].id, 0} \cup OwnIdsOf(t)
    BY <1>1, IdsStay
  <2>2. Unread' = Unread \/ (conn # 0 /\ wc'[conn] # Gone)
    BY <1>1, StillUnread
  <2> QED
    BY <1>0, <2>1, <2>2, OriginsStay
<1>2. CASE Post
  <2>1. UNCHANGED <<conn, nsock, connectionId>> /\ Unread' = Unread
    BY <1>2 DEF Post, clientVars, Unread
  <2>2. \A t \in Sock : wc'[t].id = wc[t].id
    BY <1>2, QueuedFor
  <2> QED
    BY <1>0, <2>1, <2>2, OriginsStay
<1>3. CASE Restart
  <2>1. UNCHANGED <<conn, nsock, connectionId>> /\ Unread' = Unread
    BY <1>3 DEF Restart, clientVars, Unread
  <2>2. \A t \in Sock : wc'[t] \in {wc[t], Gone}
    BY <1>3 DEF Restart
  <2>3. \A t \in Sock : Gone.id = 0
    BY NewIsSound
  <2> HIDE DEF Gone
  <2> QED
    BY <1>0, <2>1, <2>2, <2>3, OriginsStay
<1>4. ASSUME NEW s \in Sock, Cut(s) PROVE Origins'
  <2>1. UNCHANGED <<conn, nsock, connectionId, wc>> /\ wire \in [Sock -> Seq(Message)]
    BY <1>0, <1>4 DEF Cut, clientVars, Counts
  <2>2. s = conn /\ conn # 0
    <3>1. s = conn
      BY <1>0, <1>4 DEF Cut, Links
    <3> QED
      BY <3>1, HandlerIs
  <2>3. PICK k \in 0..Len(wire[s]) : wire' = [wire EXCEPT ![s] = SubSeq(wire[s], 1, k)]
    BY <1>4 DEF Cut
  <2>4. Unread = wire[s] /\ Unread' = SubSeq(wire[s], 1, k)
    BY <2>1, <2>2, <2>3 DEF Unread
  <2>5. Unread' = <<>> \/ (Unread # <<>> /\ Unread'[1] = Unread[1])
    <3> DEFINE u == wire[s]
    <3>1. u \in Seq(Message)
      BY <2>1
    <3> HIDE DEF u
    <3>2. SubSeq(u, 1, k) = <<>> \/ (u # <<>> /\ SubSeq(u, 1, k)[1] = u[1])
      <4>1. CASE k = 0
        BY <3>1, <4>1
      <4>2. CASE k # 0
        BY <2>3, <3>1, <4>2 DEF u
      <4> QED
        BY <4>1, <4>2
    <3> QED
      BY <2>4, <3>2 DEF u
  <2> QED
    BY <1>0, <2>1, <2>5, OriginsStay
<1>5. CASE OnClose \/ PingTimeout
  <2>1. UNCHANGED <<nsock, wc, connectionId>> /\ conn' = 0
    BY <1>5 DEF OnClose, PingTimeout, Closed
  <2>2. Unread' = <<>>
    BY <2>1 DEF Unread
  <2> QED
    BY <1>0, <2>1, <2>2, OriginsFirst
<1>6. CASE Mount \/ (Reconnect /\ conn = 0)
  <2>1. conn = 0
    BY <1>0, <1>6 DEF Mount, Wires
  <2> QED
    BY <1>6, <2>1, OriginsDial DEF Mount, Reconnect
<1>7. CASE (Reconnect /\ conn # 0) \/ Open \/ Online \/ SyncRead \/ UNCHANGED vars
  <2>1. UNCHANGED <<wc, wire, nsock, conn, connectionId>>
    BY <1>7 DEF Reconnect, Open, Online, SyncRead, vars, socketVars, clientVars
  <2>2. Unread' = Unread
    BY <2>1 DEF Unread
  <2> QED
    BY <1>0, <2>1, <2>2, OriginsStay
<1>8. CASE OnMessage
  BY <1>8, OriginsRead
<1> QED
  BY <1>1, <1>2, <1>3, <1>4, <1>5, <1>6, <1>7, <1>8 DEF Next, Client, Faults

LEMMA StreamStep ==
    ASSUME OwnersInv, OwnersInv', StreamInv, Origins, [Next]_vars PROVE StreamInv'
<1>1. ASSUME NEW s \in Sock, Server(s) PROVE StreamInv'
  BY <1>1, UpgradeStep, CheckStep, RegisterStep, PumpStartsStep, PumpStep, EndStep DEF Server
<1>2. ASSUME NEW s \in Sock, Cut(s) \/ Reap(s) \/ RegisterFails(s) PROVE StreamInv'
  BY <1>2, CutStep, RemovedStep
<1>3. CASE Post
  BY <1>3, PostStep
<1>4. CASE Restart
  BY <1>4, RestartStep
<1>5. CASE OnClose \/ PingTimeout
  BY <1>5, CloseStep
<1>6. CASE OnMessage
  BY <1>6, MessageStep
<1>7. CASE Mount \/ Reconnect \/ Open \/ Online \/ SyncRead \/ UNCHANGED vars
  BY <1>7, PageStep
<1> QED
  BY <1>1, <1>2, <1>3, <1>4, <1>5, <1>6, <1>7 DEF Next, Client, Faults

LEMMA StreamInit == Init => OwnersInv /\ StreamInv /\ Origins
<1> SUFFICES ASSUME Init PROVE OwnersInv /\ StreamInv /\ Origins
  OBVIOUS
<1>1. OwnersInv
  BY OwnersInit
<1>2. /\ posted = 0 /\ heard = {} /\ early = {} /\ handover = {} /\ nsock = 0 /\ drops = 0
      /\ conn = 0 /\ opened = FALSE /\ armed = FALSE /\ failed = FALSE
      /\ connectionId = 0 /\ serverSequence = 0 /\ page = {} /\ syncing = TRUE /\ last = 0
      /\ Unread = <<>> /\ StreamId = 0
  BY DEF Init, Unread, StreamId, StreamOf
<1>3. \A s \in Sock : /\ wc[s] = NewWebConn(0, 0) /\ link[s] = "none" /\ wire[s] = <<>>
  BY DEF Init
<1>4. \A s \in Sock : /\ Sound(NewWebConn(0, 0), s, 0) /\ NewWebConn(0, 0).stage = "none"
                      /\ NewWebConn(0, 0).id = 0 /\ ~NewWebConn(0, 0).listed
                      /\ Items(NewWebConn(0, 0)) = {}
  BY NewIsSound
<1> HIDE DEF NewWebConn
<1>5. \A s \in Sock : ~Owner(s) /\ s # 0
  BY <1>3, <1>4, OwnIdsKnown DEF Owner, Live
<1>6. KnownIn(0, wc)
  <2>1. 1 \in Sock
    BY SizesOK DEF Sock
  <2> QED
    BY <2>1, OwnIdsKnown
<1>7. Sounds /\ Dialled
  BY <1>2, <1>3, <1>4 DEF Sounds, Dialled
<1>8. Links
  <2>1. wc \in [Sock -> WebConn]
    <3>1. \A s \in Sock : wc[s] \in WebConn
      BY <1>3, <1>4 DEF Sound
    <3>2. wc = [s \in Sock |-> wc[s]]
      BY DEF Init
    <3> QED
      BY <3>1, <3>2
  <2>2. link \in [Sock -> {"none", "dialling", "up", "cut"}]
    BY DEF Init
  <2> QED
    BY <1>2, <1>3, <2>1, <2>2 DEF Links
<1>9. Counts
  <2>1. <<>> \in Seq(Message)
    OBVIOUS
  <2>2. wire \in [Sock -> Seq(Message)]
    BY <2>1 DEF Init
  <2>3. posted \in 0..MaxEvents /\ 0 \in Nat
    BY <1>2, SizesOK
  <2>4. /\ page \subseteq 1..posted /\ heard \subseteq 1..posted
        /\ early \subseteq 1..posted /\ handover \subseteq 1..posted
    BY <1>2
  <2>5. /\ opened \in BOOLEAN /\ armed \in BOOLEAN /\ failed \in BOOLEAN
        /\ syncing \in BOOLEAN
    BY <1>2
  <2> QED
    BY <1>2, <2>2, <2>3, <2>4, <2>5 DEF Counts
<1>10. Ids /\ InRow
  <2>1. Len(<<>>) = 0
    OBVIOUS
  <2>2. \A s \in Sock : KnownIn(wc[s].id, wc)
    BY <1>3, <1>4, <1>6
  <2> QED
    BY <1>2, <1>6, <2>1, <2>2 DEF Ids, InRow, Row, Chain
<1>11. Positions /\ Phase /\ HeardIs
  <2>1. Len(<<>>) = 0
    OBVIOUS
  <2> QED
    BY <1>2, <1>5, <2>1 DEF Positions, Phase, HeardIs, Streaming
<1>12. Origins
  <2>1. \A s, n \in Sock : wc[s].id \notin OwnIdsOf(n) /\ 0 \notin OwnIdsOf(n)
    BY <1>3, <1>4, ZeroIsNobodys
  <2> QED
    BY <1>2, <2>1 DEF Origins
<1> QED
  BY <1>1, <1>7, <1>8, <1>9, <1>10, <1>11, <1>12 DEF StreamInv

LEMMA StreamHolds == Spec => [](OwnersInv /\ StreamInv /\ Origins)
<1>1. Init => OwnersInv /\ StreamInv /\ Origins
  BY StreamInit
<1>2. OwnersInv /\ StreamInv /\ Origins /\ [Next]_vars =>
        (OwnersInv /\ StreamInv /\ Origins)'
  <2> SUFFICES ASSUME OwnersInv, StreamInv, Origins, [Next]_vars
               PROVE  OwnersInv' /\ StreamInv' /\ Origins'
    OBVIOUS
  <2>1. OwnersInv'
    BY OwnersStep
  <2>2. StreamInv'
    BY <2>1, StreamStep
  <2>3. Origins'
    BY <2>1, <2>2, OriginsStep
  <2> QED
    BY <2>1, <2>2, <2>3
<1> QED
  BY <1>1, <1>2, PTL DEF Spec

(* Every variable keeps its type, whatever the handlers, the pumps and the *)
(* page do, and the queues with it.                                        *)
THEOREM TypeCorrect == Spec => []TypeOK
<1>1. OwnersInv /\ StreamInv /\ Origins => TypeOK
  BY DEF OwnersInv, StreamInv, Wires, Counts, Links, WebConn, TypeOK
<1> QED
  BY <1>1, StreamHolds, PTL

(* The page never reads a message with another number than it expects: the *)
(* mismatch branch of onmessage is never taken.                            *)
THEOREM StaysInStep == Spec => []InStep
<1>1. OwnersInv /\ StreamInv /\ Origins => InStep
  BY NextIsExpected DEF InStep
<1> QED
  BY <1>1, StreamHolds, PTL

-----------------------------------------------------------------------------
(***************************************************************************)
(* Where the events are that the page has still to show, and why it will   *)
(* not see the others.  An event that was queued for the page is in the    *)
(* queues behind what the page has, or a hello the page has still to read  *)
(* covers it: that hello comes with a new id and makes the page reload.    *)
(* An event that was not queued met no queue, or one that was full and is  *)
(* given up: the next hello covers it.                                     *)
(***************************************************************************)
\* The page reads the server's state, or will when it is connected.
Reloading == syncing \/ (failed /\ ~opened)

Waits(r, f) == \E m \in Waiting(r) : m.hello = 0 /\ m.ev = f

\* The queues have the event, or have lost it and their owner will see that.
Kept(r, q, f) ==
    \/ \E m \in Items(r) : m.hello = 0 /\ m.ev = f
    \/ Num(r) > q + DeadQueueSize /\ \E m \in InRing(r.dead) : f < m.ev

\* A hello under a new id covers the event.
Greets(r, c, f) == c # 0 /\ \E m \in Waiting(r) : m.hello # 0 /\ f <= m.ev
Greeting(u, c, f) == u # <<>> /\ u[1].hello # 0 /\ c # 0 /\ f <= u[1].ev

\* The event came when the WebConn had been taken out of the hub.
Refused(r, f) == ~r.listed /\ \A m \in Items(r) : m.ev < f

\* A handler that looks for the queues finds them there, now or soon.
Holds(r) == r.listed \/ r.stage = "checked"

\* The handler r of the page's socket, in the world w, has an event queued for
\* a page of id c that wants number q.
Hears(r, w, c, q, f) ==
    /\ r.stage \in {"none", "upgraded"} =>
         /\ c # 0
         /\ \A t \in Sock : Holds(w[t]) /\ w[t].id = c => Kept(w[t], q, f)
    /\ r.stage = "checked" => IF r.reused THEN Kept(r, q, f) ELSE c # 0
    /\ r.stage = "registered" => Kept(r, q, f) \/ Greets(r, c, f) \/ Refused(r, f)
    /\ r.stage = "pumping" => Waits(r, f) \/ Greets(r, c, f) \/ Refused(r, f)

\* It is on the wire, covered by the hello there, or behind what is there.
Ahead(u, lk, r, w, c, q, f) ==
    \/ \E k \in 1..Len(u) : u[k].hello = 0 /\ u[k].ev = f
    \/ Greeting(u, c, f)
    \/ /\ \A k \in 1..Len(u) : u[k].ev < f
       /\ lk \in {"dialling", "up"} => Hears(r, w, c, q, f)

\* The handler has not got an event, and the page is going to be told so.
Skips(u, r, w, c, f) ==
    /\ r.stage \in {"none", "upgraded"} =>
         c # 0 /\ \A t \in Sock : Holds(w[t]) => w[t].id # c
    /\ r.stage = "checked" => ~r.reused /\ c # 0
    /\ r.stage \in {"registered", "pumping"} =>
         ~r.listed \/ Greets(r, c, f) \/ Greeting(u, c, f)

Pending ==
    Reloading \/ \A f \in heard \ page :
        /\ f > last
        /\ Ahead(Unread, link[conn], wc[conn], wc, connectionId, serverSequence, f)

Explained ==
    Reloading \/ \A f \in (1..posted) \ (page \cup heard \cup early \cup handover) :
        link[conn] \in {"dialling", "up"} => Skips(Unread, wc[conn], wc, connectionId, f)

Told == Pending /\ Explained

LEMMA KeptSame ==
    ASSUME NEW o, NEW r, r.send = o.send, r.dead = o.dead, r.ptr = o.ptr
    PROVE  /\ Num(r) = Num(o) /\ Waiting(r) = Waiting(o) /\ Items(r) = Items(o)
           /\ \A q, f : Kept(o, q, f) <=> Kept(r, q, f)
           /\ \A f : Waits(o, f) <=> Waits(r, f)
           /\ \A c, f : Greets(o, c, f) <=> Greets(r, c, f)
<1>1. Num(r) = Num(o)
  BY DEF Num
<1>2. Waiting(r) = Waiting(o)
  BY <1>1 DEF Waiting
<1>3. Items(r) = Items(o)
  BY <1>2 DEF Items
<1>4. \A q, f : Kept(o, q, f) <=> Kept(r, q, f)
  BY <1>1, <1>3 DEF Kept
<1> QED
  BY <1>1, <1>2, <1>3, <1>4 DEF Waits, Greets

\* Whoever holds the queues of id c after a step has them from a holder before
\* it, with what a client that has the events up to e and wants number q lacks.
KeptOn(w, w2, c, q, e) ==
    \A t \in Sock : Holds(w2[t]) /\ w2[t].id = c /\ c # 0 =>
        \E u \in Sock : /\ Holds(w[u]) /\ w[u].id = c
                        /\ \A f \in Nat : f > e /\ Kept(w[u], q, f) => Kept(w2[t], q, f)

HoldsOn(o, r, c, q, e) ==
    Holds(r) /\ r.id = c /\ c # 0 =>
        /\ Holds(o) /\ o.id = c
        /\ \A f \in Nat : f > e /\ Kept(o, q, f) => Kept(r, q, f)

LEMMA EachKeepsOn ==
    ASSUME NEW w, NEW w2, NEW c, NEW q, NEW e,
           \A t \in Sock : w2[t] = w[t] \/ HoldsOn(w[t], w2[t], c, q, e)
    PROVE  KeptOn(w, w2, c, q, e)
<1> SUFFICES ASSUME NEW t \in Sock, Holds(w2[t]), w2[t].id = c, c # 0
             PROVE  \E u \in Sock : /\ Holds(w[u]) /\ w[u].id = c
                                    /\ \A f \in Nat : f > e /\ Kept(w[u], q, f) => Kept(w2[t], q, f)
  BY DEF KeptOn
<1> QED
  BY DEF HoldsOn

LEMMA NobodyStarts ==
    ASSUME NEW w, NEW w2, NEW c, NEW q, NEW e, KeptOn(w, w2, c, q, e), c # 0
    PROVE  /\ \A f \in Nat : f > e /\ (\A t \in Sock : Holds(w[t]) /\ w[t].id = c => Kept(w[t], q, f))
                => \A t \in Sock : Holds(w2[t]) /\ w2[t].id = c => Kept(w2[t], q, f)
           /\ (\A t \in Sock : Holds(w[t]) => w[t].id # c)
                => \A t \in Sock : Holds(w2[t]) => w2[t].id # c
  BY DEF KeptOn

\* The handlers of other sockets move.
LEMMA OthersHear ==
    ASSUME NEW w, NEW w2, NEW c, NEW q, NEW e, KeptOn(w, w2, c, q, e),
           NEW r, NEW r2, r2 = r \/ r2.stage = "ended",
           NEW f \in Nat, NEW u
    PROVE  /\ f > e /\ Hears(r, w, c, q, f) => Hears(r2, w2, c, q, f)
           /\ Skips(u, r, w, c, f) => Skips(u, r2, w2, c, f)
<1>1. CASE r2.stage = "ended"
  BY <1>1 DEF Hears, Skips
<1>2. CASE r2 = r
  <2>1. ASSUME f > e, Hears(r, w, c, q, f) PROVE Hears(r2, w2, c, q, f)
    <3>1. r.stage \in {"none", "upgraded"} =>
            c # 0 /\ \A t \in Sock : Holds(w2[t]) /\ w2[t].id = c => Kept(w2[t], q, f)
      BY <2>1, NobodyStarts DEF Hears
    <3> QED
      BY <1>2, <2>1, <3>1 DEF Hears
  <2>2. ASSUME Skips(u, r, w, c, f) PROVE Skips(u, r2, w2, c, f)
    <3>1. r.stage \in {"none", "upgraded"} =>
            c # 0 /\ \A t \in Sock : Holds(w2[t]) => w2[t].id # c
      BY <2>2, NobodyStarts DEF Skips
    <3> QED
      BY <1>2, <2>2, <3>1 DEF Skips
  <2> QED
    BY <2>1, <2>2
<1> QED
  BY <1>1, <1>2

\* The page rests, and nothing is written.
LEMMA NothingWritten ==
    ASSUME OwnersInv, StreamInv, Told, PageAlone, wire' = wire,
           conn # 0 /\ link'[conn] \in {"dialling", "up"} =>
             /\ link[conn] \in {"dialling", "up"}
             /\ \A f \in 1..posted :
                  /\ f > last /\ Hears(wc[conn], wc, connectionId, serverSequence, f)
                       => Hears(wc'[conn], wc', connectionId, serverSequence, f)
                  /\ Skips(Unread, wc[conn], wc, connectionId, f)
                       => Skips(Unread, wc'[conn], wc', connectionId, f)
    PROVE  Told'
<1>1. /\ conn' = conn /\ Unread' = Unread /\ connectionId' = connectionId
      /\ serverSequence' = serverSequence /\ last' = last /\ page' = page
      /\ heard' = heard /\ posted' = posted /\ early' = early /\ handover' = handover
      /\ Reloading' = Reloading
  BY DEF PageAlone, hubVars, clientVars, pageVars, Unread, Reloading
<1>2. CASE Reloading
  BY <1>1, <1>2 DEF Told, Pending, Explained
<1>3. CASE ~Reloading
  <2>1. conn # 0 /\ heard \subseteq 1..posted
    BY <1>3 DEF StreamInv, Links, Counts, Reloading
  <2>2. Pending'
    <3> SUFFICES ASSUME NEW f \in heard \ page
                 PROVE  /\ f > last
                        /\ Ahead(Unread, link'[conn], wc'[conn], wc', connectionId,
                                 serverSequence, f)
      BY <1>1 DEF Pending
    <3>1. /\ f > last /\ f \in 1..posted
          /\ Ahead(Unread, link[conn], wc[conn], wc, connectionId, serverSequence, f)
      BY <1>3, <2>1 DEF Told, Pending
    <3>2. link'[conn] \in {"dialling", "up"} =>
            /\ link[conn] \in {"dialling", "up"}
            /\ Hears(wc[conn], wc, connectionId, serverSequence, f)
                 => Hears(wc'[conn], wc', connectionId, serverSequence, f)
      BY <2>1, <3>1
    <3> QED
      BY <3>1, <3>2 DEF Ahead
  <2>3. Explained'
    BY <1>1, <1>3, <2>1 DEF Told, Explained
  <2> QED
    BY <2>2, <2>3 DEF Told
<1> QED
  BY <1>2, <1>3

\* One handler moves, and nothing is written.
LEMMA OneTold ==
    ASSUME OwnersInv, StreamInv, Told, NEW s \in Sock, NEW r, wc' = [wc EXCEPT ![s] = r],
           PageAlone, wire' = wire,
           \A t \in Sock : link'[t] \in {"dialling", "up"} => link[t] \in {"dialling", "up"},
           HoldsOn(wc[s], r, connectionId, serverSequence, last),
           s = conn /\ link'[s] \in {"dialling", "up"} =>
             \A f \in 1..posted :
               /\ f > last /\ Hears(wc[s], wc, connectionId, serverSequence, f)
                    => Hears(r, wc', connectionId, serverSequence, f)
               /\ Skips(Unread, wc[s], wc, connectionId, f)
                    => Skips(Unread, r, wc', connectionId, f)
    PROVE  Told'
<1>1. wc'[s] = r /\ \A t \in Sock \ {s} : wc'[t] = wc[t]
  BY DEF StreamInv, Links
<1>2. KeptOn(wc, wc', connectionId, serverSequence, last)
  <2>1. \A t \in Sock : wc'[t] = wc[t]
                        \/ HoldsOn(wc[t], wc'[t], connectionId, serverSequence, last)
    BY <1>1
  <2> QED
    BY <2>1, EachKeepsOn
<1>3. ASSUME conn # 0, link'[conn] \in {"dialling", "up"}
      PROVE  /\ link[conn] \in {"dialling", "up"}
             /\ \A f \in 1..posted :
                  /\ f > last /\ Hears(wc[conn], wc, connectionId, serverSequence, f)
                       => Hears(wc'[conn], wc', connectionId, serverSequence, f)
                  /\ Skips(Unread, wc[conn], wc, connectionId, f)
                       => Skips(Unread, wc'[conn], wc', connectionId, f)
  <2>1. conn \in Sock /\ posted \in Nat
    BY <1>3, HandlerIs
  <2>2. CASE conn = s
    BY <1>1, <1>3, <2>2
  <2>3. CASE conn # s
    <3>1. wc'[conn] = wc[conn] /\ \A f \in 1..posted : f \in Nat
      BY <1>1, <2>1, <2>3
    <3> QED
      BY <1>2, <1>3, <2>1, <3>1, OthersHear
  <2> QED
    BY <2>2, <2>3
<1> QED
  BY <1>3, NothingWritten

LEMMA LinksFall ==
    ASSUME StreamInv, NEW s \in Sock, link' = link \/ link' = [link EXCEPT ![s] = "cut"]
    PROVE  \A t \in Sock : link'[t] \in {"dialling", "up"} => link[t] \in {"dialling", "up"}
  BY DEF StreamInv, Links

LEMMA EndedTold ==
    ASSUME OwnersInv, StreamInv, Told, NEW s \in Sock, NEW r, wc' = [wc EXCEPT ![s] = r],
           PageAlone, wire' = wire,
           link' = link \/ link' = [link EXCEPT ![s] = "cut"], r.stage = "ended",
           r.listed => /\ wc[s].listed /\ r.id = wc[s].id
                       /\ r.send = wc[s].send /\ r.dead = wc[s].dead /\ r.ptr = wc[s].ptr
    PROVE  Told'
<1>1. HoldsOn(wc[s], r, connectionId, serverSequence, last)
  <2>1. r.listed => \A q, f : Kept(wc[s], q, f) <=> Kept(r, q, f)
    BY KeptSame
  <2> QED
    BY <2>1 DEF HoldsOn, Holds
<1>2. \A f \in 1..posted :
        /\ Hears(r, wc', connectionId, serverSequence, f)
        /\ Skips(Unread, r, wc', connectionId, f)
  BY DEF Hears, Skips
<1> QED
  BY <1>1, <1>2, LinksFall, OneTold

LEMMA RemovedTold ==
    ASSUME OwnersInv, StreamInv, Told, NEW s \in Sock,
           Reap(s) \/ RegisterFails(s) \/ PumpEnds(s)
    PROVE  Told'
<1>1. PageAlone /\ wire' = wire /\ (link' = link \/ link' = [link EXCEPT ![s] = "cut"])
  <2>1. drops' \in Nat
    <3>1. drops \in Nat /\ (drops' = drops \/ drops' = drops + 1)
      BY DEF Reap, RegisterFails, PumpEnds, Drop, StreamInv, Counts
    <3> QED
      BY <3>1
  <2> QED
    BY <2>1 DEF Reap, RegisterFails, PumpEnds, PageAlone, hubVars, clientVars, pageVars
<1>2. CASE wc' = [wc EXCEPT ![s] = Gone]
  <2>1. Gone.stage = "ended" /\ ~Gone.listed
    BY GoneShape
  <2> QED
    BY <1>1, <1>2, <2>1, EndedTold
<1>3. CASE wc[s].listed /\ PumpEnds(s)
  <2> DEFINE r == [wc[s] EXCEPT !.stage = "ended", !.active = FALSE]
  <2>1. wc' = [wc EXCEPT ![s] = r]
    BY <1>3 DEF PumpEnds
  <2>2. /\ r.stage = "ended" /\ r.id = wc[s].id
        /\ r.send = wc[s].send /\ r.dead = wc[s].dead /\ r.ptr = wc[s].ptr
    BY HandlerIs DEF WebConn
  <2> HIDE DEF r
  <2> QED
    BY <1>1, <1>3, <2>1, <2>2, EndedTold
<1> QED
  BY <1>2, <1>3 DEF Reap, RegisterFails, PumpEnds

LEMMA UpgradeTold ==
    ASSUME OwnersInv, StreamInv, Told, NEW s \in Sock, Upgrade(s) PROVE Told'
<1> DEFINE o == wc[s]
           r == [wc[s] EXCEPT !.stage = "upgraded"]
<1>0. /\ Links /\ Wires /\ wc \in [Sock -> WebConn] /\ drops \in Nat
      /\ link \in [Sock -> {"none", "dialling", "up", "cut"}]
  BY DEF StreamInv, OwnersInv, Counts, Links
<1>1. o.stage = "none" /\ o \in WebConn /\ ~o.listed
  BY <1>0 DEF Upgrade, Wires
<1>2. wc' = [wc EXCEPT ![s] = r]
  BY <1>0 DEF Upgrade
<1>3. r.stage = "upgraded" /\ r.listed = o.listed
  BY <1>1 DEF WebConn
<1>4. /\ wire' = wire /\ PageAlone
      /\ \A t \in Sock : link'[t] \in {"dialling", "up"} => link[t] \in {"dialling", "up"}
  BY <1>0 DEF Upgrade, PageAlone, hubVars, clientVars, pageVars
<1> HIDE DEF r
<1>5. ~Holds(r)
  BY <1>1, <1>3 DEF Holds
<1>6. HoldsOn(wc[s], r, connectionId, serverSequence, last)
  BY <1>5 DEF HoldsOn
<1>7. ASSUME NEW f \in 1..posted
      PROVE  /\ f > last /\ Hears(o, wc, connectionId, serverSequence, f)
                  => Hears(r, wc', connectionId, serverSequence, f)
             /\ Skips(Unread, o, wc, connectionId, f) => Skips(Unread, r, wc', connectionId, f)
  <2>1. \A t \in Sock : Holds(wc'[t]) => wc'[t] = wc[t]
    BY <1>0, <1>2, <1>5
  <2> QED
    BY <1>1, <1>3, <2>1 DEF Hears, Skips
<1> QED
  BY <1>2, <1>4, <1>6, <1>7, OneTold

LEMMA AfreshTold ==
    ASSUME OwnersInv, StreamInv, Told, NEW s \in Sock, wc[s].stage = "upgraded",
           StartAfresh(s), PageAlone, wire' = wire, link' = link
    PROVE  Told'
<1> DEFINE r == [NewWebConn(s, 0) EXCEPT !.stage = "checked"]
<1>1. wc' = [wc EXCEPT ![s] = r]
  BY DEF StartAfresh
<1>2. r.stage = "checked" /\ r.id = s /\ r.reused = FALSE
  BY DEF NewWebConn
<1> HIDE DEF r
<1>3. connectionId # s
  <2>1. ~KnownIn(s, wc)
    BY OwnIdsKnown DEF PumpHasBegun
  <2> QED
    BY <2>1, HandlerIs
<1>4. HoldsOn(wc[s], r, connectionId, serverSequence, last)
  BY <1>2, <1>3 DEF HoldsOn
<1>5. \A f \in 1..posted :
        /\ Hears(wc[s], wc, connectionId, serverSequence, f)
             => Hears(r, wc', connectionId, serverSequence, f)
        /\ Skips(Unread, wc[s], wc, connectionId, f) => Skips(Unread, r, wc', connectionId, f)
  BY <1>2 DEF Hears, Skips
<1> QED
  BY <1>1, <1>4, <1>5, LinksFall, OneTold

LEMMA HandOverTold ==
    ASSUME OwnersInv, StreamInv, Told, NEW s \in Sock, NEW t \in Sock,
           wc[s].stage = "upgraded", wc[s].id # 0, HandOver(s, t),
           PageAlone, wire' = wire, link' = link
    PROVE  Told'
<1> DEFINE o == wc[s]
           w == wc[t]
           r == [wc[s] EXCEPT !.stage = "checked", !.reused = TRUE,
                              !.send = wc[t].send, !.dead = wc[t].dead,
                              !.ptr = wc[t].ptr]
<1>0. /\ o \in WebConn /\ w \in WebConn /\ wc \in [Sock -> WebConn] /\ Staged(o, s)
      /\ Staged(w, t) /\ posted \in Nat
  BY HandlerIs DEF StreamInv, Links
<1>1. w.listed /\ w.id = o.id /\ s # t /\ w.stage = "ended"
  BY <1>0 DEF HandOver, Inactive, Staged
<1>2. /\ wc'[s] = r /\ wc'[t] = Gone /\ \A n \in Sock : n # s /\ n # t => wc'[n] = wc[n]
  BY <1>0, <1>1 DEF HandOver
<1>3. /\ r.stage = "checked" /\ r.reused /\ r.id = o.id
      /\ r.send = w.send /\ r.dead = w.dead /\ r.ptr = w.ptr
  BY <1>0 DEF WebConn
<1> HIDE DEF r
<1>4. \A q, f : Kept(w, q, f) <=> Kept(r, q, f)
  BY <1>3, KeptSame
<1>5. Gone.stage = "ended" /\ ~Gone.listed
  BY GoneShape
<1> HIDE DEF Gone
<1>6. KeptOn(wc, wc', connectionId, serverSequence, last)
  <2> SUFFICES ASSUME NEW n \in Sock, Holds(wc'[n]), wc'[n].id = connectionId
               PROVE  \E u \in Sock :
                        /\ Holds(wc[u]) /\ wc[u].id = connectionId
                        /\ \A f \in Nat : f > last /\ Kept(wc[u], serverSequence, f)
                                            => Kept(wc'[n], serverSequence, f)
    BY DEF KeptOn
  <2>1. CASE n = s
    <3>1. Holds(w) /\ w.id = connectionId
      BY <1>1, <1>2, <1>3, <2>1 DEF Holds
    <3> QED
      BY <1>2, <1>4, <2>1, <3>1
  <2>2. CASE n = t
    BY <1>2, <1>5, <2>2 DEF Holds
  <2>3. CASE n # s /\ n # t
    BY <1>2, <2>3
  <2> QED
    BY <2>1, <2>2, <2>3
<1>7. ASSUME conn # 0, NEW f \in 1..posted
      PROVE  /\ f > last /\ Hears(wc[conn], wc, connectionId, serverSequence, f)
                  => Hears(wc'[conn], wc', connectionId, serverSequence, f)
             /\ Skips(Unread, wc[conn], wc, connectionId, f)
                  => Skips(Unread, wc'[conn], wc', connectionId, f)
  <2>0. conn \in Sock /\ f \in Nat
    BY <1>0, <1>7, HandlerIs
  <2>1. CASE conn = s
    <3>1. o.id = connectionId
      BY <2>1, HandlerIs DEF AtPage
    <3>2. Holds(w) /\ w.id = connectionId
      BY <1>1, <3>1 DEF Holds
    <3>3. Hears(o, wc, connectionId, serverSequence, f) => Kept(w, serverSequence, f)
      BY <3>2 DEF Hears
    <3>4. ~Skips(Unread, o, wc, connectionId, f)
      BY <3>2 DEF Skips
    <3>5. Kept(r, serverSequence, f) => Hears(r, wc', connectionId, serverSequence, f)
      BY <1>3 DEF Hears
    <3> QED
      BY <1>2, <1>4, <2>1, <3>3, <3>4, <3>5
  <2>2. CASE conn # s
    <3>1. wc'[conn] = wc[conn] \/ wc'[conn].stage = "ended"
      BY <1>2, <1>5, <2>0, <2>2
    <3> QED
      BY <1>6, <2>0, <3>1, OthersHear
  <2> QED
    BY <2>1, <2>2
<1> QED
  BY <1>7, NothingWritten

LEMMA CheckTold ==
    ASSUME OwnersInv, StreamInv, Told, NEW s \in Sock, CheckConn(s) PROVE Told'
<1>1. PageAlone /\ wire' = wire /\ link' = link /\ wc[s].stage = "upgraded"
  <2>1. drops' \in Nat
    BY DEF CheckConn, StreamInv, Counts
  <2> QED
    BY <2>1 DEF CheckConn, PageAlone, hubVars, clientVars, pageVars
<1>2. CASE wc[s].id # 0 /\ \E t \in Sock : HandOver(s, t)
  BY <1>1, <1>2, HandOverTold
<1>3. CASE StartAfresh(s)
  BY <1>1, <1>3, AfreshTold
<1> QED
  BY <1>2, <1>3 DEF CheckConn

LEMMA RegisterTold ==
    ASSUME OwnersInv, StreamInv, Told, NEW s \in Sock, Register(s) PROVE Told'
<1> DEFINE r == [wc[s] EXCEPT !.stage = "registered", !.active = TRUE,
                   !.listed = TRUE,
                   !.send = IF wc[s].reused THEN wc[s].send
                            ELSE Append(wc[s].send, Hello(wc[s].id, posted))]
           o == wc[s]
<1>0. /\ Sound(o, s, posted) /\ o \in WebConn /\ Staged(o, s) /\ Num(o) \in Nat
      /\ o.stage = "checked" /\ posted \in Nat /\ s \in Nat \ {0}
      /\ wc \in [Sock -> WebConn]
  BY HandlerIs, OwnIdsKnown DEF Register, StreamInv, Links
<1>1. wc' = [wc EXCEPT ![s] = r] /\ PageAlone /\ wire' = wire /\ link' = link
  <2>1. wc' = [wc EXCEPT ![s] = r]
    BY <1>0 DEF Register, WebConn
  <2>2. drops' \in Nat
    BY DEF Register, StreamInv, Counts
  <2> QED
    BY <2>1, <2>2 DEF Register, PageAlone, hubVars, clientVars, pageVars
<1>2. ~o.reused => o.id = s /\ o.send = <<>>
  BY <1>0 DEF Staged, Empty
<1>3. /\ r.stage = "registered" /\ r.active = TRUE /\ r.listed = TRUE
      /\ r.id = o.id /\ r.seq = o.seq /\ r.reused = o.reused
      /\ r.dead = o.dead /\ r.ptr = o.ptr
      /\ o.reused => r.send = o.send
      /\ ~o.reused => r.send = Append(<<>>, Hello(s, posted))
  BY <1>0, <1>2 DEF WebConn
<1>4. r \in WebConn
  <2> DEFINE Stages == {"none", "upgraded", "ended"} \cup Live
             q == IF wc[s].reused THEN wc[s].send
                  ELSE Append(wc[s].send, Hello(wc[s].id, posted))
  <2>1. "registered" \in Stages
    BY DEF Live
  <2>2. q \in Seq(Item)
    <3>1. wc[s].send \in Seq(Item) /\ Hello(wc[s].id, posted) \in Item
      BY <1>0 DEF WebConn, Hello, Item
    <3> QED
      BY <3>1
  <2> HIDE DEF Stages, q, Item, Message, Nil
  <2>3. r = [wc[s] EXCEPT !.stage = "registered", !.active = TRUE,
               !.listed = TRUE, !.send = q]
    BY DEF q
  <2> QED
    BY <1>0, <2>1, <2>2, <2>3 DEF WebConn, Stages
<1> HIDE DEF r, o
<1>5. /\ o.reused => \A q, f : Kept(o, q, f) <=> Kept(r, q, f)
      /\ ~o.reused => Waiting(r) = {[seq |-> 0, hello |-> s, ev |-> posted]}
  <2>1. o.reused => \A q, f : Kept(o, q, f) <=> Kept(r, q, f)
    BY <1>3, KeptSame
  <2>2. ~o.reused => Waiting(r) = {[seq |-> 0, hello |-> s, ev |-> posted]}
    BY <1>0, <1>3, <1>4, SoundRegistered
  <2> QED
    BY <2>1, <2>2
<1>6. HoldsOn(o, r, connectionId, serverSequence, last)
  <2>1. CASE o.reused
    BY <1>0, <1>3, <1>5, <2>1 DEF HoldsOn, Holds
  <2>2. CASE ~o.reused
    <3>1. ~KnownIn(s, wc)
      BY <1>0, OwnIdsKnown DEF PumpHasBegun, o
    <3>2. r.id # connectionId
      BY <1>2, <1>3, <2>2, <3>1, HandlerIs
    <3> QED
      BY <3>2 DEF HoldsOn
  <2> QED
    BY <2>1, <2>2
<1>7. ASSUME NEW f \in 1..posted
      PROVE  /\ Hears(o, wc, connectionId, serverSequence, f)
                  => Hears(r, wc', connectionId, serverSequence, f)
             /\ Skips(Unread, o, wc, connectionId, f) => Skips(Unread, r, wc', connectionId, f)
  <2>1. CASE o.reused
    BY <1>0, <1>3, <1>5, <2>1 DEF Hears, Skips
  <2>2. CASE ~o.reused
    <3>1. connectionId # 0 => Greets(r, connectionId, f)
      <4> DEFINE h == [seq |-> 0, hello |-> s, ev |-> posted]
      <4>1. h \in Waiting(r) /\ h.hello # 0 /\ f <= h.ev
        BY <1>0, <1>5, <2>2
      <4> QED
        BY <4>1 DEF Greets
    <3> QED
      BY <1>0, <1>3, <2>2, <3>1 DEF Hears, Skips
  <2> QED
    BY <2>1, <2>2
<1> QED
  BY <1>1, <1>6, <1>7, LinksFall, OneTold DEF o

\* What a page of an id lacks is not among what is numbered below its sequence.
LEMMA LackedIsLater ==
    ASSUME NEW r, NEW s, NEW p, Sound(r, s, p), NEW q \in Nat, NEW e \in Nat, Fits(r, q, e),
           NEW m \in Items(r), e < m.ev
    PROVE  q <= m.seq /\ (m.seq >= Num(r) => m \in Waiting(r))
                      /\ (m.seq < Num(r) => m \in InRing(r.dead))
<1>1. m.seq \in Nat /\ m.ev \in Nat /\ Num(r) \in Nat
  BY SoundFacts
<1>2. q <= m.seq
  BY <1>1 DEF Fits
<1>3. m \in InRing(r.dead) => m.seq < Num(r)
  BY SoundFacts
<1>4. m \in Waiting(r) => m.seq >= Num(r)
  BY <1>1, SoundFacts
<1>5. m \in InRing(r.dead) \/ m \in Waiting(r)
  BY DEF Items
<1> QED
  BY <1>1, <1>2, <1>3, <1>4, <1>5

LEMMA PlainTold ==
    ASSUME OwnersInv, StreamInv, Told, NEW s \in Sock, wc[s].stage = "registered",
           \/ wc[s].seq = 0
           \/ ~InQueue(s) /\ ~HasMsgLoss(wc[s].dead, wc[s].ptr, wc[s].seq),
           wc' = [wc EXCEPT ![s].stage = "pumping"],
           PageAlone, wire' = wire, link' = link
    PROVE  Told'
<1> DEFINE o == wc[s]
           r == [wc[s] EXCEPT !.stage = "pumping"]
<1>0. /\ Sound(o, s, posted) /\ o \in WebConn /\ Staged(o, s) /\ posted \in Nat
      /\ wc \in [Sock -> WebConn] /\ o.stage = "registered"
      /\ Num(o) \in Nat /\ Ring(o.dead, o.ptr, Num(o)) /\ o.seq \in Nat
  <2>1. Sound(o, s, posted) /\ posted \in Nat /\ wc \in [Sock -> WebConn]
    BY HandlerIs DEF StreamInv, Links
  <2> QED
    BY <2>1, SoundFacts DEF WebConn
<1>1. wc' = [wc EXCEPT ![s] = r]
  BY <1>0
<1>2. /\ r.stage = "pumping" /\ r.listed = o.listed /\ r.id = o.id
      /\ r.send = o.send /\ r.dead = o.dead /\ r.ptr = o.ptr
  BY <1>0 DEF WebConn
<1> HIDE DEF r
<1>3. /\ \A q, f : Kept(o, q, f) <=> Kept(r, q, f)
      /\ \A f : Waits(o, f) <=> Waits(r, f)
      /\ \A c, f : Greets(o, c, f) <=> Greets(r, c, f)
      /\ Items(r) = Items(o)
  BY <1>2, KeptSame
<1>4. HoldsOn(o, r, connectionId, serverSequence, last)
  BY <1>0, <1>2, <1>3 DEF HoldsOn, Holds
<1>5. o.seq = Num(o)
  <2>1. CASE o.reused
    <3>1. 1 <= o.seq /\ o.seq <= Num(o)
      BY <1>0, <2>1 DEF Staged
    <3>2. HasMsgLoss(o.dead, o.ptr, o.seq) <=> o.seq # Num(o)
      BY <1>0, <3>1, RingSearch
    <3> QED
      BY <1>0, <3>1, <3>2
  <2>2. CASE ~o.reused
    BY <1>0, <2>2 DEF Staged
  <2> QED
    BY <2>1, <2>2
<1>6. ASSUME s = conn, NEW f \in 1..posted, f > last, Kept(o, serverSequence, f)
      PROVE  Waits(o, f)
  <2>0. /\ AtPage(o, link[s], Unread, connectionId, serverSequence, last)
        /\ serverSequence \in Nat /\ last \in Nat /\ f \in Nat
    BY <1>0, <1>6, HandlerIs
  <2>1. CASE o.reused
    <3>1. o.id = connectionId /\ o.seq = serverSequence /\ o.id # 0
      BY <1>0, <2>0, <2>1 DEF AtPage, Staged
    <3>2. Fits(o, serverSequence, last)
      BY <1>0, <3>1, HandlerIs DEF Streaming, Owner, Live
    <3>3. ~(Num(o) > serverSequence + DeadQueueSize)
      BY <1>0, <1>5, <3>1, SlotSize
    <3>4. PICK m \in Items(o) : m.hello = 0 /\ m.ev = f
      BY <1>6, <3>3 DEF Kept
    <3>5. last < m.ev
      BY <1>6, <3>4
    <3> HIDE DEF o
    <3>6. serverSequence <= m.seq /\ (m.seq >= Num(o) => m \in Waiting(o))
      BY <1>0, <2>0, <3>2, <3>5, LackedIsLater
    <3> QED
      BY <1>5, <3>1, <3>4, <3>6 DEF Waits
  <2>2. CASE ~o.reused
    <3>1. Num(o) = 0
      BY <1>0, <2>2 DEF Staged
    <3>2. InRing(o.dead) = {}
      <4> SUFFICES ASSUME NEW m \in InRing(o.dead) PROVE FALSE
        OBVIOUS
      <4>1. m \in Items(o)
        BY DEF Items
      <4>2. m.seq \in Nat /\ m.seq < Num(o)
        BY <1>0, <4>1, SoundFacts
      <4> QED
        BY <3>1, <4>2
    <3> QED
      BY <1>6, <3>2 DEF Kept, Waits, Items
  <2> QED
    BY <2>1, <2>2
<1>7. ASSUME s = conn, NEW f \in 1..posted
      PROVE  /\ f > last /\ Hears(o, wc, connectionId, serverSequence, f)
                  => Hears(r, wc', connectionId, serverSequence, f)
             /\ Skips(Unread, o, wc, connectionId, f) => Skips(Unread, r, wc', connectionId, f)
  <2>1. Refused(o, f) => Refused(r, f)
    BY <1>2, <1>3 DEF Refused
  <2> QED
    BY <1>0, <1>2, <1>3, <1>6, <1>7, <2>1 DEF Hears, Skips
<1> QED
  BY <1>1, <1>4, <1>7, LinksFall, OneTold

\* The page rests, and its handler writes to it.
LEMMA MoreWritten ==
    ASSUME OwnersInv, StreamInv, Told, NEW s \in Sock, s = conn, link[s] = "up",
           NEW r, wc' = [wc EXCEPT ![s] = r], PageAlone, link' = link,
           NEW ms, wire' = [wire EXCEPT ![s] = wire[s] \o ms],
           \A f \in 1..posted :
             /\ f > last /\ Ahead(Unread, "up", wc[s], wc, connectionId, serverSequence, f)
                  => Ahead(Unread \o ms, "up", r, wc', connectionId, serverSequence, f)
             /\ Skips(Unread, wc[s], wc, connectionId, f)
                  => Skips(Unread \o ms, r, wc', connectionId, f)
    PROVE  Told'
<1>1. /\ conn' = conn /\ connectionId' = connectionId
      /\ serverSequence' = serverSequence /\ last' = last /\ page' = page
      /\ heard' = heard /\ posted' = posted /\ early' = early /\ handover' = handover
      /\ Reloading' = Reloading
  BY DEF PageAlone, hubVars, clientVars, pageVars, Reloading
<1>2. Unread' = Unread \o ms /\ wc'[s] = r /\ s # 0 /\ heard \subseteq 1..posted
  <2>1. wire'[s] = wire[s] \o ms /\ wc'[s] = r
    BY DEF StreamInv, Counts, Links
  <2>2. s # 0 /\ heard \subseteq 1..posted
    BY OwnIdsKnown DEF StreamInv, Counts
  <2>3. Unread = wire[s]
    BY <2>2 DEF Unread
  <2>4. Unread' = wire'[s]
    BY <1>1, <2>2 DEF Unread
  <2> QED
    BY <2>1, <2>2, <2>3, <2>4
<1>3. CASE Reloading
  BY <1>1, <1>3 DEF Told, Pending, Explained
<1>4. CASE ~Reloading
  <2>1. Pending'
    <3> SUFFICES ASSUME NEW f \in heard \ page
                 PROVE  f > last /\ Ahead(Unread \o ms, "up", r, wc', connectionId,
                                          serverSequence, f)
      BY <1>1, <1>2 DEF Pending
    <3>1. /\ f > last /\ f \in 1..posted
          /\ Ahead(Unread, "up", wc[s], wc, connectionId, serverSequence, f)
      BY <1>2, <1>4 DEF Told, Pending
    <3> QED
      BY <3>1
  <2>2. Explained'
    <3> SUFFICES ASSUME NEW f \in (1..posted) \ (page \cup heard \cup early \cup handover)
                 PROVE  Skips(Unread \o ms, r, wc', connectionId, f)
      <4>1. (1..posted') \ (page' \cup heard' \cup early' \cup handover')
              = (1..posted) \ (page \cup heard \cup early \cup handover)
        BY <1>1
      <4>2. Unread' = Unread \o ms /\ wc'[conn'] = r /\ connectionId' = connectionId
        BY <1>1, <1>2
      <4> QED
        BY <4>1, <4>2 DEF Explained
    <3>1. f \in 1..posted /\ Skips(Unread, wc[s], wc, connectionId, f)
      BY <1>4 DEF Told, Explained
    <3> QED
      BY <3>1
  <2> QED
    BY <2>1, <2>2 DEF Told
<1> QED
  BY <1>3, <1>4

\* What is written to a connection that is gone is not read.
LEMMA WrittenInVain ==
    ASSUME OwnersInv, StreamInv, Told, NEW s \in Sock, wc[s].stage # "none",
           NEW r, wc' = [wc EXCEPT ![s] = r], PageAlone, link' = link, link[s] # "up",
           NEW ms, wire' = Written(s, ms),
           HoldsOn(wc[s], r, connectionId, serverSequence, last)
    PROVE  Told'
<1>1. wire' = wire
  BY WrittenIs
<1>2. link'[s] \notin {"dialling", "up"}
  BY DEF OwnersInv, Wires
<1> QED
  BY <1>1, <1>2, LinksFall, OneTold

LEMMA HeardFrom ==
    ASSUME StreamInv, NEW s \in Sock, link[s] = "up" PROVE s = conn
  BY DEF StreamInv, Links

LEMMA ResendTold ==
    ASSUME OwnersInv, StreamInv, Told, NEW s \in Sock, wc[s].stage = "registered",
           wc[s].seq # 0, NEW i \in Slots, Resend(s, i), PageAlone, link' = link
    PROVE  Told'
<1> DEFINE o == wc[s]
           ms == DrainDeadQueue(wc[s].dead, wc[s].ptr, i)
           r == [wc[s] EXCEPT !.stage = "pumping", !.seq = wc[s].seq + Len(ms)]
<1>0. /\ Sound(o, s, posted) /\ o \in WebConn /\ Staged(o, s) /\ posted \in Nat
      /\ wc \in [Sock -> WebConn] /\ o.stage = "registered"
      /\ Num(o) \in Nat /\ Ring(o.dead, o.ptr, Num(o)) /\ o.seq \in Nat
  <2>1. Sound(o, s, posted) /\ posted \in Nat /\ wc \in [Sock -> WebConn]
    BY HandlerIs DEF StreamInv, Links
  <2> QED
    BY <2>1, SoundFacts DEF WebConn
<1>1. wc' = [wc EXCEPT ![s] = r] /\ wire' = Written(s, ms)
  BY <1>0 DEF Resend, WebConn
<1>2. o.reused /\ o.id # 0 /\ 1 <= o.seq /\ o.seq <= Num(o)
  BY <1>0 DEF Staged
<1>3. /\ Num(o) <= o.seq + DeadQueueSize
      /\ ms \in Seq(Message) /\ Len(ms) = Num(o) - o.seq
      /\ \A k \in 1..(Num(o) - o.seq) : ms[k] \in InRing(o.dead) /\ ms[k].seq = o.seq + (k - 1)
  <2>1. InDeadQueue(o.dead, o.seq, i)
    BY DEF Resend
  <2>2. ms = DrainDeadQueue(o.dead, o.ptr, i)
    OBVIOUS
  <2> HIDE DEF o, ms
  <2> QED
    BY <1>0, <2>1, <2>2, RingDrain
<1>4. /\ r.stage = "pumping" /\ r.id = o.id /\ r.listed = o.listed
      /\ r.send = o.send /\ r.dead = o.dead /\ r.ptr = o.ptr
  BY <1>0 DEF WebConn
<1> HIDE DEF r, ms
<1>5. /\ \A q, f : Kept(o, q, f) <=> Kept(r, q, f)
      /\ \A f : Waits(o, f) <=> Waits(r, f)
      /\ Items(r) = Items(o)
  BY <1>4, KeptSame
<1>6. HoldsOn(o, r, connectionId, serverSequence, last)
  BY <1>0, <1>4, <1>5 DEF HoldsOn, Holds
<1>7. CASE link[s] # "up"
  BY <1>0, <1>1, <1>6, <1>7, WrittenInVain
<1>8. CASE link[s] = "up"
  <2>1. s = conn /\ wire' = [wire EXCEPT ![s] = wire[s] \o ms]
    BY <1>1, <1>8, HeardFrom, WrittenIs
  <2>2. /\ Unread = <<>> /\ o.id = connectionId /\ o.seq = serverSequence
        /\ serverSequence \in Nat /\ last \in Nat
    BY <1>0, <1>2, <2>1, HandlerIs DEF AtPage
  <2>3. Fits(o, serverSequence, last)
    BY <1>0, <1>2, <2>1, <2>2, HandlerIs DEF Streaming, Owner, Live
  <2>4. <<>> \o ms = ms /\ Len(<<>>) = 0
    BY <1>3
  <2>5. \A m \in Items(o) : m.seq \in Nat /\ m.ev \in Nat
    BY <1>0, SoundFacts
  <2>6. \A m, k \in Items(o) : (m.seq = k.seq => m = k) /\ (m.seq < k.seq => m.ev < k.ev)
    BY <1>0, SoundFacts DEF Sound
  <2>7. \A m \in Waiting(o) : m \in Items(o) /\ m.seq >= Num(o) /\ m.hello = 0
    <3> SUFFICES ASSUME NEW m \in Waiting(o) PROVE m \in Items(o) /\ m.seq >= Num(o) /\ m.hello = 0
      OBVIOUS
    <3>1. m \in Items(o)
      BY DEF Items
    <3>2. m.seq >= Num(o) /\ m.seq \in Nat
      BY <1>0, <2>5, <3>1, SoundFacts
    <3>3. m.seq # 0
      BY <1>0, <1>2, <3>2
    <3> QED
      BY <1>0, <3>1, <3>2, <3>3 DEF Sound
  <2> HIDE DEF o
  <2>8. \A k \in 1..Len(ms) : /\ ms[k] \in Items(o) /\ ms[k].seq = o.seq + (k - 1)
                              /\ ms[k].seq < Num(o)
    <3> TAKE k \in 1..Len(ms)
    <3>1. ms[k] \in InRing(o.dead) /\ ms[k].seq = o.seq + (k - 1)
      BY <1>3
    <3>2. k <= Num(o) - o.seq /\ k \in Nat
      BY <1>0, <1>2, <1>3
    <3> QED
      BY <1>0, <3>1, <3>2 DEF Items
  <2>9. ASSUME NEW f \in 1..posted, f > last, Kept(o, serverSequence, f)
        PROVE  Ahead(ms, "up", r, wc', connectionId, serverSequence, f)
    <3>1. PICK m \in Items(o) : m.hello = 0 /\ m.ev = f
      <4>1. ~(Num(o) > serverSequence + DeadQueueSize)
        BY <1>0, <1>3, <2>2, SlotSize
      <4> QED
        BY <2>9, <4>1 DEF Kept
    <3>2. /\ serverSequence <= m.seq /\ (m.seq >= Num(o) => m \in Waiting(o))
          /\ m.seq \in Nat
      BY <1>0, <2>2, <2>3, <2>5, <2>9, <3>1, LackedIsLater
    <3>3. CASE m.seq < Num(o)
      <4> DEFINE k == (m.seq - o.seq) + 1
      <4>1. k \in 1..Len(ms) /\ o.seq + (k - 1) = m.seq
        BY <1>0, <1>3, <2>2, <3>2, <3>3
      <4> HIDE DEF k
      <4>2. ms[k] = m
        BY <2>6, <2>8, <4>1
      <4> QED
        BY <3>1, <4>1, <4>2 DEF Ahead
    <3>4. CASE m.seq >= Num(o)
      <4>1. m \in Waiting(o)
        BY <3>2, <3>4
      <4>2. Waits(r, f)
        BY <1>5, <3>1, <4>1 DEF Waits
      <4>3. \A k \in 1..Len(ms) : ms[k].seq < m.seq
        BY <1>0, <2>5, <2>8, <3>2, <3>4
      <4>4. \A k \in 1..Len(ms) : ms[k].ev < f
        BY <2>6, <2>8, <3>1, <4>3
      <4> QED
        BY <1>4, <4>2, <4>4 DEF Ahead, Hears
    <3> QED
      BY <1>0, <3>2, <3>3, <3>4
  <2>10. ASSUME NEW f \in 1..posted, Refused(o, f)
         PROVE  Ahead(ms, "up", r, wc', connectionId, serverSequence, f)
    <3>1. Refused(r, f)
      BY <1>4, <1>5, <2>10 DEF Refused
    <3>2. \A k \in 1..Len(ms) : ms[k].ev < f
      BY <2>8, <2>10 DEF Refused
    <3> QED
      BY <1>4, <3>1, <3>2 DEF Ahead, Hears
  <2>11. \A f : ~Greets(o, connectionId, f) /\ ~Greeting(<<>>, connectionId, f)
    BY <2>7 DEF Greets, Greeting
  <2>12. ASSUME NEW f \in 1..posted, f > last,
                Ahead(<<>>, "up", o, wc, connectionId, serverSequence, f)
         PROVE  Ahead(ms, "up", r, wc', connectionId, serverSequence, f)
    <3>1. Hears(o, wc, connectionId, serverSequence, f)
      BY <2>4, <2>11, <2>12 DEF Ahead
    <3>2. Kept(o, serverSequence, f) \/ Refused(o, f)
      BY <1>0, <2>11, <3>1 DEF Hears
    <3> QED
      BY <2>9, <2>10, <2>12, <3>2
  <2>13. ASSUME NEW f \in 1..posted, Skips(<<>>, o, wc, connectionId, f)
         PROVE  Skips(ms, r, wc', connectionId, f)
    BY <1>0, <1>4, <2>11, <2>13 DEF Skips
  <2>14. Unread \o ms = ms
    BY <2>2, <2>4
  <2>15. \A f \in 1..posted :
           /\ f > last /\ Ahead(Unread, "up", wc[s], wc, connectionId, serverSequence, f)
                => Ahead(Unread \o ms, "up", r, wc', connectionId, serverSequence, f)
           /\ Skips(Unread, wc[s], wc, connectionId, f)
                => Skips(Unread \o ms, r, wc', connectionId, f)
    BY <2>2, <2>12, <2>13, <2>14 DEF o
  <2> QED
    BY <1>1, <1>8, <2>1, <2>15, MoreWritten
<1> QED
  BY <1>7, <1>8

LEMMA LostTold ==
    ASSUME OwnersInv, StreamInv, Told, NEW s \in Sock, wc[s].stage = "registered",
           wc[s].seq # 0, Lost(s), PageAlone, link' = link
    PROVE  Told'
<1> DEFINE o == wc[s]
           id == MaxSockets + s
           m == FirstHello(o, id)
           r == AfterLoss(o, id, m)
           new == o.dead[Before(o.ptr)]
           ms == <<m>>
<1>0. /\ Sound(o, s, posted) /\ o \in WebConn /\ Staged(o, s) /\ posted \in Nat
      /\ wc \in [Sock -> WebConn] /\ o.stage = "registered"
      /\ Num(o) \in Nat /\ Ring(o.dead, o.ptr, Num(o)) /\ o.seq \in Nat /\ o.ptr \in Slots
  <2>1. /\ Sound(o, s, posted) /\ posted \in Nat /\ wc \in [Sock -> WebConn]
    BY HandlerIs DEF StreamInv, Links
  <2> QED
    BY <2>1, SoundFacts DEF WebConn
<1>1. wc' = [wc EXCEPT ![s] = r] /\ wire' = Written(s, ms)
  <2>1. m = [seq |-> 0, hello |-> MaxSockets + s, ev |-> Newest(s)]
    BY <1>0, NewestIs DEF FirstHello
  <2>2. m.hello = id
    BY DEF FirstHello
  <2> QED
    BY <2>1, <2>2 DEF Lost, AfterLoss
<1>2. o.reused /\ o.id # 0 /\ 1 <= o.seq /\ o.seq <= Num(o)
  BY <1>0 DEF Staged
<1>3. id \in Nat \ {0} /\ ~KnownIn(id, wc)
  BY <1>0, OwnIdsKnown DEF PumpHasBegun
<1>4. m.hello = id /\ m.ev = new.ev /\ ms[1] = m /\ Len(ms) = 1 /\ ms # <<>>
  BY DEF FirstHello
<1>5. r.stage = "pumping" /\ r.id = id /\ r.listed = o.listed
  BY <1>0 DEF AfterLoss, WebConn
<1>u. m = FirstHello(o, id) /\ r = AfterLoss(o, id, m) /\ o.seq # 0
      /\ new = o.dead[Before(o.ptr)]
  OBVIOUS
<1>v. id \in Nat \ {0}
  BY OwnIdsKnown
<1>w. o = wc[s]
  OBVIOUS
<1> HIDE DEF o, id, m, r, new, ms
<1>6. /\ Sound(o, s, posted) /\ posted \in Nat /\ o.stage = "registered"
  BY <1>0
<1>7. Items(r) = {m} \cup Waiting(r)
  BY <1>u, <1>v, <1>6, SoundLost
<1>8. \A x \in Waiting(r) : \E k \in Waiting(o) : k.ev = x.ev /\ k.hello = 0
  BY <1>u, <1>v, <1>6, SoundLost
<1>9. \A k \in Waiting(o) : \E x \in Waiting(r) : k.ev = x.ev /\ x.hello = 0
  BY <1>u, <1>v, <1>6, SoundLost
<1>10. new \in InRing(o.dead) /\ new.seq = Num(o) - 1
  BY <1>u, <1>v, <1>6, SoundLost
<1>11. HoldsOn(o, r, connectionId, serverSequence, last)
  <2>1. r.id # connectionId
    BY <1>3, <1>5, HandlerIs
  <2> QED
    BY <2>1 DEF HoldsOn
<1>12. CASE link[s] # "up"
  BY <1>0, <1>1, <1>11, <1>12, <1>w, WrittenInVain
<1>13. CASE link[s] = "up"
  <2>1. s = conn /\ wire' = [wire EXCEPT ![s] = wire[s] \o ms]
    BY <1>1, <1>13, HeardFrom, WrittenIs
  <2>2. Unread = <<>> /\ o.id = connectionId
    BY <1>0, <1>2, <1>w, <2>1, HandlerIs DEF AtPage
  <2>3. \A x \in Items(o) : x.seq \in Nat /\ x.ev \in Nat
    BY <1>0, SoundFacts
  <2>4. \A x, k \in Items(o) : (x.seq = k.seq => x = k) /\ (x.seq < k.seq => x.ev < k.ev)
    BY <1>0, SoundFacts DEF Sound
  <2>5. new \in Items(o) /\ new.ev \in Nat
    BY <1>10, <2>3 DEF Items
  <2>6. \A x \in InRing(o.dead) : x.ev <= new.ev
    <3> SUFFICES ASSUME NEW x \in InRing(o.dead) PROVE x.ev <= new.ev
      OBVIOUS
    <3>1. x \in Items(o) /\ x.seq < Num(o)
      BY <1>0, SoundFacts DEF Items
    <3>2. x.seq = new.seq \/ x.seq < new.seq
      BY <1>0, <1>10, <2>3, <3>1
    <3> QED
      BY <2>3, <2>4, <2>5, <3>1, <3>2
  <2>7. \A x \in Waiting(o) : x \in Items(o) /\ x.seq >= Num(o) /\ new.ev < x.ev /\ x.hello = 0
    <3> SUFFICES ASSUME NEW x \in Waiting(o)
                 PROVE  x \in Items(o) /\ x.seq >= Num(o) /\ new.ev < x.ev /\ x.hello = 0
      OBVIOUS
    <3>1. x \in Items(o)
      BY DEF Items
    <3>2. x.seq >= Num(o) /\ x.seq \in Nat
      BY <1>0, <2>3, <3>1, SoundFacts
    <3>3. x.seq # 0 /\ new.seq < x.seq
      BY <1>0, <1>2, <1>10, <3>2
    <3>4. new.ev < x.ev
      BY <2>4, <2>5, <3>1, <3>3
    <3>5. x.hello = 0
      BY <1>0, <3>1, <3>3 DEF Sound
    <3> QED
      BY <3>1, <3>2, <3>4, <3>5
  <2>8. \A f : f <= new.ev => Greeting(ms, connectionId, f)
    BY <1>2, <1>3, <1>4, <2>2 DEF Greeting
  <2>9. ASSUME NEW f \in 1..posted, Kept(o, serverSequence, f)
        PROVE  Ahead(ms, "up", r, wc', connectionId, serverSequence, f)
    <3>0. f \in Nat
      BY <1>0
    <3>1. CASE \E x \in InRing(o.dead) : f <= x.ev
      <4>1. PICK x \in InRing(o.dead) : f <= x.ev
        BY <3>1
      <4>2. x.ev <= new.ev /\ x.ev \in Nat
        BY <2>3, <2>6 DEF Items
      <4>3. f <= new.ev
        BY <2>5, <3>0, <4>1, <4>2
      <4> QED
        BY <2>8, <4>3 DEF Ahead
    <3>2. CASE \E x \in Waiting(o) : x.ev = f
      <4>1. PICK x \in Waiting(o) : x.ev = f
        BY <3>2
      <4>2. Waits(r, f)
        BY <1>9, <4>1 DEF Waits
      <4>3. new.ev < f
        BY <2>7, <4>1
      <4>4. \A k \in 1..Len(ms) : ms[k] = m
        BY <1>4
      <4>5. \A k \in 1..Len(ms) : ms[k].ev < f
        BY <1>4, <4>3, <4>4
      <4> QED
        BY <1>5, <4>2, <4>5 DEF Ahead, Hears
    <3>3. (\E x \in InRing(o.dead) : f <= x.ev) \/ (\E x \in Waiting(o) : x.ev = f)
      <4>1. CASE \E x \in Items(o) : x.hello = 0 /\ x.ev = f
        BY <3>0, <4>1 DEF Items
      <4>2. CASE \E x \in InRing(o.dead) : f < x.ev
        <5>1. PICK x \in InRing(o.dead) : f < x.ev
          BY <4>2
        <5>2. x.ev \in Nat
          BY <2>3 DEF Items
        <5>3. f <= x.ev
          BY <3>0, <5>1, <5>2
        <5> QED
          BY <5>3
      <4> QED
        BY <2>9, <4>1, <4>2 DEF Kept
    <3> QED
      BY <3>1, <3>2, <3>3
  <2>10. ASSUME NEW f \in 1..posted, Refused(o, f)
         PROVE  Ahead(ms, "up", r, wc', connectionId, serverSequence, f)
    <3>1. new.ev < f /\ \A x \in Waiting(o) : x.ev < f
      BY <2>5, <2>10 DEF Refused, Items
    <3>2. \A x \in Waiting(r) : x.ev < f
      BY <1>8, <3>1
    <3>3. \A x \in Items(r) : x.ev < f
      BY <1>4, <1>7, <3>1, <3>2
    <3>4. Refused(r, f)
      BY <1>5, <2>10, <3>3 DEF Refused
    <3>5. \A k \in 1..Len(ms) : ms[k] = m
      BY <1>4
    <3>6. \A k \in 1..Len(ms) : ms[k].ev < f
      BY <1>4, <3>1, <3>5
    <3> QED
      BY <1>5, <3>4, <3>6 DEF Ahead, Hears
  <2>11. /\ \A f : ~Greets(o, connectionId, f) /\ ~Greeting(<<>>, connectionId, f)
         /\ Len(<<>>) = 0
    BY <2>7 DEF Greets, Greeting
  <2>12. ASSUME NEW f \in 1..posted,
                Ahead(<<>>, "up", o, wc, connectionId, serverSequence, f)
         PROVE  Ahead(ms, "up", r, wc', connectionId, serverSequence, f)
    <3>1. Hears(o, wc, connectionId, serverSequence, f)
      BY <2>11, <2>12 DEF Ahead
    <3>2. Kept(o, serverSequence, f) \/ Refused(o, f)
      BY <1>0, <2>11, <3>1 DEF Hears
    <3> QED
      BY <2>9, <2>10, <2>12, <3>2
  <2>13. ASSUME NEW f \in 1..posted, Skips(<<>>, o, wc, connectionId, f)
         PROVE  Skips(ms, r, wc', connectionId, f)
    BY <1>0, <1>5, <2>11, <2>13 DEF Skips
  <2>14. Unread \o ms = ms
    BY <2>2 DEF ms
  <2>15. \A f \in 1..posted :
           /\ f > last /\ Ahead(Unread, "up", wc[s], wc, connectionId, serverSequence, f)
                => Ahead(Unread \o ms, "up", r, wc', connectionId, serverSequence, f)
           /\ Skips(Unread, wc[s], wc, connectionId, f)
                => Skips(Unread \o ms, r, wc', connectionId, f)
    BY <1>w, <2>2, <2>12, <2>13, <2>14
  <2> QED
    BY <1>1, <1>13, <2>1, <2>15, MoreWritten
<1> QED
  BY <1>12, <1>13

LEMMA StartTold ==
    ASSUME OwnersInv, StreamInv, Told, NEW s \in Sock, WritePumpStarts(s) PROVE Told'
<1>1. wc[s].stage = "registered" /\ PageAlone /\ link' = link
  <2>1. drops' \in Nat
    BY DEF WritePumpStarts, StreamInv, Counts
  <2> QED
    BY <2>1 DEF WritePumpStarts, PageAlone, hubVars, clientVars, pageVars
<1>2. CASE wc[s].seq # 0 /\ \E i \in Slots : Resend(s, i)
  BY <1>1, <1>2, ResendTold
<1>3. CASE wc[s].seq # 0 /\ Lost(s)
  BY <1>1, <1>3, LostTold
<1>4. CASE /\ \/ wc[s].seq = 0
              \/ ~InQueue(s) /\ ~HasMsgLoss(wc[s].dead, wc[s].ptr, wc[s].seq)
           /\ wc' = [wc EXCEPT ![s].stage = "pumping"]
           /\ UNCHANGED wire
  BY <1>1, <1>4, PlainTold
<1> QED
  BY <1>2, <1>3, <1>4 DEF WritePumpStarts

\* A message written is the first of those that wait, and it moves to the ring.
LEMMA WriteKeeps ==
    ASSUME NEW o, NEW s, NEW p, Sound(o, s, p), o.stage = "pumping", o.send # <<>>,
           NEW m, m = NextMessage(o), NEW r, r = AfterWrite(o, m),
           NEW q \in Nat, NEW e \in Nat, Fits(o, q, e), NEW f \in Nat, f > e, Kept(o, q, f)
    PROVE  Kept(r, q, f)
<1>1. Num(r) = Num(o) + 1
  BY SoundWrite
<1>2. m \in InRing(r.dead) /\ m.seq = Num(o) /\ m \in Items(o)
  BY SoundWrite
<1>3. \A x \in Items(o) : x \in Items(r) \/ x.seq + DeadQueueSize <= Num(o)
  BY SoundWrite
<1>4. \A x, k \in Items(o) : x.seq < k.seq => x.ev < k.ev
  BY DEF Sound
<1>5. Num(o) \in Nat /\ \A x \in Items(o) : x.seq \in Nat /\ x.ev \in Nat
  BY SoundFacts
<1>6. \A x \in InRing(o.dead) : x \in Items(o) /\ x.seq < Num(o)
  BY SoundFacts DEF Items
<1>7. CASE \E x \in Items(o) : x.hello = 0 /\ x.ev = f
  <2>1. PICK x \in Items(o) : x.hello = 0 /\ x.ev = f
    BY <1>7
  <2>2. q <= x.seq
    BY <2>1, LackedIsLater
  <2>3. CASE x \in Items(r)
    BY <2>1, <2>3 DEF Kept
  <2>4. CASE x.seq + DeadQueueSize <= Num(o)
    <3>1. Num(r) > q + DeadQueueSize /\ x.seq < m.seq
      BY <1>1, <1>2, <1>5, <2>2, <2>4, SlotSize
    <3>2. f < m.ev
      BY <1>2, <1>4, <2>1, <3>1
    <3> QED
      BY <1>2, <3>1, <3>2 DEF Kept
  <2> QED
    BY <1>3, <2>3, <2>4
<1>8. CASE Num(o) > q + DeadQueueSize /\ \E x \in InRing(o.dead) : f < x.ev
  <2>1. PICK x \in InRing(o.dead) : f < x.ev
    BY <1>8
  <2>2. x.ev < m.ev /\ x.ev \in Nat /\ m.ev \in Nat
    BY <1>2, <1>4, <1>5, <1>6
  <2>3. f < m.ev
    BY <2>1, <2>2
  <2>4. Num(r) > q + DeadQueueSize
    BY <1>1, <1>5, <1>8, SlotSize
  <2> QED
    BY <1>2, <2>3, <2>4 DEF Kept
<1> QED
  BY <1>7, <1>8 DEF Kept

LEMMA PumpTold ==
    ASSUME OwnersInv, StreamInv, Told, NEW s \in Sock, WritePump(s) PROVE Told'
<1> DEFINE o == wc[s]
           m == NextMessage(o)
           r == AfterWrite(o, m)
           ms == <<m>>
           u == Unread
<1>0. /\ Sound(o, s, posted) /\ o \in WebConn /\ posted \in Nat
      /\ wc \in [Sock -> WebConn] /\ o.stage = "pumping" /\ o.send # <<>>
      /\ Num(o) \in Nat /\ o # Gone
  <2>1. Sound(o, s, posted) /\ posted \in Nat /\ wc \in [Sock -> WebConn]
        /\ o.stage = "pumping" /\ o.send # <<>> /\ o # Gone
    BY HandlerIs DEF StreamInv, Links, WritePump
  <2> QED
    BY <2>1, SoundFacts DEF WebConn
<1>1. /\ wc' = [wc EXCEPT ![s] = r] /\ wire' = Written(s, ms)
      /\ PageAlone /\ link' = link
  <2>1. wc' = [wc EXCEPT ![s] = r] /\ wire' = Written(s, ms)
    BY <1>0 DEF WritePump, WebConn, NextMessage, AfterWrite
  <2>2. drops' \in Nat
    BY DEF WritePump, StreamInv, Counts
  <2> QED
    BY <2>1, <2>2 DEF WritePump, PageAlone, hubVars, clientVars, pageVars
<1>2. r.stage = "pumping" /\ r.id = o.id /\ r.listed = o.listed
  BY <1>0 DEF AfterWrite, WebConn
<1>3. ms[1] = m /\ Len(ms) = 1 /\ ms # <<>>
  OBVIOUS
<1>u. m = NextMessage(o) /\ r = AfterWrite(o, m)
  OBVIOUS
<1>w. o = wc[s]
  OBVIOUS
<1> HIDE DEF o, m, r, ms, u
<1>4. /\ Num(r) = Num(o) + 1 /\ m \in Items(o) /\ m.seq = Num(o)
      /\ Waiting(o) = {m} \cup Waiting(r) /\ Items(r) \subseteq Items(o)
  <2>0. Sound(o, s, posted) /\ o.stage = "pumping" /\ o.send # <<>>
    BY <1>0
  <2>1. /\ Sound(r, s, posted) /\ Num(r) = Num(o) + 1 /\ Items(r) \subseteq Items(o)
        /\ m \in Items(o) /\ m \in InRing(r.dead) /\ m.seq = Num(o)
        /\ m \in Waiting(o) /\ Waiting(o) = {m} \cup Waiting(r)
    BY ONLY <1>u, <2>0, SoundWrite
  <2> QED
    BY <2>1
<1>5. Sound(r, s, posted)
  BY <1>0, <1>u, SoundWrite
<1>6. HoldsOn(o, r, connectionId, serverSequence, last)
  <2> SUFFICES ASSUME Holds(r), r.id = connectionId, connectionId # 0
               PROVE  /\ Holds(o) /\ o.id = connectionId
                      /\ \A f \in Nat : f > last /\ Kept(o, serverSequence, f)
                                          => Kept(r, serverSequence, f)
    BY DEF HoldsOn
  <2>1. Holds(o) /\ o.id = connectionId
    BY <1>0, <1>2 DEF Holds
  <2>2. Fits(o, serverSequence, last)
    BY <1>0, <1>w, <2>1, HandlerIs DEF Streaming, Owner, Live
  <2>3. serverSequence \in Nat /\ last \in Nat
    BY HandlerIs
  <2> QED
    BY <1>0, <1>u, <2>1, <2>2, <2>3, WriteKeeps
<1>7. CASE link[s] # "up"
  BY <1>0, <1>1, <1>6, <1>7, <1>w, WrittenInVain
<1>8. CASE link[s] = "up"
  <2>1. s = conn /\ wire' = [wire EXCEPT ![s] = wire[s] \o ms]
    BY <1>1, <1>8, HeardFrom, WrittenIs
  <2>2. /\ u \in Seq(Message) /\ u = Unread /\ Len(u) \in Nat
        /\ FrontOf(u, serverSequence) \in Nat
    BY PageReads DEF StreamInv, OwnersInv, u
  <2>3. ASSUME u # <<>> PROVE Num(o) >= 1
    <3>1. Num(o) = FrontOf(u, serverSequence)
      BY <1>0, <1>8, <1>w, <2>1, <2>2, <2>3, HandlerIs DEF AtPage
    <3>2. u[1].seq \in Nat /\ Len(u) >= 1
      <4>1. u[1] \in Message /\ Len(u) >= 1
        BY <2>2, <2>3
      <4> QED
        BY <4>1 DEF Message
    <3>3. FrontOf(u, serverSequence) = u[1].seq + Len(u)
      BY <2>3 DEF FrontOf
    <3> QED
      BY <2>2, <3>1, <3>2, <3>3
  <2>4. \A x \in Items(o) : x.seq \in Nat /\ x.ev \in Nat
    BY <1>0, SoundFacts
  <2>5. \A x \in Waiting(r) : x \in Items(o) /\ m.ev < x.ev /\ x.hello = 0
    <3> SUFFICES ASSUME NEW x \in Waiting(r)
                 PROVE  x \in Items(o) /\ m.ev < x.ev /\ x.hello = 0
      OBVIOUS
    <3>1. x \in Items(o)
      BY <1>4 DEF Items
    <3>2. x.seq >= Num(r)
      BY <1>5, SoundFacts
    <3>3. m.seq < x.seq /\ x.seq # 0
      BY <1>0, <1>4, <2>4, <3>1, <3>2
    <3> QED
      BY <1>0, <1>4, <3>1, <3>3 DEF Sound
  <2> DEFINE v == u \o ms
  <2>6. /\ v # <<>> /\ Len(v) = Len(u) + 1 /\ v[Len(u) + 1] = m
        /\ \A k \in 1..Len(u) : v[k] = u[k]
        /\ u = <<>> => v[1] = m
        /\ u # <<>> => v[1] = u[1]
    <3>1. ms \in Seq(Message)
      <4>1. m \in Message
        BY <1>0, <1>4, SoundFacts
      <4> QED
        BY <4>1 DEF ms
    <3>2. /\ Len(v) = Len(u) + 1 /\ v[Len(u) + 1] = ms[1] /\ v # <<>>
          /\ \A k \in 1..Len(u) : v[k] = u[k]
      <4>1. v = u \o ms /\ v \in Seq(Message)
        BY <2>2, <3>1
      <4> HIDE DEF v
      <4>2. Len(v) = Len(u) + Len(ms) /\ \A k \in 1..Len(u) : v[k] = u[k]
        BY <2>2, <3>1, <4>1
      <4>3. Len(u) + 1 \in 1..Len(v) /\ Len(v) = Len(u) + 1
        BY <1>3, <2>2, <4>2
      <4>4. v[Len(u) + 1] = ms[1]
        BY <1>3, <2>2, <3>1, <4>1, <4>3
      <4>5. v # <<>>
        BY <2>2, <4>1, <4>3
      <4> QED
        BY <4>2, <4>3, <4>4, <4>5
    <3>3. CASE u = <<>>
      <4>1. Len(u) = 0
        BY <3>3
      <4>2. v[0 + 1] = m
        BY <1>3, <3>2, <4>1
      <4> QED
        BY <1>3, <3>2, <3>3, <4>2
    <3>4. CASE u # <<>>
      <4>1. 1 \in 1..Len(u)
        BY <2>2, <3>4
      <4> QED
        BY <1>3, <3>2, <3>4, <4>1
    <3> QED
      BY <3>3, <3>4
  <2> HIDE DEF v
  <2>7. /\ Len(u) + 1 \in 1..Len(v) /\ \A k \in 1..Len(u) : k \in 1..Len(v)
        /\ \A k \in 1..Len(v) : k \in 1..Len(u) \/ k = Len(u) + 1
    BY <2>2, <2>6
  <2>8. \A f : Greeting(u, connectionId, f) => Greeting(v, connectionId, f)
    BY <2>6 DEF Greeting
  <2>9. ASSUME NEW f \in 1..posted, Greets(o, connectionId, f)
        PROVE  Greeting(v, connectionId, f)
    <3>1. PICK x \in Waiting(o) : x.hello # 0 /\ f <= x.ev
      BY <2>9 DEF Greets
    <3>2. x = m
      BY <1>4, <2>5, <3>1
    <3>3. Num(o) = 0
      BY <1>0, <1>4, <3>1, <3>2 DEF Sound
    <3>4. u = <<>>
      BY <2>3, <3>3
    <3> QED
      BY <2>6, <2>9, <3>1, <3>2, <3>4 DEF Greeting, Greets
  <2>10. ASSUME NEW f \in 1..posted, \A k \in 1..Len(u) : u[k].ev < f, m.ev < f,
                Waits(r, f) \/ Refused(r, f)
         PROVE  Ahead(v, "up", r, wc', connectionId, serverSequence, f)
    <3>1. \A k \in 1..Len(v) : v[k].ev < f
      BY <2>6, <2>7, <2>10
    <3> QED
      BY <1>2, <2>10, <3>1 DEF Ahead, Hears
  <2>11. ASSUME NEW f \in 1..posted,
                Ahead(u, "up", o, wc, connectionId, serverSequence, f)
         PROVE  Ahead(v, "up", r, wc', connectionId, serverSequence, f)
    <3>1. CASE \E k \in 1..Len(u) : u[k].hello = 0 /\ u[k].ev = f
      BY <2>6, <2>7, <3>1 DEF Ahead
    <3>2. CASE Greeting(u, connectionId, f)
      BY <2>8, <3>2 DEF Ahead
    <3>3. CASE /\ \A k \in 1..Len(u) : u[k].ev < f
               /\ Hears(o, wc, connectionId, serverSequence, f)
      <4>1. CASE Waits(o, f)
        <5>1. PICK x \in Waiting(o) : x.hello = 0 /\ x.ev = f
          BY <4>1 DEF Waits
        <5>2. CASE x = m
          BY <2>6, <2>7, <5>1, <5>2 DEF Ahead
        <5>3. CASE x \in Waiting(r)
          <6>1. Waits(r, f) /\ m.ev < f
            BY <2>5, <5>1, <5>3 DEF Waits
          <6> QED
            BY <2>10, <3>3, <6>1
        <5> QED
          BY <1>4, <5>2, <5>3
      <4>2. CASE Greets(o, connectionId, f)
        BY <2>9, <4>2 DEF Ahead
      <4>3. CASE Refused(o, f)
        <5>1. Refused(r, f) /\ m.ev < f
          BY <1>2, <1>4, <4>3 DEF Refused
        <5> QED
          BY <2>10, <3>3, <5>1
      <4> QED
        BY <1>0, <3>3, <4>1, <4>2, <4>3 DEF Hears
    <3> QED
      BY <2>11, <3>1, <3>2, <3>3 DEF Ahead
  <2>12. ASSUME NEW f \in 1..posted, Skips(u, o, wc, connectionId, f)
         PROVE  Skips(v, r, wc', connectionId, f)
    BY <1>0, <1>2, <2>8, <2>9, <2>12 DEF Skips
  <2>13. \A f \in 1..posted :
           /\ f > last /\ Ahead(Unread, "up", wc[s], wc, connectionId, serverSequence, f)
                => Ahead(Unread \o ms, "up", r, wc', connectionId, serverSequence, f)
           /\ Skips(Unread, wc[s], wc, connectionId, f)
                => Skips(Unread \o ms, r, wc', connectionId, f)
    BY <1>w, <2>2, <2>11, <2>12 DEF v
  <2> QED
    BY <1>1, <1>8, <2>1, <2>13, MoreWritten
<1> QED
  BY <1>7, <1>8

-----------------------------------------------------------------------------
\* The server is restarted: no queue is left that a handler could find.
LEMMA RestartTold ==
    ASSUME OwnersInv, StreamInv, Told, Restart PROVE Told'
<1>0. Counts /\ Links
  BY DEF StreamInv
<1>1. PageAlone /\ wire' = wire
  <2>1. drops' \in Nat
    <3>1. drops \in Nat /\ drops' = drops + 1
      BY <1>0 DEF Restart, Drop, Counts
    <3> QED
      BY <3>1
  <2> QED
    BY <2>1 DEF Restart, PageAlone, hubVars, clientVars, pageVars
<1>2. \A s \in Sock : wc'[s] = IF wc[s].stage = "none" THEN wc[s] ELSE Gone
  BY DEF Restart
<1>3. Gone.stage = "ended" /\ ~Gone.listed
  <2>1. 1 \in Sock
    BY SizesOK DEF Sock
  <2> QED
    BY <2>1, NewIsSound
<1> HIDE DEF Gone
<1>4. KeptOn(wc, wc', connectionId, serverSequence, last)
  <2>1. \A t \in Sock : wc'[t] = wc[t] \/ HoldsOn(wc[t], wc'[t], connectionId, serverSequence, last)
    BY <1>2, <1>3 DEF HoldsOn, Holds
  <2> QED
    BY <2>1, EachKeepsOn
<1>5. ASSUME conn # 0, link'[conn] \in {"dialling", "up"}
      PROVE  /\ link[conn] \in {"dialling", "up"}
             /\ \A f \in 1..posted :
                  /\ f > last /\ Hears(wc[conn], wc, connectionId, serverSequence, f)
                       => Hears(wc'[conn], wc', connectionId, serverSequence, f)
                  /\ Skips(Unread, wc[conn], wc, connectionId, f)
                       => Skips(Unread, wc'[conn], wc', connectionId, f)
  <2>1. conn \in Sock
    BY <1>5, HandlerIs, PageReads DEF StreamInv, OwnersInv
  <2>2. link[conn] \in {"dialling", "up"}
    BY <1>0, <1>5, <2>1 DEF Restart, Links
  <2>3. wc'[conn] = wc[conn] \/ wc'[conn].stage = "ended"
    BY <1>2, <1>3, <2>1
  <2>4. \A f \in 1..posted : f \in Nat
    BY <1>0 DEF Counts
  <2> QED
    BY <1>4, <2>2, <2>3, <2>4, OthersHear
<1> QED
  BY <1>1, <1>5, NothingWritten

\* The connection breaks: what the page has not got is what it still lacks.
LEMMA CutTold ==
    ASSUME OwnersInv, StreamInv, Told, NEW s \in Sock, Cut(s) PROVE Told'
<1> DEFINE u == Unread
<1>0. Counts /\ Links /\ InRow /\ Wires /\ wire \in [Sock -> Seq(Message)]
      /\ link \in [Sock -> {"none", "dialling", "up", "cut"}]
  BY DEF StreamInv, OwnersInv, Counts, Links
<1>1. s = conn /\ conn # 0
  <2>1. s = conn
    BY <1>0 DEF Cut, Links
  <2> QED
    BY <2>1, HandlerIs
<1>2. u = wire[conn]
  BY <1>1 DEF Unread
<1>3. PICK k \in 0..Len(u) : wire' = [wire EXCEPT ![conn] = SubSeq(u, 1, k)]
  BY <1>1, <1>2 DEF Cut
<1> DEFINE v == SubSeq(u, 1, k)
<1>4. u \in Seq(Message) /\ Row(u, connectionId, serverSequence, last, posted)
  BY <1>0, PageReads DEF InRow
<1>5. /\ Len(v) = k /\ Len(u) \in Nat /\ k \in Nat
      /\ \A j \in 1..k : j \in 1..Len(u) /\ v[j] = u[j]
      /\ v # <<>> => u # <<>>
  <2> HIDE DEF u
  <2> QED
    BY <1>4, CutShort
<1>6. Unread' = v /\ link'[conn] = "cut"
      /\ UNCHANGED <<conn, connectionId, serverSequence, last, page, heard, posted,
                     early, handover, syncing, failed, opened, wc>>
  <2>1. /\ UNCHANGED <<conn, connectionId, serverSequence, last, page, heard, posted,
                       early, handover, syncing, failed, opened, wc>>
        /\ link' = [link EXCEPT ![conn] = "cut"]
    BY <1>1 DEF Cut, hubVars, clientVars, pageVars
  <2> HIDE DEF v
  <2>2. wire'[conn] = v /\ link'[conn] = "cut"
    BY <1>0, <1>1, <1>3, <2>1 DEF v
  <2> QED
    BY <1>1, <2>1, <2>2 DEF Unread
<1>7. Reloading' = Reloading
  BY <1>6 DEF Reloading
<1>8. Chain(u, posted) /\ (v # <<>> => v[1] = u[1])
  <2>1. v # <<>> => 1 \in 1..k
    <3> HIDE DEF u
    <3>1. v \in Seq(Message)
      BY <1>4
    <3> HIDE DEF v
    <3>2. v # <<>> => Len(v) # 0
      BY <3>1
    <3> QED
      BY <1>5, <3>2
  <2> HIDE DEF u, v
  <2> QED
    BY <1>4, <1>5, <2>1 DEF Row
<1> HIDE DEF u, v
<1>9. Pending'
  <2> SUFFICES ASSUME ~Reloading, NEW f \in heard \ page
               PROVE  /\ f > last
                      /\ Ahead(v, "cut", wc'[conn], wc', connectionId, serverSequence, f)
    BY <1>6, <1>7 DEF Pending
  <2>1. /\ f > last
        /\ Ahead(u, link[conn], wc[conn], wc, connectionId, serverSequence, f)
    BY DEF Told, Pending, u
  <2>2. ASSUME NEW j \in 1..Len(u), u[j].hello = 0, u[j].ev = f
        PROVE  Ahead(v, "cut", wc'[conn], wc', connectionId, serverSequence, f)
    <3>1. CASE j <= k
      <4>1. j \in 1..k /\ v[j] = u[j]
        BY <1>5, <3>1
      <4> QED
        BY <1>5, <2>2, <4>1 DEF Ahead
    <3>2. CASE j > k
      <4>1. \A i \in 1..k : v[i].ev < f
        <5> TAKE i \in 1..k
        <5>1. i < j /\ i \in 1..Len(u) /\ v[i] = u[i]
          BY <1>5, <3>2
        <5> QED
          BY <1>8, <2>2, <5>1 DEF Chain
      <4> QED
        BY <1>5, <4>1 DEF Ahead
    <3> QED
      BY <1>5, <3>1, <3>2
  <2>3. CASE Greeting(u, connectionId, f)
    <3>1. CASE v = <<>>
      <4>1. Len(<<>>) = 0
        OBVIOUS
      <4>2. \A j \in 1..Len(v) : v[j].ev < f
        BY <3>1, <4>1
      <4> QED
        BY <2>1, <4>2 DEF Ahead
    <3>2. CASE v # <<>>
      <4>1. Greeting(v, connectionId, f)
        BY <1>8, <2>3, <3>2 DEF Greeting
      <4> QED
        BY <2>1, <4>1 DEF Ahead
    <3> QED
      BY <3>1, <3>2
  <2>4. CASE \A j \in 1..Len(u) : u[j].ev < f
    <3>1. \A j \in 1..Len(v) : v[j].ev < f
      BY <1>5, <2>4
    <3> QED
      BY <2>1, <3>1 DEF Ahead
  <2> QED
    BY <2>1, <2>2, <2>3, <2>4 DEF Ahead
<1>10. Explained'
  BY <1>6, <1>7 DEF Explained
<1> QED
  BY <1>9, <1>10 DEF Told

\* The page dials, opens, gives up, comes online or reads the state.
LEMMA PageTold ==
    ASSUME OwnersInv, StreamInv, Told,
           Mount \/ Reconnect \/ Open \/ OnClose \/ PingTimeout \/ Online \/ SyncRead
           \/ UNCHANGED vars
    PROVE  Told'
<1>0. Counts /\ Links /\ Wires
  BY DEF StreamInv, OwnersInv
<1>1. CASE Mount \/ (Reconnect /\ conn = 0)
  <2>1. conn = 0
    BY <1>0, <1>1 DEF Mount, Wires
  <2>2. Reloading
    BY <1>0, <2>1 DEF Links, Reloading
  <2>3. syncing' = syncing /\ failed' = failed /\ opened' = FALSE
    BY <1>1 DEF Mount, Reconnect, Dial, pageVars
  <2> QED
    BY <2>2, <2>3 DEF Told, Pending, Explained, Reloading
<1>2. CASE OnClose \/ PingTimeout
  <2>1. failed' /\ ~opened'
    BY <1>2 DEF OnClose, PingTimeout, Closed
  <2> QED
    BY <2>1 DEF Told, Pending, Explained, Reloading
<1>3. CASE SyncRead
  <2>1. page' = page \cup (1..posted) /\ heard' = heard /\ posted' = posted
    BY <1>3 DEF SyncRead, hubVars
  <2>2. heard' \ page' = {} /\ (1..posted') \ page' = {}
    BY <1>0, <2>1 DEF Counts
  <2>3. Pending' /\ Explained'
    BY <2>2 DEF Pending, Explained
  <2> QED
    BY <2>3 DEF Told
<1>4. CASE Open \/ (Reconnect /\ conn # 0) \/ Online \/ UNCHANGED vars
  <2>1. /\ UNCHANGED <<conn, connectionId, serverSequence, last, page, heard, posted,
                       early, handover, wc, link, wire>>
        /\ Reloading => Reloading'
    <3>1. CASE Open
      BY <3>1 DEF Open, hubVars, socketVars, Reloading
    <3>2. CASE (Reconnect /\ conn # 0) \/ Online \/ UNCHANGED vars
      BY <3>2 DEF Reconnect, Online, vars, hubVars, socketVars, clientVars, pageVars, Reloading
    <3> QED
      BY <1>4, <3>1, <3>2
  <2>2. Unread' = Unread
    BY <2>1 DEF Unread
  <2>3. Pending'
    BY <2>1, <2>2 DEF Told, Pending
  <2>4. Explained'
    BY <2>1, <2>2 DEF Told, Explained
  <2> QED
    BY <2>3, <2>4 DEF Told
<1> QED
  BY <1>1, <1>2, <1>3, <1>4

-----------------------------------------------------------------------------
\* The page reads a message: it has it, or the hello's loss sends it to reload.
LEMMA MessageTold ==
    ASSUME OwnersInv, StreamInv, Told, OnMessage PROVE Told'
<1> DEFINE u == Unread
           m == Unread[1]
           c2 == IF m.hello # 0 THEN m.hello ELSE connectionId
           t == Tail(Unread)
           r == wc[conn]
<1>0. Counts /\ Wires /\ Phase /\ wire \in [Sock -> Seq(Message)]
  BY DEF StreamInv, OwnersInv, Counts
<1>1. /\ conn # 0 /\ opened /\ u = wire[conn] /\ u # <<>>
      /\ connectionId' = c2
      /\ serverSequence' = m.seq + 1 /\ last' = m.ev
      /\ wire' = [wire EXCEPT ![conn] = t] /\ page' = Apply(m)
      /\ syncing' = (syncing \/ (m.hello # 0 /\ OtherId(m)))
      /\ UNCHANGED <<conn, opened, armed, failed, link, hubVars, wc, nsock, drops>>
  BY MessageIsRead
<1>2. /\ u \in Seq(Message) /\ Row(u, connectionId, serverSequence, last, posted)
      /\ posted \in Nat /\ connectionId \in Nat /\ serverSequence \in Nat /\ last \in Nat
      /\ conn \in Sock
  BY <1>0, <1>1, NextIsExpected, PageReads
<1>3. /\ Len(t) = Len(u) - 1 /\ Len(u) \in Nat /\ Len(u) >= 1 /\ m = u[1]
      /\ \A k \in 1..Len(t) : k + 1 \in 1..Len(u) /\ t[k] = u[k + 1]
  <2>1. Len(u) \in Nat
    BY <1>2
  <2> HIDE DEF u
  <2>2. /\ Len(t) = Len(u) - 1 /\ Len(u) >= 1
        /\ \A k \in 1..Len(t) : k + 1 \in 1..Len(u) /\ t[k] = u[k + 1]
    BY <1>1, <1>2, ReadsNext DEF u
  <2> QED
    BY <2>1, <2>2 DEF u
<1>4. Unread' = t /\ posted' = posted /\ heard' = heard /\ early' = early
      /\ handover' = handover /\ page' = IF m.hello = 0 THEN page \cup {m.ev} ELSE page
  <2>1. Unread' = t
    BY <1>0, <1>1, <1>2 DEF Unread
  <2> QED
    BY <1>1, <2>1 DEF hubVars, Apply
<1>5. r.stage \notin {"none", "upgraded", "checked", "registered"}
  BY <1>0, <1>1 DEF Phase, AtPage
<1>6. Chain(u, posted) /\ (m.hello # 0 => m.hello # connectionId)
  BY <1>1, <1>2 DEF Row, Joins
<1>7. CASE Reloading \/ Reloading'
  <2>1. Reloading'
    BY <1>1, <1>7 DEF Reloading
  <2> QED
    BY <2>1 DEF Told, Pending, Explained
<1>8. CASE ~Reloading /\ ~Reloading'
  <2>1. m.hello # 0 => connectionId = 0
    BY <1>1, <1>6, <1>8 DEF Reloading, OtherId
  <2>2. (m.hello = 0 => c2 = connectionId) /\ (m.hello # 0 => connectionId = 0)
    BY <2>1
  <2> HIDE DEF u, m, t, c2, r
  <2>3. \A f : Greets(r, connectionId, f) => Greets(r, c2, f)
    BY <2>2 DEF Greets
  <2>4. \A f : ~Greeting(u, connectionId, f)
    BY <1>3, <2>2 DEF Greeting
  <2>5. Pending'
    <3> SUFFICES ASSUME NEW f \in heard \ page, m.hello = 0 => f # m.ev
                 PROVE  /\ f > m.ev
                        /\ Ahead(t, link[conn], r, wc, c2, m.seq + 1, f)
      BY <1>1, <1>4 DEF Pending, r
    <3>1. Ahead(u, link[conn], r, wc, connectionId, serverSequence, f)
      BY <1>8 DEF Told, Pending, u, r
    <3>2. ASSUME NEW k \in 1..Len(u), u[k].hello = 0, u[k].ev = f
          PROVE  /\ f > m.ev
                 /\ \E j \in 1..Len(t) : t[j].hello = 0 /\ t[j].ev = f
      <4>1. k # 1
        BY <1>3, <3>2
      <4>2. 1 < k /\ 1 \in 1..Len(u) /\ k - 1 \in 1..Len(t) /\ (k - 1) + 1 = k
        BY <1>3, <4>1
      <4>3. u[1].ev < u[k].ev
        BY <1>6, <4>2 DEF Chain
      <4>4. f > m.ev
        <5>1. m.ev \in Nat /\ u[k].ev \in Nat
          BY <1>0, <1>3, <4>2, PageReads DEF u
        <5> QED
          BY <1>3, <3>2, <4>3, <5>1
      <4>5. t[k - 1] = u[k]
        BY <1>3, <4>2
      <4> QED
        BY <3>2, <4>2, <4>4, <4>5
    <3>3. ASSUME \A k \in 1..Len(u) : u[k].ev < f,
                 link[conn] \in {"dialling", "up"} =>
                   Hears(r, wc, connectionId, serverSequence, f)
          PROVE  /\ f > m.ev
                 /\ \A k \in 1..Len(t) : t[k].ev < f
                 /\ link[conn] \in {"dialling", "up"} => Hears(r, wc, c2, m.seq + 1, f)
      <4>1. m.ev < f
        BY <1>3, <3>3
      <4>2. m.ev \in Nat /\ f \in Nat
        <5>1. heard \subseteq 1..posted /\ 1 \in 1..Len(u)
          BY <1>0, <1>3 DEF Counts
        <5> QED
          BY <1>0, <1>2, <1>3, <5>1, PageReads DEF u
      <4>3. f > m.ev
        BY <4>1, <4>2
      <4>4. \A k \in 1..Len(t) : t[k].ev < f
        BY <1>3, <3>3
      <4>5. Hears(r, wc, connectionId, serverSequence, f) => Hears(r, wc, c2, m.seq + 1, f)
        BY <1>5, <2>3 DEF Hears
      <4> QED
        BY <3>3, <4>3, <4>4, <4>5
    <3> QED
      BY <2>4, <3>1, <3>2, <3>3 DEF Ahead
  <2>6. Explained'
    <3> SUFFICES ASSUME NEW f \in (1..posted) \ (page \cup heard \cup early \cup handover),
                        link[conn] \in {"dialling", "up"}
                 PROVE  Skips(t, r, wc, c2, f)
      BY <1>1, <1>4 DEF Explained, r
    <3>1. Skips(u, r, wc, connectionId, f)
      BY <1>8 DEF Told, Explained, u, r
    <3> QED
      BY <1>5, <2>3, <2>4, <3>1 DEF Skips
  <2> QED
    BY <2>5, <2>6 DEF Told
<1> QED
  BY <1>7, <1>8

-----------------------------------------------------------------------------
\* An event is broadcast: queued, or refused for good.
LEMMA QueuedHow ==
    ASSUME OwnersInv, StreamInv, Post, NEW t \in Sock
    PROVE  /\ wc'[t].stage = wc[t].stage /\ wc'[t].id = wc[t].id
           /\ wc'[t].reused = wc[t].reused
           /\ wc'[t].listed => wc[t].listed
           /\ \A q, f : Kept(wc[t], q, f) => Kept(wc'[t], q, f)
           /\ \A f : Waits(wc[t], f) => Waits(wc'[t], f)
           /\ \A c, f : Greets(wc[t], c, f) => Greets(wc'[t], c, f)
           /\ \A f : Refused(wc[t], f) => Refused(wc'[t], f)
           /\ wc[t].listed /\ ~Full(t) =>
                Waits(wc'[t], posted + 1) /\ \A q : Kept(wc'[t], q, posted + 1)
           /\ ~(wc[t].listed /\ ~Full(t)) => Refused(wc'[t], posted + 1)
<1> DEFINE o == wc[t]
<1>0. /\ Sound(o, t, posted) /\ o \in WebConn /\ posted \in Nat /\ Num(o) \in Nat
      /\ \A m \in Items(o) : m.ev < posted + 1
  <2>1. Sound(o, t, posted) /\ o \in WebConn /\ posted \in Nat /\ Num(o) \in Nat
    BY HandlerIs
  <2>2. \A m \in Items(o) : m.ev <= posted /\ m.ev \in Nat
    <3> HIDE DEF o
    <3> QED
      BY <2>1, SoundFacts DEF Sound
  <2>3. \A m \in Items(o) : m.ev < posted + 1
    BY <2>1, <2>2
  <2> QED
    BY <2>1, <2>3
<1>1. wc'[t] = IF ~o.listed THEN o
               ELSE IF Full(t) THEN [wc[t] EXCEPT !.closed = TRUE, !.listed = FALSE]
               ELSE [wc[t] EXCEPT !.send = Append(@, [hello |-> 0, ev |-> posted + 1])]
  BY DEF Post, Broadcast
<1>2. CASE ~o.listed
  <2>1. wc'[t] = o
    BY <1>1, <1>2
  <2> QED
    BY <1>0, <1>2, <2>1 DEF Refused
<1>3. CASE o.listed /\ Full(t)
  <2> DEFINE r == [wc[t] EXCEPT !.closed = TRUE, !.listed = FALSE]
  <2>1. wc'[t] = r
    BY <1>1, <1>3
  <2>2. /\ r.stage = o.stage /\ r.id = o.id /\ r.reused = o.reused
        /\ r.send = o.send /\ r.dead = o.dead /\ r.ptr = o.ptr /\ ~r.listed
    BY <1>0 DEF WebConn
  <2> HIDE DEF r, o
  <2>3. /\ Items(r) = Items(o)
        /\ \A q, f : Kept(o, q, f) <=> Kept(r, q, f)
        /\ \A f : Waits(o, f) <=> Waits(r, f)
        /\ \A c, f : Greets(o, c, f) <=> Greets(r, c, f)
    BY <2>2, KeptSame
  <2>4. ~r.listed /\ \A m \in Items(r) : m.ev < posted + 1
    BY <1>0, <2>2, <2>3
  <2>5. Refused(r, posted + 1)
    BY <2>4 DEF Refused
  <2>6. \A f : ~Refused(o, f)
    BY <1>3 DEF Refused
  <2> QED
    BY <1>3, <2>1, <2>2, <2>3, <2>5, <2>6 DEF o
<1>4. CASE o.listed /\ ~Full(t)
  <2> DEFINE r == [wc[t] EXCEPT !.send = Append(@, [hello |-> 0, ev |-> posted + 1])]
             x == [seq |-> Num(o) + Len(o.send), hello |-> 0, ev |-> posted + 1]
  <2>1. wc'[t] = r
    BY <1>1, <1>4
  <2>2. /\ r.stage = o.stage /\ r.id = o.id /\ r.seq = o.seq /\ r.reused = o.reused
        /\ r.listed = o.listed /\ r.dead = o.dead
    BY <1>0 DEF WebConn
  <2>3. r = [o EXCEPT !.send = Append(@, [hello |-> 0, ev |-> posted + 1])]
    OBVIOUS
  <2>4. x.hello = 0 /\ x.ev = posted + 1
    OBVIOUS
  <2> HIDE DEF r, o
  <2>5. Num(r) = Num(o) /\ Items(r) = Items(o) \cup {x} /\ Waiting(r) = Waiting(o) \cup {x}
    <3>1. /\ Sound(o, t, posted) /\ o.listed /\ posted \in Nat
      BY <1>0, <1>4
    <3>2. /\ Num(r) = Num(o)
          /\ Items(r) = Items(o) \cup
               {[seq |-> Num(o) + Len(o.send), hello |-> 0, ev |-> posted + 1]}
          /\ Waiting(r) = Waiting(o) \cup
               {[seq |-> Num(o) + Len(o.send), hello |-> 0, ev |-> posted + 1]}
      BY <2>3, <3>1, SoundQueued
    <3> QED
      BY <3>2
  <2> HIDE DEF x
  <2>6. \A q, f : Kept(o, q, f) => Kept(r, q, f)
    BY <2>2, <2>5 DEF Kept
  <2>7. \A f : Waits(o, f) => Waits(r, f)
    BY <2>5 DEF Waits
  <2>8. \A c, f : Greets(o, c, f) => Greets(r, c, f)
    BY <2>5 DEF Greets
  <2>9. Waits(r, posted + 1) /\ \A q : Kept(r, q, posted + 1)
    BY <2>4, <2>5 DEF Waits, Kept
  <2>10. \A f : ~Refused(o, f)
    BY <1>4 DEF Refused
  <2> QED
    BY <1>4, <2>1, <2>2, <2>6, <2>7, <2>8, <2>9, <2>10 DEF o
<1> QED
  BY <1>2, <1>3, <1>4

LEMMA PostTold ==
    ASSUME OwnersInv, StreamInv, Told, Post PROVE Told'
<1> DEFINE c == connectionId
           q == serverSequence
           r == wc[conn]
           r2 == wc'[conn]
<1>0. /\ Counts /\ Phase /\ InRow /\ Ids /\ Positions /\ Wires /\ QueuesHaveOneOwner /\ Links
      /\ posted \in Nat /\ last \in Nat /\ last <= posted
      /\ heard \subseteq 1..posted
  BY DEF StreamInv, OwnersInv, Counts, Positions
<1>1. /\ posted' = posted + 1 /\ Unread' = Unread /\ Reloading' = Reloading
      /\ UNCHANGED <<conn, link, connectionId, serverSequence, last, page>>
  BY DEF Post, clientVars, pageVars, Unread, Reloading
<1>2. /\ heard \subseteq heard' /\ early \subseteq early' /\ handover \subseteq handover'
      /\ heard' \subseteq heard \cup {posted + 1}
      /\ posted + 1 \in heard' => Queued(posted + 1)
      /\ Queued(posted + 1) => posted + 1 \in heard'
      /\ posted + 1 \notin early' => Queued(posted + 1) \/ c # 0
      /\ posted + 1 \notin handover' => ~HandingOver
  BY <1>0 DEF Post
<1>3. CASE Reloading
  BY <1>1, <1>3 DEF Told, Pending, Explained
<1>4. CASE ~Reloading
  <2>1. conn # 0 /\ conn \in Sock
    BY <1>0, <1>4, PageReads DEF Links, Reloading
  <2>2. /\ r2.stage = r.stage /\ r2.id = r.id /\ r2.reused = r.reused
        /\ r2.listed => r.listed
        /\ \A f : Kept(r, q, f) => Kept(r2, q, f)
        /\ \A f : Waits(r, f) => Waits(r2, f)
        /\ \A f : Greets(r, c, f) => Greets(r2, c, f)
        /\ \A f : Refused(r, f) => Refused(r2, f)
        /\ r.listed /\ ~Full(conn) => Waits(r2, posted + 1) /\ Kept(r2, q, posted + 1)
        /\ ~(r.listed /\ ~Full(conn)) => Refused(r2, posted + 1)
    BY <2>1, QueuedHow
  <2>3. KeptOn(wc, wc', c, q, last)
    <3>1. \A t \in Sock : HoldsOn(wc[t], wc'[t], c, q, last)
      BY QueuedHow DEF HoldsOn, Holds
    <3> QED
      BY <3>1, EachKeepsOn
  <2>4. AtPage(r, link[conn], Unread, c, q, last) /\ Staged(r, conn)
    BY <1>0, <2>1, HandlerIs DEF Phase
  <2>5. \A t \in Sock : /\ wc[t].stage \in {"none", "upgraded", "checked"} => ~wc[t].listed
                        /\ wc[t].stage = "checked" /\ ~wc[t].reused => wc[t].id = t
    BY HandlerIs DEF Staged
  <2>6. \A t \in Sock : t = c => PumpHasBegun(wc[t])
    BY <1>0 DEF Ids, KnownIn
  <2>7. r.listed => conn \in Streams
    BY <2>1 DEF Streams
  <2>8. ~Queued(posted + 1) => \A t \in Streams : wc[t].listed => Full(t)
    BY DEF Queued
  <2>9. Pending'
    <3> SUFFICES ASSUME NEW f \in heard' \ page
                 PROVE  /\ f > last
                        /\ Ahead(Unread, link[conn], r2, wc', c, q, f)
      BY <1>1 DEF Pending
    <3>1. CASE f \in heard
      <4>1. f > last /\ Ahead(Unread, link[conn], r, wc, c, q, f) /\ f \in Nat
        <5>1. f > last /\ Ahead(Unread, link[conn], r, wc, c, q, f)
          BY <1>4, <3>1 DEF Told, Pending
        <5>2. f \in Nat
          BY <1>0, <3>1
        <5> QED
          BY <5>1, <5>2
      <4>2. Hears(r, wc, c, q, f) => Hears(r2, wc', c, q, f)
        <5> SUFFICES ASSUME Hears(r, wc, c, q, f) PROVE Hears(r2, wc', c, q, f)
          OBVIOUS
        <5>1. r.stage \in {"none", "upgraded"} =>
                c # 0 /\ \A t \in Sock : Holds(wc'[t]) /\ wc'[t].id = c => Kept(wc'[t], q, f)
          <6> HIDE DEF c, q, r, r2
          <6> QED
            BY <2>3, <4>1, NobodyStarts DEF Hears
        <5> QED
          BY <2>2, <5>1 DEF Hears
      <4> QED
        BY <4>1, <4>2 DEF Ahead
    <3>2. CASE f = posted + 1
      <4>1. PICK s \in Streams : wc[s].listed /\ ~Full(s)
        BY <1>2, <3>2 DEF Queued
      <4>2. s \in Sock /\ (s = conn \/ (wc[s].id = c /\ c # 0)) /\ Owner(s)
        BY <4>1 DEF Streams, Owner
      <4>3. Waits(wc'[s], f) /\ Kept(wc'[s], q, f)
        BY <3>2, <4>1, <4>2, QueuedHow
      <4>4. f > last
        BY <1>0, <3>2
      <4>5. \A k \in 1..Len(Unread) : Unread[k].ev < f
        <5>1. \A k \in 1..Len(Unread) : Unread[k].ev <= posted /\ Unread[k].ev \in Nat
          BY <1>0, PageReads DEF InRow, Row, Chain
        <5> QED
          BY <1>0, <3>2, <5>1
      <4>6. r.stage \in {"none", "upgraded"} =>
              c # 0 /\ \A t \in Sock : Holds(wc'[t]) /\ wc'[t].id = c => Kept(wc'[t], q, f)
        <5> SUFFICES ASSUME r.stage \in {"none", "upgraded"}
                     PROVE  /\ c # 0
                            /\ \A t \in Sock : Holds(wc'[t]) /\ wc'[t].id = c => t = s
          BY <4>3
        <5>1. s # conn /\ wc[s].id = c /\ c # 0
          BY <2>1, <2>5, <4>1, <4>2
        <5>2. \A t \in Sock : Holds(wc'[t]) => Owner(t) /\ wc'[t].id = wc[t].id
          BY QueuedHow DEF Holds, Owner, Live
        <5> QED
          BY <1>0, <4>2, <5>1, <5>2 DEF QueuesHaveOneOwner
      <4>7. r.stage = "checked" => ~r.reused /\ c # 0
        <5> SUFFICES ASSUME r.stage = "checked" PROVE ~r.reused /\ c # 0
          OBVIOUS
        <5>1. s # conn /\ wc[s].id = c /\ c # 0
          BY <2>1, <2>5, <4>1, <4>2
        <5>2. Owner(conn)
          BY DEF Owner, Live
        <5>3. r.id # c
          BY <1>0, <2>1, <4>2, <5>1, <5>2 DEF QueuesHaveOneOwner
        <5> QED
          BY <2>4, <5>1, <5>3 DEF AtPage
      <4>8. Hears(r2, wc', c, q, f)
        BY <2>2, <3>2, <4>6, <4>7 DEF Hears
      <4> QED
        BY <4>4, <4>5, <4>8 DEF Ahead
    <3> QED
      BY <1>2, <3>1, <3>2
  <2>10. Explained'
    <3> SUFFICES ASSUME NEW f \in (1..(posted + 1)) \ (page \cup heard' \cup early' \cup handover'),
                        link[conn] \in {"dialling", "up"}
                 PROVE  Skips(Unread, r2, wc', c, f)
      BY <1>1 DEF Explained
    <3>1. CASE f \in 1..posted
      <4>1. Skips(Unread, r, wc, c, f)
        BY <1>2, <1>4, <3>1 DEF Told, Explained
      <4>2. r.stage \in {"none", "upgraded"} =>
              c # 0 /\ \A t \in Sock : Holds(wc'[t]) => wc'[t].id # c
        <5> HIDE DEF c, q, r, r2
        <5> QED
          BY <2>3, <4>1, NobodyStarts DEF Skips
      <4> QED
        BY <2>2, <4>1, <4>2 DEF Skips
    <3>2. CASE f = posted + 1
      <4>1. ~Queued(posted + 1) /\ c # 0 /\ ~HandingOver
        BY <1>2, <3>2
      <4>2. \A t \in Sock : wc[t].listed /\ (t = conn \/ wc[t].id = c) => ~wc'[t].listed
        <5>1. \A t \in Sock : wc[t].listed /\ (t = conn \/ wc[t].id = c) => Full(t)
          BY <2>8, <4>1 DEF Streams
        <5> QED
          BY <5>1, QueuedHow DEF Refused
      <4>3. \A t \in Sock : Holds(wc'[t]) => wc'[t].id # c
        <5> SUFFICES ASSUME NEW t \in Sock, Holds(wc'[t]), wc[t].id = c PROVE FALSE
          BY QueuedHow
        <5>1. CASE wc'[t].listed
          BY <4>2, <5>1, QueuedHow
        <5>2. CASE wc'[t].stage = "checked"
          <6>1. wc[t].stage = "checked"
            BY <5>2, QueuedHow
          <6>2. ~wc[t].reused
            BY <4>1, <6>1 DEF HandingOver
          <6>3. t = c
            BY <2>5, <6>1, <6>2
          <6> QED
            BY <2>6, <6>1, <6>3 DEF PumpHasBegun
        <5> QED
          BY <5>1, <5>2 DEF Holds
      <4>4. r.stage = "checked" => ~r.reused
        BY <2>1, <4>1 DEF HandingOver
      <4>5. ~r2.listed
        BY <2>1, <2>2, <4>2
      <4> QED
        BY <2>2, <4>1, <4>3, <4>4, <4>5 DEF Skips
    <3>3. f \in 1..posted \/ f = posted + 1
      BY <1>0
    <3> QED
      BY <3>1, <3>2, <3>3
  <2> QED
    BY <2>9, <2>10 DEF Told
<1> QED
  BY <1>3, <1>4

-----------------------------------------------------------------------------
(***************************************************************************)
(* What the page is told holds in every state, and what follows from it.   *)
(***************************************************************************)
LEMMA ToldStep ==
    ASSUME OwnersInv, StreamInv, Told, [Next]_vars PROVE Told'
<1>1. ASSUME NEW s \in Sock, Server(s) PROVE Told'
  BY <1>1, UpgradeTold, CheckTold, RegisterTold, StartTold, PumpTold, RemovedTold DEF Server
<1>2. ASSUME NEW s \in Sock, Cut(s) \/ Reap(s) \/ RegisterFails(s) PROVE Told'
  BY <1>2, CutTold, RemovedTold
<1>3. CASE OnMessage
  BY <1>3, MessageTold
<1>4. CASE \/ Mount \/ Reconnect \/ Open \/ OnClose \/ PingTimeout \/ Online \/ SyncRead
           \/ UNCHANGED vars
  BY <1>4, PageTold
<1>5. CASE Post
  BY <1>5, PostTold
<1>6. CASE Restart
  BY <1>6, RestartTold
<1> QED
  BY <1>1, <1>2, <1>3, <1>4, <1>5, <1>6 DEF Next, Client, Faults

LEMMA ToldHolds == Spec => []Told
<1>1. Init => Told
  BY DEF Init, Told, Pending, Explained, Reloading
<1>2. OwnersInv /\ StreamInv /\ Told /\ [Next]_vars => Told'
  BY ToldStep
<1> QED
  BY <1>1, <1>2, StreamHolds, PTL DEF Spec

(* A connected page that has caught up lacks no event but those broadcast  *)
(* before it had a connection id or while its queues changed hands: what a *)
(* full queue, a lost connection, a reaped WebConn, a restart or an        *)
(* overwritten dead queue takes away, the next hello makes it reload.      *)
THEOREM LossesAreHandovers == Spec => []LostOnlyInHandover
<1>1. OwnersInv /\ StreamInv /\ Told => LostOnlyInHandover
  <2> SUFFICES ASSUME OwnersInv, StreamInv, Told, Quiet,
                      NEW f \in (1..posted) \ page, f \notin early \cup handover
               PROVE  FALSE
    BY DEF LostOnlyInHandover
  <2>1. ~Reloading /\ Unread = <<>> /\ link[conn] = "up"
        /\ wc[conn].stage = "pumping" /\ wc[conn].listed
    BY DEF Quiet, Reloading, Unread
  <2>2. Waiting(wc[conn]) = {}
    <3>1. Len(<<>>) = 0 /\ wc[conn].send = <<>>
      BY DEF Quiet
    <3> QED
      BY <3>1 DEF Waiting, Numbered
  <2>3. /\ ~Waits(wc[conn], f) /\ ~Greets(wc[conn], connectionId, f)
        /\ ~Refused(wc[conn], f) /\ ~Greeting(Unread, connectionId, f)
    BY <2>1, <2>2 DEF Waits, Greets, Refused, Greeting
  <2>4. CASE f \in heard
    <3>1. Ahead(Unread, link[conn], wc[conn], wc, connectionId, serverSequence, f)
      BY <2>1, <2>4 DEF Told, Pending
    <3>2. ~ \E k \in 1..Len(Unread) : Unread[k].hello = 0 /\ Unread[k].ev = f
      <4>1. Len(<<>>) = 0
        OBVIOUS
      <4> QED
        BY <2>1, <4>1
    <3>3. Hears(wc[conn], wc, connectionId, serverSequence, f)
      BY <2>1, <2>3, <3>1, <3>2 DEF Ahead
    <3> QED
      BY <2>1, <2>3, <3>3 DEF Hears
  <2>5. CASE f \notin heard
    <3>1. Skips(Unread, wc[conn], wc, connectionId, f)
      BY <2>1, <2>5 DEF Told, Explained
    <3> QED
      BY <2>1, <2>3, <3>1 DEF Skips
  <2> QED
    BY <2>4, <2>5
<1> QED
  BY <1>1, StreamHolds, ToldHolds, PTL

-----------------------------------------------------------------------------
(***************************************************************************)
(* The event stream implements the subscription.                           *)
(***************************************************************************)
\* The step of the subscription that a message is.
LEMMA MessageRefines ==
    ASSUME OwnersInv, StreamInv, Told', OnMessage
    PROVE  (\E e \in heard : Sub!Deliver(e)) \/ Sub!Skip
<1> DEFINE m == Unread[1]
<1>1. /\ conn # 0 /\ opened /\ Unread = wire[conn] /\ Unread # <<>>
      /\ last' = m.ev /\ page' = Apply(m) /\ opened' = opened
      /\ syncing' = (syncing \/ (m.hello # 0 /\ OtherId(m)))
      /\ posted' = posted /\ heard' = heard
  BY MessageIsRead DEF hubVars
<1>2. /\ Row(Unread, connectionId, serverSequence, last, posted) /\ m \in Message
      /\ posted \in Nat /\ last \in Nat /\ 1 \in 1..Len(Unread)
      /\ heard \subseteq 1..posted
  BY <1>1, NextIsExpected, PageReads DEF StreamInv, OwnersInv, Counts
<1>3. /\ m.ev \in Nat /\ m.ev <= posted
      /\ IF m.hello = 0 THEN last < m.ev ELSE last <= m.ev
  BY <1>1, <1>2 DEF Row, Chain, Joins, Message
<1>4. m.hello = 0 => m.ev \in heard
  BY <1>2 DEF StreamInv, HeardIs
<1>5. syncing' \/ \A f \in heard \ page' : f > m.ev
  BY <1>1 DEF Told, Pending, Reloading
<1> HIDE DEF m
<1>6. CASE m.hello = 0
  <2>1. page' = page \cup {m.ev} /\ syncing' = syncing
    <3>1. syncing \in BOOLEAN
      BY DEF StreamInv, Counts
    <3> QED
      BY <1>1, <1>6, <3>1 DEF Apply
  <2>2. syncing \/ heard \cap ((last + 1)..(m.ev - 1)) \subseteq page
    <3> SUFFICES ASSUME ~syncing, NEW f \in heard, f \in (last + 1)..(m.ev - 1), f \notin page
                 PROVE  FALSE
      OBVIOUS
    <3>1. f \in Nat /\ ~(f > m.ev) /\ f # m.ev
      BY <1>2, <1>3
    <3> QED
      BY <1>5, <2>1, <3>1
  <2>3. m.ev > last
    BY <1>2, <1>3, <1>6
  <2>4. Sub!Deliver(m.ev)
    BY <1>1, <1>4, <1>6, <2>1, <2>2, <2>3 DEF Sub!Deliver
  <2> QED
    BY <1>4, <1>6, <2>4
<1>7. CASE m.hello # 0
  <2>1. page' = page
    BY <1>1, <1>7 DEF Apply
  <2>2. last' \in last..posted
    BY <1>1, <1>2, <1>3, <1>7
  <2>3. syncing' \in {syncing, TRUE}
    <3>1. syncing \in BOOLEAN
      BY DEF StreamInv, Counts
    <3>2. OtherId(m) \in BOOLEAN
      BY DEF OtherId
    <3> QED
      BY <1>1, <3>1, <3>2
  <2>4. syncing' \/ heard \cap (1..last') \subseteq page
    <3> SUFFICES ASSUME ~syncing', NEW f \in heard, f \in 1..last', f \notin page
                 PROVE  FALSE
      OBVIOUS
    <3>1. ~(f > m.ev)
      BY <1>1, <1>3
    <3> QED
      BY <1>5, <2>1, <3>1
  <2> QED
    BY <1>1, <2>1, <2>2, <2>3, <2>4 DEF Sub!Skip
<1> QED
  BY <1>6, <1>7

LEMMA OpenRefines ==
    ASSUME StreamInv, Told, Open PROVE Sub!Skip
<1>1. /\ last' = last /\ page' = page /\ posted' = posted /\ heard' = heard
      /\ ~opened /\ syncing' = (syncing \/ failed)
  BY DEF Open, hubVars
<1>2. /\ last \in Nat /\ posted \in Nat /\ last <= posted
      /\ syncing \in BOOLEAN /\ failed \in BOOLEAN /\ heard \subseteq 1..posted
  BY DEF StreamInv, Counts, Positions
<1>3. last' \in last..posted
  BY <1>1, <1>2
<1>4. syncing' \/ heard \cap (1..last') \subseteq page
  <2> SUFFICES ASSUME ~syncing', NEW f \in heard, f \in 1..last', f \notin page
               PROVE  FALSE
    OBVIOUS
  <2>1. f > last
    BY <1>1 DEF Told, Pending, Reloading
  <2> QED
    BY <1>1, <1>2, <2>1
<1>5. syncing' \in {syncing, TRUE}
  BY <1>1, <1>2
<1> QED
  BY <1>1, <1>3, <1>4, <1>5 DEF Sub!Skip

\* Every other step of the server, the network and the page is none to it.
LEMMA OthersStutter ==
    ASSUME \/ Mount \/ Reconnect \/ OnClose \/ PingTimeout \/ Online \/ Restart
           \/ UNCHANGED vars
           \/ \E s \in Sock : Server(s) \/ Cut(s) \/ Reap(s) \/ RegisterFails(s)
    PROVE  UNCHANGED Sub!subVars
<1>1. ASSUME NEW s \in Sock, Server(s) PROVE UNCHANGED <<hubVars, pageVars>>
  BY <1>1 DEF Server, Upgrade, CheckConn, Register, WritePumpStarts, WritePump, PumpEnds
<1>2. ASSUME NEW s \in Sock, Cut(s) \/ Reap(s) \/ RegisterFails(s)
      PROVE  UNCHANGED <<hubVars, pageVars>>
  BY <1>2 DEF Cut, Reap, RegisterFails
<1>3. CASE \/ Mount \/ Reconnect \/ OnClose \/ PingTimeout \/ Online \/ Restart
           \/ UNCHANGED vars
  <2>1. UNCHANGED <<hubVars, pageVars>>
    BY <1>3 DEF Mount, Reconnect, OnClose, PingTimeout, Online, Restart, vars
  <2> QED
    BY <2>1 DEF hubVars, pageVars, Sub!subVars
<1> QED
  BY <1>1, <1>2, <1>3 DEF hubVars, pageVars, Sub!subVars

(* The whole is a subscription: the page applies the events queued for it  *)
(* in order and each once, and passes one over only when it has it already *)
(* or is still to reload.  Each step of server, network and page is a step *)
(* of the subscription or none at all.                                     *)
THEOREM StreamIsSubscription == Spec => IsSubscription
<1>1. Init => Sub!Init
  BY DEF Init, Sub!Init
<1>2. ASSUME OwnersInv, StreamInv, Told, Told', [Next]_vars
      PROVE  [Sub!Next]_(Sub!subVars)
  <2>1. CASE Post
    <3>1. /\ posted' = posted + 1 /\ heard' \in {heard, heard \cup {posted + 1}}
          /\ page' = page /\ last' = last /\ syncing' = syncing
      BY <2>1 DEF Post, pageVars
    <3> QED
      BY <3>1 DEF Sub!Post, Sub!Next
  <2>2. CASE OnMessage
    BY <1>2, <2>2, MessageRefines DEF Sub!Next
  <2>3. CASE Open
    BY <1>2, <2>3, OpenRefines DEF Sub!Next
  <2>4. CASE SyncRead
    BY <2>4 DEF SyncRead, hubVars, Sub!Sync, Sub!Next
  <2>5. CASE \/ Mount \/ Reconnect \/ OnClose \/ PingTimeout \/ Online \/ Restart
             \/ UNCHANGED vars
             \/ \E s \in Sock : Server(s) \/ Cut(s) \/ Reap(s) \/ RegisterFails(s)
    BY <2>5, OthersStutter
  <2> QED
    BY <1>2, <2>1, <2>2, <2>3, <2>4, <2>5 DEF Next, Client, Faults
<1>3. OwnersInv /\ StreamInv /\ Told /\ Told' /\ [Next]_vars => [Sub!Next]_(Sub!subVars)
  BY <1>2
<1> QED
  BY <1>1, <1>3, StreamHolds, ToldHolds, PTL DEF Spec, IsSubscription, Sub!Spec

\* What the subscription is worth to the page: no event that the server took
\* and the page has passed is missing from it, unless it is still to read the
\* server's state.
LEMMA SubscriptionLosesNothing == Sub!Spec => []Sub!NoSilentLoss
<1> DEFINE Inv == Sub!TypeOK /\ Sub!NoSilentLoss
<1>1. Sub!Init => Inv
  BY DEF Sub!Init, Sub!TypeOK, Sub!NoSilentLoss
<1>2. Inv /\ [Sub!Next]_(Sub!subVars) => Inv'
  <2> SUFFICES ASSUME Inv, [Sub!Next]_(Sub!subVars) PROVE Inv'
    OBVIOUS
  <2> USE DEF Sub!TypeOK, Sub!NoSilentLoss
  <2>1. CASE Sub!Post
    BY <2>1 DEF Sub!Post
  <2>2. ASSUME NEW e \in heard, Sub!Deliver(e) PROVE Inv'
    <3>1. /\ posted' = posted /\ heard' = heard /\ syncing' = syncing /\ last' = e
          /\ page' = page \cup {e} /\ e > last /\ e \in 1..posted
          /\ syncing \/ heard \cap ((last + 1)..(e - 1)) \subseteq page
      BY <2>2 DEF Sub!Deliver
    <3>2. Sub!TypeOK'
      BY <3>1
    <3>3. syncing \/ heard \cap (1..e) \subseteq page \cup {e}
      <4> SUFFICES ASSUME ~syncing, NEW f \in heard, f \in 1..e, f # e PROVE f \in page
        OBVIOUS
      <4>1. f \in 1..last \/ f \in (last + 1)..(e - 1)
        BY <3>1
      <4> QED
        BY <3>1, <4>1
    <3> QED
      BY <3>1, <3>2, <3>3
  <2>3. CASE Sub!Skip
    <3>1. posted' = posted /\ heard' = heard /\ page' = page /\ last' \in last..posted
      BY <2>3 DEF Sub!Skip
    <3>2. last' \in 0..posted'
      BY <3>1
    <3>3. syncing' \in BOOLEAN
      BY <2>3 DEF Sub!Skip
    <3>4. syncing' \/ heard' \cap (1..last') \subseteq page'
      BY <2>3 DEF Sub!Skip
    <3> QED
      BY <3>1, <3>2, <3>3, <3>4
  <2>4. CASE Sub!Sync
    BY <2>4 DEF Sub!Sync
  <2>5. CASE UNCHANGED Sub!subVars
    BY <2>5 DEF Sub!subVars
  <2> QED
    BY <2>1, <2>2, <2>3, <2>4, <2>5 DEF Sub!Next
<1>3. Inv => Sub!NoSilentLoss
  OBVIOUS
<1> QED
  BY <1>1, <1>2, <1>3, PTL DEF Sub!Spec

\* No event queued for the page that it has passed in the event stream is
\* missing from it, unless it is still to read the server's state.
THEOREM NothingIsLostSilently == Spec => []Sub!NoSilentLoss
  BY StreamIsSubscription, SubscriptionLosesNothing, PTL DEF IsSubscription
=============================================================================
