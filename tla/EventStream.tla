------------------------------ MODULE EventStream ------------------------------
(***************************************************************************)
(* The event stream of one page: the WebSocketClient of the web app        *)
(* (platform/client/src/websocket.ts) with the listeners of                *)
(* websocket_actions.ts, and on the server the handler of a WebSocket      *)
(* request, its WebConn and the user's hub (web_conn.go, web_hub.go).      *)
(*                                                                         *)
(* Each try of the page to connect is a socket 1, 2, ... with the handler  *)
(* and the WebConn that serve it.  The page's URL carries the connection   *)
(* id and the sequence number it expects; the hub hands the queues of an   *)
(* inactive WebConn with that id over to the new one.  Looking it up,      *)
(* registering, and starting the write pump are steps of their own.  The   *)
(* connection id of a fresh WebConn is its socket's number, the one its    *)
(* write pump makes after a loss is MaxSockets more.                       *)
(***************************************************************************)
EXTENDS DeadQueue, Sequences, FiniteSets

CONSTANTS
    SendQueueSize,  \* sendQueueSize, 256 in the code
    MaxEvents,      \* bound: events broadcast
    MaxSockets,     \* bound: tries to connect
    MaxDrops,       \* bound: losses of a connection, network changes, restarts
    MaxTrouble      \* bound: events and losses together

ASSUME SizesOK ==
    /\ SendQueueSize \in Nat \ {0} /\ MaxEvents \in Nat
    /\ MaxSockets \in Nat \ {0} /\ MaxDrops \in Nat /\ MaxTrouble \in Nat

VARIABLES
    posted,     \* events the hub has broadcast, 1..posted
    wc,         \* the handler of each socket and its WebConn
    link,       \* the state of each socket's connection
    wire,       \* messages written and not read yet
    nsock,      \* sockets so far
    drops,      \* losses so far
    conn,       \* this.conn, 0 for null
    opened,     \* its readyState is OPEN
    armed,      \* reconnectTimeout is set
    failed,     \* connectFailCount > 0
    connectionId, serverSequence,
    page,       \* the events whose effect the page shows
    syncing,    \* requests of reconnect() are under way
    last,       \* history: the last event applied or passed over
    heard,      \* history: events queued for the page's stream
    early,      \* history: events before the page was given a connection id
    handover    \* history: events while the queues changed hands

hubVars    == <<posted, heard, early, handover>>
socketVars == <<wc, link, wire, nsock>>
clientVars == <<conn, opened, armed, failed, connectionId, serverSequence>>
pageVars   == <<page, syncing, last>>
vars == <<hubVars, socketVars, clientVars, pageVars, drops>>

Sock == 1..MaxSockets
Message == [seq : Nat, hello : Nat, ev : Nat]
Item == [hello : Nat, ev : Nat]
Live == {"checked", "registered", "pumping"}

TypeOK ==
    /\ posted \in 0..MaxEvents /\ drops \in Nat /\ nsock \in 0..MaxSockets
    /\ wc \in [Sock -> [stage : {"none", "upgraded", "ended"} \cup Live,
                        id : Nat, seq : Nat, reused : BOOLEAN,
                        send : Seq(Item), closed : BOOLEAN,
                        dead : [Slots -> Message \cup {Nil}], ptr : Slots,
                        active : BOOLEAN, listed : BOOLEAN]]
    /\ link \in [Sock -> {"none", "dialling", "up", "cut"}]
    /\ wire \in [Sock -> Seq(Message)]
    /\ conn \in 0..nsock /\ opened \in BOOLEAN /\ armed \in BOOLEAN
    /\ failed \in BOOLEAN
    /\ connectionId \in Nat /\ serverSequence \in Nat
    /\ syncing \in BOOLEAN
    /\ page \subseteq 1..posted /\ last \in Nat
    /\ heard \subseteq 1..posted /\ early \subseteq 1..posted
    /\ handover \subseteq 1..posted

NewWebConn(id, seq) ==
    [stage |-> "none", id |-> id, seq |-> seq, reused |-> FALSE,
     send |-> <<>>, closed |-> FALSE, dead |-> ClearedDeadQueue, ptr |-> 0,
     active |-> FALSE, listed |-> FALSE]

\* A WebConn that nothing refers to any more.
Gone == [NewWebConn(0, 0) EXCEPT !.stage = "ended"]

Drop ==
    /\ drops < MaxDrops /\ posted + drops < MaxTrouble
    /\ drops' = drops + 1

Init ==
    /\ posted = 0 /\ heard = {} /\ early = {} /\ handover = {}
    /\ wc = [s \in Sock |-> NewWebConn(0, 0)]
    /\ link = [s \in Sock |-> "none"]
    /\ wire = [s \in Sock |-> <<>>]
    /\ nsock = 0 /\ drops = 0
    /\ conn = 0 /\ opened = FALSE /\ armed = FALSE /\ failed = FALSE
    /\ connectionId = 0 /\ serverSequence = 0
    /\ page = {} /\ syncing = TRUE /\ last = 0

-----------------------------------------------------------------------------
\* The server: the handler, the hub and the pumps.

\* The upgrade of the request; the page's socket opens from here on.
Upgrade(s) ==
    /\ link[s] = "dialling"
    /\ link' = [link EXCEPT ![s] = "up"]
    /\ wc' = [wc EXCEPT ![s].stage = "upgraded"]
    /\ UNCHANGED <<hubVars, wire, nsock, clientVars, pageVars, drops>>

\* RemoveInactiveByConnectionID finds it.
Inactive(t, id) == wc[t].listed /\ ~wc[t].active /\ wc[t].id = id

HandOver_Keep(s, t) ==   \* mutant: the hub keeps the old WebConn
    /\ Inactive(t, wc[s].id)
    /\ wc' = [wc EXCEPT
                ![s] = [wc[s] EXCEPT !.stage = "checked", !.reused = TRUE,
                                     !.send = wc[t].send, !.dead = wc[t].dead,
                                     !.ptr = wc[t].ptr]]

\* The hub takes the WebConn out and the handler gets its queues.
HandOver(s, t) ==
    /\ Inactive(t, wc[s].id)
    /\ wc' = [wc EXCEPT
                ![t] = Gone,
                ![s] = [wc[s] EXCEPT !.stage = "checked", !.reused = TRUE,
                                     !.send = wc[t].send, !.dead = wc[t].dead,
                                     !.ptr = wc[t].ptr]]

StartAfresh(s) ==
    /\ wc[s].id # 0 => \A t \in Sock : ~Inactive(t, wc[s].id)
    /\ wc' = [wc EXCEPT ![s] = [NewWebConn(s, 0) EXCEPT !.stage = "checked"]]

CheckConn(s) ==
    /\ wc[s].stage = "upgraded"
    /\ \/ wc[s].id # 0 /\ \E t \in Sock : HandOver(s, t)
       \/ StartAfresh(s)
    /\ UNCHANGED <<hubVars, link, wire, nsock, clientVars, pageVars, drops>>

Hello(id, ev) == [hello |-> id, ev |-> ev]

Register(s) ==
    /\ wc[s].stage = "checked"
    /\ wc' = [wc EXCEPT ![s] =
                [wc[s] EXCEPT !.stage = "registered", !.active = TRUE,
                              !.listed = TRUE,
                              !.send = IF wc[s].reused THEN @
                                       ELSE Append(@, Hello(wc[s].id, posted))]]
    /\ UNCHANGED <<hubVars, link, wire, nsock, clientVars, pageVars, drops>>

\* The hub could not read the user's channels: the handler closes the socket.
RegisterFails(s) ==
    /\ wc[s].stage = "checked"
    /\ Drop
    /\ wc' = [wc EXCEPT ![s] = Gone]
    /\ link' = [link EXCEPT ![s] = "cut"]
    /\ UNCHANGED <<hubVars, wire, nsock, clientVars, pageVars>>

\* What reaches the wire of a connection that may be gone already.
Written(s, ms) == [wire EXCEPT ![s] = IF link[s] = "up" THEN @ \o ms ELSE @]

\* The event a message loss passes over to: the last one in the dead queue.
Newest(s) == wc[s].dead[(wc[s].ptr + DeadQueueSize - 1) % DeadQueueSize].ev

Lost_SameId(s) ==   \* mutant: the connection keeps its id
    LET m == [seq |-> 0, hello |-> wc[s].id, ev |-> Newest(s)]
    IN  /\ wc' = [wc EXCEPT ![s] =
                    [wc[s] EXCEPT !.stage = "pumping", !.seq = 1,
                                  !.dead = AddToDeadQueue(ClearedDeadQueue, 0, m),
                                  !.ptr = NextSlot(0)]]
        /\ wire' = Written(s, <<m>>)

\* The dead queue no longer has what the client wants: a new connection id.
Lost(s) ==
    LET m == [seq |-> 0, hello |-> MaxSockets + s, ev |-> Newest(s)]
    IN  /\ wc' = [wc EXCEPT ![s] =
                    [wc[s] EXCEPT !.stage = "pumping", !.id = m.hello, !.seq = 1,
                                  !.dead = AddToDeadQueue(ClearedDeadQueue, 0, m),
                                  !.ptr = NextSlot(0)]]
        /\ wire' = Written(s, <<m>>)

Resend(s, i) ==
    LET ms == DrainDeadQueue(wc[s].dead, wc[s].ptr, i)
    IN  /\ InDeadQueue(wc[s].dead, wc[s].seq, i)
        /\ wc' = [wc EXCEPT ![s] = [wc[s] EXCEPT !.stage = "pumping",
                                                 !.seq = @ + Len(ms)]]
        /\ wire' = Written(s, ms)

InQueue(s) == \E i \in Slots : InDeadQueue(wc[s].dead, wc[s].seq, i)

WritePumpStarts(s) ==
    /\ wc[s].stage = "registered"
    /\ \/ wc[s].seq # 0 /\ \E i \in Slots : Resend(s, i)
       \/ /\ wc[s].seq # 0 /\ ~InQueue(s)
          /\ HasMsgLoss(wc[s].dead, wc[s].ptr, wc[s].seq)
          /\ Lost(s)
       \/ /\ \/ wc[s].seq = 0
             \/ ~InQueue(s) /\ ~HasMsgLoss(wc[s].dead, wc[s].ptr, wc[s].seq)
          /\ wc' = [wc EXCEPT ![s].stage = "pumping"]
          /\ UNCHANGED wire
    /\ UNCHANGED <<hubVars, link, nsock, clientVars, pageVars, drops>>

WritePump(s) ==
    /\ wc[s].stage = "pumping"
    /\ wc[s].send # <<>>
    /\ LET m == [seq |-> wc[s].seq, hello |-> Head(wc[s].send).hello,
                 ev |-> Head(wc[s].send).ev]
       IN  /\ wc' = [wc EXCEPT ![s] =
                       [wc[s] EXCEPT !.send = Tail(@), !.seq = @ + 1,
                                     !.dead = AddToDeadQueue(@, wc[s].ptr, m),
                                     !.ptr = NextSlot(@)]]
           /\ wire' = Written(s, <<m>>)
    /\ UNCHANGED <<hubVars, link, nsock, clientVars, pageVars, drops>>

\* The pumps of a connection that is gone, or whose queue was closed, end and
\* the hub marks the WebConn inactive.
PumpEnds(s) ==
    /\ wc[s].stage \in {"registered", "pumping"}
    /\ \/ link[s] = "cut"
       \/ wc[s].stage = "pumping" /\ wc[s].closed /\ wc[s].send = <<>>
    /\ wc' = [wc EXCEPT ![s] =
                IF wc[s].listed
                THEN [wc[s] EXCEPT !.stage = "ended", !.active = FALSE]
                ELSE Gone]
    /\ link' = [link EXCEPT ![s] = "cut"]
    /\ UNCHANGED <<hubVars, wire, nsock, clientVars, pageVars, drops>>

\* RemoveInactiveConnections.
Reap(s) ==
    /\ wc[s].listed /\ ~wc[s].active
    /\ wc' = [wc EXCEPT ![s] = Gone]
    /\ UNCHANGED <<hubVars, link, wire, nsock, clientVars, pageVars, drops>>

Full(s) == Len(wc[s].send) >= SendQueueSize

\* The event is queued for each connection; a full queue is closed, and the
\* connection taken out.
Broadcast(e) ==
    [s \in Sock |->
        IF ~wc[s].listed THEN wc[s]
        ELSE IF Full(s) THEN [wc[s] EXCEPT !.closed = TRUE, !.listed = FALSE]
        ELSE [wc[s] EXCEPT !.send = Append(@, [hello |-> 0, ev |-> e])]]

\* The stream the page reads, or would take up again.
Streams == {s \in Sock : s = conn \/ (wc[s].id = connectionId /\ connectionId # 0)}

Queued(e) == \E s \in Streams : wc[s].listed /\ ~Full(s)

HandingOver == \E s \in Sock : wc[s].stage = "checked" /\ wc[s].reused

Post ==
    LET e == posted + 1
    IN  /\ posted < MaxEvents /\ posted + drops < MaxTrouble
        /\ posted' = e
        /\ wc' = Broadcast(e)
        /\ heard' = IF Queued(e) THEN heard \cup {e} ELSE heard
        /\ early' = IF ~Queued(e) /\ connectionId = 0 THEN early \cup {e} ELSE early
        /\ handover' = IF HandingOver THEN handover \cup {e} ELSE handover
        /\ UNCHANGED <<link, wire, nsock, clientVars, pageVars, drops>>

\* The server process is restarted: every WebConn is gone.
Restart ==
    /\ Drop
    /\ \E s \in Sock : wc[s] # Gone /\ wc[s].stage # "none"
    /\ wc' = [s \in Sock |->
                IF wc[s].stage = "none" THEN wc[s] ELSE Gone]
    /\ link' = [s \in Sock |-> IF link[s] = "up" THEN "cut" ELSE link[s]]
    /\ UNCHANGED <<hubVars, wire, nsock, clientVars, pageVars>>

-----------------------------------------------------------------------------
\* The network.

\* The connection breaks; what was under way arrives up to some message.
Cut(s) ==
    /\ link[s] \in {"dialling", "up"}
    /\ Drop
    /\ link' = [link EXCEPT ![s] = "cut"]
    /\ \E k \in 0..Len(wire[s]) : wire' = [wire EXCEPT ![s] = SubSeq(@, 1, k)]
    /\ UNCHANGED <<hubVars, wc, nsock, clientVars, pageVars>>

-----------------------------------------------------------------------------
\* The page.

\* The new WebSocket of initialize(), its URL with the id and the sequence.
Dial ==
    /\ nsock < MaxSockets
    /\ nsock' = nsock + 1
    /\ conn' = nsock + 1
    /\ opened' = FALSE
    /\ link' = [link EXCEPT ![nsock + 1] = "dialling"]
    /\ wc' = [wc EXCEPT ![nsock + 1] = NewWebConn(connectionId, serverSequence)]

\* LoggedIn is mounted, and the page loads.
Mount ==
    /\ nsock = 0
    /\ Dial
    /\ UNCHANGED <<hubVars, wire, armed, failed, connectionId,
                   serverSequence, pageVars, drops>>

\* The reconnect timer: initialize() returns when there is a connection.
Reconnect ==
    /\ armed
    /\ armed' = FALSE
    /\ IF conn = 0 THEN Dial ELSE UNCHANGED <<wc, link, nsock, conn, opened>>
    /\ UNCHANGED <<hubVars, wire, failed, connectionId,
                   serverSequence, pageVars, drops>>

Open_NoSync ==   \* mutant: the reconnect listeners are not called
    /\ conn # 0 /\ ~opened /\ link[conn] = "up"
    /\ opened' = TRUE /\ failed' = FALSE
    /\ UNCHANGED <<hubVars, socketVars, conn, armed, connectionId,
                   serverSequence, pageVars, drops>>

Open ==
    /\ conn # 0 /\ ~opened /\ link[conn] = "up"
    /\ opened' = TRUE /\ failed' = FALSE
    /\ syncing' = (syncing \/ failed)
    /\ UNCHANGED <<hubVars, socketVars, conn, armed, connectionId,
                   serverSequence, page, last, drops>>

\* onclose, from the socket or called by hand on a connection given up.
Closed ==
    /\ conn' = 0 /\ opened' = FALSE
    /\ failed' = TRUE
    /\ armed' = TRUE

OnClose ==
    /\ conn # 0 /\ link[conn] = "cut"
    /\ opened => wire[conn] = <<>>
    /\ Closed
    /\ wire' = [wire EXCEPT ![conn] = <<>>]
    /\ UNCHANGED <<hubVars, wc, link, nsock, connectionId,
                   serverSequence, pageVars, drops>>

Abandon ==
    /\ link' = [link EXCEPT ![conn] = "cut"]
    /\ wire' = [wire EXCEPT ![conn] = <<>>]

\* A ping has no answer within the interval; the connection may be sound.
PingTimeout ==
    /\ conn # 0 /\ opened
    /\ IF link[conn] = "up" THEN Drop ELSE UNCHANGED drops
    /\ Closed
    /\ Abandon
    /\ UNCHANGED <<hubVars, wc, nsock, connectionId,
                   serverSequence, pageVars>>

\* The browser comes online: a timer is set, whatever the connection is doing.
Online ==
    /\ nsock # 0 /\ ~opened /\ ~armed
    /\ Drop
    /\ armed' = TRUE
    /\ UNCHANGED <<hubVars, socketVars, conn, opened, failed,
                   connectionId, serverSequence, pageVars>>

OtherId(m) == connectionId # 0 /\ connectionId # m.hello

Greeted_NoReset(m) ==   \* mutant: the sequence is not set back
    [id |-> IF m.hello # 0 THEN m.hello ELSE connectionId,
     seq |-> serverSequence,
     missed |-> m.hello # 0 /\ OtherId(m)]

\* What a hello does to the id and the sequence, and whether events were missed.
Greeted(m) ==
    [id |-> IF m.hello # 0 THEN m.hello ELSE connectionId,
     seq |-> IF m.hello # 0 /\ OtherId(m) THEN 0 ELSE serverSequence,
     missed |-> m.hello # 0 /\ OtherId(m)]

Apply(m) == IF m.hello = 0 THEN page \cup {m.ev} ELSE page

\* onmessage of the event stream: a wrong sequence number closes the socket.
OnMessage ==
    /\ conn # 0 /\ opened /\ wire[conn] # <<>>
    /\ LET m == Head(wire[conn])
           g == Greeted(m)
       IN  /\ connectionId' = g.id
           /\ syncing' = (syncing \/ g.missed)
           /\ IF m.seq # g.seq
              THEN /\ serverSequence' = g.seq
                   /\ Closed /\ Abandon
                   /\ UNCHANGED <<last, page>>
              ELSE /\ serverSequence' = m.seq + 1
                   /\ last' = m.ev
                   /\ page' = Apply(m)
                   /\ wire' = [wire EXCEPT ![conn] = Tail(@)]
                   /\ UNCHANGED <<conn, opened, armed, failed, link>>
    /\ UNCHANGED <<hubVars, wc, nsock, drops>>

\* The requests of reconnect(), or of the page's first load, are answered.
SyncRead ==
    /\ syncing /\ nsock # 0
    /\ syncing' = FALSE
    /\ page' = page \cup (1..posted)
    /\ UNCHANGED <<hubVars, socketVars, clientVars, last, drops>>

-----------------------------------------------------------------------------
Server(s) ==
    \/ Upgrade(s) \/ CheckConn(s) \/ Register(s) \/ WritePumpStarts(s)
    \/ WritePump(s) \/ PumpEnds(s)

Client ==
    \/ Mount \/ Reconnect \/ Open \/ OnClose \/ PingTimeout
    \/ OnMessage \/ SyncRead

Faults ==
    \/ Restart \/ Online
    \/ \E s \in Sock : Cut(s) \/ Reap(s) \/ RegisterFails(s)

Next ==
    \/ Post \/ Client \/ Faults
    \/ \E s \in Sock : Server(s)

Spec == Init /\ [][Next]_vars

\* Handlers, pumps, timers, browser events and the answers of the REST
\* interface: as long as one of them can go on, one does.  A dead connection is
\* noticed, by the socket if not by the ping.
Progress ==
    \/ Mount \/ Reconnect \/ Open \/ OnClose \/ OnMessage \/ SyncRead
    \/ \E s \in Sock : Server(s)

FairSpec == Spec /\ WF_vars(Progress)

-----------------------------------------------------------------------------
\* The properties.

\* The page is connected and nothing is on its way to it.
Quiet ==
    /\ conn # 0 /\ opened /\ link[conn] = "up"
    /\ wc[conn].stage = "pumping" /\ wc[conn].listed
    /\ wc[conn].send = <<>> /\ wire[conn] = <<>>
    /\ connectionId # 0 /\ ~syncing

Owner(s) == wc[s].stage \in Live \/ wc[s].listed

(* No two WebConns hold the queues of one connection id, whatever requests *)
(* race each other (RemoveInactiveByConnectionID takes out what it finds). *)
QueuesHaveOneOwner ==
    \A s, t \in Sock :
        s # t /\ Owner(s) /\ Owner(t) => wc[s].id # wc[t].id

(* What the page reads next carries the sequence number it expects: the    *)
(* resent part of the dead queue, the queue behind it and a new            *)
(* connection's hello fit together, and the mismatch branch of onmessage   *)
(* guards against what this server never does.                             *)
InStep ==
    conn # 0 /\ opened /\ wire[conn] # <<>> =>
        Head(wire[conn]).seq = Greeted(Head(wire[conn])).seq

(* A connected page that has caught up lacks no event but those broadcast  *)
(* before it was given a connection id or while its queues changed hands:  *)
(* full queues, reaped connections, restarts and overwritten dead queues   *)
(* all end in a new connection id and a reload.                            *)
LostOnlyInHandover ==
    Quiet => (1..posted) \ page \subseteq early \cup handover

(* The whole is a subscription: events in order, none twice, none passed   *)
(* over unless the page has it or is still to reload.                      *)
Sub == INSTANCE Subscription
         WITH posted <- posted, heard <- heard, page <- page, last <- last,
              syncing <- syncing
IsSubscription == Sub!Spec

(* Every event queued for the page's stream is shown by the page in the    *)
(* end, whatever connections are lost on the way.                          *)
EveryEventShown == <>[](heard \subseteq page)

(* web_conn.go:105-108 says of the dead queue that it serves to            *)
(* "resuscitate any messages that might have got lost when the connection  *)
(* is broken".                                                             *)
(* Between CheckConn and Register an event finds no connection to be       *)
(* queued for, and the sequence numbers do not show it.                    *)
NothingLostOnReconnect == Quiet => handover \subseteq page
=============================================================================
