------------------------------ MODULE VoiceRoom ------------------------------
(***************************************************************************)
(* The 3D voice room of one channel: the relay of server/room.go and the   *)
(* page that joins it (public/room/app.js).                                *)
(*                                                                         *)
(* A connection is one run of handleRoomWS with the page behind it.  The   *)
(* hub maps the channel to a room object; the handler looks the object up  *)
(* under the hub's lock and takes a seat in it under the room's lock, so   *)
(* the two are steps of their own, and a broadcast writes to the targets   *)
(* it has copied one by one, after the lock.  Room objects are numbered in *)
(* the order they are made.  A connection stands for its peer id, which is *)
(* unique in its room.                                                     *)
(***************************************************************************)
EXTENDS Naturals, Sequences, FiniteSets

CONSTANTS
    Conn,           \* connections to the channel's room
    RoomSlots,      \* humans per room (roomSlots)
    MaxLookups      \* bound: rosters and agent clips that look the room up

ASSUME RoomSlotsOK == RoomSlots \in Nat \ {0}
ASSUME LookupsOK == MaxLookups \in Nat

VARIABLES
    current,    \* the room object the hub maps the channel to, 0 for none
    nrooms,     \* room objects made so far
    inside,     \* the connections that are peers of the room they hold
    at,         \* how far a connection's handler has come
    held,       \* the room object a handler got from the hub
    slot,       \* the seat of a peer
    others,     \* the peers its welcome lists
    event,      \* what a handler is broadcasting or relaying
    todo,       \* the peers it has yet to write it to
    empty,      \* the leaver saw the room empty
    inbox,      \* events written to a page's WebSocket, not handled yet
    early,      \* history: <<c, d>> when c's peer-leave was written to d before
                \* d's welcome
    uplink,     \* the peers a page sends an offer to, not relayed yet
    knows,      \* the peers in a page's roster (peerSlot)
    pcs,        \* the peers a page has an RTCPeerConnection to
    lookups     \* rosters and clips so far

hubVars  == <<current, nrooms, lookups>>
seatVars == <<inside, slot, others>>
sendVars == <<event, todo, inbox, early>>
pageVars == <<uplink, knows, pcs>>
vars == <<hubVars, at, held, seatVars, empty, sendVars, pageVars>>

Seat == 0..(RoomSlots - 1)

TypeOK ==
    /\ current \in Nat /\ nrooms \in Nat /\ lookups \in Nat
    /\ inside \subseteq Conn
    /\ at \in [Conn -> {"away", "found", "seated", "welcomed", "present",
                        "left", "leaving", "done", "full"}]
    /\ held \in [Conn -> Nat]
    /\ slot \in [Conn -> Seat]
    /\ others \in [Conn -> SUBSET Conn]
    /\ event \in [Conn -> {"join", "offer", "leave"}]
    /\ todo \in [Conn -> SUBSET Conn]
    /\ empty \in [Conn -> BOOLEAN]
    /\ inbox \in [Conn -> Seq([type : {"welcome", "join", "offer", "leave"},
                               from : Conn])]
    /\ early \subseteq Conn \X Conn
    /\ uplink \in [Conn -> SUBSET Conn]
    /\ knows \in [Conn -> SUBSET Conn]
    /\ pcs \in [Conn -> SUBSET Conn]

Peers(r) == {c \in inside : held[c] = r}

Init ==
    /\ current = 0 /\ nrooms = 0 /\ lookups = 0
    /\ inside = {}
    /\ at = [c \in Conn |-> "away"]
    /\ held = [c \in Conn |-> 0]
    /\ slot = [c \in Conn |-> 0]
    /\ others = [c \in Conn |-> {}]
    /\ event = [c \in Conn |-> "join"]
    /\ todo = [c \in Conn |-> {}]
    /\ empty = [c \in Conn |-> FALSE]
    /\ inbox = [c \in Conn |-> <<>>]
    /\ early = {}
    /\ uplink = [c \in Conn |-> {}]
    /\ knows = [c \in Conn |-> {}]
    /\ pcs = [c \in Conn |-> {}]

-----------------------------------------------------------------------------
\* The handler.

\* The hub's room(): the room object of the channel, made if there is none.
FindRoom ==
    IF current = 0
    THEN current' = nrooms + 1 /\ nrooms' = nrooms + 1
    ELSE UNCHANGED <<current, nrooms>>

Enter(c) ==
    /\ at[c] = "away"
    /\ FindRoom
    /\ at' = [at EXCEPT ![c] = "found"]
    /\ held' = [held EXCEPT ![c] = current']
    /\ UNCHANGED <<lookups, seatVars, empty, sendVars, pageVars>>

\* handleRoomRoster, handleAgentSpeak: they make the room they look at.
LookUp ==
    /\ lookups < MaxLookups
    /\ lookups' = lookups + 1
    /\ FindRoom
    /\ UNCHANGED <<at, held, seatVars, empty, sendVars, pageVars>>

Used(r) == {slot[d] : d \in Peers(r)}

FreeSlot_OneMore(r, s) ==   \* mutant: s <= roomSlots
    /\ s \in (0..RoomSlots) \ Used(r)
    /\ \A u \in Seat : u < s => u \in Used(r)

FreeSlot_Count(r, s) ==   \* mutant: the peers are counted
    s = Cardinality(Peers(r)) /\ s \in Seat

\* The lowest free seat.
FreeSlot(r, s) ==
    /\ s \in Seat \ Used(r)
    /\ \A u \in Seat : u < s => u \in Used(r)

TurnAway(c) ==
    /\ at[c] = "found"
    /\ Seat \subseteq Used(held[c])
    /\ at' = [at EXCEPT ![c] = "full"]
    /\ UNCHANGED <<hubVars, held, seatVars, empty, sendVars, pageVars>>

SitDown(c) ==
    /\ at[c] = "found"
    /\ \E s \in 0..RoomSlots :
        /\ FreeSlot(held[c], s)
        /\ slot' = [slot EXCEPT ![c] = s]
    /\ inside' = inside \cup {c}
    /\ others' = [others EXCEPT ![c] = Peers(held[c])]
    /\ at' = [at EXCEPT ![c] = "seated"]
    /\ UNCHANGED <<hubVars, held, empty, sendVars, pageVars>>

Write(d, type, c) ==
    inbox' = [inbox EXCEPT ![d] = Append(@, [type |-> type, from |-> c])]

SendWelcome_Late(c) ==   \* mutant: the peers are listed after the lock
    /\ at[c] = "seated"
    /\ others' = [others EXCEPT ![c] = Peers(held[c]) \ {c}]
    /\ Write(c, "welcome", c)
    /\ at' = [at EXCEPT ![c] = "welcomed"]
    /\ UNCHANGED <<hubVars, held, inside, slot, empty, event, todo, early, pageVars>>

SendWelcome(c) ==
    /\ at[c] = "seated"
    /\ Write(c, "welcome", c)
    /\ at' = [at EXCEPT ![c] = "welcomed"]
    /\ UNCHANGED <<hubVars, held, seatVars, empty, event, todo, early, pageVars>>

\* broadcast: the targets are copied under the lock ...
Broadcast(c, type) ==
    /\ event' = [event EXCEPT ![c] = type]
    /\ todo' = [todo EXCEPT ![c] = Peers(held[c]) \ {c}]

AnnounceJoin(c) ==
    /\ at[c] = "welcomed"
    /\ Broadcast(c, "join")
    /\ at' = [at EXCEPT ![c] = "present"]
    /\ UNCHANGED <<hubVars, held, seatVars, empty, inbox, early, pageVars>>

\* ... and written to one by one after it.
Send(c, d) ==
    /\ d \in todo[c]
    /\ todo' = [todo EXCEPT ![c] = @ \ {d}]
    /\ Write(d, event[c], c)
    /\ early' = IF event[c] = "leave" /\ at[d] = "seated"
                THEN early \cup {<<c, d>>} ELSE early
    /\ UNCHANGED <<hubVars, at, held, seatVars, empty, event, pageVars>>

\* The read loop: a message for one peer goes to it, if it is still there.
Relay(c, d) ==
    /\ at[c] = "present" /\ todo[c] = {}
    /\ d \in uplink[c]
    /\ uplink' = [uplink EXCEPT ![c] = @ \ {d}]
    /\ event' = [event EXCEPT ![c] = "offer"]
    /\ todo' = [todo EXCEPT ![c] = Peers(held[c]) \cap {d}]
    /\ UNCHANGED <<hubVars, at, held, seatVars, empty, inbox, early, knows, pcs>>

SeesEmpty_Self(c) == Peers(held[c]) = {}   \* mutant: it counts itself

SeesEmpty(c) == Peers(held[c]) = {c}

\* The page closes; its handler notices when it next reads.
Leave(c) ==
    /\ at[c] = "present" /\ todo[c] = {}
    /\ at' = [at EXCEPT ![c] = "left"]
    /\ empty' = [empty EXCEPT ![c] = SeesEmpty(c)]
    /\ inside' = inside \ {c}
    /\ inbox' = [inbox EXCEPT ![c] = <<>>]
    /\ uplink' = [uplink EXCEPT ![c] = {}]
    /\ knows' = [knows EXCEPT ![c] = {}]
    /\ pcs' = [pcs EXCEPT ![c] = {}]
    /\ UNCHANGED <<hubVars, held, slot, others, event, todo, early>>

AnnounceLeave(c) ==
    /\ at[c] = "left"
    /\ Broadcast(c, "leave")
    /\ at' = [at EXCEPT ![c] = "leaving"]
    /\ UNCHANGED <<hubVars, held, seatVars, empty, inbox, early, pageVars>>

\* The entry is deleted by the channel's id, whichever room it is by now.
Finish(c) ==
    /\ at[c] = "leaving" /\ todo[c] = {}
    /\ current' = IF empty[c] THEN 0 ELSE current
    /\ at' = [at EXCEPT ![c] = "done"]
    /\ UNCHANGED <<nrooms, lookups, held, seatVars, empty, sendVars, pageVars>>

-----------------------------------------------------------------------------
\* The page.

\* It opens a connection to everyone who was there before it.
OnWelcome(c) ==
    /\ knows' = [knows EXCEPT ![c] = @ \cup others[c]]
    /\ pcs' = [pcs EXCEPT ![c] = @ \cup others[c]]
    /\ uplink' = [uplink EXCEPT ![c] = @ \cup others[c]]

OnJoin(c, d) ==
    /\ knows' = [knows EXCEPT ![c] = @ \cup {d}]
    /\ UNCHANGED <<pcs, uplink>>

OnOffer(c, d) ==
    /\ pcs' = [pcs EXCEPT ![c] = @ \cup {d}]
    /\ UNCHANGED <<knows, uplink>>

OnLeave_Called(c, d) ==   \* mutant: a connection it offered itself is not closed
    /\ knows' = [knows EXCEPT ![c] = @ \ {d}]
    /\ pcs' = [pcs EXCEPT ![c] = @ \ ({d} \ others[c])]
    /\ UNCHANGED uplink

OnLeave(c, d) ==
    /\ knows' = [knows EXCEPT ![c] = @ \ {d}]
    /\ pcs' = [pcs EXCEPT ![c] = @ \ {d}]
    /\ UNCHANGED uplink

Receive(c) ==
    /\ c \in inside /\ inbox[c] # <<>>
    /\ LET m == Head(inbox[c])
       IN  \/ m.type = "welcome" /\ OnWelcome(c)
           \/ m.type = "join"    /\ OnJoin(c, m.from)
           \/ m.type = "offer"   /\ OnOffer(c, m.from)
           \/ m.type = "leave"   /\ OnLeave(c, m.from)
    /\ inbox' = [inbox EXCEPT ![c] = Tail(@)]
    /\ UNCHANGED <<hubVars, at, held, seatVars, empty, event, todo, early>>

Next ==
    \/ LookUp
    \/ \E c \in Conn :
        \/ Enter(c) \/ TurnAway(c) \/ SitDown(c) \/ SendWelcome(c)
        \/ AnnounceJoin(c) \/ Leave(c) \/ AnnounceLeave(c) \/ Finish(c)
        \/ Receive(c)
        \/ \E d \in Conn : Send(c, d) \/ Relay(c, d)

Spec == Init /\ [][Next]_vars

-----------------------------------------------------------------------------
\* No two peers of a room share a seat, however joins and leaves interleave:
\* a seat freed between freeSlot and the insertion of the peer, or one that
\* is counted instead of searched for, would put two avatars in one place.
DistinctSeats ==
    \A c, d \in inside : held[c] = held[d] /\ slot[c] = slot[d] => c = d

\* Nothing that concerns the peer is under way any more.
Settled(c) ==
    at[c] = "present" /\ todo[c] = {} /\ inbox[c] = <<>> /\ uplink[c] = {}

\* The mesh closes: when two peers of a room have nothing left to send or to
\* handle, each has the other in its roster and a connection to it, and one
\* of the two, not both, made the offer.
MeshCloses ==
    \A c, d \in Conn :
        c # d /\ Settled(c) /\ Settled(d) /\ held[c] = held[d]
        => /\ d \in knows[c] /\ d \in pcs[c]
           /\ (d \in others[c]) # (c \in others[d])

\* A peer that has left stays in nobody's roster and leaves no open connection
\* behind, except where its peer-leave was written before the welcome that
\* lists it: a page that had the welcome first forgets the leaver.
GhostsOnlyFromWelcome ==
    \A c, d \in Conn :
        /\ Settled(d) /\ at[c] = "done"
        /\ c \in knows[d] \cup pcs[d]
        => c \in others[d] /\ <<c, d>> \in early

\* When nobody is on the way in, inside or on the way out, the hub has
\* forgotten the room, even if leavers deleted the entry of a room they were
\* not in.  (A roster or a clip makes a room nobody has to leave.)
RoomForgotten ==
    /\ lookups = 0
    /\ \A c \in Conn : at[c] \in {"away", "done", "full"}
    => current = 0

\* setup.go tells the channel that everyone in it shares the same room.
SharedRoom ==
    \A c, d \in Conn : at[c] = "present" /\ at[d] = "present" => held[c] = held[d]
=============================================================================
