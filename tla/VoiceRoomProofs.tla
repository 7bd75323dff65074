--------------------------- MODULE VoiceRoomProofs ---------------------------
(***************************************************************************)
(* What the voice room promises, for any number of connections and of      *)
(* seats.  DistinctSeats is not inductive alone: a handler that sits down  *)
(* must not already be inside, which is what InsideIsSeated adds.  A room  *)
(* is forgotten because whoever is inside keeps it (Keeps).  The mesh and  *)
(* the ghosts are about messages: MeshInv says at which place, between the *)
(* server's queue and the page's state, each of the three links of two     *)
(* peers is while it is due, and GhostInv that the leave of a peer follows *)
(* everything of it that a page has still to handle.                       *)
(***************************************************************************)
EXTENDS VoiceRoom, TLAPS

\* A peer of a room is a handler between sitting down and leaving.
InsideIsSeated == \A c \in inside : at[c] \in {"seated", "welcomed", "present"}

SeatInv == InsideIsSeated /\ DistinctSeats

\* The frame of the steps that touch neither seats nor rooms.
LEMMA SeatsKept ==
    ASSUME TypeOK, SeatInv, UNCHANGED <<held, inside, slot>>,
           \A c \in inside : at'[c] \in {"seated", "welcomed", "present"}
    PROVE  SeatInv'
  BY DEF TypeOK, SeatInv, InsideIsSeated, DistinctSeats

\* Every variable keeps its type.
THEOREM TypeCorrect == Spec => []TypeOK
<1>1. Init => TypeOK
  BY RoomSlotsOK DEF Init, TypeOK, Seat
<1>2. TypeOK /\ [Next]_vars => TypeOK'
  <2> SUFFICES ASSUME TypeOK, [Next]_vars PROVE TypeOK'
    OBVIOUS
  <2> USE DEF TypeOK, hubVars, seatVars, sendVars, pageVars
  <2>1. CASE LookUp
    <3>1. current' \in Nat /\ nrooms' \in Nat
      BY <2>1 DEF LookUp, FindRoom
    <3>2. lookups' \in Nat
      BY <2>1 DEF LookUp
    <3> QED
      BY <2>1, <3>1, <3>2 DEF LookUp
  <2>2. ASSUME NEW c \in Conn, Enter(c) PROVE TypeOK'
    BY <2>2 DEF Enter, FindRoom
  <2>3. ASSUME NEW c \in Conn, TurnAway(c) PROVE TypeOK'
    BY <2>3 DEF TurnAway
  <2>4. ASSUME NEW c \in Conn, SitDown(c) PROVE TypeOK'
    BY <2>4 DEF SitDown, FreeSlot, Peers
  <2>5. ASSUME NEW c \in Conn, SendWelcome(c) PROVE TypeOK'
    BY <2>5 DEF SendWelcome, Write
  <2>6. ASSUME NEW c \in Conn, AnnounceJoin(c) PROVE TypeOK'
    BY <2>6 DEF AnnounceJoin, Broadcast, Peers
  <2>7. ASSUME NEW c \in Conn, Leave(c) PROVE TypeOK'
    BY <2>7 DEF Leave, SeesEmpty
  <2>8. ASSUME NEW c \in Conn, AnnounceLeave(c) PROVE TypeOK'
    BY <2>8 DEF AnnounceLeave, Broadcast, Peers
  <2>9. ASSUME NEW c \in Conn, Finish(c) PROVE TypeOK'
    BY <2>9 DEF Finish
  <2>10. ASSUME NEW c \in Conn, Receive(c) PROVE TypeOK'
    <3> DEFINE Event == [type : {"welcome", "join", "offer", "leave"},
                         from : Conn]
    <3>1. inbox[c] \in Seq(Event) /\ inbox[c] # <<>>
      BY <2>10 DEF Receive
    <3>2. Head(inbox[c]) \in Event /\ Tail(inbox[c]) \in Seq(Event)
      <4> HIDE DEF Event
      <4> QED
        BY <3>1
    <3>3. Head(inbox[c]).from \in Conn
      BY <3>2
    <3>4. inbox' = [inbox EXCEPT ![c] = Tail(inbox[c])]
      BY <2>10 DEF Receive
    <3>5. inbox' \in [Conn -> Seq(Event)]
      BY <3>2, <3>4
    <3>6. /\ knows' \in [Conn -> SUBSET Conn]
          /\ pcs' \in [Conn -> SUBSET Conn]
          /\ uplink' \in [Conn -> SUBSET Conn]
      <4>1. PICK d \in Conn : \/ OnWelcome(c) \/ OnJoin(c, d)
                             \/ OnOffer(c, d) \/ OnLeave(c, d)
        BY <2>10, <3>3 DEF Receive
      <4>2. CASE OnWelcome(c)
        BY <4>2 DEF OnWelcome
      <4>3. CASE OnJoin(c, d)
        BY <4>3 DEF OnJoin
      <4>4. CASE OnOffer(c, d)
        BY <4>4 DEF OnOffer
      <4>5. CASE OnLeave(c, d)
        BY <4>5 DEF OnLeave
      <4> QED
        BY <4>1, <4>2, <4>3, <4>4, <4>5
    <3>7. UNCHANGED <<hubVars, at, held, seatVars, empty, event, todo, early>>
      BY <2>10 DEF Receive
    <3> QED
      BY <3>5, <3>6, <3>7
  <2>11. ASSUME NEW c \in Conn, NEW d \in Conn, Send(c, d) PROVE TypeOK'
    BY <2>11 DEF Send, Write
  <2>12. ASSUME NEW c \in Conn, NEW d \in Conn, Relay(c, d) PROVE TypeOK'
    BY <2>12 DEF Relay, Peers
  <2>13. CASE UNCHANGED vars
    BY <2>13 DEF vars
  <2> QED
    BY <2>1, <2>2, <2>3, <2>4, <2>5, <2>6, <2>7, <2>8, <2>9, <2>10, <2>11,
       <2>12, <2>13 DEF Next
<1> QED
  BY <1>1, <1>2, PTL DEF Spec

\* SitDown: the seat taken is used by no peer of the room, and the newcomer
\* was not a peer of any.
LEMMA SitDownKeepsSeats ==
    ASSUME TypeOK, SeatInv, NEW c \in Conn, SitDown(c)
    PROVE  SeatInv'
<1> USE DEF TypeOK, SeatInv
<1>1. c \notin inside
  BY DEF SitDown, InsideIsSeated
<1>2. PICK s \in 0..RoomSlots : FreeSlot(held[c], s) /\ slot' = [slot EXCEPT ![c] = s]
  BY DEF SitDown
<1>3. \A d \in inside : held[d] = held[c] => slot[d] # s
  BY <1>2 DEF FreeSlot, Used, Peers
<1>4. held' = held /\ inside' = inside \cup {c}
  BY DEF SitDown
<1>5. \A d \in inside : slot'[d] = slot[d]
  BY <1>1, <1>2
<1>6. slot'[c] = s
  BY <1>2
<1>7. DistinctSeats'
  BY <1>1, <1>3, <1>4, <1>5, <1>6 DEF DistinctSeats
<1>8. InsideIsSeated'
  BY <1>4 DEF SitDown, InsideIsSeated
<1> QED
  BY <1>7, <1>8

\* Every step keeps the seats apart.
LEMMA SeatsAlways == Spec => [](TypeOK /\ SeatInv)
<1>1. Init => SeatInv
  BY DEF Init, SeatInv, InsideIsSeated, DistinctSeats
<1>2. TypeOK /\ SeatInv /\ [Next]_vars => SeatInv'
  <2> SUFFICES ASSUME TypeOK, SeatInv, [Next]_vars PROVE SeatInv'
    OBVIOUS
  <2> USE DEF hubVars, seatVars, sendVars, pageVars
  <2>1. ASSUME NEW c \in Conn, Enter(c) PROVE SeatInv'
    <3>1. c \notin inside
      BY <2>1 DEF SeatInv, InsideIsSeated, Enter
    <3>2. \A d \in inside : at'[d] = at[d] /\ held'[d] = held[d]
      BY <2>1, <3>1 DEF Enter, TypeOK
    <3> QED
      BY <2>1, <3>2 DEF Enter, SeatInv, InsideIsSeated, DistinctSeats
  <2>2. ASSUME NEW c \in Conn, SitDown(c) PROVE SeatInv'
    BY <2>2, SitDownKeepsSeats
  <2>3. ASSUME NEW c \in Conn, Leave(c) PROVE SeatInv'
    <3>1. inside' = inside \ {c} /\ held' = held /\ slot' = slot
      BY <2>3 DEF Leave
    <3>2. \A d \in inside' : at'[d] = at[d]
      BY <2>3, <3>1 DEF Leave, TypeOK
    <3>3. DistinctSeats'
      BY <3>1 DEF SeatInv, DistinctSeats
    <3>4. InsideIsSeated'
      BY <3>1, <3>2 DEF SeatInv, InsideIsSeated
    <3> QED
      BY <3>3, <3>4 DEF SeatInv
  <2>4. CASE LookUp
    BY <2>4, SeatsKept DEF LookUp, SeatInv, InsideIsSeated
  <2>5. ASSUME NEW c \in Conn,
               TurnAway(c) \/ AnnounceLeave(c) \/ Finish(c)
        PROVE  SeatInv'
    <3>1. c \notin inside
      BY <2>5 DEF TurnAway, AnnounceLeave, Finish, SeatInv, InsideIsSeated
    <3>2. \A d \in inside : at'[d] = at[d]
      BY <2>5, <3>1 DEF TurnAway, AnnounceLeave, Finish, TypeOK
    <3> QED
      BY <2>5, <3>2, SeatsKept
      DEF TurnAway, AnnounceLeave, Finish, SeatInv, InsideIsSeated
  <2>6. ASSUME NEW c \in Conn, SendWelcome(c) \/ AnnounceJoin(c)
        PROVE  SeatInv'
    <3>1. \A d \in inside : at'[d] \in {"seated", "welcomed", "present"}
      BY <2>6 DEF SendWelcome, AnnounceJoin, TypeOK, SeatInv, InsideIsSeated
    <3> QED
      BY <2>6, <3>1, SeatsKept DEF SendWelcome, AnnounceJoin
  <2>7. ASSUME NEW c \in Conn, NEW d \in Conn,
               Send(c, d) \/ Relay(c, d)
        PROVE  SeatInv'
    BY <2>7, SeatsKept DEF Send, Relay, SeatInv, InsideIsSeated
  <2>8. CASE UNCHANGED vars
    BY <2>8, SeatsKept DEF vars, SeatInv, InsideIsSeated
  <2>9. ASSUME NEW c \in Conn, Receive(c) PROVE SeatInv'
    BY <2>9, SeatsKept DEF Receive, SeatInv, InsideIsSeated
  <2> QED
    BY <2>1, <2>2, <2>3, <2>4, <2>5, <2>6, <2>7, <2>8, <2>9 DEF Next
<1> QED
  BY <1>1, <1>2, TypeCorrect, PTL DEF Spec

\* No two peers of a room share a seat, however many join and leave at once.
THEOREM SeatsDistinct == Spec => []DistinctSeats
<1>1. SeatInv => DistinctSeats
  BY DEF SeatInv
<1> QED
  BY <1>1, SeatsAlways, PTL

-----------------------------------------------------------------------------
(***************************************************************************)
(* The hub's entry.  As long as it is there, someone will see to it: a     *)
(* handler that is on its way into that room or a peer of it, or a leaver  *)
(* that found its room empty, whichever room that was.                     *)
(***************************************************************************)
Keeps(c) ==
    \/ at[c] \in {"found", "seated", "welcomed", "present"} /\ held[c] = current
    \/ at[c] \in {"left", "leaving"} /\ empty[c]

KeptInv ==
    /\ \A c \in Conn : at[c] \in {"seated", "welcomed", "present"} => c \in inside
    /\ lookups = 0 /\ current # 0 => \E c \in Conn : Keeps(c)

LEMMA KeptStep == TypeOK /\ SeatInv /\ KeptInv /\ [Next]_vars => KeptInv'
<1> SUFFICES ASSUME TypeOK, SeatInv, KeptInv, [Next]_vars PROVE KeptInv'
  OBVIOUS
<1> USE DEF TypeOK, KeptInv, hubVars, seatVars, sendVars, pageVars
<1>1. CASE LookUp
  BY <1>1 DEF LookUp
<1>2. ASSUME NEW c \in Conn, Enter(c) PROVE KeptInv'
  <2>1. Keeps(c)'
    BY <1>2 DEF Enter, Keeps
  <2> QED
    BY <1>2, <2>1 DEF Enter
<1>3. ASSUME NEW c \in Conn, TurnAway(c) PROVE KeptInv'
  <2>1. ASSUME lookups = 0, current # 0 PROVE \E e \in Conn : Keeps(e)'
    <3>1. PICK e \in Conn : Keeps(e)
      BY <2>1
    <3>2. CASE e = c
      <4>1. PICK d \in inside : held[d] = held[c]
        BY <1>3, RoomSlotsOK DEF TurnAway, Used, Peers, Seat
      <4>2. at[d] \in {"seated", "welcomed", "present"} /\ held[d] = current
        BY <1>3, <3>1, <3>2, <4>1 DEF TurnAway, Keeps, SeatInv, InsideIsSeated
      <4>3. Keeps(d)'
        BY <1>3, <4>1, <4>2 DEF TurnAway, Keeps
      <4> QED
        BY <4>1, <4>3
    <3>3. CASE e # c
      BY <1>3, <3>1, <3>3 DEF TurnAway, Keeps
    <3> QED
      BY <3>2, <3>3
  <2> QED
    BY <1>3, <2>1 DEF TurnAway
<1>4. ASSUME NEW c \in Conn, SitDown(c) PROVE KeptInv'
  BY <1>4 DEF SitDown, Keeps
<1>5. ASSUME NEW c \in Conn, SendWelcome(c) \/ AnnounceJoin(c) PROVE KeptInv'
  BY <1>5 DEF SendWelcome, AnnounceJoin, Keeps
<1>6. ASSUME NEW c \in Conn, Leave(c) PROVE KeptInv'
  <2>1. \A d \in Conn : at'[d] \in {"seated", "welcomed", "present"} => d \in inside'
    BY <1>6 DEF Leave
  <2>2. ASSUME lookups = 0, current # 0 PROVE \E e \in Conn : Keeps(e)'
    <3>1. PICK e \in Conn : Keeps(e)
      BY <2>2
    <3>2. CASE e # c
      BY <1>6, <3>1, <3>2 DEF Leave, Keeps
    <3>3. CASE e = c /\ SeesEmpty(c)
      <4>1. empty'[c] /\ at'[c] = "left"
        BY <1>6, <3>3 DEF Leave
      <4> QED
        BY <4>1 DEF Keeps
    <3>4. CASE e = c /\ ~SeesEmpty(c)
      <4>1. c \in Peers(held[c])
        BY <1>6 DEF Leave, Peers
      <4>2. PICK d \in inside : d # c /\ held[d] = held[c]
        BY <3>4, <4>1 DEF SeesEmpty, Peers
      <4>3. at[d] \in {"seated", "welcomed", "present"} /\ held[d] = current
        BY <1>6, <3>1, <3>4, <4>2 DEF Leave, Keeps, SeatInv, InsideIsSeated
      <4>4. Keeps(d)'
        BY <1>6, <4>2, <4>3 DEF Leave, Keeps
      <4> QED
        BY <4>2, <4>4
    <3> QED
      BY <3>2, <3>3, <3>4
  <2> QED
    BY <1>6, <2>1, <2>2 DEF Leave
<1>7. ASSUME NEW c \in Conn, AnnounceLeave(c) PROVE KeptInv'
  BY <1>7 DEF AnnounceLeave, Keeps
<1>8. ASSUME NEW c \in Conn, Finish(c) PROVE KeptInv'
  <2>1. CASE empty[c]
    BY <1>8, <2>1 DEF Finish
  <2>2. CASE ~empty[c]
    BY <1>8, <2>2 DEF Finish, Keeps
  <2> QED
    BY <2>1, <2>2
<1>9. ASSUME NEW c \in Conn, NEW d \in Conn, Send(c, d) \/ Relay(c, d)
      PROVE  KeptInv'
  BY <1>9 DEF Send, Relay, Keeps
<1>10. ASSUME NEW c \in Conn, Receive(c) PROVE KeptInv'
  BY <1>10 DEF Receive, Keeps
<1>11. CASE UNCHANGED vars
  BY <1>11 DEF vars, Keeps
<1> QED
  BY <1>1, <1>2, <1>3, <1>4, <1>5, <1>6, <1>7, <1>8, <1>9, <1>10, <1>11 DEF Next

\* A room that nobody is on the way into, in or on the way out of is forgotten
\* by the hub, though a leaver may delete the entry of another room.
THEOREM RoomsAreForgotten == Spec => []RoomForgotten
<1>1. Init => KeptInv
  BY DEF Init, KeptInv
<1>2. KeptInv => RoomForgotten
  BY DEF KeptInv, Keeps, RoomForgotten
<1> QED
  BY <1>1, <1>2, KeptStep, SeatsAlways, PTL DEF Spec

-----------------------------------------------------------------------------
(***************************************************************************)
(* The mesh.  A newcomer's welcome lists the peers it found, so of any two *)
(* peers of a room exactly one lists the other, and it is the lister's     *)
(* welcome, join and offer that must find their way: MeshInv says, for     *)
(* each of the three, where on its way it is.  What may undo them is a     *)
(* leave, hence LeaveInv; and nothing crosses from one room object to      *)
(* another, hence LinkedInv.                                               *)
(***************************************************************************)
Kind == {"welcome", "join", "offer", "leave"}

\* The handler has sat down; it may have left since.
Entered(c) == at[c] \notin {"away", "found", "full"}

\* A message of this kind from c is in d's inbox.
Has(d, kind, c) ==
    \E i \in 1..Len(inbox[d]) : inbox[d][i].type = kind /\ inbox[d][i].from = c

\* Something of c has got to d, or is to get there.
Linked(c, d) ==
    \/ c \in knows[d] \cup pcs[d] \cup uplink[d] \cup others[d]
    \/ d \in todo[c]
    \/ \E kind \in Kind : Has(d, kind, c)

LinkedInv ==
    \A c, d \in Conn :
        Linked(c, d) => Entered(c) /\ Entered(d) /\ held[c] = held[d]

SendingInv ==
    \A c \in Conn :
        /\ todo[c] # {} => at[c] \in {"present", "leaving"}
        /\ at[c] = "present" => event[c] \in {"join", "offer"}
        /\ at[c] = "leaving" => event[c] = "leave"

LeaveInv ==
    \A c, d \in Conn : Has(d, "leave", c) => at[c] \in {"leaving", "done"}

OneLists ==
    \A c, d \in inside :
        c # d /\ held[c] = held[d] => (d \in others[c]) # (c \in others[d])

WelcomeDue(c, d) ==
    Has(c, "welcome", c) \/ (d \in knows[c] /\ d \in pcs[c])

JoinDue(c, d) ==
    c \in knows[d] \/ Has(d, "join", c) \/ (event[c] = "join" /\ d \in todo[c])

OfferDue(c, d) ==
    \/ c \in pcs[d] \/ Has(d, "offer", c) \/ (event[c] = "offer" /\ d \in todo[c])
    \/ d \in uplink[c] \/ Has(c, "welcome", c)

MeshInv ==
    \A c, d \in inside : d \in others[c] =>
        /\ c # d
        /\ at[c] # "seated" => WelcomeDue(c, d) /\ OfferDue(c, d)
        /\ at[c] = "present" => JoinDue(c, d)

LinksInv == LinkedInv /\ SendingInv /\ LeaveInv

\* What a write does to the inboxes.
LEMMA AfterWrite ==
    ASSUME TypeOK, NEW c \in Conn, NEW d \in Conn, NEW kind \in Kind,
           Write(d, kind, c)
    PROVE  /\ \A x \in Conn \ {d} : inbox'[x] = inbox[x]
           /\ Len(inbox[d]) \in Nat
           /\ Len(inbox'[d]) = Len(inbox[d]) + 1
           /\ \A i \in 1..Len(inbox[d]) : inbox'[d][i] = inbox[d][i]
           /\ inbox'[d][Len(inbox[d]) + 1] = [type |-> kind, from |-> c]
<1> DEFINE Event == [type : Kind, from : Conn]
           new == [type |-> kind, from |-> c]
<1>1. new \in Event
  OBVIOUS
<1>2. inbox[d] \in Seq(Event) /\ inbox \in [Conn -> Seq(Event)]
  BY DEF TypeOK, Kind
<1>3. inbox' = [inbox EXCEPT ![d] = Append(inbox[d], new)]
  BY DEF Write
<1> HIDE DEF Event, new
<1>4. inbox'[d] = Append(inbox[d], new) /\ \A x \in Conn \ {d} : inbox'[x] = inbox[x]
  BY <1>2, <1>3
<1>5. /\ Len(inbox[d]) \in Nat
      /\ Len(Append(inbox[d], new)) = Len(inbox[d]) + 1
      /\ \A i \in 1..Len(inbox[d]) : Append(inbox[d], new)[i] = inbox[d][i]
      /\ Append(inbox[d], new)[Len(inbox[d]) + 1] = new
  BY <1>1, <1>2
<1> QED
  BY <1>4, <1>5 DEF new

LEMMA HasAfterWrite ==
    ASSUME TypeOK, NEW c \in Conn, NEW d \in Conn, NEW kind \in Kind,
           Write(d, kind, c), NEW x \in Conn, NEW k, NEW y
    PROVE  Has(x, k, y)' <=> Has(x, k, y) \/ (x = d /\ k = kind /\ y = c)
<1>1. CASE x # d
  <2>1. \A z \in Conn \ {d} : inbox'[z] = inbox[z]
    BY AfterWrite
  <2>2. inbox'[x] = inbox[x]
    BY <1>1, <2>1
  <2> QED
    BY <1>1, <2>2 DEF Has
<1>2. CASE x = d
  <2> DEFINE n == Len(inbox[d])
  <2>1. /\ n \in Nat /\ Len(inbox'[d]) = n + 1
        /\ \A i \in 1..n : inbox'[d][i] = inbox[d][i]
        /\ inbox'[d][n + 1] = [type |-> kind, from |-> c]
    BY AfterWrite
  <2>2. Has(d, k, y)' <=> \E i \in 1..(n + 1) : inbox'[d][i].type = k /\ inbox'[d][i].from = y
    BY <2>1 DEF Has
  <2>3. Has(d, k, y) <=> \E i \in 1..n : inbox[d][i].type = k /\ inbox[d][i].from = y
    BY DEF Has
  <2> HIDE DEF n
  <2>4. \A i \in 1..(n + 1) : i \in 1..n \/ i = n + 1
    BY <2>1
  <2>5. n + 1 \in 1..(n + 1) /\ 1..n \subseteq 1..(n + 1)
    BY <2>1
  <2> QED
    BY <1>2, <2>1, <2>2, <2>3, <2>4, <2>5
<1> QED
  BY <1>1, <1>2

\* Handling a message takes it off the front of the inbox.
LEMMA AfterReceive ==
    ASSUME TypeOK, NEW c \in Conn, Receive(c)
    PROVE  /\ \A x \in Conn \ {c} : inbox'[x] = inbox[x]
           /\ Len(inbox[c]) \in Nat \ {0}
           /\ Len(inbox'[c]) = Len(inbox[c]) - 1
           /\ \A i \in 1..(Len(inbox[c]) - 1) : inbox'[c][i] = inbox[c][i + 1]
           /\ Head(inbox[c]) = inbox[c][1]
           /\ inbox[c][1] \in [type : Kind, from : Conn]
<1> DEFINE Event == [type : Kind, from : Conn]
<1>1. inbox[c] \in Seq(Event) /\ inbox \in [Conn -> Seq(Event)] /\ inbox[c] # <<>>
  BY DEF TypeOK, Kind, Receive
<1>2. inbox' = [inbox EXCEPT ![c] = Tail(inbox[c])]
  BY DEF Receive
<1> HIDE DEF Event
<1>3. inbox'[c] = Tail(inbox[c]) /\ \A x \in Conn \ {c} : inbox'[x] = inbox[x]
  BY <1>1, <1>2
<1>4. /\ Len(inbox[c]) \in Nat \ {0}
      /\ Len(Tail(inbox[c])) = Len(inbox[c]) - 1
      /\ \A i \in 1..(Len(inbox[c]) - 1) : Tail(inbox[c])[i] = inbox[c][i + 1]
      /\ Head(inbox[c]) = inbox[c][1]
      /\ inbox[c][1] \in Event
  BY <1>1
<1> QED
  BY <1>3, <1>4 DEF Event

LEMMA HasAfterReceive ==
    ASSUME TypeOK, NEW c \in Conn, Receive(c), NEW x \in Conn, NEW k, NEW y
    PROVE  /\ Has(x, k, y)' => Has(x, k, y)
           /\ Has(x, k, y) => \/ Has(x, k, y)'
                              \/ x = c /\ Head(inbox[c]).type = k /\ Head(inbox[c]).from = y
<1>1. CASE x # c
  <2>1. \A z \in Conn \ {c} : inbox'[z] = inbox[z]
    BY AfterReceive
  <2>2. inbox'[x] = inbox[x]
    BY <1>1, <2>1
  <2> QED
    BY <2>2 DEF Has
<1>2. CASE x = c
  <2> DEFINE n == Len(inbox[c])
  <2>1. /\ n \in Nat \ {0} /\ Len(inbox'[c]) = n - 1
        /\ \A i \in 1..(n - 1) : inbox'[c][i] = inbox[c][i + 1]
        /\ Head(inbox[c]) = inbox[c][1]
    BY AfterReceive
  <2>2. Has(c, k, y)' <=> \E i \in 1..(n - 1) : inbox[c][i + 1].type = k /\ inbox[c][i + 1].from = y
    BY <2>1 DEF Has
  <2>3. Has(c, k, y) <=> \E i \in 1..n : inbox[c][i].type = k /\ inbox[c][i].from = y
    BY DEF Has
  <2> HIDE DEF n
  <2>4. \A i \in 1..(n - 1) : i + 1 \in 1..n
    BY <2>1
  <2>5. \A i \in 1..n : i = 1 \/ (i - 1 \in 1..(n - 1) /\ i = (i - 1) + 1)
    BY <2>1
  <2> QED
    BY <1>2, <2>1, <2>2, <2>3, <2>4, <2>5
<1> QED
  BY <1>1, <1>2

LEMMA HeadIsHad ==
    ASSUME TypeOK, NEW c \in Conn, Receive(c)
    PROVE  /\ Head(inbox[c]).type \in Kind
           /\ Head(inbox[c]).from \in Conn
           /\ Has(c, Head(inbox[c]).type, Head(inbox[c]).from)
<1>1. /\ Len(inbox[c]) \in Nat \ {0} /\ Head(inbox[c]) = inbox[c][1]
      /\ inbox[c][1] \in [type : Kind, from : Conn]
  BY AfterReceive
<1>2. 1 \in 1..Len(inbox[c])
  BY <1>1
<1> QED
  BY <1>1, <1>2 DEF Has

\* Who has sat down stays so, and keeps the room object it got.
LEMMA EnteredStays ==
    ASSUME TypeOK, [Next]_vars, NEW c \in Conn, Entered(c)
    PROVE  Entered(c)' /\ held'[c] = held[c]
<1> USE DEF Entered, TypeOK
<1>1. ASSUME NEW x \in Conn, Enter(x) PROVE Entered(c)' /\ held'[c] = held[c]
  BY <1>1 DEF Enter
<1>2. ASSUME NEW x \in Conn,
             TurnAway(x) \/ SitDown(x) \/ SendWelcome(x) \/ AnnounceJoin(x)
             \/ Leave(x) \/ AnnounceLeave(x) \/ Finish(x)
      PROVE  Entered(c)' /\ held'[c] = held[c]
  BY <1>2 DEF TurnAway, SitDown, SendWelcome, AnnounceJoin, Leave,
              AnnounceLeave, Finish
<1>3. CASE UNCHANGED <<at, held>>
  BY <1>3
<1> QED
  BY <1>1, <1>2, <1>3 DEF Next, vars, LookUp, Receive, Send, Relay

\* What a page, a message or a handler has of a peer stays in one room object.
LEMMA LinkedStep ==
    ASSUME TypeOK, SeatInv, KeptInv, LinksInv, [Next]_vars
    PROVE  LinkedInv'
<1> DEFINE Fine(c, d) == Linked(c, d) \/ (Entered(c)' /\ Entered(d)' /\ held'[c] = held'[d])
<1> SUFFICES ASSUME NEW c \in Conn, NEW d \in Conn, Linked(c, d)'
             PROVE  Fine(c, d)
  BY EnteredStays DEF LinksInv, LinkedInv
<1> USE DEF TypeOK, hubVars, seatVars, sendVars, pageVars
<1>1. CASE UNCHANGED <<knows, pcs, uplink, others, todo, inbox>>
  BY <1>1 DEF Linked, Has
<1>2. ASSUME NEW x \in Conn, SitDown(x) PROVE Fine(c, d)
  <2>1. CASE d # x
    BY <1>2, <2>1 DEF SitDown, Linked, Has
  <2>2. CASE d = x /\ c \in Peers(held[x])
    BY <1>2, <2>2 DEF SitDown, Peers, SeatInv, InsideIsSeated, Entered
  <2>3. CASE d = x /\ c \notin Peers(held[x])
    BY <1>2, <2>3 DEF SitDown, Linked, Has
  <2> QED
    BY <2>1, <2>2, <2>3
<1>3. ASSUME NEW x \in Conn, SendWelcome(x) PROVE Fine(c, d)
  <2>1. CASE c = x /\ d = x
    BY <1>3, <2>1 DEF SendWelcome, Entered
  <2>2. CASE ~(c = x /\ d = x)
    <3>1. "welcome" \in Kind
      BY DEF Kind
    <3>2. \A k \in Kind : Has(d, k, c)' => Has(d, k, c)
      BY <1>3, <2>2, <3>1, HasAfterWrite DEF SendWelcome
    <3> QED
      BY <1>3, <3>2 DEF SendWelcome, Linked
  <2> QED
    BY <2>1, <2>2
<1>4. ASSUME NEW x \in Conn, NEW y \in Conn,
             AnnounceJoin(x) \/ AnnounceLeave(x) \/ Relay(x, y)
      PROVE  Fine(c, d)
  <2>1. /\ \A z \in Conn : z # x => todo'[z] = todo[z]
        /\ todo'[x] \subseteq Peers(held[x])
        /\ UNCHANGED <<knows, pcs, others, inbox, held>>
        /\ Entered(x)'
    <3>1. CASE AnnounceJoin(x)
      BY <3>1 DEF AnnounceJoin, Broadcast, Entered
    <3>2. CASE AnnounceLeave(x)
      BY <3>2 DEF AnnounceLeave, Broadcast, Entered
    <3>3. CASE Relay(x, y)
      BY <3>3 DEF Relay, Entered
    <3> QED
      BY <1>4, <3>1, <3>2, <3>3
  <2>2. uplink'[d] \subseteq uplink[d]
    <3>1. CASE UNCHANGED uplink
      BY <3>1
    <3>2. CASE Relay(x, y)
      BY <3>2 DEF Relay
    <3> QED
      BY <1>4, <3>1, <3>2 DEF AnnounceJoin, AnnounceLeave
  <2>3. \A z \in Peers(held[x]) : Entered(z) /\ held[z] = held[x]
    BY DEF Peers, SeatInv, InsideIsSeated, Entered
  <2>4. \A z \in Peers(held[x]) : Entered(z)' /\ held'[z] = held'[x]
    BY <2>1, <2>3, EnteredStays DEF Peers
  <2> QED
    BY <2>1, <2>2, <2>4 DEF Linked, Has
<1>5. ASSUME NEW x \in Conn, NEW y \in Conn, Send(x, y) PROVE Fine(c, d)
  <2>1. event[x] \in Kind
    BY DEF Kind
  <2>2. \A k \in Kind : Has(d, k, c)' => Has(d, k, c) \/ (c = x /\ d = y)
    BY <1>5, <2>1, HasAfterWrite DEF Send
  <2>3. Linked(x, y)
    BY <1>5 DEF Send, Linked
  <2> QED
    BY <1>5, <2>2, <2>3 DEF Send, Linked
<1>6. ASSUME NEW x \in Conn, Leave(x) PROVE Fine(c, d)
  BY <1>6 DEF Leave, Linked, Has
<1>7. ASSUME NEW x \in Conn, Receive(x) PROVE Fine(c, d)
  <2>1. \A k \in Kind : Has(d, k, c)' => Has(d, k, c)
    BY <1>7, HasAfterReceive
  <2>2. UNCHANGED <<others, todo>>
    BY <1>7 DEF Receive
  <2> DEFINE from == Head(inbox[x]).from
  <2>3. from \in Conn /\ Linked(from, x)
    BY <1>7, HeadIsHad DEF Linked
  <2>4. /\ knows'[d] \subseteq knows[d] \cup (IF d = x THEN others[x] \cup {from} ELSE {})
        /\ pcs'[d] \subseteq pcs[d] \cup (IF d = x THEN others[x] \cup {from} ELSE {})
        /\ uplink'[d] \subseteq uplink[d] \cup others[d]
    <3>1. from \in Conn
      BY <2>3
    <3>2. OnWelcome(x) \/ OnJoin(x, from) \/ OnOffer(x, from) \/ OnLeave(x, from)
      BY <1>7 DEF Receive
    <3> HIDE DEF from
    <3> QED
      BY <3>1, <3>2 DEF OnWelcome, OnJoin, OnOffer, OnLeave
  <2> QED
    BY <2>1, <2>2, <2>3, <2>4 DEF Linked
<1> QED
  BY <1>1, <1>2, <1>3, <1>4, <1>5, <1>6, <1>7
  DEF Next, vars, LookUp, Enter, TurnAway, Finish

\* A handler is in the middle of a broadcast only while its peer is present or
\* just gone, and what it broadcasts says which of the two.
LEMMA SendingStep ==
    ASSUME TypeOK, SendingInv, [Next]_vars
    PROVE  SendingInv'
<1> USE DEF TypeOK, SendingInv, hubVars, seatVars, sendVars, pageVars
<1>1. ASSUME NEW x \in Conn,
             Enter(x) \/ TurnAway(x) \/ SitDown(x) \/ SendWelcome(x) \/ Finish(x)
      PROVE  SendingInv'
  <2>1. CASE Enter(x) \/ TurnAway(x)
    BY <2>1 DEF Enter, TurnAway
  <2>2. CASE SitDown(x)
    BY <2>2 DEF SitDown
  <2>3. CASE SendWelcome(x) \/ Finish(x)
    BY <2>3 DEF SendWelcome, Finish
  <2> QED
    BY <1>1, <2>1, <2>2, <2>3
<1>2. ASSUME NEW x \in Conn, AnnounceJoin(x) PROVE SendingInv'
  BY <1>2 DEF AnnounceJoin, Broadcast
<1>3. ASSUME NEW x \in Conn, AnnounceLeave(x) PROVE SendingInv'
  BY <1>3 DEF AnnounceLeave, Broadcast
<1>4. ASSUME NEW x \in Conn, Leave(x) PROVE SendingInv'
  BY <1>4 DEF Leave
<1>5. ASSUME NEW x \in Conn, NEW y \in Conn, Send(x, y) PROVE SendingInv'
  BY <1>5 DEF Send
<1>6. ASSUME NEW x \in Conn, NEW y \in Conn, Relay(x, y) PROVE SendingInv'
  BY <1>6 DEF Relay
<1>7. CASE UNCHANGED <<at, event, todo>>
  BY <1>7
<1> QED
  BY <1>1, <1>2, <1>3, <1>4, <1>5, <1>6, <1>7 DEF Next, vars, LookUp, Receive

\* A peer whose leave is under way does not come back.
LEMMA LeaveStep ==
    ASSUME TypeOK, LinksInv, [Next]_vars
    PROVE  LeaveInv'
<1> SUFFICES ASSUME NEW c \in Conn, NEW d \in Conn, Has(d, "leave", c)'
             PROVE  at'[c] \in {"leaving", "done"}
  BY DEF LeaveInv
<1> USE DEF TypeOK, hubVars, seatVars, sendVars, pageVars
<1>1. ASSUME Has(d, "leave", c) PROVE at'[c] \in {"leaving", "done"}
  <2>1. at[c] \in {"leaving", "done"}
    BY <1>1 DEF LinksInv, LeaveInv
  <2>2. CASE at' = at
    BY <2>1, <2>2
  <2>3. ASSUME NEW x \in Conn,
               Enter(x) \/ TurnAway(x) \/ SitDown(x) \/ SendWelcome(x)
               \/ AnnounceJoin(x) \/ Leave(x) \/ AnnounceLeave(x) \/ Finish(x)
        PROVE  at'[c] \in {"leaving", "done"}
    BY <2>1, <2>3 DEF Enter, TurnAway, SitDown, SendWelcome, AnnounceJoin,
                      Leave, AnnounceLeave, Finish
  <2> QED
    BY <2>2, <2>3 DEF Next, vars, LookUp, Receive, Send, Relay
<1>2. ASSUME NEW x \in Conn, SendWelcome(x) PROVE Has(d, "leave", c)
  <2>1. "welcome" \in Kind
    BY DEF Kind
  <2> QED
    BY <1>2, <2>1, HasAfterWrite DEF SendWelcome
<1>3. ASSUME NEW x \in Conn, NEW y \in Conn, Send(x, y)
      PROVE  Has(d, "leave", c) \/ at'[c] = "leaving"
  <2>1. event[x] \in Kind
    BY DEF Kind
  <2>2. Has(d, "leave", c) \/ (c = x /\ event[x] = "leave")
    BY <1>3, <2>1, HasAfterWrite DEF Send
  <2>3. event[x] = "leave" => at[x] = "leaving"
    BY <1>3 DEF Send, LinksInv, SendingInv
  <2> QED
    BY <1>3, <2>2, <2>3 DEF Send
<1>4. ASSUME NEW x \in Conn, Receive(x) PROVE Has(d, "leave", c)
  BY <1>4, HasAfterReceive
<1>5. ASSUME NEW x \in Conn, Leave(x) PROVE Has(d, "leave", c)
  BY <1>5 DEF Leave, Has
<1>6. CASE UNCHANGED inbox
  BY <1>1, <1>6 DEF Has
<1> QED
  BY <1>1, <1>2, <1>3, <1>4, <1>5, <1>6
  DEF Next, vars, LookUp, Enter, TurnAway, SitDown, AnnounceJoin,
      AnnounceLeave, Finish, Relay

\* Of two peers of a room the later one lists the earlier one.
LEMMA OneListsStep ==
    ASSUME TypeOK, SeatInv, LinksInv, OneLists, [Next]_vars
    PROVE  OneLists'
<1> USE DEF TypeOK, hubVars, seatVars, sendVars, pageVars
<1>1. ASSUME NEW x \in Conn, SitDown(x) PROVE OneLists'
  <2>1. x \notin inside /\ inside' = inside \cup {x} /\ held' = held
    BY <1>1 DEF SitDown, SeatInv, InsideIsSeated
  <2>2. others'[x] = Peers(held[x]) /\ \A z \in Conn \ {x} : others'[z] = others[z]
    BY <1>1 DEF SitDown
  <2>3. \A z \in Conn : x \notin others[z]
    BY <1>1 DEF SitDown, LinksInv, LinkedInv, Linked, Entered
  <2>4. inside \subseteq Conn
    OBVIOUS
  <2>5. \A z \in inside : held[z] = held[x] => z \in others'[x] /\ x \notin others'[z]
    BY <2>1, <2>2, <2>3, <2>4 DEF Peers
  <2> QED
    BY <2>1, <2>2, <2>4, <2>5 DEF OneLists
<1>2. ASSUME NEW x \in Conn, Enter(x) PROVE OneLists'
  <2>1. \A d \in inside : held'[d] = held[d]
    BY <1>2 DEF SeatInv, InsideIsSeated, Enter
  <2> QED
    BY <1>2, <2>1 DEF Enter, OneLists
<1>3. CASE inside' \subseteq inside /\ UNCHANGED <<held, others>>
  BY <1>3 DEF OneLists
<1> QED
  BY <1>1, <1>2, <1>3
  DEF Next, vars, LookUp, TurnAway, SendWelcome, AnnounceJoin, Leave,
      AnnounceLeave, Finish, Receive, Send, Relay

\* Handling a message takes nothing of a peer that is still inside away.
LEMMA ReceiveKeeps ==
    ASSUME TypeOK, SeatInv, LinksInv, NEW x \in Conn, Receive(x)
    PROVE  /\ \A z \in Conn \ {x} : /\ knows'[z] = knows[z] /\ pcs'[z] = pcs[z]
                                    /\ uplink'[z] = uplink[z]
           /\ knows[x] \cap inside \subseteq knows'[x]
           /\ pcs[x] \cap inside \subseteq pcs'[x]
           /\ uplink[x] \subseteq uplink'[x]
           /\ Head(inbox[x]).type = "welcome" =>
                 others[x] \subseteq knows'[x] \cap pcs'[x] \cap uplink'[x]
           /\ Head(inbox[x]).type = "join" => Head(inbox[x]).from \in knows'[x]
           /\ Head(inbox[x]).type = "offer" => Head(inbox[x]).from \in pcs'[x]
<1> DEFINE from == Head(inbox[x]).from
           type == Head(inbox[x]).type
<1>1. type \in Kind /\ from \in Conn /\ Has(x, type, from)
  BY HeadIsHad
<1>2. type = "leave" => from \notin inside
  BY <1>1 DEF LinksInv, LeaveInv, SeatInv, InsideIsSeated
<1>3. \/ type = "welcome" /\ OnWelcome(x)
      \/ type = "join"    /\ OnJoin(x, from)
      \/ type = "offer"   /\ OnOffer(x, from)
      \/ type = "leave"   /\ OnLeave(x, from)
  BY DEF Receive
<1> HIDE DEF from, type
<1> USE DEF TypeOK
<1>4. CASE type = "welcome" /\ OnWelcome(x)
  BY <1>4 DEF OnWelcome, from, type
<1>5. CASE type = "join" /\ OnJoin(x, from)
  BY <1>1, <1>5 DEF OnJoin, from, type
<1>6. CASE type = "offer" /\ OnOffer(x, from)
  BY <1>1, <1>6 DEF OnOffer, from, type
<1>7. CASE type = "leave" /\ OnLeave(x, from)
  BY <1>1, <1>2, <1>7 DEF OnLeave, from, type
<1> QED
  BY <1>3, <1>4, <1>5, <1>6, <1>7

\* What a peer has in its inbox stays there until it is read.
LEMMA StaysUntilRead ==
    ASSUME TypeOK, NEW x \in Conn, Receive(x)
    PROVE  \A d \in Conn : \A k, c :
              Has(d, k, c) => \/ Has(d, k, c)'
                              \/ x = d /\ Head(inbox[x]).type = k /\ Head(inbox[x]).from = c
  BY HasAfterReceive

\* Each of the three that a peer owes one on its list stays due or gets done.
LEMMA MeshStep ==
    ASSUME TypeOK, SeatInv, LinksInv, MeshInv, [Next]_vars
    PROVE  MeshInv'
<1> DEFINE Fine(c, d) ==
        /\ c # d
        /\ at'[c] # "seated" => WelcomeDue(c, d)' /\ OfferDue(c, d)'
        /\ at'[c] = "present" => JoinDue(c, d)'
       SameInbox(c, d) ==
        /\ Has(c, "welcome", c)' <=> Has(c, "welcome", c)
        /\ Has(d, "join", c)' <=> Has(d, "join", c)
        /\ Has(d, "offer", c)' <=> Has(d, "offer", c)
<1> USE DEF TypeOK, hubVars, seatVars, sendVars, pageVars
<1> SUFFICES ASSUME NEW c \in Conn, NEW d \in Conn, c \in inside', d \in inside',
                    d \in others'[c]
             PROVE  Fine(c, d)
  <2>1. inside' \subseteq inside \cup Conn
    BY DEF Next, vars, LookUp, Enter, TurnAway, SitDown, SendWelcome, Leave,
           AnnounceJoin, AnnounceLeave, Finish, Receive, Send, Relay
  <2> QED
    BY <2>1 DEF MeshInv
<1> USE DEF WelcomeDue, OfferDue, JoinDue
<1>h. ASSUME inbox'[c] = inbox[c], inbox'[d] = inbox[d] PROVE SameInbox(c, d)
  BY <1>h DEF Has
<1>1. ASSUME NEW x \in Conn, SitDown(x) PROVE Fine(c, d)
  <2>1. CASE x = c
    <3>1. others'[c] = Peers(held[c]) /\ at'[c] = "seated" /\ c \notin inside
      BY <1>1, <2>1 DEF SitDown, SeatInv, InsideIsSeated
    <3> QED
      BY <3>1 DEF Peers
  <2>2. CASE x = d /\ x # c
    <3>1. d \in others[c] /\ ~Entered(d)
      BY <1>1, <2>2 DEF SitDown, Entered
    <3> QED
      BY <3>1 DEF LinksInv, LinkedInv, Linked
  <2>3. CASE x # c /\ x # d
    <3>1. c \in inside /\ d \in inside /\ d \in others[c] /\ at'[c] = at[c]
      BY <1>1, <2>3 DEF SitDown
    <3> QED
      BY <1>1, <1>h, <3>1 DEF SitDown, MeshInv
  <2> QED
    BY <2>1, <2>2, <2>3
<1>2. ASSUME \A x \in Conn : ~SitDown(x)
      PROVE  c \in inside /\ d \in inside /\ d \in others[c]
  BY <1>2 DEF Next, vars, LookUp, Enter, TurnAway, SendWelcome, Leave,
         AnnounceJoin, AnnounceLeave, Finish, Receive, Send, Relay
<1>3. ASSUME NEW x \in Conn, Enter(x) \/ TurnAway(x) \/ AnnounceLeave(x) \/ Finish(x),
             c \in inside, d \in inside, d \in others[c]
      PROVE  Fine(c, d)
  <2>1. x # c
    BY <1>3 DEF Enter, TurnAway, AnnounceLeave, Finish, SeatInv, InsideIsSeated
  <2>2. at'[c] = at[c] /\ todo'[c] = todo[c] /\ event'[c] = event[c]
    BY <1>3, <2>1 DEF Enter, TurnAway, AnnounceLeave, Finish, Broadcast
  <2>3. UNCHANGED <<inbox, pageVars>>
    BY <1>3 DEF Enter, TurnAway, AnnounceLeave, Finish
  <2> QED
    BY <1>3, <1>h, <2>2, <2>3 DEF MeshInv
<1>4. ASSUME NEW x \in Conn, SendWelcome(x),
             c \in inside, d \in inside, d \in others[c]
      PROVE  Fine(c, d)
  <2>1. "welcome" \in Kind
    BY DEF Kind
  <2>2. \A y, z \in Conn, k \in Kind : Has(y, k, z) => Has(y, k, z)'
    BY <1>4, <2>1, HasAfterWrite DEF SendWelcome
  <2>3. CASE x = c
    <3>1. Has(c, "welcome", c)' /\ at'[c] = "welcomed" /\ c # d
      BY <1>4, <2>1, <2>3, HasAfterWrite DEF SendWelcome, MeshInv
    <3> QED
      BY <3>1
  <2>4. CASE x # c
    <3>1. at'[c] = at[c] /\ UNCHANGED <<event, todo, pageVars>>
      BY <1>4, <2>4 DEF SendWelcome
    <3> QED
      BY <1>4, <2>2, <3>1 DEF MeshInv, Kind
  <2> QED
    BY <2>3, <2>4
<1>5. ASSUME NEW x \in Conn, AnnounceJoin(x),
             c \in inside, d \in inside, d \in others[c]
      PROVE  Fine(c, d)
  <2>1. UNCHANGED <<inbox, pageVars>>
    BY <1>5 DEF AnnounceJoin
  <2>2. CASE x = c
    <3>1. c # d /\ held[c] = held[d] /\ at[c] = "welcomed" /\ todo[c] = {}
      <4>1. at[c] = "welcomed"
        BY <1>5, <2>2 DEF AnnounceJoin
      <4>2. c # d
        BY <1>5 DEF MeshInv
      <4>3. todo[c] = {}
        BY <4>1 DEF LinksInv, SendingInv
      <4>4. Linked(d, c)
        BY <1>5 DEF Linked
      <4>5. held[c] = held[d]
        BY <4>4 DEF LinksInv, LinkedInv
      <4> QED
        BY <4>1, <4>2, <4>3, <4>5
    <3>2. event'[c] = "join" /\ d \in todo'[c]
      BY <1>5, <2>2, <3>1 DEF AnnounceJoin, Broadcast, Peers
    <3> QED
      BY <1>5, <1>h, <2>1, <3>1, <3>2 DEF MeshInv
  <2>3. CASE x # c
    <3>1. at'[c] = at[c] /\ todo'[c] = todo[c] /\ event'[c] = event[c]
      BY <1>5, <2>3 DEF AnnounceJoin, Broadcast
    <3> QED
      BY <1>5, <1>h, <2>1, <3>1 DEF MeshInv
  <2> QED
    BY <2>2, <2>3
<1>6. ASSUME NEW x \in Conn, Leave(x),
             c \in inside, d \in inside, d \in others[c]
      PROVE  Fine(c, d)
  <2>1. x # c /\ x # d
    BY <1>6 DEF Leave
  <2>2. at'[c] = at[c] /\ UNCHANGED <<event, todo>>
    BY <1>6, <2>1 DEF Leave
  <2>3. \A z \in {c, d} : /\ inbox'[z] = inbox[z] /\ uplink'[z] = uplink[z]
                          /\ knows'[z] = knows[z] /\ pcs'[z] = pcs[z]
    BY <1>6, <2>1 DEF Leave
  <2> QED
    BY <1>6, <1>h, <2>2, <2>3 DEF MeshInv
<1>7. ASSUME NEW x \in Conn, NEW y \in Conn, Send(x, y),
             c \in inside, d \in inside, d \in others[c]
      PROVE  Fine(c, d)
  <2>1. event[x] \in Kind
    BY DEF Kind
  <2>2. \A u, z \in Conn, k \in Kind : Has(u, k, z) => Has(u, k, z)'
    BY <1>7, <2>1, HasAfterWrite DEF Send
  <2>3. Has(y, event[x], x)'
    BY <1>7, <2>1, HasAfterWrite DEF Send
  <2>4. UNCHANGED <<at, event, pageVars>>
    BY <1>7 DEF Send
  <2>5. d \in todo[c] => d \in todo'[c] \/ (x = c /\ y = d)
    BY <1>7 DEF Send
  <2> QED
    BY <1>7, <2>2, <2>3, <2>4, <2>5 DEF MeshInv, Kind
<1>8. ASSUME NEW x \in Conn, NEW y \in Conn, Relay(x, y),
             c \in inside, d \in inside, d \in others[c]
      PROVE  Fine(c, d)
  <2>1. UNCHANGED <<at, inbox, knows, pcs>>
    BY <1>8 DEF Relay
  <2>2. CASE x = c
    <3>1. held[c] = held[d] /\ todo[c] = {} /\ event'[c] = "offer"
      BY <1>8, <2>2 DEF Relay, LinksInv, LinkedInv, Linked
    <3>2. y = d => d \in todo'[c]
      BY <1>8, <2>2, <3>1 DEF Relay, Peers
    <3>3. y # d /\ d \in uplink[c] => d \in uplink'[c]
      BY <1>8, <2>2 DEF Relay
    <3> QED
      BY <1>8, <1>h, <2>1, <3>1, <3>2, <3>3 DEF MeshInv
  <2>3. CASE x # c
    <3>1. todo'[c] = todo[c] /\ event'[c] = event[c] /\ uplink'[c] = uplink[c]
      BY <1>8, <2>3 DEF Relay
    <3> QED
      BY <1>8, <1>h, <2>1, <3>1 DEF MeshInv
  <2> QED
    BY <2>2, <2>3
<1>9. ASSUME NEW x \in Conn, Receive(x),
             c \in inside, d \in inside, d \in others[c]
      PROVE  Fine(c, d)
  <2>1. UNCHANGED <<at, event, todo>>
    BY <1>9 DEF Receive
  <2>2. /\ d \in knows[c] => d \in knows'[c]
        /\ d \in pcs[c] => d \in pcs'[c]
        /\ d \in uplink[c] => d \in uplink'[c]
        /\ c \in knows[d] => c \in knows'[d]
        /\ c \in pcs[d] => c \in pcs'[d]
    BY <1>9, ReceiveKeeps
  <2>r. \A y \in Conn : \A k, z :
           Has(y, k, z) => \/ Has(y, k, z)'
                           \/ x = y /\ Head(inbox[x]).type = k /\ Head(inbox[x]).from = z
    BY <1>9, StaysUntilRead
  <2>3. Has(c, "welcome", c) => \/ Has(c, "welcome", c)'
                                \/ d \in knows'[c] /\ d \in pcs'[c] /\ d \in uplink'[c]
    <3>1. Has(c, "welcome", c) => \/ Has(c, "welcome", c)'
                                  \/ x = c /\ Head(inbox[c]).type = "welcome"
      BY <2>r
    <3>2. x = c /\ Head(inbox[c]).type = "welcome" =>
             d \in knows'[c] /\ d \in pcs'[c] /\ d \in uplink'[c]
      BY <1>9, ReceiveKeeps
    <3> QED
      BY <3>1, <3>2
  <2>4. Has(d, "join", c) => Has(d, "join", c)' \/ c \in knows'[d]
    <3>1. Has(d, "join", c) => \/ Has(d, "join", c)'
                               \/ x = d /\ Head(inbox[x]).type = "join" /\ Head(inbox[x]).from = c
      BY <2>r
    <3>2. x = d /\ Head(inbox[x]).type = "join" => Head(inbox[x]).from \in knows'[d]
      BY <1>9, ReceiveKeeps
    <3> QED
      BY <3>1, <3>2
  <2>5. Has(d, "offer", c) => Has(d, "offer", c)' \/ c \in pcs'[d]
    <3>1. Has(d, "offer", c) => \/ Has(d, "offer", c)'
                                \/ x = d /\ Head(inbox[x]).type = "offer" /\ Head(inbox[x]).from = c
      BY <2>r
    <3>2. x = d /\ Head(inbox[x]).type = "offer" => Head(inbox[x]).from \in pcs'[d]
      BY <1>9, ReceiveKeeps
    <3> QED
      BY <3>1, <3>2
  <2> QED
    BY <1>9, <2>1, <2>2, <2>3, <2>4, <2>5 DEF MeshInv
<1>10. ASSUME UNCHANGED <<at, seatVars, sendVars, pageVars>>,
              c \in inside, d \in inside, d \in others[c]
       PROVE  Fine(c, d)
  BY <1>10, <1>h DEF MeshInv
<1> HIDE DEF Fine, WelcomeDue, OfferDue, JoinDue
<1> QED
  BY <1>1, <1>2, <1>3, <1>4, <1>5, <1>6, <1>7, <1>8, <1>9, <1>10
  DEF Next, vars, LookUp

LEMMA LinksAlways == Spec => [](TypeOK /\ SeatInv /\ KeptInv /\ LinksInv /\ OneLists /\ MeshInv)
<1>1. Init => LinksInv /\ OneLists /\ MeshInv
  BY DEF Init, LinksInv, LinkedInv, Linked, Has, SendingInv, LeaveInv, OneLists, MeshInv
<1>2. TypeOK /\ SeatInv /\ KeptInv /\ LinksInv /\ OneLists /\ MeshInv /\ [Next]_vars
      => LinksInv' /\ OneLists' /\ MeshInv'
  BY LinkedStep, SendingStep, LeaveStep, OneListsStep, MeshStep DEF LinksInv
<1>3. Init => KeptInv
  BY DEF Init, KeptInv
<1> QED
  BY <1>1, <1>2, <1>3, KeptStep, SeatsAlways, PTL DEF Spec

\* The mesh closes, whoever joins, leaves and relays at once: two peers of a
\* room that have nothing left to send or to handle have each other in the
\* roster and a connection that exactly one of them offered.
THEOREM MeshIsClosed == Spec => []MeshCloses
<1>1. TypeOK /\ SeatInv /\ KeptInv /\ LinksInv /\ OneLists /\ MeshInv => MeshCloses
  <2> SUFFICES ASSUME TypeOK, SeatInv, KeptInv, LinksInv, OneLists, MeshInv,
                      NEW c \in Conn, NEW d \in Conn, c # d,
                      Settled(c), Settled(d), held[c] = held[d]
               PROVE  /\ d \in knows[c] /\ d \in pcs[c]
                      /\ (d \in others[c]) # (c \in others[d])
    BY DEF MeshCloses
  <2>1. c \in inside /\ d \in inside /\ at[c] = "present" /\ at[d] = "present"
    BY DEF Settled, KeptInv
  <2>2. (d \in others[c]) # (c \in others[d])
    BY <2>1 DEF OneLists
  <2>3. \A x, y \in {c, d}, k \in Kind : ~Has(x, k, y)
    BY DEF Settled, Has
  <2>4. CASE d \in others[c]
    BY <2>1, <2>2, <2>3, <2>4 DEF MeshInv, WelcomeDue, Kind
  <2>5. CASE c \in others[d]
    BY <2>1, <2>2, <2>3, <2>5 DEF MeshInv, JoinDue, OfferDue, Settled, Kind
  <2> QED
    BY <2>2, <2>4, <2>5
<1> QED
  BY <1>1, LinksAlways, PTL

-----------------------------------------------------------------------------
(***************************************************************************)
(* Ghosts.  The leave of a peer is the last message it has written to      *)
(* whoever was told of it, and if it was not written before the welcome it *)
(* is behind the welcome too: handling the inbox to its end wipes the peer *)
(* out.                                                                    *)
(***************************************************************************)
\* c has gone, and what it had to tell d is written.
Gone(c, d) == at[c] = "done" \/ (at[c] = "leaving" /\ d \notin todo[c])

\* The message at i brings c to d: c wrote it, or it is a welcome that lists c.
Brings(c, d, i) ==
    \/ inbox[d][i].from = c /\ inbox[d][i].type # "leave"
    \/ inbox[d][i].type = "welcome" /\ c \in others[d]

\* It is followed by the leave of c.
Followed(c, d, i) ==
    Brings(c, d, i) =>
        \E j \in (i + 1)..Len(inbox[d]) :
            inbox[d][j].from = c /\ inbox[d][j].type = "leave"

Wiped(c, d) ==
    /\ c \in knows[d] \cup pcs[d] => Has(d, "leave", c)
    /\ \A i \in 1..Len(inbox[d]) : Followed(c, d, i)

\* The leave of c is not written to d before a welcome that lists c.
InTurn(c, d) == c \notin others[d] \/ <<c, d>> \notin early

GhostInv ==
    \A c \in Conn, d \in inside :
        Gone(c, d) /\ InTurn(c, d) =>
            /\ Wiped(c, d)
            /\ at[d] = "seated" => c \notin others[d]

\* Nothing of an unlinked peer is there to be wiped out.
LEMMA UnlinkedIsWiped ==
    ASSUME TypeOK, NEW c \in Conn, NEW d \in Conn, ~Linked(c, d)
    PROVE  Wiped(c, d)
<1>1. \A i \in 1..Len(inbox[d]) : inbox[d][i].type \in Kind
  <2> DEFINE Event == [type : Kind, from : Conn]
  <2>1. inbox[d] \in Seq(Event)
    BY DEF TypeOK, Kind
  <2>2. \A i \in 1..Len(inbox[d]) : inbox[d][i] \in Event
    <3> HIDE DEF Event
    <3> QED
      BY <2>1
  <2> QED
    BY <2>2
<1>2. \A i \in 1..Len(inbox[d]) : inbox[d][i].from # c
  BY <1>1 DEF Linked, Has
<1> QED
  BY <1>2 DEF Linked, Wiped, Followed, Brings

\* A write to d keeps what is wiped so, if it does not bring c.
LEMMA WriteKeepsWiped ==
    ASSUME TypeOK, NEW c \in Conn, NEW d \in Conn, NEW x \in Conn, NEW y \in Conn,
           NEW kind \in Kind, Write(y, kind, x), UNCHANGED <<knows, pcs, others>>,
           Wiped(c, d), kind = "leave" \/ x # c \/ y # d,
           kind = "welcome" /\ y = d => c \notin others[d]
    PROVE  Wiped(c, d)'
<1>1. Has(d, "leave", c) => Has(d, "leave", c)'
  BY HasAfterWrite
<1>2. CASE y # d
  <2>1. \A z \in Conn \ {y} : inbox'[z] = inbox[z]
    BY AfterWrite
  <2>2. inbox'[d] = inbox[d]
    BY <1>2, <2>1
  <2> QED
    BY <1>1, <2>2 DEF Wiped, Followed, Brings
<1>3. CASE y = d
  <2> DEFINE n == Len(inbox[d])
             m == [type |-> kind, from |-> x]
  <2>1. /\ n \in Nat /\ Len(inbox'[d]) = n + 1
        /\ \A i \in 1..n : inbox'[d][i] = inbox[d][i]
        /\ inbox'[d][n + 1] = m
    BY <1>3, AfterWrite
  <2>2. \A i \in 1..(n + 1) : Followed(c, d, i)'
    <3> SUFFICES ASSUME NEW i \in 1..(n + 1) PROVE Followed(c, d, i)'
      OBVIOUS
    <3>1. CASE i = n + 1
      <4>1. ~Brings(c, d, i)'
        BY <1>3, <2>1, <3>1 DEF Brings
      <4> QED
        BY <4>1 DEF Followed
    <3>2. CASE i \in 1..n
      <4>1. Followed(c, d, i) /\ inbox'[d][i] = inbox[d][i]
        BY <2>1, <3>2 DEF Wiped
      <4>2. ASSUME Brings(c, d, i)
            PROVE  \E j \in (i + 1)..Len(inbox'[d]) :
                      inbox'[d][j].from = c /\ inbox'[d][j].type = "leave"
        <5>1. PICK j \in (i + 1)..n : inbox[d][j].from = c /\ inbox[d][j].type = "leave"
          BY <4>1, <4>2 DEF Followed
        <5> HIDE DEF n
        <5>2. j \in 1..n /\ j \in (i + 1)..(n + 1)
          BY <2>1, <3>2, <5>1
        <5> QED
          BY <2>1, <5>1, <5>2
      <4>3. Brings(c, d, i)' <=> Brings(c, d, i)
        BY <4>1 DEF Brings
      <4> HIDE DEF n, m
      <4> QED
        BY <4>2, <4>3 DEF Followed
    <3> HIDE DEF n, m
    <3> QED
      BY <2>1, <3>1, <3>2
  <2>3. \A i \in 1..Len(inbox'[d]) : Followed(c, d, i)'
    BY <2>1, <2>2
  <2> QED
    BY <1>1, <2>3 DEF Wiped
<1> QED
  BY <1>2, <1>3

\* So does handling a message.
LEMMA ReceiveKeepsWiped ==
    ASSUME TypeOK, NEW c \in Conn, NEW d \in Conn, NEW x \in Conn, Receive(x),
           Wiped(c, d)
    PROVE  Wiped(c, d)'
<1> USE DEF TypeOK
<1> DEFINE from == Head(inbox[x]).from
           type == Head(inbox[x]).type
<1>1. type \in Kind /\ from \in Conn
  BY HeadIsHad
<1>2. \/ type = "welcome" /\ OnWelcome(x)
      \/ type = "join"    /\ OnJoin(x, from)
      \/ type = "offer"   /\ OnOffer(x, from)
      \/ type = "leave"   /\ OnLeave(x, from)
  BY DEF Receive
<1>0. others' = others
  BY DEF Receive, seatVars
<1>3. CASE x # d
  <2>1. \A z \in Conn \ {x} : inbox'[z] = inbox[z]
    BY AfterReceive
  <2>2. inbox'[d] = inbox[d]
    BY <1>3, <2>1
  <2>3. knows'[d] = knows[d] /\ pcs'[d] = pcs[d]
    <3> HIDE DEF from, type
    <3> QED
      BY <1>2, <1>3 DEF OnWelcome, OnJoin, OnOffer, OnLeave
  <2>4. Has(d, "leave", c)' <=> Has(d, "leave", c)
    BY <2>2 DEF Has
  <2>5. \A i : Followed(c, d, i)' <=> Followed(c, d, i)
    BY <1>0, <2>2 DEF Followed, Brings
  <2> QED
    BY <2>2, <2>3, <2>4, <2>5 DEF Wiped
<1>4. CASE x = d
  <2> DEFINE n == Len(inbox[d])
  <2>1. /\ n \in Nat \ {0} /\ Len(inbox'[d]) = n - 1
        /\ \A i \in 1..(n - 1) : inbox'[d][i] = inbox[d][i + 1]
        /\ inbox[d][1].from = from /\ inbox[d][1].type = type
    BY <1>4, AfterReceive
  <2>2. \A i \in 1..(n - 1) : Followed(c, d, i)'
    <3> SUFFICES ASSUME NEW i \in 1..(n - 1), Brings(c, d, i)'
                 PROVE  \E j \in (i + 1)..Len(inbox'[d]) :
                           inbox'[d][j].from = c /\ inbox'[d][j].type = "leave"
      BY DEF Followed
    <3>1. i + 1 \in 1..n /\ inbox'[d][i] = inbox[d][i + 1]
      <4> HIDE DEF n
      <4> QED
        BY <2>1
    <3>a. Brings(c, d, i + 1)
      BY <1>0, <3>1 DEF Brings
    <3>2. PICK j \in (i + 1 + 1)..n : inbox[d][j].from = c /\ inbox[d][j].type = "leave"
      BY <3>1, <3>a DEF Wiped, Followed
    <3> HIDE DEF n
    <3>3. j - 1 \in (i + 1)..(n - 1) /\ j - 1 \in 1..(n - 1) /\ (j - 1) + 1 = j
      BY <2>1, <3>2
    <3>4. inbox'[d][j - 1] = inbox[d][j]
      BY <2>1, <3>3
    <3> QED
      BY <2>1, <3>2, <3>3, <3>4
  <2>3. \/ from = c /\ type # "leave"
        \/ type = "welcome" /\ c \in others[d]
        => Has(d, "leave", c)'
    <3> SUFFICES ASSUME \/ from = c /\ type # "leave"
                        \/ type = "welcome" /\ c \in others[d]
                 PROVE  Has(d, "leave", c)'
      OBVIOUS
    <3>0. Brings(c, d, 1)
      BY <2>1 DEF Brings
    <3>1. 1 \in 1..n
      <4> HIDE DEF n
      <4> QED
        BY <2>1
    <3>2. PICK j \in (1 + 1)..n : inbox[d][j].from = c /\ inbox[d][j].type = "leave"
      BY <2>1, <3>0, <3>1 DEF Wiped, Followed
    <3>3. j - 1 \in 1..(n - 1) /\ (j - 1) + 1 = j
      <4> HIDE DEF n
      <4> QED
        BY <2>1, <3>2
    <3>4. inbox'[d][j - 1] = inbox[d][j]
      BY <2>1, <3>3
    <3> HIDE DEF n
    <3> QED
      BY <2>1, <3>2, <3>3, <3>4 DEF Has
  <2>4. Has(d, "leave", c) => Has(d, "leave", c)' \/ (type = "leave" /\ from = c)
    BY <1>4, HasAfterReceive
  <2>5. c \in knows'[d] \cup pcs'[d] =>
           /\ \/ c \in knows[d] \cup pcs[d]
              \/ from = c /\ type # "leave"
              \/ type = "welcome" /\ c \in others[d]
           /\ ~(type = "leave" /\ from = c)
    <3> HIDE DEF from, type
    <3>1. CASE type = "welcome" /\ OnWelcome(x)
      BY <1>4, <3>1 DEF OnWelcome
    <3>2. CASE type = "join" /\ OnJoin(x, from)
      BY <1>1, <1>4, <3>2 DEF OnJoin
    <3>3. CASE type = "offer" /\ OnOffer(x, from)
      BY <1>1, <1>4, <3>3 DEF OnOffer
    <3>4. CASE type = "leave" /\ OnLeave(x, from)
      BY <1>1, <1>4, <3>4 DEF OnLeave
    <3> QED
      BY <1>2, <3>1, <3>2, <3>3, <3>4
  <2>6. c \in knows'[d] \cup pcs'[d] => Has(d, "leave", c)'
    <3> HIDE DEF from, type
    <3> QED
      BY <2>3, <2>4, <2>5 DEF Wiped
  <2>7. \A i \in 1..Len(inbox'[d]) : Followed(c, d, i)'
    BY <2>1, <2>2
  <2> QED
    BY <2>6, <2>7 DEF Wiped
<1> QED
  BY <1>3, <1>4

LEMMA GhostStep ==
    ASSUME TypeOK, SeatInv, KeptInv, LinksInv, GhostInv, [Next]_vars
    PROVE  GhostInv'
<1> USE DEF TypeOK, hubVars, seatVars, sendVars, pageVars
<1> DEFINE Stays(c, d) == Wiped(c, d)' /\ (at'[d] = "seated" => c \notin others'[d])
<1> SUFFICES ASSUME NEW c \in Conn, NEW d \in Conn, d \in inside', Gone(c, d)',
                    InTurn(c, d)'
             PROVE  Stays(c, d)
  <2>1. inside' \subseteq Conn
    BY DEF Next, vars, LookUp, Enter, TurnAway, SitDown, SendWelcome, Leave,
           AnnounceJoin, AnnounceLeave, Finish, Receive, Send, Relay
  <2> QED
    BY <2>1 DEF GhostInv
<1>0. others'[d] = others[d] => InTurn(c, d)
  <2>1. early \subseteq early'
    BY DEF Next, vars, LookUp, Enter, TurnAway, SitDown, SendWelcome, Leave,
           AnnounceJoin, AnnounceLeave, Finish, Receive, Send, Relay
  <2> QED
    BY <2>1 DEF InTurn
<1>1. ASSUME UNCHANGED <<knows, pcs, inbox, others>>, Wiped(c, d) PROVE Wiped(c, d)'
  BY <1>1 DEF Wiped, Followed, Brings, Has
<1>2. ASSUME d \in inside, others'[d] = others[d], Gone(c, d)
      PROVE  Wiped(c, d) /\ (at[d] = "seated" => c \notin others[d])
  BY <1>0, <1>2 DEF GhostInv
<1>3. ASSUME NEW x \in Conn, SitDown(x) PROVE Stays(c, d)
  <2>1. UNCHANGED <<knows, pcs, inbox, todo>>
    BY <1>3 DEF SitDown
  <2>2. CASE x = d
    <3>1. ~Entered(d) /\ others'[d] = Peers(held[d])
      BY <1>3, <2>2 DEF SitDown, Entered
    <3>2. ~Linked(c, d)
      BY <3>1 DEF LinksInv, LinkedInv
    <3>3. Wiped(c, d)
      BY <3>2, UnlinkedIsWiped
    <3>4. at'[c] \in {"leaving", "done"} /\ at' = [at EXCEPT ![d] = "seated"]
      BY <1>3, <2>2 DEF SitDown, Gone
    <3>5. c \notin inside
      <4>1. at[c] \in {"leaving", "done"}
        BY <3>4
      <4> QED
        BY <4>1 DEF SeatInv, InsideIsSeated
    <3>6. c \notin others'[d]
      BY <3>1, <3>5 DEF Peers
    <3>7. \A i : Followed(c, d, i) => Followed(c, d, i)'
      BY <2>1, <3>6 DEF Followed, Brings
    <3>8. Wiped(c, d)'
      BY <2>1, <3>3, <3>7 DEF Wiped, Has
    <3> QED
      BY <3>6, <3>8
  <2>3. CASE x # d
    <3>1. d \in inside /\ others'[d] = others[d] /\ Gone(c, d) /\ at'[d] = at[d]
      BY <1>3, <2>1, <2>3 DEF SitDown, Gone
    <3>2. \A i : Followed(c, d, i)' <=> Followed(c, d, i)
      BY <2>1, <3>1 DEF Followed, Brings
    <3>3. Wiped(c, d)'
      BY <1>2, <2>1, <3>1, <3>2 DEF Wiped, Has
    <3> QED
      BY <1>2, <3>1, <3>3
  <2> QED
    BY <2>2, <2>3
<1>4. ASSUME \A x \in Conn : ~SitDown(x)
      PROVE  /\ d \in inside /\ others' = others
             /\ at'[d] = "seated" => at[d] = "seated"
  BY <1>4 DEF Next, vars, LookUp, Enter, TurnAway, SendWelcome, Leave,
         AnnounceJoin, AnnounceLeave, Finish, Receive, Send, Relay
<1>5. ASSUME NEW x \in Conn, Enter(x) \/ TurnAway(x) \/ Finish(x) \/ AnnounceJoin(x),
             d \in inside, others' = others
      PROVE  Wiped(c, d)' /\ Gone(c, d)
  <2>1. UNCHANGED <<knows, pcs, inbox, others>>
    BY <1>5 DEF Enter, TurnAway, Finish, AnnounceJoin
  <2>2. Gone(c, d)
    <3>1. CASE AnnounceJoin(x)
      <4>1. at'[x] = "present" /\ at[x] = "welcomed"
            /\ \A z \in Conn \ {x} : at'[z] = at[z] /\ todo'[z] = todo[z]
        BY <3>1 DEF AnnounceJoin, Broadcast
      <4> QED
        BY <4>1 DEF Gone
    <3>2. CASE Enter(x) \/ TurnAway(x)
      BY <3>2 DEF Enter, TurnAway, Gone
    <3>3. CASE Finish(x)
      BY <3>3 DEF Finish, Gone
    <3> QED
      BY <1>5, <3>1, <3>2, <3>3
  <2> QED
    BY <1>1, <1>2, <1>5, <2>1, <2>2
<1>6. ASSUME NEW x \in Conn, AnnounceLeave(x), d \in inside, others' = others
      PROVE  Wiped(c, d)' /\ (Gone(c, d) \/ c \notin others[d])
  <2>1. UNCHANGED <<knows, pcs, inbox, others>>
    BY <1>6 DEF AnnounceLeave
  <2>2. CASE x = c
    <3>1. d # c /\ d \notin todo'[c] /\ todo'[c] = Peers(held[c]) \ {c}
      BY <1>6, <2>2 DEF AnnounceLeave, Broadcast, Gone, SeatInv, InsideIsSeated
    <3>2. held[c] # held[d]
      BY <1>6, <3>1 DEF Peers
    <3>3. ~Linked(c, d)
      BY <3>2 DEF LinksInv, LinkedInv
    <3>4. c \notin others[d]
      BY <3>3 DEF Linked
    <3> QED
      BY <1>1, <2>1, <3>3, <3>4, UnlinkedIsWiped
  <2>3. CASE x # c
    <3>1. Gone(c, d)
      BY <1>6, <2>3 DEF AnnounceLeave, Broadcast, Gone
    <3> QED
      BY <1>1, <1>2, <1>6, <2>1, <3>1
  <2> QED
    BY <2>2, <2>3
<1>7. ASSUME NEW x \in Conn, SendWelcome(x), d \in inside, others' = others
      PROVE  Wiped(c, d)' /\ Gone(c, d)
  <2>1. "welcome" \in Kind
    BY DEF Kind
  <2>2. x # c /\ Gone(c, d)
    BY <1>7 DEF SendWelcome, Gone
  <2>3. x = d => c \notin others[d]
    BY <1>2, <1>7, <2>2 DEF SendWelcome
  <2>4. UNCHANGED <<knows, pcs, others>> /\ Write(x, "welcome", x)
    BY <1>7 DEF SendWelcome
  <2> QED
    BY <1>2, <1>7, <2>1, <2>2, <2>3, <2>4, WriteKeepsWiped
<1>8. ASSUME NEW x \in Conn, Leave(x), d \in inside, others' = others
      PROVE  Wiped(c, d)' /\ Gone(c, d)
  <2>1. x # d /\ Gone(c, d)
    BY <1>8 DEF Leave, Gone
  <2>2. inbox'[d] = inbox[d] /\ knows'[d] = knows[d] /\ pcs'[d] = pcs[d] /\ others' = others
    BY <1>8, <2>1 DEF Leave
  <2>3. Wiped(c, d)
    BY <1>2, <1>8, <2>1
  <2>4. Has(d, "leave", c)' <=> Has(d, "leave", c)
    BY <2>2 DEF Has
  <2>5. \A i : Followed(c, d, i)' <=> Followed(c, d, i)
    BY <2>2 DEF Followed, Brings
  <2> QED
    BY <2>1, <2>2, <2>3, <2>4, <2>5 DEF Wiped
<1>9. ASSUME NEW x \in Conn, NEW y \in Conn, Send(x, y), d \in inside, others' = others
      PROVE  Stays(c, d)
  <2>1. event[x] \in Kind /\ event[x] # "welcome"
    BY DEF Kind
  <2>0. UNCHANGED <<knows, pcs, others, at>> /\ Write(y, event[x], x)
    BY <1>9 DEF Send
  <2>2. CASE x = c /\ y = d
    <3>1. event[c] = "leave"
      BY <1>9, <2>2 DEF Send, Gone, LinksInv, SendingInv
    <3>0. at'[d] = "seated" => c \notin others'[d]
      BY <1>9, <2>2, <3>1 DEF Send, InTurn
    <3>2. Has(d, "leave", c)'
      BY <1>9, <2>1, <2>2, <3>1, HasAfterWrite DEF Send
    <3> DEFINE n == Len(inbox[d])
    <3>3. /\ n \in Nat /\ Len(inbox'[d]) = n + 1
          /\ inbox'[d][n + 1] = [type |-> "leave", from |-> c]
      BY <1>9, <2>1, <2>2, <3>1, AfterWrite DEF Send
    <3>4. \A i \in 1..(n + 1) : Followed(c, d, i)'
      <4> SUFFICES ASSUME NEW i \in 1..(n + 1) PROVE Followed(c, d, i)'
        OBVIOUS
      <4> HIDE DEF n
      <4>1. inbox'[d][n + 1].type = "leave" /\ inbox'[d][n + 1].from = c
        BY <3>3
      <4>2. i = n + 1 \/ n + 1 \in (i + 1)..(n + 1)
        BY <3>3
      <4>3. Len(inbox'[d]) = n + 1
        BY <3>3
      <4>4. CASE i = n + 1
        BY <4>1, <4>4 DEF Followed, Brings
      <4>5. CASE n + 1 \in (i + 1)..(n + 1)
        BY <4>1, <4>3, <4>5 DEF Followed
      <4> QED
        BY <4>2, <4>4, <4>5
    <3>5. \A i \in 1..Len(inbox'[d]) : Followed(c, d, i)'
      BY <3>3, <3>4
    <3> QED
      BY <3>0, <3>2, <3>5 DEF Wiped
  <2>3. CASE ~(x = c /\ y = d)
    <3>1. Gone(c, d)
      BY <1>9, <2>3 DEF Send, Gone
    <3>2. Wiped(c, d) /\ (at[d] = "seated" => c \notin others[d])
      BY <1>2, <1>9, <3>1
    <3>3. Wiped(c, d)'
      BY <2>0, <2>1, <2>3, <3>2, WriteKeepsWiped
    <3> QED
      BY <2>0, <3>2, <3>3
  <2> QED
    BY <2>2, <2>3
<1>10. ASSUME NEW x \in Conn, NEW y \in Conn, Relay(x, y), d \in inside, others' = others
       PROVE  Wiped(c, d)' /\ Gone(c, d)
  <2>1. UNCHANGED <<knows, pcs, inbox, others>> /\ Gone(c, d)
    BY <1>10 DEF Relay, Gone
  <2> QED
    BY <1>1, <1>2, <1>10, <2>1
<1>11. ASSUME NEW x \in Conn, Receive(x), d \in inside, others' = others
       PROVE  Wiped(c, d)' /\ Gone(c, d)
  <2>1. Gone(c, d)
    BY <1>11 DEF Receive, Gone
  <2> QED
    BY <1>2, <1>11, <2>1, ReceiveKeepsWiped
<1>12. ASSUME UNCHANGED <<at, seatVars, sendVars, pageVars>>, d \in inside, others' = others
       PROVE  Wiped(c, d)' /\ Gone(c, d)
  <2>1. UNCHANGED <<knows, pcs, inbox, others>> /\ Gone(c, d)
    BY <1>12 DEF Gone
  <2> QED
    BY <1>1, <1>2, <1>12, <2>1
<1>13. ASSUME d \in inside, others' = others, at'[d] = "seated" => at[d] = "seated",
              Wiped(c, d)', Gone(c, d) \/ c \notin others[d]
       PROVE  Stays(c, d)
  BY <1>2, <1>13
<1> QED
  <2> HIDE DEF Stays
  <2>1. CASE \E x \in Conn : SitDown(x)
    BY <1>3, <2>1
  <2>2. CASE \A x \in Conn : ~SitDown(x)
    <3>1. d \in inside /\ others' = others /\ (at'[d] = "seated" => at[d] = "seated")
      BY <1>4, <2>2
    <3>2. \/ Stays(c, d)
          \/ Wiped(c, d)' /\ (Gone(c, d) \/ c \notin others[d])
      BY <1>5, <1>6, <1>7, <1>8, <1>9, <1>10, <1>11, <1>12, <2>2, <3>1
      DEF Next, vars, LookUp
    <3> QED
      BY <1>13, <3>1, <3>2
  <2> QED
    BY <2>1, <2>2

\* A peer that has left stays in nobody's roster and leaves no connection
\* behind, unless its peer-leave was written before the welcome that lists it.
THEOREM NoOtherGhosts == Spec => []GhostsOnlyFromWelcome
<1>1. Init => GhostInv
  BY DEF Init, GhostInv
<1>2. /\ TypeOK /\ SeatInv /\ KeptInv /\ LinksInv
      /\ GhostInv /\ [Next]_vars
      => GhostInv'
  BY GhostStep
<1>3. TypeOK /\ KeptInv /\ GhostInv => GhostsOnlyFromWelcome
  <2> SUFFICES ASSUME TypeOK, KeptInv, GhostInv, NEW c \in Conn, NEW d \in Conn,
                      Settled(d), at[c] = "done", c \in knows[d] \cup pcs[d],
                      c \notin others[d] \/ <<c, d>> \notin early
               PROVE  FALSE
    BY DEF GhostsOnlyFromWelcome
  <2>1. d \in inside
    BY DEF Settled, KeptInv
  <2>2. Has(d, "leave", c)
    BY <2>1 DEF GhostInv, InTurn, Gone, Wiped
  <2> QED
    BY <2>2 DEF Settled, Has
<1> QED
  BY <1>1, <1>2, <1>3, LinksAlways, PTL DEF Spec
=============================================================================
