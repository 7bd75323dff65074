--------------------------- MODULE LiveDocProofs ---------------------------
(***************************************************************************)
(* Theorems about LiveDoc, for every set of sessions and every bound.      *)
(***************************************************************************)
EXTENDS LiveDoc, TLAPS

LEMMA IdleIsCall == Idle \in Call /\ Asked \in Call
  BY DEF Idle, Asked, Call

LEMMA IntegratedInOps == \A ops \in SUBSET Op : Integrated(ops) \subseteq ops
  BY DEF Integrated

LEMMA TextIsPieces ==
  ASSUME TypeOK, NEW ops \in SUBSET Op
  PROVE  Text(ops) \subseteq Piece
  <1>1. Integrated(ops) \subseteq Piece
    BY IntegratedInOps DEF Piece
  <1>2. \A s \in Session : content[s] \subseteq Piece
    BY DEF TypeOK
  <1>3. QED
    BY <1>1, <1>2 DEF Text

LEMMA DropType ==
  ASSUME TypeOK, NEW s \in Session, Drop(s), call' \in [Session -> [{"open", "resync"} -> Call]],
         faults' \in Nat
  PROVE  TypeOK'
  BY DEF TypeOK, Drop, hubVars

LEMMA FaultType == ASSUME TypeOK, NEW k, Fault(k) PROVE faults' \in Nat
  BY DEF TypeOK, Fault

LEMMA LocalUpdateType ==
  ASSUME TypeOK, NEW s \in Session, NEW n \in 0..MaxOps, LocalUpdate(s, <<s, n>>)
  PROVE  /\ issued' \subseteq Op
         /\ doc' \in [Session -> SUBSET Op]
         /\ posts' \subseteq Update
         /\ timer' \in [Session -> BOOLEAN]
  <1>1. <<s, n>> \in Op
    BY DEF Op
  <1>2. [from |-> s, ops |-> {<<s, n>>}, replace |-> FALSE] \in Update
    BY <1>1 DEF Update
  <1>3. issued' \subseteq Op /\ posts' \subseteq Update
    BY <1>1, <1>2 DEF TypeOK, LocalUpdate
  <1>4. doc' \in [Session -> SUBSET Op]
    BY <1>1 DEF TypeOK, LocalUpdate
  <1>5. timer' \in [Session -> BOOLEAN]
    BY DEF TypeOK, LocalUpdate, Schedule
  <1>6. QED
    BY <1>3, <1>4, <1>5

LEMMA FullStateType ==
  ASSUME TypeOK, NEW s \in Session, NEW ops \in SUBSET Op, NEW r \in BOOLEAN,
         PostFullState(s, ops, r)
  PROVE  posts' \subseteq Update
  BY DEF TypeOK, PostFullState, Update

LEMMA SendFlushType ==
  ASSUME TypeOK, NEW s \in Session, SendFlush(s), timer' \in [Session -> BOOLEAN]
  PROVE  TypeOK'
  <1>1. Text(doc[s]) \subseteq Piece
    BY TextIsPieces DEF TypeOK
  <1>2. [from |-> s, text |-> Text(doc[s]), at |-> "relayed"] \in Flush
    BY <1>1 DEF Flush
  <1>3. flushes' \subseteq Flush
    BY <1>2 DEF SendFlush, TypeOK
  <1>4. nflush' \in Nat
    BY DEF SendFlush, TypeOK
  <1>5. QED
    BY <1>3, <1>4 DEF SendFlush, TypeOK, hubVars, clientVars

\* Type correctness: in every reachable state the variables have their types
\* and the log has not outgrown its cap, whatever is posted to the hub.
THEOREM TypeCorrect == Spec => []TypeOK
  <1>1. Init => TypeOK
    <2> SUFFICES ASSUME Init PROVE TypeOK
      OBVIOUS
    <2>1. call \in [Session -> [{"open", "resync"} -> Call]]
      BY IdleIsCall DEF Init, Fresh
    <2>2. nlog \in 0..MaxDocUpdates
      BY ConstantsOK DEF Init, Fresh
    <2>3. disk \subseteq Piece
      BY DEF Init, Fresh, Piece
    <2>4. QED
      BY <2>1, <2>2, <2>3 DEF Init, Fresh, TypeOK
  <1>2. TypeOK /\ [Next]_vars => TypeOK'
    <2> SUFFICES ASSUME TypeOK, [Next]_vars PROVE TypeOK'
      OBVIOUS
    <2> USE IdleIsCall, ConstantsOK, FaultType
    <2>1. ASSUME NEW s \in Session, OpenFile(s) PROVE TypeOK'
      BY <2>1 DEF OpenFile, TypeOK, hubVars, diskVars
    <2>2. ASSUME NEW s \in Session, OpenAnswer(s) PROVE TypeOK'
      <3>1. call[s]["open"].ops \subseteq Op
        BY DEF TypeOK, Call
      <3>2. QED
        BY <2>2, <3>1 DEF OpenAnswer, TypeOK, hubVars, diskVars
    <2>3. ASSUME NEW s \in Session, OpenFails(s) PROVE TypeOK'
      <3>1. call' \in [Session -> [{"open", "resync"} -> Call]]
        BY <2>3 DEF OpenFails, TypeOK
      <3>2. QED
        BY <2>3, <3>1, DropType DEF OpenFails
    <2>4. ASSUME NEW s \in Session, Close(s) PROVE TypeOK'
      <3>1. call' \in [Session -> [{"open", "resync"} -> Call]]
        BY <2>4 DEF Close, TypeOK
      <3>2. QED
        BY <2>4, <3>1, DropType DEF Close
    <2>5. ASSUME NEW s \in Session, ReadDisk(s) PROVE TypeOK'
      BY <2>5 DEF ReadDisk, TypeOK, hubVars, diskVars
    <2>6. ASSUME NEW s \in Session, ReadFails(s) PROVE TypeOK'
      <3>1. CASE Drop(s)
        <4>1. call' \in [Session -> [{"open", "resync"} -> Call]]
          BY <2>6 DEF ReadFails, TypeOK
        <4>2. QED
          BY <2>6, <3>1, <4>1, DropType DEF ReadFails
      <3>2. CASE ~Drop(s)
        BY <2>6, <3>2 DEF ReadFails, TypeOK, hubVars, diskVars
      <3>3. QED
        BY <3>1, <3>2
    <2>7. ASSUME NEW s \in Session, SeedFromDisk(s) PROVE TypeOK'
      <3>1. 0 \in 0..MaxOps
        OBVIOUS
      <3>2. /\ issued' \subseteq Op
            /\ doc' \in [Session -> SUBSET Op]
            /\ posts' \subseteq Update
            /\ timer' \in [Session -> BOOLEAN]
        BY <2>7, <3>1, LocalUpdateType DEF SeedFromDisk, TypeOK
      <3>3. QED
        BY <2>7, <3>2 DEF SeedFromDisk, TypeOK, hubVars
    <2>8. ASSUME NEW s \in Session, Edit(s) PROVE TypeOK'
      <3>1. PICK n \in 1..MaxOps : LocalUpdate(s, <<s, n>>)
        BY <2>8 DEF Edit
      <3>2. n \in 0..MaxOps
        OBVIOUS
      <3>3. QED
        BY <2>8, <3>1, <3>2, LocalUpdateType DEF Edit, TypeOK, hubVars
    <2>9. ASSUME NEW s \in Session, Receive(s) PROVE TypeOK'
      BY <2>9 DEF Receive, TypeOK, hubVars, diskVars
    <2>10. ASSUME NEW s \in Session, Disconnect(s) PROVE TypeOK'
      BY <2>10 DEF Disconnect, TypeOK, hubVars, clientVars, diskVars
    <2>11. ASSUME NEW s \in Session, Reconnect(s) PROVE TypeOK'
      BY <2>11 DEF Reconnect, TypeOK, hubVars, clientVars, diskVars
    <2>12. ASSUME NEW s \in Session, ResyncAnswer(s) PROVE TypeOK'
      <3>1. call[s]["resync"].ops \subseteq Op
        BY DEF TypeOK, Call
      <3>2. doc' \in [Session -> SUBSET Op]
        BY <2>12, <3>1 DEF ResyncAnswer, TypeOK
      <3>3. posts' \subseteq Update
        BY <2>12, <3>2, FullStateType DEF ResyncAnswer
      <3>4. QED
        BY <2>12, <3>2, <3>3 DEF ResyncAnswer, TypeOK, hubVars, diskVars
    <2>13. ASSUME NEW s \in Session, ResyncFails(s) PROVE TypeOK'
      <3>1. posts' \subseteq Update
        BY <2>13, FullStateType DEF ResyncFails, TypeOK
      <3>2. QED
        BY <2>13, <3>1 DEF ResyncFails, TypeOK, hubVars, clientVars, diskVars
    <2>14. ASSUME NEW s \in Session, AutoFlush(s) PROVE TypeOK'
      <3>1. timer' \in [Session -> BOOLEAN]
        BY <2>14 DEF AutoFlush, TypeOK
      <3>2. QED
        BY <2>14, <3>1, SendFlushType DEF AutoFlush
    <2>15. ASSUME NEW s \in Session, Save(s) PROVE TypeOK'
      <3>1. timer' \in [Session -> BOOLEAN]
        BY <2>15 DEF Save, TypeOK
      <3>2. QED
        BY <2>15, <3>1, SendFlushType DEF Save
    <2>16. ASSUME NEW s \in Session, NEW k \in {"open", "resync"}, SrvOpen(s, k)
           PROVE  TypeOK'
      <3>1. call' \in [Session -> [{"open", "resync"} -> Call]]
        <4>1. PICK seed \in BOOLEAN, ops \in SUBSET Op : Answer(s, k, seed, ops)
          BY <2>16 DEF SrvOpen, TypeOK
        <4>2. [st |-> "answered", seed |-> seed, ops |-> ops] \in Call
          BY DEF Call
        <4>3. QED
          BY <4>1, <4>2 DEF Answer, TypeOK
      <3>2. exists' \in BOOLEAN /\ log' \subseteq Op /\ nlog' \in 0..MaxDocUpdates
        <4>1. 0 \in 0..MaxDocUpdates
          OBVIOUS
        <4>2. CASE UNCHANGED <<exists, log, nlog>>
          BY <4>2 DEF TypeOK
        <4>3. CASE NewRecord
          BY <4>1, <4>3 DEF NewRecord
        <4>4. QED
          BY <2>16, <4>2, <4>3 DEF SrvOpen
      <3>3. faults' \in Nat
        BY <2>16 DEF SrvOpen, TypeOK
      <3>4. QED
        BY <2>16, <3>1, <3>2, <3>3 DEF SrvOpen, TypeOK, clientVars, diskVars
    <2>17. ASSUME NEW m \in posts, SrvUpdate(m) PROVE TypeOK'
      <3>1. m.ops \subseteq Op /\ m \in Update
        BY DEF TypeOK, Update
      <3>2. log' \subseteq Op
        BY <2>17, <3>1 DEF SrvUpdate, TypeOK, hubVars
      <3>3. nlog' \in 0..MaxDocUpdates
        BY <2>17 DEF SrvUpdate, LogFull, TypeOK, hubVars
      <3>4. exists' \in BOOLEAN /\ bcast' \subseteq Update /\ faults' \in Nat
        BY <2>17, <3>1 DEF SrvUpdate, TypeOK, hubVars
      <3>5. QED
        BY <2>17, <3>2, <3>3, <3>4 DEF SrvUpdate, TypeOK, diskVars
    <2>18. ASSUME NEW m \in posts, PostLost(m) PROVE TypeOK'
      BY <2>18 DEF PostLost, TypeOK, hubVars, diskVars
    <2>19. ASSUME NEW m \in bcast, Publish(m) PROVE TypeOK'
      <3>1. m.ops \subseteq Op
        BY DEF TypeOK, Update
      <3>2. inbox' \in [Session -> SUBSET SUBSET Op]
        BY <2>19, <3>1 DEF Publish, TypeOK
      <3>3. QED
        BY <2>19, <3>2 DEF Publish, TypeOK, clientVars, diskVars
    <2>20. ASSUME NEW f \in flushes, HostWrite(f) PROVE TypeOK'
      <3>1. f \in Flush
        BY DEF TypeOK
      <3>2. f.text \subseteq Piece /\ [f EXCEPT !.at = "written"] \in Flush
        BY <3>1 DEF Flush
      <3>3. QED
        BY <2>20, <3>2 DEF HostWrite, TypeOK, hubVars, clientVars
    <2>21. ASSUME NEW f \in flushes, FlushDone(f) PROVE TypeOK'
      <3>1. f.from \in Session
        BY DEF TypeOK, Flush
      <3>2. posts' \subseteq Update
        <4>1. PostFullState(f.from, doc[f.from], TRUE)
          BY <2>21 DEF FlushDone
        <4>2. posts \subseteq Update /\ doc[f.from] \subseteq Op
          BY <3>1 DEF TypeOK
        <4>3. QED
          BY <3>1, <4>1, <4>2, FullStateType
      <3>3. QED
        BY <2>21, <3>2 DEF FlushDone, TypeOK, hubVars, clientVars
    <2>22. ASSUME NEW f \in flushes, FlushAbandoned(f) PROVE TypeOK'
      BY <2>22 DEF FlushAbandoned, TypeOK, hubVars, clientVars
    <2>23. ASSUME NEW f \in flushes, FlushFails(f) PROVE TypeOK'
      <3>1. f \in Flush
        BY DEF TypeOK
      <3>2. [f EXCEPT !.at = "timedout"] \in Flush
        BY <3>1 DEF Flush
      <3>3. QED
        BY <2>23, <3>2 DEF FlushFails, TypeOK, hubVars, clientVars
    <2>24. CASE Restart
      BY <2>24 DEF Restart, TypeOK, clientVars, diskVars
    <2>25. CASE UNCHANGED vars
      BY <2>25 DEF vars, TypeOK
    <2>26. QED
      BY <2>1, <2>2, <2>3, <2>4, <2>5, <2>6, <2>7, <2>8, <2>9, <2>10, <2>11,
         <2>12, <2>13, <2>14, <2>15, <2>16, <2>17, <2>18, <2>19, <2>20, <2>21,
         <2>22, <2>23, <2>24, <2>25 DEF Next
  <1>3. QED
    BY <1>1, <1>2, PTL DEF Spec

-----------------------------------------------------------------------------
(***************************************************************************)
(* SeedOnce.  A candidate is a session that has been made the seeder and   *)
(* may still insert the disk's content, or has done so.  There is at most  *)
(* one, and none before the record exists.                                 *)
(***************************************************************************)
Candidate(s) ==
    \/ /\ status[s] = "opening"
       /\ call[s]["open"].st = "answered" /\ call[s]["open"].seed
    \/ status[s] \in {"reading", "seeding"}
    \/ <<s, 0>> \in issued

SeedInv ==
    /\ ~exists => \A s \in Session : ~Candidate(s)
    /\ \A s, t \in Session : Candidate(s) /\ Candidate(t) => s = t

NoKvFault == {"kvread", "kvwrite"} \cap Faults = {}

\* Only handleDocOpen makes a candidate.
LEMMA OnlyOpenElects ==
  ASSUME TypeOK, [Next]_vars,
         \A s \in Session, k \in {"open", "resync"} : ~SrvOpen(s, k)
  PROVE  /\ exists => exists'
         /\ \A t \in Session : Candidate(t)' => Candidate(t)
  <1>1. ASSUME NEW s \in Session, SeedFromDisk(s)
        PROVE  \A t \in Session : Candidate(t)' => Candidate(t)
    <2>1. status[s] = "seeding" /\ call' = call
      BY <1>1 DEF SeedFromDisk
    <2>2. issued' \subseteq issued \cup {<<s, 0>>}
      BY <1>1 DEF SeedFromDisk, LocalUpdate
    <2>3. \A t \in Session : t # s => <<t, 0>> # <<s, 0>> /\ status'[t] = status[t]
      BY <1>1 DEF SeedFromDisk, TypeOK
    <2>4. QED
      BY <2>1, <2>2, <2>3 DEF Candidate
  <1>2. ASSUME NEW s \in Session, Edit(s)
        PROVE  \A t \in Session : Candidate(t)' => Candidate(t)
    <2>1. PICK n \in 1..MaxOps : issued' = issued \cup {<<s, n>>}
      BY <1>2 DEF Edit, LocalUpdate
    <2>2. \A t \in Session : <<t, 0>> # <<s, n>>
      BY <2>1
    <2>3. QED
      BY <1>2, <2>1, <2>2 DEF Edit, Candidate
  <1>3. ASSUME NEW s \in Session,
               OpenFile(s) \/ OpenAnswer(s) \/ OpenFails(s) \/ Close(s)
               \/ ReadDisk(s) \/ ReadFails(s)
        PROVE  \A t \in Session : Candidate(t)' => Candidate(t)
    <2>1. CASE OpenFile(s)
      BY <2>1 DEF OpenFile, Asked, Candidate, TypeOK
    <2>2. CASE OpenAnswer(s)
      BY <2>2 DEF OpenAnswer, Idle, Candidate, TypeOK
    <2>3. CASE OpenFails(s)
      BY <2>3 DEF OpenFails, Drop, Idle, Candidate, TypeOK
    <2>4. CASE Close(s)
      BY <2>4 DEF Close, Drop, Candidate, TypeOK
    <2>5. CASE ReadDisk(s)
      BY <2>5 DEF ReadDisk, Candidate, TypeOK
    <2>6. CASE ReadFails(s)
      BY <2>6 DEF ReadFails, Drop, Candidate, TypeOK
    <2>7. QED
      BY <1>3, <2>1, <2>2, <2>3, <2>4, <2>5, <2>6
  <1>4. ASSUME NEW s \in Session, Reconnect(s) \/ ResyncAnswer(s) \/ ResyncFails(s)
        PROVE  \A t \in Session : Candidate(t)' => Candidate(t)
    <2>1. status' = status /\ issued' = issued
      BY <1>4 DEF Reconnect, ResyncAnswer, ResyncFails, clientVars
    <2>2. \A t \in Session : call'[t]["open"] = call[t]["open"]
      <3>1. ASSUME NEW c, call' = [call EXCEPT ![s]["resync"] = c]
            PROVE  \A t \in Session : call'[t]["open"] = call[t]["open"]
        BY <3>1 DEF TypeOK
      <3>2. QED
        BY <1>4, <3>1 DEF Reconnect, ResyncAnswer, ResyncFails
    <2>3. QED
      BY <2>1, <2>2 DEF Candidate
  <1>5. ASSUME UNCHANGED <<status, issued, call>>
        PROVE  \A t \in Session : Candidate(t)' => Candidate(t)
    BY <1>5 DEF Candidate
  <1>6. \/ \E s \in Session : SeedFromDisk(s) \/ Edit(s) \/ OpenFile(s)
              \/ OpenAnswer(s) \/ OpenFails(s) \/ Close(s) \/ ReadDisk(s)
              \/ ReadFails(s) \/ Reconnect(s) \/ ResyncAnswer(s)
              \/ ResyncFails(s)
        \/ UNCHANGED <<status, issued, call>>
    BY DEF Next, vars, Receive, Disconnect, AutoFlush, Save, SendFlush,
           SrvUpdate, PostLost, Publish, Restart, HostWrite, FlushDone, FlushAbandoned,
           FlushFails, clientVars
  <1>7. exists => exists'
    BY DEF Next, vars, OpenFile, OpenAnswer, OpenFails, Close, Drop, ReadDisk,
           ReadFails, SeedFromDisk, Edit, Receive, Disconnect, Reconnect,
           ResyncAnswer, ResyncFails, AutoFlush, Save, SendFlush, SrvUpdate,
           PostLost, Publish, Restart, HostWrite, FlushDone, FlushAbandoned, FlushFails,
           hubVars
  <1>8. QED
    BY <1>1, <1>2, <1>3, <1>4, <1>5, <1>6, <1>7

LEMMA OpenElectsOne ==
  ASSUME NoKvFault, TypeOK, SeedInv,
         NEW s \in Session, NEW k \in {"open", "resync"}, SrvOpen(s, k)
  PROVE  SeedInv'
  <1>1. status' = status /\ issued' = issued
    BY DEF SrvOpen, clientVars
  <1>2. \A t \in Session : t # s => call'[t] = call[t]
    BY DEF SrvOpen, Answer, TypeOK
  <1>3. ~Fault("kvread") /\ ~Fault("kvwrite")
    BY DEF NoKvFault, Fault
  <1>4. CASE exists
    <2>1. exists' /\ Answer(s, k, FALSE, log)
      BY <1>3, <1>4 DEF SrvOpen
    <2>2. Candidate(s)' => Candidate(s)
      <3>1. CASE k = "open"
        <4>1. call'[s]["open"] = [st |-> "answered", seed |-> FALSE, ops |-> log]
          BY <2>1, <3>1 DEF Answer, TypeOK
        <4>2. ~call'[s]["open"].seed
          BY <4>1
        <4>3. QED
          BY <1>1, <4>2 DEF Candidate
      <3>2. CASE k = "resync"
        <4>1. call'[s]["open"] = call[s]["open"]
          BY <2>1, <3>2 DEF Answer, TypeOK
        <4>2. QED
          BY <1>1, <4>1 DEF Candidate
      <3>3. QED
        BY <3>1, <3>2
    <2>3. QED
      BY <1>1, <1>2, <2>1, <2>2 DEF SeedInv, Candidate
  <1>5. CASE ~exists
    <2>1. exists'
      BY <1>3, <1>5 DEF SrvOpen, NewRecord
    <2>2. \A t \in Session : t # s => ~Candidate(t)'
      BY <1>1, <1>2, <1>5 DEF SeedInv, Candidate
    <2>3. QED
      BY <2>1, <2>2 DEF SeedInv
  <1>6. QED
    BY <1>4, <1>5

\* At most one session ever inserts the disk's content into the document, for
\* any number of sessions and any interleaving, provided the KV store does not
\* fail.
THEOREM SeededOnce == ASSUME NoKvFault PROVE Spec => []SeedOnce
  <1>1. Init => SeedInv
    BY DEF Init, Fresh, SeedInv, Candidate
  <1>2. TypeOK /\ SeedInv /\ [Next]_vars => SeedInv'
    <2> SUFFICES ASSUME TypeOK, SeedInv, [Next]_vars PROVE SeedInv'
      OBVIOUS
    <2>1. CASE \E s \in Session, k \in {"open", "resync"} : SrvOpen(s, k)
      BY <2>1, OpenElectsOne
    <2>2. CASE \A s \in Session, k \in {"open", "resync"} : ~SrvOpen(s, k)
      BY <2>2, OnlyOpenElects DEF SeedInv
    <2>3. QED
      BY <2>1, <2>2
  <1>3. SeedInv => SeedOnce
    BY DEF SeedInv, SeedOnce, Candidate
  <1>4. QED
    BY <1>1, <1>2, <1>3, TypeCorrect, PTL DEF Spec

-----------------------------------------------------------------------------
(***************************************************************************)
(* NoGap.  To be inductive it needs to know that an author has what it     *)
(* posted (its own echo is ignored), that nothing is in the log before the *)
(* record exists, and which sessions cannot count as synced.               *)
(***************************************************************************)
PostsHeld == \A m \in posts \cup bcast : m.ops \subseteq doc[m.from]

NothingUnstored == ~exists => log = {}

OfflineUnsynced == \A s \in Session : ~conn[s] => ~synced[s]

NewUnsynced ==
    \A s \in Session : status[s] = "new" =>
        ~synced[s] /\ \A k \in {"open", "resync"} : call[s][k].st = "idle"

GapInv == NoGap /\ PostsHeld /\ NothingUnstored /\ OfflineUnsynced /\ NewUnsynced

\* A Y.Doc never forgets an operation.
LEMMA DocGrows ==
  ASSUME TypeOK, [Next]_vars, NEW s \in Session
  PROVE  doc[s] \subseteq doc'[s]
  <1>1. CASE doc' = doc
    BY <1>1
  <1>2. ASSUME NEW t \in Session, NEW ops, doc' = [doc EXCEPT ![t] = @ \cup ops]
        PROVE  doc[s] \subseteq doc'[s]
    BY <1>2 DEF TypeOK
  <1>3. \/ doc' = doc
        \/ \E t \in Session : \E ops : doc' = [doc EXCEPT ![t] = @ \cup ops]
    <2>1. ASSUME NEW t \in Session, Receive(t)
          PROVE  \E ops : doc' = [doc EXCEPT ![t] = @ \cup ops]
      BY <2>1 DEF Receive
    <2>2. ASSUME NEW t \in Session, SeedFromDisk(t) \/ Edit(t)
          PROVE  doc' = doc \/ \E ops : doc' = [doc EXCEPT ![t] = @ \cup ops]
      BY <2>2 DEF SeedFromDisk, Edit, LocalUpdate
    <2>3. ASSUME NEW t \in Session, OpenAnswer(t) \/ ResyncAnswer(t)
          PROVE  \E ops : doc' = [doc EXCEPT ![t] = @ \cup ops]
      BY <2>3 DEF OpenAnswer, ResyncAnswer
    <2>4. \/ doc' = doc
          \/ \E t \in Session : Receive(t) \/ SeedFromDisk(t) \/ Edit(t)
                                \/ OpenAnswer(t) \/ ResyncAnswer(t)
      BY DEF Next, vars, OpenFile, OpenFails, Close, Drop, ReadDisk, ReadFails,
             Disconnect, Reconnect, ResyncFails, AutoFlush, Save, SendFlush,
             SrvOpen, SrvUpdate, PostLost, Publish, Restart, HostWrite, FlushDone,
             FlushAbandoned, FlushFails, clientVars
    <2>5. QED
      BY <2>1, <2>2, <2>3, <2>4
  <1>4. QED
    BY <1>1, <1>2, <1>3

LEMMA PostsHeldStep ==
  ASSUME TypeOK, PostsHeld, [Next]_vars
  PROVE  PostsHeld'
  <1>1. ASSUME NEW s \in Session, NEW ops, ops \subseteq doc'[s], NEW r,
               posts' = posts \cup {[from |-> s, ops |-> ops, replace |-> r]},
               bcast' = bcast
        PROVE  PostsHeld'
    <2>1. \A m \in posts \cup bcast : m.from \in Session
      BY DEF TypeOK, Update
    <2>2. QED
      BY <1>1, <2>1, DocGrows DEF PostsHeld
  <1>2. ASSUME posts' \cup bcast' \subseteq posts \cup bcast
        PROVE  PostsHeld'
    <2>1. \A m \in posts \cup bcast : m.from \in Session
      BY DEF TypeOK, Update
    <2>2. QED
      BY <1>2, <2>1, DocGrows DEF PostsHeld
  <1>3. ASSUME NEW s \in Session, NEW o, LocalUpdate(s, o), bcast' = bcast
        PROVE  PostsHeld'
    <2>1. {o} \subseteq doc'[s]
      BY <1>3 DEF LocalUpdate, TypeOK
    <2>2. QED
      BY <1>1, <1>3, <2>1 DEF LocalUpdate
  <1>4. ASSUME NEW s \in Session, SeedFromDisk(s) \/ Edit(s)
        PROVE  PostsHeld'
    BY <1>2, <1>3, <1>4 DEF SeedFromDisk, Edit, hubVars
  <1>5. ASSUME NEW s \in Session, ResyncAnswer(s) \/ ResyncFails(s)
        PROVE  PostsHeld'
    BY <1>1, <1>2, <1>5 DEF ResyncAnswer, ResyncFails, PostFullState, hubVars,
                            clientVars
  <1>6. ASSUME NEW f \in flushes, FlushDone(f)
        PROVE  PostsHeld'
    <2>1. f.from \in Session /\ doc[f.from] = doc'[f.from]
      BY <1>6 DEF TypeOK, Flush, FlushDone, clientVars
    <2>2. QED
      BY <1>1, <1>6, <2>1 DEF FlushDone, PostFullState, hubVars
  <1>7. \/ \E s \in Session : SeedFromDisk(s) \/ Edit(s) \/ ResyncAnswer(s)
                              \/ ResyncFails(s)
        \/ \E f \in flushes : FlushDone(f)
        \/ posts' \cup bcast' \subseteq posts \cup bcast
    BY DEF Next, vars, OpenFile, OpenAnswer, OpenFails, Close, Drop, ReadDisk,
           ReadFails, Receive, Disconnect, Reconnect, AutoFlush, Save,
           SendFlush, SrvOpen, SrvUpdate, PostLost, Publish, Restart, HostWrite,
           FlushAbandoned, FlushFails, hubVars
  <1>8. QED
    BY <1>2, <1>4, <1>5, <1>6, <1>7

LEMMA FlagsStep ==
  ASSUME TypeOK, GapInv, [Next]_vars
  PROVE  (NothingUnstored /\ OfflineUnsynced /\ NewUnsynced)'
  <1>1. NothingUnstored'
    <2>1. CASE UNCHANGED <<exists, log>>
      BY <2>1 DEF GapInv, NothingUnstored
    <2>2. ASSUME NEW s \in Session, NEW k, SrvOpen(s, k) PROVE NothingUnstored'
      BY <2>2 DEF GapInv, NothingUnstored, SrvOpen, NewRecord
    <2>3. ASSUME NEW m, SrvUpdate(m) PROVE NothingUnstored'
      BY <2>3 DEF GapInv, NothingUnstored, SrvUpdate, hubVars
    <2>4. ASSUME NEW s \in Session,
                 \/ OpenFile(s) \/ OpenAnswer(s) \/ OpenFails(s) \/ Close(s)
                 \/ ReadDisk(s) \/ ReadFails(s) \/ SeedFromDisk(s) \/ Edit(s)
                 \/ Receive(s)
          PROVE  UNCHANGED <<exists, log>>
      BY <2>4 DEF OpenFile, OpenAnswer, OpenFails, Close, Drop, ReadDisk,
         ReadFails, SeedFromDisk, Edit, Receive, hubVars
    <2>5. ASSUME NEW s \in Session,
                 \/ Disconnect(s) \/ Reconnect(s) \/ ResyncAnswer(s)
                 \/ ResyncFails(s) \/ AutoFlush(s) \/ Save(s)
          PROVE  UNCHANGED <<exists, log>>
      BY <2>5 DEF Disconnect, Reconnect, ResyncAnswer, ResyncFails, AutoFlush,
         Save, SendFlush, hubVars
    <2>6. ASSUME NEW m, PostLost(m) \/ Publish(m) \/ Restart
          PROVE  UNCHANGED <<exists, log>>
      BY <2>6 DEF PostLost, Publish, Restart, hubVars
    <2>7. ASSUME NEW f, HostWrite(f) \/ FlushDone(f) \/ FlushAbandoned(f) \/ FlushFails(f)
          PROVE  UNCHANGED <<exists, log>>
      BY <2>7 DEF HostWrite, FlushDone, FlushAbandoned, FlushFails, hubVars
    <2>8. QED
      BY <2>1, <2>2, <2>3, <2>4, <2>5, <2>6, <2>7 DEF Next, vars
  <1>2. OfflineUnsynced'
    <2>1. CASE UNCHANGED <<conn, synced>>
      BY <2>1 DEF GapInv, OfflineUnsynced
    <2>2. ASSUME NEW s \in Session,
                 Disconnect(s) \/ Reconnect(s) \/ ResyncFails(s)
                 \/ \E k \in {"open", "resync"} : SrvOpen(s, k)
          PROVE  OfflineUnsynced'
      <3>1. \/ conn' = [conn EXCEPT ![s] = FALSE] /\ synced' = [synced EXCEPT ![s] = FALSE]
            \/ conn' = [conn EXCEPT ![s] = TRUE] /\ synced' = synced
            \/ conn' = conn /\ synced' = [synced EXCEPT ![s] = FALSE]
            \/ conn' = conn /\ synced' = [synced EXCEPT ![s] = conn[s]]
        BY <2>2 DEF Disconnect, Reconnect, ResyncFails, SrvOpen
      <3>2. conn \in [Session -> BOOLEAN] /\ synced \in [Session -> BOOLEAN]
        BY DEF TypeOK
      <3>3. QED
        BY <3>1, <3>2 DEF GapInv, OfflineUnsynced
    <2>3. CASE Restart
      BY <2>3 DEF GapInv, OfflineUnsynced, Restart
    <2>4. QED
      BY <2>1, <2>2, <2>3 DEF Next, vars, OpenFile, OpenAnswer, OpenFails,
         Close, Drop, ReadDisk, ReadFails, SeedFromDisk, Edit, Receive,
         ResyncAnswer, AutoFlush, Save, SendFlush, SrvUpdate, PostLost,
         Publish, HostWrite, FlushDone, FlushAbandoned, FlushFails
  <1>3. NewUnsynced'
    <2>1. \A t \in Session : status'[t] = "new" => status[t] = "new"
      <3>1. ASSUME NEW s \in Session, NEW st, st # "new",
                   status' = [status EXCEPT ![s] = st]
            PROVE  \A t \in Session : status'[t] = "new" => status[t] = "new"
        BY <3>1 DEF TypeOK
      <3>2. \/ status' = status
            \/ \E s \in Session, st \in {"opening", "reading", "seeding",
                                         "open", "closed"} :
                  status' = [status EXCEPT ![s] = st]
        BY DEF Next, vars, OpenFile, OpenAnswer, OpenFails, Close, Drop,
               ReadDisk, ReadFails, SeedFromDisk, Edit, Receive, Disconnect,
               Reconnect, ResyncAnswer, ResyncFails, AutoFlush, Save, SendFlush,
               SrvOpen, SrvUpdate, PostLost, Publish, Restart, HostWrite, FlushDone,
               FlushAbandoned, FlushFails, clientVars
      <3>3. QED
        BY <3>1, <3>2
    <2>2. ASSUME UNCHANGED <<call, synced>>
          PROVE  NewUnsynced'
      BY <2>1, <2>2 DEF GapInv, NewUnsynced
    <2>3. ASSUME NEW s \in Session, OpenFile(s)
          PROVE  NewUnsynced'
      BY <2>3 DEF GapInv, NewUnsynced, OpenFile, TypeOK
    <2>4. ASSUME NEW s \in Session, OpenAnswer(s) \/ OpenFails(s)
          PROVE  NewUnsynced'
      BY <2>1, <2>4 DEF GapInv, NewUnsynced, OpenAnswer, OpenFails, Drop, TypeOK
    <2>5. ASSUME NEW s \in Session, Disconnect(s) \/ Reconnect(s)
          PROVE  NewUnsynced'
      BY <2>1, <2>5 DEF GapInv, NewUnsynced, Disconnect, Reconnect, Registered,
                        clientVars, TypeOK
    <2>6. ASSUME NEW s \in Session, ResyncAnswer(s) \/ ResyncFails(s)
          PROVE  NewUnsynced'
      BY <2>1, <2>6 DEF GapInv, NewUnsynced, ResyncAnswer, ResyncFails, Idle, TypeOK
    <2>7. ASSUME NEW s \in Session, NEW k \in {"open", "resync"}, SrvOpen(s, k)
          PROVE  NewUnsynced'
      <3>1. status[s] # "new"
        BY <2>7 DEF GapInv, NewUnsynced, SrvOpen
      <3>2. \A t \in Session : t # s => call'[t] = call[t] /\ synced'[t] = synced[t]
        BY <2>7 DEF SrvOpen, Answer, TypeOK
      <3>3. status' = status
        BY <2>7 DEF SrvOpen, clientVars
      <3>4. QED
        BY <3>1, <3>2, <3>3 DEF GapInv, NewUnsynced
    <2>8. CASE Restart
      BY <2>1, <2>8 DEF GapInv, NewUnsynced, Restart
    <2>9. QED
      BY <2>2, <2>3, <2>4, <2>5, <2>6, <2>7, <2>8 DEF Next, vars, Close, Drop,
         ReadDisk, ReadFails, SeedFromDisk, Edit, Receive, AutoFlush, Save,
         SendFlush, SrvUpdate, PostLost, Publish, HostWrite, FlushDone,
         FlushAbandoned, FlushFails
  <1>4. QED
    BY <1>1, <1>2, <1>3

LEMMA NoGapStep ==
  ASSUME TypeOK, GapInv, [Next]_vars
  PROVE  NoGap'
  <1> USE DEF GapInv
  <1>d. \A s \in Session : doc[s] \subseteq doc'[s]
    BY DocGrows
  \* A step that gives no session more to know and takes nothing off its way.
  <1>f. ASSUME log' \subseteq log,
               \A s \in Session : Registered(s)' /\ synced'[s] =>
                  /\ Registered(s) /\ synced[s]
                  /\ \A o \in log : OnItsWay(o, s) =>
                                       o \in doc'[s] \/ OnItsWay(o, s)'
        PROVE  NoGap'
    BY <1>f, <1>d DEF NoGap
  <1>1. ASSUME UNCHANGED <<log, inbox, bcast, call, synced, status>>
        PROVE  NoGap'
    BY <1>1, <1>f DEF OnItsWay, Registered
  <1>2. ASSUME NEW s \in Session, OpenFile(s)
        PROVE  NoGap'
    BY <1>2, <1>f DEF OpenFile, OnItsWay, Registered, NewUnsynced, TypeOK, hubVars
  <1>3. ASSUME NEW s \in Session, OpenAnswer(s)
        PROVE  NoGap'
    <2>1. \A t \in Session, k \in {"open", "resync"} : \A o :
             o \in call[t][k].ops => o \in doc'[t] \/ o \in call'[t][k].ops
      BY <1>3 DEF OpenAnswer, TypeOK
    <2>2. \A t \in Session : Registered(t)' => Registered(t)
      BY <1>3 DEF OpenAnswer, Registered, TypeOK
    <2>3. QED
      BY <1>3, <1>f, <2>1, <2>2 DEF OpenAnswer, OnItsWay, hubVars
  <1>4. ASSUME NEW s \in Session, Drop(s), call' = [call EXCEPT ![s] = call'[s]]
        PROVE  NoGap'
    BY <1>4, <1>f DEF Drop, OnItsWay, Registered, TypeOK, hubVars
  <1>5. ASSUME NEW s \in Session, OpenFails(s) \/ Close(s) \/ ReadFails(s)
        PROVE  NoGap'
    <2>1. CASE Drop(s)
      <3>1. call' = [call EXCEPT ![s] = call'[s]]
        BY <1>5 DEF OpenFails, Close, ReadFails, TypeOK
      <3>2. QED
        BY <1>4, <2>1, <3>1
    <2>2. CASE ~Drop(s)
      BY <1>5, <1>f, <2>2 DEF OpenFails, Close, ReadFails, OnItsWay, Registered,
                              TypeOK, hubVars
    <2>3. QED
      BY <2>1, <2>2
  <1>6. ASSUME NEW s \in Session, ReadDisk(s) \/ SeedFromDisk(s)
        PROVE  NoGap'
    BY <1>6, <1>f DEF ReadDisk, SeedFromDisk, OnItsWay, Registered, TypeOK, hubVars
  <1>7. ASSUME NEW s \in Session, Receive(s)
        PROVE  NoGap'
    <2>1. \A t \in Session : \A o : (\E ops \in inbox[t] : o \in ops) =>
             o \in doc'[t] \/ \E ops \in inbox'[t] : o \in ops
      BY <1>7 DEF Receive, TypeOK
    <2>2. QED
      BY <1>7, <1>f, <2>1 DEF Receive, OnItsWay, Registered, hubVars
  <1>8. ASSUME NEW s \in Session, Disconnect(s)
        PROVE  NoGap'
    BY <1>8, <1>f DEF Disconnect, OnItsWay, Registered, TypeOK, hubVars, clientVars
  <1>9. ASSUME NEW s \in Session, Reconnect(s)
        PROVE  NoGap'
    BY <1>9, <1>f DEF Reconnect, OnItsWay, Registered, OfflineUnsynced, TypeOK,
                      hubVars, clientVars
  <1>10. ASSUME NEW s \in Session, ResyncAnswer(s)
         PROVE  NoGap'
    <2>1. \A t \in Session, k \in {"open", "resync"} : \A o :
             o \in call[t][k].ops => o \in doc'[t] \/ o \in call'[t][k].ops
      BY <1>10 DEF ResyncAnswer, TypeOK
    <2>2. QED
      BY <1>10, <1>f, <2>1 DEF ResyncAnswer, OnItsWay, Registered, hubVars
  <1>11. ASSUME NEW s \in Session, ResyncFails(s)
         PROVE  NoGap'
    BY <1>11, <1>f DEF ResyncFails, OnItsWay, Registered, TypeOK, hubVars, clientVars
  <1>12. ASSUME NEW s \in Session, NEW k \in {"open", "resync"}, SrvOpen(s, k)
         PROVE  NoGap'
    <2>1. \A t \in Session : t # s => call'[t] = call[t] /\ synced'[t] = synced[t]
      BY <1>12 DEF SrvOpen, Answer, TypeOK
    <2>2. UNCHANGED <<inbox, bcast, status, doc>>
      BY <1>12 DEF SrvOpen, clientVars
    <2>3. log' = log \/ log' = {}
      BY <1>12 DEF SrvOpen, NewRecord
    <2>4. \A o \in log' : o \in call'[s][k].ops
      <3>1. CASE exists /\ Answer(s, k, FALSE, log) /\ log' = log
        BY <3>1 DEF Answer, TypeOK
      <3>2. CASE log' = {}
        BY <3>2
      <3>3. QED
        BY <1>12, <3>1, <3>2 DEF SrvOpen, NewRecord, NothingUnstored
    <2>5. QED
      BY <2>1, <2>2, <2>3, <2>4 DEF NoGap, OnItsWay, Registered
  <1>13. ASSUME NEW m \in posts, SrvUpdate(m)
         PROVE  NoGap'
    <2>1. bcast \subseteq bcast'
      BY <1>13 DEF SrvUpdate, hubVars
    <2>2. \A o \in log' : o \in log \/ \E b \in bcast' : o \in b.ops
      BY <1>13 DEF SrvUpdate, hubVars
    <2>3. QED
      BY <1>13, <2>1, <2>2 DEF SrvUpdate, NoGap, OnItsWay, Registered
  <1>14. ASSUME NEW m \in bcast, Publish(m)
         PROVE  NoGap'
    <2>1. ASSUME NEW s \in Session, Registered(s), synced[s], NEW o, o \in m.ops
          PROVE  o \in doc[s] \/ \E ops \in inbox'[s] : o \in ops
      <3>1. CASE s = m.from
        BY <2>1, <3>1 DEF PostsHeld
      <3>2. CASE s # m.from
        <4>1. conn[s]
          BY <2>1 DEF OfflineUnsynced, TypeOK
        <4>2. m.ops \in inbox'[s]
          BY <1>14, <2>1, <3>2, <4>1 DEF Publish, Hears
        <4>3. QED
          BY <2>1, <4>2
      <3>3. QED
        BY <3>1, <3>2
    <2>2. \A s \in Session : inbox[s] \subseteq inbox'[s]
      BY <1>14 DEF Publish, TypeOK
    <2>3. UNCHANGED <<log, status, doc, call, synced>> /\ bcast' = bcast \ {m}
      BY <1>14 DEF Publish, clientVars
    <2>4. QED
      BY <1>f, <2>1, <2>2, <2>3 DEF OnItsWay, Registered
  <1>15. CASE Restart
    <2>1. ASSUME NEW s \in Session, Registered(s), synced'[s], NEW m \in bcast
          PROVE  m.ops \subseteq doc[s]
      <3>1. synced[s] /\ ~Hears(s, m)
        BY <1>15, <2>1 DEF Restart
      <3>2. conn[s]
        BY <3>1 DEF OfflineUnsynced, TypeOK
      <3>3. s = m.from
        BY <2>1, <3>1, <3>2 DEF Hears
      <3>4. QED
        BY <2>1, <3>1, <3>3 DEF PostsHeld
    <2>2. /\ UNCHANGED <<log, status, doc, call, inbox>>
          /\ \A s \in Session : synced'[s] => synced[s]
      BY <1>15 DEF Restart, clientVars
    <2>3. QED
      BY <2>1, <2>2 DEF NoGap, OnItsWay, Registered
  <1>16. QED
    BY <1>1, <1>2, <1>3, <1>5, <1>6, <1>7, <1>8, <1>9, <1>10, <1>11, <1>12,
       <1>13, <1>14, <1>15 DEF Next, vars, Edit, AutoFlush, Save, SendFlush, PostLost,
       HostWrite, FlushDone, FlushAbandoned, FlushFails, hubVars, clientVars

\* No hole between the log and the events: whatever the interleaving of opens,
\* edits, compactions, closings, reconnects and failures -- of the KV store
\* too --, an operation in the log has reached every open session that asked
\* for the log and missed no event since, or it is on its way there.
THEOREM GapFree == Spec => []NoGap
  <1>1. Init => GapInv
    BY DEF Init, Fresh, GapInv, NoGap, PostsHeld, NothingUnstored, OfflineUnsynced,
           NewUnsynced, Idle
  <1>2. TypeOK /\ GapInv /\ [Next]_vars => GapInv'
    BY NoGapStep, PostsHeldStep, FlagsStep DEF GapInv
  <1>3. GapInv => NoGap
    BY DEF GapInv
  <1>4. QED
    BY <1>1, <1>2, <1>3, TypeCorrect, PTL DEF Spec
=============================================================================
