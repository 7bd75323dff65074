---------------------------- MODULE DocHubProofs ----------------------------
(***************************************************************************)
(* The hub of a document implements the atomic record of DocStore, for any *)
(* number of requests and failures and every cap of the log.  The lock is  *)
(* what the proof rests on: of the handlers that have read the record and  *)
(* not yet decided there is one, the holder, and what it has read is the   *)
(* record, or nothing if its read failed.                                  *)
(***************************************************************************)
EXTENDS DocHub, TLAPS

\* Whoever has the record in hand holds the lock.
LockIsHeld == \A r \in DocReq : stage[r] \in {"locked", "read", "decided"} => holder = r

\* A handler that decides does so by the record as it is.
CopyIsCurrent ==
    \A r \in DocReq : stage[r] = "read" =>
        copy[r] = IF docThere /\ r \notin misread
                  THEN [found |-> TRUE, updates |-> docLog] ELSE NoRecord

\* How far a handler has come and what has become of its request.
StageAgrees ==
    \A r \in DocReq :
        /\ stage[r] = "idle" <=> outcome[r] = "none"
        /\ stage[r] \in {"waiting", "locked", "read"} => outcome[r] = "asked"
        /\ stage[r] \in {"decided", "unlocked", "published"} =>
             outcome[r] \notin {"none", "asked"}
        /\ stage[r] = "decided" /\ wish[r] = "open" => outcome[r] # "kept"
        /\ stage[r] = "published" => r \in shown
        /\ stage[r] \in {"idle", "waiting", "locked"} => r \notin misread
        /\ r \in shown => stage[r] \in {"published", "over"}

HubInv == HubTypeOK /\ LockIsHeld /\ CopyIsCurrent /\ StageAgrees

-----------------------------------------------------------------------------
(***************************************************************************)
(* Types.                                                                  *)
(***************************************************************************)
LEMMA NoRecordIsRecord == NoRecord \in Record
<1>1. <<>> \in Seq(DocReq)
  OBVIOUS
<1> QED
  BY <1>1 DEF NoRecord, Record

\* The logs the hub writes are within the cap.
LEMMA EmptyLog ==
    ASSUME NEW log, log = <<>>
    PROVE  log \in Seq(DocReq) /\ Len(log) <= MaxDocLog
<1>1. log \in Seq(DocReq) /\ Len(log) = 0
  OBVIOUS
<1> QED
  BY <1>1, MaxDocLogOK

LEMMA CompactedLog ==
    ASSUME NEW r \in DocReq, NEW log, log = <<r>>
    PROVE  log \in Seq(DocReq) /\ Len(log) <= MaxDocLog
<1>1. log \in Seq(DocReq) /\ Len(log) = 1
  OBVIOUS
<1> QED
  BY <1>1, MaxDocLogOK

LEMMA AppendedLog ==
    ASSUME NEW r \in DocReq, NEW old \in Seq(DocReq), Len(old) < MaxDocLog,
           NEW log, log = Append(old, r)
    PROVE  log \in Seq(DocReq) /\ Len(log) <= MaxDocLog
<1>1. log \in Seq(DocReq) /\ Len(log) = Len(old) + 1 /\ Len(old) \in Nat
  OBVIOUS
<1> QED
  BY <1>1, MaxDocLogOK

LEMMA HubTypeInit == HubInit => HubTypeOK
<1> SUFFICES ASSUME HubInit PROVE HubTypeOK
  OBVIOUS
<1>1. docLog \in Seq(DocReq) /\ Len(docLog) <= MaxDocLog
  BY EmptyLog DEF HubInit
<1>2. copy \in [DocReq -> Record]
  BY NoRecordIsRecord DEF HubInit
<1>3. caughtUp \in [DocReq -> Seq(DocReq)]
  <2>1. <<>> \in Seq(DocReq)
    OBVIOUS
  <2> QED
    BY <2>1 DEF HubInit
<1>4. /\ wish \in [DocReq -> Wish \cup {"nothing"}]
      /\ stage \in [DocReq -> {"idle", "waiting", "locked", "read", "decided",
                               "unlocked", "published", "over"}]
      /\ outcome \in [DocReq -> {"none", "asked", "joined", "seeder", "kept",
                                 "refused", "failed"}]
  BY DEF HubInit
<1>5. /\ docThere \in BOOLEAN /\ holder \in DocReq \cup {NoDocReq}
      /\ misread \subseteq DocReq /\ shown \subseteq DocReq /\ hubLapses \in Nat
  BY DEF HubInit
<1> QED
  BY <1>1, <1>2, <1>3, <1>4, <1>5 DEF HubTypeOK

LEMMA HubTypeStep == HubTypeOK /\ [HubNext]_hubDocVars => HubTypeOK'
<1> SUFFICES ASSUME HubTypeOK, [HubNext]_hubDocVars PROVE HubTypeOK'
  OBVIOUS
<1> USE DEF HubTypeOK, Moves, Decides
<1>1. ASSUME NEW r \in DocReq, AskHub(r) PROVE HubTypeOK'
  BY <1>1 DEF AskHub
<1>2. ASSUME NEW r \in DocReq, LockDoc(r) PROVE HubTypeOK'
  BY <1>2 DEF LockDoc
<1>3. ASSUME NEW r \in DocReq, LoadDoc(r) PROVE HubTypeOK'
  <2>1. [found |-> TRUE, updates |-> docLog] \in Record
    BY DEF Record
  <2>2. copy' \in [DocReq -> Record]
    BY <1>3, <2>1, NoRecordIsRecord DEF LoadDoc
  <2>3. misread' \subseteq DocReq /\ hubLapses' \in Nat
    BY <1>3 DEF LoadDoc, HubLapse
  <2>4. stage' = [stage EXCEPT ![r] = "read"]
          /\ UNCHANGED <<docThere, docLog, wish, holder, outcome, caughtUp, shown>>
    BY <1>3 DEF LoadDoc
  <2> QED
    BY <2>2, <2>3, <2>4
<1>4. ASSUME NEW r \in DocReq, JoinDoc(r) PROVE HubTypeOK'
  <2>1. copy[r].updates \in Seq(DocReq)
    BY DEF Record
  <2>2. caughtUp' \in [DocReq -> Seq(DocReq)]
    BY <1>4, <2>1 DEF JoinDoc
  <2> QED
    BY <1>4, <2>2 DEF JoinDoc
<1>5. ASSUME NEW r \in DocReq, SeedDoc(r) PROVE HubTypeOK'
  <2>1. docLog' \in Seq(DocReq) /\ Len(docLog') <= MaxDocLog
    <3>1. docLog' = <<>> \/ docLog' = docLog
      BY <1>5 DEF SeedDoc
    <3> QED
      BY <3>1, EmptyLog
  <2>2. docThere' \in BOOLEAN
    BY <1>5 DEF SeedDoc
  <2>3. hubLapses' \in Nat
    BY <1>5 DEF SeedDoc, HubLapse
  <2> QED
    BY <1>5, <2>1, <2>2, <2>3 DEF SeedDoc
<1>6. ASSUME NEW r \in DocReq, RefuseUpdate(r) PROVE HubTypeOK'
  BY <1>6 DEF RefuseUpdate
<1>7. ASSUME NEW r \in DocReq, SaveUpdate(r) PROVE HubTypeOK'
  <2>1. copy[r].updates \in Seq(DocReq)
    BY DEF Record
  <2>2. \/ docLog' = docLog
        \/ docLog' = <<r>>
        \/ docLog' = Append(copy[r].updates, r) /\ Len(copy[r].updates) < MaxDocLog
    BY <1>7 DEF SaveUpdate
  <2>3. docLog' \in Seq(DocReq) /\ Len(docLog') <= MaxDocLog
    BY <2>1, <2>2, CompactedLog, AppendedLog
  <2>4. docThere' \in BOOLEAN
    BY <1>7 DEF SaveUpdate
  <2>5. hubLapses' \in Nat
    BY <1>7 DEF SaveUpdate, HubLapse
  <2>6. \E end \in {"kept", "failed"} :
          /\ stage' = [stage EXCEPT ![r] = "decided"]
          /\ outcome' = [outcome EXCEPT ![r] = end]
    BY <1>7 DEF SaveUpdate
  <2>7. UNCHANGED <<wish, holder, copy, caughtUp, misread, shown>>
    BY <1>7 DEF SaveUpdate
  <2> QED
    BY <2>3, <2>4, <2>5, <2>6, <2>7
<1>8. ASSUME NEW r \in DocReq, UnlockDoc(r) PROVE HubTypeOK'
  BY <1>8 DEF UnlockDoc
<1>9. ASSUME NEW r \in DocReq, PublishUpdate(r) PROVE HubTypeOK'
  BY <1>9 DEF PublishUpdate
<1>10. ASSUME NEW r \in DocReq, AnswerDoc(r) PROVE HubTypeOK'
  BY <1>10 DEF AnswerDoc
<1>11. CASE HubRestart
  BY <1>11 DEF HubRestart, HubLapse
<1>12. CASE UNCHANGED hubDocVars
  BY <1>12 DEF hubDocVars
<1> QED
  BY <1>1, <1>2, <1>3, <1>4, <1>5, <1>6, <1>7, <1>8, <1>9, <1>10, <1>11, <1>12
  DEF HubNext

\* Every variable keeps its type, and the log its cap.
THEOREM HubTypeCorrect == HubSpec => []HubTypeOK
  BY HubTypeInit, HubTypeStep, PTL DEF HubSpec

-----------------------------------------------------------------------------
(***************************************************************************)
(* The lock.  A handler that changes the record holds the lock and leaves  *)
(* what it has read behind; the copies of others are not in use.           *)
(***************************************************************************)
LEMMA HubInvInit == HubInit => HubInv
  BY HubTypeInit, NoDocReqOK
  DEF HubInit, HubInv, LockIsHeld, CopyIsCurrent, StageAgrees

LEMMA LockStep == HubInv /\ [HubNext]_hubDocVars => LockIsHeld'
<1> SUFFICES ASSUME HubInv, [HubNext]_hubDocVars PROVE LockIsHeld'
  OBVIOUS
<1> USE DEF HubInv, HubTypeOK, LockIsHeld, Moves, Decides
<1>1. ASSUME NEW r \in DocReq, AskHub(r) PROVE LockIsHeld'
  BY <1>1 DEF AskHub
<1>2. ASSUME NEW r \in DocReq, LockDoc(r) PROVE LockIsHeld'
  BY <1>2, NoDocReqOK DEF LockDoc
<1>3. ASSUME NEW r \in DocReq,
             LoadDoc(r) \/ JoinDoc(r) \/ SeedDoc(r) \/ RefuseUpdate(r) \/ SaveUpdate(r)
      PROVE  LockIsHeld'
  <2>1. UNCHANGED holder /\ holder = r
    BY <1>3 DEF LoadDoc, JoinDoc, SeedDoc, RefuseUpdate, SaveUpdate
  <2>2. \A q \in DocReq : q # r => stage'[q] = stage[q]
    BY <1>3 DEF LoadDoc, JoinDoc, SeedDoc, RefuseUpdate, SaveUpdate
  <2> QED
    BY <2>1, <2>2
<1>4. ASSUME NEW r \in DocReq, UnlockDoc(r) PROVE LockIsHeld'
  BY <1>4 DEF UnlockDoc
<1>5. ASSUME NEW r \in DocReq, PublishUpdate(r) PROVE LockIsHeld'
  BY <1>5 DEF PublishUpdate
<1>6. ASSUME NEW r \in DocReq, AnswerDoc(r) PROVE LockIsHeld'
  BY <1>6 DEF AnswerDoc
<1>7. CASE HubRestart
  BY <1>7 DEF HubRestart
<1>8. CASE UNCHANGED hubDocVars
  BY <1>8 DEF hubDocVars
<1> QED
  BY <1>1, <1>2, <1>3, <1>4, <1>5, <1>6, <1>7, <1>8 DEF HubNext

LEMMA CopyStep == HubInv /\ [HubNext]_hubDocVars => CopyIsCurrent'
<1> SUFFICES ASSUME HubInv, [HubNext]_hubDocVars,
                    NEW q \in DocReq, stage'[q] = "read"
             PROVE  copy'[q] = IF docThere' /\ q \notin misread'
                               THEN [found |-> TRUE, updates |-> docLog']
                               ELSE NoRecord
  BY DEF CopyIsCurrent
<1> DEFINE Current == copy'[q] = IF docThere' /\ q \notin misread'
                                 THEN [found |-> TRUE, updates |-> docLog']
                                 ELSE NoRecord
<1> USE DEF HubInv, HubTypeOK, Moves, Decides
<1>0. ASSUME stage[q] = "read", UNCHANGED <<docThere, docLog, copy, misread>>
      PROVE  Current
  BY <1>0 DEF CopyIsCurrent
<1>1. ASSUME NEW r \in DocReq,
             AskHub(r) \/ LockDoc(r) \/ RefuseUpdate(r) \/ JoinDoc(r)
                \/ UnlockDoc(r) \/ PublishUpdate(r) \/ AnswerDoc(r)
      PROVE  Current
  BY <1>0, <1>1
  DEF AskHub, LockDoc, RefuseUpdate, JoinDoc, UnlockDoc, PublishUpdate, AnswerDoc
<1>2. ASSUME NEW r \in DocReq, LoadDoc(r) PROVE Current
  <2>1. CASE q = r
    BY <1>2, <2>1 DEF LoadDoc, StageAgrees
  <2>2. CASE q # r
    BY <1>2, <2>2 DEF LoadDoc, CopyIsCurrent
  <2> QED
    BY <2>1, <2>2
<1>3. ASSUME NEW r \in DocReq, SeedDoc(r) \/ SaveUpdate(r) PROVE Current
  <2>1. stage[r] = "read" /\ stage'[r] = "decided"
    BY <1>3 DEF SeedDoc, SaveUpdate
  <2>2. stage[q] = "read" /\ q # r
    BY <1>3, <2>1 DEF SeedDoc, SaveUpdate
  <2> QED
    BY <2>1, <2>2 DEF LockIsHeld
<1>4. CASE HubRestart
  BY <1>4 DEF HubRestart
<1>5. CASE UNCHANGED hubDocVars
  BY <1>0, <1>5 DEF hubDocVars
<1> QED
  BY <1>1, <1>2, <1>3, <1>4, <1>5 DEF HubNext

LEMMA StageStep == HubInv /\ [HubNext]_hubDocVars => StageAgrees'
<1> SUFFICES ASSUME HubInv, [HubNext]_hubDocVars PROVE StageAgrees'
  OBVIOUS
<1> USE DEF HubInv, HubTypeOK, StageAgrees, Moves, Decides
<1>1. ASSUME NEW r \in DocReq, AskHub(r) PROVE StageAgrees'
  BY <1>1 DEF AskHub
<1>2. ASSUME NEW r \in DocReq, LockDoc(r) PROVE StageAgrees'
  BY <1>2 DEF LockDoc
<1>3. ASSUME NEW r \in DocReq, LoadDoc(r) PROVE StageAgrees'
  BY <1>3 DEF LoadDoc
<1>4. ASSUME NEW r \in DocReq, JoinDoc(r) PROVE StageAgrees'
  BY <1>4 DEF JoinDoc
<1>5. ASSUME NEW r \in DocReq, SeedDoc(r) PROVE StageAgrees'
  BY <1>5 DEF SeedDoc
<1>6. ASSUME NEW r \in DocReq, RefuseUpdate(r) PROVE StageAgrees'
  BY <1>6 DEF RefuseUpdate
<1>7. ASSUME NEW r \in DocReq, SaveUpdate(r) PROVE StageAgrees'
  <2>1. PICK end \in {"kept", "failed"} : Decides(r, end)
    BY <1>7 DEF SaveUpdate
  <2>2. stage[r] = "read" /\ wish[r] # "open" /\ UNCHANGED <<wish, misread, shown>>
    BY <1>7 DEF SaveUpdate
  <2> QED
    BY <2>1, <2>2
<1>8. ASSUME NEW r \in DocReq, UnlockDoc(r) PROVE StageAgrees'
  BY <1>8 DEF UnlockDoc
<1>9. ASSUME NEW r \in DocReq, PublishUpdate(r) PROVE StageAgrees'
  BY <1>9 DEF PublishUpdate
<1>10. ASSUME NEW r \in DocReq, AnswerDoc(r) PROVE StageAgrees'
  BY <1>10 DEF AnswerDoc
<1>11. CASE HubRestart
  BY <1>11 DEF HubRestart
<1>12. CASE UNCHANGED hubDocVars
  BY <1>12 DEF hubDocVars
<1> QED
  BY <1>1, <1>2, <1>3, <1>4, <1>5, <1>6, <1>7, <1>8, <1>9, <1>10, <1>11, <1>12
  DEF HubNext

LEMMA HubAlways == HubSpec => []HubInv
<1>1. HubInv /\ [HubNext]_hubDocVars => HubInv'
  BY HubTypeStep, LockStep, CopyStep, StageStep DEF HubInv
<1> QED
  BY <1>1, HubInvInit, PTL DEF HubSpec

-----------------------------------------------------------------------------
(***************************************************************************)
(* The refinement, one step of the hub at a time.                          *)
(***************************************************************************)
\* Only the answer and the restart end a request.
LEMMA StillOver ==
    ASSUME HubTypeOK, NEW r \in DocReq, NEW s \in {"waiting", "locked", "read",
                                   "decided", "unlocked", "published"},
           Moves(r, s), stage[r] # "over"
    PROVE  UNCHANGED Over
  BY DEF HubTypeOK, Moves, Over

\* A handler that has read the record finds what the request would find now.
LEMMA FindsTheRecord ==
    ASSUME HubInv, NEW r \in DocReq, stage[r] = "read"
    PROVE  /\ copy[r].found = Store!Finds(r)
           /\ copy[r].updates = Store!Log(r)
           /\ outcome[r] = "asked" /\ r \notin Over
<1>1. outcome[r] = "asked" /\ r \notin Over
  BY DEF HubInv, StageAgrees, Over
<1>2. copy[r] = IF Store!Finds(r) THEN [found |-> TRUE, updates |-> docLog]
                                  ELSE NoRecord
  BY DEF HubInv, CopyIsCurrent, Store!Finds
<1>3. Store!Finds(r) \in BOOLEAN
  BY DEF HubInv, HubTypeOK, Store!Finds
<1>4. CASE Store!Finds(r)
  BY <1>1, <1>2, <1>3, <1>4 DEF Store!Log
<1>5. CASE ~Store!Finds(r)
  <2>1. copy[r].found = FALSE /\ copy[r].updates = <<>>
    BY <1>2, <1>5 DEF NoRecord
  <2>2. Store!Finds(r) = FALSE /\ Store!Log(r) = <<>>
    BY <1>3, <1>5 DEF Store!Log
  <2> QED
    BY <1>1, <2>1, <2>2
<1> QED
  BY <1>4, <1>5

LEMMA LoadIsQuiet ==
    ASSUME HubInv, NEW r \in DocReq, LoadDoc(r)
    PROVE  Store!Misread(r) \/ UNCHANGED Store!storeVars
<1>1. UNCHANGED Over
  BY StillOver DEF HubInv, LoadDoc
<1>2. outcome[r] = "asked" /\ r \notin Over
  BY DEF HubInv, StageAgrees, LoadDoc, Over
<1> QED
  BY <1>1, <1>2 DEF LoadDoc, Store!Misread, Store!storeVars

LEMMA JoinIsJoin ==
    ASSUME HubInv, NEW r \in DocReq, JoinDoc(r)
    PROVE  Store!Join(r)
<1>1. UNCHANGED Over
  BY StillOver DEF HubInv, JoinDoc, Decides
<1>2. Store!Finds(r) /\ copy[r].updates = docLog /\ outcome[r] = "asked" /\ r \notin Over
  BY FindsTheRecord DEF JoinDoc, Store!Log
<1> QED
  BY <1>1, <1>2
  DEF JoinDoc, Decides, Store!Join, Store!Undecided, Store!Becomes

LEMMA SeedIsSeed ==
    ASSUME HubInv, NEW r \in DocReq, SeedDoc(r)
    PROVE  Store!Seed(r)
<1>1. UNCHANGED Over
  BY StillOver DEF HubInv, SeedDoc, Decides
<1>2. ~Store!Finds(r) /\ outcome[r] = "asked" /\ r \notin Over
  BY FindsTheRecord DEF SeedDoc
<1> QED
  BY <1>1, <1>2
  DEF SeedDoc, Decides, Store!Seed, Store!Undecided, Store!Becomes

LEMMA RefuseIsRefuse ==
    ASSUME HubInv, NEW r \in DocReq, RefuseUpdate(r)
    PROVE  Store!Refuse(r)
<1>1. UNCHANGED Over
  BY StillOver DEF HubInv, RefuseUpdate, Decides
<1>2. Len(Store!Log(r)) >= MaxDocLog /\ outcome[r] = "asked" /\ r \notin Over
  BY FindsTheRecord DEF RefuseUpdate
<1> QED
  BY <1>1, <1>2
  DEF RefuseUpdate, Decides, Store!Refuse, Store!Undecided, Store!Becomes

LEMMA SaveIsKeep ==
    ASSUME HubInv, NEW r \in DocReq, SaveUpdate(r)
    PROVE  Store!Keep(r) \/ Store!NotKept(r)
<1>1. UNCHANGED Over
  BY StillOver DEF HubInv, SaveUpdate, Decides
<1>2. copy[r].updates = Store!Log(r) /\ outcome[r] = "asked" /\ r \notin Over
  BY FindsTheRecord DEF SaveUpdate
<1>3. CASE outcome' = [outcome EXCEPT ![r] = "kept"] /\ docThere' = TRUE
             /\ docLog' = IF wish[r] = "replace" THEN <<r>>
                                                 ELSE Append(copy[r].updates, r)
  BY <1>1, <1>2, <1>3 DEF SaveUpdate, Store!Keep, Store!Undecided, Store!Becomes
<1>4. CASE outcome' = [outcome EXCEPT ![r] = "failed"]
             /\ UNCHANGED <<docThere, docLog>>
  BY <1>1, <1>2, <1>4 DEF SaveUpdate, Store!NotKept, Store!Undecided, Store!Becomes
<1> QED
  BY <1>3, <1>4 DEF SaveUpdate, Decides

LEMMA PublishIsShow ==
    ASSUME HubInv, NEW r \in DocReq, PublishUpdate(r)
    PROVE  Store!Show(r)
<1>1. UNCHANGED Over
  BY StillOver DEF HubInv, PublishUpdate
<1>2. r \notin Over /\ r \notin shown
  BY DEF HubInv, StageAgrees, PublishUpdate, Over
<1> QED
  BY <1>1, <1>2 DEF PublishUpdate, Store!Show

LEMMA AnswerIsAnswer ==
    ASSUME HubInv, NEW r \in DocReq, AnswerDoc(r)
    PROVE  Store!Answer(r)
<1>1. Over' = Over \cup {r} /\ r \notin Over
  BY DEF HubInv, HubTypeOK, AnswerDoc, Moves, Over
<1>2. outcome[r] \notin {"none", "asked"} /\ (outcome[r] = "kept" => r \in shown)
  BY DEF HubInv, StageAgrees, AnswerDoc
<1> QED
  BY <1>1, <1>2 DEF AnswerDoc, Store!Answer

LEMMA RestartIsCutOff ==
    ASSUME HubInv, HubRestart
    PROVE  Store!CutOff
<1>1. Over' = {r \in DocReq : outcome[r] # "none"}
  BY DEF HubInv, HubTypeOK, StageAgrees, HubRestart, Over
<1> QED
  BY <1>1 DEF HubRestart, Store!CutOff

\* Each step of a handler is a step of the record, or changes nothing of it.
LEMMA HubStepsAreStoreSteps ==
    HubInv /\ [HubNext]_hubDocVars => [Store!Next]_(Store!storeVars)
<1> SUFFICES ASSUME HubInv, [HubNext]_hubDocVars
             PROVE  Store!Next \/ UNCHANGED Store!storeVars
  OBVIOUS
<1>1. ASSUME NEW r \in DocReq, AskHub(r) PROVE Store!Ask(r)
  <2>1. UNCHANGED Over
    BY <1>1, StillOver DEF HubInv, AskHub
  <2> QED
    BY <1>1, <2>1
    DEF HubInv, StageAgrees, AskHub, Wish, Store!Ask, Store!Becomes
<1>2. ASSUME NEW r \in DocReq, LockDoc(r) \/ UnlockDoc(r)
      PROVE  UNCHANGED Store!storeVars
  <2>1. UNCHANGED Over
    BY <1>2, StillOver DEF HubInv, LockDoc, UnlockDoc
  <2> QED
    BY <1>2, <2>1 DEF LockDoc, UnlockDoc, Store!storeVars
<1>3. CASE UNCHANGED hubDocVars
  BY <1>3 DEF hubDocVars, Store!storeVars, Over
<1> QED
  BY <1>1, <1>2, <1>3, LoadIsQuiet, JoinIsJoin, SeedIsSeed, RefuseIsRefuse,
     SaveIsKeep, PublishIsShow, AnswerIsAnswer, RestartIsCutOff
  DEF HubNext, Store!Next

\* Under its lock the hub makes of reads, writes and failures a record that
\* every request meets at one moment, and shows only what the record has taken.
THEOREM HubImplementsStore == HubSpec => IsDocStore
<1>1. HubInit => Store!Init
  BY DEF HubInit, Store!Init, Over
<1> QED
  BY <1>1, HubAlways, HubStepsAreStoreSteps, PTL DEF HubSpec, IsDocStore, Store!Spec
=============================================================================
