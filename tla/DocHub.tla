------------------------------- MODULE DocHub -------------------------------
(***************************************************************************)
(* The plugin's hub of one live document (server/codespace_doc.go), as its *)
(* handlers run: each waits for the document's lock, reads the record,     *)
(* writes it and unlocks, and an update is published after that.  A read   *)
(* and a write of the KV store are steps of their own, each may fail, and  *)
(* a restart of the plugin may fall between any two steps.                 *)
(*                                                                         *)
(* LiveDoc takes what a handler does under the lock for one step, and this *)
(* module shows why it may: the hub implements DocStore.  An update is     *)
(* opaque to the hub; a request that updates stands for its update.        *)
(***************************************************************************)
EXTENDS Naturals, Sequences

CONSTANTS
    DocReq,         \* requests to open the document or to update it
    MaxDocLog,      \* length at which an append is refused (maxDocUpdates)
    MaxHubLapses    \* bound: failing KV operations and restarts

ASSUME MaxDocLogOK == MaxDocLog \in Nat \ {0}
ASSUME MaxHubLapsesOK == MaxHubLapses \in Nat

NoDocReq == "nobody"
ASSUME NoDocReqOK == NoDocReq \notin DocReq

VARIABLES
    docThere,       \* the record is in the KV store
    docLog,         \* the updates in it
    wish,           \* per request: what it asks for
    stage,          \* how far its handler has come
    holder,         \* the request whose handler has the document's lock
    copy,           \* per request: the record as loadDoc returned it
    outcome,        \* per request: what has become of it
    caughtUp,       \* per opener: the updates it has been given
    misread,        \* history: the requests whose read failed
    shown,          \* the updates published
    hubLapses       \* failures so far

hubDocVars == <<docThere, docLog, wish, stage, holder, copy, outcome, caughtUp,
                misread, shown, hubLapses>>

Wish == {"open", "append", "replace"}
Record == [found : BOOLEAN, updates : Seq(DocReq)]
NoRecord == [found |-> FALSE, updates |-> <<>>]

HubTypeOK ==
    /\ docThere \in BOOLEAN
    /\ docLog \in Seq(DocReq) /\ Len(docLog) <= MaxDocLog
    /\ wish \in [DocReq -> Wish \cup {"nothing"}]
    /\ stage \in [DocReq -> {"idle", "waiting", "locked", "read", "decided",
                             "unlocked", "published", "over"}]
    /\ holder \in DocReq \cup {NoDocReq}
    /\ copy \in [DocReq -> Record]
    /\ outcome \in [DocReq -> {"none", "asked", "joined", "seeder", "kept",
                               "refused", "failed"}]
    /\ caughtUp \in [DocReq -> Seq(DocReq)]
    /\ misread \subseteq DocReq /\ shown \subseteq DocReq
    /\ hubLapses \in Nat

HubInit ==
    /\ docThere = FALSE /\ docLog = <<>>
    /\ wish = [r \in DocReq |-> "nothing"]
    /\ stage = [r \in DocReq |-> "idle"]
    /\ holder = NoDocReq
    /\ copy = [r \in DocReq |-> NoRecord]
    /\ outcome = [r \in DocReq |-> "none"]
    /\ caughtUp = [r \in DocReq |-> <<>>]
    /\ misread = {} /\ shown = {} /\ hubLapses = 0

HubLapse == hubLapses < MaxHubLapses /\ hubLapses' = hubLapses + 1

Moves(r, next) == stage' = [stage EXCEPT ![r] = next]

Decides(r, end) ==
    /\ Moves(r, "decided")
    /\ outcome' = [outcome EXCEPT ![r] = end]

\* The request has passed the checks of docCtx and of the rules.
AskHub(r) ==
    /\ stage[r] = "idle"
    /\ \E w \in Wish : wish' = [wish EXCEPT ![r] = w]
    /\ Moves(r, "waiting")
    /\ outcome' = [outcome EXCEPT ![r] = "asked"]
    /\ UNCHANGED <<docThere, docLog, holder, copy, caughtUp, misread, shown,
                   hubLapses>>

LockDoc_Shared(r) ==    \* mutant: a lock for each request
    /\ stage[r] = "waiting"
    /\ holder' = r
    /\ Moves(r, "locked")
    /\ UNCHANGED <<docThere, docLog, wish, copy, outcome, caughtUp, misread,
                   shown, hubLapses>>

\* hub.lock
LockDoc(r) ==
    /\ stage[r] = "waiting" /\ holder = NoDocReq
    /\ holder' = r
    /\ Moves(r, "locked")
    /\ UNCHANGED <<docThere, docLog, wish, copy, outcome, caughtUp, misread,
                   shown, hubLapses>>

\* loadDoc: a read that fails is reported as a missing record.
LoadDoc(r) ==
    /\ stage[r] = "locked"
    /\ \/ /\ copy' = [copy EXCEPT ![r] =
                         IF docThere THEN [found |-> TRUE, updates |-> docLog]
                                     ELSE NoRecord]
          /\ UNCHANGED <<misread, hubLapses>>
       \/ /\ HubLapse
          /\ copy' = [copy EXCEPT ![r] = NoRecord]
          /\ misread' = misread \cup {r}
    /\ Moves(r, "read")
    /\ UNCHANGED <<docThere, docLog, wish, holder, outcome, caughtUp, shown>>

\* handleDocOpen, with a record: join.
JoinDoc(r) ==
    /\ stage[r] = "read" /\ wish[r] = "open" /\ copy[r].found
    /\ Decides(r, "joined")
    /\ caughtUp' = [caughtUp EXCEPT ![r] = copy[r].updates]
    /\ UNCHANGED <<docThere, docLog, wish, holder, copy, misread, shown, hubLapses>>

\* ... without one: an empty record is stored; the error of that is dropped.
SeedDoc(r) ==
    /\ stage[r] = "read" /\ wish[r] = "open" /\ ~copy[r].found
    /\ Decides(r, "seeder")
    /\ \/ docThere' = TRUE /\ docLog' = <<>> /\ UNCHANGED hubLapses
       \/ HubLapse /\ UNCHANGED <<docThere, docLog>>
    /\ UNCHANGED <<wish, holder, copy, caughtUp, misread, shown>>

\* handleDocUpdate: a full log refuses an append ...
RefuseUpdate(r) ==
    /\ stage[r] = "read" /\ wish[r] = "append"
    /\ Len(copy[r].updates) >= MaxDocLog
    /\ Decides(r, "refused")
    /\ UNCHANGED <<docThere, docLog, wish, holder, copy, caughtUp, misread, shown,
                   hubLapses>>

\* ... else the record is written back with the update, and the write may fail.
SaveUpdate(r) ==
    /\ stage[r] = "read"
    /\ \/ wish[r] = "append" /\ Len(copy[r].updates) < MaxDocLog
       \/ wish[r] = "replace"
    /\ \/ /\ docThere' = TRUE
          /\ docLog' = IF wish[r] = "replace" THEN <<r>>
                                              ELSE Append(copy[r].updates, r)
          /\ Decides(r, "kept")
          /\ UNCHANGED hubLapses
       \/ HubLapse /\ Decides(r, "failed") /\ UNCHANGED <<docThere, docLog>>
    /\ UNCHANGED <<wish, holder, copy, caughtUp, misread, shown>>

\* handleDocUpdate unlocks before it publishes or answers.
UnlockDoc(r) ==
    /\ stage[r] = "decided" /\ wish[r] # "open"
    /\ holder' = NoDocReq
    /\ Moves(r, "unlocked")
    /\ UNCHANGED <<docThere, docLog, wish, copy, outcome, caughtUp, misread, shown,
                   hubLapses>>

PublishUpdate(r) ==
    /\ stage[r] = "unlocked" /\ outcome[r] = "kept"
    /\ shown' = shown \cup {r}
    /\ Moves(r, "published")
    /\ UNCHANGED <<docThere, docLog, wish, holder, copy, outcome, caughtUp, misread,
                   hubLapses>>

\* The answer; handleDocOpen unlocks when it returns.
AnswerDoc(r) ==
    /\ \/ stage[r] = "decided" /\ wish[r] = "open" /\ holder' = NoDocReq
       \/ /\ \/ stage[r] = "unlocked" /\ outcome[r] # "kept"
             \/ stage[r] = "published"
          /\ UNCHANGED holder
    /\ Moves(r, "over")
    /\ UNCHANGED <<docThere, docLog, wish, copy, outcome, caughtUp, misread, shown,
                   hubLapses>>

\* The plugin is restarted: handlers end where they are, and the lock with them.
HubRestart ==
    /\ \E r \in DocReq : stage[r] \notin {"idle", "over"}
    /\ HubLapse
    /\ stage' = [r \in DocReq |-> IF stage[r] = "idle" THEN "idle" ELSE "over"]
    /\ holder' = NoDocReq
    /\ UNCHANGED <<docThere, docLog, wish, copy, outcome, caughtUp, misread, shown>>

HubNext ==
    \/ \E r \in DocReq :
          \/ AskHub(r) \/ LockDoc(r) \/ LoadDoc(r)
          \/ JoinDoc(r) \/ SeedDoc(r) \/ RefuseUpdate(r) \/ SaveUpdate(r)
          \/ UnlockDoc(r) \/ PublishUpdate(r) \/ AnswerDoc(r)
    \/ HubRestart

HubSpec == HubInit /\ [][HubNext]_hubDocVars

-----------------------------------------------------------------------------
(* The hub implements DocStore: what a handler does under the lock takes   *)
(* effect when it decides, waiting, locking and reading being stuttering   *)
(* steps; no two handlers' reads and writes of the record interleave, and  *)
(* no update is published or acknowledged that the record did not take.    *)
Over == {r \in DocReq : stage[r] = "over"}

Store == INSTANCE DocStore WITH over <- Over

IsDocStore == Store!Spec
=============================================================================
