------------------------------ MODULE DocStore ------------------------------
(***************************************************************************)
(* What the plugin's hub promises of the record of one live document:      *)
(* every request to open or to update it takes effect at one moment, on    *)
(* the record as it is then; an update is published only when it is in the *)
(* record, and acknowledged only when it is published.  Nothing is said    *)
(* of how handlers run or wait for each other.                             *)
(*                                                                         *)
(* A request may misread the record (a failing read of the KV store): it   *)
(* then goes by an empty one.  A write may fail, and a restart of the      *)
(* plugin ends the requests under way, wherever they are.                  *)
(***************************************************************************)
EXTENDS Naturals, Sequences

CONSTANTS
    DocReq,         \* the requests; one that updates stands for its update
    MaxDocLog       \* length at which an append is refused

VARIABLES
    docThere,       \* the record exists
    docLog,         \* the updates in it
    wish,           \* per request: what it asks for
    outcome,        \* per request: what has become of it
    caughtUp,       \* per opener: the updates it has been given
    misread,        \* the requests whose read of the record fails
    shown,          \* the updates published to the viewers
    over            \* the requests that are answered or were cut off

storeVars == <<docThere, docLog, wish, outcome, caughtUp, misread, shown, over>>

Init ==
    /\ docThere = FALSE /\ docLog = <<>>
    /\ wish = [r \in DocReq |-> "nothing"]
    /\ outcome = [r \in DocReq |-> "none"]
    /\ caughtUp = [r \in DocReq |-> <<>>]
    /\ misread = {} /\ shown = {} /\ over = {}

Undecided(r, w) == wish[r] = w /\ outcome[r] = "asked" /\ r \notin over

Becomes(r, end) == outcome' = [outcome EXCEPT ![r] = end]

\* The record as the request finds it.
Finds(r) == docThere /\ r \notin misread
Log(r) == IF Finds(r) THEN docLog ELSE <<>>

Ask(r) ==
    /\ outcome[r] = "none"
    /\ \E w \in {"open", "append", "replace"} : wish' = [wish EXCEPT ![r] = w]
    /\ Becomes(r, "asked")
    /\ UNCHANGED <<docThere, docLog, caughtUp, misread, shown, over>>

Misread(r) ==
    /\ outcome[r] = "asked" /\ r \notin over
    /\ misread' = misread \cup {r}
    /\ UNCHANGED <<docThere, docLog, wish, outcome, caughtUp, shown, over>>

\* Who finds a record joins with the updates in it.
Join(r) ==
    /\ Undecided(r, "open") /\ Finds(r)
    /\ Becomes(r, "joined")
    /\ caughtUp' = [caughtUp EXCEPT ![r] = docLog]
    /\ UNCHANGED <<docThere, docLog, wish, misread, shown, over>>

\* Who finds none becomes the seeder of a new one, stored or not.
Seed(r) ==
    /\ Undecided(r, "open") /\ ~Finds(r)
    /\ Becomes(r, "seeder")
    /\ \/ docThere' = TRUE /\ docLog' = <<>>
       \/ UNCHANGED <<docThere, docLog>>
    /\ UNCHANGED <<wish, caughtUp, misread, shown, over>>

Keep(r) ==
    /\ \/ /\ Undecided(r, "append") /\ Len(Log(r)) < MaxDocLog
          /\ docLog' = Append(Log(r), r)
       \/ Undecided(r, "replace") /\ docLog' = <<r>>
    /\ docThere' = TRUE
    /\ Becomes(r, "kept")
    /\ UNCHANGED <<wish, caughtUp, misread, shown, over>>

Refuse(r) ==
    /\ Undecided(r, "append") /\ Len(Log(r)) >= MaxDocLog
    /\ Becomes(r, "refused")
    /\ UNCHANGED <<docThere, docLog, wish, caughtUp, misread, shown, over>>

NotKept(r) ==
    /\ Undecided(r, "append") \/ Undecided(r, "replace")
    /\ Becomes(r, "failed")
    /\ UNCHANGED <<docThere, docLog, wish, caughtUp, misread, shown, over>>

Show(r) ==
    /\ outcome[r] = "kept" /\ r \notin over \cup shown
    /\ shown' = shown \cup {r}
    /\ UNCHANGED <<docThere, docLog, wish, outcome, caughtUp, misread, over>>

Answer(r) ==
    /\ outcome[r] \notin {"none", "asked"} /\ r \notin over
    /\ outcome[r] = "kept" => r \in shown
    /\ over' = over \cup {r}
    /\ UNCHANGED <<docThere, docLog, wish, outcome, caughtUp, misread, shown>>

\* A restart of the plugin.
CutOff ==
    /\ over' = {r \in DocReq : outcome[r] # "none"}
    /\ UNCHANGED <<docThere, docLog, wish, outcome, caughtUp, misread, shown>>

Next ==
    \/ \E r \in DocReq : \/ Ask(r) \/ Misread(r) \/ Join(r) \/ Seed(r)
                         \/ Keep(r) \/ Refuse(r) \/ NotKept(r)
                         \/ Show(r) \/ Answer(r)
    \/ CutOff

Spec == Init /\ [][Next]_storeVars
=============================================================================
