----------------------------- MODULE Subscription -----------------------------
(***************************************************************************)
(* What a page is promised of the events of its user, whatever happens to  *)
(* its sockets: it applies the events the server took for it one by one    *)
(* and in order, and it passes over one of them only when it has it        *)
(* already or has still to read the state from the server again.           *)
(***************************************************************************)
EXTENDS Naturals

VARIABLES
    posted,     \* the number of events, 1..posted
    heard,      \* the events the server took for the page's stream
    page,       \* the events whose effect the page shows
    last,       \* the last event the page has applied or passed over
    syncing     \* the page has still to read the server's state again

subVars == <<posted, heard, page, last, syncing>>

TypeOK ==
    /\ posted \in Nat /\ last \in 0..posted
    /\ heard \subseteq 1..posted /\ page \subseteq 1..posted
    /\ syncing \in BOOLEAN

Init ==
    /\ posted = 0 /\ last = 0
    /\ heard = {} /\ page = {}
    /\ syncing = TRUE

Post ==
    /\ posted' = posted + 1
    /\ heard' \in {heard, heard \cup {posted + 1}}
    /\ UNCHANGED <<page, last, syncing>>

Deliver(e) ==
    /\ e \in heard
    /\ e > last
    /\ syncing \/ heard \cap ((last + 1)..(e - 1)) \subseteq page
    /\ last' = e
    /\ page' = page \cup {e}
    /\ UNCHANGED <<posted, heard, syncing>>

Skip ==
    /\ last' \in last..posted
    /\ syncing' \in {syncing, TRUE}
    /\ syncing' \/ heard \cap (1..last') \subseteq page
    /\ UNCHANGED <<posted, heard, page>>

Sync ==
    /\ syncing
    /\ syncing' = FALSE
    /\ page' = page \cup (1..posted)
    /\ UNCHANGED <<posted, heard, last>>

Next == Post \/ (\E e \in heard : Deliver(e)) \/ Skip \/ Sync

Spec == Init /\ [][Next]_subVars

(* No event the server took and the page has passed is missing from it,   *)
(* unless the page is still to read the server's state.                   *)
NoSilentLoss == syncing \/ heard \cap (1..last) \subseteq page
=============================================================================
