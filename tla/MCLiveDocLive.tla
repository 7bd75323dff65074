---------------------------- MODULE MCLiveDocLive ----------------------------
(***************************************************************************)
(* The instances of LiveDoc of which TLC checks liveness, one for each     *)
(* initial state: several sessions read and edit together and nothing is   *)
(* flushed, or one session edits and is saved while the others stay        *)
(* closed.  The bounds of what an instance leaves out are used up when it  *)
(* starts.                                                                 *)
(***************************************************************************)
EXTENDS LiveDoc

CONSTANT Saver      \* the session that is opened where flushes are sent

Reading ==
    /\ status = [s \in Session |-> "new"]
    /\ nflush = MaxFlushes /\ faults = 1

Saving ==
    /\ status = [s \in Session |-> IF s = Saver THEN "new" ELSE "closed"]
    /\ nflush = 0 /\ faults = 0

LiveInit == Fresh /\ (Reading \/ Saving)

LiveFairSpec == LiveInit /\ [][Next]_vars /\ Fairness
-----------------------------------------------------------------------------
\* Of the behaviours that start with no flush sent: an edit made in a session
\* that stays open gets to the disk.
EditsAreSaved == Saving => EditReachesDisk
=============================================================================
