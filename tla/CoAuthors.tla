------------------------------ MODULE CoAuthors ------------------------------
(***************************************************************************)
(* Who shares in a commit (server/codespace_activity.go): each save that   *)
(* the host has written puts its member into the codespace's list of       *)
(* contributors, by reading the list and writing it back; a commit reads   *)
(* the list, deletes it, and only then has the host commit with the        *)
(* trailers of those listed but the committer (codespace_fs.go).  The      *)
(* commit's author is whoever the host's git is configured for.            *)
(***************************************************************************)
EXTENDS Requests

CONSTANT Author     \* members who save and commit, other than the one whose
                    \* machine hosts the codespace

VARIABLES
    contrib,    \* the cscontrib_ key: the members listed
    owed,       \* history: members with an answered save that no commit has
                \* named them for
    excused     \* history: those of them whose save overlapped another request,
                \* who were listed when a read failed or whose own entry could
                \* not be written, whom a commit that failed had taken, or
                \* whose own commit took them off the list without naming them

coAuthorVars == <<contrib, owed, excused>>

CoAuthorsTypeOK ==
    /\ contrib \subseteq Author /\ owed \subseteq Author /\ excused \subseteq Author
    /\ \A c \in Call : call[c].at # "free" =>
         /\ call[c].op \in {"save", "commit"} /\ call[c].at \in {"read", "taken"}
         /\ call[c].by \in Author /\ call[c].got \subseteq Author

CoAuthorsInit ==
    /\ CallsInit
    /\ contrib = {} /\ owed = {} /\ excused = {}

\* A read that fails finds nobody.
ReadContributors(c, op, u) ==
    \/ /\ Arrive(c, op, "read", "list", u, contrib)
       /\ UNCHANGED <<lapses, coAuthorVars>>
    \/ /\ Arrive(c, op, "read", "list", u, {})
       /\ Lapse
       /\ excused' = excused \cup contrib
       /\ UNCHANGED <<contrib, owed>>

Overlapped(c) == \E d \in Call \ {c} : call[d].at = "read"

Listing_Alone(u, listed) == {u}   \* mutant: the list is not read first

Listing(u, listed) == listed \cup {u}

\* addContributor writes the list back, and the save is answered although that
\* may have failed.
AddContributor(c) ==
    /\ At(c, "save", "read")
    /\ Ends(c)
    /\ LET u == call[c].by
           kept == IF Overlapped(c) THEN excused \cup {u} ELSE excused \ {u}
       IN  /\ owed' = owed \cup {u}
           /\ \/ /\ contrib' = Listing(u, call[c].got)
                 /\ excused' = kept
                 /\ UNCHANGED lapses
              \/ /\ Lapse
                 /\ excused' = excused \cup {u}
                 /\ UNCHANGED contrib
    /\ UNCHANGED ncalls

\* coauthorTrailers deletes the list; an error is dropped.
TakeContributors(c) ==
    /\ At(c, "commit", "read")
    /\ Goes(c, "taken", call[c].got)
    /\ \/ contrib' = {} /\ UNCHANGED lapses
       \/ Lapse /\ UNCHANGED contrib
    /\ UNCHANGED <<ncalls, owed, excused>>

\* The host commits, under its own name: the trailers name everyone the commit
\* took off the list but the committer.
Committed(c) ==
    /\ At(c, "commit", "taken")
    /\ LET u == call[c].by
       IN  /\ owed' = owed \ (call[c].got \ {u})
           /\ excused' = (excused \cup (call[c].got \cap {u})) \cap owed'
    /\ Ends(c)
    /\ UNCHANGED <<ncalls, lapses, contrib>>

\* There is nothing to commit, git refuses, or the host does not answer.
CommitFails(c) ==
    /\ At(c, "commit", "taken") /\ Lapse
    /\ excused' = excused \cup call[c].got
    /\ Ends(c)
    /\ UNCHANGED <<ncalls, contrib, owed>>

CoAuthorsRestart ==
    /\ CallsCutOff
    /\ excused' = excused \cup UNION {call[c].got : c \in {d \in Call : At(d, "commit", "taken")}}
    /\ UNCHANGED <<contrib, owed>>

CoAuthorsNext ==
    \/ \E c \in Call, u \in Author :
         ReadContributors(c, "save", u) \/ ReadContributors(c, "commit", u)
    \/ \E c \in Call :
         \/ AddContributor(c) \/ TakeContributors(c)
         \/ Committed(c) \/ CommitFails(c)
    \/ CoAuthorsRestart

CoAuthorsSpec == CoAuthorsInit /\ [][CoAuthorsNext]_<<callVars, coAuthorVars>>

-----------------------------------------------------------------------------
(* A member whose save was answered is listed, or in the hands of a commit *)
(* that has taken the list, until a commit names them: of requests that    *)
(* follow one another and do not fail, only a member's own commit takes    *)
(* them off the list unnamed.                                              *)
CreditKept ==
    owed \subseteq contrib \cup excused \cup
        UNION {call[c].got : c \in {d \in Call : At(d, "commit", "taken")}}

(* "Stamp Co-authored-by trailers for everyone who saved since the last    *)
(* commit, so downstream git history keeps the real attribution": nobody   *)
(* whose save was answered leaves the list but by being named.             *)
SaversAreNamed ==
    owed \subseteq contrib \cup
        UNION {call[c].got : c \in {d \in Call : At(d, "commit", "taken")}}
=============================================================================
