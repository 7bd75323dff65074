-------------------------------- MODULE Gate --------------------------------
(***************************************************************************)
(* The gate to the shared dictionary (server/proposals.go): proposals wait *)
(* until an approver enters them in the dictionary or rejects them.  An    *)
(* approval is a Get of the proposal, a Set of the entry and a Delete of   *)
(* the proposal; a rejection is a Get and a Delete.  Nothing locks the     *)
(* proposal in between.                                                    *)
(***************************************************************************)
EXTENDS Requests

CONSTANTS
    Proposal,   \* proposals that may be made
    Writer,     \* signed-in users
    Approver    \* those isApprover holds of

ASSUME ApproverOK == Approver \subseteq Writer

VARIABLES
    submitted,  \* proposals whose submission was acknowledged
    waiting,    \* the prop_ keys
    dictionary, \* the dict_ keys
    rejected,   \* history: proposals a rejection has deleted
    contested,  \* history: those that an approval and a rejection were at
                \* work on at once
    halfway     \* history: those whose approval stored the entry and ended
                \* without deleting the proposal

gateVars == <<submitted, waiting, dictionary, rejected, contested, halfway>>

GateTypeOK ==
    /\ submitted \subseteq Proposal /\ waiting \subseteq submitted
    /\ dictionary \subseteq submitted
    /\ rejected \subseteq submitted
    /\ contested \subseteq submitted /\ halfway \subseteq submitted
    /\ lapses \in Nat
    /\ \A c \in Call : call[c].at # "free" =>
         /\ call[c].op \in {"approve", "reject"}
         /\ call[c].at \in {"read", "entered"}
         /\ call[c].on \in submitted
         /\ call[c].by \in Approver

GateInit ==
    /\ CallsInit
    /\ submitted = {} /\ waiting = {} /\ dictionary = {}
    /\ rejected = {} /\ contested = {} /\ halfway = {}

\* handleSubmitProposal: one Set, and no acknowledgement when it fails.
SubmitProposal(p) ==
    /\ p \notin submitted
    /\ submitted' = submitted \cup {p}
    /\ waiting' = waiting \cup {p}
    /\ UNCHANGED <<callVars, dictionary, rejected, contested, halfway>>

\* The other decision is under way on the same proposal.
Disputed(op, p) ==
    \E c \in Call : call[c].at # "free" /\ call[c].on = p /\ call[c].op # op

Meets(op, p) ==
    contested' = IF Disputed(op, p) THEN contested \cup {p} ELSE contested

ReadProposal_Blank(c, op, p, u) ==   \* mutant: a missing proposal is not noticed
    /\ u \in Approver /\ p \in submitted
    /\ Arrive(c, op, "read", p, u, "nothing")
    /\ Meets(op, p)
    /\ UNCHANGED <<lapses, submitted, waiting, dictionary, rejected, halfway>>

\* An approver decides on a proposal; it is not found when its key is gone.
ReadProposal(c, op, p, u) ==
    /\ u \in Approver /\ p \in waiting
    /\ Arrive(c, op, "read", p, u, "nothing")
    /\ Meets(op, p)
    /\ UNCHANGED <<lapses, submitted, waiting, dictionary, rejected, halfway>>

StoreEntry_Unchecked(c) ==   \* mutant: the failing Set is not noticed
    /\ At(c, "approve", "read")
    /\ Goes(c, "entered", "nothing")
    /\ \/ dictionary' = dictionary \cup {call[c].on} /\ UNCHANGED lapses
       \/ Lapse /\ UNCHANGED dictionary
    /\ UNCHANGED <<ncalls, submitted, waiting, rejected, contested, halfway>>

\* The entry is stored, or the approval has failed.
StoreEntry(c) ==
    /\ At(c, "approve", "read")
    /\ \/ /\ dictionary' = dictionary \cup {call[c].on}
          /\ Goes(c, "entered", "nothing")
          /\ UNCHANGED lapses
       \/ Lapse /\ Ends(c) /\ UNCHANGED dictionary
    /\ UNCHANGED <<ncalls, submitted, waiting, rejected, contested, halfway>>

\* The proposal's key is deleted, or stays although it was approved.
ClearProposal(c) ==
    /\ At(c, "approve", "entered")
    /\ Ends(c)
    /\ \/ waiting' = waiting \ {call[c].on} /\ UNCHANGED <<lapses, halfway>>
       \/ Lapse /\ halfway' = halfway \cup {call[c].on} /\ UNCHANGED waiting
    /\ UNCHANGED <<ncalls, submitted, dictionary, rejected, contested>>

Reject(c) ==
    /\ At(c, "reject", "read")
    /\ Ends(c)
    /\ LET p == call[c].on
       IN  \/ /\ waiting' = waiting \ {p}
              /\ rejected' = rejected \cup {p}
              /\ UNCHANGED lapses
           \/ Lapse /\ UNCHANGED <<waiting, rejected>>
    /\ UNCHANGED <<ncalls, submitted, dictionary, contested, halfway>>

GateRestart ==
    /\ CallsCutOff
    /\ halfway' = halfway \cup {call[c].on : c \in {d \in Call : At(d, "approve", "entered")}}
    /\ UNCHANGED <<submitted, waiting, dictionary, rejected, contested>>

GateNext ==
    \/ \E p \in Proposal : SubmitProposal(p)
    \/ \E c \in Call, p \in Proposal, u \in Writer :
         ReadProposal(c, "approve", p, u) \/ ReadProposal(c, "reject", p, u)
    \/ \E c \in Call : StoreEntry(c) \/ ClearProposal(c) \/ Reject(c)
    \/ GateRestart

GateSpec == GateInit /\ [][GateNext]_<<callVars, gateVars>>

-----------------------------------------------------------------------------
(* Whatever fails or is cut off, a proposal that was acknowledged waits,   *)
(* is in the dictionary, or was rejected: the approval stores the entry    *)
(* before it deletes the proposal, and stops when it could not.            *)
NothingVanishes == submitted \subseteq waiting \cup dictionary \cup rejected

(* A proposal is decided both ways only when an approval and a rejection   *)
(* of it were under way at once, or when an approval stored the entry and  *)
(* then could not delete the proposal, which goes on waiting.  Decisions   *)
(* that follow one another and do not fail agree: the later finds nothing. *)
DecidedOnce == rejected \cap dictionary \subseteq contested \cup halfway
=============================================================================
