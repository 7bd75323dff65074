------------------------------- MODULE Pairing -------------------------------
(***************************************************************************)
(* Pairing a machine with a room by a single-use code: the plugin's        *)
(* handlers (server/pair.go), the wizard that generates codes and waits    *)
(* for them to be claimed (webapp/src/ConnectPanel.tsx), and the claims    *)
(* that connectors send (connector/pair.py).                               *)
(*                                                                         *)
(* A claim is one POST /pair/claim: it reads the code's record, wins the   *)
(* record by compare-and-set, and provisions one bot per agent, each by    *)
(* calls that may fail; a restart of the plugin may end it anywhere.  All  *)
(* codes are one user's, so an agent stands for its bot.                   *)
(***************************************************************************)
EXTENDS Naturals

CONSTANTS
    Code,       \* the codes the wizard may generate
    Claim,      \* requests to claim one of them
    Agent,      \* the agents a claim may ask for
    MaxMishaps   \* bound: failed calls and restarts in one behaviour

ASSUME MishapsOK == MaxMishaps \in Nat

NoCode == "no code"
ASSUME NoCodeOK == NoCode \notin Code

VARIABLES
    rec,        \* per code: the status of its record, "none" before and
                \* "gone" after the record's life
    old,        \* the codes made longer ago than pairTTLms
    claim,      \* how far a claim has come
    of,         \* the code it claims
    todo,       \* the agents it has yet to provision
    linked,     \* the bots with an owner link, in any claim
    ready,      \* per claim: the agents whose bot it has linked
    tokens,     \* per claim: the agents it has minted a token for
    shown,      \* the code the wizard shows
    flags,      \* what the wizard has been told: connected, failed, expired
    starting,   \* its POST /pair/start is not answered
    polls,      \* its GET /pair/status requests
    mishaps      \* failed calls and restarts so far

wizardVars == <<shown, flags, starting, polls>>
claimVars  == <<claim, of, todo, linked, ready, tokens>>
pairingVars == <<rec, old, claimVars, wizardVars, mishaps>>

Told == {"connected", "failed", "expired"}

PairingTypeOK ==
    /\ rec \in [Code -> {"none", "pending", "claiming", "done", "failed", "gone"}]
    /\ old \subseteq Code
    /\ claim \in [Claim -> {"idle", "read", "won", "refused", "paired",
                            "failed", "lost"}]
    /\ of \in [Claim -> Code \cup {NoCode}]
    /\ todo \in [Claim -> SUBSET Agent]
    /\ linked \subseteq Agent
    /\ ready \in [Claim -> SUBSET Agent]
    /\ tokens \in [Claim -> SUBSET Agent]
    /\ \A c \in Claim :
        /\ tokens[c] \subseteq ready[c] /\ ready[c] \subseteq todo[c]
        /\ claim[c] \in {"idle", "read"} => todo[c] = {}
    /\ shown \in Code \cup {NoCode}
    /\ flags \subseteq Told
    /\ starting \in BOOLEAN
    /\ polls \subseteq [code : Code, says : SUBSET Told, asked : BOOLEAN]
    /\ mishaps \in Nat

PairingInit ==
    /\ rec = [k \in Code |-> "none"]
    /\ old = {}
    /\ claim = [c \in Claim |-> "idle"]
    /\ of = [c \in Claim |-> NoCode]
    /\ todo = [c \in Claim |-> {}]
    /\ linked = {}
    /\ ready = [c \in Claim |-> {}]
    /\ tokens = [c \in Claim |-> {}]
    /\ shown = NoCode /\ flags = {} /\ starting = FALSE /\ polls = {}
    /\ mishaps = 0

Mishap == mishaps < MaxMishaps /\ mishaps' = mishaps + 1

\* A KV write whose error the code drops: it may not take place.
Overwrite(k, status) ==
    \/ rec' = [rec EXCEPT ![k] = status] /\ UNCHANGED mishaps
    \/ UNCHANGED rec /\ Mishap

-----------------------------------------------------------------------------
\* The wizard.

\* start: the flags are reset when the button is pressed, the code is replaced
\* when the request is answered.
NewCode ==
    /\ ~starting
    /\ \E k \in Code : rec[k] = "none"
    /\ starting' = TRUE
    /\ flags' = {}
    /\ UNCHANGED <<rec, old, claimVars, shown, polls, mishaps>>

\* handlePairStart, and its answer.
Started(k) ==
    /\ starting /\ rec[k] = "none"
    /\ rec' = [rec EXCEPT ![k] = "pending"]
    /\ shown' = k
    /\ starting' = FALSE
    /\ UNCHANGED <<old, claimVars, flags, polls, mishaps>>

StartFails ==
    /\ starting /\ Mishap
    /\ starting' = FALSE
    /\ UNCHANGED <<rec, old, claimVars, shown, flags, polls>>

\* Every two seconds while the code shown has not been told about.
Poll ==
    /\ shown # NoCode /\ flags = {}
    /\ polls' = polls \cup {[code |-> shown, says |-> {}, asked |-> TRUE]}
    /\ UNCHANGED <<rec, old, claimVars, shown, flags, starting, mishaps>>

Expired_Pending(k) ==   \* mutant: only a code nobody has touched expires
    rec[k] = "gone" \/ (k \in old /\ rec[k] = "pending")

\* The record has expired, or is too old and still not settled.
Expired(k) == rec[k] = "gone" \/ (k \in old /\ rec[k] \notin {"done", "failed"})

Says_NotPending(k) ==   \* mutant: any record that was claimed is a success
    IF rec[k] \notin {"pending", "gone"} THEN {"connected"}
    ELSE IF Expired(k) THEN {"expired"} ELSE {}

\* What handlePairStatus answers, in the order the wizard looks at it.
Says(k) ==
    IF rec[k] = "done" THEN {"connected"}
    ELSE IF rec[k] = "failed" THEN {"failed"}
    ELSE IF Expired(k) THEN {"expired"} ELSE {}

Status(p) ==
    /\ p.asked
    /\ polls' = (polls \ {p}) \cup
                    {[code |-> p.code, says |-> Says(p.code), asked |-> FALSE]}
    /\ UNCHANGED <<rec, old, claimVars, shown, flags, starting, mishaps>>

\* The answer sets a flag, whichever code is shown by then.
Hear(p) ==
    /\ ~p.asked
    /\ polls' = polls \ {p}
    /\ flags' = flags \cup p.says
    /\ UNCHANGED <<rec, old, claimVars, shown, starting, mishaps>>

PollFails(p) ==
    /\ Mishap
    /\ polls' = polls \ {p}
    /\ UNCHANGED <<rec, old, claimVars, shown, flags, starting>>

-----------------------------------------------------------------------------
\* Time.

Age(k) ==
    /\ rec[k] # "none" /\ k \notin old
    /\ old' = old \cup {k}
    /\ UNCHANGED <<rec, claimVars, wizardVars, mishaps>>

\* Only the record made by handlePairStart has an expiry.
Expire(k) ==
    /\ k \in old /\ rec[k] = "pending"
    /\ rec' = [rec EXCEPT ![k] = "gone"]
    /\ UNCHANGED <<old, claimVars, wizardVars, mishaps>>

-----------------------------------------------------------------------------
\* handlePairClaim.

\* It reads the record, and refuses a code that is not pending or too old.
ReadCode(c, k) ==
    /\ claim[c] = "idle" /\ rec[k] # "none"
    /\ of' = [of EXCEPT ![c] = k]
    /\ claim' = [claim EXCEPT ![c] =
                    IF rec[k] = "pending" /\ k \notin old THEN "read" ELSE "refused"]
    /\ UNCHANGED <<rec, old, todo, linked, ready, tokens, wizardVars, mishaps>>

Wins_NoCas(k) == TRUE   \* mutant: the record is overwritten without comparing

\* The compare-and-set succeeds: the record is what the claim has read.
Wins(k) == rec[k] = "pending"

\* A name that is empty once normalised is skipped, so asked may be {}.
WinCode(c) ==
    /\ claim[c] = "read" /\ Wins(of[c])
    /\ rec' = [rec EXCEPT ![of[c]] = "claiming"]
    /\ claim' = [claim EXCEPT ![c] = "won"]
    /\ \E asked \in SUBSET Agent : todo' = [todo EXCEPT ![c] = asked]
    /\ UNCHANGED <<old, of, linked, ready, tokens, wizardVars, mishaps>>

LoseCode(c) ==
    /\ claim[c] = "read"
    /\ \/ ~Wins(of[c]) /\ UNCHANGED mishaps
       \/ Mishap
    /\ claim' = [claim EXCEPT ![c] = "refused"]
    /\ UNCHANGED <<rec, old, of, todo, linked, ready, tokens, wizardVars>>

\* The bot exists now, and its owner link is written.
LinkBot(c, a) ==
    /\ claim[c] = "won" /\ a \in todo[c] \ ready[c]
    /\ ready[c] \subseteq tokens[c]
    /\ linked' = linked \cup {a}
    /\ ready' = [ready EXCEPT ![c] = @ \cup {a}]
    /\ UNCHANGED <<rec, old, claim, of, todo, tokens, wizardVars, mishaps>>

MintToken_Unlinked(c, a) ==   \* mutant: a link that could not be written is ignored
    /\ claim[c] = "won" /\ a \in todo[c] \ tokens[c]
    /\ tokens' = [tokens EXCEPT ![c] = @ \cup {a}]
    /\ UNCHANGED <<rec, old, claim, of, todo, linked, ready, wizardVars, mishaps>>

MintToken(c, a) ==
    /\ claim[c] = "won" /\ a \in ready[c] \ tokens[c]
    /\ tokens' = [tokens EXCEPT ![c] = @ \cup {a}]
    /\ UNCHANGED <<rec, old, claim, of, todo, linked, ready, wizardVars, mishaps>>

Burn_Reopen(k) == Overwrite(k, "pending")   \* mutant: the user may try again

\* fail: the code is burnt.
Burn(k) == Overwrite(k, "failed")

ProvisionFails(c) ==
    /\ claim[c] = "won"
    /\ Burn(of[c])
    /\ claim' = [claim EXCEPT ![c] = "failed"]
    /\ UNCHANGED <<old, of, todo, linked, ready, tokens, wizardVars>>

\* Every agent has its token, and there is at least one.
Finish(c) ==
    /\ claim[c] = "won" /\ todo[c] # {} /\ tokens[c] = todo[c]
    /\ Overwrite(of[c], "done")
    /\ claim' = [claim EXCEPT ![c] = "paired"]
    /\ UNCHANGED <<old, of, todo, linked, ready, tokens, wizardVars>>

\* The plugin is restarted under a claim.
Restart ==
    /\ Mishap
    /\ \E c \in Claim : claim[c] \in {"read", "won"}
    /\ claim' = [c \in Claim |-> IF claim[c] \in {"read", "won"} THEN "lost"
                                 ELSE claim[c]]
    /\ UNCHANGED <<rec, old, of, todo, linked, ready, tokens, wizardVars>>

PairingNext ==
    \/ NewCode \/ StartFails \/ Poll \/ Restart
    \/ \E k \in Code : Started(k) \/ Age(k) \/ Expire(k)
    \/ \E p \in polls : Status(p) \/ Hear(p) \/ PollFails(p)
    \/ \E c \in Claim :
        \/ WinCode(c) \/ LoseCode(c) \/ ProvisionFails(c) \/ Finish(c)
        \/ \E k \in Code : ReadCode(c, k)
        \/ \E a \in Agent : LinkBot(c, a) \/ MintToken(c, a)

PairingSpec == PairingInit /\ [][PairingNext]_pairingVars

\* Time passes, requests are answered or fail, and the wizard keeps polling.
\* Nothing makes a claim arrive, or come to an end.
PairingFairness ==
    /\ WF_pairingVars(Poll)
    /\ WF_pairingVars(StartFails \/ \E k \in Code : Started(k))
    /\ WF_pairingVars(\E p \in polls : Status(p))
    /\ WF_pairingVars(\E p \in polls : Hear(p))
    /\ \A k \in Code : WF_pairingVars(Age(k)) /\ WF_pairingVars(Expire(k))

PairingFairSpec == PairingSpec /\ PairingFairness

-----------------------------------------------------------------------------
\* A code is single-use: two claims never both mint tokens on it, however
\* their reads and writes of its record interleave, whatever fails and
\* whenever the plugin restarts.
SingleUse ==
    \A c, d \in Claim :
        tokens[c] # {} /\ tokens[d] # {} /\ of[c] = of[d] => c = d

\* A token is only minted for a bot whose owner link is in the store, also
\* when the link could not be written.
LinkedBeforeToken == \A c \in Claim : tokens[c] \subseteq linked

\* "Connected" is only shown once some claim of a code of the wizard has
\* provisioned every agent it asked for: never for a claim that won the code
\* and failed, was cut short, or is still at work.
ConnectedIsProvisioned ==
    "connected" \in flags =>
        \E c \in Claim : claim[c] = "paired" /\ tokens[c] = todo[c]

\* A code that has been claimed, has failed or has expired is never valid again.
BurntForGood ==
    [][\A k \in Code : rec[k] \notin {"none", "pending"} =>
            rec'[k] \notin {"none", "pending"}]_rec

\* The wizard does not wait for ever: a code it shows is connected, failed or
\* expired in the end, also when the claim was cut short by a restart or the
\* final status could not be written, unless the user asks for a new one.
WizardLearns ==
    \A k \in Code : shown = k ~> flags # {} \/ shown # k \/ starting
=============================================================================
