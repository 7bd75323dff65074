----------------------------- MODULE HostProofs -----------------------------
(***************************************************************************)
(* What pairing, the bridge and the terminal over it, and the agents' host *)
(* promise, for any number of codes, claims, commands, members,            *)
(* directories, agents and failures; and that what is checked of them      *)
(* together (MCLiveness) is checked of each as if it ran alone.            *)
(***************************************************************************)
EXTENDS MCLiveness, TLAPS

USE DEF claimVars, wizardVars

\* Every variable keeps its type.
THEOREM PairingTypeCorrect == PairingSpec => []PairingTypeOK
<1>1. PairingInit => PairingTypeOK
  <2> SUFFICES ASSUME PairingInit PROVE PairingTypeOK
    OBVIOUS
  <2>1. \A c \in Claim : ready[c] = {} /\ tokens[c] = {} /\ todo[c] = {}
    BY DEF PairingInit
  <2> QED
    BY <2>1 DEF PairingInit, PairingTypeOK
<1>2. PairingTypeOK /\ [PairingNext]_pairingVars => PairingTypeOK'
  <2> SUFFICES ASSUME PairingTypeOK, [PairingNext]_pairingVars PROVE PairingTypeOK'
    OBVIOUS
  <2> USE DEF PairingTypeOK, Mishap
  <2>1. CASE NewCode
    BY <2>1 DEF NewCode
  <2>1a. CASE StartFails
    <3>1. mishaps' \in Nat
      BY <2>1a DEF StartFails
    <3>2. starting' = FALSE
      BY <2>1a DEF StartFails
    <3>3. UNCHANGED <<rec, old, claimVars, shown, flags, polls>>
      BY <2>1a DEF StartFails
    <3> QED
      BY <3>1, <3>2, <3>3
  <2>1b. CASE Poll
    <3>1. shown \in Code /\ {} \in SUBSET Told
      BY <2>1b DEF Poll
    <3>2. [code |-> shown, says |-> {}, asked |-> TRUE]
            \in [code : Code, says : SUBSET Told, asked : BOOLEAN]
      BY <3>1
    <3> QED
      BY <2>1b, <3>2 DEF Poll
  <2>2. ASSUME NEW k \in Code, Started(k) \/ Age(k) \/ Expire(k) PROVE PairingTypeOK'
    BY <2>2 DEF Started, Age, Expire
  <2>3. ASSUME NEW p \in polls, Status(p) PROVE PairingTypeOK'
    <3>1. Says(p.code) \in SUBSET Told
      BY DEF Says, Told
    <3>2. [code |-> p.code, says |-> Says(p.code), asked |-> FALSE]
            \in [code : Code, says : SUBSET Told, asked : BOOLEAN]
      BY <3>1
    <3> QED
      BY <2>3, <3>2 DEF Status
  <2>4. ASSUME NEW p \in polls, Hear(p) \/ PollFails(p) PROVE PairingTypeOK'
    BY <2>4 DEF Hear, PollFails
  <2>5. ASSUME NEW c \in Claim, NEW k \in Code, ReadCode(c, k) PROVE PairingTypeOK'
    BY <2>5 DEF ReadCode
  <2>6. ASSUME NEW c \in Claim, WinCode(c) PROVE PairingTypeOK'
    <3>1. PICK asked \in SUBSET Agent : todo' = [todo EXCEPT ![c] = asked]
      BY <2>6 DEF WinCode
    <3>2. /\ claim[c] = "read"
          /\ rec' = [rec EXCEPT ![of[c]] = "claiming"]
          /\ claim' = [claim EXCEPT ![c] = "won"]
          /\ UNCHANGED <<old, of, linked, ready, tokens, wizardVars, mishaps>>
      BY <2>6 DEF WinCode
    <3>3. ready[c] = {} /\ tokens[c] = {}
      BY <3>2
    <3> QED
      BY <3>1, <3>2, <3>3
  <2>7. ASSUME NEW c \in Claim, LoseCode(c) PROVE PairingTypeOK'
    BY <2>7 DEF LoseCode
  <2>8. ASSUME NEW c \in Claim, ProvisionFails(c) PROVE PairingTypeOK'
    BY <2>8 DEF ProvisionFails, Burn, Overwrite
  <2>9. ASSUME NEW c \in Claim, Finish(c) PROVE PairingTypeOK'
    BY <2>9 DEF Finish, Overwrite
  <2>10. ASSUME NEW c \in Claim, NEW a \in Agent, LinkBot(c, a) PROVE PairingTypeOK'
    BY <2>10 DEF LinkBot
  <2>11. ASSUME NEW c \in Claim, NEW a \in Agent, MintToken(c, a) PROVE PairingTypeOK'
    BY <2>11 DEF MintToken
  <2>12. CASE Restart
    BY <2>12 DEF Restart
  <2>13. CASE UNCHANGED pairingVars
    BY <2>13 DEF pairingVars
  <2> QED
    BY <2>1, <2>2, <2>3, <2>4, <2>5, <2>6, <2>7, <2>8, <2>9, <2>10, <2>11,
       <2>12, <2>13, <2>1a, <2>1b DEF PairingNext
<1> QED
  BY <1>1, <1>2, PTL DEF PairingSpec

-----------------------------------------------------------------------------
\* A claim that has won its code, and may hold tokens minted on it.
Winner(c) == claim[c] = "won" \/ tokens[c] # {}

Burnt(k) == rec[k] \notin {"none", "pending"}

\* SingleUse alone is not inductive: what keeps a second claim from winning is
\* that the record of a won code is never pending again, and what keeps of[c]
\* from changing under a winner is that a claim that has not won holds nothing.
WinInv ==
    /\ \A c \in Claim : claim[c] # "idle" => of[c] \in Code
    /\ \A c \in Claim : Winner(c) => claim[c] \notin {"idle", "read"} /\ Burnt(of[c])
    /\ \A c, d \in Claim : Winner(c) /\ Winner(d) /\ of[c] = of[d] => c = d

\* A burnt code stays burnt in every step: only the winner writes its record.
LEMMA BurntStays ==
    ASSUME PairingTypeOK, WinInv, [PairingNext]_pairingVars, NEW k \in Code, Burnt(k)
    PROVE  Burnt(k)'
<1> USE DEF PairingTypeOK, Burnt
<1>1. CASE rec' = rec
  BY <1>1
<1>2. ASSUME NEW j \in Code, Started(j) \/ Expire(j) PROVE Burnt(k)'
  BY <1>2 DEF Started, Expire
<1>3. ASSUME NEW c \in Claim, WinCode(c) PROVE Burnt(k)'
  BY <1>3 DEF WinCode
<1>4. ASSUME NEW c \in Claim, ProvisionFails(c) PROVE Burnt(k)'
  BY <1>4 DEF ProvisionFails, Burn, Overwrite
<1>5. ASSUME NEW c \in Claim, Finish(c) PROVE Burnt(k)'
  BY <1>5 DEF Finish, Overwrite
<1>6. ASSUME NEW c \in Claim, NEW j \in Code, ReadCode(c, j) PROVE rec' = rec
  BY <1>6 DEF ReadCode
<1>7. ASSUME NEW c \in Claim, NEW a \in Agent,
             LoseCode(c) \/ LinkBot(c, a) \/ MintToken(c, a)
      PROVE  rec' = rec
  BY <1>7 DEF LoseCode, LinkBot, MintToken
<1>8. ASSUME NEW c \in Claim, LoseCode(c) PROVE rec' = rec
  BY <1>8 DEF LoseCode
<1>9. ASSUME NEW p \in polls, Status(p) \/ Hear(p) \/ PollFails(p)
      PROVE  rec' = rec
  BY <1>9 DEF Status, Hear, PollFails
<1>10. ASSUME NEW j \in Code, Age(j) PROVE rec' = rec
  BY <1>10 DEF Age
<1>11. CASE NewCode \/ StartFails \/ Poll \/ Restart \/ UNCHANGED pairingVars
  BY <1>1, <1>11 DEF NewCode, StartFails, Poll, Restart, pairingVars
<1> QED
  BY <1>1, <1>2, <1>3, <1>4, <1>5, <1>6, <1>7, <1>8, <1>9, <1>10, <1>11
  DEF PairingNext

\* The frame of the steps that make no winner and move none.
LEMMA WinnersKept ==
    ASSUME PairingTypeOK, WinInv, [PairingNext]_pairingVars, UNCHANGED <<claim, of, tokens>>
    PROVE  WinInv'
<1>1. \A k \in Code : Burnt(k) => Burnt(k)'
  BY BurntStays
<1> QED
  BY <1>1 DEF WinInv, Winner, PairingTypeOK

LEMMA WinInductive ==
    ASSUME PairingTypeOK, WinInv, [PairingNext]_pairingVars
    PROVE  WinInv'
<1> USE DEF PairingTypeOK
<1>b. \A k \in Code : Burnt(k) => Burnt(k)'
  BY BurntStays
<1>1. ASSUME NEW c \in Claim, NEW k \in Code, ReadCode(c, k) PROVE WinInv'
  BY <1>1, <1>b DEF ReadCode, WinInv, Winner
<1>2. ASSUME NEW c \in Claim, WinCode(c) PROVE WinInv'
  <2>1. of[c] \in Code /\ ~Burnt(of[c]) /\ ~Winner(c) /\ tokens[c] = {}
    BY <1>2 DEF WinCode, Wins, WinInv, Burnt, Winner
  <2>2. \A d \in Claim : Winner(d) => of[d] # of[c]
    BY <2>1 DEF WinInv
  <2>3. of' = of /\ tokens' = tokens /\ claim' = [claim EXCEPT ![c] = "won"]
    BY <1>2 DEF WinCode
  <2>4. \A d \in Claim : d # c => (Winner(d)' <=> Winner(d))
    BY <2>3 DEF Winner
  <2>5. Burnt(of[c])'
    BY <1>2, <2>1 DEF WinCode, Burnt
  <2>6. \A d \in Claim : Winner(d)' => claim'[d] \notin {"idle", "read"} /\ Burnt(of[d])'
    BY <1>b, <2>1, <2>3, <2>4, <2>5 DEF WinInv
  <2>7. \A d \in Claim : claim'[d] # "idle" => of'[d] \in Code
    BY <2>1, <2>3 DEF WinInv
  <2>8. \A d, e \in Claim :
            Winner(d)' /\ Winner(e)' /\ of'[d] = of'[e] => d = e
    BY <2>2, <2>3, <2>4 DEF WinInv
  <2> QED
    BY <2>3, <2>6, <2>7, <2>8 DEF WinInv, Burnt
<1>3. ASSUME NEW c \in Claim, LoseCode(c) PROVE WinInv'
  BY <1>3, <1>b DEF LoseCode, WinInv, Winner
<1>4. ASSUME NEW c \in Claim, ProvisionFails(c) \/ Finish(c) PROVE WinInv'
  BY <1>4, <1>b DEF ProvisionFails, Finish, WinInv, Winner
<1>5. ASSUME NEW c \in Claim, NEW a \in Agent, MintToken(c, a) PROVE WinInv'
  <2>1. Winner(c) /\ Winner(c)' /\ claim' = claim /\ of' = of
    BY <1>5 DEF MintToken, Winner
  <2>2. \A d \in Claim : Winner(d)' <=> Winner(d)
    BY <1>5, <2>1 DEF MintToken, Winner
  <2> QED
    BY <1>b, <2>1, <2>2 DEF WinInv
<1>6. ASSUME NEW c \in Claim, NEW a \in Agent, LinkBot(c, a) PROVE WinInv'
  BY <1>6, WinnersKept DEF LinkBot
<1>7. CASE Restart
  BY <1>7, <1>b DEF Restart, WinInv, Winner
<1>8. ASSUME NEW k \in Code, Started(k) \/ Age(k) \/ Expire(k) PROVE WinInv'
  BY <1>8, WinnersKept DEF Started, Age, Expire
<1>9. ASSUME NEW p \in polls, Status(p) \/ Hear(p) \/ PollFails(p) PROVE WinInv'
  BY <1>9, WinnersKept DEF Status, Hear, PollFails
<1>10. CASE NewCode \/ StartFails \/ Poll \/ UNCHANGED pairingVars
  BY <1>10, WinnersKept DEF NewCode, StartFails, Poll, pairingVars
<1> QED
  BY <1>1, <1>2, <1>3, <1>4, <1>5, <1>6, <1>7, <1>8, <1>9, <1>10 DEF PairingNext

LEMMA WinAlways == PairingSpec => [](PairingTypeOK /\ WinInv)
<1>1. PairingInit => WinInv
  BY DEF PairingInit, WinInv, Winner
<1> QED
  BY <1>1, WinInductive, PairingTypeCorrect, PTL DEF PairingSpec

\* Two claims never both mint tokens on one code.
THEOREM CodesAreSingleUse == PairingSpec => []SingleUse
<1>1. WinInv => SingleUse
  BY DEF WinInv, Winner, SingleUse
<1> QED
  BY <1>1, WinAlways, PTL

\* A code that has been claimed, has failed or has expired is never valid again.
THEOREM CodesStayBurnt == PairingSpec => BurntForGood
<1>1. PairingTypeOK /\ WinInv /\ [PairingNext]_pairingVars
        => [\A k \in Code : rec[k] \notin {"none", "pending"} =>
                rec'[k] \notin {"none", "pending"}]_rec
  BY BurntStays DEF Burnt
<1> QED
  BY <1>1, WinAlways, PTL DEF PairingSpec, BurntForGood

-----------------------------------------------------------------------------
Provisioned == \E c \in Claim : claim[c] = "paired" /\ tokens[c] = todo[c]

\* Whatever says "connected", a record, an answer on its way or the wizard,
\* says it of a claim that has provisioned everything.
TruthInv ==
    /\ (\E k \in Code : rec[k] = "done") => Provisioned
    /\ (\E p \in polls : "connected" \in p.says) => Provisioned
    /\ "connected" \in flags => Provisioned

\* A claim that is paired takes no further step.
LEMMA ProvisionedStays ==
    ASSUME PairingTypeOK, [PairingNext]_pairingVars, Provisioned
    PROVE  Provisioned'
<1> USE DEF PairingTypeOK
<1>1. PICK c \in Claim : claim[c] = "paired" /\ tokens[c] = todo[c]
  BY DEF Provisioned
<1> DEFINE Kept == claim'[c] = "paired" /\ tokens'[c] = todo'[c]
<1> SUFFICES Kept
  BY DEF Provisioned
<1>2. ASSUME NEW d \in Claim, NEW k \in Code, ReadCode(d, k) PROVE Kept
  BY <1>1, <1>2 DEF ReadCode
<1>3. ASSUME NEW d \in Claim, WinCode(d) PROVE Kept
  BY <1>1, <1>3 DEF WinCode
<1>4. ASSUME NEW d \in Claim, LoseCode(d) PROVE Kept
  BY <1>1, <1>4 DEF LoseCode
<1>5. ASSUME NEW d \in Claim, ProvisionFails(d) \/ Finish(d) PROVE Kept
  BY <1>1, <1>5 DEF ProvisionFails, Finish
<1>6. ASSUME NEW d \in Claim, NEW a \in Agent, LinkBot(d, a) PROVE Kept
  BY <1>1, <1>6 DEF LinkBot
<1>7. ASSUME NEW d \in Claim, NEW a \in Agent, MintToken(d, a) PROVE Kept
  BY <1>1, <1>7 DEF MintToken
<1>8. CASE Restart
  BY <1>1, <1>8 DEF Restart
<1>9. ASSUME NEW k \in Code, Started(k) \/ Age(k) \/ Expire(k) PROVE Kept
  BY <1>1, <1>9 DEF Started, Age, Expire
<1>10. ASSUME NEW p \in polls, Status(p) \/ Hear(p) \/ PollFails(p) PROVE Kept
  BY <1>1, <1>10 DEF Status, Hear, PollFails
<1>11. CASE NewCode \/ StartFails \/ Poll \/ UNCHANGED pairingVars
  BY <1>1, <1>11 DEF NewCode, StartFails, Poll, pairingVars
<1> QED
  BY <1>2, <1>3, <1>4, <1>5, <1>6, <1>7, <1>8, <1>9, <1>10, <1>11 DEF PairingNext

\* "Connected" is only shown once a claim has provisioned every agent it asked for.
THEOREM ConnectedIsTrue == PairingSpec => []ConnectedIsProvisioned
<1>1. PairingInit => TruthInv
  BY DEF PairingInit, TruthInv
<1>2. PairingTypeOK /\ TruthInv /\ [PairingNext]_pairingVars => TruthInv'
  <2> SUFFICES ASSUME PairingTypeOK, TruthInv, [PairingNext]_pairingVars, ~Provisioned PROVE TruthInv'
    BY ProvisionedStays DEF TruthInv
  <2> USE DEF PairingTypeOK
  <2> DEFINE Quiet == /\ \A k \in Code : rec'[k] # "done"
                      /\ \A p \in polls' : "connected" \notin p.says
                      /\ "connected" \notin flags'
  <2>0. /\ \A k \in Code : rec[k] # "done"
        /\ \A p \in polls : "connected" \notin p.says
        /\ "connected" \notin flags
    BY DEF TruthInv
  <2>1. ASSUME NEW c \in Claim, Finish(c) PROVE Provisioned'
    <3>1. claim'[c] = "paired" /\ tokens'[c] = todo'[c]
      BY <2>1 DEF Finish
    <3> QED
      BY <3>1 DEF Provisioned
  <2>2. ASSUME NEW k \in Code, Started(k) \/ Age(k) \/ Expire(k) PROVE Quiet
    BY <2>0, <2>2 DEF Started, Age, Expire
  <2>3. ASSUME NEW c \in Claim, NEW k \in Code, ReadCode(c, k) PROVE Quiet
    BY <2>0, <2>3 DEF ReadCode
  <2>4. ASSUME NEW c \in Claim, WinCode(c) PROVE Quiet
    BY <2>0, <2>4 DEF WinCode
  <2>5. ASSUME NEW c \in Claim, LoseCode(c) PROVE Quiet
    BY <2>0, <2>5 DEF LoseCode
  <2>6. ASSUME NEW c \in Claim, ProvisionFails(c) PROVE Quiet
    BY <2>0, <2>6 DEF ProvisionFails, Burn, Overwrite
  <2>7. ASSUME NEW c \in Claim, NEW a \in Agent, LinkBot(c, a) \/ MintToken(c, a)
        PROVE  Quiet
    BY <2>0, <2>7 DEF LinkBot, MintToken
  <2>8. ASSUME NEW p \in polls, Status(p) PROVE Quiet
    <3>1. "connected" \notin Says(p.code)
      BY <2>0, <2>8 DEF Status, Says
    <3> QED
      BY <2>0, <2>8, <3>1 DEF Status
  <2>9. ASSUME NEW p \in polls, Hear(p) \/ PollFails(p) PROVE Quiet
    BY <2>0, <2>9 DEF Hear, PollFails
  <2>10. ASSUME NewCode \/ StartFails \/ Poll \/ Restart \/ UNCHANGED pairingVars
         PROVE  Quiet
    BY <2>0, <2>10 DEF NewCode, StartFails, Poll, Restart, pairingVars
  <2>11. Quiet => TruthInv'
    BY DEF TruthInv
  <2>12. Provisioned' => TruthInv'
    BY DEF TruthInv
  <2> QED
    BY <2>1, <2>2, <2>3, <2>4, <2>5, <2>6, <2>7, <2>8, <2>9, <2>10, <2>11,
       <2>12 DEF PairingNext
<1>3. TruthInv => ConnectedIsProvisioned
  BY DEF TruthInv, Provisioned, ConnectedIsProvisioned
<1> QED
  BY <1>1, <1>2, <1>3, PairingTypeCorrect, PTL DEF PairingSpec

-----------------------------------------------------------------------------
(***************************************************************************)
(* The owner links.  A token is minted for a bot that the claim has        *)
(* linked, and a link is never taken back.                                 *)
(***************************************************************************)
LinkInv == \A c \in Claim : ready[c] \subseteq linked

\* A token is only minted for a bot whose owner link is in the store.
THEOREM LinksComeFirst == PairingSpec => []LinkedBeforeToken
<1>1. PairingInit => LinkInv
  BY DEF PairingInit, LinkInv
<1>2. PairingTypeOK /\ LinkInv /\ [PairingNext]_pairingVars => LinkInv'
  <2> SUFFICES ASSUME PairingTypeOK, LinkInv, [PairingNext]_pairingVars
               PROVE  LinkInv'
    OBVIOUS
  <2> USE DEF PairingTypeOK, LinkInv
  <2>1. ASSUME NEW c \in Claim, NEW a \in Agent, LinkBot(c, a) PROVE LinkInv'
    BY <2>1 DEF LinkBot
  <2>2. ASSUME UNCHANGED <<linked, ready>> PROVE LinkInv'
    BY <2>2
  <2>3. ASSUME NEW c \in Claim,
               \/ \E k \in Code : ReadCode(c, k)
               \/ WinCode(c) \/ LoseCode(c) \/ ProvisionFails(c) \/ Finish(c)
               \/ \E a \in Agent : MintToken(c, a)
        PROVE  UNCHANGED <<linked, ready>>
    BY <2>3 DEF ReadCode, WinCode, LoseCode, ProvisionFails, Finish, MintToken
  <2>4. ASSUME NEW k \in Code, Started(k) \/ Age(k) \/ Expire(k)
        PROVE  UNCHANGED <<linked, ready>>
    BY <2>4 DEF Started, Age, Expire, claimVars
  <2>5. ASSUME NEW p \in polls, Status(p) \/ Hear(p) \/ PollFails(p)
        PROVE  UNCHANGED <<linked, ready>>
    BY <2>5 DEF Status, Hear, PollFails, claimVars
  <2>6. ASSUME NewCode \/ StartFails \/ Poll \/ Restart \/ UNCHANGED pairingVars
        PROVE  UNCHANGED <<linked, ready>>
    BY <2>6 DEF NewCode, StartFails, Poll, Restart, pairingVars, claimVars
  <2> QED
    BY <2>1, <2>2, <2>3, <2>4, <2>5, <2>6 DEF PairingNext
<1>3. PairingTypeOK /\ LinkInv => LinkedBeforeToken
  BY DEF PairingTypeOK, LinkInv, LinkedBeforeToken
<1> QED
  BY <1>1, <1>2, <1>3, PairingTypeCorrect, PTL DEF PairingSpec

HIDE DEF claimVars, wizardVars

-----------------------------------------------------------------------------
USE DEF relayVars, bridgeVars, hostVars, termVars

\* The steps of the relay that change nothing of the terminal's.
LEMMA HostKeepsType ==
    ASSUME TypeOK, HostNext, UNCHANGED termVars
    PROVE  TypeOK'
<1> USE DEF TypeOK, RelayTypeOK, Fault
<1>1. CASE Take
  <2>1. Head(queue) \in Req /\ Tail(queue) \in Seq(Req)
    BY <1>1 DEF Take
  <2> QED
    BY <1>1, <2>1 DEF Take
<1>2. CASE DropLink
  <2>1. faults' \in Nat
    BY <1>2 DEF DropLink
  <2>2. queue' = <<>>
    BY <1>2 DEF DropLink
  <2>3. queue' \in Seq(Req)
    BY <2>2
  <2>4. up' \in BOOLEAN
    BY <1>2 DEF DropLink
  <2>5. UNCHANGED <<bridgeVars, busy, ran>>
    BY <1>2 DEF DropLink
  <2> QED
    BY <2>1, <2>3, <2>4, <2>5
<1>3. CASE Relink
  BY <1>3 DEF Relink
<1>4. ASSUME NEW r \in Req, Respond(r) PROVE TypeOK'
  BY <1>4 DEF Respond, Resolve
<1>5. ASSUME NEW r \in Req, RespondFails(r) PROVE TypeOK'
  BY <1>5 DEF RespondFails
<1> QED
  BY <1>1, <1>2, <1>3, <1>4, <1>5 DEF HostNext

\* The audit log never outgrows its cap, and stays a sequence of commands.
LEMMA KeepRecentType ==
    ASSUME NEW log \in Seq(Req)
    PROVE  KeepRecent(log) \in Seq(Req) /\ Len(KeepRecent(log)) <= MaxAudit
<1>1. CASE Len(log) <= MaxAudit
  BY <1>1, MaxAuditOK DEF KeepRecent
<1>2. CASE Len(log) > MaxAudit
  <2> DEFINE first == Len(log) - MaxAudit + 1
  <2>1. first \in 1..Len(log) /\ Len(log) \in Nat
    BY <1>2, MaxAuditOK
  <2>2. KeepRecent(log) = SubSeq(log, first, Len(log))
    BY <1>2 DEF KeepRecent
  <2>3. SubSeq(log, first, Len(log)) \in Seq(Req)
    BY <2>1
  <2>4. Len(SubSeq(log, first, Len(log))) = MaxAudit
    BY <2>1, MaxAuditOK
  <2> QED
    BY <2>2, <2>3, <2>4, MaxAuditOK
<1> QED
  BY <1>1, <1>2, MaxAuditOK

\* Every variable keeps its type, and the audit log its cap.
THEOREM TerminalTypeCorrect == Spec => []TypeOK
<1>1. Init => TypeOK
  BY RootOK, MaxAuditOK DEF Init, RelayInit, TypeOK, RelayTypeOK
<1>2. TypeOK /\ [Next]_vars => TypeOK'
  <2> SUFFICES ASSUME TypeOK, [Next]_vars PROVE TypeOK'
    OBVIOUS
  <2> USE DEF TypeOK, RelayTypeOK
  <2>1. CASE HostNext /\ UNCHANGED termVars
    BY <2>1, HostKeepsType
  <2>2. ASSUME NEW r \in Req, NEW m \in Member, NEW k \in {"cd", "shell", "ai"},
               Submit(r, m, k)
        PROVE  TypeOK'
    BY <2>2 DEF Submit
  <2>3. ASSUME NEW r \in Req, StartShell(r) \/ StartAI(r) PROVE TypeOK'
    <3>1. Ask(r) /\ at' = [at EXCEPT ![r] = "running"] /\ lock' \in {lock, r}
      BY <2>3 DEF StartShell, StartAI
    <3>2. queue' \in Seq(Req)
      BY <3>1 DEF Ask
    <3>3. /\ waiter' \in [Req -> {"none", "waiting", "answered", "timedout"}]
          /\ pending' \subseteq Req
      BY <3>1 DEF Ask
    <3>4. UNCHANGED <<who, kind, cwd, loaded, back, audit, seen, beside>>
      BY <2>3 DEF StartShell, StartAI
    <3> QED
      BY <3>1, <3>2, <3>3, <3>4 DEF Ask
  <2>4. ASSUME NEW r \in Req, RunOnHost(r) PROVE TypeOK'
    <3>1. PICK d \in {loaded[r], Root}, t \in Dir :
            back' = [back EXCEPT ![r] = IF kind[r] = "cd" THEN t ELSE d]
      BY <2>4 DEF RunOnHost
    <3>2. (IF kind[r] = "cd" THEN t ELSE d) \in Dir
      BY RootOK
    <3>3. back' \in [Req -> Dir]
      BY <3>1, <3>2
    <3> QED
      BY <2>4, <3>3 DEF RunOnHost, Execute
  <2>5. ASSUME NEW r \in Req, Answered(r) \/ Refused(r) PROVE TypeOK'
    BY <2>5 DEF Answered, Refused, Return, Unlock
  <2>6. ASSUME NEW r \in Req, TimedOut(r) PROVE TypeOK'
    BY <2>6 DEF TimedOut, GiveUp, Unlock
  <2>7. ASSUME NEW r \in Req, SaveCwd(r) PROVE TypeOK'
    BY <2>7 DEF SaveCwd
  <2>8. ASSUME NEW r \in Req, ReadAudit(r) PROVE TypeOK'
    BY <2>8 DEF ReadAudit
  <2>9. ASSUME NEW r \in Req, WriteAudit(r) PROVE TypeOK'
    <3>1. Append(seen[r], r) \in Seq(Req)
      OBVIOUS
    <3>2. audit' \in Seq(Req) /\ Len(audit') <= MaxAudit
      BY <2>9, <3>1, KeepRecentType DEF WriteAudit
    <3>3. seen' \in [Req -> Seq(Req)]
      BY <2>9 DEF WriteAudit
    <3> QED
      BY <2>9, <3>2, <3>3 DEF WriteAudit
  <2>10. ASSUME NEW r \in Req, SaveCwdFails(r) PROVE TypeOK'
    <3>1. faults' \in Nat
      BY <2>10 DEF SaveCwdFails, Fault
    <3> QED
      BY <2>10, <3>1 DEF SaveCwdFails
  <2>11. CASE UNCHANGED vars
    BY <2>11 DEF vars
  <2> QED
    BY <2>1, <2>2, <2>3, <2>4, <2>5, <2>6, <2>7, <2>8, <2>9, <2>10, <2>11 DEF Next
<1> QED
  BY <1>1, <1>2, PTL DEF Spec

-----------------------------------------------------------------------------
(***************************************************************************)
(* The bridge.  NoEntryLeft and AnsweredWasRun speak of what a caller      *)
(* sees; what lies in a channel in between has to be known too: it was     *)
(* executed, and its request had been asked.                               *)
(***************************************************************************)
BridgeInv ==
    /\ NoEntryLeft
    /\ AnsweredWasRun
    /\ chan \subseteq ran
    /\ \A r \in Req : waiter[r] = "none" => r \notin chan

LEMMA BridgeInit == Init => BridgeInv
  BY DEF Init, RelayInit, BridgeInv, NoEntryLeft, AnsweredWasRun

LEMMA AskKeepsBridge ==
    ASSUME TypeOK, BridgeInv, NEW r \in Req, Ask(r)
    PROVE  BridgeInv'
  BY DEF Ask, BridgeInv, NoEntryLeft, AnsweredWasRun, TypeOK, RelayTypeOK

LEMMA HostKeepsBridge ==
    ASSUME TypeOK, BridgeInv, HostNext
    PROVE  BridgeInv'
<1> USE DEF BridgeInv, NoEntryLeft, AnsweredWasRun, TypeOK, RelayTypeOK
<1>1. CASE Take
  BY <1>1 DEF Take
<1>2. CASE DropLink
  BY <1>2 DEF DropLink
<1>3. CASE Relink
  BY <1>3 DEF Relink
<1>4. ASSUME NEW r \in Req, Respond(r) PROVE BridgeInv'
  <2>1. CASE r \in pending
    BY <1>4, <2>1 DEF Respond, Resolve
  <2>2. CASE r \notin pending
    BY <1>4, <2>2 DEF Respond, Resolve
  <2> QED
    BY <2>1, <2>2
<1>5. ASSUME NEW r \in Req, RespondFails(r) PROVE BridgeInv'
  BY <1>5 DEF RespondFails
<1> QED
  BY <1>1, <1>2, <1>3, <1>4, <1>5 DEF HostNext

LEMMA BridgeStep == TypeOK /\ BridgeInv /\ [Next]_vars => BridgeInv'
<1> SUFFICES ASSUME TypeOK, BridgeInv, [Next]_vars PROVE BridgeInv'
  OBVIOUS
<1>1. CASE HostNext /\ UNCHANGED termVars
  BY <1>1, HostKeepsBridge
<1>2. ASSUME NEW r \in Req, StartShell(r) \/ StartAI(r) PROVE BridgeInv'
  BY <1>2, AskKeepsBridge DEF StartShell, StartAI
<1>3. ASSUME NEW r \in Req, RunOnHost(r) PROVE BridgeInv'
  BY <1>3 DEF RunOnHost, Execute, BridgeInv, NoEntryLeft, AnsweredWasRun
<1>4. ASSUME NEW r \in Req, Answered(r) \/ Refused(r) PROVE BridgeInv'
  <2>1. Return(r)
    BY <1>4 DEF Answered, Refused
  <2> QED
    BY <2>1 DEF Return, BridgeInv, NoEntryLeft, AnsweredWasRun, TypeOK, RelayTypeOK
<1>5. ASSUME NEW r \in Req, TimedOut(r) PROVE BridgeInv'
  BY <1>5 DEF TimedOut, GiveUp, BridgeInv, NoEntryLeft, AnsweredWasRun,
              TypeOK, RelayTypeOK
<1>6. ASSUME UNCHANGED relayVars PROVE BridgeInv'
  BY <1>6 DEF BridgeInv, NoEntryLeft, AnsweredWasRun
<1>7. ASSUME NEW r \in Req, NEW m \in Member, NEW k \in {"cd", "shell", "ai"},
             Submit(r, m, k)
      PROVE  UNCHANGED relayVars
  BY <1>7 DEF Submit
<1>8. ASSUME NEW r \in Req, SaveCwd(r) \/ ReadAudit(r) \/ WriteAudit(r)
      PROVE  UNCHANGED relayVars
  BY <1>8 DEF SaveCwd, ReadAudit, WriteAudit
<1>9. ASSUME NEW r \in Req, SaveCwdFails(r) PROVE BridgeInv'
  BY <1>9 DEF SaveCwdFails, BridgeInv, NoEntryLeft, AnsweredWasRun
<1>10. CASE UNCHANGED vars
  BY <1>6, <1>10 DEF vars
<1> QED
  BY <1>1, <1>2, <1>3, <1>4, <1>5, <1>6, <1>7, <1>8, <1>9, <1>10 DEF Next

\* The bridge holds a channel exactly while its caller waits on it without an
\* answer, whichever of the answer and the timeout comes first.
THEOREM BridgeIsExact == Spec => []NoEntryLeft
<1>1. BridgeInv => NoEntryLeft
  BY DEF BridgeInv
<1> QED
  BY <1>1, BridgeInit, BridgeStep, TerminalTypeCorrect, PTL DEF Spec

\* A caller is answered only with what the host has executed for this request.
THEOREM AnswersAreTrue == Spec => []AnsweredWasRun
<1>1. BridgeInv => AnsweredWasRun
  BY DEF BridgeInv
<1> QED
  BY <1>1, BridgeInit, BridgeStep, TerminalTypeCorrect, PTL DEF Spec

-----------------------------------------------------------------------------
(***************************************************************************)
(* The lock.  A command is waited for only by a running handler, and the   *)
(* running handler of a shell command is the one that holds the lock.      *)
(***************************************************************************)
LockInv ==
    /\ \A r \in Req : waiter[r] = "waiting" => at[r] = "running"
    /\ \A r \in Req : at[r] = "running" /\ kind[r] # "ai" => lock = r

LEMMA LockStep == TypeOK /\ LockInv /\ [Next]_vars => LockInv'
<1> SUFFICES ASSUME TypeOK, LockInv, [Next]_vars PROVE LockInv'
  OBVIOUS
<1> USE DEF LockInv, TypeOK, RelayTypeOK
<1>1. CASE HostNext /\ UNCHANGED termVars
  <2>1. waiter' = waiter
    BY <1>1 DEF HostNext, Take, DropLink, Relink, Respond, RespondFails
  <2> QED
    BY <1>1, <2>1
<1>2. ASSUME NEW r \in Req, NEW m \in Member, NEW k \in {"cd", "shell", "ai"},
             Submit(r, m, k)
      PROVE  LockInv'
  BY <1>2 DEF Submit
<1>3. ASSUME NEW r \in Req, StartShell(r) PROVE LockInv'
  BY <1>3, NoReqOK DEF StartShell, Ask
<1>4. ASSUME NEW r \in Req, StartAI(r) PROVE LockInv'
  BY <1>4 DEF StartAI, Ask
<1>5. ASSUME NEW r \in Req, RunOnHost(r) PROVE LockInv'
  BY <1>5 DEF RunOnHost, Execute
<1>6. ASSUME NEW r \in Req, Answered(r) \/ Refused(r) PROVE LockInv'
  BY <1>6 DEF Answered, Refused, Return, Unlock
<1>7. ASSUME NEW r \in Req, TimedOut(r) PROVE LockInv'
  BY <1>7 DEF TimedOut, GiveUp, Unlock
<1>8. ASSUME NEW r \in Req, SaveCwd(r) \/ SaveCwdFails(r) PROVE LockInv'
  BY <1>8 DEF SaveCwd, SaveCwdFails
<1>9. ASSUME NEW r \in Req, ReadAudit(r) PROVE LockInv'
  BY <1>9 DEF ReadAudit
<1>10. ASSUME NEW r \in Req, WriteAudit(r) PROVE LockInv'
  BY <1>10 DEF WriteAudit
<1>11. CASE UNCHANGED vars
  BY <1>11 DEF vars
<1> QED
  BY <1>1, <1>2, <1>3, <1>4, <1>5, <1>6, <1>7, <1>8, <1>9, <1>10, <1>11 DEF Next

\* Shell commands are serialized: never two with the host and waited for.
THEOREM ShellSerialized == Spec => []Serialized
<1>1. Init => LockInv
  BY DEF Init, RelayInit, LockInv
<1>2. LockInv => Serialized
  BY DEF LockInv, Serialized
<1> QED
  BY <1>1, <1>2, LockStep, TerminalTypeCorrect, PTL DEF Spec

-----------------------------------------------------------------------------
(***************************************************************************)
(* The session.  The directory a command has loaded stays the member's     *)
(* unless another command of that member saves one: two commands of a      *)
(* member that have both loaded it and not saved it are in beside.         *)
(***************************************************************************)
SessionInv ==
    /\ \A q, r \in Req :
        q # r /\ who[q] = who[r] /\ InSession(q) /\ InSession(r) => r \in beside
    /\ \A r \in Req : at[r] # "idle" => who[r] \in Member
    /\ OwnSession

\* A step that only takes a handler further keeps it.
LEMMA SessionKept ==
    ASSUME TypeOK, SessionInv, UNCHANGED <<who, loaded, cwd, beside>>,
           \A r \in Req : /\ at[r] = "idle" => at'[r] = "idle"
                          /\ InSession(r)' => InSession(r)
    PROVE  SessionInv'
  BY DEF SessionInv, OwnSession, InSession

LEMMA SessionStep == TypeOK /\ SessionInv /\ [Next]_vars => SessionInv'
<1> SUFFICES ASSUME TypeOK, SessionInv, [Next]_vars PROVE SessionInv'
  OBVIOUS
<1> USE DEF TypeOK, InSession
<1>1. CASE HostNext /\ UNCHANGED termVars
  BY <1>1, SessionKept
<1>2. ASSUME NEW r \in Req, NEW m \in Member, NEW k \in {"cd", "shell", "ai"},
             Submit(r, m, k)
      PROVE  SessionInv'
  BY <1>2 DEF Submit, SessionInv, OwnSession
<1>3. ASSUME NEW r \in Req, StartShell(r) PROVE SessionInv'
  BY <1>3, SessionKept DEF StartShell
<1>4. ASSUME NEW r \in Req, StartAI(r) PROVE SessionInv'
  BY <1>4, SessionKept DEF StartAI
<1>5. ASSUME NEW r \in Req, RunOnHost(r) PROVE SessionInv'
  BY <1>5, SessionKept DEF RunOnHost
<1>6. ASSUME NEW r \in Req, Answered(r) \/ Refused(r) PROVE SessionInv'
  BY <1>6, SessionKept DEF Answered, Refused
<1>7. ASSUME NEW r \in Req, TimedOut(r) PROVE SessionInv'
  BY <1>7, SessionKept DEF TimedOut
<1>8. ASSUME NEW r \in Req, SaveCwd(r) PROVE SessionInv'
  <2>1. /\ at' = [at EXCEPT ![r] = "saved"]
        /\ UNCHANGED <<who, loaded, beside>>
        /\ at[r] = "ran"
    BY <1>8 DEF SaveCwd
  <2>2. \A m \in Member : m # who[r] => cwd'[m] = cwd[m]
    BY <1>8 DEF SaveCwd
  <2> QED
    BY <2>1, <2>2 DEF SessionInv, OwnSession
<1>9. ASSUME NEW r \in Req, ReadAudit(r) PROVE SessionInv'
  BY <1>9, SessionKept DEF ReadAudit
<1>10. ASSUME NEW r \in Req, WriteAudit(r) PROVE SessionInv'
  BY <1>10, SessionKept DEF WriteAudit
<1>11. ASSUME NEW r \in Req, SaveCwdFails(r) PROVE SessionInv'
  BY <1>11, SessionKept DEF SaveCwdFails
<1>12. CASE UNCHANGED vars
  BY <1>12, SessionKept DEF vars
<1> QED
  BY <1>1, <1>2, <1>3, <1>4, <1>5, <1>6, <1>7, <1>8, <1>9, <1>10, <1>11, <1>12
  DEF Next

\* Each member keeps a session of their own: the directory loaded before the
\* lock is still the member's when the command runs, whatever others run; only
\* a second command of the same member, loaded beside it, can have moved it.
THEOREM SessionsApart == Spec => []OwnSession
<1>1. Init => SessionInv
  BY DEF Init, SessionInv, OwnSession, InSession
<1>2. SessionInv => OwnSession
  BY DEF SessionInv
<1> QED
  BY <1>1, <1>2, SessionStep, TerminalTypeCorrect, PTL DEF Spec

HIDE DEF relayVars, bridgeVars, hostVars, termVars

-----------------------------------------------------------------------------
(***************************************************************************)
(* The agents' host.  At every moment it goes by the last answer it was    *)
(* given since it was started, however many polls have failed after that.  *)
(***************************************************************************)
\* Every variable keeps its type.
THEOREM AgentsTypeCorrect == AgentsSpec => []AgentsTypeOK
<1>1. AgentsInit => AgentsTypeOK
  <2> SUFFICES ASSUME AgentsInit PROVE AgentsTypeOK
    OBVIOUS
  <2>1. AllRun \in [Agt -> Desire]
    BY DEF AllRun, Desire
  <2>2. [a \in Agt |-> "none"] \in [Agt -> {"none", "fresh", "stale"}]
    OBVIOUS
  <2>3. beat \in [Agt -> {"none", "fresh", "stale"}]
    BY <2>2 DEF AgentsInit
  <2>4. desire \in [Agt -> Desire] /\ known \in [Agt -> Desire]
          /\ told \in [Agt -> Desire]
    BY <2>1 DEF AgentsInit
  <2> QED
    BY <2>3, <2>4 DEF AgentsInit, AgentsTypeOK
<1>2. AgentsTypeOK /\ [AgentsNext]_agentVars => AgentsTypeOK'
  <2> SUFFICES ASSUME AgentsTypeOK, [AgentsNext]_agentVars PROVE AgentsTypeOK'
    OBVIOUS
  <2> USE DEF AgentsTypeOK, Desire, AllRun, Upset
  <2>1. CASE PollDesires
    BY <2>1 DEF PollDesires, HostDesires, Unreachable
  <2>2. CASE HostStarts
    BY <2>2 DEF HostStarts
  <2>3. CASE HostStops
    <3>1. upsets' \in Nat
      BY <2>3 DEF HostStops
    <3>2. ending' \subseteq Agt /\ orphan' \subseteq Agt /\ proc' \subseteq Agt
      BY <2>3, Zenon DEF HostStops
    <3>3. UNCHANGED <<desire, beat, clearing, known, toVisit, beating, told, changes>>
          /\ hostUp' = FALSE
      BY <2>3 DEF HostStops
    <3> QED
      BY <3>1, <3>2, <3>3
  <2>4. ASSUME NEW a \in Agt, NEW want \in Desire, SetDesire(a, want)
        PROVE  AgentsTypeOK'
    BY <2>4 DEF SetDesire
  <2>5. ASSUME NEW a \in Agt, ClearBeat(a) PROVE AgentsTypeOK'
    BY <2>5 DEF ClearBeat
  <2>6. ASSUME NEW a \in Agt, BeatArrives(a) PROVE AgentsTypeOK'
    BY <2>6 DEF BeatArrives
  <2>7. ASSUME NEW a \in Agt, BeatAges(a) PROVE AgentsTypeOK'
    BY <2>7 DEF BeatAges
  <2>8. ASSUME NEW a \in Agt, Reconcile(a) PROVE AgentsTypeOK'
    BY <2>8 DEF Reconcile, StopProc
  <2>9. ASSUME NEW a \in Agt, SendBeat(a) PROVE AgentsTypeOK'
    BY <2>9 DEF SendBeat
  <2>10. ASSUME NEW a \in Agt, ProcEnds(a) \/ ProcCrashes(a) PROVE AgentsTypeOK'
    BY <2>10 DEF ProcEnds, ProcCrashes
  <2>11. CASE UNCHANGED agentVars
    BY <2>11 DEF agentVars
  <2> QED
    BY <2>1, <2>2, <2>3, <2>4, <2>5, <2>6, <2>7, <2>8, <2>9, <2>10, <2>11
    DEF AgentsNext
<1> QED
  BY <1>1, <1>2, PTL DEF AgentsSpec

-----------------------------------------------------------------------------
\* What the loop goes by is what the host was last told.
Remembers == known = told

LEMMA RemembersStep == Remembers /\ [AgentsNext]_agentVars => Remembers'
<1> SUFFICES ASSUME Remembers, [AgentsNext]_agentVars PROVE Remembers'
  OBVIOUS
<1> USE DEF Remembers
<1>1. CASE PollDesires
  BY <1>1 DEF PollDesires, Unreachable
<1>2. CASE HostStarts \/ HostStops
  BY <1>2 DEF HostStarts, HostStops
<1>3. ASSUME NEW a \in Agt,
             \/ \E want \in Desire : SetDesire(a, want)
             \/ ClearBeat(a) \/ BeatArrives(a) \/ BeatAges(a)
             \/ Reconcile(a) \/ SendBeat(a) \/ ProcEnds(a) \/ ProcCrashes(a)
      PROVE  UNCHANGED <<known, told>>
  BY <1>3 DEF SetDesire, ClearBeat, BeatArrives, BeatAges, Reconcile, SendBeat,
              ProcEnds, ProcCrashes
<1>4. CASE UNCHANGED agentVars
  BY <1>4 DEF agentVars
<1> QED
  BY <1>1, <1>2, <1>3, <1>4 DEF AgentsNext

\* No step but a turn of the loop starts a connector, and that one only for an
\* agent the host takes for one that shall run.
LEMMA StartsAsKnown ==
    ASSUME [AgentsNext]_agentVars, NEW b \in Agt, b \in proc' \ proc
    PROVE  known[b] = "run"
<1>1. ASSUME NEW a \in Agt, Reconcile(a) PROVE known[b] = "run"
  BY <1>1 DEF Reconcile, StopProc
<1>2. CASE PollDesires \/ HostStarts \/ HostStops \/ UNCHANGED agentVars
  BY <1>2 DEF PollDesires, HostStarts, HostStops, agentVars
<1>3. ASSUME NEW a \in Agt,
             \/ \E want \in Desire : SetDesire(a, want)
             \/ ClearBeat(a) \/ BeatArrives(a) \/ BeatAges(a)
             \/ SendBeat(a) \/ ProcEnds(a) \/ ProcCrashes(a)
      PROVE  proc' \subseteq proc
  BY <1>3 DEF SetDesire, ClearBeat, BeatArrives, BeatAges, SendBeat, ProcEnds,
              ProcCrashes
<1> QED
  BY <1>1, <1>2, <1>3 DEF AgentsNext

\* A connector is started only for an agent that the last answer did not stop.
THEOREM StopsAreRemembered == AgentsSpec => StopRemembered
<1>1. AgentsInit => Remembers
  BY DEF AgentsInit, Remembers
<1>2. Remembers /\ [AgentsNext]_agentVars
        => [\A a \in Agt : a \in proc' \ proc => told[a] = "run"]_agentVars
  BY StartsAsKnown DEF Remembers
<1> QED
  BY <1>1, <1>2, RemembersStep, PTL DEF AgentsSpec, StopRemembered

-----------------------------------------------------------------------------
(***************************************************************************)
(* The composition.  The steps of a part leave the variables of the others *)
(* alone, so whichever part a behaviour is about, it is a behaviour of     *)
(* each part by itself, which the parts not chosen spend at rest: what the *)
(* theorems above say of a part holds in the composition too.              *)
(***************************************************************************)
THEOREM PartsByThemselves == LivenessSpec => PairingSpec /\ Spec /\ AgentsSpec
<1>1. LivenessInit => PairingInit /\ Init /\ AgentsInit
  BY DEF LivenessInit
<1>2. [LivenessNext]_livenessVars
        => [PairingNext]_pairingVars /\ [Next]_vars /\ [AgentsNext]_agentVars
  BY DEF LivenessNext, PairingStep, TerminalStep, AgentsStep, livenessVars
<1> QED
  BY <1>1, <1>2, PTL DEF LivenessSpec, PairingSpec, Spec, AgentsSpec

\* Every variable of every part keeps its type.
THEOREM HostPartsTypeCorrect == LivenessSpec => []PartsTypeOK
<1>1. PairingTypeOK /\ TypeOK /\ AgentsTypeOK => PartsTypeOK
  BY DEF PartsTypeOK
<1> QED
  BY <1>1, PartsByThemselves, PairingTypeCorrect, TerminalTypeCorrect,
     AgentsTypeCorrect, PTL
=============================================================================
