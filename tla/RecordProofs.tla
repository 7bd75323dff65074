---------------------------- MODULE RecordProofs ----------------------------
(***************************************************************************)
(* What the record protocols promise, for any number of requests, records  *)
(* and users: the gate, the task ledger, the co-authors of commits, the    *)
(* claims (for every page size) and the facts (for every cap).             *)
(* Each protocol is of one kind: a request decides by what it has read,    *)
(* and the proofs say what can have happened to that since.                *)
(* The lemmas they share come first: on calls, and on the pages of keys.   *)
(***************************************************************************)
EXTENDS Gate, Tasks, CoAuthors, Claims, Facts, TLAPS, FiniteSetTheorems,
        SequenceTheorems, WellFoundedInduction

-----------------------------------------------------------------------------
(***************************************************************************)
(* The calls.  What a request is about does not change while it runs.      *)
(***************************************************************************)
IsRequest(r) ==
    r = [op |-> r.op, at |-> r.at, on |-> r.on, by |-> r.by, got |-> r.got]

CallsShape ==
    /\ call = [c \in Call |-> call[c]]
    /\ \A c \in Call : IsRequest(call[c])

LEMMA InitShape == CallsInit => CallsShape
  BY DEF CallsInit, CallsShape, IsRequest, Free

\* A new request is what the handler says, and the others stay.
LEMMA ArriveEffect ==
    ASSUME CallsShape, NEW c \in Call, NEW op, NEW at, NEW on, NEW by, NEW got,
           Arrive(c, op, at, on, by, got)
    PROVE  /\ CallsShape'
           /\ call[c].at = "free"
           /\ call'[c].op = op /\ call'[c].at = at /\ call'[c].on = on
           /\ call'[c].by = by /\ call'[c].got = got
           /\ \A d \in Call \ {c} : call'[d] = call[d]
  BY DEF Arrive, CallsShape, IsRequest

\* A step of a request changes how far it has come and what it has read.
LEMMA GoesEffect ==
    ASSUME CallsShape, NEW c \in Call, NEW at, NEW got, Goes(c, at, got)
    PROVE  /\ CallsShape'
           /\ call'[c].op = call[c].op /\ call'[c].on = call[c].on
           /\ call'[c].by = call[c].by
           /\ call'[c].at = at /\ call'[c].got = got
           /\ \A d \in Call \ {c} : call'[d] = call[d]
  BY DEF Goes, CallsShape, IsRequest

\* An answered request leaves its slot free.
LEMMA EndsEffect ==
    ASSUME CallsShape, NEW c \in Call, Ends(c)
    PROVE  /\ CallsShape'
           /\ call'[c] = Free
           /\ \A d \in Call \ {c} : call'[d] = call[d]
  BY DEF Ends, CallsShape, IsRequest, Free

\* A restart leaves every slot free.
LEMMA CutOffEffect ==
    ASSUME CallsCutOff
    PROVE  CallsShape' /\ \A c \in Call : call'[c] = Free
  BY DEF CallsCutOff, CallsShape, IsRequest, Free

-----------------------------------------------------------------------------
(***************************************************************************)
(* Numbers.  Every nonempty set of numbers has a least member, and a       *)
(* bounded one a greatest.                                                 *)
(***************************************************************************)
LessThan == {ss \in Nat \X Nat : ss[1] < ss[2]}

LEMMA LeastMember ==
    ASSUME NEW S \in SUBSET Nat, S # {}
    PROVE  \E x \in S : \A y \in S : x <= y
<1>1. IsWellFoundedOn(LessThan, Nat)
  BY NatLessThanWellFounded DEF OpToRel, LessThan
<1>2. PICK x \in S : \A y \in S : <<y, x>> \notin LessThan
  BY <1>1, WFMin
<1>3. ASSUME NEW y \in S PROVE x <= y
  <2>1. <<y, x>>[1] = y /\ <<y, x>>[2] = x /\ <<y, x>> \in Nat \X Nat
    OBVIOUS
  <2> QED
    BY <1>2, <2>1 DEF LessThan
<1> QED
  BY <1>3

LEMMA GreatestMember ==
    ASSUME NEW S \in SUBSET Nat, S # {}, NEW n \in Nat, \A s \in S : s <= n
    PROVE  \E x \in S : \A y \in S : y <= x
<1> DEFINE D == {d \in Nat : n - d \in S}
<1>1. D # {}
  <2>1. PICK s \in S : TRUE
    OBVIOUS
  <2>2. n - s \in Nat /\ n - (n - s) = s
    OBVIOUS
  <2> QED
    BY <2>1, <2>2
<1>2. PICK d \in D : \A e \in D : d <= e
  BY <1>1, LeastMember
<1>3. ASSUME NEW y \in S PROVE y <= n - d
  <2>1. n - y \in Nat /\ n - (n - y) = y
    OBVIOUS
  <2>2. n - y \in D
    BY <2>1
  <2> QED
    BY <1>2, <2>1, <2>2
<1> QED
  BY <1>2, <1>3

-----------------------------------------------------------------------------
(***************************************************************************)
(* Pages.                                                                  *)
(***************************************************************************)
LEMMA PlaceType ==
    ASSUME NEW S \in SUBSET Nat, NEW k \in Nat
    PROVE  IsFiniteSet({j \in S : j < k}) /\ Place(k, S) \in Nat
<1>1. IsFiniteSet({j \in S : j < k})
  BY FS_BoundedSetOfNaturals
<1> QED
  BY <1>1, FS_CardinalityType DEF Place

\* A key added to the store moves no key to an earlier place.
LEMMA PlaceGrows ==
    ASSUME NEW T \in SUBSET Nat, NEW S \in SUBSET T, NEW k \in Nat
    PROVE  Place(k, S) <= Place(k, T)
<1>1. {j \in S : j < k} \subseteq {j \in T : j < k}
  OBVIOUS
<1> QED
  BY <1>1, PlaceType, FS_Subset DEF Place

\* The places leave no gap: the first key of which the place is not below n has
\* just that place.
LEMMA FirstPlace ==
    ASSUME NEW S \in SUBSET Nat, NEW n \in Nat, NEW k \in S,
           \A j \in S : j < k => Place(j, S) < n
    PROVE  Place(k, S) <= n
<1> DEFINE L == {j \in S : j < k}
<1>1. CASE L = {}
  BY <1>1, FS_EmptySet DEF Place
<1>2. CASE L # {}
  <2>1. PICK m \in L : \A y \in L : y <= m
    <3>1. L \in SUBSET Nat /\ k \in Nat
      OBVIOUS
    <3>2. \A y \in L : y <= k
      BY <3>1
    <3> HIDE DEF L
    <3> QED
      BY <1>2, <3>1, <3>2, GreatestMember
  <2> DEFINE M == {j \in S : j < m}
  <2>2. L = M \cup {m} /\ m \notin M
    <3>1. m \in S /\ m < k /\ m \in Nat /\ k \in Nat
      BY <2>1
    <3>2. ASSUME NEW y \in L PROVE y \in M \cup {m}
      BY <2>1, <3>1
    <3>3. ASSUME NEW y \in M PROVE y \in L
      BY <3>1
    <3>4. m \notin M
      BY <3>1
    <3>5. m \in L
      BY <2>1
    <3> HIDE DEF M, L
    <3> QED
      BY <3>2, <3>3, <3>4, <3>5
  <2>3. Cardinality(L) = Cardinality(M) + 1
    <3>1. IsFiniteSet(M)
      BY <2>1, PlaceType
    <3> HIDE DEF M, L
    <3> QED
      BY <2>2, <3>1, FS_AddElement
  <2>4. Place(m, S) \in Nat /\ Place(m, S) < n
    BY <2>1, PlaceType
  <2> QED
    BY <2>3, <2>4 DEF Place
<1> QED
  BY <1>1, <1>2

\* After an empty page there is no key.
LEMMA EmptyPageIsLast ==
    ASSUME NEW S \in SUBSET Nat, NEW n \in Nat, Page(n, S) = {}
    PROVE  \A k \in S : Place(k, S) < n * PageSize
<1> DEFINE B == {k \in S : ~(Place(k, S) < n * PageSize)}
<1>0. n * PageSize \in Nat /\ (n + 1) * PageSize = n * PageSize + PageSize
  BY PageSizeOK
<1>1. SUFFICES ASSUME B # {} PROVE FALSE
  BY <1>1
<1>2. PICK k \in B : \A j \in B : k <= j
  BY <1>1, LeastMember
<1>3. \A j \in S : j < k => Place(j, S) < n * PageSize
  BY <1>2
<1>4. Place(k, S) \in Nat /\ Place(k, S) <= n * PageSize
  BY <1>0, <1>2, <1>3, PlaceType, FirstPlace
<1>5. k \in Page(n, S)
  BY <1>0, <1>2, <1>4, PageSizeOK DEF Page
<1> QED
  BY <1>5

\* A key at or past a page is on it or past it.
LEMMA OnPageOrPast ==
    ASSUME NEW S \in SUBSET Nat, NEW n \in Nat, NEW k \in S,
           Place(k, S) >= n * PageSize
    PROVE  k \in Page(n, S) \/ Place(k, S) >= (n + 1) * PageSize
<1>1. (n + 1) * PageSize \in Nat /\ Place(k, S) \in Nat
  <2>1. Place(k, S) \in Nat
    BY PlaceType
  <2>2. (n + 1) * PageSize \in Nat
    BY PageSizeOK
  <2> QED
    BY <2>1, <2>2
<1> DEFINE past == (n + 1) * PageSize
<1>2. Place(k, S) < past \/ Place(k, S) >= past
  <2> HIDE DEF past
  <2> QED
    BY <1>1 DEF past
<1> QED
  BY <1>2 DEF Page

-----------------------------------------------------------------------------
(***************************************************************************)
(* The gate.  An approval is at its last step only when its entry is in    *)
(* the dictionary.  Two decisions that are both under way on a proposal    *)
(* count as contested; a decision that is under way on a proposal decided  *)
(* the other way was so already when that was done; and an entry of which  *)
(* the proposal still waits is that of an approval that has yet to clear   *)
(* it, or failed to.                                                       *)
(***************************************************************************)
Deciding(c, op) == call[c].at # "free" /\ call[c].op = op

GateInv ==
    /\ CallsShape /\ GateTypeOK
    /\ \A c \in Call : call[c].at # "free" /\ call[c].at = "entered" =>
         call[c].op = "approve" /\ call[c].on \in dictionary
    /\ NothingVanishes
    /\ waiting \cap rejected = {}
    /\ \A c, d \in Call :
         Deciding(c, "approve") /\ Deciding(d, "reject") /\ call[c].on = call[d].on =>
           call[c].on \in contested
    /\ \A c \in Call : Deciding(c, "approve") /\ call[c].on \in rejected =>
         call[c].on \in contested
    /\ \A c \in Call : Deciding(c, "reject") /\ call[c].on \in dictionary =>
         call[c].on \in contested \cup halfway
    /\ \A p \in dictionary \cap waiting :
         p \in halfway \/ \E c \in Call : At(c, "approve", "entered") /\ call[c].on = p
    /\ DecidedOnce

\* A decision begins: whoever is deciding the other way makes it contested, and
\* an entry under a proposal that waits is an approval's that is under way, or
\* was left so.
LEMMA ReadKeepsGate ==
    ASSUME GateInv, NEW c \in Call, NEW p \in Proposal, NEW u \in Writer,
           NEW op \in {"approve", "reject"}, ReadProposal(c, op, p, u)
    PROVE  GateInv'
<1>1. CallsShape /\ GateTypeOK
  BY DEF GateInv
<1>2. /\ CallsShape' /\ call[c].at = "free"
      /\ call'[c].op = op /\ call'[c].on = p /\ call'[c].at = "read"
      /\ call'[c].by = u
      /\ \A d \in Call \ {c} : call'[d] = call[d]
  BY <1>1, ArriveEffect DEF ReadProposal
<1>3. /\ UNCHANGED <<lapses, submitted, waiting, dictionary, rejected, halfway>>
      /\ p \in waiting /\ u \in Approver
      /\ contested' = IF Disputed(op, p) THEN contested \cup {p} ELSE contested
  BY DEF ReadProposal, Meets
<1>4. p \in submitted /\ p \notin rejected /\ contested \subseteq contested'
  BY <1>1, <1>3 DEF GateInv, GateTypeOK
<1>5. GateTypeOK'
  BY <1>1, <1>2, <1>3, <1>4 DEF GateTypeOK
<1>6. \A d \in Call : call'[d].at # "free" /\ call'[d].at = "entered" =>
         call'[d].op = "approve" /\ call'[d].on \in dictionary'
  BY <1>2, <1>3 DEF GateInv
<1>7. \A d \in Call : d # c /\ call[d].at # "free" /\ call[d].op # op /\ call[d].on = p =>
         p \in contested'
  BY <1>3 DEF Disputed
<1>8. ASSUME NEW d \in Call, NEW e \in Call,
             Deciding(d, "approve")', Deciding(e, "reject")',
             call'[d].on = call'[e].on
      PROVE  call'[d].on \in contested'
  <2>1. CASE d = c
    BY <1>2, <1>7, <1>8, <2>1 DEF Deciding
  <2>2. CASE e = c
    BY <1>2, <1>7, <1>8, <2>2 DEF Deciding
  <2>3. CASE d # c /\ e # c
    BY <1>2, <1>4, <1>8, <2>3 DEF GateInv, Deciding
  <2> QED
    BY <2>1, <2>2, <2>3
<1>9. \A d \in Call : Deciding(d, "approve")' /\ call'[d].on \in rejected' =>
         call'[d].on \in contested'
  BY <1>2, <1>3, <1>4 DEF GateInv, Deciding
<1>10. \A q \in dictionary' \cap waiting' :
         q \in halfway' \/ \E d \in Call : At(d, "approve", "entered")' /\ call'[d].on = q
  <2>1. \A d \in Call : At(d, "approve", "entered") => d # c /\ call'[d] = call[d]
    BY <1>2 DEF At
  <2> QED
    BY <1>3, <2>1 DEF GateInv, At
<1>11. ASSUME NEW d \in Call, Deciding(d, "reject")', call'[d].on \in dictionary'
       PROVE  call'[d].on \in contested' \cup halfway'
  <2>1. CASE d = c
    <3>1. op = "reject" /\ call'[d].on = p /\ p \in dictionary \cap waiting
      BY <1>2, <1>3, <1>11, <2>1 DEF Deciding
    <3>2. p \in halfway \/ \E e \in Call : At(e, "approve", "entered") /\ call[e].on = p
      BY <3>1 DEF GateInv
    <3>3. ASSUME NEW e \in Call, At(e, "approve", "entered"), call[e].on = p
          PROVE  p \in contested'
      BY <1>2, <1>7, <3>1, <3>3 DEF At
    <3> QED
      BY <1>3, <3>1, <3>2, <3>3
  <2>2. CASE d # c
    BY <1>2, <1>3, <1>4, <1>11, <2>2 DEF GateInv, Deciding
  <2> QED
    BY <2>1, <2>2
<1>12. NothingVanishes' /\ waiting' \cap rejected' = {} /\ DecidedOnce'
  BY <1>3, <1>4 DEF GateInv, NothingVanishes, DecidedOnce
<1> QED
  BY <1>2, <1>5, <1>6, <1>8, <1>9, <1>10, <1>11, <1>12 DEF GateInv

\* An entry is stored, or not: whoever is rejecting it meanwhile, or has, makes
\* it contested.
LEMMA StoreKeepsGate ==
    ASSUME GateInv, NEW c \in Call, StoreEntry(c)
    PROVE  GateInv'
<1> DEFINE p == call[c].on
<1>1. CallsShape /\ GateTypeOK /\ At(c, "approve", "read") /\ Deciding(c, "approve")
  BY DEF GateInv, StoreEntry, Deciding, At
<1>2. UNCHANGED <<submitted, waiting, rejected, contested, halfway>> /\ lapses' \in Nat
  BY <1>1 DEF StoreEntry, Lapse, GateTypeOK
<1>3. CASE dictionary' = dictionary \cup {p} /\ Goes(c, "entered", "nothing")
  <2>1. /\ CallsShape'
        /\ call'[c].op = "approve" /\ call'[c].on = p
        /\ call'[c].by = call[c].by /\ call'[c].at = "entered"
        /\ \A d \in Call \ {c} : call'[d] = call[d]
    BY <1>1, <1>3, GoesEffect DEF At
  <2>2. p \in submitted /\ call[c].by \in Approver
    BY <1>1 DEF GateTypeOK, At
  <2>3. GateTypeOK'
    BY <1>1, <1>2, <1>3, <2>1, <2>2 DEF GateTypeOK
  <2>4. \A d \in Call, op \in {"approve", "reject"} : Deciding(d, op)' <=> Deciding(d, op)
    BY <1>1, <2>1 DEF Deciding, At
  <2>5. \A d \in Call : call'[d].on = call[d].on
    BY <2>1
  <2>6. \A d \in Call : At(d, "approve", "entered") => At(d, "approve", "entered")'
    BY <2>1 DEF At
  <2>7. At(c, "approve", "entered")'
    BY <2>1 DEF At
  <2>8. \A q \in dictionary' \cap waiting' :
          q \in halfway' \/ \E d \in Call : At(d, "approve", "entered")' /\ call'[d].on = q
    BY <1>2, <1>3, <2>5, <2>6, <2>7 DEF GateInv
  <2>9. \A d \in Call : call'[d].at # "free" /\ call'[d].at = "entered" =>
          call'[d].op = "approve" /\ call'[d].on \in dictionary'
    BY <1>3, <2>1 DEF GateInv
  <2>10. \A d \in Call : Deciding(d, "reject") /\ call[d].on = p => p \in contested
    BY <1>1 DEF GateInv
  <2>11. p \in rejected => p \in contested
    BY <1>1 DEF GateInv
  <2>12. NothingVanishes' /\ DecidedOnce'
    BY <1>2, <1>3, <2>11 DEF GateInv, NothingVanishes, DecidedOnce
  <2>13. \A d, e \in Call :
           Deciding(d, "approve")' /\ Deciding(e, "reject")' /\ call'[d].on = call'[e].on =>
             call'[d].on \in contested'
    BY <1>2, <2>4, <2>5 DEF GateInv
  <2>14. \A d \in Call : Deciding(d, "approve")' /\ call'[d].on \in rejected' =>
           call'[d].on \in contested'
    BY <1>2, <2>4, <2>5 DEF GateInv
  <2>15. \A d \in Call : Deciding(d, "reject")' /\ call'[d].on \in dictionary' =>
           call'[d].on \in contested' \cup halfway'
    BY <1>2, <1>3, <2>4, <2>5, <2>10 DEF GateInv
  <2>16. waiting' \cap rejected' = {}
    BY <1>2 DEF GateInv
  <2> QED
    BY <2>1, <2>3, <2>8, <2>9, <2>12, <2>13, <2>14, <2>15, <2>16 DEF GateInv
<1>4. CASE Ends(c) /\ UNCHANGED dictionary
  <2>1. /\ CallsShape' /\ call'[c].at = "free"
        /\ \A d \in Call \ {c} : call'[d] = call[d]
    BY <1>1, <1>4, EndsEffect DEF Free
  <2>2. GateTypeOK'
    BY <1>1, <1>2, <1>4, <2>1 DEF GateTypeOK
  <2>3. \A d \in Call : At(d, "approve", "entered") =>
          At(d, "approve", "entered")' /\ call'[d] = call[d]
    BY <1>1, <2>1 DEF At
  <2>4. \A q \in dictionary' \cap waiting' :
          q \in halfway' \/ \E d \in Call : At(d, "approve", "entered")' /\ call'[d].on = q
    BY <1>2, <1>4, <2>3 DEF GateInv
  <2> QED
    BY <1>2, <1>4, <2>1, <2>2, <2>4 DEF GateInv, Deciding, NothingVanishes, DecidedOnce
<1> QED
  BY <1>3, <1>4 DEF StoreEntry

\* A decision ends: an approval with its proposal deleted or left halfway, a
\* rejection, of an entry too, only when it was contested or left halfway.
LEMMA EndKeepsGate ==
    ASSUME GateInv, NEW c \in Call, ClearProposal(c) \/ Reject(c)
    PROVE  GateInv'
<1> DEFINE p == call[c].on
<1>1. CallsShape /\ GateTypeOK /\ call[c].at # "free" /\ p \in submitted
  BY DEF GateInv, GateTypeOK, ClearProposal, Reject, At
<1>2. /\ CallsShape' /\ call'[c].at = "free"
      /\ \A d \in Call \ {c} : call'[d] = call[d]
  BY <1>1, EndsEffect DEF ClearProposal, Reject, Free
<1>3. /\ UNCHANGED <<submitted, dictionary, contested>> /\ lapses' \in Nat
      /\ halfway \subseteq halfway' /\ halfway' \subseteq halfway \cup {p}
      /\ waiting' \subseteq waiting
      /\ rejected \subseteq rejected' /\ rejected' \subseteq rejected \cup {p}
  BY <1>1 DEF ClearProposal, Reject, Lapse, GateTypeOK
<1>4. GateTypeOK'
  BY <1>1, <1>2, <1>3 DEF GateTypeOK
<1>5. \A d \in Call, op \in {"approve", "reject"} : Deciding(d, op)' => Deciding(d, op) /\ d # c /\ call'[d] = call[d]
  BY <1>2 DEF Deciding
<1>6. \A d \in Call : call'[d].at # "free" /\ call'[d].at = "entered" =>
         call'[d].op = "approve" /\ call'[d].on \in dictionary'
  BY <1>2, <1>3 DEF GateInv
<1>7. \A d, e \in Call :
         Deciding(d, "approve")' /\ Deciding(e, "reject")' /\ call'[d].on = call'[e].on =>
           call'[d].on \in contested'
  BY <1>3, <1>5 DEF GateInv
<1>8. \A d \in Call : Deciding(d, "reject")' /\ call'[d].on \in dictionary' =>
         call'[d].on \in contested' \cup halfway'
  BY <1>3, <1>5 DEF GateInv
<1>9. CASE ClearProposal(c)
  <2>1. /\ At(c, "approve", "entered") /\ UNCHANGED rejected
        /\ \/ waiting' = waiting \ {p}
           \/ p \in halfway' /\ waiting' = waiting
    BY <1>9 DEF ClearProposal
  <2>2. p \in dictionary
    BY <2>1 DEF GateInv, At
  <2>3. NothingVanishes' /\ DecidedOnce' /\ waiting' \cap rejected' = {}
    BY <1>3, <2>1, <2>2 DEF GateInv, NothingVanishes, DecidedOnce
  <2>4. \A d \in Call : Deciding(d, "approve")' /\ call'[d].on \in rejected' =>
           call'[d].on \in contested'
    BY <1>3, <1>5, <2>1 DEF GateInv
  <2>5. ASSUME NEW q \in dictionary' \cap waiting'
        PROVE  q \in halfway' \/ \E d \in Call : At(d, "approve", "entered")' /\ call'[d].on = q
    <3>1. q \in halfway \/ \E d \in Call : At(d, "approve", "entered") /\ call[d].on = q
      BY <1>3, <2>5 DEF GateInv
    <3>2. CASE q = p
      BY <2>1, <2>5, <3>2
    <3>3. CASE q # p
      <4>1. \A d \in Call : call[d].on = q => d # c /\ call'[d] = call[d]
        BY <1>2, <3>3
      <4> QED
        BY <1>3, <3>1, <4>1 DEF At
    <3> QED
      BY <3>2, <3>3
  <2> QED
    BY <1>2, <1>4, <1>6, <1>7, <1>8, <2>3, <2>4, <2>5 DEF GateInv
<1>10. CASE Reject(c)
  <2>1. /\ At(c, "reject", "read") /\ UNCHANGED halfway
        /\ \/ waiting' = waiting \ {p} /\ rejected' = rejected \cup {p}
           \/ UNCHANGED <<waiting, rejected>>
    BY <1>10 DEF Reject
  <2>2. Deciding(c, "reject")
    BY <1>1, <2>1 DEF Deciding, At
  <2>3. p \in dictionary => p \in contested \cup halfway
    BY <2>2 DEF GateInv
  <2>4. \A d \in Call : Deciding(d, "approve") /\ call[d].on = p => p \in contested
    BY <2>2 DEF GateInv
  <2>5. NothingVanishes' /\ DecidedOnce' /\ waiting' \cap rejected' = {}
    BY <1>3, <2>1, <2>3 DEF GateInv, NothingVanishes, DecidedOnce
  <2>6. \A d \in Call : Deciding(d, "approve")' /\ call'[d].on \in rejected' =>
           call'[d].on \in contested'
    BY <1>3, <1>5, <2>1, <2>4 DEF GateInv
  <2>7. \A d \in Call : At(d, "approve", "entered") =>
          At(d, "approve", "entered")' /\ call'[d] = call[d]
    BY <1>2, <2>1 DEF At
  <2>8. \A q \in dictionary' \cap waiting' :
          q \in halfway' \/ \E d \in Call : At(d, "approve", "entered")' /\ call'[d].on = q
    BY <1>3, <2>7 DEF GateInv
  <2> QED
    BY <1>2, <1>4, <1>6, <1>7, <1>8, <2>5, <2>6, <2>8 DEF GateInv
<1> QED
  BY <1>9, <1>10

LEMMA GateKept == GateInv /\ [GateNext]_<<callVars, gateVars>> => GateInv'
<1> SUFFICES ASSUME GateInv, [GateNext]_<<callVars, gateVars>> PROVE GateInv'
  OBVIOUS
<1>0. CallsShape /\ GateTypeOK
  BY DEF GateInv
<1>1. ASSUME NEW p \in Proposal, SubmitProposal(p) PROVE GateInv'
  <2>1. /\ UNCHANGED <<call, lapses, dictionary, rejected, contested, halfway>>
        /\ p \notin submitted
        /\ submitted' = submitted \cup {p} /\ waiting' = waiting \cup {p}
    BY <1>1 DEF SubmitProposal, callVars
  <2>2. GateTypeOK' /\ CallsShape'
    BY <1>0, <2>1 DEF GateTypeOK, CallsShape
  <2>3. p \notin rejected /\ p \notin dictionary
    BY <1>0, <2>1 DEF GateTypeOK
  <2>4. NothingVanishes' /\ DecidedOnce' /\ waiting' \cap rejected' = {}
    BY <2>1, <2>3 DEF GateInv, NothingVanishes, DecidedOnce
  <2> QED
    BY <2>1, <2>2, <2>3, <2>4 DEF GateInv, Deciding, At
<1>2. CASE GateRestart
  <2>1. CallsShape' /\ \A c \in Call : call'[c].at = "free"
    BY <1>2, CutOffEffect DEF GateRestart, Free
  <2>2. /\ UNCHANGED <<submitted, waiting, dictionary, rejected, contested>>
        /\ lapses' \in Nat
        /\ \A q : q \in halfway' <=>
             q \in halfway \/ \E c \in Call : At(c, "approve", "entered") /\ call[c].on = q
    BY <1>0, <1>2 DEF GateRestart, CallsCutOff, Lapse, GateTypeOK
  <2>3. halfway' \subseteq submitted
    BY <1>0, <2>2 DEF GateTypeOK, At
  <2>4. GateTypeOK'
    BY <1>0, <2>1, <2>2, <2>3 DEF GateTypeOK
  <2>5. \A q \in dictionary' \cap waiting' : q \in halfway'
    BY <2>2 DEF GateInv
  <2>6. NothingVanishes' /\ DecidedOnce' /\ waiting' \cap rejected' = {}
    BY <2>2 DEF GateInv, NothingVanishes, DecidedOnce
  <2> QED
    BY <2>1, <2>4, <2>5, <2>6 DEF GateInv, Deciding
<1>3. CASE UNCHANGED <<callVars, gateVars>>
  <2>1. UNCHANGED <<call, lapses, submitted, waiting, dictionary, rejected, contested, halfway>>
    BY <1>3 DEF callVars, gateVars
  <2> QED
    BY <2>1 DEF GateInv, CallsShape, GateTypeOK, NothingVanishes, DecidedOnce,
                Deciding, At
<1> QED
  BY <1>1, <1>2, <1>3, ReadKeepsGate, StoreKeepsGate, EndKeepsGate DEF GateNext

LEMMA GateAlways == GateSpec => []GateInv
<1>1. GateInit => GateInv
  BY InitShape
  DEF GateInit, CallsInit, Free, GateInv, GateTypeOK, NothingVanishes,
      DecidedOnce, Deciding, At
<1> QED
  BY <1>1, GateKept, PTL DEF GateSpec

\* What the gate stores was submitted, and who decides is an approver.
THEOREM GateTypeCorrect == GateSpec => []GateTypeOK
<1>1. GateInv => GateTypeOK
  BY DEF GateInv
<1> QED
  BY <1>1, GateAlways, PTL

\* Whatever fails or is cut off, a proposal that was acknowledged waits, is in
\* the dictionary or was rejected.
THEOREM ProposalsAreKept == GateSpec => []NothingVanishes
<1>1. GateInv => NothingVanishes
  BY DEF GateInv
<1> QED
  BY <1>1, GateAlways, PTL

\* A proposal is decided both ways only by an approval and a rejection under way
\* at once, or after an approval that stored the entry and failed to clear it.
THEOREM DecisionsAgree == GateSpec => []DecidedOnce
<1>1. GateInv => DecidedOnce
  BY DEF GateInv
<1> QED
  BY <1>1, GateAlways, PTL

-----------------------------------------------------------------------------
(***************************************************************************)
(* The task ledger.  A request that will write a task which is deleted by  *)
(* now had read it before.                                                 *)
(***************************************************************************)
TasksInv ==
    /\ CallsShape /\ TasksTypeOK /\ DeletedStaysDeleted
    /\ \A c \in Call : At(c, "put", "read") /\ call[c].on \in deleted =>
         call[c].on \in revivable

\* A request that finds a task may write or delete it: it is not deleted, or
\* can be brought back anyhow.
LEMMA FoundTask ==
    ASSUME TasksInv, NEW c \in Call, NEW t \in Task, NEW h \in Worker,
           Found(t), NEW op \in {"put", "delete"}, NEW got,
           op = "put" => got \in TaskRecord,
           Arrive(c, op, "read", t, h, got), UNCHANGED taskVars
    PROVE  TasksInv'
<1>1. CallsShape
  BY DEF TasksInv
<1>2. /\ CallsShape'
      /\ call'[c].op = op /\ call'[c].at = "read" /\ call'[c].on = t
      /\ call'[c].by = h /\ call'[c].got = got
      /\ \A d \in Call \ {c} : call'[d] = call[d]
  BY <1>1, ArriveEffect
<1>3. t \in deleted => t \in revivable
  BY DEF TasksInv, DeletedStaysDeleted, Found
<1>4. TasksTypeOK'
  BY <1>2 DEF TasksInv, TasksTypeOK, taskVars
<1>5. DeletedStaysDeleted'
  BY DEF TasksInv, DeletedStaysDeleted, taskVars
<1>6. \A d \in Call : At(d, "put", "read")' /\ call'[d].on \in deleted' =>
         call'[d].on \in revivable'
  BY <1>2, <1>3 DEF TasksInv, At, taskVars
<1> QED
  BY <1>2, <1>4, <1>5, <1>6 DEF TasksInv

LEMMA TasksKept == TasksInv /\ [TasksNext]_<<callVars, taskVars>> => TasksInv'
<1> SUFFICES ASSUME TasksInv, [TasksNext]_<<callVars, taskVars>> PROVE TasksInv'
  OBVIOUS
<1>0. CallsShape /\ TasksTypeOK
  BY DEF TasksInv
<1>1. ASSUME NEW t \in Task, NEW h \in Human, FileTask(t, h) PROVE TasksInv'
  <2>1. call' = call /\ UNCHANGED <<deleted, revivable>> /\ t \notin deleted
    BY <1>1 DEF FileTask, callVars
  <2>2. \A d \in Task \ {t} : task'[d] = task[d]
    BY <1>0, <1>1 DEF FileTask, TasksTypeOK
  <2>3. [status |-> "open", creator |-> h, claimer |-> "nobody"] \in TaskRecord
    BY DEF TaskRecord
  <2>4. task' \in [Task -> TaskRecord \cup {NoTask}]
    BY <1>0, <1>1, <2>3 DEF FileTask, TasksTypeOK
  <2>5. TasksTypeOK'
    BY <1>0, <2>1, <2>4 DEF TasksTypeOK
  <2>6. DeletedStaysDeleted'
    BY <2>1, <2>2 DEF TasksInv, TasksTypeOK, DeletedStaysDeleted
  <2> QED
    BY <2>1, <2>5, <2>6 DEF TasksInv, CallsShape, At
<1>2. ASSUME NEW c \in Call, NEW t \in Task, NEW h \in Worker, NEW w \in Worker,
             ClaimTask(c, t, h, w)
      PROVE  TasksInv'
  <2>1. task[t] \in TaskRecord
    BY <1>0, <1>2 DEF ClaimTask, Found, TasksTypeOK
  <2>2. [task[t] EXCEPT !.status = "claimed", !.claimer = w] \in TaskRecord
    BY <2>1 DEF TaskRecord
  <2> QED
    BY <1>2, <2>2, FoundTask DEF ClaimTask
<1>3. ASSUME NEW c \in Call, NEW t \in Task, NEW h \in Worker,
             NEW s \in {"open", "claimed", "done"}, SetStatus(c, t, h, s)
      PROVE  TasksInv'
  <2>1. task[t] \in TaskRecord
    BY <1>0, <1>3 DEF SetStatus, Found, TasksTypeOK
  <2>2. WithStatus(task[t], s) \in TaskRecord
    BY <2>1 DEF WithStatus, TaskRecord
  <2> QED
    BY <1>3, <2>2, FoundTask DEF SetStatus
<1>4. ASSUME NEW c \in Call, NEW t \in Task, NEW h \in Worker, DeleteTask(c, t, h)
      PROVE  TasksInv'
  BY <1>4, FoundTask DEF DeleteTask
<1>5. ASSUME NEW c \in Call, PutTask(c) PROVE TasksInv'
  <2>1. /\ CallsShape' /\ call'[c].at = "free"
        /\ \A d \in Call \ {c} : call'[d] = call[d]
    BY <1>0, <1>5, EndsEffect DEF PutTask, Free
  <2>2. /\ At(c, "put", "read") /\ UNCHANGED <<deleted, revivable>>
        /\ call[c].on \in Task /\ call[c].got \in TaskRecord
    BY <1>0, <1>5 DEF PutTask, TasksTypeOK, At
  <2>3. task' \in [Task -> TaskRecord \cup {NoTask}]
    BY <1>0, <1>5, <2>2 DEF PutTask, TasksTypeOK
  <2>4. TasksTypeOK'
    BY <1>0, <2>1, <2>2, <2>3 DEF TasksTypeOK
  <2>5. \A t \in Task \ {call[c].on} : task'[t] = task[t]
    BY <1>0, <1>5, <2>2 DEF PutTask, TasksTypeOK
  <2>6. DeletedStaysDeleted'
    BY <2>2, <2>5 DEF TasksInv, TasksTypeOK, DeletedStaysDeleted
  <2>7. \A d \in Call : At(d, "put", "read")' /\ call'[d].on \in deleted' =>
           call'[d].on \in revivable'
    BY <2>1, <2>2 DEF TasksInv, At
  <2> QED
    BY <2>1, <2>4, <2>6, <2>7 DEF TasksInv
<1>6. ASSUME NEW c \in Call, RemoveTask(c) PROVE TasksInv'
  <2> DEFINE t == call[c].on
  <2>1. /\ CallsShape' /\ call'[c].at = "free"
        /\ \A d \in Call \ {c} : call'[d] = call[d]
    BY <1>0, <1>6, EndsEffect DEF RemoveTask, Free
  <2>2. t \in Task
    BY <1>0, <1>6 DEF RemoveTask, TasksTypeOK, At
  <2>3. CASE UNCHANGED taskVars
    <3>1. TasksTypeOK'
      BY <1>0, <2>1, <2>3 DEF TasksTypeOK, taskVars
    <3> QED
      BY <2>1, <2>3, <3>1 DEF TasksInv, DeletedStaysDeleted, At, taskVars
  <2>4. CASE /\ task' = [task EXCEPT ![t] = NoTask]
             /\ deleted' = deleted \cup {t}
             /\ revivable' = IF ReadByOther(t) THEN revivable \cup {t}
                             ELSE revivable
    <3>1. TasksTypeOK'
      BY <1>0, <2>1, <2>2, <2>4 DEF TasksTypeOK
    <3>2. DeletedStaysDeleted'
      BY <1>0, <2>2, <2>4 DEF TasksInv, TasksTypeOK, DeletedStaysDeleted
    <3>3. \A d \in Call : At(d, "put", "read")' /\ call'[d].on \in deleted' =>
             call'[d].on \in revivable'
      BY <2>1, <2>4 DEF TasksInv, At, ReadByOther
    <3> QED
      BY <2>1, <3>1, <3>2, <3>3 DEF TasksInv
  <2> QED
    BY <1>6, <2>3, <2>4 DEF RemoveTask
<1>7. CASE TasksRestart
  <2>1. CallsShape' /\ \A c \in Call : call'[c].at = "free"
    BY <1>7, CutOffEffect DEF TasksRestart, Free
  <2>2. UNCHANGED taskVars
    BY <1>7 DEF TasksRestart
  <2> QED
    BY <1>0, <2>1, <2>2
    DEF TasksInv, TasksTypeOK, DeletedStaysDeleted, At, taskVars
<1>8. CASE UNCHANGED <<callVars, taskVars>>
  BY <1>8 DEF callVars, taskVars, TasksInv, CallsShape, TasksTypeOK,
              DeletedStaysDeleted, At
<1> QED
  BY <1>1, <1>2, <1>3, <1>4, <1>5, <1>6, <1>7, <1>8 DEF TasksNext

LEMMA TasksAlways == TasksSpec => []TasksInv
<1>1. TasksInit => TasksInv
  BY InitShape
  DEF TasksInit, CallsInit, Free, TasksInv, TasksTypeOK, DeletedStaysDeleted, At
<1> QED
  BY <1>1, TasksKept, PTL DEF TasksSpec

\* What a task's record says stays within what the ledger knows of tasks.
THEOREM TasksTypeCorrect == TasksSpec => []TasksTypeOK
<1>1. TasksInv => TasksTypeOK
  BY DEF TasksInv
<1> QED
  BY <1>1, TasksAlways, PTL

\* A deleted task comes back only by a request that had read it before.
THEOREM DeletedTasksStay == TasksSpec => []DeletedStaysDeleted
<1>1. TasksInv => DeletedStaysDeleted
  BY DEF TasksInv
<1> QED
  BY <1>1, TasksAlways, PTL

-----------------------------------------------------------------------------
(***************************************************************************)
(* The co-authors.  Not only the list accounts for everyone who is owed:   *)
(* so does what each request has read of it, since it may be written back  *)
(* or be what a commit names.                                              *)
(***************************************************************************)
InHands(u) == \E c \in Call : At(c, "commit", "taken") /\ u \in call[c].got

Accounted(listed) == \A u \in owed : u \in listed \/ u \in excused \/ InHands(u)

CreditInv ==
    /\ CallsShape /\ CoAuthorsTypeOK
    /\ Accounted(contrib)
    /\ \A c \in Call : call[c].at = "read" => Accounted(call[c].got)

\* A request begins with the list, or with nobody when it cannot be read.
LEMMA ReadKeepsCredit ==
    ASSUME CreditInv, NEW c \in Call, NEW u \in Author, NEW op \in {"save", "commit"},
           ReadContributors(c, op, u)
    PROVE  CreditInv'
<1>1. CallsShape /\ CoAuthorsTypeOK
  BY DEF CreditInv
<1>2. PICK got \in SUBSET Author : 
        /\ Arrive(c, op, "read", "list", u, got)
        /\ Accounted(got)'
        /\ UNCHANGED <<contrib, owed>>
        /\ excused \subseteq excused' /\ excused' \subseteq Author
  <2>1. ASSUME NEW got, Arrive(c, op, "read", "list", u, got)
        PROVE  \A v \in Author : InHands(v) => InHands(v)'
    <3>1. call[c].at = "free" /\ \A d \in Call \ {c} : call'[d] = call[d]
      BY <1>1, <2>1, ArriveEffect
    <3> QED
      BY <3>1 DEF InHands, At
  <2>2. CASE Arrive(c, op, "read", "list", u, contrib) /\ UNCHANGED coAuthorVars
    BY <1>1, <2>1, <2>2 DEF CreditInv, CoAuthorsTypeOK, Accounted, coAuthorVars
  <2>3. CASE /\ Arrive(c, op, "read", "list", u, {})
             /\ excused' = excused \cup contrib
             /\ UNCHANGED <<contrib, owed>>
    BY <1>1, <2>1, <2>3 DEF CreditInv, CoAuthorsTypeOK, Accounted
  <2> QED
    BY <2>2, <2>3 DEF ReadContributors
<1>3. /\ CallsShape' /\ call[c].at = "free"
      /\ call'[c].op = op /\ call'[c].at = "read" /\ call'[c].by = u
      /\ call'[c].got = got
      /\ \A d \in Call \ {c} : call'[d] = call[d]
  BY <1>1, <1>2, ArriveEffect
<1>4. \A v \in Author : InHands(v) => InHands(v)'
  BY <1>3 DEF InHands, At
<1>5. CoAuthorsTypeOK'
  BY <1>1, <1>2, <1>3 DEF CoAuthorsTypeOK
<1>6. Accounted(contrib)'
  BY <1>1, <1>2, <1>4 DEF CreditInv, CoAuthorsTypeOK, Accounted
<1>7. ASSUME NEW d \in Call, call'[d].at = "read" PROVE Accounted(call[d].got)'
  BY <1>1, <1>2, <1>3, <1>4, <1>7 DEF CreditInv, CoAuthorsTypeOK, Accounted
<1> QED
  BY <1>3, <1>5, <1>6, <1>7 DEF CreditInv

\* A save writes back what it has read, with its member: who else is at work
\* by what it read before has the member excused.
LEMMA AddKeepsCredit ==
    ASSUME CreditInv, NEW c \in Call, AddContributor(c)
    PROVE  CreditInv'
<1> DEFINE u == call[c].by
<1>1. CallsShape /\ CoAuthorsTypeOK /\ At(c, "save", "read")
  BY DEF CreditInv, AddContributor
<1>2. /\ CallsShape' /\ call'[c].at = "free"
      /\ \A d \in Call \ {c} : call'[d] = call[d]
  BY <1>1, EndsEffect DEF AddContributor, Free
<1>3. /\ u \in Author /\ call[c].got \subseteq Author
      /\ owed' = owed \cup {u}
      /\ excused \ {u} \subseteq excused' /\ excused' \subseteq excused \cup {u}
      /\ Overlapped(c) => u \in excused'
      /\ \/ contrib' = call[c].got \cup {u}
         \/ contrib' = contrib /\ u \in excused'
  BY <1>1 DEF AddContributor, Listing, CoAuthorsTypeOK, At
<1>4. \A v \in Author : InHands(v) => InHands(v)'
  BY <1>1, <1>2 DEF InHands, At
<1>5. CoAuthorsTypeOK'
  BY <1>1, <1>2, <1>3 DEF CoAuthorsTypeOK
<1>6. Accounted(contrib)'
  <2>1. Accounted(contrib) /\ Accounted(call[c].got)
    BY <1>1 DEF CreditInv, At
  <2> QED
    BY <1>1, <1>3, <1>4, <2>1 DEF CoAuthorsTypeOK, Accounted
<1>7. ASSUME NEW d \in Call, call'[d].at = "read" PROVE Accounted(call[d].got)'
  <2>1. d # c /\ call'[d] = call[d]
    BY <1>2, <1>7
  <2>2. u \in excused'
    BY <1>3, <1>7, <2>1 DEF Overlapped
  <2>3. Accounted(call[d].got)
    BY <1>7, <2>1 DEF CreditInv
  <2> QED
    BY <1>1, <1>3, <1>4, <2>1, <2>2, <2>3 DEF CoAuthorsTypeOK, Accounted
<1> QED
  BY <1>2, <1>5, <1>6, <1>7 DEF CreditInv

\* A commit holds what it has taken until the host has answered.
LEMMA CommitKeepsCredit ==
    ASSUME CreditInv, NEW c \in Call,
           TakeContributors(c) \/ Committed(c) \/ CommitFails(c)
    PROVE  CreditInv'
<1>1. CallsShape /\ CoAuthorsTypeOK
  BY DEF CreditInv
<1>2. CASE TakeContributors(c)
  <2>1. /\ CallsShape'
        /\ call'[c].op = call[c].op /\ call'[c].by = call[c].by
        /\ call'[c].at = "taken" /\ call'[c].got = call[c].got
        /\ \A d \in Call \ {c} : call'[d] = call[d]
    BY <1>1, <1>2, GoesEffect DEF TakeContributors
  <2>2. /\ UNCHANGED <<owed, excused>> /\ contrib' \in {{}, contrib}
        /\ At(c, "commit", "read")
    BY <1>2 DEF TakeContributors
  <2>3. \A v : InHands(v) \/ v \in call[c].got => InHands(v)'
    BY <2>1, <2>2 DEF InHands, At
  <2>4. CoAuthorsTypeOK'
    BY <1>1, <2>1, <2>2 DEF CoAuthorsTypeOK, At
  <2>5. Accounted(call[c].got)
    BY <2>2 DEF CreditInv, At
  <2>6. Accounted(contrib)'
    BY <2>2, <2>3, <2>5 DEF Accounted
  <2>7. ASSUME NEW d \in Call, call'[d].at = "read" PROVE Accounted(call[d].got)'
    <3>1. d # c /\ call'[d] = call[d] /\ Accounted(call[d].got)
      BY <2>1, <2>7 DEF CreditInv
    <3> QED
      BY <2>2, <2>3, <3>1 DEF Accounted
  <2> QED
    BY <2>1, <2>4, <2>6, <2>7 DEF CreditInv
<1>3. CASE Committed(c) \/ CommitFails(c)
  <2>1. /\ CallsShape' /\ call'[c].at = "free"
        /\ \A d \in Call \ {c} : call'[d] = call[d]
    BY <1>1, <1>3, EndsEffect DEF Committed, CommitFails, Free
  <2>2. /\ contrib' = contrib /\ owed' \subseteq owed
        /\ excused' \subseteq excused \cup call[c].got
        /\ \A v \in owed' : v \in excused \cup call[c].got => v \in excused'
    BY <1>3 DEF Committed, CommitFails
  <2>3. \A v : InHands(v) => InHands(v)' \/ v \in call[c].got
    BY <2>1 DEF InHands, At
  <2>4. call[c].got \subseteq Author
    BY <1>1, <1>3 DEF CoAuthorsTypeOK, Committed, CommitFails, At
  <2>5. CoAuthorsTypeOK'
    BY <1>1, <2>1, <2>2, <2>4 DEF CoAuthorsTypeOK
  <2>6. Accounted(contrib)'
    BY <2>2, <2>3 DEF CreditInv, Accounted
  <2>7. ASSUME NEW d \in Call, call'[d].at = "read" PROVE Accounted(call[d].got)'
    <3>1. d # c /\ call'[d] = call[d] /\ Accounted(call[d].got)
      BY <2>1, <2>7 DEF CreditInv
    <3> QED
      BY <2>2, <2>3, <3>1 DEF Accounted
  <2> QED
    BY <2>1, <2>5, <2>6, <2>7 DEF CreditInv
<1> QED
  BY <1>2, <1>3

LEMMA CreditStep ==
    CreditInv /\ [CoAuthorsNext]_<<callVars, coAuthorVars>> => CreditInv'
<1> SUFFICES ASSUME CreditInv, [CoAuthorsNext]_<<callVars, coAuthorVars>>
             PROVE  CreditInv'
  OBVIOUS
<1>1. CASE CoAuthorsRestart
  <2>1. CallsShape' /\ \A c \in Call : call'[c].at = "free"
    BY <1>1, CutOffEffect DEF CoAuthorsRestart, Free
  <2>2. UNCHANGED <<contrib, owed>>
    BY <1>1 DEF CoAuthorsRestart
  <2>3. \A v : v \in excused' <=> v \in excused \/ InHands(v)
    BY <1>1 DEF CoAuthorsRestart, InHands
  <2>4. excused' \subseteq Author
    BY <2>3 DEF CreditInv, CoAuthorsTypeOK, InHands, At
  <2>5. CoAuthorsTypeOK'
    BY <2>1, <2>2, <2>4 DEF CreditInv, CoAuthorsTypeOK
  <2>6. Accounted(contrib)'
    BY <2>2, <2>3 DEF CreditInv, Accounted
  <2> QED
    BY <2>1, <2>5, <2>6 DEF CreditInv
<1>2. CASE UNCHANGED <<callVars, coAuthorVars>>
  <2>1. UNCHANGED <<call, contrib, owed, excused>>
    BY <1>2 DEF callVars, coAuthorVars
  <2> QED
    BY <2>1 DEF CreditInv, CallsShape, CoAuthorsTypeOK, Accounted, InHands, At
<1> QED
  BY <1>1, <1>2, ReadKeepsCredit, AddKeepsCredit, CommitKeepsCredit
  DEF CoAuthorsNext

LEMMA CreditAlways == CoAuthorsSpec => []CreditInv
<1>1. CoAuthorsInit => CreditInv
  BY InitShape
  DEF CoAuthorsInit, CallsInit, Free, CreditInv, CoAuthorsTypeOK, Accounted
<1> QED
  BY <1>1, CreditStep, PTL DEF CoAuthorsSpec

\* The list and what the requests have read of it name members only.
THEOREM CoAuthorsTypeCorrect == CoAuthorsSpec => []CoAuthorsTypeOK
<1>1. CreditInv => CoAuthorsTypeOK
  BY DEF CreditInv
<1> QED
  BY <1>1, CreditAlways, PTL

\* A member whose save was answered is named by a commit, or listed until then,
\* unless requests overlapped or failed.
THEOREM CreditIsKept == CoAuthorsSpec => []CreditKept
<1>1. CreditInv => CreditKept
  BY DEF CreditInv, Accounted, InHands, CreditKept
<1> QED
  BY <1>1, CreditAlways, PTL

-----------------------------------------------------------------------------
(***************************************************************************)
(* The claims.  Of two members whose areas overlap one has the other in    *)
(* sight: has been warned of it, or is scanning and has met it, has its    *)
(* key in the page at hand, or has it ahead of the pages seen.  The one    *)
(* who stored last begins with every key ahead; added keys move none to an *)
(* earlier place; and an empty page ends the scan only when no key lies    *)
(* ahead.                                                                  *)
(***************************************************************************)
LEMMA OverlapIsMutual ==
    ASSUME NEW a \in Area, NEW b \in Area, AreasOverlap(a, b)
    PROVE  AreasOverlap(b, a)
<1>1. Len(a) \in Nat /\ Len(b) \in Nat
  BY ClaimKeysOK
<1> QED
  BY <1>1 DEF AreasOverlap

\* The keys there are.
LEMMA KeysAreNumbers ==
    ASSUME ClaimsTypeOK
    PROVE  Keys \subseteq Nat
  BY ClaimKeysOK DEF Keys, ClaimsTypeOK

-----------------------------------------------------------------------------
Active(c) == call[c].at # "free"

ScanOf(c, u) == Active(c) /\ call[c].by = u

\* A member has one request under way at most, and it is about its own area.
OneScanEach ==
    /\ \A c, d \in Call : Active(c) /\ ScanOf(d, call[c].by) => c = d
    /\ \A c \in Call : Active(c) => call[c].on = area[call[c].by]

InSight(c, v) ==
    \/ v \in call[c].got.met
    \/ ClaimKey[v] \in call[c].got.keys
    \/ Place(ClaimKey[v], Keys) >= call[c].got.page * PageSize

Sees(u, v) ==
    /\ ~Claiming(u) => v \in warned[u]
    /\ \A c \in Call : ScanOf(c, u) => InSight(c, v)

Overlapping(u, v) ==
    u # v /\ AreasOverlap(area[u], area[v]) /\ u \notin unsure /\ v \notin unsure

Noticed == \A u, v \in Claimer : Overlapping(u, v) => Sees(u, v) \/ Sees(v, u)

ClaimsInv == CallsShape /\ ClaimsTypeOK /\ OneScanEach /\ Noticed

-----------------------------------------------------------------------------
(***************************************************************************)
(* Frames.  A member that took no step sees what it saw when only keys     *)
(* were added, and when it is not scanning whatever the keys.              *)
(***************************************************************************)
LEMMA SeesOn ==
    ASSUME ClaimsTypeOK, NEW u \in Claimer, NEW v \in Claimer, Sees(u, v),
           Keys \subseteq Keys', Keys' \subseteq Nat, warned'[u] = warned[u],
           \A c \in Call : ScanOf(c, u) \/ ScanOf(c, u)' => call'[c] = call[c]
    PROVE  Sees(u, v)'
<1>1. Claiming(u)' <=> Claiming(u)
  BY DEF Claiming, ScanOf, Active
<1>2. ASSUME NEW c \in Call, ScanOf(c, u)' PROVE InSight(c, v)'
  <2>1. call'[c] = call[c] /\ ScanOf(c, u)
    BY <1>2 DEF ScanOf, Active
  <2>2. call[c].got.page \in Nat
    BY <2>1 DEF ScanOf, Active, ClaimsTypeOK
  <2>3. call[c].got.page * PageSize \in Nat
    BY <2>2, PageSizeOK
  <2>4. ClaimKey[v] \in Nat
    BY ClaimKeysOK
  <2>5. /\ Place(ClaimKey[v], Keys) <= Place(ClaimKey[v], Keys')
        /\ Place(ClaimKey[v], Keys) \in Nat /\ Place(ClaimKey[v], Keys') \in Nat
    BY <2>4, PlaceGrows, PlaceType
  <2>6. InSight(c, v)
    BY <2>1 DEF Sees
  <2>7. CASE Place(ClaimKey[v], Keys) >= call[c].got.page * PageSize
    BY <2>1, <2>3, <2>5, <2>7 DEF InSight
  <2> QED
    BY <2>1, <2>6, <2>7 DEF InSight
<1> QED
  BY <1>1, <1>2 DEF Sees

LEMMA SeesQuietly ==
    ASSUME NEW u \in Claimer, NEW v \in Claimer, Sees(u, v), ~Claiming(u),
           \A c \in Call : ~ScanOf(c, u)', warned'[u] = warned[u]
    PROVE  Sees(u, v)'
  BY DEF Sees, Claiming, ScanOf, Active

-----------------------------------------------------------------------------
(***************************************************************************)
(* The steps.                                                              *)
(***************************************************************************)
LEMMA StoreClaimStep ==
    ASSUME ClaimsInv, NEW c \in Call, NEW u \in Claimer, NEW a \in Area,
           StoreClaim(c, u, a)
    PROVE  ClaimsInv'
<1>0. CallsShape /\ ClaimsTypeOK /\ OneScanEach /\ Noticed
  BY DEF ClaimsInv
<1>1. /\ CallsShape'
      /\ call[c].at = "free" /\ call'[c].at = "list"
      /\ call'[c].on = a /\ call'[c].by = u
      /\ call'[c].got = [page |-> 0, keys |-> {}, met |-> {}]
      /\ \A d \in Call \ {c} : call'[d] = call[d]
  BY <1>0, ArriveEffect DEF StoreClaim
<1>2. /\ ~Claiming(u)
      /\ area' = [area EXCEPT ![u] = a]
      /\ warned' = [warned EXCEPT ![u] = {}]
      /\ unsure' = unsure \ {u} /\ foreign' = foreign
  BY DEF StoreClaim
<1>3. \A d \in Call : ~ScanOf(d, u)
  BY <1>2 DEF Claiming, ScanOf, Active
<1>4. ClaimsTypeOK'
  <2>1. call'[c].got \in [page : Nat, keys : SUBSET Nat, met : SUBSET Claimer]
    BY <1>1
  <2>2. area' \in [Claimer -> Area \cup {<<>>}]
    BY <1>0, <1>2 DEF ClaimsTypeOK
  <2>3. warned' \in [Claimer -> SUBSET Claimer]
    BY <1>0, <1>2 DEF ClaimsTypeOK
  <2>4. foreign' \subseteq OtherKey /\ unsure' \subseteq Claimer
    BY <1>0, <1>2 DEF ClaimsTypeOK
  <2>5. \A d \in Call : call'[d].at # "free" =>
         /\ call'[d].at = "list" /\ call'[d].by \in Claimer
         /\ call'[d].on \in Area
         /\ call'[d].got \in [page : Nat, keys : SUBSET Nat, met : SUBSET Claimer]
    BY <1>0, <1>1, <2>1 DEF ClaimsTypeOK
  <2> QED
    BY <2>2, <2>3, <2>4, <2>5 DEF ClaimsTypeOK
<1>5. area'[u] = a /\ \A w \in Claimer \ {u} : area'[w] = area[w]
  BY <1>0, <1>2 DEF ClaimsTypeOK
<1>6. OneScanEach'
  <2>1. ASSUME NEW d \in Call \ {c}, Active(d)'
        PROVE  Active(d) /\ call'[d] = call[d] /\ call[d].by \in Claimer \ {u}
    BY <1>0, <1>1, <1>3, <2>1 DEF Active, ScanOf, ClaimsTypeOK
  <2>2. \A d \in Call : Active(d)' => call'[d].on = area'[call'[d].by]
    BY <1>0, <1>1, <1>5, <2>1 DEF OneScanEach
  <2>3. ASSUME NEW d \in Call, NEW e \in Call, Active(d)', ScanOf(e, call[d].by)'
        PROVE  d = e
    BY <1>0, <1>1, <2>1, <2>3 DEF OneScanEach, ScanOf
  <2> QED
    BY <2>2, <2>3 DEF OneScanEach
<1>7. Keys \subseteq Keys' /\ Keys' \subseteq Nat
  <2>1. Keys' \subseteq Nat
    BY <1>4, ClaimKeysOK DEF Keys, ClaimsTypeOK
  <2>2. a # <<>>
    BY ClaimKeysOK
  <2> QED
    BY <1>2, <1>5, <2>1, <2>2 DEF Keys
<1>8. ASSUME NEW v \in Claimer PROVE Sees(u, v)'
  <2>1. ASSUME NEW d \in Call, ScanOf(d, u)' PROVE InSight(d, v)'
    <3>1. d = c
      BY <1>1, <1>3, <2>1 DEF ScanOf, Active
    <3>2. Place(ClaimKey[v], Keys') \in Nat
      BY <1>7, PlaceType, ClaimKeysOK
    <3>3. 0 * PageSize = 0
      BY PageSizeOK
    <3> QED
      BY <1>1, <3>1, <3>2, <3>3 DEF InSight
  <2>2. Claiming(u)'
    BY <1>1 DEF Claiming
  <2> QED
    BY <2>1, <2>2 DEF Sees
<1>9. ASSUME NEW x \in Claimer \ {u}, NEW y \in Claimer, Sees(x, y) PROVE Sees(x, y)'
  <2>1. warned'[x] = warned[x]
    BY <1>0, <1>2 DEF ClaimsTypeOK
  <2>2. \A d \in Call : ScanOf(d, x) \/ ScanOf(d, x)' => call'[d] = call[d]
    BY <1>1 DEF ScanOf, Active
  <2> QED
    BY <1>0, <1>7, <1>9, <2>1, <2>2, SeesOn
<1>10. Noticed'
  <2> SUFFICES ASSUME NEW x \in Claimer, NEW y \in Claimer, Overlapping(x, y)'
               PROVE  Sees(x, y)' \/ Sees(y, x)'
    BY DEF Noticed
  <2>1. CASE x = u \/ y = u
    BY <1>8, <2>1
  <2>2. CASE x # u /\ y # u
    <3>1. Overlapping(x, y)
      BY <1>2, <1>5, <2>2 DEF Overlapping
    <3> QED
      BY <1>0, <1>9, <2>2, <3>1 DEF Noticed
  <2> QED
    BY <2>1, <2>2
<1> QED
  BY <1>1, <1>4, <1>6, <1>10 DEF ClaimsInv

\* A step of u's scan, in which u keeps in sight whom it overlaps or knows that
\* it may not.
LEMMA ScanStep ==
    ASSUME ClaimsInv, NEW c \in Call, NEW u \in Claimer, ScanOf(c, u), CallsShape',
           \/ call'[c] = Free
           \/ /\ call'[c].at = "list" /\ call'[c].by = u
              /\ call'[c].on = call[c].on
              /\ call'[c].got \in [page : Nat, keys : SUBSET Nat, met : SUBSET Claimer],
           \A d \in Call \ {c} : call'[d] = call[d],
           UNCHANGED <<area, foreign>>,
           unsure \subseteq unsure', unsure' \subseteq Claimer,
           warned' \in [Claimer -> SUBSET Claimer],
           \A w \in Claimer \ {u} : warned'[w] = warned[w],
           \/ u \in unsure'
           \/ \A v \in Claimer : Overlapping(u, v) /\ Sees(u, v) => Sees(u, v)'
    PROVE  ClaimsInv'
<1>0. CallsShape /\ ClaimsTypeOK /\ OneScanEach /\ Noticed
  BY DEF ClaimsInv
<1>1. Keys \subseteq Keys' /\ Keys' \subseteq Nat
  BY <1>0, KeysAreNumbers DEF Keys
<1>2. ClaimsTypeOK'
  <2>1. foreign' \subseteq OtherKey /\ area' \in [Claimer -> Area \cup {<<>>}]
    BY <1>0 DEF ClaimsTypeOK
  <2>2. call[c].on \in Area
    BY <1>0 DEF ClaimsTypeOK, ScanOf, Active
  <2>3. \A d \in Call : call'[d].at # "free" =>
         /\ call'[d].at = "list" /\ call'[d].by \in Claimer
         /\ call'[d].on \in Area
         /\ call'[d].got \in [page : Nat, keys : SUBSET Nat, met : SUBSET Claimer]
    BY <1>0, <2>2 DEF ClaimsTypeOK, Free
  <2> QED
    BY <2>1, <2>3 DEF ClaimsTypeOK
<1>3. OneScanEach'
  BY <1>0 DEF OneScanEach, ScanOf, Active, Free
<1>4. ASSUME NEW x \in Claimer \ {u}, NEW y \in Claimer, Sees(x, y) PROVE Sees(x, y)'
  <2>1. \A d \in Call : ScanOf(d, x) \/ ScanOf(d, x)' => call'[d] = call[d]
    BY DEF ScanOf, Active, Free
  <2> QED
    BY <1>0, <1>1, <1>4, <2>1, SeesOn
<1>5. ASSUME NEW x \in Claimer, NEW y \in Claimer, Overlapping(x, y)'
      PROVE  Overlapping(x, y) /\ x \notin unsure' /\ y \notin unsure'
  BY <1>5 DEF Overlapping
<1>6. Noticed'
  <2> SUFFICES ASSUME NEW x \in Claimer, NEW y \in Claimer, Overlapping(x, y)'
               PROVE  Sees(x, y)' \/ Sees(y, x)'
    BY DEF Noticed
  <2>1. Sees(x, y) \/ Sees(y, x)
    BY <1>0, <1>5 DEF Noticed
  <2>2. CASE Sees(x, y)
    BY <1>4, <1>5, <2>2
  <2>3. CASE Sees(y, x) /\ y # u
    BY <1>4, <2>3
  <2>4. CASE Sees(y, x) /\ y = u
    <3>1. Overlapping(y, x)
      <4>1. area[x] \in Area /\ area[y] \in Area
        BY <1>0, <1>5 DEF Overlapping, AreasOverlap, ClaimsTypeOK
      <4> QED
        BY <1>5, <4>1, OverlapIsMutual DEF Overlapping
    <3> QED
      BY <1>5, <2>4, <3>1
  <2> QED
    BY <2>1, <2>2, <2>3, <2>4
<1> QED
  BY <1>2, <1>3, <1>6 DEF ClaimsInv

Scan == [page : Nat, keys : SUBSET Nat, met : SUBSET Claimer]

LEMMA ListPageStep ==
    ASSUME ClaimsInv, NEW c \in Call, NEW u \in Claimer, u = call[c].by, ListPage(c)
    PROVE  ClaimsInv'
<1>0. /\ CallsShape /\ ClaimsTypeOK /\ OneScanEach /\ ScanOf(c, u)
      /\ call[c].got \in [page : Nat, keys : SUBSET Nat, met : SUBSET Claimer]
      /\ call[c].got.keys = {}
      /\ UNCHANGED <<area, foreign, unsure>>
  BY DEF ClaimsInv, ListPage, ClaimsTypeOK, ScanOf, Active
<1> DEFINE ks == Page(call[c].got.page, Keys)
<1>1. Keys \subseteq Nat /\ Keys' = Keys /\ unsure \subseteq Claimer
  BY <1>0, KeysAreNumbers DEF Keys, ClaimsTypeOK
<1>2. \A d \in Call : ScanOf(d, u) => d = c
  BY <1>0 DEF OneScanEach, ScanOf
<1>3. CASE ks = {}
  <2>1. Ends(c) /\ warned' = [warned EXCEPT ![u] = call[c].got.met]
    BY <1>3 DEF ListPage
  <2>2. /\ CallsShape' /\ call'[c] = Free
        /\ \A d \in Call \ {c} : call'[d] = call[d]
    BY <1>0, <2>1, EndsEffect
  <2>3. /\ warned' \in [Claimer -> SUBSET Claimer]
        /\ warned'[u] = call[c].got.met
        /\ \A w \in Claimer \ {u} : warned'[w] = warned[w]
    BY <1>0, <2>1 DEF ClaimsTypeOK
  <2>4. ASSUME NEW v \in Claimer, Overlapping(u, v), Sees(u, v) PROVE Sees(u, v)'
    <3>1. \A d \in Call : ~ScanOf(d, u)'
      BY <1>2, <2>2 DEF ScanOf, Active, Free
    <3>2. ClaimKey[v] \in Keys
      BY <2>4, <1>0 DEF Keys, Overlapping, AreasOverlap
    <3>3. Place(ClaimKey[v], Keys) < call[c].got.page * PageSize
      BY <1>0, <1>1, <1>3, <3>2, EmptyPageIsLast
    <3>4. Place(ClaimKey[v], Keys) \in Nat /\ call[c].got.page * PageSize \in Nat
      <4>1. call[c].got.page * PageSize \in Nat
        BY <1>0, PageSizeOK
      <4>2. Place(ClaimKey[v], Keys) \in Nat
        BY <1>1, <3>2, PlaceType
      <4> QED
        BY <4>1, <4>2
    <3>5. InSight(c, v)
      BY <1>0, <2>4 DEF Sees
    <3>6. ~(Place(ClaimKey[v], Keys) >= call[c].got.page * PageSize)
      <4> DEFINE place == Place(ClaimKey[v], Keys)
                 past == call[c].got.page * PageSize
      <4>1. place \in Nat /\ past \in Nat /\ place < past
        BY <3>3, <3>4
      <4> HIDE DEF place, past
      <4>2. ~(place >= past)
        BY <4>1
      <4> QED
        BY <4>2 DEF place, past
    <3>7. v \in call[c].got.met
      BY <1>0, <3>5, <3>6 DEF InSight
    <3> QED
      BY <2>3, <3>1, <3>7 DEF Sees
  <2> QED
    BY <1>0, <1>1, <2>2, <2>3, <2>4, ScanStep
<1>4. CASE ks # {}
  <2>1. /\ Goes(c, "list", [page |-> call[c].got.page + 1, keys |-> ks, met |-> call[c].got.met])
        /\ UNCHANGED warned
    BY <1>4 DEF ListPage
  <2>2. /\ CallsShape' /\ call'[c].at = "list" /\ call'[c].by = u
        /\ call'[c].on = call[c].on
        /\ call'[c].got = [page |-> call[c].got.page + 1, keys |-> ks, met |-> call[c].got.met]
        /\ \A d \in Call \ {c} : call'[d] = call[d]
    BY <1>0, <2>1, GoesEffect
  <2>3. ks \in SUBSET Nat
    BY <1>1 DEF Page
  <2>4. /\ call'[c].got \in Scan
        /\ call'[c].got.page = call[c].got.page + 1 /\ call'[c].got.keys = ks
        /\ call'[c].got.met = call[c].got.met
    <3> HIDE DEF ks
    <3> QED
      BY <1>0, <2>2, <2>3 DEF Scan
  <2>5. ASSUME NEW v \in Claimer, Overlapping(u, v), Sees(u, v) PROVE Sees(u, v)'
    <3>1. ClaimKey[v] \in Keys
      BY <2>5, <1>0 DEF Keys, Overlapping, AreasOverlap
    <3>2. InSight(c, v)
      BY <1>0, <2>5 DEF Sees
    <3>3. ASSUME Place(ClaimKey[v], Keys) >= call[c].got.page * PageSize
          PROVE  \/ ClaimKey[v] \in ks
                 \/ Place(ClaimKey[v], Keys) >= (call[c].got.page + 1) * PageSize
      BY <1>0, <1>1, <3>1, <3>3, OnPageOrPast
    <3>4. InSight(c, v)'
      <4> HIDE DEF ks
      <4> QED
        BY <1>0, <1>1, <2>4, <3>2, <3>3 DEF InSight
    <3>5. Claiming(u)' /\ \A d \in Call : ScanOf(d, u)' => d = c
      BY <1>2, <2>2 DEF ScanOf, Active, Claiming
    <3> QED
      BY <3>4, <3>5 DEF Sees
  <2> QED
    BY <1>0, <1>1, <2>1, <2>2, <2>4, <2>5, ScanStep DEF ClaimsTypeOK, Scan
<1> QED
  BY <1>3, <1>4

LEMMA ReadClaimStep ==
    ASSUME ClaimsInv, NEW c \in Call, NEW u \in Claimer, u = call[c].by, ReadClaim(c)
    PROVE  ClaimsInv'
<1>0. /\ CallsShape /\ ClaimsTypeOK /\ OneScanEach /\ ScanOf(c, u)
      /\ call[c].got \in [page : Nat, keys : SUBSET Nat, met : SUBSET Claimer]
      /\ UNCHANGED claimsVars
  BY DEF ClaimsInv, ReadClaim, ClaimsTypeOK, ScanOf, Active
<1> DEFINE k == NextKey(call[c].got.keys)
           met == {w \in Claimer : /\ ClaimKey[w] = k /\ w # call[c].by
                                   /\ AreasOverlap(area[w], call[c].on)}
<1>1. Goes(c, "list", [page |-> call[c].got.page, keys |-> call[c].got.keys \ {k},
           met |-> call[c].got.met \cup met])
  BY DEF ReadClaim
<1>2. /\ CallsShape' /\ call'[c].at = "list" /\ call'[c].by = u
      /\ call'[c].on = call[c].on
      /\ call'[c].got = [page |-> call[c].got.page, keys |-> call[c].got.keys \ {k},
           met |-> call[c].got.met \cup met]
      /\ \A d \in Call \ {c} : call'[d] = call[d]
  BY <1>0, <1>1, GoesEffect
<1>3. met \subseteq Claimer
  OBVIOUS
<1>4. /\ call'[c].got \in Scan
      /\ call'[c].got.page = call[c].got.page
      /\ call'[c].got.keys = call[c].got.keys \ {k}
      /\ call'[c].got.met = call[c].got.met \cup met
  <2> HIDE DEF k, met
  <2> QED
    BY <1>0, <1>2, <1>3 DEF Scan
<1>5. Keys' = Keys
  BY <1>0 DEF Keys, claimsVars
<1>6. ASSUME NEW v \in Claimer, Overlapping(u, v), Sees(u, v) PROVE Sees(u, v)'
  <2>1. InSight(c, v)
    BY <1>0, <1>6 DEF Sees
  <2>2. ASSUME ClaimKey[v] = k PROVE v \in met
    <3>1. call[c].on = area[u] /\ area[u] \in Area /\ area[v] \in Area
      BY <1>0, <1>6 DEF OneScanEach, ScanOf, Overlapping, AreasOverlap, ClaimsTypeOK
    <3>2. AreasOverlap(area[v], call[c].on)
      BY <1>6, <3>1, OverlapIsMutual DEF Overlapping
    <3> QED
      BY <1>0, <1>6, <2>2, <3>2 DEF Overlapping, ScanOf
  <2>3. InSight(c, v)'
    <3> HIDE DEF k, met
    <3> QED
      BY <1>4, <1>5, <2>1, <2>2 DEF InSight
  <2>4. Claiming(u)' /\ \A d \in Call : ScanOf(d, u)' => d = c
    BY <1>0, <1>2 DEF ScanOf, Active, Claiming, OneScanEach
  <2> QED
    BY <2>3, <2>4 DEF Sees
<1> QED
  BY <1>0, <1>2, <1>4, <1>6, ScanStep DEF ClaimsTypeOK, claimsVars, Scan

LEMMA ScanFailsStep ==
    ASSUME ClaimsInv, NEW c \in Call, NEW u \in Claimer, u = call[c].by, ScanFails(c)
    PROVE  ClaimsInv'
<1>0. /\ CallsShape /\ ClaimsTypeOK /\ ScanOf(c, u)
      /\ call[c].got \in [page : Nat, keys : SUBSET Nat, met : SUBSET Claimer]
      /\ UNCHANGED <<area, foreign>> /\ unsure' = unsure \cup {u}
  BY DEF ClaimsInv, ScanFails, ClaimsTypeOK, ScanOf, Active
<1>1. CASE Ends(c) /\ warned' = [warned EXCEPT ![u] = call[c].got.met]
  <2>1. /\ CallsShape' /\ call'[c] = Free
        /\ \A d \in Call \ {c} : call'[d] = call[d]
    BY <1>0, <1>1, EndsEffect
  <2>2. /\ warned' \in [Claimer -> SUBSET Claimer]
        /\ \A w \in Claimer \ {u} : warned'[w] = warned[w]
    BY <1>0, <1>1 DEF ClaimsTypeOK
  <2> QED
    BY <1>0, <2>1, <2>2, ScanStep DEF ClaimsTypeOK
<1> DEFINE got == [page |-> call[c].got.page, met |-> call[c].got.met,
                   keys |-> call[c].got.keys \ {NextKey(call[c].got.keys)}]
<1>2. CASE Goes(c, "list", got) /\ UNCHANGED warned
  <2>1. got \in [page : Nat, keys : SUBSET Nat, met : SUBSET Claimer]
    BY <1>0
  <2> HIDE DEF got
  <2>2. /\ CallsShape' /\ call'[c].at = "list" /\ call'[c].by = u
        /\ call'[c].on = call[c].on /\ call'[c].got = got
        /\ \A d \in Call \ {c} : call'[d] = call[d]
    BY <1>0, <1>2, GoesEffect
  <2> QED
    BY <1>0, <1>2, <2>1, <2>2, ScanStep DEF ClaimsTypeOK
<1> QED
  BY <1>1, <1>2 DEF ScanFails

\* A step that disturbs the scans leaves no doubt about anyone who is not
\* scanning: it sees whom it has been warned of.
LEMMA DisturbingStep ==
    ASSUME ClaimsInv, Disturbs, CallsShape', ClaimsTypeOK',
           \A c \in Call : call'[c] = call[c] \/ call'[c] = Free,
           \A u \in Claimer : area'[u] # <<>> =>
             area'[u] = area[u] /\ warned'[u] = warned[u],
           \A c \in Call : Active(c) => area'[call[c].by] = area[call[c].by]
    PROVE  ClaimsInv'
<1>0. ClaimsTypeOK /\ OneScanEach /\ Noticed
  BY DEF ClaimsInv
<1>1. OneScanEach'
  BY <1>0 DEF OneScanEach, ScanOf, Active, Free
<1>2. ASSUME NEW u \in Claimer, NEW v \in Claimer, u \notin unsure',
             area'[u] # <<>>, Sees(u, v)
      PROVE  Sees(u, v)'
  <2>1. ~Claiming(u)
    BY <1>2 DEF Disturbs
  <2>2. \A c \in Call : ~ScanOf(c, u)'
    BY <2>1 DEF Claiming, ScanOf, Active, Free
  <2> QED
    BY <1>2, <2>1, <2>2, SeesQuietly
<1>3. Noticed'
  BY <1>0, <1>2 DEF Noticed, Overlapping, AreasOverlap, Disturbs
<1> QED
  BY <1>1, <1>3 DEF ClaimsInv

LEMMA ClaimsKept == ClaimsInv /\ [ClaimsNext]_<<callVars, claimsVars>> => ClaimsInv'
<1> SUFFICES ASSUME ClaimsInv, [ClaimsNext]_<<callVars, claimsVars>> PROVE ClaimsInv'
  OBVIOUS
<1>0. CallsShape /\ ClaimsTypeOK /\ OneScanEach /\ Noticed
  BY DEF ClaimsInv
<1>1. ASSUME NEW c \in Call, NEW u \in Claimer, NEW a \in Area, StoreClaim(c, u, a)
      PROVE  ClaimsInv'
  BY <1>1, StoreClaimStep
<1>2. ASSUME NEW c \in Call, ListPage(c) \/ ScanFails(c) \/ ReadClaim(c)
      PROVE  ClaimsInv'
  <2>1. call[c].by \in Claimer
    BY <1>0, <1>2 DEF ListPage, ScanFails, ReadClaim, ClaimsTypeOK
  <2> QED
    BY <1>2, <2>1, ListPageStep, ScanFailsStep, ReadClaimStep
<1>3. ASSUME NEW u \in Claimer, Unclaim(u) PROVE ClaimsInv'
  <2>1. /\ ~Claiming(u) /\ Disturbs /\ call' = call /\ foreign' = foreign
        /\ area' = [area EXCEPT ![u] = <<>>] /\ warned' = [warned EXCEPT ![u] = {}]
    BY <1>3 DEF Unclaim, callVars
  <2>2. CallsShape'
    BY <1>0, <2>1 DEF CallsShape
  <2>3. unsure' \subseteq Claimer
    BY <1>0, <2>1 DEF Disturbs, ClaimsTypeOK
  <2>4. ClaimsTypeOK'
    BY <1>0, <2>1, <2>3 DEF ClaimsTypeOK
  <2>5. \A w \in Claimer : area'[w] # <<>> => area'[w] = area[w] /\ warned'[w] = warned[w]
    BY <1>0, <2>1 DEF ClaimsTypeOK
  <2>6. \A c \in Call : Active(c) => area'[call[c].by] = area[call[c].by]
    BY <1>0, <2>1 DEF ClaimsTypeOK, Claiming, Active
  <2> QED
    BY <2>1, <2>2, <2>4, <2>5, <2>6, DisturbingStep
<1>4. ASSUME NEW k \in OtherKey, KeyAdded(k) PROVE ClaimsInv'
  <2>1. UNCHANGED <<call, area, warned, unsure>> /\ foreign' = foreign \cup {k}
    BY <1>4 DEF KeyAdded, callVars
  <2>2. CallsShape' /\ ClaimsTypeOK' /\ OneScanEach'
    BY <1>0, <2>1 DEF CallsShape, ClaimsTypeOK, OneScanEach, ScanOf, Active
  <2>3. Keys \subseteq Keys'
    BY <2>1 DEF Keys
  <2>4. Keys' \subseteq Nat
    BY <2>2, ClaimKeysOK DEF Keys, ClaimsTypeOK
  <2>5. ASSUME NEW u \in Claimer, NEW v \in Claimer, Sees(u, v) PROVE Sees(u, v)'
    BY <1>0, <2>1, <2>3, <2>4, <2>5, SeesOn
  <2>6. Noticed'
    BY <1>0, <2>1, <2>5 DEF Noticed, Overlapping
  <2> QED
    BY <2>2, <2>6 DEF ClaimsInv
<1>5. ASSUME NEW k \in OtherKey, KeyGone(k) PROVE ClaimsInv'
  <2>1. /\ Disturbs /\ UNCHANGED <<call, area, warned>> /\ foreign' = foreign \ {k}
    BY <1>5 DEF KeyGone, callVars
  <2>2. unsure' \subseteq Claimer
    BY <1>0, <2>1 DEF Disturbs, ClaimsTypeOK
  <2>3. CallsShape' /\ ClaimsTypeOK'
    BY <1>0, <2>1, <2>2 DEF CallsShape, ClaimsTypeOK
  <2> QED
    BY <2>1, <2>3, DisturbingStep
<1>6. CASE ClaimsRestart
  <2>1. Disturbs /\ UNCHANGED <<area, foreign, warned>> /\ CallsCutOff
    BY <1>6 DEF ClaimsRestart
  <2>2. CallsShape' /\ \A c \in Call : call'[c] = Free
    BY <2>1, CutOffEffect
  <2>3. unsure' \subseteq Claimer
    BY <1>0, <2>1 DEF Disturbs, ClaimsTypeOK
  <2>4. ClaimsTypeOK'
    BY <1>0, <2>1, <2>2, <2>3 DEF ClaimsTypeOK, Free
  <2> QED
    BY <2>1, <2>2, <2>4, DisturbingStep
<1>7. CASE UNCHANGED <<callVars, claimsVars>>
  <2>1. UNCHANGED <<call, area, foreign, warned, unsure>>
    BY <1>7 DEF callVars, claimsVars
  <2>2. CallsShape' /\ ClaimsTypeOK' /\ OneScanEach' /\ Keys' = Keys
    BY <1>0, <2>1 DEF CallsShape, ClaimsTypeOK, OneScanEach, ScanOf, Active, Keys
  <2>3. Noticed'
    BY <1>0, <2>1, <2>2 DEF Noticed, Overlapping, Sees, InSight, Claiming, ScanOf, Active
  <2> QED
    BY <2>2, <2>3 DEF ClaimsInv
<1> QED
  BY <1>1, <1>2, <1>3, <1>4, <1>5, <1>6, <1>7 DEF ClaimsNext

LEMMA ClaimsHold == ClaimsSpec => []ClaimsInv
<1>1. ClaimsInit => ClaimsInv
  <2> SUFFICES ASSUME ClaimsInit PROVE ClaimsInv
    OBVIOUS
  <2>1. CallsShape /\ \A c \in Call : call[c] = Free
    BY InitShape DEF ClaimsInit, CallsInit
  <2>2. ClaimsTypeOK
    BY <2>1 DEF ClaimsInit, ClaimsTypeOK, Free
  <2>3. OneScanEach
    BY <2>1 DEF OneScanEach, Active, Free
  <2>4. Noticed
    BY DEF ClaimsInit, Noticed, Overlapping, AreasOverlap
  <2> QED
    BY <2>1, <2>2, <2>3, <2>4 DEF ClaimsInv
<1> QED
  BY <1>1, ClaimsKept, PTL DEF ClaimsSpec

-----------------------------------------------------------------------------
\* Every variable keeps its type, and a request its place in the handler.
THEOREM ClaimsTypeCorrect == ClaimsSpec => []ClaimsTypeOK
<1>1. ClaimsInv => ClaimsTypeOK
  BY DEF ClaimsInv
<1> QED
  BY <1>1, ClaimsHold, PTL

\* Of two members whose areas overlap one has been told of the other.
THEOREM OverlapsAreCalledOut == ClaimsSpec => []OverlapCalledOut
<1>1. ClaimsInv => OverlapCalledOut
  BY DEF ClaimsInv, OverlapCalledOut, Noticed, Overlapping, Sees
<1> QED
  BY <1>1, ClaimsHold, PTL

-----------------------------------------------------------------------------
(***************************************************************************)
(* The facts of an agent.  What holds of the stored list holds of the list *)
(* that each request has read: it is in order, and it accounts for every   *)
(* fact acknowledged so far, also for those acknowledged since, which are  *)
(* exposed.  A fact stamped after the list was read is newer than it.      *)
(***************************************************************************)
Ordered(list) == \A i, j \in 1..Len(list) : i < j => list[i] < list[j]

\* The acknowledged facts that the list must still have or have outlived.
Due == stored \ (dropped \cup exposed)

Kept(list, n, due) ==
    /\ list \in Seq(1..n) /\ Len(list) <= MaxFacts
    /\ Ordered(list)
    /\ \A f \in due : f \in Listed(list) \/ n - f >= MaxFacts

FactsInv ==
    /\ CallsShape /\ FactsTypeOK
    /\ Kept(facts, nfacts, Due)
    /\ \A c \in Call : call[c].at # "free" =>
         /\ Kept(call[c].got, nfacts, Due)
         /\ call[c].op = "remove" => call[c].on \in 1..nfacts
         /\ call[c].at = "stamped" =>
              call[c].op = "append" /\ call[c].on \in 1..nfacts
              /\ \A i \in 1..Len(call[c].got) : call[c].got[i] < call[c].on

\* Numbers in strictly increasing order spread at least as far as they are many.
LEMMA OrderedSpread ==
    ASSUME NEW s \in Seq(Nat), Ordered(s), NEW i \in 1..Len(s)
    PROVE  s[i] >= s[1] + (i - 1)
<1> DEFINE S == {k \in 1..Len(s) : ~(s[k] >= s[1] + (k - 1))}
<1>0. Len(s) \in Nat /\ \A k \in 1..Len(s) : s[k] \in Nat
  OBVIOUS
<1> SUFFICES ASSUME S # {} PROVE FALSE
  OBVIOUS
<1>1. S \in SUBSET Nat
  BY <1>0
<1>2. PICK k \in S : \A y \in S : k <= y
  <2> HIDE DEF S
  <2> QED
    BY <1>1, LeastMember
<1>3. k \in 1..Len(s) /\ k # 1 /\ 1 \in 1..Len(s)
  <2>1. k \in 1..Len(s) /\ ~(s[k] >= s[1] + (k - 1))
    OBVIOUS
  <2>2. 1 \in 1..Len(s)
    BY <1>0, <2>1
  <2>3. s[1] >= s[1] + (1 - 1)
    BY <1>0, <2>2
  <2> HIDE DEF S
  <2> QED
    BY <2>1, <2>2, <2>3
<1>4. k - 1 \in 1..Len(s) /\ k - 1 < k
  BY <1>0, <1>3
<1>5. k - 1 \notin S
  <2> HIDE DEF S
  <2> QED
    BY <1>1, <1>2, <1>3, <1>4
<1>6. s[k - 1] >= s[1] + ((k - 1) - 1)
  BY <1>4, <1>5
<1>7. s[k - 1] < s[k]
  BY <1>3, <1>4 DEF Ordered
<1>8. ~(s[k] >= s[1] + (k - 1))
  OBVIOUS
<1>9. s[k] \in Nat /\ s[k - 1] \in Nat /\ s[1] \in Nat /\ k \in Nat
  BY <1>0, <1>3, <1>4
<1> HIDE DEF S
<1> QED
  BY <1>6, <1>7, <1>8, <1>9

\* Taking a fact out leaves the others, in their order.
LEMMA WithoutKeeps ==
    ASSUME NEW n \in Nat, NEW list \in Seq(1..n), Ordered(list), NEW f
    PROVE  /\ Without(list, f) \in Seq(1..n)
           /\ Len(Without(list, f)) <= Len(list)
           /\ Ordered(Without(list, f))
           /\ Listed(list) \subseteq Listed(Without(list, f)) \cup {f}
<1>1. CASE f \notin Listed(list)
  BY <1>1 DEF Without
<1>2. CASE f \in Listed(list)
  <2> DEFINE k == CHOOSE i \in 1..Len(list) : list[i] = f
             rest == SubSeq(list, 1, k - 1) \o SubSeq(list, k + 1, Len(list))
  <2>1. k \in 1..Len(list) /\ list[k] = f
    BY <1>2 DEF Listed
  <2>2. Without(list, f) = rest
    BY <1>2 DEF Without
  <2> HIDE DEF k
  <2>3. Len(list) \in Nat /\ \A i \in 1..Len(list) : list[i] \in 1..n
    OBVIOUS
  <2>4. /\ SubSeq(list, 1, k - 1) \in Seq(1..n)
        /\ Len(SubSeq(list, 1, k - 1)) = k - 1
        /\ \A i \in 1..(k - 1) : SubSeq(list, 1, k - 1)[i] = list[i]
    BY <2>1, <2>3
  <2>5. /\ SubSeq(list, k + 1, Len(list)) \in Seq(1..n)
        /\ Len(SubSeq(list, k + 1, Len(list))) = Len(list) - k
        /\ \A i \in 1..(Len(list) - k) : SubSeq(list, k + 1, Len(list))[i] = list[k + i]
    BY <2>1, <2>3
  <2>6. /\ rest \in Seq(1..n) /\ Len(rest) = Len(list) - 1
        /\ \A i \in 1..(Len(list) - 1) :
              rest[i] = IF i < k THEN list[i] ELSE list[i + 1]
    <3> DEFINE a == SubSeq(list, 1, k - 1)
               b == SubSeq(list, k + 1, Len(list))
    <3>1. /\ a \in Seq(1..n) /\ b \in Seq(1..n)
          /\ Len(a) = k - 1 /\ Len(b) = Len(list) - k
      BY <2>4, <2>5
    <3>2. \A i \in 1..(k - 1) : a[i] = list[i]
      BY <2>4
    <3>3. \A i \in 1..(Len(list) - k) : b[i] = list[k + i]
      BY <2>5
    <3>4. rest = a \o b
      OBVIOUS
    <3> HIDE DEF a, b, rest
    <3>5. /\ rest \in Seq(1..n) /\ Len(rest) = Len(a) + Len(b)
          /\ \A i \in 1..Len(rest) : rest[i] = IF i <= Len(a) THEN a[i] ELSE b[i - Len(a)]
      <4>1. /\ a \o b \in Seq(1..n) /\ Len(a \o b) = Len(a) + Len(b)
            /\ \A i \in 1..(Len(a) + Len(b)) :
                  (a \o b)[i] = IF i <= Len(a) THEN a[i] ELSE b[i - Len(a)]
        BY <3>1, ConcatProperties
      <4> QED
        BY <3>4, <4>1
    <3>6. Len(rest) = Len(list) - 1
      BY <2>1, <2>3, <3>1, <3>5
    <3>7. ASSUME NEW i \in 1..(Len(list) - 1)
          PROVE  rest[i] = IF i < k THEN list[i] ELSE list[i + 1]
      <4>1. CASE i < k
        <5>1. i \in 1..(k - 1) /\ i <= Len(a)
          BY <2>1, <2>3, <3>1, <4>1
        <5> QED
          BY <3>2, <3>5, <3>6, <4>1, <5>1
      <4>2. CASE ~(i < k)
        <5>1. i - (k - 1) \in 1..(Len(list) - k) /\ ~(i <= Len(a)) /\ k + (i - (k - 1)) = i + 1
          BY <2>1, <2>3, <3>1, <4>2
        <5>2. rest[i] = b[i - (k - 1)]
          BY <3>1, <3>5, <3>6, <5>1
        <5> QED
          BY <3>3, <4>2, <5>1, <5>2
      <4> QED
        BY <4>1, <4>2
    <3> QED
      BY <3>5, <3>6, <3>7
  <2> HIDE DEF rest
  <2>7. Ordered(rest)
    <3> SUFFICES ASSUME NEW i \in 1..(Len(list) - 1), NEW j \in 1..(Len(list) - 1),
                        i < j
                 PROVE  rest[i] < rest[j]
      BY <2>6 DEF Ordered
    <3> DEFINE at(x) == IF x < k THEN x ELSE x + 1
    <3>1. at(i) \in 1..Len(list) /\ at(j) \in 1..Len(list) /\ at(i) < at(j)
      BY <2>1, <2>3
    <3>2. rest[i] = list[at(i)] /\ rest[j] = list[at(j)]
      BY <2>6
    <3> HIDE DEF at
    <3> QED
      BY <3>1, <3>2 DEF Ordered
  <2>8. ASSUME NEW g \in Listed(list), g # f PROVE g \in Listed(rest)
    <3>1. PICK i \in 1..Len(list) : list[i] = g
      BY DEF Listed
    <3>2. i # k
      BY <2>1, <2>8, <3>1
    <3>3. CASE i < k
      <4>1. i \in 1..(Len(list) - 1) /\ rest[i] = g
        BY <2>1, <2>3, <2>6, <3>1, <3>3
      <4> QED
        BY <2>6, <4>1 DEF Listed
    <3>4. CASE i > k
      <4>1. i - 1 \in 1..(Len(list) - 1) /\ ~(i - 1 < k) /\ (i - 1) + 1 = i
        BY <2>1, <2>3, <3>4
      <4>2. rest[i - 1] = g
        BY <2>6, <3>1, <4>1
      <4> QED
        BY <2>6, <4>1, <4>2 DEF Listed
    <3> QED
      BY <2>1, <3>2, <3>3, <3>4
  <2> QED
    BY <2>2, <2>3, <2>6, <2>7, <2>8
<1> QED
  BY <1>1, <1>2

\* A newer fact joins at the end, and only the oldest can have to go for it.
LEMMA AppendKeeps ==
    ASSUME NEW n \in Nat, NEW list \in Seq(1..n), Len(list) <= MaxFacts,
           Ordered(list), NEW f \in 1..n, \A i \in 1..Len(list) : list[i] < f
    PROVE  /\ RollOff(Append(list, f)) \in Seq(1..n)
           /\ Len(RollOff(Append(list, f))) <= MaxFacts
           /\ Ordered(RollOff(Append(list, f)))
           /\ f \in Listed(RollOff(Append(list, f)))
           /\ \A g \in Listed(list) :
                 g \in Listed(RollOff(Append(list, f))) \/ n - g >= MaxFacts
<1> DEFINE all == Append(list, f)
           len == Len(list)
<1>1. /\ len \in Nat /\ all \in Seq(1..n) /\ Len(all) = len + 1
      /\ all[len + 1] = f /\ \A i \in 1..len : all[i] = list[i] /\ list[i] \in 1..n
  OBVIOUS
<1>2. Listed(all) = Listed(list) \cup {f}
  <2> HIDE DEF all, len
  <2>1. \A i \in 1..(len + 1) : i \in 1..len \/ i = len + 1
    BY <1>1
  <2>2. len + 1 \in 1..(len + 1) /\ 1..len \subseteq 1..(len + 1)
    BY <1>1
  <2> QED
    BY <1>1, <2>1, <2>2 DEF Listed, len
<1>3. Ordered(all)
  <2> SUFFICES ASSUME NEW i \in 1..(len + 1), NEW j \in 1..(len + 1), i < j
               PROVE  all[i] < all[j]
    BY <1>1 DEF Ordered
  <2>0. len \in Nat
    BY <1>1
  <2>1. all[i] = list[i] /\ list[i] < f /\ i \in 1..Len(list)
    <3>1. i \in 1..len
      BY <2>0
    <3> QED
      BY <1>1, <3>1
  <2>2. CASE j = len + 1
    <3>1. all[len + 1] = f
      BY <1>1
    <3> HIDE DEF all, len
    <3> QED
      BY <2>1, <2>2, <3>1
  <2>3. CASE j # len + 1
    <3>1. j \in 1..len
      <4> HIDE DEF len
      <4> QED
        BY <2>0, <2>3
    <3>2. all[j] = list[j] /\ list[i] < list[j]
      BY <1>1, <2>1, <3>1 DEF Ordered
    <3> QED
      BY <2>1, <3>2
  <2> QED
    BY <2>2, <2>3
<1> HIDE DEF all, len
<1>4. CASE len < MaxFacts
  <2>1. RollOff(all) = all
    BY <1>1, <1>4, MaxFactsOK DEF RollOff
  <2> QED
    BY <1>1, <1>2, <1>3, <1>4, <2>1, MaxFactsOK DEF all, len
<1>5. CASE len = MaxFacts
  <2> DEFINE cut == SubSeq(all, 2, MaxFacts + 1)
  <2>1. RollOff(all) = cut
    <3>1. Len(all) > MaxFacts /\ Len(all) = MaxFacts + 1 /\ Len(all) - MaxFacts + 1 = 2
      BY <1>1, <1>5, MaxFactsOK
    <3> QED
      BY <3>1 DEF RollOff
  <2>2. /\ cut \in Seq(1..n) /\ Len(cut) = MaxFacts
        /\ \A i \in 1..MaxFacts : cut[i] = all[i + 1]
    BY <1>1, <1>5, MaxFactsOK
  <2> HIDE DEF cut
  <2>3. Ordered(cut)
    <3> SUFFICES ASSUME NEW i \in 1..MaxFacts, NEW j \in 1..MaxFacts, i < j
                 PROVE  cut[i] < cut[j]
      BY <2>2 DEF Ordered
    <3>1. i + 1 \in 1..Len(all) /\ j + 1 \in 1..Len(all) /\ i + 1 < j + 1
      BY <1>1, <1>5, MaxFactsOK
    <3> QED
      BY <1>3, <2>2, <3>1 DEF Ordered
  <2>4. \A i \in 2..(MaxFacts + 1) : all[i] \in Listed(cut)
    <3> SUFFICES ASSUME NEW i \in 2..(MaxFacts + 1) PROVE all[i] \in Listed(cut)
      OBVIOUS
    <3>1. i - 1 \in 1..MaxFacts /\ (i - 1) + 1 = i
      BY MaxFactsOK
    <3> QED
      BY <2>2, <3>1 DEF Listed
  <2>5. f \in Listed(cut)
    <3>1. MaxFacts + 1 \in 2..(MaxFacts + 1)
      BY MaxFactsOK
    <3> QED
      BY <1>1, <1>5, <2>4, <3>1
  <2>6. n - all[1] >= MaxFacts
    <3>1. all \in Seq(Nat) /\ MaxFacts + 1 \in 1..Len(all)
      BY <1>1, <1>5, MaxFactsOK
    <3>2. all[MaxFacts + 1] >= all[1] + ((MaxFacts + 1) - 1)
      BY <1>3, <3>1, OrderedSpread
    <3>3. all[1] \in 1..n /\ all[MaxFacts + 1] \in 1..n
      BY <1>1, <3>1, MaxFactsOK
    <3> QED
      BY <3>2, <3>3, MaxFactsOK
  <2>7. ASSUME NEW g \in Listed(list) PROVE g \in Listed(cut) \/ n - g >= MaxFacts
    <3>1. PICK i \in 1..(MaxFacts + 1) : all[i] = g
      BY <1>1, <1>2, <1>5 DEF Listed
    <3>2. i = 1 \/ i \in 2..(MaxFacts + 1)
      BY MaxFactsOK
    <3> QED
      BY <2>4, <2>6, <3>1, <3>2
  <2> QED
    BY <2>1, <2>2, <2>3, <2>5, <2>7, MaxFactsOK DEF all
<1> QED
  BY <1>1, <1>4, <1>5, MaxFactsOK DEF len


\* A list that keeps what is due does so when more facts are stamped.
LEMMA KeptStays ==
    ASSUME NEW list, NEW n \in Nat, NEW m \in Nat, n <= m,
           NEW due \in SUBSET (1..n), NEW due2, Kept(list, n, due),
           \A f \in due2 : f \in due \cup Listed(list)
    PROVE  Kept(list, m, due2)
<1>1. list \in Seq(1..m)
  <2>1. \A i \in 1..Len(list) : list[i] \in 1..m
    <3>1. \A i \in 1..Len(list) : list[i] \in 1..n
      BY DEF Kept
    <3> QED
      BY <3>1
  <2> QED
    BY <2>1 DEF Kept
<1>2. ASSUME NEW f \in due2, f \notin Listed(list) PROVE m - f >= MaxFacts
  <2>1. f \in 1..n /\ n - f >= MaxFacts
    BY <1>2 DEF Kept
  <2> QED
    BY <2>1, MaxFactsOK
<1> QED
  BY <1>1, <1>2 DEF Kept

LEMMA FactsKept == FactsInv /\ [FactsNext]_<<callVars, factsVars>> => FactsInv'
<1> SUFFICES ASSUME FactsInv, [FactsNext]_<<callVars, factsVars>> PROVE FactsInv'
  OBVIOUS
<1> USE MaxFactsOK
<1>0. /\ CallsShape /\ FactsTypeOK /\ Kept(facts, nfacts, Due) /\ nfacts \in Nat
      /\ stored \subseteq 1..nfacts
  BY DEF FactsInv, FactsTypeOK
<1>d. Due \in SUBSET (1..nfacts)
  BY <1>0 DEF Due
<1>s. ASSUME NEW list, Kept(list, nfacts, Due), nfacts' \in Nat, nfacts <= nfacts',
             Due' \subseteq Due
      PROVE  Kept(list, nfacts', Due')
  BY <1>0, <1>d, <1>s, KeptStays
<1>k. ASSUME UNCHANGED <<nfacts, stored, dropped>>, exposed \subseteq exposed',
             NEW list, Kept(list, nfacts, Due)
      PROVE  Kept(list, nfacts', Due')
  <2>1. Due' \subseteq Due
    BY <1>k DEF Due
  <2> QED
    BY <1>0, <1>k, <1>s, <2>1
<1>1. ASSUME NEW c \in Call, NEW op \in {"append", "remove", "summary"},
             NEW f \in 0..nfacts, ReadFacts(c, op, f)
      PROVE  FactsInv'
  <2>1. PICK got : /\ Arrive(c, op, "read", f, "writer", got)
                   /\ \/ got = facts /\ exposed' = exposed
                      \/ got = <<>> /\ exposed' = exposed \cup Listed(facts)
    BY <1>1 DEF ReadFacts
  <2>2. UNCHANGED <<facts, nfacts, stored, dropped>> /\ exposed \subseteq exposed'
    BY <1>1, <2>1 DEF ReadFacts
  <2>3. /\ CallsShape'
        /\ call'[c].op = op /\ call'[c].at = "read" /\ call'[c].on = f
        /\ call'[c].got = got
        /\ \A d \in Call \ {c} : call'[d] = call[d]
    BY <1>0, <2>1, ArriveEffect
  <2>4. Kept(got, nfacts', Due')
    <3>1. CASE got = facts
      BY <1>0, <1>k, <2>2, <3>1
    <3>2. CASE got = <<>> /\ exposed' = exposed \cup Listed(facts)
      <4>1. \A g \in Due' : g \in Due /\ g \notin Listed(facts)
        BY <2>2, <3>2 DEF Due
      <4>2. \A g \in Due' : nfacts' - g >= MaxFacts
        BY <1>0, <2>2, <4>1 DEF Kept
      <4>3. got \in Seq(1..nfacts') /\ Len(got) = 0
        BY <3>2
      <4> QED
        BY <4>2, <4>3 DEF Kept, Ordered
    <3> QED
      BY <2>1, <3>1, <3>2
  <2>5. \A d \in Call : call'[d].at # "free" => Kept(call'[d].got, nfacts', Due')
    <3> SUFFICES ASSUME NEW d \in Call, call'[d].at # "free"
                 PROVE  Kept(call'[d].got, nfacts', Due')
      OBVIOUS
    <3>1. CASE d = c
      BY <2>3, <2>4, <3>1
    <3>2. CASE d # c
      BY <1>k, <2>2, <2>3, <3>2 DEF FactsInv
    <3> QED
      BY <3>1, <3>2
  <2>6. Kept(facts', nfacts', Due')
    BY <1>0, <1>k, <2>2 
  <2>7. FactsTypeOK'
    <3>1. exposed' \subseteq 1..nfacts'
      <4>1. Listed(facts) \subseteq 1..nfacts
        <5> DEFINE Number == 1..nfacts
        <5>1. facts \in Seq(Number)
          BY <1>0 DEF FactsTypeOK
        <5> HIDE DEF Number
        <5>2. Listed(facts) \subseteq Number
          BY <5>1 DEF Listed
        <5> QED
          BY <5>2 DEF Number
      <4> QED
        BY <1>0, <2>1, <2>2, <4>1 DEF FactsTypeOK
    <3>2. facts' \in Seq(1..nfacts') /\ Len(facts') <= MaxFacts
      BY <2>6 DEF Kept
    <3>3. ASSUME NEW d \in Call, call'[d].at # "free"
          PROVE  /\ call'[d].at \in {"read", "stamped"}
                 /\ call'[d].op \in {"append", "remove", "summary"}
                 /\ call'[d].on \in 0..nfacts'
                 /\ call'[d].got \in Seq(1..nfacts')
      BY <1>0, <2>2, <2>3, <2>5, <3>3 DEF FactsTypeOK, Kept
    <3> QED
      BY <1>0, <2>2, <3>1, <3>2, <3>3 DEF FactsTypeOK
  <2>8. op = "remove" => f \in 1..nfacts'
    BY <1>0, <1>1, <2>2 DEF ReadFacts
  <2> QED
    BY <2>2, <2>3, <2>5, <2>6, <2>7, <2>8 DEF FactsInv
<1>2. ASSUME NEW c \in Call, Stamp(c) PROVE FactsInv'
  <2>1. /\ At(c, "append", "read") /\ nfacts' = nfacts + 1
        /\ call' = [call EXCEPT ![c] = [op |-> call[c].op, at |-> "stamped",
                                        on |-> nfacts + 1, by |-> call[c].by,
                                        got |-> call[c].got]]
        /\ UNCHANGED <<facts, stored, dropped, exposed>>
    BY <1>2 DEF Stamp
  <2>2. /\ CallsShape'
        /\ call'[c].op = "append" /\ call'[c].at = "stamped"
        /\ call'[c].on = nfacts + 1 /\ call'[c].got = call[c].got
        /\ \A d \in Call \ {c} : call'[d] = call[d]
    <3>1. CallsShape /\ At(c, "append", "read")
      BY <1>0, <2>1
    <3> HIDE DEF FactsInv
    <3> QED
      BY <2>1, <3>1 DEF CallsShape, IsRequest, At
  <2>3. ASSUME NEW list, Kept(list, nfacts, Due) PROVE Kept(list, nfacts', Due')
    <3>1. Due' = Due /\ nfacts' \in Nat /\ nfacts <= nfacts'
      BY <1>0, <2>1 DEF Due
    <3> QED
      BY <1>s, <2>3, <3>1
  <2>4. \A d \in Call : call'[d].at # "free" => Kept(call'[d].got, nfacts', Due')
    BY <2>1, <2>2, <2>3 DEF FactsInv, At
  <2>5. Kept(facts', nfacts', Due')
    BY <1>0, <2>1, <2>3
  <2>6. \A i \in 1..Len(call[c].got) : call[c].got[i] < nfacts + 1
    <3>1. call[c].got \in Seq(1..nfacts)
      BY <2>1 DEF FactsInv, Kept, At
    <3> DEFINE got == call[c].got
               Number == 1..nfacts
    <3>2. \A i \in 1..Len(got) : got[i] \in Number
      <4>1. got \in Seq(Number)
        BY <3>1
      <4> HIDE DEF got, Number
      <4> QED
        BY <4>1
    <3> QED
      BY <1>0, <3>2
  <2>7. FactsTypeOK'
    <3>1. 1..nfacts \subseteq 1..nfacts' /\ 0..nfacts \subseteq 0..nfacts' /\ nfacts' \in Nat
          /\ nfacts + 1 \in 0..nfacts'
      BY <1>0, <2>1
    <3>2. stored' \subseteq 1..nfacts' /\ dropped' \subseteq 1..nfacts' /\ exposed' \subseteq 1..nfacts'
      BY <2>1, <3>1 DEF FactsInv, FactsTypeOK
    <3>3. facts' \in Seq(1..nfacts') /\ Len(facts') <= MaxFacts
      BY <2>5 DEF Kept
    <3>4. ASSUME NEW d \in Call, call'[d].at # "free"
          PROVE  /\ call'[d].at \in {"read", "stamped"}
                 /\ call'[d].op \in {"append", "remove", "summary"}
                 /\ call'[d].on \in 0..nfacts'
                 /\ call'[d].got \in Seq(1..nfacts')
      BY <1>0, <2>2, <2>4, <3>1, <3>4 DEF FactsTypeOK, Kept
    <3> QED
      BY <3>1, <3>2, <3>3, <3>4 DEF FactsTypeOK
  <2>8. \A d \in Call : call'[d].at = "stamped" =>
           /\ call'[d].op = "append" /\ call'[d].on \in 1..nfacts'
           /\ \A i \in 1..Len(call'[d].got) : call'[d].got[i] < call'[d].on
    BY <1>0, <2>1, <2>2, <2>6 DEF FactsInv
  <2>9. \A d \in Call : call'[d].at # "free" /\ call'[d].op = "remove" =>
           call'[d].on \in 1..nfacts'
    <3>1. 1..nfacts \subseteq 1..nfacts'
      BY <1>0, <2>1
    <3> QED
      BY <2>2, <3>1 DEF FactsInv
  <2> QED
    BY <2>2, <2>4, <2>5, <2>7, <2>8, <2>9 DEF FactsInv
<1>3. ASSUME NEW c \in Call, Put(c) PROVE FactsInv'
  <2>1. /\ CallsShape'
        /\ call'[c] = Free
        /\ \A d \in Call \ {c} : call'[d] = call[d]
    BY <1>0, <1>3, EndsEffect DEF Put
  <2>2. nfacts' = nfacts
    BY <1>3 DEF Put
  <2> DEFINE r == call[c]
  <2>3. /\ r.at \in {"read", "stamped"} /\ (r.at = "stamped" <=> r.op = "append")
        /\ Kept(r.got, nfacts, Due) /\ r.op \in {"append", "remove", "summary"}
        /\ r.on \in 0..nfacts
    BY <1>3 DEF Put, FactsInv, FactsTypeOK
  <2>4. CASE UNCHANGED <<facts, exposed, stored, dropped>>
    <3>1. \A d \in Call : call'[d].at # "free" => Kept(call'[d].got, nfacts', Due')
      BY <1>k, <2>1, <2>2, <2>4 DEF FactsInv, Free
    <3>2. Kept(facts', nfacts', Due')
      BY <1>0, <1>k, <2>2, <2>4
    <3>3. FactsTypeOK'
      BY <2>1, <2>2, <2>4 DEF FactsInv, FactsTypeOK, Free
    <3> QED
      BY <2>1, <2>2, <3>1, <3>2, <3>3 DEF FactsInv, Free
  <2>5. CASE /\ facts' = NewFacts(c)
             /\ stored' = IF r.op = "append" THEN stored \cup {r.on} ELSE stored
             /\ exposed' = IF r.op = "append" /\ OthersUnderWay(c)
                           THEN exposed \cup {r.on} ELSE exposed
             /\ dropped' = IF r.op = "remove" THEN dropped \cup {r.on} ELSE dropped
    <3>0. exposed \subseteq exposed' /\ dropped \subseteq dropped'
      BY <2>5
    <3>1. ASSUME NEW d \in Call, call'[d].at # "free" PROVE Kept(call'[d].got, nfacts', Due')
      <4>1. d # c /\ call'[d] = call[d] /\ call[d].at # "free" /\ Kept(call[d].got, nfacts, Due)
        BY <2>1, <3>1 DEF FactsInv, Free
      <4>2. Due' \subseteq Due
        BY <2>5, <4>1 DEF OthersUnderWay, Due
      <4>3. Kept(call[d].got, nfacts', Due')
        BY <1>0, <1>s, <2>2, <4>1, <4>2
      <4> QED
        BY <4>1, <4>3
    <3>2. Kept(facts', nfacts', Due')
      <4>1. CASE r.op = "append"
        <5> DEFINE new == RollOff(Append(r.got, r.on))
        <5>1. facts' = new /\ r.at = "stamped" /\ stored' = stored \cup {r.on}
              /\ UNCHANGED dropped
          BY <2>3, <2>5, <4>1 DEF NewFacts
        <5>2. r.on \in 1..nfacts /\ \A i \in 1..Len(r.got) : r.got[i] < r.on
          BY <5>1 DEF FactsInv
        <5>3. /\ new \in Seq(1..nfacts) /\ Len(new) <= MaxFacts /\ Ordered(new)
              /\ r.on \in Listed(new)
              /\ \A g \in Listed(r.got) : g \in Listed(new) \/ nfacts - g >= MaxFacts
          <6> HIDE DEF r, new
          <6>1. r.got \in Seq(1..nfacts) /\ Len(r.got) <= MaxFacts /\ Ordered(r.got)
            BY <2>3 DEF Kept
          <6> QED
            BY <1>0, <5>2, <6>1, AppendKeeps DEF new
        <5> HIDE DEF new, r
        <5>4. \A f \in Due' : f \in Listed(new) \/ nfacts' - f >= MaxFacts
          <6>1. \A f \in Due' : f \in Due \/ f = r.on
            BY <3>0, <5>1 DEF Due
          <6> QED
            BY <2>2, <2>3, <5>3, <6>1 DEF Kept
        <5> QED
          BY <2>2, <5>1, <5>3, <5>4 DEF Kept
      <4>2. CASE r.op = "remove"
        <5> DEFINE new == Without(r.got, r.on)
        <5>1. facts' = new /\ stored' = stored /\ dropped' = dropped \cup {r.on}
          BY <2>5, <4>2 DEF NewFacts
        <5>2. /\ new \in Seq(1..nfacts) /\ Len(new) <= Len(r.got) /\ Ordered(new)
              /\ Listed(r.got) \subseteq Listed(new) \cup {r.on}
          BY <1>0, <2>3, WithoutKeeps DEF Kept
        <5> HIDE DEF new, r
        <5>3. Len(new) <= MaxFacts
          <6>1. r.got \in Seq(1..nfacts) /\ Len(r.got) <= MaxFacts
            BY <2>3 DEF Kept
          <6>2. Len(r.got) \in Nat /\ Len(new) \in Nat
            BY <5>2, <6>1
          <6> QED
            BY <5>2, <6>1, <6>2
        <5>4. \A f \in Due' : f \in Listed(new) \/ nfacts' - f >= MaxFacts
          <6>1. \A f \in Due' : f \in Due /\ f # r.on
            BY <3>0, <5>1 DEF Due
          <6> QED
            BY <2>2, <2>3, <5>2, <6>1 DEF Kept
        <5> QED
          BY <2>2, <5>1, <5>2, <5>3, <5>4 DEF Kept
      <4>3. CASE r.op = "summary"
        <5>1. facts' = r.got /\ stored' = stored
          BY <2>5, <4>3 DEF NewFacts
        <5>2. Due' \subseteq Due
          BY <3>0, <5>1 DEF Due
        <5>3. Kept(r.got, nfacts', Due')
          BY <1>0, <1>s, <2>2, <2>3, <5>2
        <5> QED
          BY <5>1, <5>3
      <4> QED
        BY <2>3, <4>1, <4>2, <4>3
    <3>3. FactsTypeOK'
      <4>1. r.op = "append" => r.on \in 1..nfacts
        BY <2>3 DEF FactsInv
      <4>2. stored' \subseteq 1..nfacts' /\ exposed' \subseteq 1..nfacts'
        BY <2>2, <2>5, <4>1 DEF FactsInv, FactsTypeOK
      <4>3. facts' \in Seq(1..nfacts') /\ Len(facts') <= MaxFacts
        BY <3>2 DEF Kept
      <4>4. dropped' \subseteq 1..nfacts'
        <5>1. r.op = "remove" => r.on \in 1..nfacts
          BY <2>3 DEF FactsInv
        <5>2. dropped' = IF r.op = "remove" THEN dropped \cup {r.on} ELSE dropped
          BY <2>5
        <5>3. dropped \subseteq 1..nfacts
          BY <1>0 DEF FactsTypeOK
        <5> HIDE DEF r
        <5> QED
          BY <2>2, <5>1, <5>2, <5>3
      <4> QED
        BY <2>1, <2>2, <4>2, <4>3, <4>4 DEF FactsInv, FactsTypeOK, Free
    <3> QED
      BY <2>1, <2>2, <3>1, <3>2, <3>3 DEF FactsInv, Free
  <2> QED
    BY <1>3, <2>4, <2>5 DEF Put
<1>4. CASE FactsRestart
  <2>1. CallsShape' /\ \A c \in Call : call'[c] = Free
    BY <1>4, CutOffEffect DEF FactsRestart
  <2>2. UNCHANGED factsVars
    BY <1>4 DEF FactsRestart
  <2> QED
    BY <2>1, <2>2 DEF factsVars, FactsInv, FactsTypeOK, Due, Free
<1>5. CASE UNCHANGED <<callVars, factsVars>>
  BY <1>5 DEF callVars, factsVars, FactsInv, FactsTypeOK, Due, CallsShape
<1> QED
  <2>1. 0 \in 0..nfacts /\ 1..nfacts \subseteq 0..nfacts
    BY <1>0
  <2>2. CASE FactsNext
    <3>1. CASE \E c \in Call : ReadFacts(c, "append", 0) \/ ReadFacts(c, "summary", 0)
      BY <1>1, <2>1, <3>1
    <3>2. CASE \E c \in Call : \E f \in 1..nfacts : ReadFacts(c, "remove", f)
      BY <1>1, <2>1, <3>2
    <3>3. CASE (\E c \in Call : Stamp(c) \/ Put(c)) \/ FactsRestart
      BY <1>2, <1>3, <1>4, <3>3
    <3> QED
      BY <2>2, <3>1, <3>2, <3>3 DEF FactsNext
  <2> QED
    BY <1>5, <2>2

LEMMA FactsAlways == FactsSpec => []FactsInv
<1>1. FactsInit => FactsInv
  BY InitShape, MaxFactsOK
  DEF FactsInit, CallsInit, Free, FactsInv, FactsTypeOK, Kept, Due, Ordered
<1> QED
  BY <1>1, FactsKept, PTL DEF FactsSpec

\* The list of facts keeps its type and its cap, and requests go their way.
THEOREM FactsTypeCorrect == FactsSpec => []FactsTypeOK
<1>1. FactsInv => FactsTypeOK
  BY DEF FactsInv
<1> QED
  BY <1>1, FactsAlways, PTL

\* The stored list is in the order in which its facts were made, however many
\* requests read it and write it back at once.
THEOREM FactsAreInOrder == FactsSpec => []FactsInOrder
<1>1. FactsInv => FactsInOrder
  BY DEF FactsInv, Kept, Ordered, FactsInOrder
<1> QED
  BY <1>1, FactsAlways, PTL

\* An acknowledged fact is listed, was deleted, has maxFactsPerStore newer ones,
\* or was exposed to another request or to a failed read.
THEOREM FactsAreAccountedFor == FactsSpec => []FactsAccountedFor
<1>1. FactsInv => FactsAccountedFor
  <2> SUFFICES ASSUME FactsInv, NEW f \in stored,
                      ~(f \in Listed(facts) \cup dropped \cup exposed)
               PROVE  Cardinality({g \in 1..nfacts : g > f}) >= MaxFacts
    BY DEF FactsAccountedFor
  <2>1. nfacts \in Nat /\ f \in 1..nfacts /\ nfacts - f >= MaxFacts
    BY DEF FactsInv, FactsTypeOK, Kept, Due
  <2>2. {g \in 1..nfacts : g > f} = (f + 1)..nfacts
    BY <2>1
  <2>3. Cardinality((f + 1)..nfacts) = nfacts - f
    <3>1. f + 1 \in Int /\ nfacts \in Int
      BY <2>1
    <3>2. Cardinality((f + 1)..nfacts) = IF f + 1 > nfacts THEN 0 ELSE nfacts - (f + 1) + 1
      BY <3>1, FS_Interval
    <3> QED
      BY <2>1, <3>2, MaxFactsOK
  <2> QED
    BY <2>1, <2>2, <2>3
<1> QED
  BY <1>1, FactsAlways, PTL
=============================================================================
