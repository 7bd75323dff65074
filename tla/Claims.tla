------------------------------- MODULE Claims -------------------------------
(***************************************************************************)
(* The Sentinel (server/command/claims.go): members of a channel declare   *)
(* with /claim what they work on, and whoever claims an area that overlaps *)
(* another member's is told so in the channel.  A claim is stored first;   *)
(* then the keys of the store are listed page by page and each claim of    *)
(* the channel is read.  Other features write keys of the same store.      *)
(***************************************************************************)
EXTENDS Requests, KeyPages, Sequences

CONSTANTS
    Claimer,    \* members of the channel
    ClaimKey,   \* the key of each member's claim, as a number
    OtherKey,   \* keys of other features
    Area        \* areas, as sequences of path segments

ASSUME ClaimKeysOK ==
    /\ ClaimKey \in [Claimer -> Nat] /\ OtherKey \subseteq Nat
    /\ \A u, v \in Claimer : u # v => ClaimKey[u] # ClaimKey[v]
    /\ \A u \in Claimer : ClaimKey[u] \notin OtherKey
    /\ \A a \in Area : a # <<>> /\ Len(a) \in Nat

VARIABLES
    area,       \* per member: the area in its record, <<>> for no record
    foreign,    \* the keys of other features
    warned,     \* per member: whom its last claim was announced to overlap
    unsure      \* history: the members whose last scan was disturbed

claimsVars == <<area, foreign, warned, unsure>>

ClaimsTypeOK ==
    /\ area \in [Claimer -> Area \cup {<<>>}]
    /\ foreign \subseteq OtherKey
    /\ warned \in [Claimer -> SUBSET Claimer]
    /\ unsure \subseteq Claimer
    /\ \A c \in Call : call[c].at # "free" =>
         /\ call[c].at = "list" /\ call[c].by \in Claimer
         /\ call[c].on \in Area
         /\ call[c].got \in [page : Nat, keys : SUBSET Nat, met : SUBSET Claimer]

ClaimsInit ==
    /\ CallsInit
    /\ area = [u \in Claimer |-> <<>>]
    /\ foreign = {}
    /\ warned = [u \in Claimer |-> {}]
    /\ unsure = {}

\* areasOverlap: the same, or one a path prefix of the other.
AreasOverlap(a, b) ==
    /\ a # <<>> /\ b # <<>>
    /\ \A i \in 1..Len(a) : i <= Len(b) => a[i] = b[i]

Keys == foreign \cup {ClaimKey[u] : u \in {v \in Claimer : area[v] # <<>>}}

Claiming(u) == \E c \in Call : call[c].at # "free" /\ call[c].by = u

NextKey(keys) == CHOOSE k \in keys : \A j \in keys : k <= j

\* The scans under way are no longer of the keys they began with.
Disturbs == unsure' = unsure \cup {u \in Claimer : Claiming(u)}

\* executeClaimCommand: the record is stored before the others are looked at.
\* When it cannot be stored nothing happens.
StoreClaim(c, u, a) ==
    /\ ~Claiming(u)
    /\ Arrive(c, "claim", "list", a, u, [page |-> 0, keys |-> {}, met |-> {}])
    /\ area' = [area EXCEPT ![u] = a]
    /\ warned' = [warned EXCEPT ![u] = {}]
    /\ unsure' = unsure \ {u}
    /\ UNCHANGED <<lapses, foreign>>

ListPage_Short(c) ==   \* mutant: a page that is not full is taken for the end
    /\ call[c].at = "list" /\ call[c].got.keys = {}
    /\ LET g == call[c].got
           ks == Page(g.page, Keys)
       IN  IF Cardinality(ks) < PageSize
           THEN Ends(c) /\ warned' = [warned EXCEPT ![call[c].by] = g.met]
           ELSE /\ Goes(c, "list", [page |-> g.page + 1, keys |-> ks, met |-> g.met])
                /\ UNCHANGED warned
    /\ UNCHANGED <<ncalls, lapses, area, foreign, unsure>>

\* claimsInChannel asks for the next page; after the last one the claim is
\* announced with the members it overlaps.
ListPage(c) ==
    /\ call[c].at = "list" /\ call[c].got.keys = {}
    /\ LET g == call[c].got
           ks == Page(g.page, Keys)
       IN  IF ks = {}
           THEN Ends(c) /\ warned' = [warned EXCEPT ![call[c].by] = g.met]
           ELSE /\ Goes(c, "list", [page |-> g.page + 1, keys |-> ks, met |-> g.met])
                /\ UNCHANGED warned
    /\ UNCHANGED <<ncalls, lapses, area, foreign, unsure>>

\* A failing ListKeys ends the scan as an empty page does; a claim that cannot
\* be read is passed over.
ScanFails(c) ==
    /\ call[c].at = "list"
    /\ Lapse
    /\ unsure' = unsure \cup {call[c].by}
    /\ LET g == call[c].got
       IN  \/ /\ g.keys = {}
              /\ warned' = [warned EXCEPT ![call[c].by] = g.met]
              /\ Ends(c)
           \/ /\ g.keys # {}
              /\ Goes(c, "list", [page |-> g.page, met |-> g.met,
                                  keys |-> g.keys \ {NextKey(g.keys)}])
              /\ UNCHANGED warned
    /\ UNCHANGED <<ncalls, area, foreign>>

\* One key of the page is read, in the order of the keys.
ReadClaim(c) ==
    /\ call[c].at = "list" /\ call[c].got.keys # {}
    /\ LET g == call[c].got
           k == NextKey(g.keys)
           met == {u \in Claimer : /\ ClaimKey[u] = k /\ u # call[c].by
                                   /\ AreasOverlap(area[u], call[c].on)}
       IN  Goes(c, "list", [page |-> g.page, keys |-> g.keys \ {k},
                            met |-> g.met \cup met])
    /\ UNCHANGED <<ncalls, lapses, claimsVars>>

\* executeUnclaimCommand.
Unclaim(u) ==
    /\ ~Claiming(u) /\ area[u] # <<>>
    /\ area' = [area EXCEPT ![u] = <<>>]
    /\ warned' = [warned EXCEPT ![u] = {}]
    /\ Disturbs
    /\ UNCHANGED <<callVars, foreign>>

\* Another feature adds a key, or one is deleted or expires.
KeyAdded(k) ==
    /\ k \in OtherKey \ foreign
    /\ foreign' = foreign \cup {k}
    /\ UNCHANGED <<callVars, area, warned, unsure>>

KeyGone(k) ==
    /\ k \in foreign
    /\ foreign' = foreign \ {k}
    /\ Disturbs
    /\ UNCHANGED <<callVars, area, warned>>

ClaimsRestart == CallsCutOff /\ Disturbs /\ UNCHANGED <<area, foreign, warned>>

ClaimsNext ==
    \/ \E c \in Call, u \in Claimer, a \in Area : StoreClaim(c, u, a)
    \/ \E c \in Call : ListPage(c) \/ ScanFails(c) \/ ReadClaim(c)
    \/ \E u \in Claimer : Unclaim(u)
    \/ \E k \in OtherKey : KeyAdded(k) \/ KeyGone(k)
    \/ ClaimsRestart

ClaimsSpec == ClaimsInit /\ [][ClaimsNext]_<<callVars, claimsVars>>

-----------------------------------------------------------------------------
(* Of two members whose standing claims overlap, at least one was told of  *)
(* the other, however their commands interleave: each stores its claim     *)
(* before it looks for others.  It holds of scans that no failure and no   *)
(* deleted key has disturbed; a key deleted from an earlier page moves     *)
(* those behind it out of the scan's sight.                                *)
OverlapCalledOut ==
    \A u, v \in Claimer :
        /\ u # v /\ AreasOverlap(area[u], area[v])
        /\ ~Claiming(u) /\ ~Claiming(v)
        /\ {u, v} \cap unsure = {}
        => v \in warned[u] \/ u \in warned[v]
=============================================================================
