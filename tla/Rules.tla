-------------------------------- MODULE Rules --------------------------------
(***************************************************************************)
(* The globs of a codespace's rules (globMatch in                          *)
(* server/codespace_rules.go), which protect paths from being edited.  A   *)
(* glob and a path are sequences of segments; the matching of one segment  *)
(* (path.Match) is left with literals and the segment *.                   *)
(***************************************************************************)
EXTENDS Naturals, Sequences

SegmentMatches(q, s) == q = "*" \/ q = s

MatchSeg_OneOrMore(pat, name) ==   \* mutant: ** does not match zero segments
    LET from[i \in 1..(Len(pat) + 1)] ==
            IF i > Len(pat) THEN {Len(name) + 1}
            ELSE IF pat[i] = "**"
                 THEN {j \in 1..(Len(name) + 1) : \E k \in from[i + 1] : j < k}
                 ELSE {j \in 1..Len(name) :
                          SegmentMatches(pat[i], name[j]) /\ j + 1 \in from[i + 1]}
    IN  1 \in from[1]

\* from[i]: the places of the path from which on its segments match those of
\* the glob from i on.
MatchSeg(pat, name) ==
    LET from[i \in 1..(Len(pat) + 1)] ==
            IF i > Len(pat) THEN {Len(name) + 1}
            ELSE IF pat[i] = "**"
                 THEN {j \in 1..(Len(name) + 1) : \E k \in from[i + 1] : j <= k}
                 ELSE {j \in 1..Len(name) :
                          SegmentMatches(pat[i], name[j]) /\ j + 1 \in from[i + 1]}
    IN  1 \in from[1]

\* What the comment of globMatch says: the path can be cut into one piece per
\* segment of the glob, of any length for **, of one matching segment otherwise.
Cuts(pat, name) ==
    {b \in [0..Len(pat) -> 0..Len(name)] :
        /\ b[0] = 0 /\ b[Len(pat)] = Len(name)
        /\ \A i \in 1..Len(pat) :
              IF pat[i] = "**" THEN b[i - 1] <= b[i]
              ELSE b[i] = b[i - 1] + 1 /\ SegmentMatches(pat[i], name[b[i]])}

(* The recursive search over the suffixes decides exactly whether there is *)
(* such a cut, with several ** in one glob too.                            *)
GlobIsCut(pat, name) == MatchSeg(pat, name) <=> Cuts(pat, name) # {}
=============================================================================
