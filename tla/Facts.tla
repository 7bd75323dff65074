-------------------------------- MODULE Facts --------------------------------
(***************************************************************************)
(* An agent's fact store (server/memory.go): one KV value with a list of   *)
(* facts, the newest maxFactsPerStore of them.  Appending a fact, deleting *)
(* one and putting the summary each read the whole value, change it and    *)
(* write it back; whatever was written in between is exposed.  A fact is   *)
(* its number, given when it is stamped with its time.                     *)
(***************************************************************************)
EXTENDS Requests, Sequences, FiniteSets

CONSTANT MaxFacts   \* maxFactsPerStore, 100 in the code

ASSUME MaxFactsOK == MaxFacts \in Nat \ {0}

VARIABLES
    facts,      \* the stored list
    nfacts,     \* facts stamped so far
    stored,     \* history: facts whose append was acknowledged
    dropped,    \* history: facts that a deletion took out
    exposed     \* history: facts stored while another request was between its
                \* read and its write, or there when a read failed

factsVars == <<facts, nfacts, stored, dropped, exposed>>

Listed(list) == {list[i] : i \in 1..Len(list)}

FactsTypeOK ==
    /\ facts \in Seq(1..nfacts) /\ Len(facts) <= MaxFacts
    /\ nfacts \in Nat
    /\ stored \subseteq 1..nfacts /\ dropped \subseteq 1..nfacts
    /\ exposed \subseteq 1..nfacts
    /\ \A c \in Call : call[c].at # "free" =>
         /\ call[c].at \in {"read", "stamped"}
         /\ call[c].op \in {"append", "remove", "summary"}
         /\ call[c].on \in 0..nfacts
         /\ call[c].got \in Seq(1..nfacts)

FactsInit ==
    /\ CallsInit
    /\ facts = <<>> /\ nfacts = 0
    /\ stored = {} /\ dropped = {} /\ exposed = {}

\* getMemory, for a handler that will append, delete fact f or put a summary.
\* A value that cannot be read is taken for an empty one.
ReadFacts(c, op, f) ==
    /\ f = 0 <=> op # "remove"
    /\ \/ /\ Arrive(c, op, "read", f, "writer", facts)
          /\ UNCHANGED <<lapses, exposed>>
       \/ /\ Arrive(c, op, "read", f, "writer", <<>>)
          /\ Lapse
          /\ exposed' = exposed \cup Listed(facts)
    /\ UNCHANGED <<facts, nfacts, stored, dropped>>

\* The new fact gets its id and its time.
Stamp(c) ==
    /\ At(c, "append", "read")
    /\ nfacts' = nfacts + 1
    /\ call' = [call EXCEPT ![c] = [op |-> @.op, at |-> "stamped",
                                    on |-> nfacts + 1, by |-> @.by,
                                    got |-> @.got]]
    /\ UNCHANGED <<ncalls, lapses, facts, stored, dropped, exposed>>

RollOff_Newest(list) ==   \* mutant: the newest facts go instead of the oldest
    IF Len(list) > MaxFacts THEN SubSeq(list, 1, MaxFacts) ELSE list

\* Only the newest maxFactsPerStore stay.
RollOff(list) ==
    IF Len(list) > MaxFacts
    THEN SubSeq(list, Len(list) - MaxFacts + 1, Len(list))
    ELSE list

\* The list without fact f: an id is listed once at most.
Without(list, f) ==
    IF f \in Listed(list)
    THEN LET k == CHOOSE k \in 1..Len(list) : list[k] = f
         IN  SubSeq(list, 1, k - 1) \o SubSeq(list, k + 1, Len(list))
    ELSE list

NewFacts_Prepend(c) ==   \* mutant: the new fact goes to the front
    LET r == call[c]
    IN  CASE r.op = "append" -> RollOff(<<r.on>> \o r.got)
          [] r.op = "remove" -> Without(r.got, r.on)
          [] r.op = "summary" -> r.got

\* The list a request writes, from the one it has read.
NewFacts(c) ==
    LET r == call[c]
    IN  CASE r.op = "append" -> RollOff(Append(r.got, r.on))
          [] r.op = "remove" -> Without(r.got, r.on)
          [] r.op = "summary" -> r.got

OthersUnderWay(c) == \E d \in Call \ {c} : call[d].at # "free"

\* putMemory.
Put(c) ==
    /\ call[c].at \in {"read", "stamped"}
    /\ call[c].at = "stamped" <=> call[c].op = "append"
    /\ Ends(c)
    /\ \/ /\ facts' = NewFacts(c)
          /\ stored' = IF call[c].op = "append" THEN stored \cup {call[c].on}
                       ELSE stored
          /\ exposed' = IF call[c].op = "append" /\ OthersUnderWay(c)
                        THEN exposed \cup {call[c].on} ELSE exposed
          /\ dropped' = IF call[c].op = "remove" THEN dropped \cup {call[c].on}
                        ELSE dropped
          /\ UNCHANGED lapses
       \/ Lapse /\ UNCHANGED <<facts, exposed, stored, dropped>>
    /\ UNCHANGED <<ncalls, nfacts>>

FactsRestart == CallsCutOff /\ UNCHANGED factsVars

FactsNext ==
    \/ \E c \in Call :
         \/ ReadFacts(c, "append", 0) \/ ReadFacts(c, "summary", 0)
         \/ \E f \in 1..nfacts : ReadFacts(c, "remove", f)
         \/ Stamp(c) \/ Put(c)
    \/ FactsRestart

FactsSpec == FactsInit /\ [][FactsNext]_<<callVars, factsVars>>

-----------------------------------------------------------------------------
(* The list is in the order its facts were made, whatever is exposed: a  *)
(* fact is stamped after the list it joins was read.  The panels show      *)
(* and the cap rolls off by that order.                                    *)
FactsInOrder == \A i, j \in 1..Len(facts) : i < j => facts[i] < facts[j]

(* An acknowledged fact is in the list, was deleted, is older than         *)
(* maxFactsPerStore others, or was stored while another request was under  *)
(* way or there when a read failed: requests that follow one another, and  *)
(* read what there is, lose nothing.                                       *)
FactsAccountedFor ==
    \A f \in stored :
        \/ f \in Listed(facts) \cup dropped \cup exposed
        \/ Cardinality({g \in 1..nfacts : g > f}) >= MaxFacts
=============================================================================
