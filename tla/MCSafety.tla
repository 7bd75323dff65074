------------------------------ MODULE MCSafety ------------------------------
(***************************************************************************)
(* The instances that TLC explores of the parts of which safety is         *)
(* checked: the voice room, the hub of a document, the protocols on the    *)
(* records of the KV store, and the globs of the rules, each pair of a     *)
(* glob and a path being an initial state.  The parts share no state in    *)
(* the code, and a product of them would only repeat every interleaving of *)
(* the one in every state of the others; so a behaviour is one of one      *)
(* part, chosen at the start, and the other parts stay as they begin.  The *)
(* record protocols use the same calls (Requests), so at most one of them  *)
(* can be that part anyhow.                                                *)
(***************************************************************************)
EXTENDS VoiceRoom, DocHub, Gate, Tasks, Claims, Facts, CoAuthors, Registry,
        Rules, TLC

CONSTANT Parts      \* the parts that are explored

VARIABLES
    part,       \* the one that this behaviour is about
    glob, path  \* the input of the rules

recordVars == <<gateVars, taskVars, claimsVars, factsVars, coAuthorVars,
                registryVars>>
safetyVars == <<part, glob, path, vars, hubDocVars, callVars, recordVars>>

\* A glob of the rules, and a path to match it with.
Globs == UNION {[1..n -> {"a", "*", "**"}] : n \in 1..4}
Paths == UNION {[1..n -> {"a", "b"}] : n \in 1..4}

SafetyInit ==
    /\ part \in Parts
    /\ IF part = "rules" THEN glob \in Globs /\ path \in Paths
                         ELSE glob = <<>> /\ path = <<>>
    /\ Init /\ HubInit
    /\ GateInit /\ TasksInit /\ ClaimsInit /\ FactsInit /\ CoAuthorsInit
    /\ RegistryInit

VoiceStep ==
    /\ part = "voice" /\ Next
    /\ UNCHANGED <<part, glob, path, hubDocVars, callVars, recordVars>>

HubStep ==
    /\ part = "hub" /\ HubNext
    /\ UNCHANGED <<part, glob, path, vars, callVars, recordVars>>

GateStep ==
    /\ part = "gate" /\ GateNext
    /\ UNCHANGED <<part, glob, path, vars, hubDocVars>>
    /\ UNCHANGED <<taskVars, claimsVars, factsVars, coAuthorVars, registryVars>>

TasksStep ==
    /\ part = "tasks" /\ TasksNext
    /\ UNCHANGED <<part, glob, path, vars, hubDocVars>>
    /\ UNCHANGED <<gateVars, claimsVars, factsVars, coAuthorVars, registryVars>>

ClaimsStep ==
    /\ part = "claims" /\ ClaimsNext
    /\ UNCHANGED <<part, glob, path, vars, hubDocVars>>
    /\ UNCHANGED <<gateVars, taskVars, factsVars, coAuthorVars, registryVars>>

FactsStep ==
    /\ part = "facts" /\ FactsNext
    /\ UNCHANGED <<part, glob, path, vars, hubDocVars>>
    /\ UNCHANGED <<gateVars, taskVars, claimsVars, coAuthorVars, registryVars>>

CoAuthorsStep ==
    /\ part = "coauthors" /\ CoAuthorsNext
    /\ UNCHANGED <<part, glob, path, vars, hubDocVars>>
    /\ UNCHANGED <<gateVars, taskVars, claimsVars, factsVars, registryVars>>

RegistryStep ==
    /\ part = "registry" /\ RegistryNext
    /\ UNCHANGED <<part, glob, path, vars, hubDocVars>>
    /\ UNCHANGED <<gateVars, taskVars, claimsVars, factsVars, coAuthorVars>>

SafetyNext ==
    \/ VoiceStep \/ HubStep
    \/ GateStep \/ TasksStep \/ ClaimsStep \/ FactsStep \/ CoAuthorsStep
    \/ RegistryStep

SafetySpec == SafetyInit /\ [][SafetyNext]_safetyVars

-----------------------------------------------------------------------------
\* The type invariants.  Those of the record protocols say what the calls under
\* way are, so each is that of its own part only.
PartsTypeOK ==
    /\ TypeOK /\ HubTypeOK
    /\ part = "gate" => GateTypeOK
    /\ part = "tasks" => TasksTypeOK
    /\ part = "claims" => ClaimsTypeOK
    /\ part = "facts" => FactsTypeOK
    /\ part = "coauthors" => CoAuthorsTypeOK
    /\ part = "registry" => RegistryTypeOK

\* matchSeg (server/codespace_rules.go) finds a match exactly when the path can
\* be cut into pieces that match the segments of the glob.
GlobMatchesCut == part = "rules" => GlobIsCut(glob, path)

-----------------------------------------------------------------------------
\* The values of the constants.

Symmetry == Permutations(Conn) \cup Permutations(Call)

\* An agent of the first user; the second is an administrator.
Owners == [b \in Bot |-> CHOOSE h \in Human : h \notin Operator]

\* Two members whose claims lie behind and between keys of other features.
ClaimKeys == [u \in Claimer |-> IF u = "ann" THEN 2 ELSE 4]

\* The area src, its subarea src/auth, and another.
Areas == {<<"src">>, <<"src", "auth">>, <<"docs">>}

\* Records come first, then the files, then the bindings.
Index(x) == CHOOSE i \in 1..3 : <<"x", "y", "z">>[i] = x
RecordKeys == [x \in Codespace |-> Index(x)]
FileKeys == [f \in FileName |-> 10 * Index(f[1]) + f[2]]
BindingKeys == [ch \in Channel |-> 100 + ch]
=============================================================================
