---------------------------- MODULE SafetyProofs ----------------------------
(***************************************************************************)
(* The composition of the parts of which safety is checked (MCSafety).     *)
(* The parts share no state but the calls, and a behaviour moves one part  *)
(* only: it is a behaviour of the voice room and of the document's hub in  *)
(* any case, and of the record protocol it is about.  What the other proof *)
(* modules say of a part by itself therefore holds in the composition.     *)
(***************************************************************************)
EXTENDS MCSafety, VoiceRoomProofs, DocHubProofs, RecordProofs, RegistryProofs

\* The part a behaviour is about is chosen once and for all.
LEMMA PartIsChosen == [SafetyNext]_safetyVars => UNCHANGED part
  BY DEF SafetyNext, VoiceStep, HubStep, GateStep, TasksStep, ClaimsStep, FactsStep,
         CoAuthorsStep, RegistryStep, safetyVars

\* The pages of the voice room see steps of the voice room, or nothing.
THEOREM VoiceByItself == SafetySpec => Spec
<1>1. SafetyInit => Init
  BY DEF SafetyInit
<1>2. [SafetyNext]_safetyVars => [Next]_vars
  BY DEF SafetyNext, VoiceStep, HubStep, GateStep, TasksStep, ClaimsStep, FactsStep,
         CoAuthorsStep, RegistryStep, safetyVars
<1> QED
  BY <1>1, <1>2, PTL DEF SafetySpec, Spec

\* The document's record sees steps of the hub, or nothing ...
THEOREM HubByItself == SafetySpec => HubSpec
<1>1. SafetyInit => HubInit
  BY DEF SafetyInit
<1>2. [SafetyNext]_safetyVars => [HubNext]_hubDocVars
  BY DEF SafetyNext, VoiceStep, HubStep, GateStep, TasksStep, ClaimsStep, FactsStep,
         CoAuthorsStep, RegistryStep, safetyVars
<1> QED
  BY <1>1, <1>2, PTL DEF SafetySpec, HubSpec

\* ... so that it is an atomic one in the composition too.
THEOREM PartsImplementStore == SafetySpec => IsDocStore
  BY HubByItself, HubImplementsStore, PTL

(***************************************************************************)
(* Each record protocol takes every step of a behaviour that is about it.  *)
(***************************************************************************)
LEMMA GateByItself == SafetySpec /\ part = "gate" => GateSpec
<1>1. SafetyInit => GateInit
  BY DEF SafetyInit
<1>2. part = "gate" /\ [SafetyNext]_safetyVars
        => [GateNext]_<<callVars, gateVars>> /\ (part = "gate")'
  BY PartIsChosen
  DEF SafetyNext, VoiceStep, HubStep, GateStep, TasksStep, ClaimsStep, FactsStep,
      CoAuthorsStep, RegistryStep, safetyVars, recordVars
<1> QED
  BY <1>1, <1>2, PTL DEF SafetySpec, GateSpec

LEMMA TasksByItself == SafetySpec /\ part = "tasks" => TasksSpec
<1>1. SafetyInit => TasksInit
  BY DEF SafetyInit
<1>2. part = "tasks" /\ [SafetyNext]_safetyVars
        => [TasksNext]_<<callVars, taskVars>> /\ (part = "tasks")'
  BY PartIsChosen
  DEF SafetyNext, VoiceStep, HubStep, GateStep, TasksStep, ClaimsStep, FactsStep,
      CoAuthorsStep, RegistryStep, safetyVars, recordVars
<1> QED
  BY <1>1, <1>2, PTL DEF SafetySpec, TasksSpec

LEMMA ClaimsByItself == SafetySpec /\ part = "claims" => ClaimsSpec
<1>1. SafetyInit => ClaimsInit
  BY DEF SafetyInit
<1>2. part = "claims" /\ [SafetyNext]_safetyVars
        => [ClaimsNext]_<<callVars, claimsVars>> /\ (part = "claims")'
  BY PartIsChosen
  DEF SafetyNext, VoiceStep, HubStep, GateStep, TasksStep, ClaimsStep, FactsStep,
      CoAuthorsStep, RegistryStep, safetyVars, recordVars
<1> QED
  BY <1>1, <1>2, PTL DEF SafetySpec, ClaimsSpec

LEMMA FactsByItself == SafetySpec /\ part = "facts" => FactsSpec
<1>1. SafetyInit => FactsInit
  BY DEF SafetyInit
<1>2. part = "facts" /\ [SafetyNext]_safetyVars
        => [FactsNext]_<<callVars, factsVars>> /\ (part = "facts")'
  BY PartIsChosen
  DEF SafetyNext, VoiceStep, HubStep, GateStep, TasksStep, ClaimsStep, FactsStep,
      CoAuthorsStep, RegistryStep, safetyVars, recordVars
<1> QED
  BY <1>1, <1>2, PTL DEF SafetySpec, FactsSpec

LEMMA CoAuthorsByItself == SafetySpec /\ part = "coauthors" => CoAuthorsSpec
<1>1. SafetyInit => CoAuthorsInit
  BY DEF SafetyInit
<1>2. part = "coauthors" /\ [SafetyNext]_safetyVars
        => [CoAuthorsNext]_<<callVars, coAuthorVars>> /\ (part = "coauthors")'
  BY PartIsChosen
  DEF SafetyNext, VoiceStep, HubStep, GateStep, TasksStep, ClaimsStep, FactsStep,
      CoAuthorsStep, RegistryStep, safetyVars, recordVars
<1> QED
  BY <1>1, <1>2, PTL DEF SafetySpec, CoAuthorsSpec

LEMMA RegistryByItself == SafetySpec /\ part = "registry" => RegistrySpec
<1>1. SafetyInit => RegistryInit
  BY DEF SafetyInit
<1>2. part = "registry" /\ [SafetyNext]_safetyVars
        => [RegistryNext]_<<callVars, registryVars>> /\ (part = "registry")'
  BY PartIsChosen
  DEF SafetyNext, VoiceStep, HubStep, GateStep, TasksStep, ClaimsStep, FactsStep,
      CoAuthorsStep, RegistryStep, safetyVars, recordVars
<1> QED
  BY <1>1, <1>2, PTL DEF SafetySpec, RegistrySpec

\* A behaviour about a record protocol is a behaviour of that protocol.
THEOREM RecordsByThemselves ==
    SafetySpec =>
        /\ part = "gate" => GateSpec
        /\ part = "tasks" => TasksSpec
        /\ part = "claims" => ClaimsSpec
        /\ part = "facts" => FactsSpec
        /\ part = "coauthors" => CoAuthorsSpec
        /\ part = "registry" => RegistrySpec
  BY GateByItself, TasksByItself, ClaimsByItself, FactsByItself,
     CoAuthorsByItself, RegistryByItself, PTL

\* Every variable of every part keeps its type.
THEOREM PartsTypeCorrect == SafetySpec => []PartsTypeOK
<1>1. SafetySpec => [](part = "gate" => GateTypeOK)
  <2>1. part = "gate" /\ [SafetyNext]_safetyVars => (part = "gate")'
    BY PartIsChosen
  <2>2. ~(part = "gate") /\ [SafetyNext]_safetyVars => (~(part = "gate"))'
    BY PartIsChosen
  <2> QED
    BY <2>1, <2>2, GateByItself, GateTypeCorrect, PTL DEF SafetySpec
<1>2. SafetySpec => [](part = "tasks" => TasksTypeOK)
  <2>1. part = "tasks" /\ [SafetyNext]_safetyVars => (part = "tasks")'
    BY PartIsChosen
  <2>2. ~(part = "tasks") /\ [SafetyNext]_safetyVars => (~(part = "tasks"))'
    BY PartIsChosen
  <2> QED
    BY <2>1, <2>2, TasksByItself, TasksTypeCorrect, PTL DEF SafetySpec
<1>3. SafetySpec => [](part = "claims" => ClaimsTypeOK)
  <2>1. part = "claims" /\ [SafetyNext]_safetyVars => (part = "claims")'
    BY PartIsChosen
  <2>2. ~(part = "claims") /\ [SafetyNext]_safetyVars => (~(part = "claims"))'
    BY PartIsChosen
  <2> QED
    BY <2>1, <2>2, ClaimsByItself, ClaimsTypeCorrect, PTL DEF SafetySpec
<1>4. SafetySpec => [](part = "facts" => FactsTypeOK)
  <2>1. part = "facts" /\ [SafetyNext]_safetyVars => (part = "facts")'
    BY PartIsChosen
  <2>2. ~(part = "facts") /\ [SafetyNext]_safetyVars => (~(part = "facts"))'
    BY PartIsChosen
  <2> QED
    BY <2>1, <2>2, FactsByItself, FactsTypeCorrect, PTL DEF SafetySpec
<1>5. SafetySpec => [](part = "coauthors" => CoAuthorsTypeOK)
  <2>1. part = "coauthors" /\ [SafetyNext]_safetyVars => (part = "coauthors")'
    BY PartIsChosen
  <2>2. ~(part = "coauthors") /\ [SafetyNext]_safetyVars => (~(part = "coauthors"))'
    BY PartIsChosen
  <2> QED
    BY <2>1, <2>2, CoAuthorsByItself, CoAuthorsTypeCorrect, PTL DEF SafetySpec
<1>6. SafetySpec => [](part = "registry" => RegistryTypeOK)
  <2>1. part = "registry" /\ [SafetyNext]_safetyVars => (part = "registry")'
    BY PartIsChosen
  <2>2. ~(part = "registry") /\ [SafetyNext]_safetyVars => (~(part = "registry"))'
    BY PartIsChosen
  <2> QED
    BY <2>1, <2>2, RegistryByItself, RegistryTypeCorrect, PTL DEF SafetySpec
<1>7. /\ TypeOK /\ HubTypeOK
      /\ part = "gate" => GateTypeOK
      /\ part = "tasks" => TasksTypeOK
      /\ part = "claims" => ClaimsTypeOK
      /\ part = "facts" => FactsTypeOK
      /\ part = "coauthors" => CoAuthorsTypeOK
      /\ part = "registry" => RegistryTypeOK
      => PartsTypeOK
  BY DEF PartsTypeOK
<1> QED
  BY <1>1, <1>2, <1>3, <1>4, <1>5, <1>6, <1>7, VoiceByItself, TypeCorrect,
     HubByItself, HubTypeCorrect, PTL
=============================================================================
