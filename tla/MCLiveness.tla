----------------------------- MODULE MCLiveness -----------------------------
(***************************************************************************)
(* The instances that TLC explores of the parts of which liveness is       *)
(* checked too: pairing, the terminal with the relay under it, and the     *)
(* agents that follow their desires.  As in MCSafety, a behaviour is one   *)
(* of one part, chosen at the start, and the fairness of a part is asked   *)
(* of its own behaviours only.                                             *)
(***************************************************************************)
EXTENDS Pairing, Terminal, Agents, TLC

CONSTANT Parts      \* the parts that are explored

VARIABLE part       \* the one that this behaviour is about

livenessVars == <<part, pairingVars, vars, agentVars>>

LivenessInit ==
    /\ part \in Parts
    /\ PairingInit /\ Init /\ AgentsInit

PairingStep ==
    /\ part = "pairing" /\ PairingNext
    /\ UNCHANGED <<part, vars, agentVars>>

TerminalStep ==
    /\ part = "terminal" /\ Next
    /\ UNCHANGED <<part, pairingVars, agentVars>>

AgentsStep ==
    /\ part = "agents" /\ AgentsNext
    /\ UNCHANGED <<part, pairingVars, vars>>

LivenessNext == PairingStep \/ TerminalStep \/ AgentsStep

LivenessSpec == LivenessInit /\ [][LivenessNext]_livenessVars

LivenessFairSpec ==
    /\ LivenessSpec
    /\ part = "pairing" => PairingFairness
    /\ part = "terminal" => Fairness
    /\ part = "agents" => AgentsFairness
-----------------------------------------------------------------------------
\* The type invariants of the parts.
PartsTypeOK == PairingTypeOK /\ TypeOK /\ AgentsTypeOK
=============================================================================
