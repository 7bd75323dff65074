------------------------------- MODULE Agents -------------------------------
(***************************************************************************)
(* Connecting and disconnecting agents (server/agents.go) and the host     *)
(* process that follows (connector/host.py).  The dashboard sets a desire  *)
(* per agent; the host polls the desires of its owner every three seconds, *)
(* remembers the last answer, and starts or terminates the connectors;     *)
(* each connector sends heartbeats, by which the dashboard shows an agent  *)
(* as online.  One owner, one host; an agent stands for its bot.           *)
(***************************************************************************)
EXTENDS Naturals

CONSTANTS
    Agt,            \* the owner's agents
    MaxDesires,     \* bound: changes of a desire
    MaxUpsets       \* bound: failing requests, crashes and restarts

ASSUME AgentsOK == MaxDesires \in Nat /\ MaxUpsets \in Nat

VARIABLES
    desire,     \* the desire_ keys; "run" when there is none
    beat,       \* the hb_ keys: none, fresh (within hbFreshMs) or stale
    clearing,   \* agents whose stop is stored and heartbeat not yet deleted
    hostUp,     \* the host is running
    known,      \* its last: per agent the desire in the last answer
    toVisit,    \* agents the loop has not come to since its poll
    proc,       \* agents whose connector the host has started and sees alive
    ending,     \* agents with a connector that was terminated and still runs
    orphan,     \* agents with a connector whose host has crashed
    beating,    \* agents with a heartbeat under way
    told,       \* history: the last desires the host was told of since it
                \* was started
    changes, upsets

agentVars == <<desire, beat, clearing, hostUp, known, toVisit, proc, ending,
               orphan, beating, told, changes, upsets>>

Desire == {"run", "stop"}
AllRun == [a \in Agt |-> "run"]

AgentsTypeOK ==
    /\ desire \in [Agt -> Desire]
    /\ beat \in [Agt -> {"none", "fresh", "stale"}]
    /\ clearing \subseteq Agt
    /\ hostUp \in BOOLEAN /\ known \in [Agt -> Desire]
    /\ toVisit \subseteq Agt /\ proc \subseteq Agt /\ ending \subseteq Agt
    /\ orphan \subseteq Agt /\ beating \subseteq Agt
    /\ told \in [Agt -> Desire]
    /\ changes \in Nat /\ upsets \in Nat

AgentsInit ==
    /\ desire = AllRun
    /\ beat = [a \in Agt |-> "none"]
    /\ clearing = {} /\ hostUp = FALSE /\ known = AllRun /\ toVisit = {}
    /\ proc = {} /\ ending = {} /\ orphan = {} /\ beating = {}
    /\ told = AllRun
    /\ changes = 0 /\ upsets = 0

Upset == upsets < MaxUpsets /\ upsets' = upsets + 1

-----------------------------------------------------------------------------
\* The plugin.

\* handleSetDesire up to the write.
SetDesire(a, want) ==
    /\ changes < MaxDesires
    /\ changes' = changes + 1
    /\ desire' = [desire EXCEPT ![a] = want]
    /\ clearing' = IF want = "stop" THEN clearing \cup {a} ELSE clearing
    /\ UNCHANGED <<beat, hostUp, known, toVisit, proc, ending, orphan, beating,
                   told, upsets>>

\* A stop deletes the heartbeat; it is of no consequence when that fails.
ClearBeat(a) ==
    /\ a \in clearing
    /\ clearing' = clearing \ {a}
    /\ \/ beat' = [beat EXCEPT ![a] = "none"] /\ UNCHANGED upsets
       \/ Upset /\ UNCHANGED beat
    /\ UNCHANGED <<desire, hostUp, known, toVisit, proc, ending, orphan, beating,
                   told, changes>>

\* handleHeartbeat.
BeatArrives(a) ==
    /\ a \in beating
    /\ beating' = beating \ {a}
    /\ \/ beat' = [beat EXCEPT ![a] = "fresh"] /\ UNCHANGED upsets
       \/ Upset /\ UNCHANGED beat
    /\ UNCHANGED <<desire, clearing, hostUp, known, toVisit, proc, ending,
                   orphan, told, changes>>

\* online: 45 seconds; the key expires after 90.
BeatAges(a) ==
    /\ beat[a] # "none"
    /\ beat' = [beat EXCEPT ![a] = IF beat[a] = "fresh" THEN "stale" ELSE "none"]
    /\ UNCHANGED <<desire, clearing, hostUp, known, toVisit, proc, ending,
                   orphan, beating, told, changes, upsets>>

-----------------------------------------------------------------------------
\* The host.

Unreachable_FailOpen == known' = AllRun   \* mutant: nothing is remembered

\* get_desires returns None.
Unreachable == UNCHANGED known

\* handleHostDesires: an agent whose owner link or desire cannot be read is
\* answered as one that shall run.
HostDesires(unread) == [a \in Agt |-> IF a \in unread THEN "run" ELSE desire[a]]

PollDesires ==
    /\ hostUp /\ toVisit = {}
    /\ toVisit' = Agt
    /\ \/ known' = HostDesires({}) /\ told' = known' /\ UNCHANGED upsets
       \/ /\ Upset
          /\ \E unread \in SUBSET Agt : known' = HostDesires(unread)
          /\ told' = known'
       \/ Upset /\ Unreachable /\ UNCHANGED told
    /\ UNCHANGED <<desire, beat, clearing, hostUp, proc, ending, orphan, beating,
                   changes>>

StopProc_Kept(a) == UNCHANGED <<proc, ending, orphan>>   \* mutant: the process is not terminated

\* stop(): the process leaves procs and is sent SIGTERM.
StopProc(a) == proc' = proc \ {a} /\ ending' = ending \cup {a} /\ UNCHANGED orphan

\* One turn of the loop over the agents.
Reconcile(a) ==
    /\ hostUp /\ a \in toVisit
    /\ toVisit' = toVisit \ {a}
    /\ \/ /\ known[a] = "run" /\ a \notin proc
          /\ proc' = proc \cup {a} /\ UNCHANGED <<ending, orphan>>
       \/ known[a] = "stop" /\ a \in proc /\ StopProc(a)
       \/ /\ known[a] = "run" <=> a \in proc
          /\ UNCHANGED <<proc, ending, orphan>>
    /\ UNCHANGED <<desire, beat, clearing, hostUp, known, beating, told,
                   changes, upsets>>

\* python host.py; last is empty, which stands for run.
HostStarts ==
    /\ ~hostUp
    /\ hostUp' = TRUE /\ known' = AllRun /\ told' = AllRun /\ toVisit' = {}
    /\ UNCHANGED <<desire, beat, clearing, proc, ending, orphan, beating, changes,
                   upsets>>

\* Ctrl+C terminates the connectors; a crash leaves them running.
HostStops ==
    /\ hostUp /\ Upset
    /\ hostUp' = FALSE
    /\ proc' = {}
    /\ \/ ending' = ending \cup proc /\ UNCHANGED orphan
       \/ orphan' = orphan \cup proc /\ UNCHANGED ending
    /\ UNCHANGED <<desire, beat, clearing, known, toVisit, beating, told,
                   changes>>

-----------------------------------------------------------------------------
\* The connectors.

\* heartbeat_loop, every twenty seconds.
SendBeat(a) ==
    /\ a \in proc \cup ending \cup orphan
    /\ a \notin beating
    /\ beating' = beating \cup {a}
    /\ UNCHANGED <<desire, beat, clearing, hostUp, known, toVisit, proc, ending,
                   orphan, told, changes, upsets>>

\* A terminated connector ends.
ProcEnds(a) ==
    /\ a \in ending
    /\ ending' = ending \ {a}
    /\ UNCHANGED <<desire, beat, clearing, hostUp, known, toVisit, proc, orphan,
                   beating, told, changes, upsets>>

ProcCrashes(a) ==
    /\ a \in proc /\ Upset
    /\ proc' = proc \ {a}
    /\ UNCHANGED <<desire, beat, clearing, hostUp, known, toVisit, ending, orphan,
                   beating, told, changes>>

-----------------------------------------------------------------------------
AgentsNext ==
    \/ PollDesires \/ HostStarts \/ HostStops
    \/ \E a \in Agt :
         \/ \E want \in Desire : SetDesire(a, want)
         \/ ClearBeat(a) \/ BeatArrives(a) \/ BeatAges(a)
         \/ Reconcile(a) \/ SendBeat(a) \/ ProcEnds(a) \/ ProcCrashes(a)

AgentsSpec == AgentsInit /\ [][AgentsNext]_agentVars

\* The loop turns while the host is up, handlers end, time passes and
\* terminated processes end.  Nobody need start the host or change a desire.
AgentsFairness ==
    /\ WF_agentVars(PollDesires)
    /\ \A a \in Agt :
         /\ WF_agentVars(Reconcile(a))
         /\ WF_agentVars(BeatArrives(a)) /\ WF_agentVars(BeatAges(a))
         /\ WF_agentVars(ProcEnds(a))

-----------------------------------------------------------------------------
(* A connector is started only for an agent of which the last answer since *)
(* the host was started did not say stop, however long the room has been   *)
(* out of reach (host.py:116, "fail CLOSED").                              *)
StopRemembered ==
    [][\A a \in Agt : a \in proc' \ proc => told[a] = "run"]_agentVars

(* Under a host that stays up, an agent whose desire settles on run is     *)
(* running in the end, and one whose desire settles on stop is not, and    *)
(* shows offline, unless a crashed host has left its connector behind.     *)
FollowsDesire ==
    \A a \in Agt :
        /\ <>[](hostUp /\ desire[a] = "run") => <>[](a \in proc)
        /\ <>[](hostUp /\ desire[a] = "stop") =>
             <>[](a \notin proc /\ (a \notin orphan => beat[a] # "fresh"))
=============================================================================
