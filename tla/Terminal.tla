------------------------------ MODULE Terminal ------------------------------
(***************************************************************************)
(* The terminal of a codespace (server/codespace_term.go): each member's   *)
(* commands are run on the host through the relay, shell commands one at a *)
(* time under the codespace's lock, prompts for the host's AI beside them; *)
(* the member's working directory and the audit log are written after the  *)
(* lock is released.                                                       *)
(*                                                                         *)
(* A command is a request of Relay.  A member may send one while another   *)
(* of theirs is under way: the handler does not ask, and the panel's       *)
(* running flag (TerminalPanel.tsx) is gone when the panel is closed and   *)
(* opened again.  The gates before the command is accepted change no state *)
(* and are left out, and the reads of the KV store are taken to succeed.   *)
(***************************************************************************)
EXTENDS Relay

CONSTANTS
    Member,     \* the members of the codespace
    Dir,        \* directories below the codespace's root, and the root
    Root,
    MaxAudit    \* entries the audit log keeps (maxAuditEntries)

ASSUME RootOK == Root \in Dir
ASSUME MaxAuditOK == MaxAudit \in Nat \ {0}

NoMember == "nobody"
ASSUME NoMemberOK == NoMember \notin Member

VARIABLES
    at,         \* how far a command's handler has come
    who,        \* the member who sent it
    kind,       \* what it is
    cwd,        \* per member: the working directory in the KV store
    loaded,     \* the directory a handler has read before queueing
    back,       \* the directory the host says the session is in now
    lock,       \* the command that holds the codespace's lock
    audit,      \* the audit log
    seen,       \* the log as a handler has read it, to append to it
    beside      \* history: the commands that had their directory loaded beside
                \* another command of the same member

termVars == <<at, who, kind, cwd, loaded, back, lock, audit, seen,
              beside>>
vars == <<relayVars, termVars>>

TypeOK ==
    /\ RelayTypeOK
    /\ at \in [Req -> {"idle", "queued", "running", "ran", "saved", "auditing",
                       "done", "failed"}]
    /\ who \in [Req -> Member \cup {NoMember}]
    /\ kind \in [Req -> {"cd", "shell", "ai"}]
    /\ cwd \in [Member -> Dir]
    /\ loaded \in [Req -> Dir]
    /\ back \in [Req -> Dir]
    /\ lock \in Req \cup {NoReq}
    /\ audit \in Seq(Req)
    /\ seen \in [Req -> Seq(Req)]
    /\ Len(audit) <= MaxAudit
    /\ beside \subseteq Req

Init ==
    /\ RelayInit
    /\ at = [r \in Req |-> "idle"]
    /\ who = [r \in Req |-> NoMember]
    /\ kind = [r \in Req |-> "shell"]
    /\ cwd = [m \in Member |-> Root]
    /\ loaded = [r \in Req |-> Root]
    /\ back = [r \in Req |-> Root]
    /\ lock = NoReq
    /\ audit = <<>>
    /\ seen = [r \in Req |-> <<>>]
    /\ beside = {}

\* The handler has loaded the session's directory and not saved it yet.
InSession(r) == at[r] \in {"queued", "running", "ran"}

-----------------------------------------------------------------------------
\* handleTerm.

\* The command arrives; the working directory is loaded before the lock.
Submit(r, m, k) ==
    /\ at[r] = "idle"
    /\ at' = [at EXCEPT ![r] = "queued"]
    /\ who' = [who EXCEPT ![r] = m]
    /\ kind' = [kind EXCEPT ![r] = k]
    /\ loaded' = [loaded EXCEPT ![r] = cwd[m]]
    /\ LET others == {q \in Req : who[q] = m /\ InSession(q)}
       IN  beside' = beside \cup (IF others = {} THEN {} ELSE others \cup {r})
    /\ UNCHANGED <<relayVars, cwd, back, lock, audit, seen>>

StartShell_PerMember(r) ==   \* mutant: the lock's key names the member too
    /\ at[r] = "queued" /\ kind[r] # "ai"
    /\ lock # NoReq => who[lock] # who[r]
    /\ lock' = r
    /\ Ask(r)
    /\ at' = [at EXCEPT ![r] = "running"]
    /\ UNCHANGED <<who, kind, cwd, loaded, back, audit, seen, beside>>

\* A shell command waits for the codespace's lock, and is relayed under it.
StartShell(r) ==
    /\ at[r] = "queued" /\ kind[r] # "ai"
    /\ lock = NoReq
    /\ lock' = r
    /\ Ask(r)
    /\ at' = [at EXCEPT ![r] = "running"]
    /\ UNCHANGED <<who, kind, cwd, loaded, back, audit, seen, beside>>

\* A prompt does not.
StartAI(r) ==
    /\ at[r] = "queued" /\ kind[r] = "ai"
    /\ Ask(r)
    /\ at' = [at EXCEPT ![r] = "running"]
    /\ UNCHANGED <<who, kind, cwd, loaded, back, lock, audit, seen, beside>>

\* What the host does: it falls back to the root when the directory is gone,
\* and only cd, if it succeeds, moves the session.
RunOnHost(r) ==
    /\ Execute(r)
    /\ \E d \in {loaded[r], Root}, t \in Dir :
        back' = [back EXCEPT ![r] = IF kind[r] = "cd" THEN t ELSE d]
    /\ UNCHANGED <<at, who, kind, cwd, loaded, lock, audit, seen, beside>>

Unlock_OnSuccess(r, ok) ==   \* mutant: unlocked after the error return
    lock' = IF lock = r /\ ok THEN NoReq ELSE lock

\* The lock is released as soon as relayOp returns.
Unlock(r, ok) == lock' = IF lock = r THEN NoReq ELSE lock

Answered(r) ==
    /\ at[r] = "running"
    /\ Return(r)
    /\ Unlock(r, TRUE)
    /\ at' = [at EXCEPT ![r] = IF kind[r] = "ai" THEN "saved" ELSE "ran"]
    /\ UNCHANGED <<who, kind, cwd, loaded, back, audit, seen, beside>>

\* The host answers that it cannot run it: nothing is saved or audited.
Refused(r) ==
    /\ at[r] = "running"
    /\ Return(r)
    /\ Unlock(r, TRUE)
    /\ at' = [at EXCEPT ![r] = "failed"]
    /\ UNCHANGED <<who, kind, cwd, loaded, back, audit, seen, beside>>

\* Nor is a command that was given up.
TimedOut(r) ==
    /\ at[r] = "running"
    /\ GiveUp(r)
    /\ Unlock(r, FALSE)
    /\ at' = [at EXCEPT ![r] = "failed"]
    /\ UNCHANGED <<who, kind, cwd, loaded, back, audit, seen, beside>>

SaveCwd_Shared(r) ==   \* mutant: the key does not name the member
    /\ at[r] = "ran"
    /\ cwd' = [m \in Member |-> back[r]]
    /\ at' = [at EXCEPT ![r] = "saved"]
    /\ UNCHANGED <<relayVars, who, kind, loaded, back, lock, audit, seen, beside>>

SaveCwd(r) ==
    /\ at[r] = "ran"
    /\ cwd' = [cwd EXCEPT ![who[r]] = back[r]]
    /\ at' = [at EXCEPT ![r] = "saved"]
    /\ UNCHANGED <<relayVars, who, kind, loaded, back, lock, audit, seen, beside>>

\* The KV write fails: logged, and the command goes on.
SaveCwdFails(r) ==
    /\ at[r] = "ran"
    /\ Fault
    /\ at' = [at EXCEPT ![r] = "saved"]
    /\ UNCHANGED <<bridgeVars, up, queue, busy, ran>>
    /\ UNCHANGED <<who, kind, cwd, loaded, back, lock, audit, seen, beside>>

\* appendAudit reads the log ...
ReadAudit(r) ==
    /\ at[r] = "saved"
    /\ seen' = [seen EXCEPT ![r] = audit]
    /\ at' = [at EXCEPT ![r] = "auditing"]
    /\ UNCHANGED <<relayVars, who, kind, cwd, loaded, back, lock, audit, beside>>

KeepRecent_None(log) == log   \* mutant: the log is not cut

KeepRecent(log) ==
    IF Len(log) > MaxAudit
    THEN SubSeq(log, Len(log) - MaxAudit + 1, Len(log))
    ELSE log

\* ... and writes it back with the command, whatever was written in between.
WriteAudit(r) ==
    /\ at[r] = "auditing"
    /\ audit' = KeepRecent(Append(seen[r], r))
    /\ seen' = [seen EXCEPT ![r] = <<>>]
    /\ at' = [at EXCEPT ![r] = "done"]
    /\ UNCHANGED <<relayVars, who, kind, cwd, loaded, back, lock, beside>>

Next ==
    \/ HostNext /\ UNCHANGED termVars
    \/ \E r \in Req :
        \/ \E m \in Member, k \in {"cd", "shell", "ai"} : Submit(r, m, k)
        \/ StartShell(r) \/ StartAI(r) \/ RunOnHost(r)
        \/ Answered(r) \/ Refused(r) \/ TimedOut(r)
        \/ SaveCwd(r) \/ SaveCwdFails(r) \/ ReadAudit(r) \/ WriteAudit(r)

Spec == Init /\ [][Next]_vars

\* Handlers run on and timeouts fire.  Go's mutex lets no waiter starve.
\* Nothing is assumed of the host, which may never answer.
Fairness ==
    \A r \in Req :
        /\ SF_vars(StartShell(r)) /\ WF_vars(StartAI(r))
        /\ WF_vars(Answered(r)) /\ WF_vars(TimedOut(r))
        /\ WF_vars(SaveCwd(r)) /\ WF_vars(ReadAudit(r)) /\ WF_vars(WriteAudit(r))

FairSpec == Spec /\ Fairness

-----------------------------------------------------------------------------
\* "Command execution is serialized per codespace": only one shell command of
\* all the members is with the host and waited for at a time.
Serialized ==
    \A q, r \in Req :
        /\ waiter[q] = "waiting" /\ waiter[r] = "waiting"
        /\ kind[q] # "ai" /\ kind[r] # "ai"
        => q = r

\* "Each member gets their own shell session": the directory a waiting command
\* loaded before it queued is still the member's when it gets the lock and
\* runs, however many commands of others ran and moved in between.  Only
\* beside another command of the same member can it be stale.
OwnSession ==
    \A r \in Req : InSession(r) /\ r \notin beside => loaded[r] = cwd[who[r]]

\* Every command a member sends is answered or refused in the end, although
\* the host may be away, the answer lost, and others queue for the same lock.
EveryCommandEnds ==
    \A r \in Req : at[r] # "idle" ~> at[r] \in {"done", "failed"}

\* "Every command is written to an append-only audit log": what the host has
\* run is in the log once its handler is through, up to the log's cap.
EveryCommandAudited ==
    \A r \in Req :
        /\ r \in ran /\ at[r] \in {"done", "failed"}
        /\ Len(audit) < MaxAudit
        => \E i \in 1..Len(audit) : audit[i] = r
=============================================================================
