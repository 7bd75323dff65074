-------------------------------- MODULE Relay --------------------------------
(***************************************************************************)
(* The bridge between a browser's request and the machine that hosts a     *)
(* codespace: relayOp and csBridge (server/codespace_fs.go) on the         *)
(* plugin's side, and the connector of the host (connector/connector.py),  *)
(* which takes one event after the other from its WebSocket and posts each *)
(* result back before it takes the next.                                   *)
(*                                                                         *)
(* A request is one call of relayOp.  What the operation does on the host  *)
(* is left to the module that relays it.                                   *)
(***************************************************************************)
EXTENDS Naturals, Sequences

CONSTANTS
    Req,        \* the operations relayed
    MaxFaults   \* bound: dropped sockets and lost answers in one behaviour

NoReq == "no request"
ASSUME NoReqOK == NoReq \notin Req
ASSUME FaultsOK == MaxFaults \in Nat

VARIABLES
    waiter,     \* per request: the life of its relayOp
    pending,    \* the requests the bridge has a channel for
    chan,       \* the requests whose channel holds a result
    up,         \* the connector is connected
    queue,      \* codespace_req events on the connector's socket
    busy,       \* the request the connector is serving
    ran,        \* the requests the host has executed
    faults      \* dropped sockets and lost answers so far

bridgeVars == <<waiter, pending, chan>>
hostVars   == <<up, queue, busy, ran, faults>>
relayVars  == <<bridgeVars, hostVars>>

RelayTypeOK ==
    /\ waiter \in [Req -> {"none", "waiting", "answered", "timedout"}]
    /\ pending \subseteq Req
    /\ chan \subseteq Req
    /\ up \in BOOLEAN
    /\ queue \in Seq(Req)
    /\ busy \in Req \cup {NoReq}
    /\ ran \subseteq Req
    /\ faults \in Nat

RelayInit ==
    /\ waiter = [r \in Req |-> "none"]
    /\ pending = {} /\ chan = {}
    /\ up = TRUE /\ queue = <<>> /\ busy = NoReq /\ ran = {}
    /\ faults = 0

Fault == faults < MaxFaults /\ faults' = faults + 1

\* relayOp: register, then publish; the event is lost if nobody is connected.
Ask(r) ==
    /\ waiter[r] = "none"
    /\ waiter' = [waiter EXCEPT ![r] = "waiting"]
    /\ pending' = pending \cup {r}
    /\ queue' = IF up THEN Append(queue, r) ELSE queue
    /\ UNCHANGED <<chan, up, busy, ran, faults>>

\* The result comes out of the channel ...
Return(r) ==
    /\ waiter[r] = "waiting" /\ r \in chan
    /\ waiter' = [waiter EXCEPT ![r] = "answered"]
    /\ chan' = chan \ {r}
    /\ UNCHANGED <<pending, hostVars>>

GiveUp_Leak(r) ==   \* mutant: the entry is not cancelled
    /\ waiter[r] = "waiting"
    /\ waiter' = [waiter EXCEPT ![r] = "timedout"]
    /\ UNCHANGED <<pending, chan, hostVars>>

\* ... or the timeout fires first, even when the result has just arrived.
GiveUp(r) ==
    /\ waiter[r] = "waiting"
    /\ waiter' = [waiter EXCEPT ![r] = "timedout"]
    /\ pending' = pending \ {r}
    /\ UNCHANGED <<chan, hostVars>>

\* The connector's loop takes the next event.
Take ==
    /\ busy = NoReq /\ queue # <<>>
    /\ busy' = Head(queue)
    /\ queue' = Tail(queue)
    /\ UNCHANGED <<bridgeVars, up, ran, faults>>

\* codespace_op, whether or not somebody still waits for it.
Execute(r) ==
    /\ busy = r /\ r \notin ran
    /\ ran' = ran \cup {r}
    /\ UNCHANGED <<bridgeVars, up, queue, busy, faults>>

Resolve_Any(r) ==   \* mutant: whoever waits gets it
    \/ \E q \in pending : chan' = chan \cup {q} /\ pending' = pending \ {q}
    \/ pending = {} /\ UNCHANGED <<pending, chan>>

\* csBridge.resolve: a result nobody waits for any more is dropped.
Resolve(r) ==
    /\ pending' = pending \ {r}
    /\ chan' = IF r \in pending THEN chan \cup {r} ELSE chan

\* The result is posted, and handleCodespaceOpResponse resolves it.
Respond(r) ==
    /\ busy = r /\ r \in ran
    /\ Resolve(r)
    /\ busy' = NoReq
    /\ UNCHANGED <<waiter, up, queue, ran, faults>>

\* The post fails; the connector goes on.
RespondFails(r) ==
    /\ busy = r /\ r \in ran
    /\ Fault
    /\ busy' = NoReq
    /\ UNCHANGED <<bridgeVars, up, queue, ran>>

\* The socket drops with what is on it; an operation under way is finished.
DropLink ==
    /\ up /\ Fault
    /\ up' = FALSE
    /\ queue' = <<>>
    /\ UNCHANGED <<bridgeVars, busy, ran>>

\* The loop reconnects once the operation is finished.
Relink ==
    /\ ~up /\ busy = NoReq
    /\ up' = TRUE
    /\ UNCHANGED <<bridgeVars, queue, busy, ran, faults>>

\* The part of the host that is the same for every operation.
HostNext ==
    \/ Take \/ DropLink \/ Relink
    \/ \E r \in Req : Respond(r) \/ RespondFails(r)

-----------------------------------------------------------------------------
\* The bridge keeps a channel exactly as long as somebody waits on it without
\* an answer: nothing leaks, whichever of the answer and the timeout is first.
NoEntryLeft == pending = {r \in Req : waiter[r] = "waiting" /\ r \notin chan}

\* Only the request an answer belongs to gets it, and only after the host has
\* executed it, whatever else is relayed at the same time.
AnsweredWasRun == \A r \in Req : waiter[r] = "answered" => r \in ran
=============================================================================
