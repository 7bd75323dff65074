------------------------------ MODULE Requests ------------------------------
(***************************************************************************)
(* Requests to the plugin's handlers, as the record protocols of Agora use *)
(* them (proposals.go, orchestrator.go, claims.go, memory.go and           *)
(* codespace.go under server/).  A handler runs in a goroutine of its own, *)
(* and each Get, Set, Delete or ListKeys of the KV store is one atomic     *)
(* step of it; nothing is locked between two of them.  A call is one such  *)
(* request: what it does, how far it has come, the key it is about, the    *)
(* user it speaks for and what it has read.                                *)
(***************************************************************************)
EXTENDS Naturals

CONSTANTS
    Call,       \* the requests under way at one time
    MaxCalls,   \* bound: requests in one behaviour
    MaxLapses   \* bound: failing KV operations and restarts of the plugin

ASSUME CallsOK == MaxCalls \in Nat /\ MaxLapses \in Nat

VARIABLES
    call,       \* per slot: the request in it
    ncalls,     \* requests so far
    lapses      \* failures so far

callVars == <<call, ncalls, lapses>>

Free == [op |-> "none", at |-> "free", on |-> "nothing", by |-> "nobody",
         got |-> "nothing"]

CallsInit ==
    /\ call = [c \in Call |-> Free]
    /\ ncalls = 0 /\ lapses = 0

\* The handler is entered and comes to its first step.
Arrive(c, op, at, on, by, got) ==
    /\ call[c].at = "free" /\ ncalls < MaxCalls
    /\ ncalls' = ncalls + 1
    /\ call' = [call EXCEPT ![c] = [op |-> op, at |-> at, on |-> on,
                                    by |-> by, got |-> got]]

At(c, op, at) == call[c].op = op /\ call[c].at = at

Goes(c, at, got) ==
    call' = [call EXCEPT ![c] = [op |-> @.op, at |-> at, on |-> @.on,
                                 by |-> @.by, got |-> got]]

\* The request is answered, whatever the answer.
Ends(c) == call' = [call EXCEPT ![c] = Free]

Lapse == lapses < MaxLapses /\ lapses' = lapses + 1

\* The plugin is restarted: requests under way stop where they are.
CallsCutOff ==
    /\ Lapse
    /\ \E c \in Call : call[c].at # "free"
    /\ call' = [c \in Call |-> Free]
    /\ UNCHANGED ncalls
=============================================================================
