------------------------------ MODULE LiveDoc ------------------------------
(***************************************************************************)
(* One live document of a codespace: the plugin's doc hub                  *)
(* (server/codespace_doc.go), the editor sessions of the browsers          *)
(* (webapp/src/yprovider.ts, CodespacePanel.tsx) and the file on the       *)
(* host's disk that the document is seeded from and flushed to.            *)
(*                                                                         *)
(* A session is one RoomProvider: one opening of the file, with a Yjs      *)
(* client id of its own; reopening the file is another session.  The hub   *)
(* never parses a Yjs update, so an update is the set of operations it     *)
(* carries: applying it is set union.  <<s, 0>> is the insertion of the    *)
(* disk's content by a seeder s, <<s, n>> the n-th edit made in s.  Yjs    *)
(* keeps an operation pending until the earlier ones of the same client    *)
(* have arrived: the text shows the Integrated operations only.            *)
(***************************************************************************)
EXTENDS Naturals, FiniteSets

CONSTANTS
    Session,        \* the openings of the document
    MaxOps,         \* bound: edits made in one session
    MaxEdits,       \* bound: edits made in all sessions together
    MaxDocUpdates,  \* length at which the hub refuses to append (maxDocUpdates)
    MaxFlushes,     \* bound: no flush is sent once so many have been
    MaxSaves,       \* bound: no save by hand once so many flushes have been sent
    Faults,         \* the kinds of failure the model allows, and closing a tab
    MaxFaults,      \* bound: failures and closings in one behaviour
    Base            \* what the file on disk holds before anyone opens it

FaultKind == {"kvread", "kvwrite", "open", "read", "post", "flush", "link",
              "restart", "close"}

ASSUME ConstantsOK ==
    /\ MaxOps \in Nat /\ MaxEdits \in Nat
    /\ MaxDocUpdates \in Nat \ {0} /\ MaxFlushes \in Nat /\ MaxSaves \in Nat
    /\ MaxFaults \in Nat
    /\ Faults \subseteq FaultKind
    /\ Base \notin Session \X (0..MaxOps)   \* what was there before is no edit

VARIABLES
    exists,     \* the docRecord is in the KV store
    log,        \* the operations in the record's updates
    nlog,       \* the number of updates in the record
    posts,      \* POST /codespace/doc/update requests on their way to the hub
    bcast,      \* accepted updates the handler has not published yet
    status,     \* life of a session's provider
    doc,        \* operations a session's Y.Doc has received
    issued,     \* operations made so far
    call,       \* per session: its /codespace/doc/open request, and resync's
    inbox,      \* cs_doc_update events on their way to a session
    conn,       \* the session's WebSocket is up
    synced,     \* the session asked for the log since it last missed events
    timer,      \* the session's debounced flush is scheduled
    flushes,    \* POST /codespace/doc/flush requests
    content,    \* what the session read from the disk for seeding
    disk,       \* what the file on the host holds
    nflush,     \* flush requests sent so far
    faults      \* failures and closings so far

hubVars    == <<exists, log, nlog, bcast>>
clientVars == <<status, doc, issued, content>>
diskVars   == <<timer, flushes, disk, nflush>>
vars == <<exists, log, nlog, posts, bcast, status, doc, issued, call, inbox,
          conn, synced, timer, flushes, content, disk, nflush, faults>>

Op    == Session \X (0..MaxOps)
Piece == Op \cup {Base}

Update == [from : Session, ops : SUBSET Op, replace : BOOLEAN]
Flush  == [from : Session, text : SUBSET Piece,
           at : {"relayed", "written", "timedout"}]
Call   == [st : {"idle", "asked", "answered"}, seed : BOOLEAN, ops : SUBSET Op]
Idle   == [st |-> "idle", seed |-> FALSE, ops |-> {}]
Asked  == [st |-> "asked", seed |-> FALSE, ops |-> {}]

TypeOK ==
    /\ exists \in BOOLEAN
    /\ log \subseteq Op
    /\ nlog \in 0..MaxDocUpdates
    /\ posts \subseteq Update
    /\ bcast \subseteq Update
    /\ status \in [Session -> {"new", "opening", "reading", "seeding",
                               "open", "closed"}]
    /\ doc \in [Session -> SUBSET Op]
    /\ issued \subseteq Op
    /\ call \in [Session -> [{"open", "resync"} -> Call]]
    /\ inbox \in [Session -> SUBSET SUBSET Op]
    /\ conn \in [Session -> BOOLEAN]
    /\ synced \in [Session -> BOOLEAN]
    /\ timer \in [Session -> BOOLEAN]
    /\ flushes \subseteq Flush
    /\ content \in [Session -> SUBSET Piece]
    /\ disk \subseteq Piece
    /\ nflush \in Nat
    /\ faults \in Nat

\* The provider is in the page's table of providers: events are routed to it.
Registered(s) == status[s] \in {"opening", "reading", "seeding", "open"}

Integrated(ops) ==
    {o \in ops : \A m \in 0..MaxOps :
                    m < o[2] /\ <<o[1], m>> \in issued => <<o[1], m>> \in ops}

\* What Y.Text shows: the integrated edits and the disk contents inserted.
Text(ops) ==
    LET seen == Integrated(ops)
    IN  seen \cup UNION {content[s] : s \in {t \in Session : <<t, 0>> \in seen}}

Fault(kind) ==
    /\ kind \in Faults
    /\ faults < MaxFaults
    /\ faults' = faults + 1

\* Nobody has opened the document.
Fresh ==
    /\ exists = FALSE /\ log = {} /\ nlog = 0
    /\ posts = {} /\ bcast = {}
    /\ doc = [s \in Session |-> {}]
    /\ issued = {}
    /\ call = [s \in Session |-> [k \in {"open", "resync"} |-> Idle]]
    /\ inbox = [s \in Session |-> {}]
    /\ conn = [s \in Session |-> TRUE]
    /\ synced = [s \in Session |-> FALSE]
    /\ timer = [s \in Session |-> FALSE]
    /\ flushes = {}
    /\ content = [s \in Session |-> {}]
    /\ disk = {Base}

Init ==
    /\ Fresh
    /\ status = [s \in Session |-> "new"]
    /\ nflush = 0 /\ faults = 0

-----------------------------------------------------------------------------
\* Opening a file.

\* openFile: the provider is registered before its request is answered.
OpenFile(s) ==
    /\ status[s] = "new"
    /\ status' = [status EXCEPT ![s] = "opening"]
    /\ call' = [call EXCEPT ![s]["open"] = Asked]
    /\ UNCHANGED <<hubVars, posts, doc, issued, content, inbox, conn, synced,
                   diskVars, faults>>

\* The record a seeder creates.
NewRecord_Lazy == UNCHANGED <<exists, log, nlog>>   \* mutant: left to the first update

NewRecord == exists' = TRUE /\ log' = {} /\ nlog' = 0

Answer(s, k, seed, ops) ==
    call' = [call EXCEPT ![s][k] = [st |-> "answered", seed |-> seed, ops |-> ops]]

\* handleDocOpen, under the document's lock.  Whoever finds no record is made
\* the seeder.  A KV read that fails looks like a missing record, and the error
\* of the write that creates the record is dropped.
SrvOpen(s, k) ==
    /\ call[s][k].st = "asked"
    /\ \/ /\ exists
          /\ Answer(s, k, FALSE, log)
          /\ UNCHANGED <<exists, log, nlog, faults>>
       \/ /\ \/ ~exists /\ UNCHANGED faults
             \/ exists /\ Fault("kvread")
          /\ Answer(s, k, TRUE, {})
          /\ NewRecord
       \/ /\ ~exists /\ Fault("kvwrite")
          /\ Answer(s, k, TRUE, {})
          /\ UNCHANGED <<exists, log, nlog>>
    /\ synced' = [synced EXCEPT ![s] = conn[s]]
    /\ UNCHANGED <<posts, bcast, clientVars, inbox, conn, diskVars>>

\* The awaited open returns: catch up on the log; a seeder goes on to read.
OpenAnswer(s) ==
    /\ status[s] = "opening"
    /\ call[s]["open"].st = "answered"
    /\ doc' = [doc EXCEPT ![s] = @ \cup call[s]["open"].ops]
    /\ status' = [status EXCEPT ![s] = IF call[s]["open"].seed THEN "reading"
                                                              ELSE "open"]
    /\ call' = [call EXCEPT ![s]["open"] = Idle]
    /\ UNCHANGED <<hubVars, posts, issued, content, inbox, conn, synced,
                   diskVars, faults>>

\* destroyProvider: no more events, and the scheduled flush is cancelled.  The
\* Y.Doc stays in memory for the requests that are still awaited.
Drop(s) ==
    /\ status' = [status EXCEPT ![s] = "closed"]
    /\ inbox' = [inbox EXCEPT ![s] = {}]
    /\ timer' = [timer EXCEPT ![s] = FALSE]
    /\ UNCHANGED <<hubVars, posts, doc, issued, content, conn, synced,
                   flushes, disk, nflush>>

\* closeTab, another codespace, the panel unmounted, the page gone.
Close(s) == Registered(s) /\ Fault("close") /\ Drop(s) /\ UNCHANGED call

\* The open fails on its way to the hub, or its answer on the way back.
OpenFails(s) ==
    /\ status[s] = "opening"
    /\ Fault("open")
    /\ \/ UNCHANGED call
       \/ call' = [call EXCEPT ![s]["open"] = Idle]
    /\ Drop(s)

\* The seeder's relayed "read": the host answers with the file as it is now.
ReadDisk(s) ==
    /\ status[s] = "reading"
    /\ content' = [content EXCEPT ![s] = disk]
    /\ status' = [status EXCEPT ![s] = "seeding"]
    /\ UNCHANGED <<hubVars, posts, doc, issued, call, inbox, conn, synced,
                   diskVars, faults>>

\* ... or the read fails: a path typed to create a file (allowMissing) is
\* seeded with nothing, any other opening is given up.
ReadFails(s) ==
    /\ status[s] = "reading"
    /\ Fault("read")
    /\ UNCHANGED call
    /\ \/ Drop(s)
       \/ /\ status' = [status EXCEPT ![s] = "seeding"]
          /\ UNCHANGED <<hubVars, posts, doc, issued, content, inbox, conn,
                         synced, diskVars>>

-----------------------------------------------------------------------------
\* Editing.

Schedule_Busy(s) ==   \* mutant: not while a flush of this session is awaited
    timer' = [timer EXCEPT ![s] = @ \/ ~\E f \in flushes : f.from = s]

Schedule(s) == timer' = [timer EXCEPT ![s] = TRUE]

\* handleLocalUpdate: post the operation once, and schedule the auto-save.
LocalUpdate(s, o) ==
    /\ issued' = issued \cup {o}
    /\ doc' = [doc EXCEPT ![s] = @ \cup {o}]
    /\ posts' = posts \cup {[from |-> s, ops |-> {o}, replace |-> FALSE]}
    /\ Schedule(s)

\* seedFromDisk inserts the content only into a text that is still empty.
SeedFromDisk(s) ==
    /\ status[s] = "seeding"
    /\ status' = [status EXCEPT ![s] = "open"]
    /\ IF Integrated(doc[s]) = {} /\ content[s] # {}
       THEN LocalUpdate(s, <<s, 0>>)
       ELSE UNCHANGED <<issued, doc, posts, timer>>
    /\ UNCHANGED <<hubVars, content, call, inbox, conn, synced, flushes, disk,
                   nflush, faults>>

Edit(s) ==
    /\ status[s] = "open"
    /\ Cardinality({o \in issued : o[2] > 0}) < MaxEdits
    /\ \E n \in 1..MaxOps :
          /\ <<s, n>> \notin issued
          /\ n > 1 => <<s, n - 1>> \in issued
          /\ LocalUpdate(s, <<s, n>>)
    /\ UNCHANGED <<hubVars, status, content, call, inbox, conn, synced,
                   flushes, disk, nflush, faults>>

LogFull_OffByOne == nlog > MaxDocUpdates   \* mutant

LogFull == nlog >= MaxDocUpdates

\* handleDocUpdate up to the unlock.  A compaction replaces the log whatever
\* it holds; an append to a full log is refused.  After a failed KV read the
\* record is rebuilt from this update alone.
SrvUpdate(m) ==
    /\ posts' = posts \ {m}
    /\ \/ /\ ~m.replace /\ LogFull
          /\ UNCHANGED <<hubVars, faults>>
       \/ /\ \/ m.replace /\ log' = m.ops /\ nlog' = 1 /\ UNCHANGED faults
             \/ /\ ~m.replace /\ ~LogFull
                /\ log' = log \cup m.ops /\ nlog' = nlog + 1
                /\ UNCHANGED faults
             \/ ~m.replace /\ log' = m.ops /\ nlog' = 1 /\ Fault("kvread")
          /\ exists' = TRUE
          /\ bcast' = bcast \cup {m}
    /\ UNCHANGED <<status, doc, issued, content, call, inbox, conn, synced,
                   diskVars>>

\* A post that is lost, refused by the rules or not stored: the author's page
\* shows a banner and forgets the request.
PostLost(m) ==
    /\ Fault("post")
    /\ posts' = posts \ {m}
    /\ UNCHANGED <<hubVars, status, doc, issued, content, call, inbox, conn,
                   synced, diskVars>>

Hears_OnceOpen(s, m) ==   \* mutant: routed to a provider once its open returned
    status[s] = "open" /\ conn[s] /\ s # m.from

\* The author's own page ignores the echo.
Hears(s, m) == Registered(s) /\ conn[s] /\ s # m.from

\* The handler publishes cs_doc_update after it has unlocked the document.
Publish(m) ==
    /\ bcast' = bcast \ {m}
    /\ inbox' = [s \in Session |->
                    IF Hears(s, m)
                    THEN inbox[s] \cup {m.ops} ELSE inbox[s]]
    /\ UNCHANGED <<exists, log, nlog, posts, clientVars, call, conn, synced,
                   diskVars, faults>>

\* The plugin restarts after an update was stored and before it was published:
\* the event is never sent, and whoever would have heard it has missed it.  The
\* requests cut off earlier are those of PostLost and OpenFails.
Restart ==
    /\ bcast # {}
    /\ Fault("restart")
    /\ bcast' = {}
    /\ synced' = [s \in Session |-> synced[s] /\ ~\E m \in bcast : Hears(s, m)]
    /\ UNCHANGED <<exists, log, nlog, posts, clientVars, call, inbox, conn,
                   diskVars>>

\* receiveDoc
Receive(s) ==
    \E ops \in inbox[s] :
        /\ doc' = [doc EXCEPT ![s] = @ \cup ops]
        /\ inbox' = [inbox EXCEPT ![s] = @ \ {ops}]
        /\ UNCHANGED <<hubVars, posts, status, issued, content, call, conn,
                       synced, diskVars, faults>>

-----------------------------------------------------------------------------
\* A WebSocket that drops and comes back.

Disconnect(s) ==
    /\ Registered(s) /\ conn[s]
    /\ Fault("link")
    /\ conn' = [conn EXCEPT ![s] = FALSE]
    /\ synced' = [synced EXCEPT ![s] = FALSE]
    /\ inbox' = [inbox EXCEPT ![s] = {}]
    /\ UNCHANGED <<hubVars, posts, clientVars, call, diskVars>>

\* csResyncAll calls resync on every provider of the page.  Bound: a session
\* has one resync at a time.
Reconnect(s) ==
    /\ ~conn[s] /\ call[s]["resync"].st = "idle"
    /\ conn' = [conn EXCEPT ![s] = TRUE]
    /\ call' = IF Registered(s)
               THEN [call EXCEPT ![s]["resync"] = Asked] ELSE call
    /\ UNCHANGED <<hubVars, posts, clientVars, inbox, synced, diskVars, faults>>

\* Y.encodeStateAsUpdate: everything received, pending or not.
PostFullState(s, ops, replace) ==
    posts' = posts \cup {[from |-> s, ops |-> ops, replace |-> replace]}

\* resync: apply the stored log, then post the full state.  The role in the
\* answer is not looked at.
ResyncAnswer(s) ==
    /\ call[s]["resync"].st = "answered"
    /\ doc' = [doc EXCEPT ![s] = @ \cup call[s]["resync"].ops]
    /\ PostFullState(s, doc'[s], FALSE)
    /\ call' = [call EXCEPT ![s]["resync"] = Idle]
    /\ UNCHANGED <<hubVars, status, issued, content, inbox, conn, synced,
                   diskVars, faults>>

\* An error answer still posts the full state; a lost request ends the resync.
ResyncFails(s) ==
    /\ call[s]["resync"].st # "idle"
    /\ Fault("open")
    /\ call' = [call EXCEPT ![s]["resync"] = Idle]
    /\ synced' = [synced EXCEPT ![s] = FALSE]
    /\ \/ UNCHANGED posts
       \/ PostFullState(s, doc[s], FALSE)
    /\ UNCHANGED <<hubVars, clientVars, inbox, conn, diskVars>>

-----------------------------------------------------------------------------
\* Saving to disk.

SendFlush(s) ==
    /\ nflush < MaxFlushes
    /\ nflush' = nflush + 1
    /\ flushes' = flushes \cup
                      {[from |-> s, text |-> Text(doc[s]), at |-> "relayed"]}
    /\ UNCHANGED <<hubVars, posts, clientVars, call, inbox, conn, synced,
                   disk, faults>>

\* scheduleFlush: 1.5 s after the last local edit.
AutoFlush(s) ==
    /\ timer[s]
    /\ timer' = [timer EXCEPT ![s] = FALSE]
    /\ SendFlush(s)

\* saveActive, flushNow: the scheduled flush, if any, stays scheduled.
Save(s) ==
    /\ status[s] = "open"
    /\ nflush < MaxSaves
    /\ SendFlush(s)
    /\ UNCHANGED timer

\* The host's connector writes the file.  A write whose caller has given up is
\* executed all the same.
HostWrite(f) ==
    /\ f.at \in {"relayed", "timedout"}
    /\ disk' = f.text
    /\ flushes' = (flushes \ {f}) \cup
                      (IF f.at = "relayed" THEN {[f EXCEPT !.at = "written"]}
                                           ELSE {})
    /\ UNCHANGED <<hubVars, posts, clientVars, call, inbox, conn, synced,
                   timer, nflush, faults>>

\* The flush is answered: compact the hub's log to this session's full state,
\* even when the tab has been closed while the flush was awaited ...
FlushDone(f) ==
    /\ f.at = "written"
    /\ flushes' = flushes \ {f}
    /\ PostFullState(f.from, doc[f.from], TRUE)
    /\ UNCHANGED <<hubVars, clientVars, call, inbox, conn, synced, timer,
                   disk, nflush, faults>>

\* ... but not when the whole page is gone.
FlushAbandoned(f) ==
    /\ f.at = "written" /\ status[f.from] = "closed"
    /\ flushes' = flushes \ {f}
    /\ UNCHANGED <<hubVars, posts, clientVars, call, inbox, conn, synced,
                   timer, disk, nflush, faults>>

\* The flush fails before the host has it, its answer is lost, or the relay
\* times out with the write still queued at the host.  Nothing is retried.
FlushFails(f) ==
    /\ f.at \in {"relayed", "written"}
    /\ Fault("flush")
    /\ \/ flushes' = flushes \ {f}
       \/ /\ f.at = "relayed"
          /\ flushes' = (flushes \ {f}) \cup {[f EXCEPT !.at = "timedout"]}
    /\ UNCHANGED <<hubVars, posts, clientVars, call, inbox, conn, synced,
                   timer, disk, nflush>>

-----------------------------------------------------------------------------
Next ==
    \/ \E s \in Session :
          \/ OpenFile(s) \/ OpenAnswer(s) \/ OpenFails(s) \/ Close(s)
          \/ ReadDisk(s) \/ ReadFails(s) \/ SeedFromDisk(s)
          \/ Edit(s) \/ Receive(s)
          \/ Disconnect(s) \/ Reconnect(s) \/ ResyncAnswer(s) \/ ResyncFails(s)
          \/ AutoFlush(s) \/ Save(s)
          \/ \E k \in {"open", "resync"} : SrvOpen(s, k)
    \/ \E m \in posts : SrvUpdate(m) \/ PostLost(m)
    \/ \E m \in bcast : Publish(m)
    \/ Restart
    \/ \E f \in flushes : HostWrite(f) \/ FlushDone(f)
                          \/ FlushAbandoned(f) \/ FlushFails(f)

Spec == Init /\ [][Next]_vars

\* What goes on by itself: handlers run, events arrive, the host serves its
\* queue, timers fire, a page that lost its socket reconnects.  Users may stop
\* opening, editing, saving and closing at any point; failures may never come.
Fairness ==
    /\ \A s \in Session :
          /\ WF_vars(OpenAnswer(s)) /\ WF_vars(ReadDisk(s))
          /\ WF_vars(SeedFromDisk(s)) /\ WF_vars(Receive(s))
          /\ WF_vars(Reconnect(s)) /\ WF_vars(ResyncAnswer(s))
          /\ WF_vars(AutoFlush(s))
          /\ \A k \in {"open", "resync"} : WF_vars(SrvOpen(s, k))
    /\ WF_vars(\E m \in posts : SrvUpdate(m))
    /\ WF_vars(\E m \in bcast : Publish(m))
    /\ WF_vars(\E f \in flushes : HostWrite(f))
    /\ WF_vars(\E f \in flushes : FlushDone(f))

FairSpec == Spec /\ Fairness

-----------------------------------------------------------------------------
\* Properties.

\* "Initialised from disk exactly once" (codespace_doc.go), as far as the hub
\* can see to it: however openings, reconnects and edits interleave, at most
\* one session ever inserts the disk's content, unless the KV store fails.
SeedOnce ==
    \A s, t \in Session : <<s, 0>> \in issued /\ <<t, 0>> \in issued => s = t

\* The log for late joiners and the events for the others leave no hole: an
\* operation in the log has reached every session that asked for the log and
\* has missed no event since, or it is on its way there.  This is what makes
\* storing, unlocking and only then publishing safe.
OnItsWay(o, s) ==
    \/ \E ops \in inbox[s] : o \in ops
    \/ \E m \in bcast : o \in m.ops
    \/ \E k \in {"open", "resync"} : o \in call[s][k].ops

NoGap ==
    \A s \in Session : Registered(s) /\ synced[s] =>
        \A o \in log : o \in doc[s] \/ OnItsWay(o, s)

Live(s) == Registered(s) /\ conn[s] /\ synced[s]

\* Every operation in the log reaches every session that stays open and misses
\* no event (cs_doc_update events and the answer of open, together).
EveryoneCatchesUp ==
    \A s \in Session, o \in Op :
        (o \in log /\ Live(s)) ~> (o \in doc[s] \/ ~Live(s))

\* An edit made in a session that stays open gets to the disk: the debounce may
\* merge and delay flushes, but the last edit is always followed by one.
EditReachesDisk ==
    \A s \in Session, n \in 1..MaxOps :
        <>(<<s, n>> \in issued) =>
            <>(<<s, n>> \in disk \/ status[s] = "closed")

\* Nothing is on its way or scheduled, and every opening has been completed.
Quiet ==
    /\ posts = {} /\ bcast = {} /\ flushes = {}
    /\ \A s \in Session :
          /\ inbox[s] = {} /\ ~timer[s] /\ conn[s]
          /\ status[s] \in {"new", "open", "closed"}
          /\ \A k \in {"open", "resync"} : call[s][k] = Idle

\* What the comments of the code claim and the code does not keep.

\* "... a fresh file is initialised from disk exactly once": no save drops what
\* the file held before it was opened (no edit of the model deletes text).
DiskContentSurvives == Base \in disk

\* "Keeping the log for late joiners is correct": when all is quiet the open
\* sessions show the same text, whenever they were opened.
LateJoinersConverge ==
    Quiet => \A s, t \in Session :
                status[s] = "open" /\ status[t] = "open" => doc[s] = doc[t]
=============================================================================
