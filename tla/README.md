# Agora: a TLA+ model of its collaborative core

Agora is a Mattermost plugin (Go, `src/agora/plugin/server`), its web panels
(TypeScript, `src/agora/plugin/webapp/src`), a 3D voice room page
(`src/agora/plugin/public/room/app.js`) and the processes that run on members'
machines (Python, `src/agora/connector`). The rest of the repository is a copy of
the Mattermost platform. This directory models the parts in which several actors
change shared state: browsers, plugin handlers, connectors and the key-value (KV)
store, joined by HTTP requests and WebSocket events that can be delayed,
reordered or lost, and the one part of the platform whose guarantees all of them
lean on, the event stream of a page.

Contents: [inventory](#1-inventory), [modules](#2-the-modules),
[runs](#3-what-the-runs-check-and-show), [proofs](#4-what-is-proved),
[findings](#5-where-code-and-comments-disagree),
[limits](#6-not-modelled), [plan](#7-plan).

## 1. Inventory

Paths are below `src/agora/plugin/server` unless they say otherwise. "KV" is the
plugin's key-value store: single reads and writes are atomic, and only pairing
uses its compare-and-set.

| Component | State | Operations | Talks to | What makes it hard | What makes it correct |
|---|---|---|---|---|---|
| Live document hub (`codespace_doc.go`) and editor sessions (`webapp/src/yprovider.ts`, `CodespacePanel.tsx`) | KV record with the log of Yjs updates; one mutex per document; a Y.Doc, a debounce timer and a WebSocket per session; the file on the host | open, update, compact, flush, resync, awareness | bridge (read, flush), pages (`cs_doc_update`) | an update is stored under the lock and published after it; the seeder reads the disk while others join; compactions overtake edits; sockets drop | one seeder; no hole between log and events; every edit is saved |
| Event stream of a page (`src/webapp/platform/client/src/websocket.ts`, `websocket_actions.ts`; `src/server/channels`: `api4/websocket.go`, `app/platform/web_conn.go`, `web_hub.go`) | the page's socket, connection id and expected sequence number; per socket a WebConn with a send queue and a ring of dead messages; the hub's index | connect, hello, reconnect, broadcast, write, ping, reap, restart | every panel | a new connection takes over the queues of the lost one in steps; the old pumps may still run; a full queue closes the socket | no event is applied twice or missed unless the page reloads |
| Codespace bridge (`codespace_fs.go`) | map from request id to a channel of capacity one | relayOp, answer, timeout | connector | the answer races the timeout | no entry leaks, an answer reaches its own request only |
| Connector (`connector/connector.py`) | its socket and the event it is serving | take, execute, post the result, reconnect | bridge, AI agents | one event at a time; executes what nobody waits for any more | same as the bridge |
| Terminal (`codespace_term.go`, `webapp/src/TerminalPanel.tsx`) | working directory per member and audit log in KV, one lock per codespace | submit, run, save directory, audit | bridge | directory read before the lock and written after it, for two commands of one member at once too; audit is read-modify-write; host may never answer | commands serialized, sessions apart, every command ends |
| Voice room (`room.go`, `public/room/app.js`) | hub's map of rooms, peers and seats of a room, roster and peer connections of each page | join, welcome, broadcast, relay, leave, drop the room | pages | lookup and seating under different locks; writes after unlocking | distinct seats, the mesh closes, rooms are forgotten |
| Pairing (`pair.go`, `webapp/src/ConnectPanel.tsx`, `connector/pair.py`) | code record with expiry, owner links, bot tokens | start, status, claim, provision | wizard, connector, Mattermost | two claims; calls fail half way; restart in the middle; expiry removed by the compare-and-set | single use, burnt for good, the wizard is told the truth and in the end something |
| Codespace registry (`codespace.go`) | records, files, channel and agent bindings | create, delete, put, bind | bridge (clone) | delete pages over keys it deletes, while others put; caps are check-then-act | no binding or file outlives its codespace, caps hold |
| Rules (`codespace_rules.go`) | rules record | globMatch, check*, gateOp | every mutating handler | pattern semantics | protected paths are protected |
| Activity and co-authors (`codespace_activity.go`), comments (`codespace_comments.go`), memory (`memory.go`) | lists in one KV value each | append, clear, toggle, promote | commits, saves | read-modify-write without a lock; contributors cleared before the commit runs, which is made under the host's name | nobody's save goes unnamed |
| Proposals gate (`proposals.go`) | pending proposals, dictionary | submit, approve, reject | memory promotes into it | approve and reject race; an approval can stop half way | decisions that follow one another agree |
| Task ledger (`orchestrator.go`) | one record per task | create, claim, status, delete | humans, agents | read-modify-write | done stays done, deleted stays deleted |
| Agents, desires, heartbeats (`agents.go`), local host (`connector/host.py`) | desire and expiring heartbeat per bot; processes of the host | set desire, heartbeat, reconcile | dashboard | heartbeat races the stop; the host restarts | a stopped agent is stopped in the end and stays so |
| Scope claims (`command/claims.go`) | one record per member and channel | claim, unclaim | chat | two claims at once | of two overlapping claims at least one is warned |
| Roles (`roles.go`, `gamemaster.go`) | roles, role per agent, game-master state | save, assign, effectiveTier, agentCan | every agent action | tier and scopes read apart | an agent never outranks its owner |
| Engagement, skill law, slash commands, plugin wiring, connector tools, panels, build | one key each, or none | | | | not modelled; see [6](#6-not-modelled) |

Interactions: the live document and the terminal both reach the host through
`relayOp`, whose requests the connector serves one after the other; saves feed
the activity list and the contributors that the next commit takes; pairing
creates the owner links that the registry, the roles and the directory read;
memory promotes facts into the proposals gate; and what any handler publishes
reaches a page through its event stream.

## 2. The modules

`LiveDoc`, `VoiceRoom`, `Pairing`, `Relay`/`Terminal`, `EventStream` and `Agents`
are systems of their own. `Requests` and `KeyPages` are the ground of the record
protocols `Gate`, `Tasks`, `Claims`, `Facts`, `CoAuthors` and `Registry`.
`DocHub` looks at the plugin's half of `LiveDoc` more closely. `Subscription` and
`DocStore` are abstract specifications, `Rules` a pure function. The `MC`
modules make instances, the `Proofs` modules hold theorems. Definitions that end
in `_Something` and carry the comment `mutant` are deliberately wrong variants of
the definition that follows them; nothing refers to them, and each makes one
property fail when it takes the place of the right one.

`MCSafety` and `MCLiveness` put several parts in one run. The parts share no
state, so a product of them would only repeat every interleaving of one in every
state of the others. Each behaviour is therefore about one `part`, chosen in the
initial state; the others stay as they begin. The state spaces add up instead of
multiplying, and every property of a part is checked as if it ran alone; that
this is so is proved in `SafetyProofs` and `HostProofs`. `MCLiveDocLive` puts two
instances of the one module `LiveDoc` in a run, one for each initial state: from
`Reading` two sessions edit and nothing is flushed, from `Saving` only the session
`Saver` is opened and the others stay closed; a bound that an instance does not use
is used up when it starts. `EditsAreSaved` speaks of the behaviours from `Saving`.

### EventStream, DeadQueue, Subscription

One page and the hub of its user. Each try of the page to connect is a socket
1, 2, ... with the handler and the WebConn that serve it. Looking up the
inactive connection (`CheckConn`), registering the new one, and starting its
write pump are steps of their own, as in the code, where the hub's loop serves
other requests between them. `DeadQueue` is the ring of the last written
messages with its pointer, the search in it and the three ways of draining it. A
message gets its sequence number when it is written, not when it is queued, as
`writeMessageBuf` does.

The page's side has the connection id, `serverSequence`, the reconnect listeners
that reload the state (`SyncRead` is the answer of that reload), backing off,
network changes and pings. `heard` (the events the server took for this stream),
`last`, `early` and `handover` are history.

`Subscription` is what a page is promised: it applies the events taken for it one
by one and in order, and passes over one only when it has it already or has still
to reload; a page that is still to reload may also apply later events first.
`EventStream` implements it (`Sub == INSTANCE Subscription WITH ...`,
`IsSubscription == Sub!Spec`): the five variables of the subscription are
variables of the stream, `Post`, `OnMessage` and `SyncRead` are its steps, a hello
and `Open` may pass events over, and everything else that the sockets, handlers
and pumps do is a stuttering step.

### LiveDoc

One document. A session is one `RoomProvider`; `status` is its life from
`openFile` to `destroy`. `exists`, `log`, `nlog` are the `docRecord`; `posts`,
`bcast`, `inbox` and `call` are the HTTP requests, the events not published yet,
the events under way to a page and the awaited `/doc/open` (first opening and
resync). `disk` is the file, `flushes` the save requests with the write at the
host.

* An update is a *set of operations*: the hub never parses an update, applying
  it twice or in any order is harmless, and Yjs holds an operation back until
  the earlier ones of the same client have arrived (`Integrated`). Dependencies
  between clients, deletions and positions are abstracted away: no property here
  tells them apart. The disk's content is `<<s, 0>>` plus what `s` has read.
* Each handler is one action where it holds the document's lock
  (`SrvOpen`, `SrvUpdate`); publishing after the unlock is an action of its own.
  Client code is split at each `await`.
* A failure is an alternative of the step it hits and costs one unit of
  `MaxFaults`; `Faults` names the kinds allowed. `kvread` is a failed KV read,
  which `loadDoc` reports as a missing record.
* An event reaches the sessions connected when it is published. A reconnecting
  page has one resync at a time. An edit refused by the rules is a `PostLost`.

* `Restart` is a restart of the plugin between storing an update and publishing
  it. The event is never sent, and the pages that would have heard it have missed
  it: they are not `synced` any more, though their socket is up. A restart that
  cuts a handler off earlier is a `PostLost` or an `OpenFails`.

### DocHub, DocStore

`LiveDoc` takes what a handler does under the document's lock for one step.
`DocHub` does not: a request waits for the lock (`hub.lock`), reads the record
(`loadDoc`), decides, writes (`saveDoc`), unlocks, publishes and answers, each in
a step of its own; a read or a write may fail, and a restart of the plugin may
come between any two. An update stands for the request that brings it, and the
log is a sequence. `DocStore` is the promise: a request to open or to update takes
effect at one moment on the record as it is then; an update is published only if
the record took it and acknowledged only once it is published.
`Store == INSTANCE DocStore WITH over <- Over` and `IsDocStore == Store!Spec` say
that the hub keeps it. A request takes effect when it decides (`JoinDoc`,
`SeedDoc`, `RefuseUpdate`, `SaveUpdate`); waiting, locking and unlocking are
stuttering steps, and so is a read, unless it fails, which `DocStore` knows as a
request that misreads the record. `wish`, `outcome`, `caughtUp`, `misread` and
`shown` are what a request asked for, what became of it, and history.

### VoiceRoom

One channel. A connection is one run of `handleRoomWS` with its page. Because
the hub's lookup, the seating, the welcome, each broadcast's list of targets and
each single write happen under different locks, each is a step (`Enter`,
`SitDown`, `SendWelcome`, `AnnounceJoin`/`AnnounceLeave`, `Send`). Room objects
are numbered: `current` is the one the hub knows, `held` the one a handler has.
The page's part is its roster (`knows`), its peer connections (`pcs`) and the
offers it sends (`uplink`). Avatar poses, mute flags and ICE change none of this.
`early` is history: the pairs of a leaver and a newcomer to whom its `peer-leave`
was written before the newcomer's welcome.

### Pairing

The wizard's page (`shown`, `flags`, `polls`), the record of each code, and the
claims. A claim reads the record, wins it by `SetAtomic`, links and mints a
token for one bot per agent, and writes the final status; each call may fail,
and `Restart` ends the claims under way. `Set` without an expiry removes the
expiry, so `Expire` needs a record that is still pending. `old` stands for the
fifteen minutes of `pairTTLms`.

### Relay and Terminal

`Relay` is the bridge and the connector's loop, for any kind of request:
`waiter`, `pending` and `chan` are `relayOp` and `csBridge`; `queue` and `busy`
the connector. A dropped socket loses what is queued; a request given up may
still be executed. `Terminal` extends it: a command (a request) goes from
`queued` through `running` (relayed) to `ran`, `saved`, `auditing` and `done`, or
to `failed`. Shell commands take the codespace's `lock` around the relay, prompts
for the AI do not. `loaded` is the directory read before the lock, `seen` the
audit log read by `appendAudit`. A member may have several commands under way:
`handleTerm` does not ask, and the panel's `running` flag is gone when the panel is
closed and opened again (`TerminalPanel.tsx:40`). `beside` is history: the commands
that shared the time between loading and saving the directory with another of the
same member. The gates before the command change no state and are left out, as are
failing KV reads.

### Agents

One owner's agents and one host. `desire` and `beat` are the KV keys, the
heartbeat ageing from `fresh` through `stale` to none. The host is the loop of
`host.py`: a poll makes `known` the last answer and `toVisit` the agents to go
through; `Reconcile` starts or terminates a connector of one of them. A
terminated connector runs on for a moment (`ending`); a crash of the host leaves
its connectors as `orphan`. Storing a stop and deleting the heartbeat are two
steps (`clearing`), and a heartbeat on its way may be written between or after
them. The poll may fail, or its answer may lack agents whose desire could not be
read.

### Requests, KeyPages and the record protocols

`Requests` gives `Call` slots: each holds one request to a plugin handler, with
how far it has come and what it has read. Every KV operation is one atomic step
and nothing is locked between two of them. `Lapse` and `CallsCutOff` are a
failing KV operation and a restart of the plugin. `KeyPages` is `KV.ListKeys`: a
page is computed by offset from the keys there are *when it is asked for*.

| Module | Code | State | What its steps interleave |
|---|---|---|---|
| `Gate` | `proposals.go` | `waiting`, `dictionary`; history `rejected`, `contested`, `halfway` | read, store the entry, delete the proposal; read, delete |
| `Tasks` | `orchestrator.go` | `task`; history `deleted`, `revivable` | read, decide by what was read, write back or delete |
| `Claims` | `command/claims.go` | `area` per member, `foreign` keys; `warned`, `unsure` | store, list page by page, read each claim |
| `Facts` | `memory.go` | the list `facts`; history `stored`, `dropped`, `exposed` | stamp, read, cut to the cap, write back |
| `CoAuthors` | `codespace_activity.go`, `codespace_fs.go` | `contrib`; history `owed`, `excused` | read, write back; read, delete, commit at the host under the host's name |
| `Registry` | `codespace.go` | records, files, bindings, each a key; history of deserted work | count, clone, store; check, count, store; list, delete files, delete record, walk and delete bindings |

`Rules` is `globMatch`: `MatchSeg` is the search of the code as a recursive
function, which gives for each segment of the glob the places of the path from
which the rest matches, and `GlobIsCut` the reference definition, by which the
path can be cut into pieces that match the glob's segments. No module declares a
RECURSIVE operator.

## 3. What the runs check and show

| Run | Instance | Checks |
|---|---|---|
| `liveness` | pairing: 1 code, 2 claims, 1 agent, 2 mishaps; terminal: 2 commands, 2 members, 2 directories, 1 failure, audit log of 1; agents: 1 agent, 3 changes of desire, 3 upsets | `PartsTypeOK`; `SingleUse`, `LinkedBeforeToken`, `ConnectedIsProvisioned`, `BurntForGood`, `WizardLearns`; `NoEntryLeft`, `AnsweredWasRun`, `Serialized`, `OwnSession`, `EveryCommandEnds`; `StopRemembered`, `FollowsDesire` |
| `safety` | voice: 3 connections, 2 seats, 1 lookup; the hub of a document: 3 requests, log cap 2, 1 failing KV operation or restart; record protocols: 2 requests at a time, 4 in all, 1 lapse, pages of 2 keys; registry: 3 codespaces, 2 paths, 1 channel, caps of 1; every glob and path of up to 4 segments | `PartsTypeOK`; `IsDocStore`; `DistinctSeats`, `MeshCloses`, `GhostsOnlyFromWelcome`, `RoomForgotten`; `NothingVanishes`, `DecidedOnce`; `DeletedStaysDeleted`; `OverlapCalledOut`; `FactsInOrder`, `FactsAccountedFor`; `CreditKept`; `CapOvershoot`, `OrphansAreRaced`; `GlobMatchesCut` |
| `event_stream` | dead queue of 2, send queue of 3, 3 events, 3 sockets, 2 drops, 4 troubles | `TypeOK`, `QueuesHaveOneOwner`, `InStep`, `LostOnlyInHandover`, `IsSubscription`, `EveryEventShown` |
| `live_doc` | 2 sessions, 2 edits in all, log cap 2, 1 flush, any one failure (a restart too) except of the KV store | `TypeOK`, `NoGap`, `SeedOnce` |
| `live_doc_live` | reading: 2 sessions, 1 edit each, log cap 3, no flush, one failing KV read or write, dropped socket, failed open or restart; saving: 1 session, 1 edit, 2 flushes, two such failures | `EveryoneCatchesUp`, `EditsAreSaved` |
| `event_handover` | 1 event, 2 sockets, 1 drop | refutes `NothingLostOnReconnect` |
| `live_doc_seed_lost` | 2 sessions, no failure | refutes `DiskContentSurvives` |
| `live_doc_late` | 2 sessions, no failure | refutes `LateJoinersConverge` |
| `binding_left` | 1 request at a time, 6 in all, no lapse, 3 channels | refutes `NoDanglingWorkspace` |
| `credit_own_commit` | 1 request at a time, 4 in all, no lapse, 2 members | refutes `SaversAreNamed` |
| `term_audit` | 3 commands, no failure | refutes `EveryCommandAudited` |
| `voice_split` | 3 connections, 2 seats | refutes `SharedRoom` |

**Why these bounds.** The races of the live document are between two parties: the
one that stores and the one that opens, seeds or compacts. Two sessions with a log
cap of two meet every order of them and reach the cap; two edits let one be on its
way while the other is stored, seeded over or compacted. One session's timer against
its own requests needs no more than two flushes for one edit and two failures. Three
connections for two seats make a full room, a seat that becomes free while another
looks for one, and a pair that connects while a third leaves, before or after it has
its welcome. Two claims and one code contain every race for a code; two mishaps let
a claim fail and its burning too. Two commands suffice for a lock, for two of one
member at once, and for an audit log of capacity one to overflow. A ring of two
wraps with three messages, and a send queue of three holds a hello, an event and no
more while a pump hangs, so that it runs full; three sockets allow a reconnect that
is itself lost. Three requests to the hub of a document fill a log of two, or open,
update and compact at once, with a read, a write or a restart that goes wrong among
them. Two requests at a time contain every race of a read and a write; four in all
let one prepare the record, two race and one look. Pages of two make the walk over a
handful of keys take several. One agent suffices because agents share nothing but
the poll; three changes and three upsets allow run, stop, run with a crash and two
failing answers between them. `MaxTrouble` in `EventStream` bounds events and losses
together. How far such a bound carries is a question the proofs have since answered:
four sockets and three losses had shown that a page that is still to reload does
apply events with a gap before them, which `Subscription` now says.

**Deadlock** is not checked: in each system everybody may stop. That
nothing waits for ever is stated by the liveness properties instead.

**Fairness.** It is put on what the code does by itself, never on a user's act
or a failure.

* `LiveDoc`: handlers, timers, awaited answers, events and the host's queue go
  on, and the Mattermost client reconnects. `EditsAreSaved` thus speaks of a
  host that is up; a session that closes loses its timer and is excused by the
  property.
* `Pairing`: time passes, the wizard's interval keeps polling, requests are
  answered or fail; no claim need ever arrive or end, since a restart may cut it
  short.
* `Terminal`: handlers and timeouts go on; the lock is a `sync.Mutex`, whose
  starvation mode serves every waiter, so taking it is strongly fair; *nothing*
  is assumed of the host.
* `EventStream`: the page's timers and listeners and the server's goroutines of
  each socket go on. Whether a socket is dropped, the network changes or a new
  event comes is open.
* `Agents`: a running host polls and goes through its agents, heartbeats arrive
  and age, terminated processes end. Nobody need start the host or change a desire.

**What the properties say** is written above each of them. Worth knowing:

* `NoGap` is what makes "store, unlock, publish" right: an operation in the log
  has reached every session that asked for the log and has missed no event since,
  or is on its way, in an event, an unpublished broadcast or an answer.
* `IsDocStore` is what lets `LiveDoc` take a handler's work under the lock for one
  step. It would break if the lock were released between the read and the write,
  were one per request, or if an update were published that was not stored.
* `MeshCloses` says that welcome and `peer-join` complement each other: of two
  settled peers each knows the other, and exactly one made the call.
* `GhostsOnlyFromWelcome` pins down the one way a roster can keep a peer that
  has left: its `peer-leave` was written before the welcome that lists it. A page
  that has read the welcome first must forget the leaver, also if it called it.
* `DistinctSeats`: a seat that is freed and taken again while others look for one
  is never two peers', which counting the peers instead of searching would give.
* `WizardLearns` holds although a restart can leave a record `claiming` without
  expiry: the wizard's own clock (`Expired`) ends the wait.
* `OwnSession` is about the commands of others: however many of them run and move
  while a command waits for the lock, the directory it loaded stays its member's. Its
  exception is not idle: beside another command of the same member the directory
  does go stale (see [5](#5-where-code-and-comments-disagree)).
* `EditsAreSaved` has no failing flush among its failures, because the code gives
  up then until the next edit (see [5](#5-where-code-and-comments-disagree)).
* `LostOnlyInHandover` is what the event stream does guarantee: what a page that
  has caught up lacks was broadcast before it had a connection id or while its
  queues changed hands. `event_handover` shows that such an event exists.
* `InStep` says that the branch of `onmessage` for a wrong sequence number guards
  against what this server never does: the resent part of the ring, the queue
  behind it and a new connection's hello always fit together.
* Several properties of the record protocols are stated *up to* the races the
  code leaves open, so that they say exactly which they are: a deleted task comes
  back only if a request had read it before (`DeletedStaysDeleted`); a stored fact
  is missing only if it was deleted, pushed out by the cap, or stored while
  another request was between its read and its write (`FactsAccountedFor`); a
  contributor goes unnamed only if a save overlapped another request, a KV
  operation failed, a commit that took the list failed, or the commit was the
  contributor's own (`CreditKept`; that the last needs no failure and no overlap is
  what `credit_own_commit` shows); a file
  outlives its codespace only if the request that put it overlapped a deletion,
  or the deletion's listing missed it because a key was deleted or unreadable
  (`OrphansAreRaced`; the bindings that the walk steps over are the subject of
  `binding_left`); a proposal is both rejected and in the dictionary only if an
  approval and a rejection of it were under way at once, or an approval stored the
  entry and then failed, or was cut off, before it deleted the proposal
  (`DecidedOnce`).
* `CapOvershoot`: the records exceed `maxCodespaces` by no more than the other
  creations under way at one time and those that a failed or torn count let pass
  (`blind`).
* `OverlapCalledOut`: of two overlapping claims at least one member is told,
  because each is stored before the others are scanned; scans under which a key
  was deleted or a KV call failed are `unsure` and excused.
* `StopRemembered` compares a start with `told`, the last answer since the host
  was started: the comment "fail CLOSED" (`host.py:116`) is about a room out of
  reach, not about a host that restarts.

## 4. What is proved

All theorems hold for every value of the constants that satisfies the modules'
named assumptions. Each relies on the type invariant of its module, which is
proved first (`VoiceRoomProofs!TypeCorrect`, `RecordProofs!GateTypeCorrect` and so
on) or is a conjunct of the inductive invariant. Every invariant and every action
property that a run finds to hold is stated by a theorem, and so are the two
refinements.

**`LiveDocProofs`.**
* `SeededOnce` *assumes* that `kvread` and `kvwrite` are not among the faults.
  `SeedOnce` is not inductive: it says nothing of a session that has been elected
  and has not seeded. `SeedInv` adds that whoever is elected (answered, reading,
  seeding or having seeded) is the only one, and that the record exists from then
  on, so that nobody is elected after it.
* `GapFree`. `NoGap` is not inductive because an author ignores the echo of its
  own posts; `GapInv` adds that whatever a post or a broadcast carries its author
  has in its document (`PostsHeld`, which in turn needs that a document never
  forgets), that there is no log without a record, and that offline and new
  sessions do not count as synced. It holds under every fault of the model, KV
  failures included.
* Where an update is lost with a restart, `GapFree` needs the flag `synced` as much
  as the events: whoever stays synced wrote the lost update, and has it.

**`DocHubProofs`.** `HubImplementsStore` is the refinement step by step, under
`HubInv`: whoever has read and not yet unlocked is the holder (`LockIsHeld`), so
that there is one; what it has read is still the record, or it is one of those who
misread (`CopyIsCurrent`: without the lock this is what fails first); and how far
a handler has come agrees with what has become of its request, so that what it
publishes was kept (`StageAgrees`).

**`SafetyProofs`, `HostProofs`: the parts and their compositions.** A behaviour of
`SafetySpec` is one of the voice room and one of the document's hub
(`VoiceByItself`, `HubByItself`), and one of the record protocol it is about
(`RecordsByThemselves`); a behaviour of `LivenessSpec` is one of pairing, of the
terminal and of the agents (`PartsByThemselves`). What is proved of a part alone
therefore holds of the compositions that TLC explores, and `PartsTypeCorrect`,
`HostPartsTypeCorrect` and `PartsImplementStore` say so for the types of all parts
and for the hub.

**`VoiceRoomProofs`.** `SeatsDistinct` (no two peers of a room share a seat): `SeatInv`
adds that whoever is inside has
a handler past seating, so that no handler sits down twice; seats are compared
within one room object, so the objects a handler may be left with do not matter.
`RoomsAreForgotten`: `KeptInv` says that a room the hub knows, when no lookup has
made one, has somebody who `Keeps` it: a handler on its way into it or inside, or
the last leaver, who is about to take it out.
`MeshIsClosed`: of two peers that are inside one of them listed the other when it
sat down, and only one (`OneLists`, since they sat down one after the other under
the room's lock). For that pair `MeshInv` says where on their way the welcome, the
join and the offer are that must arrive (`WelcomeDue`, `JoinDue`, `OfferDue`);
`LinksInv` says that nothing crosses from one room object to another and that a
leave is written only by one who leaves. `NoOtherGhosts`: the leave is the last
message that a peer writes to anybody, and unless it was written `early` it is
behind the welcome that lists the peer too (`GhostInv`, `Wiped`), so handling an
inbox to its end wipes out whoever has gone.

**`HostProofs`, pairing.** `CodesAreSingleUse` and `CodesStayBurnt` by `WinInv`: a claim
that has won keeps its code out of `pending`, and two winners of a code are equal.
`ConnectedIsTrue` by `TruthInv`: a record that is `done`, a poll that says so and
the wizard's flag each point to a claim that has paired. `LinksComeFirst` by
`LinkInv`: a bot that a claim has readied for its token is linked, and links are
never taken back.

**`HostProofs`, bridge and terminal.** `BridgeIsExact` and `AnswersAreTrue` by
`BridgeInv`: what lies in a channel was executed and asked for.
`ShellSerialized` by `LockInv`: only a running handler waits, and the running
handler of a shell command holds the lock. `SessionsApart` by `SessionInv`: two commands
of one member that are both between loading and saving the directory are both
`beside`, and only a member's own save moves the member's directory.

**`EventStreamProofs`** proves all safety properties of the event stream for rings,
queues and numbers of sockets, events and losses of any size, in four layers.
* `OwnersInv`: an owner's connection id that is a socket's number, or a number made
  after a loss, was made by a socket that has come so far (`OwnIds`), so that a new
  id is nobody's, and taking over an id removes it from where it was. It gives
  `QueuesAreOwnedOnce`.
* `Ring`: after *n* messages the dead queue has the last of them, those before the
  pointer newer than those behind it. From it follow what the search for a number
  ends in, when a loss is seen, and that what is drained is the messages from that
  number on, in order (`RingSearch`, `RingDrain`, `RingAdd`).
* `StreamInv`: the messages of a WebConn, written and waiting, have numbers and
  events that rise together (`Sound`); whoever holds the queues of the page's id
  has all that the page has under numbers below the one it wants and nothing else
  (`Positions`, `Fits`); what the page can still read joins what it has read
  (`InRow`), and the handler of its socket is where that reading says (`Phase`).
  `InStep` alone says nothing of what a WebConn will write next. It gives
  `TypeCorrect` and `StaysInStep`.
* `Told`: an event that was queued for the page and that it lacks is on the wire,
  in the queues, or has been overwritten in a ring whose owner will notice; or a
  hello under a new id is behind it, which makes the page reload (`Pending`). An
  event that was queued for nobody is in `early` or `handover`, or it met a full
  queue whose connection is therefore given up, or ids that nobody holds, and the
  next hello makes the page reload (`Explained`). It gives `LossesAreHandovers` and,
  step by step, the refinement `StreamIsSubscription`; `NothingIsLostSilently` is
  what the abstract `Subscription` promises, carried over by it.

**`HostProofs`, agents.** `StopsAreRemembered`: a stop the host has seen stays in
`known`, and no orphan or failing answer starts the agent again.

**`RecordProofs`** begins with what the record protocols share: how a step changes the
request slots, that a set of keys has a least and a greatest member, that the
place of a key grows with it and never exceeds the keys there are, and that an
empty page is past the last key. Induction theorems with operator parameters are
out of the provers' reach; the least-number principle used here comes from the
well-foundedness of the naturals (`WFMin`).

Then, of each protocol:
* `ProposalsAreKept`, `DecisionsAgree` by `GateInv`: an approval that has stored
  its entry has it in the dictionary; an approval and a rejection that are both
  under way have the proposal contested; one that is under way on a proposal which
  is decided the other way by now was so then already (or the approval has stopped
  halfway); an entry whose proposal still waits is that of an approval at its last
  step or of one that stopped there; and what is rejected no longer waits.
* `DeletedTasksStay`: inductive with the type invariant, which says what a request
  has read. `CreditIsKept` by `CreditInv`: not only the stored list accounts for
  everybody owed credit, but the copy in the hands of each request too.
* `OverlapsAreCalledOut`: of two overlapping members whose claims stand and whose
  scans were not disturbed, one is warned or has the other *in sight*: its scan is
  still before the page on which the other's key lies, or has the key in hand.
* `FactsAreInOrder`, `FactsAreAccountedFor` by `FactsInv`: what holds of the stored
  list holds of the list in the hands of each request too; a fact that is due is
  listed or has `maxFacts` newer ones, which the cut to the cap respects because a
  list in order has no two facts of one number (`OrderedSpread`).

**`RegistryProofs`.**
* `CapIsNearlyKept` by `CapInv`: records and creations past their check are fewer
  than the cap plus the requests plus the unreadable records; a counting request
  has counted, or has still ahead, every record that was there since it began
  (`KeysInHand`), though pages move under it.
* `OrphansAreExplained` by `OrphanInv`: what each request has seen exist is there
  or has been `Deserted` since, and a deletion that has passed a stage left no
  file of that stage that no request was racing.
* `GlobsMatchByCuts` (Rules): a recursive function has the values that one expects
  only if some function satisfies its equation and no two do. The table of the
  places from which the path can be cut satisfies it (`CutTableSatisfiesIt`: the
  three cases of `matchSeg`), and of two that do, the last row in which they
  differ would follow from one in which they agree (`OneTableOnly`). The induction
  is the least member of a set of numbers (`LeastMember`), so no induction
  theorem is needed. `GlobsAreCut` carries it over to the run.

**Only model-checked.** Liveness (`EveryoneCatchesUp`, `EditsAreSaved`,
`WizardLearns`, `EveryCommandEnds`, `FollowsDesire`, `EveryEventShown`): it rests on
fairness and ENABLED, which are out of the prover's reach.

## 5. Where code and comments disagree

Each is a run that TLC refutes; the quotes are in `PROJECT.json`.

1. `event_handover`: the queues of a lost connection leave the hub's index in
   `CheckConn` and are back in it only after `Register`; an event broadcast
   between the two is queued for nobody, and the client cannot tell.
2. `live_doc_seed_lost`: the record is created when the seeder is *elected*. A
   session that joins before the content arrives sees an empty document, and its
   save, or its edit, replaces the file.
3. `live_doc_late`: a compaction replaces the log with the state its author had;
   an acknowledged update that arrived meanwhile is dropped and never reaches
   sessions opened later.
4. `binding_left`: the walk over the keys by offset deletes from the pages it has
   seen, so bindings move past it and go on naming a codespace that is gone.
5. `voice_split`: the last leaver deletes the hub's entry after it has looked at
   the room; a joiner between the two is alone in a room nobody can find.
6. `term_audit`: a command that has been executed and whose answer comes after
   the timeout is not in the audit log; concurrent appends can lose entries too.
7. `credit_own_commit`: a commit deletes the list of those who saved and leaves the
   committer out of the trailers, but it is made under the git identity of the
   machine that hosts the codespace; whoever saves and then commits is named nowhere.

Behaviour met while modelling that no run is about:

* Live document: two flushes in flight may reach the disk in either order
  (`yprovider.ts:166`); a failed flush is not retried until the next edit.
* Live document: an update that was stored when the plugin restarts and had not
  been published yet is in the log, but the pages that are connected do not hear of
  it before their socket drops or the file is opened again: nothing else makes a
  page ask for the log (`websocket` reconnects call `csResyncAll`, a restart of the
  plugin does not).
* Pairing: the answer of a poll about the previous code can be taken for one
  about the code now shown (`ConnectPanel.tsx:133`).
* Terminal: a member who closes the panel while a command runs, opens it again and
  sends another (or has two tabs) has it run in the directory that was current when
  it was sent: a `cd` under way is not waited for (`codespace_term.go:124` is before
  the lock at 156), and what the later of the two saves overwrites the earlier's
  directory (183).
* Proposals: an approval whose last step, deleting the proposal, fails leaves it
  waiting (`proposals.go:174-176`); it can be rejected afterwards, and the rejected
  proposal is in the dictionary all the same.
* Terminal: an AI prompt blocks the shell commands behind it at the host, which
  serves one request at a time (`connector.py:749`), although the plugin's lock
  lets them pass.
* Agents: when the server cannot read a desire it answers `run`, which starts an
  agent that was stopped; `host.py:116-117` has the host keep the last answer to
  avoid just this, but only for a failing request. A host that restarts while the
  room is out of reach starts stopped agents too. The connectors of a host that
  crashed stay as orphans beside those of the next.
* Tasks: a done task can be claimed again, a step that the comment at
  `orchestrator.go:22` does not name.
* Listings: `kvListByPrefix` skips keys whose read fails, where `proposals.go:71`
  says "never return partial data as success".
* Co-authors: a commit that the host refuses has already taken the contributors,
  and the next names none of them (`codespace_activity.go:13-16`).
* Rules: the room "may not edit/commit" protected paths (`codespace_rules.go:75`),
  but `checkCommit` looks at no paths.
* Claims: a claim is missed when keys are deleted while another member scans.
* Comments are stamped before the list is read, so two at once may be listed out
  of order.
* Roles: `agentCan` reads an agent's role twice (`roles.go:175`), once for the
  tier and once for the scope; a role changed between gives a mixture.
* Voice room: a roster or clip lookup makes a room that nobody leaves
  (`room.go:108`); the next join and leave clears it.
* Event stream: `close()` does not close a socket that is not open yet; mounted
  again, the page may have two and apply events twice (`websocket.ts:553`).

## 6. Not modelled

Most of the repository is Mattermost itself, vendored: several hundred thousand
lines of product screens, generated clients, reducers and administration pages
that Agora neither changes nor relies on beyond its plugin API. Of it only the
event stream is modelled, because every panel's correctness leans on it. The
share of all lines of the repository that the models stand for is therefore
small; of Agora's own files with shared state it is most.

What the modelled parts leave out:

* LiveDoc: cursors and file presence, which keep no server state; deletions in
  the text; more than one page of providers sharing one socket.
* EventStream: a reload (`SyncRead`) that fails; the client's own requests and
  their replies, `close()` and a second mounting, presence and status, session
  checks, several cluster nodes.
* VoiceRoom: agent speech beyond the room it creates; full or failing sockets.
* Pairing: several users (codes of different users do not interact); the content
  of the bundle the wizard offers for download.
* Terminal: KV reads that fail: `loadCwd` then falls back to the root and
  `appendAudit` starts a new log.
* Claims: two commands of one member at once. Registry: a deletion's walk reads and
  deletes a binding in one step.
* Agents: several hosts of one owner, the paging of the owner's list, and the
  checks the host makes before it starts a connector.
* Registry: the agents' bindings (`agentcs_`), which a deletion does not look
  at, so that they go on naming a codespace that is gone, and renaming;
  ownership and the rules' gates are taken as passed.
* Rules: the record itself, and the check functions that combine its fields.
* Facts: promotion, which is a read followed by `Gate`'s submission.

What has no module: comments and the activity feed (lists in one KV value: the
protocol of `Facts` once more); roles (one comparison each over records that are
written whole); engagement switches (one key each); the skill law (a validator);
slash commands, plugin wiring, connector tools, panels, presence, build (no state
that others race on).

## 7. Plan

Done: the live document with its hub and the record that hub implements, the
voice room, pairing, relay and terminal, the event stream with its abstraction,
agents and host, the record protocols, the registry and the rules' globs, each
with the proofs of section 4. Next, by importance:

1. The agents' bindings in `Registry`; comments and the activity feed as a second
   instance of the protocol of `Facts`.
2. A second mounting of the page in `EventStream`, and reloads that fail.
