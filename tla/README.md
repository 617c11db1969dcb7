# Verification of the offline-first emergency coordination system

TLA+ models of the protocol code of this repository, TLC runs that check them
on small instances, and TLAPS proofs of what matters most for instances of
every size. Paths below are relative to the repository; `lib/` stands for
`mobile_app/lib/` and `p2p/` for `backend/p2p-node/`. `PROJECT.json` maps every
definition to the lines it models and lists hazards, runs, mutants and theorems.

## 1. The system

Every phone runs a Flutter application and, next to it, a Go daemon that
speaks libp2p. The application posts envelopes to its daemon over local HTTP
(`POST /broadcast`) and gets envelopes back over a local WebSocket. Daemons find
each other by mDNS and publish every envelope to one GossipSub topic. A Python
backend, when one can be reached, stores incidents, assigns responders and
relays messages between clients. Nothing below depends on the backend.

| Component | State | Operations | Interacts with |
|---|---|---|---|
| Daemon's gossip log, `p2p/gossip_log.go` | log, pending map, HEADS, `outChan` | `Receive`, `RecordSent`, `Heads` | `pubsub.go` feeds it, `api.go` reads `outChan` |
| Application's gossip log, `lib/services/gossip_log_service.dart` | `_log`, `_pending`, `_heads`, stream of valid messages | `receive`, `recordSent`, `getHeads`, `findMissingMessages` | the sync engine |
| Sync engine, `lib/services/p2p_service.dart` | a `SyncSession` per peer, message cache, outgoing queue, channel | handlers of `head_exchange`, `message_request`, `message_response`, `incident_create`; retry timer; broadcast; connection | daemon, incident repository |
| Mesh side of the daemon, `p2p/discovery.go`, `pubsub.go`, `api.go` | seen ids, WebSocket clients | `HandlePeerFound`, `listenLoop`, `Broadcast`, `broadcastLoop` | libp2p |
| Incident repository, `lib/data/repositories/incident_repository.dart` | tables `incidents` and `sync_queue`, cache of polygons | report handlers, `createIncident`, `pushLocalChanges` | sync engine, backend |
| Tile prefetch, `lib/services/tile_prefetch_service.dart` | job and tile tables, tiles on disk, runners | `startJob`, `pauseJob`, `resumeJob`, `cancelJob`, `resumePendingJobs`, workers | prefetch screen, tile server |
| Message relay, `backend/app/services/peer_manager.py`, `message_worker.py`, `api/routes/peer_ws.py`, `sync_messages.py` | registry of WebSockets, table `messages` | connect with backlog, relay and receipt, disconnect, batch upload, sweep of the worker | clients of `/ws/peer`, pairing |
| Coordination, `backend/app/api/routes/incidents.py`, `sync.py`, `services/assignment.py` | incidents, responders and their workload, row locks | create and assign, update, batch upload | applications, notification queue |
| Notifications, `backend/app/services/notification_queue.py`, `core/events.py`, `api/routes/ws.py` | queue, subscribers, dictionary of connections | `enqueue`, `consume_forever`, `publish`, `broadcast`, connect, disconnect | coordination, clients of `/ws/alerts` |
| Pairing, `backend/app/api/routes/pairing.py` | list of timestamps per address, one-time tokens | rate limit, issue, redeem | message relay |
| Peer discovery, `backend/app/services/mdns_*.py`, `client_connector.py`, `main.py` | advertised record, table of servers, connector | advertise, refresh, recover; browse; discover and connect, reconnect, shut down | mDNS, message relay |
| Server channel, `lib/core/ws_service.dart` | channel, back-off, queue | connect, reconnect, flush | backend |
| Routing, `lib/controllers/route_controller.dart`, `lib/services/route_cache_service.dart` | current route, LRU cache | overlapping requests | OSRM |
| User interface, settings, authentication, parsing, migrations, demos | none with a protocol | | |

### What is hard in it

* *Ordering.* Envelopes arrive late, twice or before what they depend on; the
  causal logs must hold them back, never forget them and release them at once.
* *Two logs of one history.* Application and daemon keep logs that are fed by
  different paths: what an application gets by a `message_response` its daemon
  records only as one envelope, not as the messages in it.
* *Interleaving handlers.* The repository starts a database handler for every
  event and awaits none; each handler reads, decides and writes in separate
  database operations.
* *Races around pause, resume and recovery* of the tile workers, which only look
  at their flags between downloads.
* *Loss and retries* of requests and answers, under an iteration limit.
* *Crashes* between two database writes, between a broadcast and the transaction
  that stores its incident, or in the middle of a download.
* *One event loop, blocking calls* in the backend: handlers interleave only at the
  awaits that write to a socket, may hold a database session across them, and stop
  the whole process when they wait for a row.
* *Several processes on one database*, whose handlers read, decide and commit in
  separate statements.
* *Threads* in the one component whose handlers are plain functions (pairing).

### What makes each component correct

* Gossip logs: causal order and at-most-once emission; nothing ready waits; the
  announced heads cover the log; a pending message leaves only towards the log;
  everything a pending message waits for was asked for.
* Sync: one causally closed log per application whatever the path; a late joiner
  catches up with the history; requests and answers come to an end.
* Incidents: a row never steps back but for decisions that another write overtook;
  every handled report has a row; equal reports give equal rows and equal polygons.
* Tiles: what is called available is on disk; progress and completion are not
  overstated; cancel is final; a running job has somebody working on it.
* Message relay: a stored message is never lost and never undelivered again; what
  counts as delivered was handed over; receipts and answers are true; a live
  connection stays in the registry; what is queued for a connected user is delivered.
* Coordination: workloads count the automatic assignments; older edits do not replace
  newer ones; a stored incident is announced; an upload can be repeated.
* Notifications: events reach every client that stays, in order.
* Pairing: no more tokens than the limit in any window, and no request refused below
  it.
* Discovery: a server that is gone leaves the table, one that runs is advertised
  again after a failure, a lost connection is retried.

## 2. The modules

| Module | Models | State and actions |
|---|---|---|
| `CausalDelivery` | abstract specification of both logs | `submitted`, `out`; `Submit`, `Deliver`. Promises `AtMostOnce` and `InCausalOrder`. |
| `GossipLog` | `gossip_log.go`, reader of `outChan` in `api.go` | `log`, `pending`, `heads`, `outChan` as in the code; `mu` is the mutex. `Receive`, `RecordSent`; one step for each iteration of `tryApplyPendingLocked`; `Read` runs without the mutex and so in the middle of a scan. Non-blocking send: a full channel drops. |
| `GossipLogService` | `gossip_log_service.dart` | `_log`, `_pending`, `_heads`; a round of `_tryApplyPending` is a snapshot (`toApply`) and one step for each of its messages. |
| `MeshSync` | `p2p_service.dart` with the daemons of all devices | for each device the application's log, pending set and sessions and the daemon's log, pending set and heads; `net` is the set of envelopes on their way. History variables: `dropped`, the incidents an application missed on the way from its daemon, and `cutOff`, the sessions that heads have ended while they waited for an answer. One action per kind of envelope, `PeerFound`, `Create`, `Tick` (retry timer), `Lose` (the network), `Miss` (the way from the daemon). |
| `IncidentMerge` | the merge rule | `StatePriority`, `Wins`. |
| `IncidentStore` | `incident_repository.dart`, `polygon_cache_service.dart` | `rows`, `syncQueue`, `polygons`; `ops` is the database's queue of operations, each of which carries the continuation of its handler; `pushes` in flight. `overtaken` is a history variable: the ids with a row that changed between a handler's select and its write, or that the server answered for. |
| `TilePrefetch` | `tile_prefetch_service.dart`, `tiles_repository.dart`, the buttons of the prefetch screen | job row, tile rows, files; the runner in `_activeJobs`, its flags and the program counter of each worker. History variables: `crossed` (cancelled in the middle of a resumption or recovery), `stranded` (the last start found a runner about to leave), `meddled` (a runner worked while another was about to be started). |
| `StoreForward` | abstract specification of the relay | `table`, `handed`; a step may queue, hand over and mark any messages, but `Advance` says what may become of each. |
| `MessageRelay` | `peer_manager.py`, `peer_ws.py`, `sync_messages.py`, `message_worker.py` | `table` and `born` are the rows; `user` is `_ws_user`; `line` the state of each client; `task` the handler of each socket, each upload and the worker, with the rows of its session that are not committed. A step is what runs between two awaits (`SendNext`/`EndSend` around a write, `EndList`, `EndRelay`, `EndUpload` the commits); `MidTurn` keeps other tasks out until the running one awaits; `frozen` is a loop that waits in the database. |
| `Coordination` | `incidents.py`, `sync.py`, `assignment.py` | `row`, `workload`, `lock` are the database, `turn` the handler of each process with its session. A step is one database statement: `Create`/`Lock`/`Assign` or `AssignNone`; `ReadForPatch`/`Patch`; `StartSync`, `Merge`, `Insert`, `Clash`, `EndSync`. |
| `EventFanout` | `notification_queue.py`, `events.py`, `ws.py` | `queue`, the consumer's job and its place in the loop of `broadcast` (`current`, `visited`, `stale`, `changed`, `size`), `connections`; clients come and go at every write. |
| `Pairing` | `pairing.py`, `_validate_pair_token` of `peer_ws.py` | `store` is the list of one address; a thread goes through `Prune`, `Store`, `Decide`, `Count`, `Issue`. |
| `ClientMode` | `mdns_advertiser.py`, `mdns_discovery.py`, `client_connector.py`, start and shutdown of `main.py` | `adv` and `record` for each server; `known`, `pending`, `table`, `found` of the browser; `auto` is `discover_and_connect`, `conn` the connector with its reader and its reconnection, `closing` the shutdown. |
| `*Proofs` | theorems | see section 5 |
| `MC*` | dependency graphs, reports, devices, jobs for TLC | |

`GossipLog` and `GossipLogService` each implement `CausalDelivery` (`out` is what
was emitted, `submitted` what was recorded). `MeshSync` composes the two logs,
each receive with its scan as one step; that this loses nothing is what
`NothingReadyIsPending` and `HeadsAreTips` of the detailed modules say.
`MessageRelay` implements `StoreForward` (the two variables have the same names and
meaning in both). Definitions whose comment begins with "Wrong:" are the mutants of
`PROJECT.json`: a plausible error in the code, with which the property it is listed
for fails.

### Abstractions and assumptions

* Lamport clocks of envelopes are left out of the logs: nothing in them compares
  clocks. In `MeshSync` a response is sorted by clock, but most of its messages
  carry clock 0, so every order is considered.
* `MeshSync`: the way from a daemon to its application belongs to the step that takes
  the envelope in, and loses any of what it hands on, up to `MaxMissed` envelopes: the
  code drops on a full `outChan` (`gossip_log.go` 128), on a failed write to the
  WebSocket and without a client (`api.go` 131). The way back, `POST /broadcast`, loses
  nothing. In `Spec` no envelope has to be delivered, so that what the network loses
  is what stays on its way; `LossySpec`, with fairness, loses envelopes by `Lose`. Ids
  of requests and responses are made from the time in milliseconds; the requests of one
  handler share an id, as in the code, while different handlers are taken to run in
  different milliseconds. The caches of 1000 ids never fill. The devices that have met
  form one connected mesh. Nothing in the repository sends a `sync_request`, so its
  handler is left out. Restarts and the outgoing queue are not modelled.
* `IncidentStore`: drift runs on one connection and executes operations in the
  order they were issued, so `ops` is FIFO. A polygon is identified with the row
  it was made from. A row's `reporterId`, which only an insertion sets, is left out.
* `TilePrefetch`: one job. A database statement takes effect in the step that
  issues it and what follows its `await` is a step of its own; the two statements
  of `markTileInProgress` are one step; the database does not fail. The queries have no
  `ORDER BY`, so a batch is a set whose tiles are seen to in any order. The user may
  tap, and the process die, at any time: also while the paused runner still downloads,
  and during a resumption or the recovery at start-up.
* `MessageRelay`: the registry's `asyncio.Lock` is never held across an await and the
  bus has no subscriber for message events, so only writes to sockets suspend. A
  write to a client that left unnoticed may succeed or fail. The backlog of a
  connection is ordered by Lamport numbers that clients choose: any order. Sockets are
  not reused while a task still holds them. Malformed messages and pings change
  nothing. The rows a session has flushed are locked until its commit (PostgreSQL's
  unique index).
* `Coordination`: the handlers await nothing that suspends, so a process runs one at a
  time; the interleaving is that of several processes. `InProgress` and `Cancelled`
  are treated like `Resolved`: no handler tells them apart. The content of a row is the
  time of the edit it comes from, and clients' clocks are right. A merged row is written
  at the commit of its upload. The flush of a later item may write it, and lock it,
  earlier: this removes interleavings, and lets two uploads deadlock, which for the
  rows is like a crash of one of them.
* `EventFanout`: its specification is `FanoutSpec` because `CoordinationProofs` extends it
  beside `Coordination`, which is what enqueues the events. Which of the incident events
  it is makes no difference. A dictionary changed to another size ends the iteration with an error; one changed and back to
  its size may pass over what was moved.
* `Pairing`: one address; the clock stands still during a check. The list of times is a
  set of numbered entries: the code asks for its length and what is old in it.
* `Pairing`: a redemption runs on the event loop of one process and does not await
  between its SELECT and its UPDATE, so that no two overlap.
* `ClientMode`: an updated record is handled like a new one; one update at a time
  waits for the loop. zeroconf, the network and the remote servers are external: records
  appear at and vanish from the browser some time after they do at the server, and any
  call may fail. `Admitted` says whether servers accept the WebSocket: they do for a
  connector with a token; that of the start-up has none, so in a deployment without
  further changes its connection is refused. The run takes `Admitted = TRUE`, the case
  in which there is a connection to lose.

## 3. The runs

Every module's actions fire in its runs. Deadlock is not checked: each model has
finitely many messages, reports, taps or faults, and the system may stop when all of
them are used up.

| Run | Instance | Shows |
|---|---|---|
| `gossip_log` | all acyclic graphs on 4 messages, 2 of them own, channel of 1 | nothing ready waits, the announced heads cover the log, clients read in causal order even when the channel overflows, what is complete is applied, `ImplementsDelivery` |
| `gossip_service` | all acyclic graphs on 5 messages, 2 own | nothing ready waits, nothing is waited for without being asked for, own messages cover the log, `ImplementsDelivery` |
| `incident_concurrent` | 4 batches on 2 incidents, an own incident, server answers, a push, restarts; 3 operations of overlapping handlers in the queue | `HandledIsStored`, `PolygonFollowsRow`, `RowIsMaximal`, `OnlyOvertakenRollBack` |
| `incident_rollback` | the same without server answers | TLC refutes `NoRollback`: see section 4 |
| `mesh_safety` | 2 devices, 3 incidents made at any time, delay and reordering without limit, 2 envelopes missed by an application, retry timer at any time | causal closure across both paths; what an application missed holds back nothing but itself and what builds on it |
| `mesh_live` | the same with the history made before the devices meet, loss in the network and 1 missed envelope, retry timer after the network is quiet | what is waited for is still asked for, a late joiner catches up unless an envelope is lost, the exchange ends |
| `tile_prefetch` | 2 tiles on 2 zooms, 2 workers, any download may fail, 2 taps or process deaths at any time | files behind the tables, completion and progress, cancel is final, a running job has a runner, the job comes to rest |
| `message_relay` | 2 users, 2 sockets, 2 messages for a user, for everybody or for nobody known, 2 uploads and the worker, 3 submissions, 1 fault (client vanishes, commit fails or process restarts) | `LiveIsRegistered`, `ReceiptsAreTrue`, `AnsweredIsStored`, `ImplementsStoreForward`, `QueuedIsDelivered` |
| `coordination` | 2 processes, 2 incidents, 2 responders, uploads with client ids, stored, unknown and no record ids, 4 requests, 1 crash | `WorkloadCounts`, `StoredIsAnnounced`, `NeverOlder`, `RepeatSucceeds` |
| `event_fanout` | 3 events, 2 clients, 3 connections | `SeenInOrder`, `EventsArrive` |
| `pairing` | 3 threads, window of 2, limit of 2, 4 tokens, clock up to 4 | `WindowRespected`, `NoFalseRefusal` |
| `client_mode` | 2 servers that may also update their record, a client, 2 attempts, 2 failures | `GoneLeavesTable`, `LossIsRetried`, `AdvertisedAgain` |

### Bounds, and why they are enough

* Four messages give every shape of graph that matters to a log: chain, fork,
  join, a message whose parent waits for its own parent, and two own messages in
  the wrong order. The application's log needs a fifth so that two own messages
  meet a chain of peers' messages. Capacity 1 makes the channel overflow.
* `MaxOps` bounds the database queue: 2 is enough for a race between two handlers, 3
  for a third write, of a creation or the server's answer, between them.
* `MaxIter` is 10 in the code. It is scaled to 2 or 3 for a history of two
  generations, so that the limit is reached in `mesh_safety` and not needed in
  `mesh_live` by a sync that loses nothing. `MaxFound` lets each device discover
  the other once. `MaxMissed` 2 lets an application miss an incident and one that builds
  on it, or an incident and an answer. `MaxMeta` bounds the ids of sync envelopes and is not reached in
  either run.
* `MaxAttempts` of a tile is 5 in the code. Each try counts twice, and 3 still allows
  a retry. `Limit` is the batch size (16 in the code). Two events make pause and resume,
  pause and cancel, a tap and a process death, or two process deaths. `MaxRunners` is 1:
  a second runner beside a working one only exists after a cancellation in the middle of
  a resumption or of the recovery. The proofs, for any number of runners, show that
  (`Alone`) and cover it.
* Relay: two messages and `BatchSize` 1 (50 in the code) let one message crowd out
  another; two sockets may belong to one user or to two; two uploads of the same
  messages meet each other's uncommitted rows; three submissions allow a duplicate
  on top. With one fault, what happens after a restart and after a failed commit are
  both seen, not their combination.
* Coordination: two processes are enough for every race between two statements, two
  responders for one of them to be locked, `Weight` and `Distance` are such that
  workload changes who is best. Uploads share identifiers in opposite order, so that
  two processes can wait for each other.
* Fan-out: three connections let a client leave, come back and meet a second one
  during one broadcast; three events let the queue hold one while another is sent.
* Pairing: a window of two ticks within four lets timestamps leave it; three threads
  let two fill the list between a third one's pruning and its appending.
* Client mode: an update comes when the loop has handled the events before it, so that
  the browser's queue is bounded by the other events. `MaxAttempts` is 3 in the code, 2 shows a retry and the last one; two
  faults let a recovery fail, or a server vanish while the client reconnects.

### Fairness

* Logs: `Scan` (a goroutine that holds the mutex, or an event handler, goes on) and
  `Read` (`broadcastLoop` never stops). Nothing is assumed about arrivals.
* Incidents: the database executes what is queued. Only safety is checked there.
* Mesh: `Deliver` (an envelope that is not lost is delivered) and `RetryLate` (the
  periodic timer fires). In these specifications the timer fires only when the
  network is empty: a network that delivers within the timer's second.
  `LossySpec` adds loss at any time. `Spec`, which `mesh_safety` checks and the
  proofs also cover, restricts neither the timer nor the network.
* Tiles: `Service`, which is whatever the event loop has ready; a download ends by
  its 15-second timeout. The user and process death are not fair.
* Relay: a turn comes to its end, the worker wakes up (`SCAN_INTERVAL`) and its writes
  end. Clients, connections, uploads and other writes are not fair, so that
  `QueuedIsDelivered` rests on the worker alone.
* Fan-out: the consumer is a task that runs as long as there is a job.
* Client mode: timers fire, tasks that are ready run, a record without a server expires
  and the browser learns of what is on the network. Servers, faults, the start and the
  shutdown are not fair.

## 4. Where the properties stop

Several properties carry a condition, or a constant restricts what they are checked
for. Each marks a behaviour of the code for which TLC refutes the property without it, and
the hazards in `PROJECT.json` whose behaviour is excepted, wholly or in part, say so in
their notes:

* `NoRollback`, the claim "Prevented state rollback under concurrent and out-of-order
  updates" (`PROJECT_TIMELINE.md` 1100), is refuted in `incident_rollback`: two overlapping
  handlers both read the row, and the update of the lower state may come last and take a
  RESOLVED incident back to ASSIGNED. What the merge does keep is `OnlyOvertakenRollBack`
  and `RowIsMaximal`: nothing else than such an overtaken decision, or the server's version
  of the row, takes it back.
* `HandledIsStored` speaks of reports whose handling began. When the insert of one fails
  the reports after it in its batch are not handled.
* `PolygonFollowsRow` excepts the rows that hold the server's version, which is stored
  without a new polygon, and after a restart the rows without a polygon.
* Two reports of the same state, clock and priority leave each device with the one it saw
  first; the merge commutes only for reports of different rank (`MergeCommutes`).
* `WaitedForIsAskedFor` excepts a session that was cut off: heads of the peer that arrive
  while a request is out, and hold nothing new, set `syncComplete`
  (`_handleHeadExchange`, `p2p_service.dart` 216-221), and the timer no longer repeats the
  request. `PROJECT_TIMELINE.md` (1080) speaks of termination "when no missing messages
  remain". It takes three devices, so that a peer's heads can become known by way of
  another: TLC finds the violation there in an instance too large for a run, and
  `mesh_live`, with two devices, never gets to it. The proof covers any number.
* `OnlyMissedHoldBack` names what the code does not repair: an incident that was missed
  between a daemon and its application (a full `outChan`, a failed write, no client) comes
  again only in answer to a request, and what builds on it waits for that.
* `HistoryCatchesUp` is about the history made before a device joins. What the
  application learns by a response its daemon does not, so that a later incident
  that builds on it waits in the daemon for good. No property covers that direction.
* `RunningHasRunner` excepts the start that found a runner about to leave (`stranded`): a
  job resumed while the paused runner still downloads, or before `onComplete` of the
  finished one, stays `running` with nobody at work. The comment at
  `tile_prefetch_service.dart` 318 speaks of the call that allows the restart, not of a
  resumption that comes before it.
* `CompletedIsSettled` and `ProgressNotOverstated` except jobs whose tiles were reset or
  enqueued while a runner worked (`meddled`): the last marks of a paused runner may come
  after the reset and the job completes without those tiles, or a tile is reset while its
  worker still downloads it and is counted twice. The recovery at start-up does this to a
  job the user has just started. A failed tile counts as given up, also when `isDone` was
  set before it failed; and a job whose enqueueing was cut short by a process death is
  complete without the zooms that were never enqueued.
* `CancelIsFinal` excepts a job that is cancelled between two statements of a resumption or
  of the recovery (`crossed`), which goes on and starts a runner. `SettledHasFile` has no
  exception.
* `ReceiptsAreTrue` and `AnsweredIsStored` except messages for ids that are no user's:
  the failed foreign key is taken for a duplicate, the sender is told `queued`, and in
  an upload the rollback takes the items before it along.
* `QueuedIsDelivered` excepts a message that `BatchSize` older ones keep out of the
  worker's query, and a frozen loop: an upload keeps its flushed rows across an await,
  and an insert of one of them by another handler blocks the only thread that could
  commit the upload.
* `NeverOlder` and `WindowRespected` hold while no two handlers, or checks, overlap:
  the comparison and the write are separate statements.
* `RepeatSucceeds` needs a client id or the id of a stored record in each item. Without
  them, or with an id that no record has (the new row gets one of its own, `sync.py` 104),
  the repeated upload runs into the unique identifier and is refused.
* `StoredIsAnnounced` excepts crashes between commit and `enqueue`. Its converse does
  not hold: events of an upload are enqueued before its commit.
* `EventsArrive` excepts the clients that were not visited when the dictionary of
  connections changed under a broadcast.
* `LossIsRetried` promises one attempt. If it fails nobody makes another; and a
  reconnection under way when the client shuts down opens a new connection after it.
* `GoneLeavesTable` is about a running discovery: an addition handled after `stop`
  stays in the table.

## 5. The proofs

All theorems hold for every value of the constants that satisfies the named
assumptions, which TLC evaluates on each run.

* `GossipLogProofs`: the inductive invariant `IInv` adds to the stated properties
  that the log is exactly what was recorded or emitted and that nothing pending was
  emitted (`LogHistory`). Without it `Receive` could not be shown to emit a new
  message. From it: types, causal closure, nothing ready waits, heads cover the
  tips, nothing is forgotten, and every step is a submission, a delivery or a
  stutter of `CausalDelivery`. `EmissionsAreCausal` combines the last with
  `CausalOnceDelivery`, the theorem that the abstract specification keeps both of its
  promises. `ReadsAreCausal` needs `LineOK`: what was read, followed by what is in the
  channel, is in causal order but for what was dropped. Assumes only that own messages
  are messages, that the graphs are graphs and that the channel has room for one; cycles
  are allowed.
* `GossipLogServiceProofs`: `IInv` adds that the rest of a snapshot is still ready
  (`SnapshotReady`) and `HeadsGenerate`: every set closed under parents that
  contains the heads contains the log. This states reachability without an
  induction over the graph, and gives `OwnCoversLog`.
* `IncidentStoreProofs`: the merge rule is transitive, idempotent, and commutes for
  reports of different rank; `ReportsAreStored` proves `HandledIsStored` together
  with the types for every interleaving. `OnlyOvertakenRowsRollBack` and `RowsAreMaximal`
  hold for any number of overlapping handlers, pushes and answers: the invariant says that
  for a row that was not overtaken every decision in the queue is still right, and that
  whatever was handled does not beat the row or is still to be written.
  `PolygonsFollowRows` rests on `Mending`: for a row whose polygon is out of date some
  operation is queued whose continuation writes the polygon of the row as it will then be.
  It is stated under `FreshId`: an incident is made under an id that no row and no other
  incident being made has. Ids are the time in milliseconds, so two devices can break
  this; in the run there is one own incident.
* `MessageRelayProofs`, for any number of users, sockets, uploads and (finitely many)
  messages. `IInv` says what a session holds between two awaits (`SessionOf`): the rows it
  marked were handed over, the rows it inserted are in no other session and not in the
  table; that a message is relayed from its row (`RelayOf`); and that each message of an
  upload for users is still to do, in its session or in the table (`UploadOf`). Without
  `SessionOf` a rollback could make a receipt false and a commit could overwrite a row
  another task has delivered. From it: `LiveIsRegistered`, `ReceiptsAreTrue`,
  `AnsweredIsStored`, that what is delivered was handed over, and that every step, with
  all rows of its session, advances the rows as `StoreForward` allows.
* `CoordinationProofs`, for any number of processes, incidents and responders. `IInv`
  says that an incident being assigned belongs to one handler, that the responder it chose
  is locked by it and the workload it read is the present one (`AssignOK`); that rows
  flushed by an upload are announced and in no other session (`PendingOK`); that each item
  of an upload is still to do or has found its record (`UploadOK`), which is what lets it
  be repeated; and that as long as no handlers overlapped the one that runs knows the
  newest edits (`AloneOK`). From it `WorkloadCounts`, `StoredIsAnnounced`, `NeverOlder` and
  `RepeatSucceeds`; `Assign` adds one to a cardinality, which is where the lock is
  needed. Assumes that `None` is neither a responder nor a process.
* `TilePrefetchProofs`, for any zoom levels, workers, runners, taps and crashes, at any
  time; no theorem has a hypothesis beyond `Spec`. The invariant has layers. Types,
  `FilesOK` (what is about to be marked as downloaded is on disk), `JobOK` and `ServeOK`
  (a worker leaves only a runner that was told to stop, and a running job has a runner
  that was not, or is stranded) hold always and give `SettledHasFile` and
  `RunningHasRunner`. `CancelOK` holds until a job is cancelled in the middle of a
  resumption or of the recovery: at most one runner works, it is the one in `_activeJobs`
  unless the job was cancelled (`Alone`); hence `CancelIsFinal`. `TileOK` holds until a
  runner works while another is about to be started: one worker fetches at a time, every
  tile in progress is in the batch, in the queue or in the hands of exactly one worker, and
  none of these is settled. Without it a tile could be settled twice but counted as one,
  which is what `ProgressNotOverstated` excludes, and a runner could complete the job over
  a tile nobody holds (`CompletedIsSettled`).
* `CoordinationProofs`, second part: `EventFanout` for any clients and bounds.
  `QueueOK`: what waits is newer than what is published and in order; `SeenOK`: a client
  was told of nothing that waits, nor of the event being published unless the loop is done
  with it. A connection made during the broadcast starts with nothing seen, which is why
  the loop may come to it. Assumes that no client is called "none".
* `MeshSyncProofs`, for any number of devices, incidents, discoveries and missed
  envelopes, with envelopes lost, delayed and reordered at will (`Spec` and `LossySpec`). The core is `AppOK`, said of each application: its
  log is closed, nothing pending is ready, what counts as received is in the log or
  waits, and what a pending incident waits for was asked for. A handler takes its messages
  one after the other, so `AppOK` has a parameter, the messages that count as
  received but are not in yet, and each handler is shown to keep it step by step: a
  recursive function on the sequence exists (`Chain`) and what each step keeps holds at
  its end (`StepByStep`), both from the well-foundedness of `<`. The rest of `IInv`:
  what the daemon has applied and the application has not was missed or builds on what
  was (`HandedOK`, which needs that the daemon emits in causal order), only incidents have the ids of incidents, and no
  incident builds on itself. From it types, `CausallyClosed`, `OnlyMissedHoldBack` and `WaitedForIsAskedFor`.
  Assumes only how incidents are named (device, kind, number), so that no envelope of the
  sync protocol has the id of one.
* `PairingProofs`, for any number of threads and any window, limit and lifetimes.
  `ListOK`: the list holds accepted requests only, and none that is old when its length
  decides, hence `NoFalseRefusal` even for checks that overlap. `AloneOK`: as long as none
  did the list has all of the window, hence `WindowRespected`; `ServingOK` and `AcceptedOK`
  make a request between its entry and its token count once.

Types, causal closure of each log, the exact heads of the application's log, that
nothing pending is forgotten and that delivered means handed over are stated in the proof
modules' specifications and proved; the runs do not repeat them. Each `IInv` was checked
with TLC on the run's instance before it was proved.

Only model-checked:

* everything with fairness (`CompleteIsApplied`, `HistoryCatchesUp`, `Quiesces`,
  `ComesToRest`, `QueuedIsDelivered`, `EventsArrive`, all of `ClientMode`), which is out
  of the prover's reach.

Every invariant a run checks is also proved.

## 6. The plan

Proofs:

1. `MeshSync`: the measure behind `Quiesces`, that the retries left and the ids not yet
   asked for only decrease.
2. `ClientMode`: an invariant that ties `table` to `known` and `pending`, the safety part
   of `GoneLeavesTable`.
3. `EventFanout`: that a client with no change of the dictionary during a broadcast is not
   passed over (the safety part of `EventsArrive`).

Models:

1. `Outbox`: connection, outgoing queue and flush of `p2p_service.dart`, with loss of
   the daemon; restart of the application between broadcast and transaction.
2. `WsService`, and `RouteController` with its LRU cache.

## 7. Not modelled

* Server channel, routing and the outgoing queue of the application: see the plan.
* The ring of seen ids and the set of WebSocket clients of the daemon, and its restart:
  the log is checked with re-delivery at any time, which is what the ring would let
  through.
* A restart of the application between the broadcast of an incident and its
  transaction: it needs `IncidentStore` and `MeshSync` together, whose product is beyond
  TLC for any instance with two devices.
* `release_responder`, the rate limiter of `incidents.py`, `_ws_bridge`,
  `send_personal_message`, `unsubscribe` and the handler of `sync_request`: nothing in
  the repository calls them.
* Geometry of routes and polygons (floating point), rendering, HTTP and platform
  wrappers, CAP parsing, settings, password hashing, migrations, demonstrations and
  container files: none has a protocol of its own. libp2p, drift, zeroconf, PostgreSQL
  and the tile server are external and modelled by how the code uses them.
