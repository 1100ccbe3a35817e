# A TLA+ model of metahub-app-service

This directory models the concurrent core of the service in TLA+, model-checks it
with TLC on small instances and proves the central facts with TLAPS for instances of
any size.  Every definition that stands for code is listed in `PROJECT.json` under
"map" with the lines it translates.

Contents: 1 inventory, 2 the modules and the code, 3 runs, bounds and fairness,
4 what the runs found, 5 what is proved, 6 what is only model-checked, 7 what is not
modelled, 8 plan.

## 1. Inventory

The service is one FastAPI process (`Dockerfile`: gunicorn with one uvicorn worker),
hence **one asyncio event loop plus a thread pool**.  Two kinds of code run in it:

* `async def` endpoints, WebSocket handlers, agent runs and scheduler jobs run on the
  loop.  They call SQLAlchemy synchronously, so *everything between two awaits is
  atomic*, database work included, with respect to other loop code;
* plain `def` endpoints run in the thread pool and interleave at every statement,
  with each other and with the loop; the database isolates them only at
  READ COMMITTED.

State is in PostgreSQL and in process-wide singletons which a restart empties.

| Component | State | Operations | Interacts with | What is hard | What makes it correct |
|---|---|---|---|---|---|
| **IM gateway** `service/im_connection.py`, `router/v1/im_gateway.py` | `_connections`, `_pending_requests`, `_request_owners`, a lock; per handler `registered_sources` | connect, replace, disconnect, send_to_bridge, resolve_request | bridges over WebSocket; callers: send endpoint, agent tools, auto reply, scheduled messages | replacement races cleanup; close() awaited under the lock; answer, timer and disconnection race for one Future | tables agree; no stranded call; no ghost connection; Future settled once; a new connection stays registered |
| **Stream sessions** `agent/stream_session.py`, `router/v1/agent_chat.py` | manager entry per topic; per run status, task, ring buffer, counter; queue per subscriber | chat, subscribe, stop, reconnect, TTL cleanup, shutdown | the agent (producer), SSE clients, frontend reconnection | replay against live events, overflow, cancellation before the first step, replacement of a run that goes on | in order and once; nothing missed silently; ended streams whole; every live run can be stopped; subscribers released |
| **Chat runs** `router/v1/agent_chat.py`, `agent/runtime/events.py` | translator's stack of subagents, collector, rows of the topic | fold of events; saving on done, interrupt, error, cancel; four routes | stream sessions, message rows, agent checkpoint | operations nested in subagents end in any order, or never; every route ends in its own ways; partial save against the next run | what was shown is stored; an operation's parts close it |
| **Scheduler** `scheduler/*`, `service/scheduled_task.py` | `scheduled_task` rows; APScheduler jobs in memory | create, update, pause, resume, delete, trigger, dispatch, load at start | thread-pool endpoints, loop dispatches, IM gateway | row and job are changed in separate steps by different threads; restart drops the jobs | active row has a job with its schedule; count exact and within `max_runs` |
| **Tokens** `service/auth.py` (API keys: `service/api_key.py`) | token rows | login, refresh (rotate), logout, purge | endpoints in the thread pool | two refreshes of one token at once; a logout of all beside a refresh | one successor per token; revocation is final |
| **Background tasks, search index** `service/background_task.py`, `service/search_indexer.py`, scripts | `background_task` rows, pool of threads; index and embedding rows | submit, run, cancel, progress; index, backfill, reindex, retry | new messages, scripts run by cron | cancel against the executor; two writers of one unique row; batches that become stale; crash while running | a completed task has done its work; vectors are not taken back; tasks end |
| **Sandboxes** `service/sandbox.py`, `router/v1/sandbox.py` | one row per session; remote sandboxes; the shell of a row | create, pause, resume, stop, kill; terminal WebSocket | remote sandbox service | awaits between read and write of the row | no remote sandbox or shell without a record; limit per user |
| **Agent and MCP cache** `agent/factory.py`, `agent/mcp/client_manager.py`, `service/agent.py` | cached services and tool lists, mounts | get, clear, clear parents; create, update, mount, delete agents | configuration endpoints | building across awaits while the configuration changes; clearing before or after a commit | a chat after a change sees it |
| **Client sync** `service/sync.py` | versioned rows, a client's cursor | push, pull | several clients | version check and write without a lock; a transaction's time is that of its begin; one cursor for several kinds | a finished pull is complete; deletions last |
| **Webhook and auto reply** `service/webhook.py`, `service/auto_reply.py` | sessions, messages, events | ingest, reply | IM gateway, agents | repeated delivery; two deliveries at once; a crash in the middle | one event per message |
| **Knowledge tree** `service/knowledge.py` | parent links, embeddings | create, move, delete, edit, vectorize | thread-pool endpoints, background tasks | check, then write; edits under a vectorization | every node is reachable; embeddings are those of the text |
| **Sessions, import and export** `service/session.py`, `service/session_transfer.py` | sessions, topics, messages, senders | create, delete soft and hard, export, import | each other | an export reads query by query; an import commits session by session | an imported conversation is a whole copy |
| **Workspace files** `router/v1/filesystem.py` | the agents' store | write, upload, mkdir, delete, move, mount | agents write to the same store | a move is a copy and a removal per file, each awaited and each able to fail | a move loses no file |
| **Searches, chunking** `service/search/*`, `service/context_retrieval.py`, `agent/tools/builtin/message_search.py`, `service/knowledge.py`, `service/chunking.py` | none of their own | hybrid search, contexts, cutting of documents | rows changed meanwhile by others | several queries, each of another moment; boundaries of windows and overlaps | fused lists keep ranks; contexts are whole; nothing deleted is found; no text is lost between chunks |
| Agent runtime and tools `agent/deep_agent_service.py` | LangGraph checkpoint | chat_stream, invoke | third-party libraries | belongs to LangGraph | - |
| Activities, settings, users, events, remaining CRUD | rows | single-row reads and writes | database | little that is concurrent | referential integrity (database) |
| React frontend `frontend/` | client state | - | REST, SSE | reconnection | resumes after the last id it saw |

The hazards behind the "hard" column are listed with their lines in `PROJECT.json`.

## 2. The modules and the code

### IMConnection

`IMConnection.tla` models `IMConnectionManager` and both kinds of coroutine that use
it.  An element of `Sockets` is one WebSocket connection *and* the invocation of
`im_gateway_ws` that serves it; an element of `Requests` is one call of
`send_to_bridge`, and its uuid.

| Variable | Code |
|---|---|
| `connections`, `pending`, `owner`, `future`, `lock` | `_connections`, `_pending_requests`, `_request_owners`, the Future's state, `_lock` while it is held across an await |
| `pc`, `user`, `want`, `target`, `registered` | the suspension point of the handler, its user, the sources it is still connecting, the one whose old socket it is closing, `registered_sources` |
| `open` | sends on the WebSocket succeed |
| `call`, `via` | the suspension point or outcome of the call, the socket it looked up |

An action is the code from one suspension to the next.  `connect()` is one action
(`Connect`) when the key is free, because an uncontended `async with` does not
suspend; with an old connection it is two (`CloseOld`, `Replace`) around
`await old_ws.close()`, the only await inside the lock.  `disconnect()` holds the lock
for one atomic stretch, so the cleanup loop of the `finally` clause is one action when
the lock is free (`LeaveLoop`) and one per source when it must wait
(`LeaveLoopAndWait`, `Disconnect`).  `send_to_bridge` is `Reject`, or `Begin`, then
`Sent` or `SendFails`, then `Awake` or `TimeOut`; the `finally` clause, `Return`, is
part of each exit.

### StreamSession and EventFeed

`StreamSession.tla` models one topic: all runs started for its task key, the entry of
the manager and the clients' SSE connections.  Topics share nothing but the manager's
dict, so one is enough.

| Variable | Code |
|---|---|
| `up`, `entry`, `started` | application running, `_sessions[task_key]`, runs created |
| `status`, `task`, `cancelling`, `stamped`, `counter` | `StreamSession.status`, the asyncio task, a cancellation asked for and not delivered, `completed_at`, `_event_counter` |
| `phase`, `conn`, `cursor`, `replay`, `queue` | the response's progress, its run, `last_event_id`, the copied buffer, the subscriber's queue |
| `got`, `base`, `lost` | history variables the properties speak about |

An event is its id: what it says matters to the collector only.  The ring buffer is
the last `BufferSize` ids and needs no variable.  The final save of a message is
synchronous, so a run's last events, status, and stamp change in one action (`End`).
`Cancel` only requests a cancellation; it is delivered by `Cancelled` - or by
`NeverStarts` when the task has not run yet, in which case Python never enters
`_run_wrapper`'s `try`.  `ChatElsewhere` is a message sent from a window that does not
stream here: it replaces the current run.

`EventFeed.tla` is what a stream session promises when nothing overflows: a log per
run that grows until it is closed, and readers that take the very next entry and end
exactly at the end of a closed log.  `StreamSession!IsFeed` is the refinement
(`INSTANCE EventFeed WITH`): buffer copy and queue together are a *position* in the log.

### TokenRotation

`TokenRotation.tla` models one user's rows of `user_token` under the requests of
`AuthService`, which are plain `def` endpoints: they run in threads and meet only in
the database.  The queries name a token or the user, so users share nothing.

| Variable | Code |
|---|---|
| `row` | the *committed* row: unissued, live (`is_revoked` false), revoked, purged |
| `expired` | `expires_at`, which is also the `exp` of the JWT, has passed |
| `lock` | the PostgreSQL row lock and the request whose transaction holds it |
| `pc`, `arg` | how far a request has come, the token it was sent with |
| `todo`, `hit` | a logout of all: rows of its UPDATE's snapshot not yet visited, rows changed and not yet committed |
| `parent`, `root`, `before` | history: exchanges, the login a token descends from, logins that existed when a logout of all began |

Waiting for a row lock is the guard `t \in Unlocked` of the action that needs the row,
and a waiter applies its WHERE clause to the row's version of *that* moment, as
PostgreSQL does at READ COMMITTED.  `Find` is the `SELECT ... FOR UPDATE`, `Rotate` the
one commit in `create_tokens` that writes old and new row together.  A logout of all is
`LogoutAll` (the snapshot), one `Sweep` per row, in any order, and `LogoutAllCommit`.
`Rollback` covers a crash of the process, a deadlock ended by the database and an
inactive user.

### TaskScheduler

`TaskScheduler.tla` models one task of one user: its row, its APScheduler job and
everything that changes either.

| Variable | Code |
|---|---|
| `up`, `starts` | the process and its scheduler run; how often it was started |
| `status`, `schedule`, `limit`, `count` | the columns `status`; `schedule_type`, `schedule_config`, `timezone`; `max_runs`; `run_count` |
| `job` | the job in APScheduler's memory: its trigger and whether it is paused |
| `pc`, `fresh` | the next statement of an API request, the schedule it has read back |
| `run`, `origin`, `loaded` | where a `dispatch_task` is, what started it, `run_count` as its ORM session holds it |
| `finished`, `raced`, `untouched`, `overlapped` | history the properties speak about |

API requests are `def` endpoints.  Each commits the row and then turns to the
scheduler, and the model lets anything happen in between: `Create` or `Update`, then
`ReadBack`, then `Register` (`Relimit` when no schedule column changes); `ReadStatus`,
`WriteStatus`, `ToggleJob`; `Unschedule`, `Delete`.  The agent's tools call the same
service functions.  An execution is `Begin` up to the handler's await, `Finish`, which
counts in the ORM session and takes the job away after the last run, and `Record`, the
commit.  On the application's loop nothing of another execution comes between the last
two (`LoopFree`); but the tool `trigger_scheduled_task` runs `dispatch_task` on a loop
of its own in a new thread (`ToolTrigger`), and there it can.  Every handler that
suspends commits first, which expires the task in its session; therefore
`task.run_count += 1` after the handler reads the row anew.  `Handle` says this, and
`FaultyHandle` shows that the count would be lost otherwise.  `Fire` and `Misfire` are APScheduler's part, modelled from the arguments
`_add_job` gives (`core.py:145-155`) and the library's default of one running instance
per job.  `Die` empties what was in memory, `Start` rebuilds it from the row.

### ChatStream

`ChatStream.tla` models the runs of the agent for one topic, whichever route asked for
them: "stream" (`chat_stream`), "plain" (`chat`), "resume" (`chat_resume`) and "socket"
(`chat_websocket`).  It composes what `StreamSession` leaves out, the *meaning* of
events: the graph's callbacks are translated (`OnToolStart`, `OnToolEnd`, ... are
`agent/runtime/events.py`), folded by the collector and stored at the end.

| Variable | Code |
|---|---|
| `route`, `phase`, `entry` | the endpoint, where the request is or how it ended, the manager's entry |
| `started`, `going`, `within` | the agent's operations: begun, not ended, and the subagents around each, the outermost first (LangGraph's `parent_ids`) |
| `active` | the translator's set of subagents; the first of an event's `parent_ids` in it is its parent |
| `collector` | text, parts, open operations and subagent children of `StreamingCollector` |
| `shown` | what the client was sent |
| `messages` | the topic's rows in the order stored |

`Conclude` is the common end of a run and `Complete`, `Interrupt`, `Raise`,
`SaveFails`, `Stopped` and `Depart` say who reaches it: `Raise` is an agent error,
`SaveFails` a database error at the end, `Stopped` the cancellation (deferred, as in
`StreamSession`), `Depart` the client who leaves a route that has no stream session.

### SessionTransfer

Rows of sessions, topics, messages and senders, beside an export and an import.
`ExportBegin`, `ReadTopics`, `ReadMessages` are the queries of an export; rows are
added and removed between them.  `ImportSection` is the transaction of one session of
the file, with the sender merged by name or by external id or made anew (`SenderFor`),
topics and messages re-keyed in the order of their old ids (`Ascending`, `PlaceIn`); `ImportFails` ends an import between or in sections.
`copyOf` and `from` are history.

### WorkspaceFiles

`fileStore` is one namespace of the store, `access` the awaits a request has passed.
`LookUp`/`Put`, `DeleteLookUp`/`DeleteOne` and `MoveLookUp`/`MoveCopy`/`MoveRemove` are
the awaited calls of write, delete and move; `EnsureMounted` the lazy copy of
configured files; any call may fail (`StoreFails`), and another request may come
between.  A failed copy leaves the source, because the code removes it last.

### RankFusion, MessageSearch, KnowledgeSearch

`RankFusion.tla` holds reciprocal rank fusion as operators, with scores scaled to whole
numbers so that ties are exact.  `MessageSearch` is the agent's tool `search_messages`:
`FuzzySearch`, `VectorSearch` (or `VectorSearchFails`, the fallback), then per hit the
context: the topic's messages (`TopicContext`) or the time window before and after
(`WindowBefore`, `WindowHit`, `WindowAfter`), one query each, while messages are
stored, indexed, moved and deleted.  `KnowledgeSearch` is
`KnowledgeService.search`: the scope is walked folder by folder (`Descend`), rows are
found, both queries run, and hits are fused by the key the code builds (`FusionKey`).
Both leave similarity open: a query may return *any* of the rows in scope in *any* order.

### Chunking

`Chunking.tla` is the splitter as recursion over texts: preprocessing, the list of
separators tried in turn (`Cut`), pieces gathered up to the size with an overlap
carried over (`Fill`, `TakeIn`, `PutAway`), windows of a text without separators (`Windows`),
and chunks of parents.  One action cuts an arbitrary text with an arbitrary
configuration.  The recursions are a recursive function over the separators, one over the
places of a text, and folds, so that the property can be proved.  A character is a sign and
its place, so a chunk tells which letters of the text it has.  As in the schema, separators
are any strings and the overlap is bounded by nothing but its own limit.  So the code does
not keep every letter (`chunking.py:69-76` drops a part that is blank together with its
separator), nor does every call return (`:55-65` never advances if the overlap is as wide
as a window).  `ChunksKeepText` names both exactly: `Loose` are the letters that may go, those
of a separator that ends nothing and one that stands alone before blanks as wide as a chunk;
`Endless` stands among the chunks of a call that goes on for ever, which only the empty
separator with such an overlap may bring about.

### ClientSync

| Variable | Code |
|---|---|
| `clock`, `record` | `now()`; version, `is_deleted`, `updated_at` of every committed row |
| `step`, `stage`, `left`, `held` | a batch: the item, the kind it is at, the write it is about to make |
| `begun` | when its transaction began, which is the `updated_at` it will write |
| `dirty` | rows the ORM session holds as changed although their item was refused |
| `wants`, `cursor`, `turn`, `count`, `newest`, `got`, `synced` | a client's pull, kind by kind, and its copy |

`Update` reads a row and compares versions, `Write` commits: another thread may come
between, as READ COMMITTED permits.  `PullKind` is the query of one kind.

### SandboxLifecycle and SandboxTerminal

`SandboxLifecycle` has a row per session and the remote sandboxes.  Each request is cut
at its awaits of the remote service: `CreateBegin` (checks and the row), `CreateRemote`
(the call), `CreateWrite` or `CreateFails`; likewise stop, pause, resume, and the
administrative kill.  `Expire` ends a remote sandbox by itself, `Die` is the process.
`SandboxTerminal` looks into one session: `Connect` reads the row, then the handler
checks (`TerminalCheck`), makes (`TerminalMake`), records (`TerminalWrite`) and attaches to
a shell, falls back or gives up, and `Handle` is its next step.  Every call may fail, before its
effect or after it: a deletion that does (`DeleteFails`) still takes the name from the row,
in a `finally`, and a creation that does leaves a shell without a name
(`TerminalMakeFails`).  A pause goes call by call (`PauseBegin`, `PauseDelete`, `PauseEnd`
or `PauseFails`), so a connection can come between; it only logs a failing deletion.  A
stop, a creation and a resume are one step each (`StopBox`, `StartBox`, `ResumeBox`): no
shell outlives a stop, and if its kill fails the whole sandbox is forgotten, which is
`SandboxLifecycle`'s matter.  Three history variables say what became of the shells that
are left: `failed` (a call about it failed, or the process died), `overwritten` (its name was
replaced by a handler that had not read it) and `single` (connections and pauses have kept
out of each other's way).

### KnowledgeTree

Requests and vectorization tasks are threads: read and check in one step, write at
commit in another.  A move's check for a cycle reads the committed ancestors
(`MoveRead`), its write comes later (`MoveCommit`).  An edit embeds the text it read
(`EditRead`, `EditCommit`); a vectorization lists a folder's leaves and embeds them one
by one (`SweepBegin`, `SweepRead`, `SweepWrite`).

### MessageIntake

A delivery, from a webhook (a thread) or a bridge (the loop), finds or inserts the
session and message (`IntakeStore`), indexes it in a transaction of its own that also
commits what was stored (`IntakeIndex`), and is analysed into an event (`IntakeEvent`,
`IntakeCommit`); a bridged one may be answered under the reply lock.  `IntakeCrash`
interrupts everything.

### AgentCache

A cached service is abstracted to the agents it was built from and those of them that
have changed since.  Requests commit and then clear the cache, or clear and then commit
(`SettingsClear`, `SettingsCommit`); chats build a service (`ChatBuild`), await its tools
and store it (`ChatService`, `ChatFetch`, `ChatFetched`).

### BackgroundIndex

| Variable | Code |
|---|---|
| `stored`, `indexing` | messages, and those whose own indexing is to come |
| `indexed`, `vector` | `message_search_index`, the status of its embedding |
| `kind`, `status`, `at`, `wanted`, `todo`, `done`, `offset`, `page`, `broken` | a task: its row, and the executor's position |
| `cancelling` | a cancellation that has read the row and not written it |
| `batch`, `stale` | the scripts for pending and failed embeddings |

Every executor is cut at its commits.  Two insertions of the same unique row are resolved as
PostgreSQL does: the second waits and fails, which breaks its ORM session.

### MC and proof modules

Components that share no state are checked in one run: the MC module adds a variable
`part`, chosen at the start and never changed, and only that part takes steps.  The
states of such a run are the *sum* of the parts' states, never a product.

| MC module | Parts |
|---|---|
| `MCConversations` | gateway, chat, transfer, files, messages, knowledge, chunks |
| `MCRecords` | sync, sandbox, tree, intake |
| `MCStreamSession` | streams, agents |
| `MCServices` | index, terminal |
| `MCLiveness` | streams, gateway |
| `MCTokenRotation`, `MCTaskScheduler`, `MCKnowledgeSearch` | one component, its symmetry or its tree |

`HybridSearch` joins the two searches, which share the fusion of ranks (`RankFusion`) and no
state, and says what holds of both.

The modules `...Proofs` hold theorems and proofs.  Definitions named `Faulty...` are
variants of the definition they precede with one plausible fault.  No specification
uses them; substituting one must break a property.

## 3. Runs, bounds, fairness

| Run | Part | Shows | Bounds and why they are enough |
|---|---|---|---|
| `conversations` | gateway | tables agree, no stranded call, no ghost registration, Futures settled once | one user, 2 sockets, 2 sources, 2 calls: both handlers can fight for one key while the other key is in use, and two calls share an owner key |
| | chat | `ShownIsKept`, `OperationsClose` | 2 runs over any routes, one tool, one subagent, 2 pieces of text, 4 events in all: a tool inside a subagent with text around it, a run replaced by another while its partial reply is unsaved |
| | transfer | `CopiesAreWhole` | one file, 2 sessions, 1 topic, 2 messages, two senders of one name; 4 session rows (a session imported twice), 4 changes between queries |
| | files | `MoveLosesNothing` | 2 requests, paths of depth 2 over 3 names, one of them `skills`; a folder, a file in it, a mounted file |
| | messages | `HitsWellFused`, `ContextIsWhole` | lists of up to 2 hits, 3 messages (two of the same time, one in a topic) and 2 changes meanwhile; window 1, top 2 |
| | knowledge | `HitsWellFused`, `NothingDeletedIsFound` | a folder with a document of 2 chunks, a dataset with 2 rows; 2 deletions |
| | chunks | `ChunksKeepText` | all texts of up to 5 characters over a letter, a mark, space, line end; chunk 2, parent 3, overlap 0, 1, 2 (as wide as a chunk) and 6 (half of it as wide as a parent), 8 lists of separators (blank, of marks, empty, as wide as a chunk), every mode; five characters are enough for a small split before one that is cut again and one behind it |
| `stream_session` | streams | order, accounting of every event, whole endings, stoppable runs | 2 runs of up to 3 events, 2 clients, buffer 2, queue 1: buffer and queue both overflow; a client returns to a run that replaced its own; one overflowing client leaves the other untouched |
| | agents | `CacheFresh` | 2 agents (one mounted on the other, or both), 2 requests that change them, 1 chat |
| `liveness` | streams | refinement of `EventFeed`; subscribers of an ended run are let go | 2 runs of up to 4 events, buffer and queue 4: never an overflow. One client: clients act on each other only through the manager, and `ChatElsewhere` and `Stop` give it every such influence |
| | gateway | calls over a dead socket end without the timer | 3 sockets on one key: one closes an old connection under the lock while two queue for it |
| `records` | sync | `QuietPullComplete`, `TombstonesStay` | 1 activity, 2 sessions, 1 topic, 1 message; 2 batches of 2 items in all, a client with pages of 1, 5 times |
| | sandbox | `NothingForgotten`, `WithinLimit` | 2 sessions of one user with a limit of 1, 2 requests, 2 remote sandboxes, a row replaced once |
| | tree | `TreeShowsAll`, `EmbeddingsFresh` | 2 folders, a dataset with a row, 2 threads: two moves, or an edit and a vectorization, meet |
| | intake | `EventOnce` | 3 deliveries of 2 messages, one of them indexed |
| `services` | index | `CompletedIsIndexed`, `VectorsStay`, `TasksEnd` | 2 messages, 2 jobs on 1 worker, pages of 1: every page boundary is met, and a job waits behind another |
| | terminal | `NoShellLost`, `TerminalSettles` | 2 connections, 2 shells at a time, any number of sandboxes one after the other: two handlers and a pause meet over one name, and a shell is made while another is left |
| `token_rotation` | | one successor per token, one usable token per login, finality of revocation | 3 tokens, 3 requests: two refreshes and a logout compete for one token; a login and two exchanges, which is what a fork would need |
| `task_scheduler` | | exact count, rebuilding at start, serial requests stop a task | 3 requests (create and two that overlap), 2 executions (concurrent; by job, hand or tool), 2 starts; a recurring, a one-shot and an invalid schedule; a limit of one or two runs or none |
| `im_connection_replace` | | *violated*: a replacement connection stays registered | 2 sockets, 1 source |
| `stream_release` | | *violated*: whatever ended a run, its subscribers are let go | 1 run that produces nothing |
| `token_logout_all` | | *violated*: after a logout of all no earlier login has a usable token | 2 tokens, 2 requests: one refresh in flight |
| `task_active` | | *violated*: between requests an active recurring task has a job with the row's schedule | 3 requests one after the other, 2 starts, 2 valid recurring schedules |
| `hybrid_hits` | | *violated*: a hybrid search lists a text once | a dataset with 2 rows |

Two runs check the conjunction of their parts' type invariants.  The type invariants of
`StreamSession`, `TokenRotation`, `TaskScheduler`, `AgentCache`, `BackgroundIndex` and
`SandboxTerminal` are theorems (section 5) and not checked again.

`CHECK_DEADLOCK FALSE` is set throughout: sockets, calls, runs and messages are finite
in number, so a part comes to rest when it has used them up.

**Symmetry** is declared only in runs without liveness and only for sets whose members
no constant tells apart: sockets and requests; clients, agents and managers; threads
and folders; tokens and requests.  Two parts of one run may use the same model values
(`r1`, `r2`); that is sound because no state has both parts active.

**History variables** such as `overlapped`, `mixed`, `calm`, `crossed`, `overtaken`,
`together` or `single` record the interleavings after which the code *does* break the
promise.  A property that excludes them states exactly how far the code's promise goes;
section 4 lists what happens beyond.

**Fairness.** What the code's scheduling gives: the event loop runs every ready
coroutine, an asyncio lock is handed to a waiter when it is free, a cancellation is
delivered at the next suspension, a send over a socket ends one way or the other, the
receive loop notices a closed socket, a thread of the pool goes on with its task
(`Execute`) and a terminal's handler with its calls (`Handle`), each of which ends or
fails.  All of it is *weak* fairness on the coroutine or thread concerned.  Weak
fairness on the lock is enough: every handler takes it a bounded number of times.
Nothing is assumed of peers (no answer need come), of the agent (it need not end), of
clients, or of timers (`TimeOut` and `Expire` may never happen), so the liveness results
do not lean on the 30 s timer or the TTL.  The other modules state no liveness and
assume no fairness.

## 4. What the runs found

* **A replaced bridge evicts its successor** (`im_connection_replace`).  Bridge B
  replaces A's connection; A's receive loop then ends and its `finally` clause calls
  `disconnect(user, source)`, which pops the key without asking who holds it
  (`im_connection.py:41`) and breaks B's pending calls.  B is connected, has registered
  and is unreachable until it reconnects.
* **A run cancelled before its first step streams for ever** (`stream_release`).
  `Task.cancel()` on a task not yet started throws into a coroutine that has not begun,
  so `_run_wrapper` never sets a status or `completed_at`
  (`stream_session.py:131-146`).  A subscriber loops on its 1 s poll for ever and TTL
  cleanup never removes the session.

* **A refresh survives a logout of all** (`token_logout_all`).  `logout()` without a
  token revokes with one UPDATE (`auth.py:265`), which sees the rows of its snapshot.  A
  refresh that already holds the old token's row commits the successor afterwards; the
  UPDATE waits for the old row, finds it revoked and never sees the new one.  The login
  goes on although the comment says that all tokens of the user are revoked.
* **A resumed task may have no job** (`task_active`).  `start()` loads active tasks only
  (`core.py:57`), and `resume_task` resumes a job only if there is one (`core.py:115`).
  A task paused before a restart and resumed after it is active in the table, which the
  module comment calls the source of truth, and does not run until the next restart.
  The same property also fails when a paused task's schedule is updated
  (`update_task` re-registers active tasks only, so a resume restores the job with the
  old schedule); that takes a fourth request, one more than the run has.
* **A row found twice is listed twice** (`hybrid_hits`).  `KnowledgeService.search` fuses
  by `node_id` and `row_id`.  A fuzzy hit of a dataset row carries the dataset's id as node, a
  vector hit carries none, so the two never meet: the row takes two of the `top_k`
  places, each with half its score.

Positive results a reader may doubt at first: `PendingHasHandler` holds *because of*
the first defect's over-eager cleanup (a call sent over a replaced socket is still
failed promptly); `InOrderOnce` holds across reconnections although ids start anew
with each run; and the lock is what makes `ReplacingHoldsEntry` true, not the order of
statements in `connect()`.  The order
"copy, then remove" per file is what `MoveLosesNothing` rests on when a call of the store
fails in the middle; beside concurrent writes it holds only for a move that was alone.

**Seen while modelling.**  The following is what the code does, present in the models
where they reach it, and excluded from the properties by the history variables named
above.  None has a run of its own.

* *Background tasks*: `execute_backfill` and `execute_reindex` read `result["success"]`,
  a key the indexer does not return (`background_task.py:303`, `:410`), so these tasks
  always end failed after doing their work; a backfill's offset runs over a query that
  shrinks and skips rows (`search_indexer.py:656`); a cancellation can be overwritten
  by running or completed (`background_task.py:191`); a script whose batch has become
  stale loses all its results.
* *Scheduler*: a run triggered by an agent's tool while another counts loses a run from
  `run_count`, so that a task can run more often than `max_runs`
  (`agent/tools/builtin/scheduled_task.py:502`).
* *Sync*: the cursor is the newest time over all kinds and skips rows of a kind whose page was
  cut (`sync.py:1047`), a strict comparison skips rows of the same time (`:929`), a slow
  transaction's rows are older than the cursor when they appear; two updates that both
  read one version both succeed.
* *Sandboxes*: a failed kill leaves the remote sandbox with no record that would stop
  it; a creation overtaken by a stop brings its row back; a shell is lost by two terminals
  at once, by a pause beside a connection, and by a single connection or pause whose
  `delete_pty_session` fails, since the row is cleared all the same
  (`router/v1/sandbox.py:728-737`, `service/sandbox.py:313-328`); `cleanup_on_session_delete` has no caller.
* *Knowledge*: two moves at once can form a cycle, which hides its nodes for good;
  `update_column` changes nested JSON in place, which the ORM does not notice; `PATCH
  rows/batch` is shadowed by `rows/{row_id}`; switching a folder's vectorization
  through `update_node` starts no task.
* *Intake*: a repeated delivery of a message that is not indexed creates its events
  again.
* *Agent cache*: services with sandbox tools are never cleared (`factory.py:171`); the
  settings endpoint clears before it commits; two opposite mounts at once form a cycle.
* *Chat*: after an agent error open operations stay open and a subagent's events are lost;
  `on_tool_error` is not translated; text streamed while an operation runs is stored
  after its result; a resumed run stores nothing when its client leaves; a stop frame
  on the WebSocket is read only between runs; the next question is stored before the
  replaced run's partial reply.
* *Transfer*: the JSONL of a ZIP bundle lacks the `_meta` line the import needs;
  sections are committed one by one, so a retry after a failure duplicates the earlier ones; a topic
  deleted while its messages stay is not exported; a hard deletion of a session with
  rows fails.
* *Files*: moving a file onto itself deletes it; moving a folder into its own subfolder
  loses items; `/skills` without a trailing slash is not read-only.
* *Searches and chunking*: deleted messages stay in the index (their context does not
  show them); the window leaves out other messages of the hit's very time; scores of the
  fallback and fused scores are not comparable, so one `min_score` cannot fit both;
  by default white space is collapsed before the separators are looked for, so the
  default separators never occur and a document without other ones stays one chunk; a
  separator that ends nothing is dropped, letters and all (with "." as separator "a..b"
  loses its second mark, `chunking.py:69-76`); a separator of blanks as wide as a chunk may
  drop a letter that stands alone before it; the empty separator with an overlap as wide as
  the chunk never ends (`:55-65`), and the page that edits a folder adds a separator as the
  empty one (`FolderDetail.tsx:98-102`).

## 5. What is proved

`tlapm ConversationsProofs.tla`, on the gateway - assumption: `NamesAssumption` (the null
values are not names).  For any sets of users, sources, sockets and calls:

* `TypeCorrect`, `TablesConsistent`, `NoStrandedCall`, `NoGhostConnection`,
  `ReplacementIsExclusive`: `Spec => []P` for the corresponding invariant;
* `FuturesSettleOnce`: the action property `FutureSettledOnce`.

They rest on one inductive invariant, `IInv`.  None of the interesting ones is inductive by itself.  That a
pending call has a handler (`PendingHasHandler`) needs that a registered key belongs to
a handler which will remove it (`RegistrationHasHandler`), to know that the socket the
call looks up is served; that in turn needs the lock discipline of
`HandlersConsistent` and `ReplacingHoldsEntry`, to know that the key under replacement
is not freed and taken again by someone who would then be overwritten; and that a
Future is settled once needs the two tables to agree (`CallTablesConsistent`).

`tlapm StreamSessionProofs.tla` - assumption: `SizesAssumption` (sizes are positive).
For any number of runs, clients and events, any sizes of buffer and queue:

* `StreamTypeCorrect`: `Spec => []TypeOK`;
* `NoOrphanRun`: `Spec => []LiveRunIsStoppable`, a live run is the manager's entry or
  already cancelled.  Inductive invariant: `RunsInv`, that is types, `RunsInOrder`
  (runs not yet created have no task and the entry is a created run) and the property.
  Without `RunsInOrder` a new run could reuse the number of a live one;
* `DeliveredInOrderOnce` (`InOrderOnce`), `NoSilentGap` (`NothingMissedSilently`) and
  `EndedStreamGaveAll` (`EndedStreamIsWhole`).  The inductive invariant is `FeedInv`: for
  each client, what it was given, what is to be replayed and what is queued increase in this
  order (`Ordered`), all of it stems from the run it is connected to (`OfRun`), and every
  event of that run up to the counter is in one of the three or in `lost` (`SeenOrLost`,
  `InHand`; `AllSeen` once the stream has ended).  None of the three properties says what the
  replay and the queue hold, which is what the next delivery depends on;
* `ImplementsFeed`: every step is a step of `EventFeed` or a stutter, when a queue has room
  for all events of a run (`QueueSize >= MaxId`).  Nothing is asked of the buffer: what it has lost
  before a client connects only moves the place where its reader joins, and the feed's
  `Join` allows any.  `GaplessInv` adds that replay and queue are the newest events of the
  run, without a gap, which makes their common length a position in the log.

`tlapm TokenRotationProofs.tla` - assumption: `NamesAssumption`.  For any number of
tokens and requests: `TokenTypeCorrect`, `ExchangedOnce` (`OneSuccessor`),
`ChainNeverForks` (`FamilyHasOneLive`), `LocksAreOwned` (`LocksProtect`) and
`RevocationSticks` (the action property `RevocationIsFinal`).  The inductive invariant
`IInv` is their conjunction with `RequestsConsistent` and `FamiliesConsistent`.  The
argument: a row is locked exactly by the request that will rewrite it, and stays live
while it is (`LocksProtect`); so the token a rotation exchanges is live, hence has no
successor yet (`FamiliesConsistent`: a token with a successor has ended), hence the
exchange gives it its first, and replaces the login's only live token by another.

`tlapm TaskSchedulerProofs.tla` - assumption: `SchedulesAssumption`.  For any number of
requests and executions, any schedules and limits: `SchedulerTypeCorrect`,
`NoRunUncounted` (`CountIsExact`), `RestartRebuilds` (`StartAgrees`) and
`SerialStopHolds` (`StoppedIsStopped`).  `IInv` adds `ProcessConsistent`, `CountsConsistent` and
`SerialRequests`.  A count is lost only if two executions count at once: an execution that
has counted alone holds the row's number (`CountsConsistent`).  `StoppedIsStopped` speaks of quiet states only, so it says nothing
of the states between two statements of a request; `SerialRequests` does: while one
request is under way, it re-registers or resumes a job only of a task that is not
stopped, and a paused task's job is live only until that very request pauses it.

`tlapm ClientSyncProofs.tla` - assumption: `SyncAssumption` (finitely many rows, a page holds
something).  For any rows, batches, clients and selections of kinds:

* `SyncTypeCorrect`; `DeletedForGood` (the action property `TombstonesStay`);
* `QuietPullsAreComplete` (`QuietPullComplete`).  Its invariant `SyncInv` follows the pull page
  by page (`GotSoFar`): a client of one kind has every row up to its cursor, and, once a page
  is fetched, every row up to the next one.  `Undisturbed` says what a calm pull excludes: a batch
  begun before the cursor, whose rows would appear behind it.  `Clocked` (no row or
  cursor is ahead of the clock) makes a row written from now on newer than either.

`tlapm RecordsProofs.tla` - assumptions: `SandboxAssumption`, `IntakeAssumption`,
`TreeAssumption` and those of `ClientSync`.  For any number of requests, sessions, sandboxes,
deliveries, threads and nodes:

* `SandboxesKept` (`NothingForgotten`) and `LimitHolds` (`WithinLimit`).  `SandboxInv` adds what
  a request under way knows of its row (`OpsInOrder`: a creation is alone with its row
  generation, a stop kills what the row names before it writes), that rows no longer active
  name nothing that runs (`ClosedRows`), and that the row a request acts on has been counted
  (`OpsOnActive`);
* `OneEvent` (`EventOnce`).  `IntakeInv` says that an indexed message has one row, and none as
  long as a delivery that found none is still to index it (`OneRow`);
* `EveryNodeShown` (`TreeShowsAll`) and `NoStaleEmbedding` (`EmbeddingsFresh`).  `Acyclic` speaks
  of *sets* of nodes (each has a member whose parent is outside), which needs no recursion over
  chains; a move under way keeps a set that holds its target's ancestors and not itself
  (`Clear`); `Replaced` says which thread embeds which text, with what to remove;
* `RecordsTypeCorrect` (`RecordsTypeOK`), for the composition `MCRecords`.

`tlapm ServicesProofs.tla` - assumptions: `IndexAssumption`, `TerminalAssumption`,
`AgentAssumption`.  For any messages, tasks, shells, connections, agents, mounts and chats:

* `TasksIndex` (`CompletedIsIndexed`) and `VectorsAreKept` (the action property `VectorsStay`),
  from `IndexInv`: an index task at work has indexed what it has come to unless its session is
  broken (`IndexedSoFar`), a script's rows have the status it looks for unless one was
  deleted (`BatchKnown`), no task counts beyond its messages (`Counted`), what a job holds
  is stored (`HeldRows`);
* `NoShellIsLost` (`NoShellLost`): of any interleaving of connections and pauses, a shell that
  nobody names was left by a failed call or a name written over; and without an overlap the
  latter never happens.  `TerminalInv` adds that no shell outlives its sandbox (`NoneOutlives`), what
  a handler knows before it makes a shell, or of a row that has been replaced (`Unread`), that a
  pause about to end has deleted what it read or failed to (`PauseDeleted`), and that as long as `single`
  holds one connection or pause at most has read the row, and what it has read is still its
  name, or there is none (`Apart`);
* `CachesAreFresh` (`CacheFresh`).  `AgentInv` adds that nothing is cached of an agent not yet
  created (`NoneYet`), and that outdated tools have a request that is about to clear them
  (`OldIsCovered`);
* `IndexTypeCorrect`, `TerminalTypeCorrect`, `AgentTypeCorrect`.

Chains of parents and folds over lists are recursive functions of a number.  Where an induction
would be natural, these proofs take the *least counterexample* of a set of numbers instead
(`LeastOne`, `GreatestOne`, `LeastOf`), which first-order provers can use: `ChainsEnd` is an
example.

`tlapm ConversationsProofs.tla` - assumptions: `FilesAssumption`, `FusionAssumption`,
`MessageSearchAssumption`, `KnowledgeSearchAssumption`, `ChatAssumption` (an id is a tool's or
a subagent's, and neither stands for none), `TransferAssumption` (the first rows refer to rows
there are) and, for the composition, `NamesAssumption`.  For any paths and depths, any messages,
documents and rows, any weights and limits, any runs, tools and nested subagents, any files:

* `MovesAreSafe` (`MoveLosesNothing`).  `FilesInv` says that a move's list of files names each
  once and below its source (`MoveKnows`); the proof then needs that the paths of a move which
  overlaps no other are disjoint from theirs, facts about prefixes proved first.
  `FilesTypeCorrect` is the type invariant;
* `ContextsAreWhole` (`ContextIsWhole`), from `MessageSearchInv`: hits are stored messages or
  deleted ones (`HitsKnown`), and a window half fetched holds what is before its hit
  without a gap (`WindowKnown`), whatever is stored, moved or deleted between two queries.
  An entry of the index names the message's own topic unless the message has been moved
  (`Told`);
* `SearchSkipsDeleted` (`NothingDeletedIsFound`), from `KnowledgeSearchInv`: what was deleted
  before the search stays out of the scope it collects folder by folder (`ScopeKnown`);
* `HitsKeepOrder` (`HitsWellFused`), for both searches.  Its core, `FusionKeepsOrder`, is a lemma
  about all pairs of lists without repetition: an earlier rank gives no smaller
  share, so a hit ahead of another in both lists has a better score, or the same one and an
  earlier entry; the order by score and entry is total, so the hits have the places 1, 2, ...;
  and `Fused`, which gives each place the hit with as many others before it, lists them in this
  order.  (`Fused` is a sort in the code; it counts because the provers know nothing of
  `SortSeq`.)
* `ChatsKeepWhatTheyShow` (`ShownIsKept`), `StopsCloseOperations` (`OperationsClose`) and
  `ChatTypeCorrect`, from `ChatInv`.  It has two halves.  `Made` is about a collector alone: no
  two parts are of one kind about one operation, no chunk is in two texts, and the open
  operations are the tools with a call and no result (`Closing`); lemmas show that each of its
  operations keeps this.  `Running` relates it to the run: each event sent is in a part, in
  the text, or an event of an open subagent (`HasEvent`), what the agent has going is open
  unless it belongs to a subagent, and whoever contains it is going on, too (`Going`), so that
  the parent the translator finds is open in the collector (`ParentIs`).  When a run ends,
  `ReplyShows` and `ReplyCloses` turn this into the properties of the one row stored; a stop
  first ends everything open, a fold unrolled into steps by `EndingSteps` (`CloseAllIs`);
* `ImportsAreWhole` (`CopiesAreWhole`) and `TransferTypeCorrect`, from `TransferInv`: the sections
  an export has read and those an import has left are well made (`FilesReadable`: finite, message
  ids distinct, each message with its sender), and the copies of each imported session
  correspond one to one to the messages of its section, each in the copy of its topic, with
  one sender per sender (`Imported`).  The messages are re-keyed by their place in
  the order of old ids (`AscendingIs`), and the senders by a fold whose every step keeps that
  the mapping so far leads to rows there are, and apart unless merged (`SenderSteps`);
* `ConversationsTypeCorrect` (`ConversationsTypeOK`): the types of all parts of
  `MCConversations` together, from the invariants above and the gateway's;
* `ConversationsImplementParts`: `ConversationsSpec`, which the run explores, implements the
  specification of each of its parts, since a step of one part leaves the others' variables
  alone; so each theorem about a part holds of the composition.  `RecordsImplementParts` is
  the same for `RecordsSpec`.

`tlapm ChunkingProofs.tla` - assumption: `ChunkingAssumption` (a chunk has room for two
characters; the schema asks for a hundred).
For texts of any length over any signs, and any sizes, overlaps and lists of separators:

* `ChunksAreWhole`: `ChunkSpec => []ChunksKeepText`.  The argument goes from the operations on
  texts up.  A text that comes up in a cut is `Solid`: it is in the order of the document and
  has each letter between two of its characters.  It is also `Fresh`: what stands right
  before one of its letters is of the text too, or of a separator; so what a split drops is a
  separator that ends nothing (`Preceding`, `DrawnSound`).  What a text is split into is solid
  and fresh again and has all of its letters that are kept (`Divided`, `GoodSplitsAre`, by
  descent over the places of the text); windows have them if they advance, and do not end
  otherwise (`WindowsKeep`).  Filling chunks keeps the invariant `Filling`, split after split
  (`FillStep`, `FillKeeps`): the chunks done and the one being filled have the letters so
  far, each goes as far as the one before and repeats no more than the overlap.  It is not
  enough that each keeps what it was given: an overlap, taken from the end of the chunk
  before, may hold no letter at all, a split that is cut again may leave nothing, and a chunk
  may exceed its size, but then only with the overlap or with a part no later separator cuts
  (`Uncut`), which the chunk it lies in keeps (`UncutWithin`).  A call that does not return
  stays so whatever is joined to it (`Sane`).  `PiecesKeep` puts this together for one
  separator, given that the next ones keep what is too large, and `CutKeeps` descends over
  the list of separators.

Inductions over texts and lists are done by a least counterexample (`LeastOf`, from the
well-foundedness of `<` on the naturals), as the provers cannot instantiate the library's
induction theorems; the folds and recursive functions are unrolled into traces first
(`FlattenSteps`, `FillSteps`, `CutIs`).

Before its proof each invariant was checked by TLC on the constants of section 3.

## 6. What is only model-checked

* Liveness (`DeadSocketCallsEnd`, `EndedRunsRelease`, `TasksEnd`, `TerminalSettles`) and
  `ENABLED` are outside what the prover supports.
* `CompletedHasRun` is a conjunct of the scheduler's `IInv` without a theorem of its own.

The refinement `IsFeed` is proved for queues that hold a run; that a shorter queue loses events,
and which, is what `NothingMissedSilently` accounts for.

## 7. What is not modelled, and why

* In the gateway: calls made by a `send_message` task that the tool
  `trigger_scheduled_task` runs, which use the tables, the lock and a Future from another
  thread's loop (the answer then wakes its waiter only with the timer); pings, frames that are ignored, and that a send to a peer that stops
  reading may never return (the 30 s timer starts after it).  Fairness of
  `Sent`/`SendFails` excludes it.
* In stream sessions: the 1 s poll (it only lets the subscriber look at the status
  again), and topics other than the one modelled.  `ChatStream` and `StreamSession` are
  checked apart: what the collector does depends on the run's own events only, and what
  a subscriber gets depends on ids only; composing them would multiply their states
  without a variable they share beyond the manager's entry, which both have.
* In chats: metrics, thinking and what an interrupt asks are parts without content.
* In tokens: registration, password and API key checks are operations on one row.
  Access tokens are not stored and not revocable, so a property about them would say
  nothing.
* In the scheduler: `next_run_at` and `last_run_*` are displayed only; the handler's own
  work belongs to other components.  One process is modelled: with `make start`'s four workers
  (`Makefile:69`) each would load every job.
* In sandboxes: renewal moves an end time only; files and the browser proxy pass
  requests on.
* In the knowledge base: columns of datasets, positions, icons.  In the searches:
  similarity, filters, names and parent texts put to hits, paging, `min_score`.
* In intake: messages deleted by hand, which the search for a duplicate leaves out
  (`webhook.py:212-216`).  In indexing: two runs of the script for pending embeddings at once
  (`search_indexer.py:434-479`); index tasks beside one run of it are modelled.
* In files: which namespace a path belongs to, the messages to watchers.
* In transfers: previews change nothing; the QQ adapter rewords its file.
* `update_index` and `delete_index` of the search indexer, and the legacy documents
  (router and tools are not included anywhere), cannot be reached.
* Activities with comments and relations, settings, users, events and the remaining
  CRUD endpoints are reads and writes of single rows.  The agent runtime is LangGraph;
  the frontend only matters by its reconnection, which gives `Reconnect` its cursor.
* Hazards without a property (`PROJECT.json` has the reasons).  In some the code keeps nothing
  by which it could tell: a reconnection whose ids are those of a replaced run, a one-shot
  task that fires again after a restart, a task row left running by a crash.  Others are in the
  models and go wrong in the code, so the property next to them excludes them by name: a pause
  and a resume at once, an agent built while its configuration changes, rows a pull skips,
  two crossing moves, embeddings of one document at once, messages exported without their topic.
  One needs two threads on one event loop's objects: calls of the scheduler's tool.

## 8. Plan

1. `IMConnection`, `StreamSession`, `EventFeed`, `TaskScheduler`, `TokenRotation`, `ClientSync`,
   the parts of `MCRecords` and of `MCServices`, `AgentCache`, `WorkspaceFiles`, the searches,
   `ChatStream`, `SessionTransfer` and `Chunking`: modelled, checked, and their safety properties
   proved as section 5 says.
2. Models that could follow: relations of activities (two overlapping updates leave the
   union of their sets), settings with masked keys, outgoing messages committed before
   they are sent.
