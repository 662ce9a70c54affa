# GemmaNet in TLA+

GemmaNet connects clients that have tasks (translate, chat, summarize, ...) with nodes that run models. The **coordinator** stands between them: one asyncio process (FastAPI) that accepts HTTP requests from clients and WebSocket connections from nodes, keeps what must outlive a connection in Redis, and accounts in PostgreSQL. A small forum in a SQLite file is mounted in the same process. This directory holds TLA+ models of the coordinator and of a node's side of the protocol, the configurations that check them with TLC, and theorems about them that TLAPS checks. Paths below are relative to `src/gemmanet/` unless they start with `docs/` or `tests/`.

## 1. The system

| Part | Code | State | Operations | Model |
|---|---|---|---|---|
| Task tracker | `coordinator/tasks.py` | table task id → connection, finished, bytes streamed, queue of events | create, pop, add_chunk, resolve, fail_connection, next_event, wait_result, eviction by age | `TaskTracker` |
| Connection manager | `coordinator/ws_manager.py` | node id → live connection, info, account | attach, detach, account_nodes, exceeds_node_limit | `ConnectionManager`, `NodeSessions` |
| Requests | `coordinator/server.py`: `_dispatch`, `_assign`, `_run_task`, `_run_split_task`, `_stream_task`, `_record_outcome` | locals of each request's coroutine | route, split, assign, wait, relay, time out, record, answer | `RequestHandling`, `RequestPromise`, `SplitRequest` |
| Node sessions | `coordinator/server.py`: `node_websocket`, `_drop_connection` | locals of each connection's coroutine | register, replace, heartbeat, benchmark, results, disconnect | `NodeSessions`, `RequestHandling`, `NodeWork` |
| Node registry | `coordinator/registry.py` | Redis: entry, load and membership of each node | register, update_heartbeat, unregister, queries | `NodeRegistry` |
| Account deletion | `coordinator/server.py`: `delete_account`; `coordinator/auth.py` | API keys, locals of the call | delete keys, drop connections, forget nodes | `NodeSessions`, `Reputation` |
| Reputation | `coordinator/reputation.py` | Redis: counters, ratings, suspensions, task records | record_task_result, check_and_suspend, remember_task, rate_task, forget_node | `Reputation` |
| Instance lock | `coordinator/instance_lock.py`, `lifespan` | one Redis key with a time to live | acquire, refresh, release | `InstanceLock` |
| Router | `coordinator/router.py` | none | find_best_node, find_nodes_for_split, split and merge | choices in `RequestHandling` and `SplitRequest` |
| API keys | `coordinator/auth.py`, `database.py` | PostgreSQL | create, validate, delete | `keys` in `NodeSessions` |
| Request limits | `coordinator/limits.py` | times of each client's last events; locals of each request's body | allow, prune, the body limit | `SlidingWindow`, `BodySize`, `RequestLimits` |
| Node SDK | `sdk/node.py` | `_running`, `_ws`, running handlers, their count | connect, register, receive, reconnect, run handlers, answer benchmarks, heartbeat, stop | `SdkNode`, `NodeWork` |
| Client SDK, message models | `sdk/client.py`, `models.py` | none | blocking HTTP calls | no |
| Forum | `forum/app.py`, `database.py` | one SQLite file; the times of each visitor's last posts, replies and votes | migrate, purge, seed, post, reply, vote | `Forum`; its limits in `SlidingWindow` |
| Dashboard, Ollama adapter | `dashboard/`, `integrations/` | none | pages, adapter | no |

### How the parts meet

* A **request** asks the router for a node, takes the node's live connection from the connection manager, creates an entry in the tracker, and only then awaits the send. It waits on the queue of that entry.
* A **session** reads messages from one connection. Chunks and results go to the tracker, which accepts them only for an unfinished task of that very connection. When the session ends it detaches the connection, unregisters the node in Redis, and then fails the connection's tasks.
* The two share the tracker and the connection manager, in memory, between awaits. A request whose send fails does the session's cleanup itself; so does a registration that replaces the connection of the same node, and so does the deletion of the account.
* Redis is shared by all of them, one command at a time: every `await` on it lets every other coroutine run. The registry's operations are two or three commands each, the reputation's up to eight.
* A **node** runs one receive loop on one connection at a time, and its handlers in the background. Handlers are not tied to a connection: whatever they have to send goes out on `self._ws`, the connection of that moment. `stop()` is called from another thread and reaches the loop through `_running` and a close that it schedules.
* The **limits** stand in front: `node_websocket` asks `ws_connect_limiter` before it accepts a connection, the body limit is a middleware around the whole application, and the forum's three forms ask `_check_rate`, which keeps a window of its own for each.
* The **forum** shares nothing with the rest but the process: `lifespan` migrates, purges and seeds its file before the coordinator serves, and its handlers never await between two statements, so they do not interleave with each other. They can be cut off between any two.
* A second coordinator would have its own tracker and connections for the same Redis; the instance lock is there to prevent one.

### What is hard, and what makes each part correct

* **Interleavings at awaits.** Sessions, requests and deletions of one node cleaning up after each other: every unfinished task must have somebody left who will finish it; the cleanup of an old connection must not reach into the new one; checks made before an await must be made again after it.
* **Messages and their order.** Results, chunks, disconnections and oversized chunks race: one final event per task, nothing behind it, from the right connection only, and streams that lose nothing.
* **Two ends.** Node and coordinator learn of a broken connection at different times, and both clean up after it on their own: a node's old session may outlive several of its new ones, work outlives the connection it was asked on, and what is sent late must do no harm.
* **Failure.** Sends fail, Redis commands raise, entries expire, clients leave, coordinators crash: requests are still answered, entries do not leak, a stale lock does not lock the successor out.
* **Time.** Deadlines race answers; the lock's refresh races its expiry; limits and votes hold over windows that slide, while what they are computed from is pruned and purged.
* **Transactions.** The forum's counters repeat what its rows say, and its migration rewrites rows in place: a crash or an error between two statements must leave neither half of it.
* **Counters and lists** changed by several coroutines over several round trips: nothing is lost, counted twice or kept beyond its bound.

`PROJECT.json` lists each hazard at its line with the properties aimed at it.

## 2. The modules

```
Sockets            nodes, connections, who each connection belongs to
 ├─ TaskTracker         tasks.py as operators on the table
 ├─ ConnectionManager   ws_manager.py: the table of live connections
 └─ NodeRegistry        registry.py: one operator per Redis command
RequestHandling    = TaskTracker + ConnectionManager + requests and sessions
 └─ RequestPromise      what a client is promised; RequestHandling implements it
SplitRequest       = TaskTracker + one request in parts + sessions that end
NodeSessions       = ConnectionManager + NodeRegistry + sessions and account deletion
SdkNode            processes of one node, their connections, stop(), the coordinator's end
NodeWork           = TaskTracker + a node's handlers and benchmarks across connections
InstanceLock       processes, one Redis key, time
Reputation         recorders, raters and deletions over the Redis keys
SlidingWindow      the limiter of limits.py and the forum's, over time
BodySize           one request body on its way through the size limit
RequestLimits      = SlidingWindow + BodySize
Forum              the forum's database, its start, its handlers, crashes
*Proofs            the theorems about the module of that name; GuardProofs those about
                   InstanceLock and RequestLimits, NodeServiceProofs those about NodeWork
                   and Reputation
MC*                instances for TLC
```

**The grain.** The coordinator is one asyncio process, so an action is what a coroutine does between two awaits: it is atomic, and between two actions anything may happen. A coroutine's progress is a value of `handler` (sessions), `pc` (requests), `deletion[a].step`, `recorder` or `rater`; its locals that live across an await are variables (`previous`, `seen`, `tried`, `choice`, `socket`, `read`, ...). Locals that are dead are reset, to keep the state space small.

**Two views of a session.** `RequestHandling` has sessions as requests see them: the awaits on Redis during registration are one state (`attached`), and unregistering is one (`dropping`). `NodeSessions` has every Redis command as an action, and requests only as the senders that may drop a connection. Each leaves out what the other has and what the two do not share: the tracker is not read by registration or the registry, and the registry's content reaches requests only as a choice of nodes.

**TaskTracker.** `tasks[id]` is `NoTask` or the `PendingTask`. The methods are operators on the table because their callers make several calls in one step: `Created`, `Popped`, `ChunkAdded`, `Resolved`, `ConnectionFailed`. Text is abstracted to its size, which is what the limit tells apart. Events carry the connection that caused them, so that properties can speak of it.

**RequestHandling.** `Route` picks any node that is online and not tried: which ones the router filters out, and how it scores the others, is left open, so whatever is proved holds for every scoring. `Assign` re-reads the connection after the router's awaits. `SendFails` is the pop, the detach and, if the connection was live, the wait for `unregister` that precede the next attempt. `TimesOut` may happen at any moment of a wait. `Answer` is the end of `_record_outcome` and the pop of the entry. `StartStream` is the first step of the generator of a stream. From then on a client that goes away closes it, and its `finally` pops the entry (`ClientLeaves`); a generator that never started has nothing to run, and the entry is left to eviction by age (`StreamAbandoned`). With `RedisMayFail`, each await on Redis may raise instead of returning.

**SplitRequest.** The tasks of the tracker are the parts of one request. `FindNodes` takes up to as many nodes as there are parts, in any order. `Rotating` and `Target` are the inner loop over `node_ids[start:] + node_ids[:start]`, `Dispatching` and `Route` the `_dispatch` for a part that none of them took; `TryNext` is `_assign` returning None in either. `socket` is the node chosen, then the connection of the send, and `NextPart` is `tasks.append` with the loop's next turn or, after the last part, the `gather`. The finally block pops the parts in `assigned`: it runs in `GiveUp`, for a part without a node and for an error of Redis, and in `Gathered`. While some parts are assigned and others not, nobody waits on the queues of the first; their sessions may end, and the failed send of another part may drop their connection. A node connects once and connections are not replaced, since `RequestHandling` has that; `TimesOut` may happen at any moment of the wait, for each part. A content is how many paragraphs, sentences and characters there are to cut between: `Units` is what `split_content` cuts by, the coarsest that there is enough of, and `Chunk` the units of a part, of which the last has what the division leaves over. `merge_results` joins the results in the order of the parts.

**NodeSessions.** Registration is `Validate`, `CheckLimit`, the acknowledgement (`acking`), `Attach` with the second check, `RegisterSet`, `RegisterAdd`, `Record`; heartbeats are `HeartbeatGet` and `HeartbeatSet`, or `RegisterSet` and `RegisterAdd` when the entry is gone; `Disconnect`, `DisconnectDelete`, `DisconnectRemove` are the end. `Validate` also stands for a registration that does not come in time or cannot be read. `delete_account` goes through `DeleteKeys` (a worker thread), `ListNodes`, `DropNode`/`DropDelete`/`DropRemove` for each online node, `ReadNodes`, `ForgetNode`/`ForgetRemove` for each node the account ever had, `DeletionEnds`. With `RedisMayFail`, a command of a registration or heartbeat may raise (`SessionRaises`: the handler goes to its `finally` block, and lines 748-753 of `server.py`, with the closing of the replaced connection, are skipped), and so may the `unregister` of a drop (`DropRaises` in the `finally` block, `SenderDropRaises` in a request) and the commands of a deletion (`DeletionRaises`: it ends with a server error where it is). A registry entry is abstracted to the connection whose registration it was made from; load and the load key are left out.

**SdkNode.** A process is in one of the awaits of `_async_start`: `connecting`, `registering`, `receiving`, `sleeping`; it ends `stopped`, or `raised` when the coordinator refuses it. `Interrupted` is the except clause, `Leave` the end of the `async with` and the inner `finally`, `Loops` the condition of the while loop. `stop()` is two actions, `Stop` and `StopCloses`, because it runs in another thread: between them the loop may set `_ws` or clear it. The coordinator's end of a connection is kept to what a node can tell: `Register` or `Refuse`, a benchmark, close code 4000, and the end of the session. A line may break with the last of what was sent, without either end noticing; the close frame is a message in the queue, so that it is lost with it.

**NodeWork.** Connections are numbered in the order in which the node opens them. `Sends` is `_send`: on the connection of the moment, and dropped when there is none or it fails. `StartTask`, `Emit`, `Complete`, `Fail` are `_handle_task`; `StartBenchmark`, `AnswerBenchmark`, `Hang` are `_handle_benchmark`; `Receive` and `Heartbeat` are the branches of `node_websocket`'s loop. Messages of benchmarks carry a slot that says which benchmark they are of: the code's do not, and no action reads it except to record in `profile` whether the time stored was that of the benchmark answered. Sessions are abstracted to two Redis waits (`registering`, `serving`), since NodeSessions has the rest; a task's entry stays in the tracker, so that its end can be read there.

**InstanceLock.** `Acquire`, `TryAgain` and `RefuseStart` are one pass of `acquire`'s loop; `RefreshKey`, `RefreshTooLate` and `RefreshRaises` one pass of the refresh loop; `Release`, `Crash`, `LoseKey` (Redis restarted without the key) and `TimePasses`. The refresh's script and the `SET NX` that follows when the key is gone are one action: at the second command either the key is still free and taken, which is `RefreshKey`, or another process took it in between, which is `RefreshTooLate`.

**Reputation.** For each task a recorder goes through the outcomes of its parts, each with the pipeline of increments (`Count`), the second round trip for the average (`ReadTotals`, `WriteAverage`), and `check_and_suspend` (`Judge`, `ScoreLow` or `ScoreWell`, `Suspend`), then `Remember`. Raters go through `LookUp`, `Claim`, and `Push` and `Trim` for each node. `ExpireRated` may come at any moment after the task's record is gone, also between the `LookUp` and the `Claim` of a call; `overdue` is history, the tasks for which it did. `Score` is `get_score` times the number of tasks; the shares of speed, recency and ratings, which are floating point over the clock, are left open between their extremes, and `MayScoreLow` says whether some choice of them is below 35.

**SlidingWindow.** `Clients` are the keys of `SlidingWindowLimiter`, `Visitors` those of one form of the forum: the two pieces of code differ in that the first forgets idle keys when it tracks `MaxKeys` and a new one comes (`Forgotten`), and are the same otherwise. `Drops(n, times)` says that the first n times are those that the loop of `popleft`, or the forum's comprehension, takes away. A call is `Allow` or `Refuse`, atomic because nothing in it awaits. `granted` is history: all calls that were answered with True.

**BodySize.** `RefuseByLength` is the test of `Content-Length`, `ReceiveChunk` is `limited_receive`, `ResponseStarted` what `tracking_send` has noted, `ExceptionArrives` the `except` clause with `_send_413`. The application in between is FastAPI: it may read as much as it likes, start its response before it has read everything, fail, and turn the 413 exception into a response by itself (`AppAnswers413`). The forum's forms are behind a middleware of Starlette's (`@forum_app.middleware('http')`), through which the exception may arrive in a group; FastAPI then takes it for a body it could not parse (`FormAnswers400`). The two share no state; `RequestLimits` puts them side by side.

**Forum.** `disk` is what has been committed and `db` what the open connection sees; `Execute`, `Commit` and `Rollback` are what a statement, a commit and a close do to them. The file a run starts on is new or was written by either of the versions that `_migrate` knows. `Start` begins a start of the process, whose stages are `Unescape`, `HashVoters` (each with its commit), `PurgeAtStart`, `Seed`, `CommitSeeds`; then it serves `SubmitPost`, `SubmitReply` with `CountReply`, and `Upvote` with `CountVote`. `Crash` may come between any two of them, `StatementRaises` between the statements of a handler. A text is the number of times it is HTML-escaped, so that unescaping twice shows; a voter is an address in clear or under the key of `voter_id`, which is configured or, in development, drawn anew by every start. `cast` is history: the votes that were counted. A vote for an id that no post has yet is stored and not counted, as in the code (`upvote` does not look for the post), and blocks the same visitor's vote on the post that gets the id.

## 3. The runs

Times are for two workers.

| Run | Bounds | Checks |
|---|---|---|
| `shared_session` | one node that connects twice, a stream and a plain request, limit 1 with sizes 1 and 2, Redis replies; 429,842 states | who finishes each task, who may answer it, one final event, nothing leaks, disconnection is prompt |
| `fallback` | two nodes, three connections, one stream tried twice, Redis may raise; 104,264 states | the stream is complete, `RequestPromise` is implemented, every request ends |
| `split_request` | two parts, three nodes that connect once, two attempts of `_dispatch`, limit 1 with sizes 1 and 2, contents of up to five paragraphs, sentences and characters, Redis may raise; 191,771 states | parts are released on every path, outcomes belong to their nodes, an answer is of the whole content, lost parts end, nothing is searched for ever |
| `node_limit` | two nodes of one account, limit 1, three connections, Redis may raise; 689,640 states | the limit under overlapping registrations, what takes a node offline |
| `reconnect` | one node that connects twice, its account may be deleted, Redis may raise; 155,260 states | replaced connections close, expired entries come back, deletion ends sessions |
| `invisible_node` | one node that connects twice, no deletion | shows a finding |
| `sdk_node` | two processes of one node, three connection slots, one fault (a broken line, a registration refused or too slow), one process may be stopped; 84,975 states | what is sent on which connection, `stop()`, convergence |
| `node_work` | one stream of one piece, two connections of which the first may break, three benchmarks under way at once, one that hangs; 123,979 states | streams are whole, tasks end, profiles come back |
| `instance_lock` | three processes, time to live 5, refresh 1, lateness 1, one missed refresh, time up to 16; 371,888 states | mutual exclusion, refusals, who touches the key |
| `reputation` | two tasks, lists of one and two outcomes on two nodes, two raters of two accounts, lists of one rating, suspension after one task; 3,465,409 states | counting, suspending, rating |
| `request_limits` | two addresses of which the limiter tracks one before it prunes, one visitor, limit 2, window 2, time up to 3; a body limit of 2, chunks and lengths of 1 and 3; 1,257,260 states | nobody exceeds a limit, nobody is refused without cause, one answer to a body that is too large |
| `forum` | two visitors, one secret or none, a new file or one of version 0 or 1, two starts, up to two posts and two replies, retention 1, time up to 2; 1,088,584 states | one vote per visitor, counters that match the rows, a migration that is exact, through crashes |

**Why the bounds are enough.** A node identity with two connections is the least in which an old session meets a new one, in every order: reconnection after the end, replacement, and the old session's end after replacement. A third connection of one identity would meet the second as the second meets the first. Two tasks on a connection are what `fail_connection` and a failed send of one during the wait of the other need; two attempts are what fallback needs, since `DISPATCH_ATTEMPTS` only bounds the loop. Two parts over three nodes are the least in which a part waits while another is assigned, the nodes found are fewer than the parts or all gone, and `_dispatch` has a node left that was not among them; contents of one to five units have too few of each kind, as many as parts, and a rest or none. A limit of 1 with sizes 1 and 2 or 1 and 3 has results under and over the limit, and streams that reach it and cross it. Two nodes and a limit of one are two registrations that overlap, of which one must lose. For the lock, three processes are a crashed one, its successor and a rival; the times are the smallest with the order of the real ones (see section 5). For the SDK, two processes are the least that replace each other, and a slot more than processes lets an old session meet two new ones; a fault can come at any step, and what follows one is what the code must recover from, so a second would start again from where the first was recovered. In `node_work` the first connection may break at any step and the last holds; a lost piece needs one piece; the slots are one for a benchmark, one for its repetition and one for the next connection's. One rating per list and suspension after one task reach the bound with two tasks, as 100 ratings and 10 tasks would with more of them. A window of 2 with time up to 3 has events that are just inside and just outside of it, with a limit of two in different ticks; a limiter that prunes when it tracks one key forgets whenever a second comes. The chunks 1 and 3 reach, cross and jump over the limit of 2. For the forum, a second start is what finds the first one interrupted; a retention of 1 and times 0 to 2 have a vote that still counts, one that is as old as the retention, and one that is older; two seeded posts, one with a reply, are refused or added to by the two bounds. What the runs show for these sizes the theorems show for all sizes, for the properties listed in section 5.

### The properties

*Requests.* `NoOrphanedTask`: an unfinished task's session is not over, so somebody is left to finish it. `LiveSessionsAreUp`: the connection in the table of live ones has a handler that reads from it. `OnlyAssignedConnectionAnswers`: what is queued for a task came from its own connection (docs/api_reference.md). `FinalEventIsLast`: one final event, last in the queue, exactly when the task is finished. `TrackedWhileServed`: entries exist only while the request is served, whichever way it ends, a client that leaves its stream included; the exception is a stream that was abandoned before its response started, which eviction by age removes. `StreamIsComplete`: a stream that ends with the node's answer has relayed every chunk before it. `DisconnectFailsFast`: a task whose connection is no longer live is finished by the sessions alone, without any timer. `EveryRequestEnds`: every request is answered, whatever nodes, clients and Redis do. `PromiseIsKept`: the refinement; `RequestPromise` has neither tracker nor queues nor sessions, only who serves the request, how much was relayed and the answer, and says that a request changes its node only while nothing was relayed, that a stream stays within the limit, and that there is one answer and nothing after it.

*Split requests.* `PartsAreReleased`: the tracker holds a part only while it is being sent or is in the list that the finally block pops, and none when the request is over. `OutcomesAreOfTheirNodes`: what came back for a part came from the node that `_run_split_task` records it for, however often the part was tried elsewhere before. `AnswerIsOfTheWholeContent`: when the request is answered as completed, every unit of the content was in exactly one completed part, in the content's order, whatever the content is cut by. `LostPartsEnd`: a part whose connection is lost, while other parts are assigned or by the send of one of them, ends without the deadline. `WaitsOnlyForNodes`: without any timer, the request is answered or waits for a part on a node that is still connected.

*Sessions.* `NodeLimitHolds`: the limit holds at every moment at which other coroutines run. `OnlyDropsTakeNodesOffline`: a node goes offline by the end of its live connection, a failed send to it or the deletion of its account, never by the end of an old connection or by a registration that is rejected after attaching. `ReplacedConnectionsClose`: a connection that a registration replaced is closed in the end, unless Redis raised in that registration (`Stranded`). `ExpiredEntryIsRestored`: an entry that expired under a connected node is put back. `DeletionEndsSessions`: a session that is up when the keys of its account are deleted ends, unless the deletion was answered with a server error or the session was `Stranded`. The exceptions are what the code leaves undone, see section 4.

*Node SDK.* `OnlyRegisteredIsSentTo`: what handlers and heartbeats may send on is the connection being received on, and the coordinator has registered it; any other first message would be refused, and a refusal ends the node. `StopIsObeyed`: a node that was started and whose `_running` is cleared, by `stop()` in any state or by a replacement, ends; when `stop()` finds no connection because it is just being made, it is the benchmark that follows every registration that wakes the receive loop. `SystemSettles`: after the last fault every process is over, or receives on the connection the coordinator routes to; in particular, two processes do not replace each other for ever.

*Node work.* `CompletedStreamsAreWhole`: the coordinator has every piece of a stream whose result it accepts, although the node sends each piece on whatever connection it has. `AssignedTasksEnd`: every task that was assigned ends, without any timer, by its answer or by the end of its connection. `ProfileComesBack`: a node always gets a benchmark profile again, although its answers may be lost and a handler may hang.

*Lock.* `MutualExclusion`: one running coordinator, unless Redis lost the key. `OnlyContendedStartsAreRefused`: a start is refused only if another process ran meanwhile, never because of a dead one's key. `KeyBelongsToItsOwner`: the key a process set goes only when it expires, is lost or is released by that process, and only that process prolongs it.

*Reputation.* `EachOutcomeCountsOnce`: outcomes recorded at the same time are all counted, each once, whichever recorder fails on the way. `OnlyFailingNodesAreSuspended`: only after more than `SuspendAfter` tasks, and only with more than one failure in eight. `RatedOnceByRequester`: a rating of a node is from the requester of a task that the node served, and a node has at most one for a task; only the last part has an exception, tasks that are `overdue`. `AnsweredRatingIsApplied`: a rating that was answered with success reached every node of the task. `RatingsAreBounded`: the list stays within its limit but for the calls between `lpush` and `ltrim`.

*Limits.* `NoBurst`: at most `Limit` calls of a key are granted within any window, also when the limiter forgets keys in between (a key it forgets too early would get its whole limit again). `RefusalsAreDeserved`: a call is refused only when the limit was granted within the window that ends now. `OversizedGetsOneResponse`: a body over the limit gets one response, a refusal unless the application's had begun: 413 from FastAPI or the middleware, or 400 on the forum's forms. `AppReadsAtMostMaxBytes`, proved and not run: the application is given no more than the limit.

*Forum.* `OneVotePerVisitor`: two votes of one voter for one post that were counted are more than the retention apart; the purge at the start, the purge at each vote, the migration of the votes and crashes are in the way. `CountersMatchRows`: what is committed has scores and reply counts that agree with the votes and replies. `ServesMigratedData`: a forum that serves has unescaped each text exactly as often as it was escaped, and no address in its votes.

Every type invariant is a theorem. That of `NodeWork` is also in its run, since a bug in the code breaks it: a count of running handlers that is not lowered on one of the ways out. Each property of a run has a mutant in its module, marked as such: a plausible bug in the code under which TLC finds the property violated.

### Fairness

`RedisReplies` (in `DropSpec`): awaits on Redis return. It is all that `DisconnectFailsFast` uses: no timer and no further request is needed to end the tasks of a lost connection. `RequestsRun` (in `FairSpec` of `RequestHandling`): asyncio runs every coroutine that is ready, timers fire, a send returns (uvicorn's pings end connections that do not respond), and an await on Redis returns or raises. Nothing is assumed of nodes and clients: nodes may never answer and clients need not leave. `FairSpec` of `SplitRequest`: the request's coroutine runs, Redis replies to it or raises, and to the sessions it replies; no timer fires, no node answers and no session ends unless it happens to. `FairSpec` of `NodeSessions`: Redis replies or raises, so that whoever awaits it goes on; a node that is connected sends heartbeats (`sdk/node.py` does every 30 s); the receive loop of a socket that was closed or is broken ends, for which strong fairness stands, because the loop may be busy with a heartbeat at any moment but reads from the socket again after each; a deletion that has begun goes on, to its end or to a server error. Reconnection, expiry, deletion and disconnection are never forced.

`FairSpec` of `SdkNode`: the node's event loop runs and wakes from the back-off, a `stop()` that has begun goes on, the coordinator's coroutines run, and both ends find out about a broken line (the `websockets` library and uvicorn both send pings). Strong fairness for connecting: attempts that fail may alternate with those that could succeed, but they do not fail for ever. Faults and calls of `stop()` are never forced, and their number is bounded, without which nothing could settle. `FairWorkSpec` of `NodeWork`: the same for the connection, both ends read, heartbeats are sent, and handlers return, except for the benchmark that hangs.

## 4. Findings

* **`invisible_node`**: `unregister` ends with `SREM`. If a node reconnects after its old connection was detached and before that command, the command takes it out of `gn:online_nodes` although its entry is new. Heartbeats re-register only a node whose entry is gone, so the node stays connected, looks healthy to itself and is never routed to.

Further disagreements that the models have as behaviours, without a run that shows them:

* A `benchmark_result` is timed from the benchmark sent last on its connection, whichever it answers (`server.py` line 795; `profile = "other"` in `NodeWork`). A benchmark that takes longer than `BENCHMARK_REPLY_TIMEOUT` is sent again by the next heartbeat; if the first answer arrives now, the slow node's profile is that of a very fast one, and routing uses it for six hours. So is that of a node that reconnects during a benchmark. The docstring says that timing is "the coordinator's own round-trip measurement".
* A registration that validated its key before `delete_account` deleted it, and attaches after the account's online nodes were listed, stays online (`Attach` after `ListNodes` in `NodeSessions`). The comment says "the nodes cannot register again once closed"; `DeletionEndsSessions` speaks of the connections that the deletion saw.
* When Redis raises in a registration that has attached (`server.py` lines 747-748), the lines behind it are skipped and the session drops its own, newer connection. The connection it replaced is neither closed nor failed: it stays open and out of the table, no task goes to it, and its heartbeats even put the node back into the registry (`SessionRaises`, `Stranded`). docs/architecture.md says that the newer connection replaces the older one.
* When Redis raises in the drop of a deletion (`server.py` line 1091), the request ends with a server error before line 1092 closes the socket and before the loop comes to the account's other nodes. The keys are gone by then, so the call cannot be repeated: it would be answered with 401 (`DeletionRaises`).
* `rate_task` reads the task's record, and claims the task by a key with the same time to live as the record. A call that read the record just before it expired, and takes longer to get to the claim than it took from the record to the first rating, finds the key of that rating expired as well, and rates a second time (`ExpireRated`; `overdue` in `RatedOnceByRequester`). docs/architecture.md says "once".
* A form of the forum that is sent in chunks and passes the size limit may be refused with 400 instead of 413 (`FormAnswers400`).
* Votes are purged when somebody votes or the process starts, and not otherwise: in a quiet forum they stay for longer than the 30 days of `docs/privacy.md`. `Forum` has `Tick` without a purge.

## 5. The proofs

Every theorem below is checked by TLAPS for all values of the constants that satisfy the named assumptions.

**TaskTrackerProofs** has lemmas about the operators on the table: each keeps `GoodTable` (events come from the task's connection, the final one is last, and it is there only if the task is finished), and says which tasks it leaves alone. `PutEvent` and `AppendKeepsGood` carry the reasoning about sequences so that nothing above them has to. `Accounted` says what the queue of a stream adds up to. A recursive sum would need induction over the queue, which the provers here cannot do; its place is taken by a running total, a function along the queue that starts at what was relayed and grows by each event's size. It is a witness: whoever queues an event extends it (`AccountedAppend`), and whoever takes one shifts it (`AccountedTail`), so that every operation but create keeps the sum (`Advances`).

**RequestHandlingProofs.** The inductive invariant is `Typed`: `TypeOK`, `LocalsSet` (a request that is sending, waiting or dropping has a socket, one that is routed has a choice) and `GoodTable`. `TypeOK` alone is not inductive: `Assign` would track a task on no connection. From it come `TypeCorrect`, `OnlyOwnerAnswers` and `OneFinalEvent`. `SessionsUp` adds `LiveSessionsAreUp`; `NobodyIsOrphaned` adds `NoOrphanedTask` on top, under the assumption that `RedisMayFail` is false (with a Redis that raises it does not hold: `_drop_connection` awaits `unregister` before it fails the connection's tasks, and an error there leaves them to their timeout, which `EveryRequestEnds` covers): a task is created on the live connection, whose session is up; every way for that session to close goes through `ConnectionFailed`. `OnlyServedAreTracked` proves `TrackedWhileServed`; that a stream whose response had started and one whose had not end in different states (`done`, `abandoned`) is what lets it say that the first leaves no entry.

`StreamsAreComplete` and the refinement rest on one more invariant, `AllWellServed`. It says of each request, stage by stage, how its locals and its entry in the tracker fit together: whom it is served by, that what it relayed is `Accounted` for with what is still queued, and what its answer then means. A step of a session only `Advances` the queues (`SessionAdvances`), a step of another request leaves this one alone (`OthersWellServed`), and the request's own steps are `ActorWellServed`, of which taking a chunk and taking the answer are lemmas of their own. `HandlersKeepPromise` is the refinement: `RequestPromise` starts where `Init` maps to, and `PromiseStep` shows of every step of a request that it is a step of the promise, or, when the client learns nothing from it, no step of it at all. The limit on a stream comes from `Accounted`, whose totals stay within it.

**SplitRequestProofs.** For any number of parts, nodes and attempts. `PartsAreReleased` and `OutcomesAreOfTheirNodes` need two facts more. `Placed`: the entry of a tracked part is on the connection in `assigned`, or on `socket` while it is sent; with `GoodTable` that is where its events come from. `Unsettled`: until all parts are sent, no part has an outcome and the later ones have no connection; without it a failed send could pop a part that was assigned, and a send that succeeds could move a part whose outcome is known. Steps that take nothing but entries out of the table are one lemma, `StaysSettled`. `WholeContentAnswered` has two parts: `ChunksCover`, which is arithmetic on the quotient (`Quotient`, `Ordered`: the parts are behind one another, and the last ends where the content does), and that a completed answer means completed parts (`CompletedStep`).

**NodeSessionsProofs.** `LimitIsKept` is a cardinality argument: `Attach` keeps its connection only if the account's other nodes are fewer than the limit, and no other action adds a node. `OnlyDropsDo` needs `DropsOwnNodes`: a deletion's list holds nodes of its own account only; with it, each action that takes a node offline is one of the three allowed. Both hold with and without a Redis that raises: a command that raises takes no node offline but the session's own.

**SdkNodeProofs.** The invariant `Inv` is `TypeOK` and four facts: `OwnLink` (a process's connection was opened by it and its slot is not free, so no two processes share one), `NoEarlyAnswer` (a session that is not registered has not sent the acknowledgement), `ReceivesRegistered` (a process that receives is on a session that was registered) and `SocketIsLink`. `OnlyRegisteredIsSentTo` alone is not inductive: it says nothing of a process about to read an acknowledgement that must not be there yet. The lemmas follow the ways in which a step can change a connection: the process stays as it is (`QuietStep`), goes on reading, leaves, or its session goes on.

**GuardProofs** has the theorems about what stands in front of the coordinator: `InstanceLock` and `RequestLimits`, which share nothing.

*The lock.* `AtMostOneRuns` assumes `TimelyRefresh`, `(MaxMisses + 1) * (Refresh + Late) < Ttl`. The invariant `Guarded` says that until Redis loses the key each running process holds it, and that its expiry lies beyond the next refresh by a reserve for the misses still allowed. The assumption is sharp in the real numbers: with a time to live of 15 s and a refresh every 5 s, one missed refresh is survived if timers and replies together are less than 2.5 s late, two are not. `RefusalsAreContended` assumes `PatientStart`, `Ttl <= Wait` (20 s against 15 s in the code): by the time the deadline has passed, a key that nobody prolonged has expired. `KeyIsTheOwners` needs no assumption on times.

*The limits.* For any limit, window, bound on the keys and number of clients. The invariant of the windows is, for each key, `Tracks`: the times in the table are the last of the times granted, in order, and those granted before them are expired; and `Apart`, which is `NoBurst` for one key. `NoBurst` alone is not inductive, since it says nothing of the table. What prunes, drops or forgets keeps `Tracks` (`TracksDropped`, `TracksForgotten`: a key is forgotten only if its last time is expired, so all are); a call that is granted adds to both ends (`TracksGranted`), and finds the time `Limit` calls back dropped and therefore expired (`ApartGranted`). `RefusalsAreDeserved` follows from `Tracks` at once. For the body, the invariant ties what was received, what was read and the answer to the stage the request is in.

**ForumProofs.** For any sets of visitors and secrets, retention, seeds and number of crashes. The invariant has two halves. `Sound` is about a committed database: `Migrated` (texts and voters are as `user_version` says, so a second migration finds nothing to do wrong), `Linked` (rows belong to posts that exist), `Dated` (a counted vote within the retention is still in the table, so the next vote finds it; two of one voter are apart), `Counted`. `AtStage` says how far the open transaction is ahead of it: at which stages `db` is `disk`, and at the others which statement has been made. A crash returns to `disk` and needs only `Sound`; a commit needs that `db` is `Sound`, which is a lemma for each way of changing a database (`UnescapedSound`, `HashedSound`, `PurgedSound`, `SeedsSound`, `PostSound`, `ReplySound`, `VoteSound`). `HashedSound` is where hashing must not bring two voters together: the key of a start is never that of an address in clear, and the addresses under one key stay as distinct as they were.

**NodeServiceProofs** has the theorems about the work of nodes and how they are judged for it: `NodeWork` and `Reputation`, which share nothing.

*The work of a node.* For any number of connections, tasks, pieces and benchmarks. `WholeStreams` proves `CompletedStreamsAreWhole`, which says nothing of messages in flight and is far from inductive; the invariant is `Whole`. `AskedOnce`: the message that asks for a task is in at most one place, and only until its handler starts, so that a task starts once. `AnswersInTime`: a piece in flight is of a handler that started, an answer of one that ended. `LinksOK`: a task is on a connection no later than the last one opened, so that no connection the node opens later is the task's. `StreamDelivers`: while a stream is not finished, there is a running total along the queue of its connection that starts at what the coordinator has had of it, reaches all that the handler yielded at every answer in the queue, and, as long as the node still sends on that connection, reaches it at the end of the queue as well. That last part is what a piece sent into a broken connection gives up, for good: from then on no answer can be appended to that queue, and the end of the session fails the task. `EndedWhole` is what is left of it when the answer is read. `AskedOnce` is also what the count of running handlers needs (`WorkTypeCorrect`): `active` is the number of handlers that run, by one lemma for each way in and out.

*The reputation.* For any nodes, tasks, parts, accounts, raters and limits, and with any command of Redis raising. The types come with what the locals of a recorder and a rater hold at each of their steps (`Typed`). `CountsMatch` is `EachOutcomeCountsOnce` told by the recorders: for each node that was not forgotten, the successes and the failures in its counters are as many as the outcomes behind the point up to which each recorder has counted; a step of `Count` adds one element to one of these sets (`OneMore`), every other step none. `SuspensionsAreEarned` carries `OnlyFailingNodesAreSuspended` over the round trips between reading the counters and suspending: the counters that a recorder scores are no more than those of now, and a node about to be suspended is a `FailingNode` (`JudgedFairly`). `FailingNode` compares the failures with `SuspendAfter` and not with the total of the moment: counters only grow until the node is forgotten, so a node that was failing when it was scored is one when it is suspended, whatever was counted in between. `LowScores` is the arithmetic: the shares that are left open only add to it, so a score below 35 with more than `SuspendAfter` tasks means more than one failure in eight. For the ratings, `RatingsAreSound` says that records, calls and lists agree on who served and who asked, and `RatedOnce` that a task that can still be claimed is in no list (`Untouched`), that only one call can still push for it (`PushesOnce`), and not to a node that already has it (`NoTwice`), each unless the task is overdue; no step takes a task out of `overdue`. `RatingReaches` follows one call through its nodes: each has the rating, or is full, or is still to be visited. `Bounded` counts the calls that pushed and have not trimmed.

**Assumptions.** Constants are arbitrary but for the named assumptions of the modules, which TLC evaluates in the runs. They say that bounds are natural numbers, that the values which stand for nothing are not among the things they stand beside, and which sets are finite; `NodeWork` numbers its connections. Only the theorems on mutual exclusion, on refused starts and on orphaned tasks have a hypothesis beside `Spec`, named above.

**Model-checked only.** Every safety property of a run is a theorem. Liveness is not, nor is anything that needs ENABLED, which is out of the prover's reach: `DisconnectFailsFast`, `EveryRequestEnds`, `LostPartsEnd`, `WaitsOnlyForNodes`, `ReplacedConnectionsClose`, `ExpiredEntryIsRestored`, `DeletionEndsSessions`, `StopIsObeyed`, `SystemSettles`, `AssignedTasksEnd` and `ProfileComesBack` are shown by the runs alone. Induction over data is out of reach too, and avoided by the running totals.

## 6. What is not modelled

* Which nodes the router filters out, and how it scores the others: `Route` and `FindNodes` take any node that is online. `split_content` is modelled by what it cuts between and where; that cutting by sentences turns line breaks into spaces is not.
* In the forum: pages, the same-origin test, redirects, the lengths of texts and the removal of markup. The limiter of `slowapi` in front of the HTTP handlers is a library.
* Two outcomes of one node may write their averages in the opposite order (`record_task_result` reads and writes `avg_response_time_ms` in two round trips after the counters); `Reputation` has the steps, and no property, since the next outcome repairs it.
* In the SDK: the length of the back-off, the statistics, whether a handler is a function in a thread, a coroutine or a generator (each yields pieces, returns or raises), and a `stop()` before `start()`, which `start()` undoes. Who replaced a process is not told apart, as in the code: a registration that was slow in the database may replace the newer connection of the same process, which then stops for good.
* What is written about a deleted node after `forget_node`: an outcome still being recorded, or a rating of a task within the hour, creates its keys again. `Reputation` has the steps, and its properties leave forgotten nodes out.
* In `SplitRequest`, an error of Redis inside a session's own drop and nodes that reconnect, which are in `RequestHandling`; the order in which `_record_outcome` writes the parts' outcomes, which is in `Reputation`.
* The deletion of an account as one more way for a connection to be dropped is in `NodeSessions`, not in `RequestHandling`, where it would do what a failed send of another request does.
* The benchmark and load keys in Redis; `last_used_at` and hashing of API keys; the daily count of completed tasks.
* `check_params`, parsing and formatting of messages, HTML, the dashboard, the client SDK, the Ollama adapter: pure functions or pure I/O, covered by unit tests.
* Clocks are monotonic. The limiter's is; the forum's limits and the score use `time.time()`, which may be set back.
* Two votes of one voter for one post within one tick of `Forum` are one element of `cast`, so `OneVotePerVisitor` does not see the second; `CountersMatchRows` does, since the rows have one vote and the score two.
* The time between a command of the lock and its reply: in `InstanceLock` a command takes effect and is answered in one action, and what is late is the timer before it (`Late`); a reply that does not come is a refresh that is missed.
* Multi-threading: only database calls run in threads, and each is one transaction.

## 7. The plan

1. Done: tracker, connection manager, requests with their promise, split requests and how a content is split; sessions, registry and account deletion; instance lock; reputation; the SDK's node and its work; the limits; the forum; the theorems above.
2. Which nodes `find_best_node` filters out, by capability, trust and suspension.
3. Stale entries written back by a heartbeat after a reconnection; the HTTP handlers in front of `_run_task`.
4. Theorems: what the properties of later models need; safety lemmas under the liveness properties (what a task that is not finished is waiting for, in `SplitRequest` as in `RequestHandling`).
