--------------------------- MODULE RequestHandling ---------------------------
(***************************************************************************)
(* How the coordinator serves a request (coordinator/server.py: _dispatch, *)
(* _assign, _run_task, _stream_task, _record_outcome) while node sessions  *)
(* (node_websocket, _drop_connection) come, are replaced and go.           *)
(*                                                                         *)
(* The coordinator is one asyncio process: an action is what a coroutine   *)
(* does between two awaits, so everything inside an action is atomic and   *)
(* everything between two actions may interleave.  A task id stands for    *)
(* one request that is not split; the ids in Streams ask for streaming.    *)
(* Time is abstract: a deadline may pass at any moment of a wait.          *)
(***************************************************************************)
EXTENDS TaskTracker, ConnectionManager, FiniteSets

CONSTANTS
  Streams,           \* the requests made with stream=true
  NoNode,            \* no node chosen
  DispatchAttempts,  \* DISPATCH_ATTEMPTS
  Sizes,             \* sizes of the deltas and results that nodes send
  RedisMayFail       \* whether a call to Redis may raise

ASSUME RequestAssumption ==
  /\ Streams \subseteq TaskIds
  /\ NoNode \notin Nodes
  /\ DispatchAttempts \in Nat
  /\ Sizes \subseteq Nat
  /\ RedisMayFail \in BOOLEAN

VARIABLES
  handler,    \* how far node_websocket is with each connection
  previous,   \* its local `previous': the connection it replaced
  pc,         \* how far the handler of each request is
  tried,      \* _dispatch's local `tried'
  choice,     \* the node find_best_node returned
  socket,     \* _assign's local `ws'
  verdict,    \* how the request will be, or was, answered
  relayed     \* how much of the stream the client has been sent

nodeVars == <<connections, handler, previous>>
requestVars == <<pc, tried, choice, socket, verdict, relayed>>
vars == <<tasks, nodeVars, requestVars>>

(***************************************************************************)
(* Types.                                                                  *)
(***************************************************************************)
HandlerStates == {"new", "attached", "serving", "dropping", "closed"}

RequestStates ==
  {"routing", "routed", "sending", "dropping", "unstarted", "waiting",
   "recording", "done", "abandoned"}

Verdicts ==
  TerminalKinds \cup {"none", "timeout", "unavailable", "aborted", "internal_error"}

TypeOK ==
  /\ TrackerTypeOK
  /\ ConnectionsTypeOK
  /\ handler \in [Conns -> HandlerStates]
  /\ previous \in [Conns -> Conns \cup {NoConn}]
  /\ pc \in [TaskIds -> RequestStates]
  /\ tried \in [TaskIds -> SUBSET Nodes]
  /\ choice \in [TaskIds -> Nodes \cup {NoNode}]
  /\ socket \in [TaskIds -> Conns \cup {NoConn}]
  /\ verdict \in [TaskIds -> Verdicts]
  /\ relayed \in [TaskIds -> Nat]

Init ==
  /\ tasks = [t \in TaskIds |-> NoTask]
  /\ connections = [n \in Nodes |-> NoConn]
  /\ handler = [c \in Conns |-> "new"]
  /\ previous = [c \in Conns |-> NoConn]
  /\ pc = [t \in TaskIds |-> "routing"]
  /\ tried = [t \in TaskIds |-> {}]
  /\ choice = [t \in TaskIds |-> NoNode]
  /\ socket = [t \in TaskIds |-> NoConn]
  /\ verdict = [t \in TaskIds |-> "none"]
  /\ relayed = [t \in TaskIds |-> 0]

(***************************************************************************)
(* Node sessions.  Registration before attach changes nothing shared and   *)
(* is left to NodeSessions; its awaits on Redis between attach and the     *)
(* receive loop are the state "attached".                                  *)
(***************************************************************************)
Attach(c) ==
  /\ handler[c] = "new"
  /\ handler' = [handler EXCEPT ![c] = "attached"]
  /\ previous' = [previous EXCEPT ![c] = connections[NodeOf[c]]]
  /\ connections' = Attached(c)
  /\ UNCHANGED <<tasks, requestVars>>

\* A mutant: the tasks of the replaced connection are not failed.
RegisteredForgetsPrevious(c) ==
  /\ handler[c] = "attached"
  /\ handler' = [handler EXCEPT ![c] = "serving"]
  /\ previous' = [previous EXCEPT ![c] = NoConn]
  /\ UNCHANGED <<tasks, connections, requestVars>>

\* The registry calls are back: the tasks of a replaced connection fail now.
Registered(c) ==
  /\ handler[c] = "attached"
  /\ handler' = [handler EXCEPT ![c] = "serving"]
  /\ tasks' = IF previous[c] = NoConn THEN tasks ELSE ConnectionFailed(tasks, previous[c])
  /\ previous' = [previous EXCEPT ![c] = NoConn]
  /\ UNCHANGED <<connections, requestVars>>

\* TASK_CHUNK and TASK_RESULT messages, for any task the node cares to name.
ReceiveChunk(c, t, size) ==
  /\ handler[c] = "serving"
  /\ Accepts(tasks, t, c)
  /\ tasks' = ChunkAdded(tasks, t, c, size)
  /\ UNCHANGED <<nodeVars, requestVars>>

ReceiveResult(c, t, size, completed) ==
  /\ handler[c] = "serving"
  /\ Accepts(tasks, t, c)
  /\ tasks' = Resolved(tasks, t, c, size, completed)
  /\ UNCHANGED <<nodeVars, requestVars>>

\* A mutant: the tasks are failed only where detach returned True.
HandlerExitsQuietly(c) ==
  /\ handler[c] = "serving" \/ (handler[c] = "attached" /\ RedisMayFail)
  /\ connections' = Detached(c)
  /\ handler' = [handler EXCEPT ![c] = IF IsLive(c) THEN "dropping" ELSE "closed"]
  /\ UNCHANGED <<tasks, previous, requestVars>>

\* The receive loop ends (or, before it, a Redis call raises) and the finally
\* block runs _drop_connection: up to unregister's awaits if c was live, to
\* its end if not.
HandlerExits(c) ==
  /\ handler[c] = "serving" \/ (handler[c] = "attached" /\ RedisMayFail)
  /\ connections' = Detached(c)
  /\ handler' = [handler EXCEPT ![c] = IF IsLive(c) THEN "dropping" ELSE "closed"]
  /\ tasks' = IF IsLive(c) THEN tasks ELSE ConnectionFailed(tasks, c)
  /\ UNCHANGED <<previous, requestVars>>

\* unregister returned.
HandlerDropped(c) ==
  /\ handler[c] = "dropping"
  /\ handler' = [handler EXCEPT ![c] = "closed"]
  /\ tasks' = ConnectionFailed(tasks, c)
  /\ UNCHANGED <<connections, previous, requestVars>>

\* unregister raised: _drop_connection never gets to fail_connection.
HandlerDropFails(c) ==
  /\ RedisMayFail
  /\ handler[c] = "dropping"
  /\ handler' = [handler EXCEPT ![c] = "closed"]
  /\ UNCHANGED <<tasks, connections, previous, requestVars>>

(***************************************************************************)
(* Choosing a node and sending it the task: _dispatch and _assign.         *)
(***************************************************************************)
GoTo(t, state) == pc' = [pc EXCEPT ![t] = state]

\* find_best_node saw n online; scoring it takes further awaits, so n may be
\* gone when the choice is used.  Which online nodes are eligible (capability,
\* trust, suspension) and which one scores best is left open.
Route(t, n) ==
  /\ pc[t] = "routing"
  /\ Cardinality(tried[t]) < DispatchAttempts
  /\ IsOnline(n) /\ n \notin tried[t]
  /\ tried' = [tried EXCEPT ![t] = @ \cup {n}]
  /\ choice' = [choice EXCEPT ![t] = n]
  /\ GoTo(t, "routed")
  /\ UNCHANGED <<tasks, nodeVars, socket, verdict, relayed>>

\* No eligible node, or no attempt left: NoNodeAvailable.
NoNodeAvailable(t) ==
  /\ pc[t] = "routing"
  /\ verdict' = [verdict EXCEPT ![t] = "unavailable"]
  /\ GoTo(t, "done")
  /\ UNCHANGED <<tasks, nodeVars, tried, choice, socket, relayed>>

\* The request is over: answered, or left by its client.
Over(t) == pc[t] \in {"done", "abandoned"}

\* Entries older than max_age.  max_age exceeds the longest stream and the
\* task timeout together, so these are entries nobody waits for: a stream
\* whose response was never started and whose client has gone.
Expired == {t \in TaskIds : Tracked(t) /\ Over(t)}

\* The chosen node is still connected: track the task, then start to send.
Assign(t) ==
  /\ pc[t] = "routed"
  /\ IsOnline(choice[t])
  /\ \E expired \in SUBSET Expired :
       tasks' = Created(tasks, t, connections[choice[t]], expired)
  /\ socket' = [socket EXCEPT ![t] = connections[choice[t]]]
  /\ choice' = [choice EXCEPT ![t] = NoNode]
  /\ GoTo(t, "sending")
  /\ UNCHANGED <<nodeVars, tried, verdict, relayed>>

NodeIsGone(t) ==
  /\ pc[t] = "routed"
  /\ ~IsOnline(choice[t])
  /\ choice' = [choice EXCEPT ![t] = NoNode]
  /\ GoTo(t, "routing")
  /\ UNCHANGED <<tasks, nodeVars, tried, socket, verdict, relayed>>

\* send returned True and _dispatch returns, which ends the life of `tried'.
\* The response of a stream still has to be started.
SendSucceeds(t) ==
  /\ pc[t] = "sending"
  /\ GoTo(t, IF t \in Streams THEN "unstarted" ELSE "waiting")
  /\ tried' = [tried EXCEPT ![t] = {}]
  /\ UNCHANGED <<tasks, nodeVars, choice, socket, verdict, relayed>>

\* send returned False: pop the task and drop the connection.  The handler of
\* the connection goes on and finds the connection gone later.
SendFails(t) ==
  LET c == socket[t] IN
  /\ pc[t] = "sending"
  /\ connections' = Detached(c)
  /\ IF IsLive(c)
     THEN tasks' = Popped(tasks, t) /\ GoTo(t, "dropping") /\ UNCHANGED socket
     ELSE /\ tasks' = ConnectionFailed(Popped(tasks, t), c)
          /\ GoTo(t, "routing")
          /\ socket' = [socket EXCEPT ![t] = NoConn]
  /\ UNCHANGED <<handler, previous, tried, choice, verdict, relayed>>

\* unregister returned inside the _drop_connection of a failed send.
SendDropped(t) ==
  /\ pc[t] = "dropping"
  /\ tasks' = ConnectionFailed(tasks, socket[t])
  /\ GoTo(t, "routing")
  /\ socket' = [socket EXCEPT ![t] = NoConn]
  /\ UNCHANGED <<nodeVars, tried, choice, verdict, relayed>>

\* A Redis call of find_best_node, or of the _drop_connection above, raises
\* and the request ends with a server error.
DispatchRaises(t) ==
  /\ RedisMayFail
  /\ pc[t] \in {"routing", "dropping"}
  /\ verdict' = [verdict EXCEPT ![t] = "internal_error"]
  /\ GoTo(t, "done")
  /\ UNCHANGED <<tasks, nodeVars, tried, choice, socket, relayed>>

(***************************************************************************)
(* Waiting for the answer: next_event, wait_result and _stream_task.       *)
(***************************************************************************)
StartStream(t) ==
  /\ pc[t] = "unstarted"
  /\ GoTo(t, "waiting")
  /\ UNCHANGED <<tasks, nodeVars, tried, choice, socket, verdict, relayed>>

NextEvent(t) == Head(tasks[t].events)

HasEvent(t) == pc[t] = "waiting" /\ Tracked(t) /\ tasks[t].events # <<>>

\* A chunk: sent on to the client of a stream, ignored by wait_result.
TakeChunk(t) ==
  /\ HasEvent(t)
  /\ NextEvent(t).kind = "chunk"
  /\ tasks' = [tasks EXCEPT ![t].events = Tail(@)]
  /\ relayed' = [relayed EXCEPT ![t] = IF t \in Streams THEN @ + NextEvent(t).size
                                                        ELSE @]
  /\ UNCHANGED <<nodeVars, pc, tried, choice, socket, verdict>>

\* The final result or an error.  _run_task pops the task of a result before
\* it records the outcome; the other paths pop after recording.
TakeAnswer(t) ==
  LET kind == NextEvent(t).kind IN
  /\ HasEvent(t)
  /\ kind \in TerminalKinds
  /\ verdict' = [verdict EXCEPT ![t] = kind]
  /\ tasks' = IF t \notin Streams /\ kind \in {"completed", "failed"}
              THEN Popped(tasks, t)
              ELSE [tasks EXCEPT ![t].events = Tail(@)]
  /\ GoTo(t, "recording")
  /\ UNCHANGED <<nodeVars, tried, choice, socket, relayed>>

\* A mutant: the deadline is only kept while the node is connected.
TimesOutWhileLive(t) ==
  /\ pc[t] = "waiting"
  /\ IsLive(socket[t])
  /\ verdict' = [verdict EXCEPT ![t] = "timeout"]
  /\ GoTo(t, "recording")
  /\ UNCHANGED <<tasks, nodeVars, tried, choice, socket, relayed>>

\* The deadline has passed, with or without events in the queue.
TimesOut(t) ==
  /\ pc[t] = "waiting"
  /\ verdict' = [verdict EXCEPT ![t] = "timeout"]
  /\ GoTo(t, "recording")
  /\ UNCHANGED <<tasks, nodeVars, tried, choice, socket, relayed>>

\* _record_outcome is done: pop the task if that is left to do, and answer.
Answer(t) ==
  /\ pc[t] = "recording"
  /\ tasks' = Popped(tasks, t)
  /\ GoTo(t, "done")
  /\ UNCHANGED <<nodeVars, tried, choice, socket, verdict, relayed>>

RecordingRaises(t) ==
  /\ RedisMayFail
  /\ pc[t] = "recording"
  /\ tasks' = Popped(tasks, t)
  /\ verdict' = [verdict EXCEPT ![t] = "internal_error"]
  /\ GoTo(t, "done")
  /\ UNCHANGED <<nodeVars, tried, choice, socket, relayed>>

\* A mutant: the generator that is closed does not pop its task.
ClientLeavesEntry(t) ==
  /\ t \in Streams
  /\ pc[t] \in {"waiting", "recording"}
  /\ verdict' = [verdict EXCEPT ![t] = "aborted"]
  /\ GoTo(t, "done")
  /\ UNCHANGED <<tasks, nodeVars, tried, choice, socket, relayed>>

\* The client of a stream goes away after its response started: the generator
\* is closed where it waits, and its finally block pops the task.
ClientLeaves(t) ==
  /\ t \in Streams
  /\ pc[t] \in {"waiting", "recording"}
  /\ tasks' = Popped(tasks, t)
  /\ verdict' = [verdict EXCEPT ![t] = "aborted"]
  /\ GoTo(t, "done")
  /\ UNCHANGED <<nodeVars, tried, choice, socket, relayed>>

\* The client goes away before that: a generator that never started has no
\* finally block to run, and the entry stays until it is too old.
StreamAbandoned(t) ==
  /\ pc[t] = "unstarted"
  /\ verdict' = [verdict EXCEPT ![t] = "aborted"]
  /\ GoTo(t, "abandoned")
  /\ UNCHANGED <<tasks, nodeVars, tried, choice, socket, relayed>>

(***************************************************************************)
(* The specification.                                                      *)
(***************************************************************************)
SessionNext ==
  \/ \E c \in Conns :
       \/ Attach(c) \/ Registered(c)
       \/ HandlerExits(c) \/ HandlerDropped(c) \/ HandlerDropFails(c)
  \/ \E c \in Conns, t \in TaskIds, size \in Sizes : ReceiveChunk(c, t, size)
  \/ \E c \in Conns, t \in TaskIds, size \in Sizes, ok \in BOOLEAN :
       ReceiveResult(c, t, size, ok)

RequestNext ==
  \E t \in TaskIds :
    \/ \E n \in Nodes : Route(t, n)
    \/ NoNodeAvailable(t) \/ Assign(t) \/ NodeIsGone(t)
    \/ SendSucceeds(t) \/ SendFails(t) \/ SendDropped(t) \/ DispatchRaises(t)
    \/ StartStream(t) \/ TakeChunk(t) \/ TakeAnswer(t) \/ TimesOut(t)
    \/ Answer(t) \/ RecordingRaises(t) \/ ClientLeaves(t) \/ StreamAbandoned(t)

Next == SessionNext \/ RequestNext

Spec == Init /\ [][Next]_vars

(***************************************************************************)
(* Safety.                                                                 *)
(***************************************************************************)
\* tasks.py, fail_connection and server.py, _drop_connection: while a task is
\* unfinished, the session it was sent on is still up or still being torn
\* down, so somebody is left to finish it.
NoOrphanedTask ==
  \A t \in TaskIds :
    Tracked(t) /\ ~tasks[t].finished => handler[tasks[t].connection] # "closed"

\* What makes NoOrphanedTask inductive: a session is up as long as its
\* connection is the live one of its node.
LiveSessionsAreUp ==
  \A n \in Nodes :
    IsOnline(n) => /\ NodeOf[connections[n]] = n
                   /\ handler[connections[n]] \in {"attached", "serving"}

\* docs/api_reference.md: "A node can only answer tasks that were assigned to
\* its own connection": whatever is queued for a request came from there.
OnlyAssignedConnectionAnswers ==
  \A t \in TaskIds : Tracked(t) =>
    \A i \in DOMAIN tasks[t].events :
      tasks[t].events[i].from = tasks[t].connection

\* A task has at most one final event, nothing is queued behind it, and an
\* unfinished task has none: an answer, a disconnection and an oversized
\* chunk may race but only the first of them counts.
FinalEventIsLast ==
  \A t \in TaskIds : Tracked(t) =>
    \A i \in DOMAIN tasks[t].events :
      tasks[t].events[i].kind \in TerminalKinds
        => tasks[t].finished /\ i = Len(tasks[t].events)

\* A stream that ends with the node's answer has passed on every chunk the
\* node sent before it.
StreamIsComplete ==
  \A t \in Streams :
    pc[t] = "recording" /\ Tracked(t) /\ verdict[t] \in {"completed", "failed"}
      => relayed[t] = tasks[t].streamed

\* A task is tracked only while its request is being served: an attempt that
\* failed, a request that was answered, and a stream whose client left once
\* its response had started leave no entry.  The one exception is the stream
\* abandoned before its response started, whose entry max_age removes.
TrackedWhileServed ==
  \A t \in TaskIds : Tracked(t) =>
    pc[t] \in {"sending", "unstarted", "waiting", "recording", "abandoned"}

\* The handlers implement what the client is promised.
Promise == INSTANCE RequestPromise WITH
  serving <- socket,
  answer <- [t \in TaskIds |-> IF Over(t) THEN verdict[t] ELSE "none"]

PromiseIsKept == Promise!Spec

(***************************************************************************)
(* Liveness.                                                               *)
(***************************************************************************)
\* Redis replies: the awaits on it return.
RedisReplies ==
  /\ \A c \in Conns : WF_vars(Registered(c)) /\ WF_vars(HandlerDropped(c))
  /\ \A t \in TaskIds : WF_vars(SendDropped(t))

\* asyncio runs every coroutine that is ready, and its timers fire.
RequestsRun ==
  \A t \in TaskIds :
    /\ WF_vars(NoNodeAvailable(t) \/ \E n \in Nodes : Route(t, n))
    /\ WF_vars(Assign(t) \/ NodeIsGone(t))
    /\ WF_vars(SendSucceeds(t) \/ SendFails(t))
    /\ WF_vars(StartStream(t))
    /\ WF_vars(TakeChunk(t) \/ TakeAnswer(t)) /\ WF_vars(TimesOut(t))
    /\ WF_vars(Answer(t) \/ RecordingRaises(t))
    /\ WF_vars(SendDropped(t) \/ DispatchRaises(t))

\* No timer is assumed to fire here.
DropSpec == Spec /\ RedisReplies

FairSpec == Spec /\ RequestsRun

\* docs/architecture.md: "a disconnecting node fails its in-flight tasks
\* immediately instead of letting them time out".  A task whose connection is
\* no longer live is finished by the sessions alone, whether the connection
\* closed, was replaced, or failed another request's send.
DisconnectFailsFast ==
  \A t \in TaskIds :
    (Tracked(t) /\ ~IsLive(tasks[t].connection))
      ~> (~Tracked(t) \/ tasks[t].finished)

\* Every request is answered, whatever nodes, clients and Redis do.
EveryRequestEnds == \A t \in TaskIds : <>Over(t)
==============================================================================
