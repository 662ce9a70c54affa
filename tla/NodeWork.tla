------------------------------ MODULE NodeWork -------------------------------
(***************************************************************************)
(* The work a node does for the coordinator: tasks and benchmarks, from    *)
(* the message that asks for them to the coordinator's use of the answer   *)
(* (sdk/node.py: _receive_loop, _handle_task, _handle_benchmark, _send;    *)
(* coordinator/server.py: node_websocket's receive loop), while the node   *)
(* loses its connection and opens another.                                 *)
(*                                                                         *)
(* Connections are numbered in the order in which the node opens them.     *)
(* Messages of one connection arrive in order; when it breaks, what was    *)
(* not read yet is lost.  How a connection is opened is in SdkNode, how    *)
(* requests use the tracker in RequestHandling: here a task's entry stays  *)
(* in the tracker, so that its end can be read there.                      *)
(***************************************************************************)
EXTENDS TaskTracker, FiniteSets

CONSTANTS
  Streams,       \* the tasks whose request asked for streaming
  MaxPieces,     \* bound: pieces a handler yields
  Benchmarks,    \* slots for benchmarks that are under way
  NoBenchmark,
  MaxHung        \* bound: benchmarks whose handler never returns

ASSUME WorkAssumption ==
  /\ Conns \subseteq Nat /\ IsFiniteSet(Conns) /\ NoConn = 0
  /\ Streams \subseteq TaskIds
  /\ MaxPieces \in Nat /\ MaxHung \in Nat
  /\ NoBenchmark \notin Benchmarks

VARIABLES
  socket,   \* self._ws of the node
  opened,   \* the connection opened last
  up,       \* connections that still carry what the node sends
  session,  \* how far node_websocket is with each connection
  toNode,   \* what each connection has in flight to the node
  toCoord,  \* and to the coordinator
  work,     \* the state of _handle_task for each task
  pieces,   \* the pieces its handler has yielded
  active,   \* self._active_tasks
  probes,   \* benchmarks whose _handle_benchmark runs
  hung,     \* how many benchmarks had a handler that never returned
  awaited,  \* for each connection the benchmark that bench_sent_at is of
  profile   \* gn:bench:<node_id>: none, timed from its own or another benchmark

linkVars == <<socket, opened, up, session>>
workVars == <<work, pieces, active>>
benchVars == <<probes, hung, awaited, profile>>
systemVars == <<tasks, linkVars, toNode, toCoord, workVars, benchVars>>

Last == CHOOSE c \in Conns : \A d \in Conns : d <= c

ToNode == {[type |-> "task_assign", of |-> t] : t \in TaskIds}
          \cup {[type |-> "benchmark", of |-> b] : b \in Benchmarks}

ToCoord == {[type |-> k, of |-> t] :
              k \in {"task_chunk", "completed", "failed"}, t \in TaskIds}
           \cup {[type |-> "benchmark_result", of |-> b] : b \in Benchmarks}

WorkTypeOK ==
  /\ TrackerTypeOK
  /\ socket \in Conns \cup {NoConn} /\ opened \in Conns \cup {NoConn}
  /\ up \subseteq Conns
  /\ session \in [Conns -> {"none", "registering", "serving", "closed"}]
  /\ toNode \in [Conns -> Seq(ToNode)]
  /\ toCoord \in [Conns -> Seq(ToCoord)]
  /\ work \in [TaskIds -> {"none", "running", "ended"}]
  /\ pieces \in [TaskIds -> 0..MaxPieces]
  /\ active = Cardinality({t \in TaskIds : work[t] = "running"})
  /\ probes \subseteq Benchmarks /\ hung \in 0..MaxHung
  /\ awaited \in [Conns -> Benchmarks \cup {NoBenchmark}]
  /\ profile \in {"none", "own", "other"}

WorkInit ==
  /\ tasks = [t \in TaskIds |-> NoTask]
  /\ socket = NoConn /\ opened = NoConn /\ up = {}
  /\ session = [c \in Conns |-> "none"]
  /\ toNode = [c \in Conns |-> <<>>]
  /\ toCoord = [c \in Conns |-> <<>>]
  /\ work = [t \in TaskIds |-> "none"]
  /\ pieces = [t \in TaskIds |-> 0]
  /\ active = 0
  /\ probes = {} /\ hung = 0
  /\ awaited = [c \in Conns |-> NoBenchmark]
  /\ profile = "none"

(***************************************************************************)
(* The connection.                                                         *)
(***************************************************************************)
IsOpen(c) == session[c] \in {"registering", "serving"}

\* The node has its next connection acknowledged.
Connect(c) ==
  /\ socket = NoConn /\ c = opened + 1
  /\ socket' = c /\ opened' = c /\ up' = up \cup {c}
  /\ session' = [session EXCEPT ![c] = "registering"]
  /\ UNCHANGED <<tasks, toNode, toCoord, workVars, benchVars>>

\* Bound: the last connection holds.
Break(c) ==
  /\ c \in up /\ c # Last
  /\ up' = up \ {c}
  /\ UNCHANGED <<tasks, socket, opened, session, toNode, toCoord, workVars, benchVars>>

\* The receive loop of the node ends.
Disconnect(c) ==
  /\ socket = c /\ c \notin up
  /\ socket' = NoConn
  /\ toNode' = [toNode EXCEPT ![c] = <<>>]
  /\ UNCHANGED <<tasks, opened, up, session, toCoord, workVars, benchVars>>

\* The receive loop of the coordinator ends, and _drop_connection runs.
SessionEnds(c) ==
  /\ session[c] = "serving" /\ c \notin up
  /\ session' = [session EXCEPT ![c] = "closed"]
  /\ tasks' = ConnectionFailed(tasks, c)
  /\ toCoord' = [toCoord EXCEPT ![c] = <<>>]
  /\ awaited' = [awaited EXCEPT ![c] = NoBenchmark]
  /\ UNCHANGED <<socket, opened, up, toNode, workVars, probes, hung, profile>>

(***************************************************************************)
(* Benchmarks that are under way, and a slot for one more.                 *)
(***************************************************************************)
UnderWay ==
  probes \cup {awaited[c] : c \in Conns}
  \cup UNION {{toNode[c][i].of : i \in DOMAIN toNode[c]} : c \in Conns}
  \cup UNION {{toCoord[c][i].of : i \in DOMAIN toCoord[c]} : c \in Conns}

Unused == CHOOSE b \in Benchmarks : b \notin UnderWay

\* Bound: a benchmark sent again leaves a slot for the one after a registration.
CanBenchmarkAgain == Cardinality(Benchmarks \ UnderWay) > 1

Sent(c, m) == IF c \in up THEN Append(toNode[c], m) ELSE toNode[c]

\* send_benchmark.
BenchmarkSent(c) ==
  /\ ~ Benchmarks \subseteq UnderWay
  /\ toNode' = [toNode EXCEPT ![c] = Sent(c, [type |-> "benchmark", of |-> Unused])]
  /\ awaited' = [awaited EXCEPT ![c] = Unused]

(***************************************************************************)
(* The coordinator.                                                        *)
(***************************************************************************)
\* Registered in Redis: the tasks of the connection replaced fail, and the node
\* is benchmarked.
Registered(c) ==
  /\ session[c] = "registering"
  /\ session' = [session EXCEPT ![c] = "serving"]
  /\ tasks' = IF c > 1 THEN ConnectionFailed(tasks, c - 1) ELSE tasks
  /\ BenchmarkSent(c)
  /\ UNCHANGED <<socket, opened, up, toCoord, workVars, probes, hung, profile>>

\* _assign, to the connection in the table, which is the one opened last.
Assign(t, c) ==
  /\ tasks[t] = NoTask
  /\ c = opened /\ IsOpen(c)
  /\ tasks' = Created(tasks, t, c, {})
  /\ toNode' = [toNode EXCEPT ![c] = Sent(c, [type |-> "task_assign", of |-> t])]
  /\ UNCHANGED <<linkVars, toCoord, workVars, benchVars>>

Receives(c, k, x) ==
  /\ session[c] = "serving" /\ toCoord[c] # <<>>
  /\ Head(toCoord[c]) = [type |-> k, of |-> x]
  /\ toCoord' = [toCoord EXCEPT ![c] = Tail(@)]

ReceiveChunk(c, t) ==
  /\ Receives(c, "task_chunk", t)
  /\ tasks' = IF Accepts(tasks, t, c) THEN ChunkAdded(tasks, t, c, 1) ELSE tasks
  /\ UNCHANGED <<linkVars, toNode, workVars, benchVars>>

ReceiveResult(c, t, status) ==
  /\ Receives(c, status, t)
  /\ tasks' = IF Accepts(tasks, t, c)
              THEN Resolved(tasks, t, c, 0, status = "completed")
              ELSE tasks
  /\ UNCHANGED <<linkVars, toNode, workVars, benchVars>>

\* process_benchmark_result: of the profile it stores, what is kept here is whether
\* the time measured is that of the benchmark whose results it has.
ProfileStored(c, b) == profile' = IF awaited[c] = b THEN "own" ELSE "other"

\* An answer to no benchmark is ignored; the time of any other is taken from the
\* last benchmark sent on the connection.
ReceiveBenchmark(c, b) ==
  /\ Receives(c, "benchmark_result", b)
  /\ IF awaited[c] = NoBenchmark THEN UNCHANGED profile ELSE ProfileStored(c, b)
  /\ awaited' = [awaited EXCEPT ![c] = NoBenchmark]
  /\ UNCHANGED <<tasks, linkVars, toNode, workVars, probes, hung>>

\* _send_heartbeat, which runs as long as the node has the connection.
Beats(c) == socket = c

\* A mutant: a benchmark that is not answered is awaited for ever.
HeartbeatPatient(c) ==
  /\ session[c] = "serving" /\ Beats(c)
  /\ awaited[c] = NoBenchmark
  /\ profile = "none" /\ CanBenchmarkAgain /\ BenchmarkSent(c)
  /\ UNCHANGED <<tasks, linkVars, toCoord, workVars, probes, hung, profile>>

\* A heartbeat: benchmark again if there is no profile, and the last benchmark
\* was answered or has had its time, which may pass at any moment.
Heartbeat(c) ==
  /\ session[c] = "serving" /\ Beats(c)
  /\ profile = "none" /\ CanBenchmarkAgain /\ BenchmarkSent(c)
  /\ UNCHANGED <<tasks, linkVars, toCoord, workVars, probes, hung, profile>>

\* The profile reaches BENCHMARK_TTL.
ProfileExpires ==
  /\ profile # "none"
  /\ profile' = "none"
  /\ UNCHANGED <<tasks, linkVars, toNode, toCoord, workVars, probes, hung, awaited>>

(***************************************************************************)
(* The node.                                                               *)
(***************************************************************************)
\* The receive loop takes a message, and starts what it asks for.
Takes(c, k, x) ==
  /\ socket = c /\ toNode[c] # <<>>
  /\ Head(toNode[c]) = [type |-> k, of |-> x]
  /\ toNode' = [toNode EXCEPT ![c] = Tail(@)]

\* _send: on whatever connection the node has now; what fails is dropped.
Sends(k, x) ==
  toCoord' = IF socket \in up /\ IsOpen(socket)
             THEN [toCoord EXCEPT ![socket] = Append(@, [type |-> k, of |-> x])]
             ELSE toCoord

StartTask(c, t) ==
  /\ Takes(c, "task_assign", t)
  /\ work' = [work EXCEPT ![t] = "running"]
  /\ active' = active + 1
  /\ UNCHANGED <<tasks, linkVars, toCoord, pieces, benchVars>>

\* A mutant: the first piece is collected and not streamed.
EmitQuietly(t) ==
  /\ work[t] = "running" /\ pieces[t] < MaxPieces
  /\ pieces' = [pieces EXCEPT ![t] = @ + 1]
  /\ IF t \in Streams /\ pieces[t] > 0
     THEN Sends("task_chunk", t) ELSE UNCHANGED toCoord
  /\ UNCHANGED <<tasks, linkVars, toNode, work, active, benchVars>>

\* The handler yields a piece, which is streamed if that was asked for.
Emit(t) ==
  /\ work[t] = "running" /\ pieces[t] < MaxPieces
  /\ pieces' = [pieces EXCEPT ![t] = @ + 1]
  /\ IF t \in Streams THEN Sends("task_chunk", t) ELSE UNCHANGED toCoord
  /\ UNCHANGED <<tasks, linkVars, toNode, work, active, benchVars>>

\* The handler returns.
Complete(t) ==
  /\ work[t] = "running"
  /\ work' = [work EXCEPT ![t] = "ended"]
  /\ active' = active - 1
  /\ Sends("completed", t)
  /\ UNCHANGED <<tasks, linkVars, toNode, pieces, benchVars>>

\* A mutant: a handler that raises ends its task there.
FailQuietly(t) ==
  /\ work[t] = "running"
  /\ work' = [work EXCEPT ![t] = "ended"]
  /\ active' = active - 1
  /\ UNCHANGED <<tasks, linkVars, toNode, toCoord, pieces, benchVars>>

\* A mutant: the count is lowered only where the handler returns.
FailUncounted(t) ==
  /\ work[t] = "running"
  /\ work' = [work EXCEPT ![t] = "ended"]
  /\ Sends("failed", t)
  /\ UNCHANGED <<tasks, linkVars, toNode, pieces, active, benchVars>>

\* The handler raises, or there is none for the task's type.
Fail(t) ==
  /\ work[t] = "running"
  /\ work' = [work EXCEPT ![t] = "ended"]
  /\ active' = active - 1
  /\ Sends("failed", t)
  /\ UNCHANGED <<tasks, linkVars, toNode, pieces, benchVars>>

StartBenchmark(c, b) ==
  /\ Takes(c, "benchmark", b)
  /\ probes' = probes \cup {b}
  /\ UNCHANGED <<tasks, linkVars, toCoord, workVars, hung, awaited, profile>>

\* Prompts that fail are part of the results.
AnswerBenchmark(b) ==
  /\ b \in probes
  /\ probes' = probes \ {b}
  /\ Sends("benchmark_result", b)
  /\ UNCHANGED <<tasks, linkVars, toNode, workVars, hung, awaited, profile>>

\* A handler never returns, and the benchmark is not answered.
Hang(b) ==
  /\ b \in probes /\ hung < MaxHung
  /\ hung' = hung + 1
  /\ probes' = probes \ {b}
  /\ UNCHANGED <<tasks, linkVars, toNode, toCoord, workVars, awaited, profile>>

(***************************************************************************)
(* The specification.                                                      *)
(***************************************************************************)
Receive(c) ==
  \/ \E t \in TaskIds :
       \/ ReceiveChunk(c, t)
       \/ \E status \in {"completed", "failed"} : ReceiveResult(c, t, status)
  \/ \E b \in Benchmarks : ReceiveBenchmark(c, b)

Take(c) ==
  (\E t \in TaskIds : StartTask(c, t)) \/ (\E b \in Benchmarks : StartBenchmark(c, b))

LinkStep(c) ==
  Connect(c) \/ Disconnect(c) \/ SessionEnds(c) \/ Registered(c)

WorkNext ==
  \/ \E c \in Conns :
       \/ LinkStep(c) \/ Break(c) \/ Heartbeat(c) \/ Receive(c) \/ Take(c)
       \/ \E t \in TaskIds : Assign(t, c)
  \/ \E t \in TaskIds : Emit(t) \/ Complete(t) \/ Fail(t)
  \/ \E b \in Benchmarks : AnswerBenchmark(b) \/ Hang(b)
  \/ ProfileExpires

WorkSpec == WorkInit /\ [][WorkNext]_systemVars

\* The node reconnects and beats, both ends read and find out about a broken
\* connection, and handlers end, except for benchmarks that hang.
Fairness ==
  /\ \A c \in Conns :
       /\ WF_systemVars(LinkStep(c)) /\ WF_systemVars(Heartbeat(c))
       /\ WF_systemVars(Receive(c)) /\ WF_systemVars(Take(c))
  /\ \A t \in TaskIds : WF_systemVars(Complete(t) \/ Fail(t))
  /\ \A b \in Benchmarks : WF_systemVars(AnswerBenchmark(b))

FairWorkSpec == WorkSpec /\ Fairness

(***************************************************************************)
(* Properties.                                                             *)
(***************************************************************************)
Completed(t) ==
  /\ tasks[t] # NoTask /\ tasks[t].finished
  /\ tasks[t].events[Len(tasks[t].events)].kind = "completed"

\* The coordinator never takes a stream for complete of which it has not had
\* every piece the handler yielded, on whichever connections the node sent them.
CompletedStreamsAreWhole ==
  \A t \in Streams : Completed(t) => tasks[t].streamed = pieces[t]

\* docs/api_reference.md: a node "answers each with `task_result'"; with what the
\* coordinator does when a connection ends, every task that was assigned ends.
AssignedTasksEnd ==
  \A t \in TaskIds : tasks[t] # NoTask ~> tasks[t] # NoTask /\ tasks[t].finished

\* A node without a profile gets one in the end, although connections break
\* between question and answer and a benchmark may hang.
ProfileComesBack == []<>(profile # "none")
==============================================================================
