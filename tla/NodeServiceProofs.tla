-------------------------- MODULE NodeServiceProofs --------------------------
(***************************************************************************)
(* The service that nodes give, and how they are judged for it: theorems   *)
(* about NodeWork, for any connections, tasks, benchmarks and pieces, and  *)
(* about Reputation, for any nodes, tasks, accounts and limits.            *)
(*                                                                         *)
(* NodeWork: a task is asked for once and starts once (AskedOnce), and     *)
(* what is in flight from the node is in step with its handler             *)
(* (AnswersInTime).  StreamDelivers says of a stream that is not finished  *)
(* what the pieces in flight add up to, as a running total along the       *)
(* queue: at an answer, to all that the handler yielded.                   *)
(*                                                                         *)
(* Reputation: the invariant has three parts: what the locals of a         *)
(* recording hold while they are in use, with the types (Typed); what the  *)
(* counters of a node stand for (CountsMatch, SuspensionsAreEarned); and   *)
(* what a call of rate_task may still do to the ratings (RatingsAreSound,  *)
(* RatingReaches).                                                         *)
(***************************************************************************)
EXTENDS NodeWork, Reputation, TaskTrackerProofs, FiniteSetTheorems

(***************************************************************************)
(* Queues.                                                                 *)
(***************************************************************************)
Ask(t) == [type |-> "task_assign", of |-> t]
Piece(t) == [type |-> "task_chunk", of |-> t]
Answer(t) == [type |-> "completed", of |-> t]

LEMMA Appended ==
  ASSUME NEW S, NEW q \in Seq(S), NEW m \in S
  PROVE  /\ Append(q, m) \in Seq(S)
         /\ Len(q) \in Nat /\ Len(Append(q, m)) = Len(q) + 1
         /\ DOMAIN q = 1 .. Len(q) /\ DOMAIN Append(q, m) = 1 .. Len(q) + 1
         /\ \A i \in DOMAIN q : Append(q, m)[i] = q[i]
         /\ Append(q, m)[Len(q) + 1] = m
OBVIOUS

LEMMA Tailed ==
  ASSUME NEW S, NEW q \in Seq(S), q # <<>>
  PROVE  /\ Tail(q) \in Seq(S)
         /\ Len(q) \in Nat /\ Len(q) >= 1 /\ Len(Tail(q)) = Len(q) - 1
         /\ DOMAIN q = 1 .. Len(q) /\ DOMAIN Tail(q) = 1 .. Len(q) - 1
         /\ \A i \in DOMAIN Tail(q) : i + 1 \in DOMAIN q /\ Tail(q)[i] = q[i + 1]
         /\ Head(q) = q[1] /\ Head(q) \in S
OBVIOUS

LEMMA TailShorter ==
  ASSUME NEW S, NEW q \in Seq(S), q # <<>>
  PROVE  Tail(q) # q /\ \A m \in S : Tail(q) # Append(q, m)
<1>1. PICK n \in Nat : Len(q) = n
  OBVIOUS
<1>2. Len(Tail(q)) = n - 1 /\ \A m \in S : Len(Append(q, m)) = n + 1
  BY <1>1, Tailed, Appended
<1>3. n - 1 # n /\ n - 1 # n + 1
  OBVIOUS
<1> QED
  BY <1>1, <1>2, <1>3, Zenon

LEMMA MessageTypes ==
  /\ \A t \in TaskIds : /\ Ask(t) \in ToNode /\ Piece(t) \in ToCoord /\ Answer(t) \in ToCoord
                        /\ [type |-> "failed", of |-> t] \in ToCoord
  /\ \A b \in Benchmarks : /\ [type |-> "benchmark", of |-> b] \in ToNode
                           /\ [type |-> "benchmark_result", of |-> b] \in ToCoord
<1>1. ASSUME NEW t \in TaskIds, NEW k \in {"task_chunk", "completed", "failed"}
      PROVE  [type |-> k, of |-> t] \in ToCoord
  BY <1>1 DEF ToCoord
<1>2. ASSUME NEW t \in TaskIds
      PROVE  /\ Ask(t) \in ToNode /\ Piece(t) \in ToCoord /\ Answer(t) \in ToCoord
             /\ [type |-> "failed", of |-> t] \in ToCoord
  <2>1. Ask(t) \in ToNode
    BY <1>2 DEF Ask, ToNode
  <2>2. "task_chunk" \in {"task_chunk", "completed", "failed"}
    OBVIOUS
  <2> QED
    BY <1>1, <1>2, <2>1, <2>2 DEF Piece, Answer
<1>3. ASSUME NEW b \in Benchmarks
      PROVE  /\ [type |-> "benchmark", of |-> b] \in ToNode
             /\ [type |-> "benchmark_result", of |-> b] \in ToCoord
  BY <1>3 DEF ToNode, ToCoord
<1> QED
  BY <1>2, <1>3

LEMMA MessagesDiffer ==
  ASSUME NEW t, NEW u
  PROVE  /\ Ask(t) = Ask(u) => t = u
         /\ Piece(t) = Piece(u) => t = u
         /\ Answer(t) = Answer(u) => t = u
         /\ Piece(t) # Answer(u)
         /\ Ask(t) # [type |-> "benchmark", of |-> u]
         /\ \A k \in {"failed", "benchmark_result"} :
              Piece(t) # [type |-> k, of |-> u] /\ Answer(t) # [type |-> k, of |-> u]
<1>1. /\ \A k, x : [type |-> k, of |-> x].type = k /\ [type |-> k, of |-> x].of = x
  OBVIOUS
<1> QED
  BY <1>1 DEF Ask, Piece, Answer

(***************************************************************************)
(* Types.                                                                  *)
(***************************************************************************)
Working == {t \in TaskIds : work[t] = "running"}

WorkTyped == WorkTypeOK /\ IsFiniteSet(Working) /\ GoodTable(tasks)

LinksTyped ==
  /\ socket \in Conns \cup {NoConn} /\ opened \in Conns \cup {NoConn}
  /\ up \subseteq Conns
  /\ session \in [Conns -> {"none", "registering", "serving", "closed"}]

QueuesTyped == toNode \in [Conns -> Seq(ToNode)] /\ toCoord \in [Conns -> Seq(ToCoord)]

TasksTyped == tasks \in Table /\ GoodTable(tasks)

HandlersTyped ==
  /\ work \in [TaskIds -> {"none", "running", "ended"}]
  /\ pieces \in [TaskIds -> 0..MaxPieces]
  /\ IsFiniteSet(Working) /\ active = Cardinality(Working)

BenchmarksTyped ==
  /\ probes \subseteq Benchmarks /\ hung \in 0..MaxHung
  /\ awaited \in [Conns -> Benchmarks \cup {NoBenchmark}]
  /\ profile \in {"none", "own", "other"}

LEMMA WorkTypedParts ==
  WorkTyped <=> LinksTyped /\ QueuesTyped /\ TasksTyped /\ HandlersTyped /\ BenchmarksTyped
BY DEF WorkTyped, WorkTypeOK, TrackerTypeOK, Table, LinksTyped, QueuesTyped, TasksTyped,
       HandlersTyped, BenchmarksTyped, Working

LEMMA ConnNumbers ==
  /\ NoConn = 0 /\ NoConn \notin Conns
  /\ \A c \in Conns : c \in Nat
BY WorkAssumption, NoConnAssumption

LEMMA WorkTypedInit == WorkInit => WorkTyped
<1> SUFFICES ASSUME WorkInit PROVE WorkTyped
  OBVIOUS
<1>1. Working = {}
  BY DEF WorkInit, Working
<1>2. HandlersTyped
  BY <1>1, FS_EmptySet, WorkAssumption DEF WorkInit, HandlersTyped
<1>3. TasksTyped
  BY DEF WorkInit, TasksTyped, Table, GoodTable
<1>4. QueuesTyped
  BY DEF WorkInit, QueuesTyped
<1>5. LinksTyped /\ BenchmarksTyped
  BY WorkAssumption DEF WorkInit, LinksTyped, BenchmarksTyped
<1> QED
  BY <1>2, <1>3, <1>4, <1>5, WorkTypedParts

\* The slot a benchmark gets.
LEMMA UnusedSlot ==
  ASSUME ~ Benchmarks \subseteq UnderWay
  PROVE  Unused \in Benchmarks
BY DEF Unused

LEMMA LinksStep ==
  ASSUME WorkTyped, [WorkNext]_systemVars
  PROVE  LinksTyped'
<1>1. LinksTyped
  BY WorkTypedParts
<1>2. ASSUME NEW c \in Conns, Connect(c) PROVE LinksTyped'
  BY <1>1, <1>2 DEF Connect, LinksTyped
<1>3. ASSUME NEW c \in Conns, Disconnect(c) \/ Break(c) PROVE LinksTyped'
  BY <1>1, <1>3 DEF Disconnect, Break, LinksTyped
<1>4. ASSUME NEW c \in Conns, SessionEnds(c) \/ Registered(c) PROVE LinksTyped'
  BY <1>1, <1>4 DEF SessionEnds, Registered, LinksTyped
<1>5. CASE UNCHANGED linkVars
  BY <1>1, <1>5 DEF linkVars, LinksTyped
<1> QED
  BY <1>2, <1>3, <1>4, <1>5
     DEF WorkNext, LinkStep, Heartbeat, Receive, ReceiveChunk, ReceiveResult, ReceiveBenchmark,
         Take, StartTask, StartBenchmark, Assign, Emit, Complete, Fail, AnswerBenchmark, Hang,
         ProfileExpires, systemVars

\* What a step does to the queue of a connection to the node.
LEMMA ToNodeChange ==
  ASSUME WorkTyped, [WorkNext]_systemVars, NEW c \in Conns
  PROVE  /\ \/ toNode'[c] = toNode[c]
            \/ toNode'[c] = <<>>
            \/ toNode[c] # <<>> /\ toNode'[c] = Tail(toNode[c])
            \/ \E b \in Benchmarks :
                 toNode'[c] = Append(toNode[c], [type |-> "benchmark", of |-> b])
            \/ \E t \in TaskIds : Assign(t, c) /\ toNode'[c] = Append(toNode[c], Ask(t))
         /\ toNode' \in [Conns -> Seq(ToNode)]
<1>1. toNode \in [Conns -> Seq(ToNode)]
  BY WorkTypedParts DEF QueuesTyped
<1>2. ASSUME NEW d \in Conns, Disconnect(d)
      PROVE  /\ toNode'[c] \in {toNode[c], <<>>}
             /\ toNode' \in [Conns -> Seq(ToNode)]
  BY <1>1, <1>2 DEF Disconnect
<1>3. ASSUME NEW d \in Conns, BenchmarkSent(d)
      PROVE  /\ \/ toNode'[c] = toNode[c]
                \/ \E b \in Benchmarks :
                     toNode'[c] = Append(toNode[c], [type |-> "benchmark", of |-> b])
             /\ toNode' \in [Conns -> Seq(ToNode)]
  <2>1. PICK b \in Benchmarks : b = Unused
    BY <1>3, UnusedSlot DEF BenchmarkSent
  <2> DEFINE m == [type |-> "benchmark", of |-> b]
  <2>2. m \in ToNode /\ toNode' = [toNode EXCEPT ![d] = Sent(d, m)]
    BY <1>3, <2>1, MessageTypes DEF BenchmarkSent
  <2> HIDE DEF m
  <2>3. Sent(d, m) \in Seq(ToNode) /\ Sent(d, m) \in {toNode[d], Append(toNode[d], m)}
    BY <1>1, <2>2 DEF Sent
  <2> QED
    BY <1>1, <2>2, <2>3 DEF m
<1>4. ASSUME NEW d \in Conns, NEW t \in TaskIds, Assign(t, d)
      PROVE  /\ \/ toNode'[c] = toNode[c]
                \/ Assign(t, c) /\ toNode'[c] = Append(toNode[c], Ask(t))
             /\ toNode' \in [Conns -> Seq(ToNode)]
  <2>1. Ask(t) \in ToNode /\ toNode' = [toNode EXCEPT ![d] = Sent(d, Ask(t))]
    BY <1>4, MessageTypes DEF Assign, Ask
  <2>2. /\ Sent(d, Ask(t)) \in Seq(ToNode)
        /\ Sent(d, Ask(t)) \in {toNode[d], Append(toNode[d], Ask(t))}
    BY <1>1, <2>1 DEF Sent
  <2> QED
    BY <1>1, <1>4, <2>1, <2>2
<1>5. ASSUME NEW d \in Conns, NEW k, NEW x, Takes(d, k, x)
      PROVE  /\ \/ toNode'[c] = toNode[c]
                \/ toNode[c] # <<>> /\ toNode'[c] = Tail(toNode[c])
             /\ toNode' \in [Conns -> Seq(ToNode)]
  BY <1>1, <1>5, Tailed DEF Takes
<1>6. CASE UNCHANGED toNode
  BY <1>1, <1>6
<1> QED
  BY <1>2, <1>3, <1>4, <1>5, <1>6
     DEF WorkNext, LinkStep, Connect, Break, SessionEnds, Registered, Heartbeat, Receive,
         ReceiveChunk, ReceiveResult, ReceiveBenchmark, Take, StartTask, StartBenchmark, Emit,
         Complete, Fail, AnswerBenchmark, Hang, ProfileExpires, systemVars

\* What is sent is sent on the connection that the node has, if that is up.
LEMMA SendsOne ==
  ASSUME WorkTyped, NEW k, NEW x, Sends(k, x), NEW c \in Conns, [type |-> k, of |-> x] \in ToCoord
  PROVE  /\ \/ /\ toCoord'[c] = Append(toCoord[c], [type |-> k, of |-> x])
               /\ c = socket /\ c \in up
            \/ toCoord'[c] = toCoord[c] /\ ~(c = socket /\ c \in up /\ IsOpen(c))
         /\ toCoord' \in [Conns -> Seq(ToCoord)]
<1>1. toCoord \in [Conns -> Seq(ToCoord)] /\ up \subseteq Conns
  BY WorkTypedParts DEF QueuesTyped, LinksTyped
<1> DEFINE m == [type |-> k, of |-> x]
<1> HIDE DEF m
<1>2. m \in ToCoord
  BY DEF m
<1>3. toCoord' = IF socket \in up /\ IsOpen(socket)
                 THEN [toCoord EXCEPT ![socket] = Append(toCoord[socket], m)] ELSE toCoord
  BY <1>1 DEF Sends, m
<1>4. CASE socket \in up /\ IsOpen(socket)
  <2>1. socket \in Conns /\ Append(toCoord[socket], m) \in Seq(ToCoord)
    BY <1>1, <1>2, <1>4
  <2> QED
    BY <1>1, <1>3, <1>4, <2>1 DEF m
<1>5. CASE ~(socket \in up /\ IsOpen(socket))
  BY <1>1, <1>3, <1>5
<1> QED
  BY <1>4, <1>5

\* What a step does to the queue of a connection to the coordinator.
LEMMA ToCoordChange ==
  ASSUME WorkTyped, [WorkNext]_systemVars, NEW c \in Conns
  PROVE  /\ \/ toCoord'[c] = toCoord[c]
            \/ SessionEnds(c) /\ toCoord'[c] = <<>>
            \/ Receive(c) /\ toCoord[c] # <<>> /\ toCoord'[c] = Tail(toCoord[c])
            \/ /\ c = socket /\ c \in up
               /\ \/ \E t \in TaskIds :
                       \/ Emit(t) /\ toCoord'[c] = Append(toCoord[c], Piece(t))
                       \/ Complete(t) /\ toCoord'[c] = Append(toCoord[c], Answer(t))
                       \/ toCoord'[c] = Append(toCoord[c], [type |-> "failed", of |-> t])
                  \/ \E b \in Benchmarks :
                       toCoord'[c] = Append(toCoord[c], [type |-> "benchmark_result", of |-> b])
         /\ toCoord' \in [Conns -> Seq(ToCoord)]
<1>1. toCoord \in [Conns -> Seq(ToCoord)]
  BY WorkTypedParts DEF QueuesTyped
<1>2. ASSUME NEW d \in Conns, SessionEnds(d)
      PROVE  /\ \/ toCoord'[c] = toCoord[c]
                \/ SessionEnds(c) /\ toCoord'[c] = <<>>
             /\ toCoord' \in [Conns -> Seq(ToCoord)]
  <2>1. toCoord' = [toCoord EXCEPT ![d] = <<>>]
    BY <1>2 DEF SessionEnds
  <2> QED
    BY <1>1, <1>2, <2>1
<1>3. ASSUME NEW d \in Conns, Receive(d)
      PROVE  /\ \/ toCoord'[c] = toCoord[c]
                \/ Receive(c) /\ toCoord[c] # <<>> /\ toCoord'[c] = Tail(toCoord[c])
             /\ toCoord' \in [Conns -> Seq(ToCoord)]
  <2>1. toCoord[d] # <<>> /\ toCoord' = [toCoord EXCEPT ![d] = Tail(toCoord[d])]
    BY <1>1, <1>3 DEF Receive, ReceiveChunk, ReceiveResult, ReceiveBenchmark, Receives
  <2>2. Tail(toCoord[d]) \in Seq(ToCoord)
    BY <1>1, <2>1, Tailed
  <2> QED
    BY <1>1, <1>3, <2>1, <2>2
<1>4. ASSUME NEW t \in TaskIds, Emit(t)
      PROVE  /\ \/ toCoord'[c] = toCoord[c]
                \/ c = socket /\ c \in up /\ toCoord'[c] = Append(toCoord[c], Piece(t))
             /\ toCoord' \in [Conns -> Seq(ToCoord)]
  <2>1. Piece(t) \in ToCoord /\ (Sends("task_chunk", t) \/ UNCHANGED toCoord)
    BY <1>4, MessageTypes DEF Emit
  <2> QED
    BY <1>1, <2>1, SendsOne DEF Piece
<1>5. ASSUME NEW t \in TaskIds, Complete(t)
      PROVE  /\ \/ toCoord'[c] = toCoord[c]
                \/ c = socket /\ c \in up /\ toCoord'[c] = Append(toCoord[c], Answer(t))
             /\ toCoord' \in [Conns -> Seq(ToCoord)]
  <2>1. Answer(t) \in ToCoord /\ Sends("completed", t)
    BY <1>5, MessageTypes DEF Complete
  <2> QED
    BY <1>1, <2>1, SendsOne DEF Answer
<1>6. ASSUME NEW t \in TaskIds, Fail(t)
      PROVE  /\ \/ toCoord'[c] = toCoord[c]
                \/ /\ c = socket /\ c \in up
                   /\ toCoord'[c] = Append(toCoord[c], [type |-> "failed", of |-> t])
             /\ toCoord' \in [Conns -> Seq(ToCoord)]
  BY <1>1, <1>6, MessageTypes, SendsOne DEF Fail
<1>7. ASSUME NEW b \in Benchmarks, AnswerBenchmark(b)
      PROVE  /\ \/ toCoord'[c] = toCoord[c]
                \/ /\ c = socket /\ c \in up
                   /\ toCoord'[c] = Append(toCoord[c], [type |-> "benchmark_result", of |-> b])
             /\ toCoord' \in [Conns -> Seq(ToCoord)]
  BY <1>1, <1>7, MessageTypes, SendsOne DEF AnswerBenchmark
<1>8. CASE UNCHANGED toCoord
  BY <1>1, <1>8
<1> QED
  BY <1>2, <1>3, <1>4, <1>5, <1>6, <1>7, <1>8
     DEF WorkNext, LinkStep, Connect, Break, Disconnect, Registered, BenchmarkSent, Heartbeat,
         Take, StartTask, StartBenchmark, Assign, Hang, ProfileExpires, systemVars

LEMMA QueuesStep ==
  ASSUME WorkTyped, [WorkNext]_systemVars
  PROVE  QueuesTyped'
<1>1. CASE Conns = {}
  <2>1. QueuesTyped /\ up = {}
    BY <1>1, WorkTypedParts DEF LinksTyped
  <2>2. UNCHANGED <<toNode, toCoord>>
    BY <1>1, <2>1
       DEF WorkNext, Emit, Complete, Fail, AnswerBenchmark, Hang, ProfileExpires, Sends, systemVars
  <2> QED
    BY <2>1, <2>2 DEF QueuesTyped
<1>2. CASE Conns # {}
  BY <1>2, ToNodeChange, ToCoordChange DEF QueuesTyped
<1> QED
  BY <1>1, <1>2

(***************************************************************************)
(* What a step does to the entry of a task.                                *)
(***************************************************************************)
LastKind(task) == task.events[Len(task.events)].kind

LEMMA FinishedEntry ==
  ASSUME NEW task \in PendingTask, NEW kind \in TerminalKinds, NEW c \in Conns
  PROVE  LET new == Finish(task, kind, c) IN
         /\ new # NoTask /\ new.finished
         /\ new.connection = task.connection /\ new.streamed = task.streamed
         /\ LastKind(new) = kind
<1> DEFINE put == Put(task, kind, c, 0)
           ev == [kind |-> kind, from |-> c, size |-> 0]
           new == Finish(task, kind, c)
<1>1. /\ ev \in Event /\ put \in PendingTask
      /\ put.connection = task.connection /\ put.streamed = task.streamed
      /\ put.events = Append(task.events, ev)
  BY PutEvent
<1>2. task.events \in Seq(Event) /\ ev.kind = kind
  BY DEF PendingTask
<1>3. new = [put EXCEPT !.finished = TRUE]
  BY DEF Finish
<1> HIDE DEF put, ev, new
<1>4. /\ new \in PendingTask /\ new.finished
      /\ new.connection = put.connection /\ new.streamed = put.streamed
      /\ new.events = put.events
  BY <1>1, <1>3 DEF PendingTask
<1>5. new.events[Len(new.events)] = ev
  BY <1>1, <1>2, <1>4, Appended
<1> QED
  BY <1>1, <1>2, <1>4, <1>5, NoTaskAssumption DEF LastKind, new

LEMMA ChunkEntry ==
  ASSUME NEW ts \in Table, NEW t \in TaskIds, NEW c \in Conns, Accepts(ts, t, c)
  PROVE  LET new == ChunkAdded(ts, t, c, 1) IN
         /\ new[t] # NoTask
         /\ new[t].connection = c /\ new[t].streamed = ts[t].streamed + 1
         /\ new[t].finished => LastKind(new[t]) = "too_large"
         /\ \A u \in TaskIds \ {t} : new[u] = ts[u]
<1> DEFINE old == ts[t]
           task == [old EXCEPT !.streamed = old.streamed + 1]
           next == IF TooLarge(task.streamed) THEN Finish(task, "too_large", c)
                                              ELSE Put(task, "chunk", c, 1)
           new == ChunkAdded(ts, t, c, 1)
<1>1. old \in PendingTask /\ ~old.finished /\ old.connection = c
  BY TrackedIsTask DEF Accepts, Owned
<1>2. new = [ts EXCEPT ![t] = next]
  BY DEF ChunkAdded
<1> HIDE DEF old
<1>3. /\ task \in PendingTask /\ ~task.finished
      /\ task.connection = c /\ task.streamed = old.streamed + 1
  BY <1>1 DEF PendingTask
<1> HIDE DEF task
<1>4. /\ next # NoTask /\ next.connection = c /\ next.streamed = old.streamed + 1
      /\ next.finished => LastKind(next) = "too_large"
  <2>1. CASE TooLarge(task.streamed)
    <3>1. next = Finish(task, "too_large", c) /\ "too_large" \in TerminalKinds
      BY <2>1 DEF TerminalKinds
    <3> QED
      BY <1>3, <3>1, FinishedEntry
  <2>2. CASE ~TooLarge(task.streamed)
    <3>1. next = Put(task, "chunk", c, 1)
      BY <2>2
    <3>2. "chunk" \in TerminalKinds \cup {"chunk"} /\ 1 \in Nat
      OBVIOUS
    <3>3. /\ Put(task, "chunk", c, 1) \in PendingTask
          /\ Put(task, "chunk", c, 1).connection = task.connection
          /\ Put(task, "chunk", c, 1).finished = task.finished
          /\ Put(task, "chunk", c, 1).streamed = task.streamed
      BY <1>3, <3>2, PutEvent
    <3> HIDE DEF next
    <3> QED
      BY <1>3, <3>1, <3>3, NoTaskAssumption
  <2> QED
    BY <2>1, <2>2
<1> HIDE DEF next, new
<1>5. new[t] = next /\ \A u \in TaskIds \ {t} : new[u] = ts[u]
  BY <1>2 DEF Table
<1> QED
  BY <1>4, <1>5 DEF new, old

\* Why the entry of t changes, and what becomes of it.
Begins(t) ==
  /\ tasks[t] = NoTask /\ tasks'[t] # NoTask
  /\ ~tasks'[t].finished /\ tasks'[t].streamed = 0
  /\ \E c \in Conns : tasks'[t].connection = c /\ Assign(t, c)

Goes(t) ==
  /\ tasks[t] # NoTask /\ ~tasks[t].finished /\ tasks[t].connection \in Conns
  /\ tasks'[t] # NoTask /\ tasks'[t].connection = tasks[t].connection

Streamed(t) ==
  /\ Goes(t) /\ \E c \in Conns : tasks[t].connection = c /\ ReceiveChunk(c, t)
  /\ ~tasks'[t].finished /\ tasks'[t].streamed = tasks[t].streamed + 1

Answered(t) ==
  /\ Goes(t)
  /\ \E c \in Conns : tasks[t].connection = c /\ ReceiveResult(c, t, "completed")
  /\ tasks'[t].finished /\ tasks'[t].streamed = tasks[t].streamed

Fails(t) == Goes(t) /\ tasks'[t].finished /\ LastKind(tasks'[t]) # "completed"

LEMMA Disconnected ==
  ASSUME WorkTyped, NEW d \in Nat, tasks' = ConnectionFailed(tasks, d)
  PROVE  /\ TasksTyped'
         /\ \A t \in TaskIds : tasks'[t] = tasks[t] \/ Fails(t)
         /\ \A t \in TaskIds :
              tasks'[t] # NoTask /\ ~tasks'[t].finished => tasks'[t].connection # d
<1>1. tasks \in Table /\ GoodTable(tasks)
  BY WorkTypedParts DEF TasksTyped
<1>2. \A t \in TaskIds : tasks[t] # NoTask =>
        tasks[t] \in PendingTask /\ tasks[t].connection \in Conns
  BY <1>1, TrackedIsTask DEF PendingTask
<1>3. \A t \in TaskIds :
        tasks'[t] = IF Accepts(tasks, t, d) THEN Finish(tasks[t], "disconnected", d) ELSE tasks[t]
  BY DEF ConnectionFailed
<1>4. CASE d \in Conns
  <2>1. tasks' \in Table /\ GoodTable(tasks')
    BY <1>1, <1>4, ConnectionFailedTable
  <2>2. \A t \in TaskIds :
          tasks'[t] # NoTask /\ ~tasks'[t].finished => tasks'[t].connection # d
    BY <1>1, <1>4, ConnectionFailedTable
  <2>3. ASSUME NEW t \in TaskIds, Accepts(tasks, t, d) PROVE Fails(t)
    <3>1. tasks'[t] = Finish(tasks[t], "disconnected", d)
      BY <1>3, <2>3
    <3>2. tasks[t] # NoTask /\ ~tasks[t].finished
      BY <2>3 DEF Accepts, Owned
    <3>3. "disconnected" \in TerminalKinds
      BY DEF TerminalKinds
    <3>4. PICK old \in PendingTask : old = tasks[t]
      BY <1>2, <3>2
    <3>5. /\ tasks'[t] # NoTask /\ tasks'[t].finished
          /\ tasks'[t].connection = old.connection /\ LastKind(tasks'[t]) = "disconnected"
      BY <1>4, <3>1, <3>3, <3>4, FinishedEntry
    <3> QED
      BY <1>2, <3>2, <3>4, <3>5 DEF Fails, Goes
  <2> QED
    BY <1>3, <2>1, <2>2, <2>3 DEF TasksTyped, Table
<1>5. CASE d \notin Conns
  <2>1. \A t \in TaskIds : ~Accepts(tasks, t, d)
    BY <1>2, <1>5 DEF Accepts, Owned
  <2>2. \A t \in TaskIds : tasks'[t] = tasks[t]
    BY <1>3, <2>1
  <2>3. tasks' = tasks
    BY <1>1, <2>2 DEF ConnectionFailed, Table
  <2> QED
    BY <1>1, <1>2, <1>5, <2>2, <2>3 DEF TasksTyped, Table
<1> QED
  BY <1>4, <1>5

LEMMA TasksStep ==
  ASSUME WorkTyped, [WorkNext]_systemVars
  PROVE  /\ TasksTyped'
         /\ \A t \in TaskIds :
              tasks'[t] = tasks[t] \/ Begins(t) \/ Streamed(t) \/ Answered(t) \/ Fails(t)
<1> DEFINE Goal == /\ TasksTyped'
                   /\ \A t \in TaskIds : \/ tasks'[t] = tasks[t] \/ Begins(t)
                                         \/ Streamed(t) \/ Answered(t) \/ Fails(t)
<1>1. tasks \in Table /\ GoodTable(tasks)
  BY WorkTypedParts DEF TasksTyped
<1>2. \A t \in TaskIds : tasks[t] # NoTask =>
        tasks[t] \in PendingTask /\ tasks[t].connection \in Conns
  BY <1>1, TrackedIsTask DEF PendingTask
<1>3. CASE UNCHANGED tasks
  BY <1>1, <1>3 DEF TasksTyped, Table
<1>4. ASSUME NEW c \in Conns, SessionEnds(c) \/ Registered(c) PROVE Goal
  <2>1. CASE UNCHANGED tasks
    BY <1>3, <2>1
  <2>2. CASE tasks' = ConnectionFailed(tasks, c)
    BY <2>2, Disconnected, ConnNumbers
  <2>3. CASE c > 1 /\ tasks' = ConnectionFailed(tasks, c - 1)
    <3>1. c - 1 \in Nat
      BY <2>3, ConnNumbers
    <3>2. PICK d \in Nat : d = c - 1
      BY <3>1
    <3> QED
      BY <2>3, <3>2, Disconnected
  <2> QED
    BY <1>4, <2>1, <2>2, <2>3 DEF SessionEnds, Registered
<1>5. ASSUME NEW c \in Conns, NEW t \in TaskIds, Assign(t, c) PROVE Goal
  <2>1. tasks' = Created(tasks, t, c, {}) /\ tasks[t] = NoTask
    BY <1>5 DEF Assign
  <2>2. tasks' \in Table /\ GoodTable(tasks') /\ tasks'[t] # NoTask
    BY <1>1, <2>1, CreatedTable
  <2>3. /\ ~tasks'[t].finished /\ tasks'[t].streamed = 0 /\ tasks'[t].connection = c
        /\ \A u \in TaskIds \ {t} : tasks'[u] = tasks[u]
    BY <2>1 DEF Created
  <2> QED
    BY <1>5, <2>1, <2>2, <2>3 DEF Begins, TasksTyped, Table
<1>6. ASSUME NEW c \in Conns, NEW t \in TaskIds, ReceiveChunk(c, t) PROVE Goal
  <2>1. CASE ~Accepts(tasks, t, c)
    BY <1>3, <1>6, <2>1 DEF ReceiveChunk
  <2>2. CASE Accepts(tasks, t, c)
    <3>1. tasks' = ChunkAdded(tasks, t, c, 1)
      BY <1>6, <2>2 DEF ReceiveChunk
    <3>2. tasks' \in Table /\ GoodTable(tasks')
      BY <1>1, <2>2, <3>1, ChunkAddedTable
    <3>3. /\ tasks'[t] # NoTask
          /\ tasks'[t].connection = c /\ tasks'[t].streamed = tasks[t].streamed + 1
          /\ tasks'[t].finished => LastKind(tasks'[t]) = "too_large"
          /\ \A u \in TaskIds \ {t} : tasks'[u] = tasks[u]
      BY <1>1, <2>2, <3>1, ChunkEntry
    <3>4. Goes(t) /\ tasks[t].connection = c
      BY <2>2, <3>3 DEF Accepts, Owned, Goes
    <3>5. Streamed(t) \/ Fails(t)
      BY <1>6, <3>3, <3>4 DEF Streamed, Fails
    <3> QED
      BY <3>2, <3>3, <3>5 DEF TasksTyped, Table
  <2> QED
    BY <2>1, <2>2
<1>7. ASSUME NEW c \in Conns, NEW t \in TaskIds, NEW status \in {"completed", "failed"},
             ReceiveResult(c, t, status)
      PROVE  Goal
  <2>1. CASE ~Accepts(tasks, t, c)
    BY <1>3, <1>7, <2>1 DEF ReceiveResult
  <2>2. CASE Accepts(tasks, t, c)
    <3>1. tasks' = Resolved(tasks, t, c, 0, status = "completed")
      BY <1>7, <2>2 DEF ReceiveResult
    <3>2. (status = "completed") \in BOOLEAN
      OBVIOUS
    <3>3. tasks' \in Table /\ GoodTable(tasks')
      BY <1>1, <2>2, <3>1, <3>2, ResolvedTable
    <3>4. ~TooLarge(0)
      BY MaxResultBytesAssumption DEF TooLarge
    <3>5. tasks' = [tasks EXCEPT ![t] = Finish(tasks[t], status, c)]
      BY <3>1, <3>4, <1>7 DEF Resolved
    <3>6. /\ tasks'[t] = Finish(tasks[t], status, c)
          /\ \A u \in TaskIds \ {t} : tasks'[u] = tasks[u]
      BY <1>1, <3>5 DEF Table
    <3>7. tasks[t] # NoTask /\ ~tasks[t].finished /\ tasks[t].connection = c
      BY <2>2 DEF Accepts, Owned
    <3>8. PICK old \in PendingTask : old = tasks[t]
      BY <1>2, <3>7
    <3>9. /\ tasks'[t] # NoTask /\ tasks'[t].finished
          /\ tasks'[t].connection = old.connection /\ tasks'[t].streamed = old.streamed
          /\ LastKind(tasks'[t]) = status
      BY <1>7, <3>6, <3>8, FinishedEntry DEF TerminalKinds
    <3>10. Goes(t)
      BY <3>7, <3>8, <3>9 DEF Goes
    <3>11. Answered(t) \/ Fails(t)
      BY <1>7, <3>7, <3>8, <3>9, <3>10 DEF Answered, Fails
    <3> QED
      BY <3>3, <3>6, <3>11 DEF TasksTyped, Table
  <2> QED
    BY <2>1, <2>2
<1> QED
  BY <1>3, <1>4, <1>5, <1>6, <1>7
     DEF WorkNext, LinkStep, Connect, Disconnect, Break, Heartbeat, Receive, ReceiveBenchmark,
         Take, StartTask, StartBenchmark, Emit, Complete, Fail, AnswerBenchmark, Hang,
         ProfileExpires, systemVars

(***************************************************************************)
(* The invariant.                                                          *)
(***************************************************************************)
\* A task is asked for once, and starts once.
AskedOnce(t) ==
  /\ \A c \in Conns : \A i \in DOMAIN toNode[c] : toNode[c][i] = Ask(t) =>
       /\ work[t] = "none" /\ tasks[t] # NoTask
       /\ \A d \in Conns : \A j \in DOMAIN toNode[d] :
            toNode[d][j] = Ask(t) => c = d /\ i = j
  /\ tasks[t] = NoTask => work[t] = "none"

\* What the state of a task's handler says of its messages.
AnswersInTime(t) ==
  /\ work[t] = "none" => pieces[t] = 0
  /\ \A c \in Conns : \A i \in DOMAIN toCoord[c] :
       /\ toCoord[c][i] = Piece(t) => work[t] # "none"
       /\ toCoord[c][i] = Answer(t) => work[t] = "ended"

\* The coordinator serves what the node still has up, and a task is on a
\* connection that was opened.
LinksOK ==
  /\ \A c \in up : IsOpen(c)
  /\ \A t \in TaskIds : tasks[t] # NoTask => tasks[t].connection <= opened

\* A task starts when the message that asks for it is taken.
LEMMA StartsOnce ==
  ASSUME WorkTyped, NEW c \in Conns, NEW t \in TaskIds, StartTask(c, t), AskedOnce(t)
  PROVE  /\ toNode[c] # <<>> /\ 1 \in DOMAIN toNode[c] /\ toNode[c][1] = Ask(t)
         /\ toNode' = [toNode EXCEPT ![c] = Tail(toNode[c])]
         /\ work[t] = "none" /\ tasks[t] # NoTask
<1>1. toNode \in [Conns -> Seq(ToNode)]
  BY WorkTypedParts DEF QueuesTyped
<1>2. /\ toNode[c] # <<>> /\ Head(toNode[c]) = Ask(t)
      /\ toNode' = [toNode EXCEPT ![c] = Tail(toNode[c])]
  BY <1>1 DEF StartTask, Takes, Ask
<1>3. 1 \in DOMAIN toNode[c] /\ toNode[c][1] = Ask(t)
  BY <1>1, <1>2, Tailed
<1> QED
  BY <1>2, <1>3 DEF AskedOnce

\* A handler starts, yields or ends; nothing else is done to its task.
LEMMA WorkStep ==
  ASSUME WorkTyped, [WorkNext]_systemVars, NEW t \in TaskIds, AskedOnce(t)
  PROVE  /\ \/ work'[t] = work[t]
            \/ work[t] = "none" /\ work'[t] = "running" /\ \E c \in Conns : StartTask(c, t)
            \/ work[t] = "running" /\ work'[t] = "ended" /\ (Complete(t) \/ Fail(t))
         /\ \/ pieces'[t] = pieces[t]
            \/ pieces'[t] = pieces[t] + 1 /\ Emit(t)
<1>1. /\ work \in [TaskIds -> {"none", "running", "ended"}]
      /\ pieces \in [TaskIds -> 0..MaxPieces]
  BY WorkTypedParts DEF HandlersTyped
<1>2. ASSUME NEW c \in Conns, NEW u \in TaskIds, StartTask(c, u)
      PROVE  /\ UNCHANGED pieces
             /\ \/ work'[t] = work[t]
                \/ work[t] = "none" /\ work'[t] = "running" /\ StartTask(c, t)
  <2>1. UNCHANGED pieces /\ work' = [work EXCEPT ![u] = "running"]
    BY <1>2 DEF StartTask
  <2> QED
    BY <1>1, <1>2, <2>1, StartsOnce
<1>3. ASSUME NEW u \in TaskIds, Complete(u) \/ Fail(u)
      PROVE  /\ UNCHANGED pieces
             /\ \/ work'[t] = work[t]
                \/ work[t] = "running" /\ work'[t] = "ended" /\ (Complete(t) \/ Fail(t))
  <2>1. UNCHANGED pieces /\ work[u] = "running" /\ work' = [work EXCEPT ![u] = "ended"]
    BY <1>3 DEF Complete, Fail
  <2> QED
    BY <1>1, <1>3, <2>1
<1>4. ASSUME NEW u \in TaskIds, Emit(u)
      PROVE  /\ UNCHANGED work
             /\ \/ pieces'[t] = pieces[t]
                \/ pieces'[t] = pieces[t] + 1 /\ Emit(t)
  <2>1. UNCHANGED work /\ pieces' = [pieces EXCEPT ![u] = pieces[u] + 1]
    BY <1>1, <1>4 DEF Emit
  <2> QED
    BY <1>1, <1>4, <2>1
<1>5. CASE UNCHANGED <<work, pieces>>
  BY <1>5
<1> QED
  BY <1>2, <1>3, <1>4, <1>5
     DEF WorkNext, LinkStep, Connect, Disconnect, Break, SessionEnds, Registered, Heartbeat,
         Receive, ReceiveChunk, ReceiveResult, ReceiveBenchmark, Take, StartBenchmark, Assign,
         AnswerBenchmark, Hang, ProfileExpires, workVars, systemVars

(***************************************************************************)
(* The steps.                                                              *)
(***************************************************************************)
LEMMA HandlersStep ==
  ASSUME WorkTyped, \A t \in TaskIds : AskedOnce(t), [WorkNext]_systemVars
  PROVE  HandlersTyped'
<1>1. /\ work \in [TaskIds -> {"none", "running", "ended"}]
      /\ pieces \in [TaskIds -> 0..MaxPieces] /\ MaxPieces \in Nat
      /\ IsFiniteSet(Working) /\ active = Cardinality(Working)
  BY WorkTypedParts, WorkAssumption DEF HandlersTyped
<1>2. ASSUME NEW c \in Conns, NEW t \in TaskIds, StartTask(c, t) PROVE HandlersTyped'
  <2>1. /\ work' = [work EXCEPT ![t] = "running"] /\ active' = active + 1 /\ UNCHANGED pieces
        /\ work[t] = "none"
    BY <1>2, StartsOnce DEF StartTask
  <2>2. Working' = Working \cup {t} /\ t \notin Working
    BY <1>1, <2>1 DEF Working
  <2>3. IsFiniteSet(Working') /\ Cardinality(Working') = Cardinality(Working) + 1
    BY <1>1, <2>2, FS_AddElement
  <2> QED
    BY <1>1, <2>1, <2>3 DEF HandlersTyped
<1>3. ASSUME NEW t \in TaskIds, Complete(t) \/ Fail(t) PROVE HandlersTyped'
  <2>1. /\ work' = [work EXCEPT ![t] = "ended"] /\ active' = active - 1 /\ UNCHANGED pieces
        /\ work[t] = "running"
    BY <1>3 DEF Complete, Fail
  <2>2. Working' = Working \ {t} /\ t \in Working
    BY <1>1, <2>1 DEF Working
  <2>3. IsFiniteSet(Working') /\ Cardinality(Working') = Cardinality(Working) - 1
    BY <1>1, <2>2, FS_RemoveElement
  <2> QED
    BY <1>1, <2>1, <2>3 DEF HandlersTyped
<1>4. ASSUME NEW t \in TaskIds, Emit(t) PROVE HandlersTyped'
  <2>1. UNCHANGED <<work, active>> /\ pieces' = [pieces EXCEPT ![t] = pieces[t] + 1]
    BY <1>1, <1>4 DEF Emit
  <2>2. Working' = Working /\ pieces[t] + 1 \in 0..MaxPieces
    BY <1>1, <1>4, <2>1 DEF Emit, Working
  <2> QED
    BY <1>1, <2>1, <2>2 DEF HandlersTyped
<1>5. CASE UNCHANGED workVars
  BY <1>1, <1>5 DEF workVars, Working, HandlersTyped
<1> QED
  BY <1>2, <1>3, <1>4, <1>5
     DEF WorkNext, LinkStep, Connect, Disconnect, Break, SessionEnds, Registered, Heartbeat,
         Receive, ReceiveChunk, ReceiveResult, ReceiveBenchmark, Take, StartBenchmark, Assign,
         AnswerBenchmark, Hang, ProfileExpires, systemVars

LEMMA BenchmarksStep ==
  ASSUME WorkTyped, [WorkNext]_systemVars
  PROVE  BenchmarksTyped'
<1>1. BenchmarksTyped /\ MaxHung \in Nat
  BY WorkTypedParts, WorkAssumption
<1>2. ASSUME NEW c \in Conns, Registered(c) \/ Heartbeat(c) PROVE BenchmarksTyped'
  <2>1. UNCHANGED <<probes, hung, profile>> /\ BenchmarkSent(c)
    BY <1>2 DEF Registered, Heartbeat
  <2>2. awaited' = [awaited EXCEPT ![c] = Unused] /\ Unused \in Benchmarks
    BY <2>1, UnusedSlot DEF BenchmarkSent
  <2> QED
    BY <1>1, <2>1, <2>2 DEF BenchmarksTyped
<1>3. ASSUME NEW c \in Conns, NEW b \in Benchmarks, ReceiveBenchmark(c, b) PROVE BenchmarksTyped'
  BY <1>1, <1>3 DEF ReceiveBenchmark, ProfileStored, BenchmarksTyped
<1>4. ASSUME NEW c \in Conns, SessionEnds(c) PROVE BenchmarksTyped'
  BY <1>1, <1>4 DEF SessionEnds, BenchmarksTyped
<1>5. ASSUME NEW c \in Conns, NEW b \in Benchmarks, StartBenchmark(c, b) PROVE BenchmarksTyped'
  BY <1>1, <1>5 DEF StartBenchmark, BenchmarksTyped
<1>6. ASSUME ProfileExpires PROVE BenchmarksTyped'
  BY <1>1, <1>6 DEF ProfileExpires, BenchmarksTyped
<1>7. CASE UNCHANGED benchVars
  BY <1>1, <1>7 DEF benchVars, BenchmarksTyped
<1>8. ASSUME NEW b \in Benchmarks, AnswerBenchmark(b) \/ Hang(b) PROVE BenchmarksTyped'
  BY <1>1, <1>8 DEF AnswerBenchmark, Hang, BenchmarksTyped
<1> QED
  BY <1>2, <1>3, <1>4, <1>5, <1>6, <1>7, <1>8
     DEF WorkNext, LinkStep, Connect, Disconnect, Break, Receive, ReceiveChunk, ReceiveResult,
         Take, StartTask, Assign, Emit, Complete, Fail, systemVars

LEMMA LinksOKStep ==
  ASSUME WorkTyped, LinksOK, [WorkNext]_systemVars
  PROVE  LinksOK'
<1>1. LinksTyped /\ LinksTyped'
  BY WorkTypedParts, LinksStep
<1>2. opened \in Nat /\ opened' \in Nat /\ opened <= opened'
  <2>1. opened' = opened \/ opened' = opened + 1
    BY DEF WorkNext, LinkStep, Connect, Disconnect, Break, SessionEnds, Registered, Heartbeat,
           Receive, ReceiveChunk, ReceiveResult, ReceiveBenchmark, Take, StartTask,
           StartBenchmark, Assign, Emit, Complete, Fail, AnswerBenchmark, Hang, ProfileExpires,
           linkVars, systemVars
  <2> QED
    BY <1>1, <2>1, ConnNumbers DEF LinksTyped
<1>3. ASSUME NEW t \in TaskIds, tasks'[t] # NoTask PROVE tasks'[t].connection <= opened'
  <2>1. CASE tasks[t] # NoTask
    <3>1. tasks'[t].connection = tasks[t].connection
      BY <1>3, <2>1, TasksStep DEF Begins, Streamed, Answered, Fails, Goes
    <3>2. tasks[t].connection \in Conns
      BY <2>1, WorkTypedParts DEF TasksTyped, Table, PendingTask
    <3>3. PICK d \in Nat : d = tasks[t].connection
      BY <3>2, ConnNumbers
    <3> QED
      BY <1>2, <2>1, <3>1, <3>3 DEF LinksOK
  <2>2. CASE tasks[t] = NoTask
    <3>1. Begins(t)
      BY <1>3, <2>2, TasksStep DEF Streamed, Answered, Fails, Goes
    <3>2. PICK c \in Conns : tasks'[t].connection = c /\ c = opened
      BY <3>1 DEF Begins, Assign
    <3> QED
      BY <1>2, <3>2
  <2> QED
    BY <2>1, <2>2
<1>4. ASSUME NEW c \in up' PROVE IsOpen(c)'
  <2>1. c \in Conns
    BY <1>1, <1>4 DEF LinksTyped
  <2>2. ASSUME NEW d \in Conns, Connect(d) PROVE session'[c] \in {"registering", "serving"}
    BY <1>1, <1>4, <2>1, <2>2 DEF Connect, LinksTyped, LinksOK, IsOpen
  <2>3. ASSUME NEW d \in Conns, SessionEnds(d) PROVE session'[c] \in {"registering", "serving"}
    BY <1>1, <1>4, <2>1, <2>3 DEF SessionEnds, LinksTyped, LinksOK, IsOpen
  <2>4. ASSUME NEW d \in Conns, Registered(d) PROVE session'[c] \in {"registering", "serving"}
    BY <1>1, <1>4, <2>1, <2>4 DEF Registered, LinksTyped, LinksOK, IsOpen
  <2>5. CASE UNCHANGED session /\ up' \subseteq up
    BY <1>4, <2>1, <2>5 DEF LinksOK, IsOpen
  <2>6. session'[c] \in {"registering", "serving"}
    BY <2>2, <2>3, <2>4, <2>5
       DEF WorkNext, LinkStep, Disconnect, Break, Heartbeat, Receive, ReceiveChunk,
           ReceiveResult, ReceiveBenchmark, Take, StartTask, StartBenchmark, Assign, Emit,
           Complete, Fail, AnswerBenchmark, Hang, ProfileExpires, linkVars, systemVars, IsOpen,
           LinksOK
  <2> QED
    BY <2>6 DEF IsOpen
<1>5. \A c \in up' : IsOpen(c)'
  BY <1>4
<1> QED
  BY <1>3, <1>5 DEF LinksOK, IsOpen

LEMMA AssignTracks ==
  ASSUME WorkTyped, NEW t \in TaskIds, NEW c \in Conns, Assign(t, c)
  PROVE  tasks[t] = NoTask /\ tasks'[t] # NoTask /\ c = opened /\ UNCHANGED <<linkVars, work>>
<1>1. tasks \in Table /\ GoodTable(tasks)
  BY WorkTypedParts DEF TasksTyped
<1> QED
  BY <1>1, CreatedTable DEF Assign, workVars

\* A request for t in a queue was there before, or t is assigned in this step.
LEMMA AskOrigin ==
  ASSUME WorkTyped, [WorkNext]_systemVars, NEW c \in Conns, NEW t \in TaskIds
  PROVE  \E k \in {0, 1} : \A i \in DOMAIN toNode'[c] : toNode'[c][i] = Ask(t) =>
           \/ i + k \in DOMAIN toNode[c] /\ toNode[c][i + k] = Ask(t)
           \/ Assign(t, c) /\ i = Len(toNode'[c])
<1>1. toNode[c] \in Seq(ToNode)
  BY WorkTypedParts DEF QueuesTyped
<1>2. CASE toNode'[c] = toNode[c] \/ toNode'[c] = <<>>
  <2>1. \A i \in DOMAIN toNode'[c] : i + 0 \in DOMAIN toNode[c] /\ toNode[c][i + 0] = toNode'[c][i]
    BY <1>1, <1>2
  <2> QED
    BY <2>1
<1>3. CASE toNode[c] # <<>> /\ toNode'[c] = Tail(toNode[c])
  <2>1. \A i \in DOMAIN toNode'[c] : i + 1 \in DOMAIN toNode[c] /\ toNode[c][i + 1] = toNode'[c][i]
    BY <1>1, <1>3, Tailed
  <2> QED
    BY <2>1
<1>4. ASSUME NEW m \in ToNode, toNode'[c] = Append(toNode[c], m), m = Ask(t) => Assign(t, c)
      PROVE  \A i \in DOMAIN toNode'[c] : toNode'[c][i] = Ask(t) =>
               \/ i + 0 \in DOMAIN toNode[c] /\ toNode[c][i + 0] = Ask(t)
               \/ Assign(t, c) /\ i = Len(toNode'[c])
  <2>1. \A i \in DOMAIN toNode'[c] :
          \/ i \in DOMAIN toNode[c] /\ i + 0 = i /\ toNode'[c][i] = toNode[c][i]
          \/ i = Len(toNode'[c]) /\ toNode'[c][i] = m
    BY <1>1, <1>4, Appended
  <2> QED
    BY <1>4, <2>1
<1>5. ASSUME NEW b \in Benchmarks,
             toNode'[c] = Append(toNode[c], [type |-> "benchmark", of |-> b])
      PROVE  \A i \in DOMAIN toNode'[c] : toNode'[c][i] = Ask(t) =>
               \/ i + 0 \in DOMAIN toNode[c] /\ toNode[c][i + 0] = Ask(t)
               \/ Assign(t, c) /\ i = Len(toNode'[c])
  BY <1>4, <1>5, MessageTypes, MessagesDiffer
<1>6. ASSUME NEW u \in TaskIds, Assign(u, c), toNode'[c] = Append(toNode[c], Ask(u))
      PROVE  \A i \in DOMAIN toNode'[c] : toNode'[c][i] = Ask(t) =>
               \/ i + 0 \in DOMAIN toNode[c] /\ toNode[c][i + 0] = Ask(t)
               \/ Assign(t, c) /\ i = Len(toNode'[c])
  <2>1. Ask(u) \in ToNode /\ (Ask(u) = Ask(t) => u = t)
    BY MessageTypes, MessagesDiffer
  <2> QED
    BY <1>4, <1>6, <2>1
<1> QED
  BY <1>2, <1>3, <1>5, <1>6, ToNodeChange

LEMMA AskedOnceStep ==
  ASSUME WorkTyped, NEW t \in TaskIds, AskedOnce(t), [WorkNext]_systemVars
  PROVE  AskedOnce(t)'
<1>1. /\ toNode \in [Conns -> Seq(ToNode)] /\ \A c \in Conns : toNode'[c] \in Seq(ToNode)
      /\ work[t] \in {"none", "running", "ended"}
  BY WorkTypedParts, ToNodeChange DEF QueuesTyped, HandlersTyped
<1>2. CASE tasks[t] = NoTask
  <2>1. work[t] = "none" /\ \A c \in Conns : \A i \in DOMAIN toNode[c] : toNode[c][i] # Ask(t)
    BY <1>2 DEF AskedOnce
  <2>2. work'[t] = "none"
    BY <1>2, <2>1, WorkStep, StartsOnce
  <2>3. ASSUME NEW c \in Conns, NEW i \in DOMAIN toNode'[c], toNode'[c][i] = Ask(t)
        PROVE  Assign(t, c) /\ i = Len(toNode'[c])
    BY <2>1, <2>3, AskOrigin
  <2>4. ASSUME NEW c \in Conns, NEW i \in DOMAIN toNode'[c], toNode'[c][i] = Ask(t),
               NEW d \in Conns, NEW j \in DOMAIN toNode'[d], toNode'[d][j] = Ask(t)
        PROVE  c = d /\ i = j
    <3>1. c = opened /\ d = opened
      BY <2>3, <2>4, AssignTracks
    <3> QED
      BY <2>3, <2>4, <3>1
  <2>5. \A c \in Conns : \A i \in DOMAIN toNode'[c] : toNode'[c][i] = Ask(t) => tasks'[t] # NoTask
    BY <2>3, AssignTracks
  <2> QED
    BY <2>2, <2>4, <2>5 DEF AskedOnce
<1>3. CASE tasks[t] # NoTask
  <2>1. \A c \in Conns : ~Assign(t, c)
    BY <1>3 DEF Assign
  <2>2. tasks'[t] # NoTask
    BY <1>3, TasksStep DEF Begins, Streamed, Answered, Fails, Goes
  <2>3. ASSUME NEW e \in Conns, StartTask(e, t)
        PROVE  \A c \in Conns : \A i \in DOMAIN toNode'[c] : toNode'[c][i] # Ask(t)
    <3>1. /\ toNode[e] # <<>> /\ 1 \in DOMAIN toNode[e] /\ toNode[e][1] = Ask(t)
          /\ toNode' = [toNode EXCEPT ![e] = Tail(toNode[e])]
      BY <2>3, StartsOnce
    <3>2. \A c \in Conns : \A i \in DOMAIN toNode[c] : toNode[c][i] = Ask(t) => c = e /\ i = 1
      BY <3>1 DEF AskedOnce
    <3>3. \A i \in DOMAIN toNode'[e] :
            i + 1 \in DOMAIN toNode[e] /\ toNode'[e][i] = toNode[e][i + 1] /\ i + 1 # 1
      BY <1>1, <3>1, Tailed
    <3>4. \A c \in Conns \ {e} : toNode'[c] = toNode[c]
      BY <1>1, <3>1
    <3> QED
      BY <3>2, <3>3, <3>4
  <2>4. ASSUME NEW c \in Conns, NEW i \in DOMAIN toNode'[c], toNode'[c][i] = Ask(t)
        PROVE  work'[t] = "none"
    <3>1. \A e \in Conns : ~StartTask(e, t)
      BY <2>3, <2>4
    <3>2. work[t] = "none"
      BY <2>1, <2>4, AskOrigin DEF AskedOnce
    <3> QED
      BY <3>1, <3>2, WorkStep
  <2>5. ASSUME NEW c \in Conns, NEW i \in DOMAIN toNode'[c], toNode'[c][i] = Ask(t),
               NEW d \in Conns, NEW j \in DOMAIN toNode'[d], toNode'[d][j] = Ask(t)
        PROVE  c = d /\ i = j
    <3>1. c = d
      BY <2>1, <2>5, AskOrigin DEF AskedOnce
    <3>2. PICK k \in {0, 1} : \A n \in DOMAIN toNode'[c] : toNode'[c][n] = Ask(t) =>
                                n + k \in DOMAIN toNode[c] /\ toNode[c][n + k] = Ask(t)
      BY <2>1, AskOrigin
    <3>3. i + k = j + k
      BY <2>5, <3>1, <3>2 DEF AskedOnce
    <3>4. i \in Nat /\ j \in Nat
      BY <1>1
    <3> QED
      BY <3>1, <3>3, <3>4
  <2> QED
    BY <2>2, <2>4, <2>5 DEF AskedOnce
<1> QED
  BY <1>2, <1>3

\* A piece or an answer in a queue was there before, or is sent in this step.
LEMMA AnswerOrigin ==
  ASSUME WorkTyped, [WorkNext]_systemVars, NEW c \in Conns, NEW t \in TaskIds,
         NEW i \in DOMAIN toCoord'[c], NEW m \in {Piece(t), Answer(t)}, toCoord'[c][i] = m
  PROVE  \/ \E j \in DOMAIN toCoord[c] : toCoord[c][j] = m
         \/ m = Piece(t) /\ Emit(t)
         \/ m = Answer(t) /\ Complete(t)
<1>1. toCoord[c] \in Seq(ToCoord)
  BY WorkTypedParts DEF QueuesTyped
<1>2. CASE toCoord'[c] = toCoord[c] \/ toCoord'[c] = <<>>
  BY <1>1, <1>2
<1>3. CASE toCoord[c] # <<>> /\ toCoord'[c] = Tail(toCoord[c])
  <2>1. i + 1 \in DOMAIN toCoord[c] /\ toCoord[c][i + 1] = m
    BY <1>1, <1>3, Tailed
  <2> QED
    BY <2>1
<1>4. ASSUME NEW n \in ToCoord, toCoord'[c] = Append(toCoord[c], n)
      PROVE  m = n \/ \E j \in DOMAIN toCoord[c] : toCoord[c][j] = m
  BY <1>1, <1>4, Appended
<1>5. \A n \in ToCoord : toCoord'[c] = Append(toCoord[c], n) =>
        m = n \/ \E j \in DOMAIN toCoord[c] : toCoord[c][j] = m
  BY <1>4
<1>6. \A u \in TaskIds :
        /\ Piece(u) \in ToCoord /\ (m = Piece(u) => u = t /\ m = Piece(t))
        /\ Answer(u) \in ToCoord /\ (m = Answer(u) => u = t /\ m = Answer(t))
        /\ [type |-> "failed", of |-> u] \in ToCoord /\ m # [type |-> "failed", of |-> u]
  BY MessageTypes, MessagesDiffer
<1>7. \A b \in Benchmarks : /\ [type |-> "benchmark_result", of |-> b] \in ToCoord
                            /\ m # [type |-> "benchmark_result", of |-> b]
  BY MessageTypes, MessagesDiffer
<1> QED
  BY <1>2, <1>3, <1>5, <1>6, <1>7, ToCoordChange

LEMMA AnswersInTimeStep ==
  ASSUME WorkTyped, NEW t \in TaskIds, AskedOnce(t), AnswersInTime(t), [WorkNext]_systemVars
  PROVE  AnswersInTime(t)'
<1>1. /\ work[t] \in {"none", "running", "ended"}
      /\ work'[t] = "none" => work[t] = "none"
      /\ work[t] = "ended" => work'[t] = "ended"
      /\ Complete(t) => work'[t] = "ended"
      /\ Emit(t) => work[t] = "running"
  BY WorkTypedParts, WorkStep DEF HandlersTyped, Complete, Emit
<1>2. work'[t] = "none" => pieces'[t] = 0
  BY <1>1, WorkStep DEF AnswersInTime
<1>3. ASSUME NEW c \in Conns, NEW i \in DOMAIN toCoord'[c], toCoord'[c][i] = Piece(t)
      PROVE  work'[t] # "none"
  <2>1. Emit(t) \/ \E j \in DOMAIN toCoord[c] : toCoord[c][j] = Piece(t)
    BY <1>3, AnswerOrigin, MessagesDiffer
  <2> QED
    BY <1>1, <2>1 DEF AnswersInTime
<1>4. ASSUME NEW c \in Conns, NEW i \in DOMAIN toCoord'[c], toCoord'[c][i] = Answer(t)
      PROVE  work'[t] = "ended"
  <2>1. Complete(t) \/ \E j \in DOMAIN toCoord[c] : toCoord[c][j] = Answer(t)
    BY <1>4, AnswerOrigin, MessagesDiffer
  <2> QED
    BY <1>1, <2>1 DEF AnswersInTime
<1> QED
  BY <1>2, <1>3, <1>4 DEF AnswersInTime

(***************************************************************************)
(* What the pieces in a queue add up to.  r[i] is what t will have         *)
(* streamed when the first i messages of q are read.                       *)
(***************************************************************************)
Total(q, t, had, r) ==
  /\ r \in [0..Len(q) -> Nat] /\ r[0] = had
  /\ \A i \in DOMAIN q : /\ q[i] = Piece(t) => r[i] = r[i - 1] + 1
                         /\ q[i] # Piece(t) => r[i] = r[i - 1]

LEMMA TotalNew ==
  ASSUME NEW q \in Seq(ToCoord), NEW t, \A i \in DOMAIN q : q[i] # Piece(t)
  PROVE  \E r : Total(q, t, 0, r) /\ \A i \in 0..Len(q) : r[i] = 0
<1> DEFINE r == [i \in 0..Len(q) |-> 0]
<1>1. /\ Len(q) \in Nat /\ DOMAIN q = 1..Len(q)
      /\ r \in [0..Len(q) -> Nat] /\ \A i \in 0..Len(q) : r[i] = 0
  OBVIOUS
<1> HIDE DEF r
<1>2. \A i \in DOMAIN q : i \in 0..Len(q) /\ i - 1 \in 0..Len(q)
  BY <1>1
<1>3. r[0] = 0
  BY <1>1
<1> QED
  BY <1>1, <1>2, <1>3 DEF Total

LEMMA TotalTail ==
  ASSUME NEW q \in Seq(ToCoord), q # <<>>, NEW t, NEW had \in Nat, NEW r, Total(q, t, had, r)
  PROVE  /\ q[1] = Piece(t) => r[1] = had + 1
         /\ q[1] # Piece(t) => r[1] = had
         /\ \E s : Total(Tail(q), t, r[1], s) /\ \A i \in 0..Len(Tail(q)) : s[i] = r[i + 1]
<1> DEFINE n == Len(q)
           s == [i \in 0..(n - 1) |-> r[i + 1]]
<1>1. /\ n \in Nat /\ n >= 1 /\ Len(q) = n /\ DOMAIN q = 1..n
      /\ Len(Tail(q)) = n - 1 /\ DOMAIN Tail(q) = 1..(n - 1)
      /\ \A i \in 1..(n - 1) : Tail(q)[i] = q[i + 1]
  BY Tailed
<1> HIDE DEF n
<1>2. r \in [0..n -> Nat] /\ r[0] = had
  BY <1>1 DEF Total
<1>3. \A i \in 1..n : (q[i] = Piece(t) => r[i] = r[i - 1] + 1)
                    /\ (q[i] # Piece(t) => r[i] = r[i - 1])
  BY <1>1 DEF Total
<1>4. s \in [0..(n - 1) -> Nat] /\ \A i \in 0..(n - 1) : s[i] = r[i + 1]
  BY <1>1, <1>2
<1> HIDE DEF s
<1>5. s[0] = r[1]
  BY <1>1, <1>4
<1>6. ASSUME NEW i \in 1..(n - 1)
      PROVE  /\ Tail(q)[i] = Piece(t) => s[i] = s[i - 1] + 1
             /\ Tail(q)[i] # Piece(t) => s[i] = s[i - 1]
  <2>1. /\ i + 1 \in 1..n /\ (i + 1) - 1 = i /\ (i - 1) + 1 = i
        /\ i \in 0..(n - 1) /\ i - 1 \in 0..(n - 1)
    BY <1>1
  <2>2. s[i] = r[i + 1] /\ s[i - 1] = r[i] /\ Tail(q)[i] = q[i + 1]
    BY <1>1, <1>4, <2>1
  <2>3. /\ q[i + 1] = Piece(t) => r[i + 1] = r[i] + 1
        /\ q[i + 1] # Piece(t) => r[i + 1] = r[i]
    BY <1>3, <2>1
  <2> QED
    BY <2>2, <2>3
<1>7. Total(Tail(q), t, r[1], s)
  BY <1>1, <1>4, <1>5, <1>6 DEF Total
<1>8. /\ q[1] = Piece(t) => r[1] = had + 1
      /\ q[1] # Piece(t) => r[1] = had
  <2>1. 1 \in 1..n /\ 1 - 1 = 0
    BY <1>1
  <2> QED
    BY <1>2, <1>3, <2>1
<1> QED
  BY <1>1, <1>4, <1>7, <1>8

LEMMA TotalAppend ==
  ASSUME NEW q \in Seq(ToCoord), NEW m \in ToCoord, NEW t, NEW had, NEW r, Total(q, t, had, r),
         NEW last \in Nat,
         m = Piece(t) => last = r[Len(q)] + 1,
         m # Piece(t) => last = r[Len(q)]
  PROVE  \E s : /\ Total(Append(q, m), t, had, s)
                /\ \A i \in 0..Len(q) : s[i] = r[i]
                /\ s[Len(q) + 1] = last
<1> DEFINE n == Len(q)
           s == [i \in 0..(n + 1) |-> IF i = n + 1 THEN last ELSE r[i]]
<1>1. /\ n \in Nat /\ Len(q) = n /\ DOMAIN q = 1..n
      /\ Len(Append(q, m)) = n + 1 /\ DOMAIN Append(q, m) = 1..(n + 1)
      /\ \A i \in 1..n : Append(q, m)[i] = q[i]
      /\ Append(q, m)[n + 1] = m
  BY Appended
<1> HIDE DEF n
<1>2. r \in [0..n -> Nat] /\ r[0] = had
  BY <1>1 DEF Total
<1>3. \A i \in 1..n : (q[i] = Piece(t) => r[i] = r[i - 1] + 1)
                    /\ (q[i] # Piece(t) => r[i] = r[i - 1])
  BY <1>1 DEF Total
<1>4. /\ s \in [0..(n + 1) -> Nat]
      /\ \A i \in 0..n : s[i] = r[i]
      /\ s[n + 1] = last
  BY <1>1, <1>2
<1> HIDE DEF s
<1>5. s[0] = had
  BY <1>1, <1>2, <1>4
<1>6. ASSUME NEW i \in 1..n
      PROVE  /\ Append(q, m)[i] = Piece(t) => s[i] = s[i - 1] + 1
             /\ Append(q, m)[i] # Piece(t) => s[i] = s[i - 1]
  <2>1. i \in 0..n /\ i - 1 \in 0..n
    BY <1>1
  <2>2. s[i] = r[i] /\ s[i - 1] = r[i - 1] /\ Append(q, m)[i] = q[i]
    BY <1>1, <1>4, <2>1
  <2> QED
    BY <1>3, <2>2
<1>7. /\ Append(q, m)[n + 1] = Piece(t) => s[n + 1] = s[(n + 1) - 1] + 1
      /\ Append(q, m)[n + 1] # Piece(t) => s[n + 1] = s[(n + 1) - 1]
  <2>1. (n + 1) - 1 = n /\ n \in 0..n
    BY <1>1
  <2>2. s[(n + 1) - 1] = r[n]
    BY <1>4, <2>1
  <2> QED
    BY <1>1, <1>4, <2>2
<1>8. \A i \in 1..(n + 1) : i \in 1..n \/ i = n + 1
  BY <1>1
<1>9. \A i \in 1..(n + 1) : /\ Append(q, m)[i] = Piece(t) => s[i] = s[i - 1] + 1
                           /\ Append(q, m)[i] # Piece(t) => s[i] = s[i - 1]
  BY <1>6, <1>7, <1>8
<1>10. Total(Append(q, m), t, had, s)
  BY <1>1, <1>4, <1>5, <1>9 DEF Total
<1> QED
  BY <1>1, <1>4, <1>10

\* t can still be streamed whole.
Intact(t) ==
  work[t] # "ended" /\ socket = tasks[t].connection /\ socket \in up

\* What is on its way brings t to as many pieces as its handler yielded, where an
\* answer is read and, as long as nothing is lost, in the end.
Delivers(t, q, r) ==
  /\ Total(q, t, tasks[t].streamed, r)
  /\ \A i \in DOMAIN q : q[i] = Answer(t) => r[i] = pieces[t]
  /\ Intact(t) => r[Len(q)] = pieces[t]

StreamDelivers(t) ==
  t \in Streams /\ tasks[t] # NoTask /\ ~tasks[t].finished =>
    \E r : Delivers(t, toCoord[tasks[t].connection], r)

\* A step does not make a connection the node's again.
LEMMA StaysIntact ==
  ASSUME WorkTyped, LinksOK, NEW t \in TaskIds, AskedOnce(t), [WorkNext]_systemVars,
         tasks[t] # NoTask, tasks'[t].connection = tasks[t].connection, Intact(t)'
  PROVE  Intact(t)
<1>1. PICK c \in Conns : c = tasks[t].connection
  BY WorkTypedParts DEF TasksTyped, Table, PendingTask
<1>2. /\ c \in Nat /\ c # NoConn /\ c <= opened /\ opened \in Nat
      /\ socket' = c /\ c \in up' /\ work'[t] # "ended"
  BY <1>1, WorkTypedParts, ConnNumbers DEF LinksTyped, LinksOK, Intact
<1>3. work[t] # "ended"
  BY <1>2, WorkStep
<1>4. \A d \in Conns : ~Connect(d)
  <2>1. SUFFICES ASSUME NEW d \in Conns, Connect(d) PROVE FALSE
    OBVIOUS
  <2>2. c = opened + 1
    BY <1>2, <2>1 DEF Connect
  <2> QED
    BY <1>2, <2>2
<1>5. up' \subseteq up /\ socket' \in {socket, NoConn}
  BY <1>4
     DEF WorkNext, LinkStep, Disconnect, Break, SessionEnds, Registered, Heartbeat, Receive,
         ReceiveChunk, ReceiveResult, ReceiveBenchmark, Take, StartTask, StartBenchmark, Assign,
         Emit, Complete, Fail, AnswerBenchmark, Hang, ProfileExpires, linkVars, systemVars
<1> QED
  BY <1>1, <1>2, <1>3, <1>5 DEF Intact

\* A stream begins with nothing yielded and nothing on its way.
LEMMA StreamBegins ==
  ASSUME WorkTyped, NEW t \in TaskIds, AskedOnce(t), AnswersInTime(t), [WorkNext]_systemVars,
         Begins(t), NEW c \in Conns, tasks'[t].connection = c
  PROVE  \E r : /\ Total(toCoord'[c], t, tasks'[t].streamed, r)
                /\ \A i \in 0..Len(toCoord'[c]) : r[i] = pieces'[t]
                /\ \A i \in DOMAIN toCoord'[c] : toCoord'[c][i] # Answer(t)
<1>1. PICK q \in Seq(ToCoord) : q = toCoord[c] /\ toCoord'[c] = q
  BY WorkTypedParts DEF QueuesTyped, Begins, Assign
<1>2. work[t] = "none" /\ pieces'[t] = pieces[t] /\ tasks'[t].streamed = 0
  BY DEF Begins, Assign, workVars, AskedOnce
<1>3. pieces[t] = 0 /\ \A i \in DOMAIN q : q[i] # Piece(t) /\ q[i] # Answer(t)
  BY <1>1, <1>2 DEF AnswersInTime
<1>4. PICK r : Total(q, t, 0, r) /\ \A i \in 0..Len(q) : r[i] = 0
  BY <1>3, TotalNew
<1> QED
  BY <1>1, <1>2, <1>3, <1>4

\* While t is not finished, a message that is read from its connection adds to
\* what it has streamed if and only if it is a piece of t.
LEMMA ReadsPieces ==
  ASSUME WorkTyped, NEW t \in TaskIds, NEW c \in Conns, [WorkNext]_systemVars,
         tasks[t] # NoTask, ~tasks[t].finished, tasks[t].connection = c,
         ~tasks'[t].finished, Receive(c)
  PROVE  /\ toCoord[c][1] = Piece(t) => tasks'[t].streamed = tasks[t].streamed + 1
         /\ toCoord[c][1] # Piece(t) => tasks'[t].streamed = tasks[t].streamed
         /\ UNCHANGED workVars
<1>1. UNCHANGED workVars
  BY DEF Receive, ReceiveChunk, ReceiveResult, ReceiveBenchmark
<1>2. toCoord[c] # <<>> => Head(toCoord[c]) = toCoord[c][1]
  BY WorkTypedParts, Tailed DEF QueuesTyped
<1>3. ASSUME toCoord[c][1] = Piece(t) PROVE tasks'[t].streamed = tasks[t].streamed + 1
  <2>1. \A u \in TaskIds : ReceiveChunk(c, u) => u = t
    BY <1>2, <1>3 DEF ReceiveChunk, Receives, Piece
  <2>2. \A u \in TaskIds : \A status \in {"completed", "failed"} : ~ReceiveResult(c, u, status)
    BY <1>2, <1>3 DEF ReceiveResult, Receives, Piece
  <2>3. \A b \in Benchmarks : ~ReceiveBenchmark(c, b)
    BY <1>2, <1>3 DEF ReceiveBenchmark, Receives, Piece
  <2>4. ReceiveChunk(c, t)
    BY <2>1, <2>2, <2>3 DEF Receive
  <2>5. Accepts(tasks, t, c)
    BY DEF Accepts, Owned
  <2>6. tasks' = ChunkAdded(tasks, t, c, 1) /\ tasks \in Table
    BY <2>4, <2>5, WorkTypedParts DEF ReceiveChunk, TasksTyped
  <2> QED
    BY <2>5, <2>6, ChunkEntry
<1>4. ASSUME toCoord[c][1] # Piece(t) PROVE tasks'[t].streamed = tasks[t].streamed
  <2>1. ~ReceiveChunk(c, t)
    BY <1>2, <1>4 DEF ReceiveChunk, Receives, Piece
  <2> QED
    BY <2>1, TasksStep DEF Begins, Streamed, Answered, Fails
<1> QED
  BY <1>1, <1>3, <1>4

LEMMA StreamDeliversStep ==
  ASSUME WorkTyped, LinksOK, NEW t \in TaskIds, AskedOnce(t), AnswersInTime(t), StreamDelivers(t),
         [WorkNext]_systemVars
  PROVE  StreamDelivers(t)'
<1> SUFFICES ASSUME t \in Streams, tasks'[t] # NoTask, ~tasks'[t].finished
             PROVE  \E r : Delivers(t, toCoord[tasks[t].connection], r)'
  BY DEF StreamDelivers
<1>1. PICK c \in Conns : c = tasks'[t].connection
  BY TasksStep DEF TasksTyped, Table, PendingTask
<1>2. SUFFICES \E r : /\ Total(toCoord'[c], t, tasks'[t].streamed, r)
                      /\ \A i \in DOMAIN toCoord'[c] :
                           toCoord'[c][i] = Answer(t) => r[i] = pieces'[t]
                      /\ Intact(t)' => r[Len(toCoord'[c])] = pieces'[t]
  BY <1>1 DEF Delivers
<1>3. CASE tasks[t] = NoTask
  <2>1. Begins(t)
    BY <1>3, TasksStep DEF Streamed, Answered, Fails, Goes
  <2>2. Len(toCoord'[c]) \in 0..Len(toCoord'[c])
    BY ToCoordChange
  <2> QED
    BY <1>1, <2>1, <2>2, StreamBegins
<1>4. CASE tasks[t] # NoTask
  <2>1. /\ ~tasks[t].finished /\ tasks[t].connection = c
        /\ \/ tasks'[t] = tasks[t]
           \/ Streamed(t)
    BY <1>1, <1>4, TasksStep DEF Begins, Streamed, Answered, Fails, Goes
  <2>2. PICK q \in Seq(ToCoord) : q = toCoord[c]
    BY WorkTypedParts DEF QueuesTyped
  <2>3. PICK p \in Nat : p = pieces[t]
    BY WorkTypedParts, WorkAssumption DEF HandlersTyped
  <2>4. PICK had \in Nat : had = tasks[t].streamed
    BY <1>4, WorkTypedParts DEF TasksTyped, Table, PendingTask
  <2>5. PICK r : /\ Total(q, t, had, r)
                 /\ \A i \in DOMAIN q : q[i] = Answer(t) => r[i] = p
                 /\ Intact(t) => r[Len(q)] = p
    BY <1>4, <2>1, <2>2, <2>3, <2>4 DEF StreamDelivers, Delivers
  <2>6. Intact(t)' => Intact(t)
    BY <1>1, <1>4, <2>1, StaysIntact
  <2>7. /\ Len(q) \in Nat /\ Len(q) \in 0..Len(q) /\ DOMAIN q = 1..Len(q)
        /\ r \in [0..Len(q) -> Nat] /\ r[Len(q)] \in Nat
    BY <2>5 DEF Total
  <2>8. Streamed(t) => q # <<>> /\ toCoord'[c] = Tail(q)
    BY <2>1, <2>2, WorkTypedParts DEF Streamed, ReceiveChunk, Receives, QueuesTyped
  <2>9. CASE Emit(t)
    <3>1. pieces'[t] = p + 1 /\ work[t] = "running" /\ UNCHANGED <<tasks, linkVars>>
      BY <2>3, <2>9, WorkTypedParts DEF Emit, HandlersTyped
    <3>2. \A i \in DOMAIN q : q[i] # Answer(t)
      BY <2>2, <3>1 DEF AnswersInTime
    <3>3. \/ toCoord'[c] = Append(q, Piece(t))
          \/ toCoord'[c] = q /\ ~(c = socket /\ c \in up /\ IsOpen(c))
      <4>1. Sends("task_chunk", t) /\ Piece(t) \in ToCoord
        BY <2>9, MessageTypes DEF Emit
      <4> QED
        BY <2>2, <4>1, SendsOne DEF Piece
    <3>4. CASE toCoord'[c] = q /\ ~(c = socket /\ c \in up /\ IsOpen(c))
      <4>1. ~Intact(t)
        BY <2>1, <3>4 DEF Intact, LinksOK
      <4> QED
        BY <2>4, <2>5, <2>6, <3>1, <3>2, <3>4, <4>1
    <3>5. CASE toCoord'[c] = Append(q, Piece(t))
      <4>1. Piece(t) \in ToCoord /\ Piece(t) # Answer(t)
        BY MessageTypes, MessagesDiffer
      <4>2. PICK last \in Nat : last = r[Len(q)] + 1
        <5>1. PICK old \in Nat : old = r[Len(q)]
          BY <2>7
        <5>2. old + 1 \in Nat
          OBVIOUS
        <5> QED
          BY <5>1, <5>2
      <4>3. PICK s : /\ Total(Append(q, Piece(t)), t, had, s)
                     /\ s[Len(q) + 1] = last
        BY <2>5, <4>1, <4>2, TotalAppend
      <4>4. /\ Len(Append(q, Piece(t))) = Len(q) + 1
            /\ \A i \in DOMAIN Append(q, Piece(t)) : Append(q, Piece(t))[i] # Answer(t)
        BY <3>2, <4>1, Appended
      <4>5. Intact(t)' => s[Len(q) + 1] = p + 1
        BY <2>5, <2>6, <4>2, <4>3
      <4> QED
        BY <2>4, <3>1, <3>5, <4>3, <4>4, <4>5
    <3> QED
      BY <3>3, <3>4, <3>5
  <2>10. CASE ~Emit(t)
    <3>1. pieces'[t] = p
      BY <2>3, <2>10, WorkStep
    <3>2. CASE toCoord'[c] = q
      <4>1. tasks'[t] = tasks[t]
        <5>1. q # <<>> => Tail(q) # q
          BY TailShorter
        <5> QED
          BY <2>1, <2>8, <3>2, <5>1
      <4> QED
        BY <2>4, <2>5, <2>6, <3>1, <3>2, <4>1
    <3>3. ~SessionEnds(c)
      <4>1. SessionEnds(c) => tasks' = ConnectionFailed(tasks, c)
        BY DEF SessionEnds
      <4> QED
        BY <1>1, <4>1, Disconnected, ConnNumbers
    <3>4. CASE Receive(c) /\ q # <<>> /\ toCoord'[c] = Tail(q)
      <4>1. /\ q[1] = Piece(t) => tasks'[t].streamed = had + 1
            /\ q[1] # Piece(t) => tasks'[t].streamed = had
        BY <1>4, <2>1, <2>2, <2>4, <3>4, ReadsPieces
      <4>2. /\ q[1] = Piece(t) => r[1] = had + 1
            /\ q[1] # Piece(t) => r[1] = had
            /\ \E s : Total(Tail(q), t, r[1], s) /\ \A i \in 0..Len(Tail(q)) : s[i] = r[i + 1]
        BY <2>5, <3>4, TotalTail
      <4>3. PICK s : Total(Tail(q), t, r[1], s) /\ \A i \in 0..Len(Tail(q)) : s[i] = r[i + 1]
        BY <4>2
      <4>4. tasks'[t].streamed = r[1]
        BY <4>1, <4>2
      <4>5. /\ Len(Tail(q)) = Len(q) - 1 /\ Len(q) >= 1 /\ Len(Tail(q)) \in 0..Len(Tail(q))
            /\ \A i \in DOMAIN Tail(q) :
                 i + 1 \in DOMAIN q /\ Tail(q)[i] = q[i + 1] /\ i \in 0..Len(Tail(q))
        BY <2>7, <3>4, Tailed
      <4>6. \A i \in DOMAIN Tail(q) : Tail(q)[i] = Answer(t) => s[i] = p
        BY <2>5, <4>3, <4>5
      <4>7. Intact(t)' => s[Len(Tail(q))] = p
        <5>1. (Len(q) - 1) + 1 = Len(q)
          BY <2>7
        <5> QED
          BY <2>5, <2>6, <4>3, <4>5, <5>1
      <4> QED
        BY <3>1, <3>4, <4>3, <4>4, <4>6, <4>7
    <3>5. ASSUME NEW m \in ToCoord, toCoord'[c] = Append(q, m), m # Piece(t),
                 m = Answer(t) => Complete(t) /\ c = socket /\ c \in up
          PROVE  \E s : /\ Total(toCoord'[c], t, tasks'[t].streamed, s)
                        /\ \A i \in DOMAIN toCoord'[c] :
                             toCoord'[c][i] = Answer(t) => s[i] = pieces'[t]
                        /\ Intact(t)' => s[Len(toCoord'[c])] = pieces'[t]
      <4>1. PICK last \in Nat : last = r[Len(q)]
        BY <2>7
      <4>2. PICK s : /\ Total(Append(q, m), t, had, s)
                     /\ \A i \in 0..Len(q) : s[i] = r[i]
                     /\ s[Len(q) + 1] = last
        BY <2>5, <3>5, <4>1, TotalAppend
      <4>3. tasks'[t] = tasks[t]
        <5>1. q # <<>> => Tail(q) # Append(q, m)
          BY TailShorter
        <5> QED
          BY <2>1, <2>8, <3>5, <5>1
      <4>4. m = Answer(t) => r[Len(q)] = p
        <5>1. Complete(t) => work[t] # "ended"
          BY DEF Complete
        <5> QED
          BY <2>1, <2>5, <3>5, <5>1 DEF Intact
      <4>5. /\ Len(Append(q, m)) = Len(q) + 1
            /\ \A i \in DOMAIN Append(q, m) :
                 \/ i \in DOMAIN q /\ i \in 0..Len(q) /\ Append(q, m)[i] = q[i]
                 \/ i = Len(q) + 1 /\ Append(q, m)[i] = m
        BY <2>7, <3>5, Appended
      <4>6. \A i \in DOMAIN Append(q, m) : Append(q, m)[i] = Answer(t) => s[i] = p
        BY <2>5, <4>1, <4>2, <4>4, <4>5
      <4>7. Intact(t)' => s[Len(Append(q, m))] = p
        BY <2>5, <2>6, <4>1, <4>2, <4>5
      <4> QED
        BY <2>4, <3>1, <3>5, <4>2, <4>3, <4>6, <4>7
    <3>6. ASSUME NEW u \in TaskIds, Emit(u), toCoord'[c] = Append(q, Piece(u))
          PROVE  \E s : /\ Total(toCoord'[c], t, tasks'[t].streamed, s)
                        /\ \A i \in DOMAIN toCoord'[c] :
                             toCoord'[c][i] = Answer(t) => s[i] = pieces'[t]
                        /\ Intact(t)' => s[Len(toCoord'[c])] = pieces'[t]
      <4>1. u # t
        BY <2>10, <3>6
      <4>2. Piece(u) \in ToCoord /\ Piece(u) # Piece(t) /\ Piece(u) # Answer(t)
        BY <4>1, MessageTypes, MessagesDiffer
      <4> QED
        BY <3>5, <3>6, <4>2
    <3>7. ASSUME NEW u \in TaskIds, Complete(u), c = socket, c \in up,
                 toCoord'[c] = Append(q, Answer(u))
          PROVE  \E s : /\ Total(toCoord'[c], t, tasks'[t].streamed, s)
                        /\ \A i \in DOMAIN toCoord'[c] :
                             toCoord'[c][i] = Answer(t) => s[i] = pieces'[t]
                        /\ Intact(t)' => s[Len(toCoord'[c])] = pieces'[t]
      <4>1. Answer(u) \in ToCoord /\ Answer(u) # Piece(t) /\ (Answer(u) = Answer(t) => u = t)
        BY MessageTypes, MessagesDiffer
      <4> QED
        BY <3>5, <3>7, <4>1
    <3>8. ASSUME NEW k \in {"failed", "benchmark_result"}, NEW x,
                 [type |-> k, of |-> x] \in ToCoord,
                 toCoord'[c] = Append(q, [type |-> k, of |-> x])
          PROVE  \E s : /\ Total(toCoord'[c], t, tasks'[t].streamed, s)
                        /\ \A i \in DOMAIN toCoord'[c] :
                             toCoord'[c][i] = Answer(t) => s[i] = pieces'[t]
                        /\ Intact(t)' => s[Len(toCoord'[c])] = pieces'[t]
      <4>1. [type |-> k, of |-> x] # Piece(t) /\ [type |-> k, of |-> x] # Answer(t)
        BY <3>8, MessagesDiffer
      <4> QED
        BY <3>5, <3>8, <4>1
    <3> QED
      BY <2>2, <3>2, <3>3, <3>4, <3>6, <3>7, <3>8, ToCoordChange, MessageTypes
  <2> QED
    BY <2>9, <2>10
<1> QED
  BY <1>3, <1>4

\* What the end of a stream says: the handler ended, and nothing is missing.
EndedWhole(t) ==
  Completed(t) => work[t] = "ended" /\ (t \in Streams => tasks[t].streamed = pieces[t])

LEMMA EndedWholeStep ==
  ASSUME WorkTyped, NEW t \in TaskIds, AskedOnce(t), AnswersInTime(t), StreamDelivers(t),
         EndedWhole(t), [WorkNext]_systemVars
  PROVE  EndedWhole(t)'
<1> SUFFICES ASSUME Completed(t)'
             PROVE  work'[t] = "ended" /\ (t \in Streams => tasks'[t].streamed = pieces'[t])
  BY DEF EndedWhole
<1>1. work[t] = "ended" => work'[t] = "ended" /\ pieces'[t] = pieces[t]
  BY WorkStep DEF Emit
<1>2. CASE tasks'[t] = tasks[t]
  <2>1. Completed(t)
    BY <1>2 DEF Completed
  <2> QED
    BY <1>1, <1>2, <2>1 DEF EndedWhole
<1>3. CASE Answered(t)
  <2>1. PICK c \in Conns : tasks[t].connection = c /\ ReceiveResult(c, t, "completed")
    BY <1>3 DEF Answered
  <2>2. PICK q \in Seq(ToCoord) : q = toCoord[c]
    BY WorkTypedParts DEF QueuesTyped
  <2>3. q # <<>> /\ 1 \in DOMAIN q /\ q[1] = Answer(t)
    BY <2>1, <2>2, Tailed DEF ReceiveResult, Receives, Answer
  <2>4. work[t] = "ended"
    BY <2>2, <2>3 DEF AnswersInTime
  <2>5. ASSUME t \in Streams PROVE tasks'[t].streamed = pieces'[t]
    <3>1. tasks[t] # NoTask /\ ~tasks[t].finished /\ tasks'[t].streamed = tasks[t].streamed
      BY <1>3 DEF Answered, Goes
    <3>2. PICK had \in Nat : had = tasks[t].streamed
      BY <3>1, WorkTypedParts DEF TasksTyped, Table, PendingTask
    <3>3. PICK r : Total(q, t, had, r) /\ r[1] = pieces[t]
      BY <2>1, <2>2, <2>3, <2>5, <3>1, <3>2 DEF StreamDelivers, Delivers
    <3>4. r[1] = had
      BY <2>3, <3>3, TotalTail, MessagesDiffer
    <3> QED
      BY <1>1, <2>4, <3>1, <3>2, <3>3, <3>4
  <2> QED
    BY <1>1, <2>4, <2>5
<1>4. ~Begins(t) /\ ~Streamed(t) /\ ~Fails(t)
  BY DEF Completed, Begins, Streamed, Fails, LastKind
<1> QED
  BY <1>2, <1>3, <1>4, TasksStep

(***************************************************************************)
(* The theorems.                                                           *)
(***************************************************************************)
Whole ==
  /\ WorkTyped /\ LinksOK
  /\ \A t \in TaskIds :
       AskedOnce(t) /\ AnswersInTime(t) /\ StreamDelivers(t) /\ EndedWhole(t)

LEMMA WholeInit == WorkInit => Whole
<1> SUFFICES ASSUME WorkInit PROVE Whole
  OBVIOUS
<1>1. WorkTyped
  BY WorkTypedInit
<1>2. \A t \in TaskIds : tasks[t] = NoTask
  BY DEF WorkInit
<1>3. LinksOK
  BY <1>2 DEF WorkInit, LinksOK
<1>4. ASSUME NEW t \in TaskIds
      PROVE  AskedOnce(t) /\ AnswersInTime(t) /\ StreamDelivers(t) /\ EndedWhole(t)
  <2>1. AskedOnce(t) /\ AnswersInTime(t)
    BY DEF WorkInit, AskedOnce, AnswersInTime
  <2> QED
    BY <1>2, <2>1 DEF StreamDelivers, EndedWhole, Completed
<1> QED
  BY <1>1, <1>3, <1>4 DEF Whole

LEMMA WholeStep == Whole /\ [WorkNext]_systemVars => Whole'
<1> SUFFICES ASSUME Whole, [WorkNext]_systemVars PROVE Whole'
  OBVIOUS
<1>1. WorkTyped /\ LinksOK /\ \A t \in TaskIds : AskedOnce(t)
  BY DEF Whole
<1>2. LinksTyped' /\ QueuesTyped' /\ TasksTyped' /\ HandlersTyped' /\ BenchmarksTyped'
  BY <1>1, LinksStep, QueuesStep, TasksStep, HandlersStep, BenchmarksStep
<1>3. WorkTyped'
  BY <1>2 DEF WorkTyped, WorkTypeOK, TrackerTypeOK, Table, LinksTyped, QueuesTyped, TasksTyped,
              HandlersTyped, BenchmarksTyped, Working
<1>4. LinksOK'
  BY <1>1, LinksOKStep
<1>5. ASSUME NEW t \in TaskIds
      PROVE  AskedOnce(t)' /\ AnswersInTime(t)' /\ StreamDelivers(t)' /\ EndedWhole(t)'
  <2>1. AskedOnce(t) /\ AnswersInTime(t) /\ StreamDelivers(t) /\ EndedWhole(t)
    BY DEF Whole
  <2> QED
    BY <1>1, <2>1, AskedOnceStep, AnswersInTimeStep, StreamDeliversStep, EndedWholeStep
<1> QED
  BY <1>3, <1>4, <1>5 DEF Whole

LEMMA AlwaysWhole == WorkSpec => []Whole
BY WholeInit, WholeStep, PTL DEF WorkSpec

\* The node's count of active tasks is the number of handlers that run, and every
\* variable keeps its type, for any number of connections, tasks and benchmarks.
THEOREM WorkTypeCorrect == WorkSpec => []WorkTypeOK
<1>1. Whole => WorkTypeOK
  BY DEF Whole, WorkTyped
<1> QED
  BY <1>1, AlwaysWhole, PTL

\* Nothing that is lost with a connection is missing from a stream that ended well:
\* an answer is read only behind every piece the handler yielded.
THEOREM WholeStreams == WorkSpec => []CompletedStreamsAreWhole
<1>1. Whole => CompletedStreamsAreWhole
  BY WorkAssumption DEF Whole, EndedWhole, CompletedStreamsAreWhole
<1> QED
  BY <1>1, AlwaysWhole, PTL

(***************************************************************************)
(* Types.                                                                  *)
(***************************************************************************)
RecordersOK ==
  \A t \in Tasks :
    /\ recorder[t] = "idle" => outcomes[t] = <<>> /\ at[t] = 0
    /\ recorder[t] # "idle" => outcomes[t] \in OutcomeLists
    /\ recorder[t] \notin {"idle", "raised"} => at[t] \in DOMAIN outcomes[t]
    /\ recorder[t] = "writing" => read[t].total > 0

RatersOK ==
  \A r \in Raters :
    /\ about[r] \in IF rater[r] \in {"idle", "refused"} THEN {<<>>} ELSE Rating
    /\ rater[r] \in {"idle", "claiming", "refused", "rating", "rated"} => node[r] = NoNode
    /\ rater[r] = "trimming" => node[r] \in NodeIds

Typed == TypeOK /\ RecordersOK /\ RatersOK

LEMMA ListFacts ==
  ASSUME NEW list \in OutcomeLists
  PROVE  /\ list \in Seq(Outcome) /\ Len(list) \in Nat /\ Len(list) >= 1
         /\ DOMAIN list = 1 .. Len(list)
         /\ \A i \in DOMAIN list : /\ list[i] \in Outcome
                                   /\ list[i].node \in NodeIds
                                   /\ list[i].success \in BOOLEAN
<1>1. list \in Seq(Outcome) /\ list # <<>>
  BY ReputationAssumption
<1>2. /\ Len(list) \in Nat /\ Len(list) >= 1 /\ DOMAIN list = 1 .. Len(list)
      /\ \A i \in DOMAIN list : list[i] \in Outcome
  BY <1>1
<1>3. \A o \in Outcome : o.node \in NodeIds /\ o.success \in BOOLEAN
  BY DEF Outcome
<1> QED
  BY <1>1, <1>2, <1>3

\* The outcome that a recording is at.
LEMMA CurrentOutcome ==
  ASSUME Typed, NEW t \in Tasks, recorder[t] \notin {"idle", "raised"}
  PROVE  /\ Current(t) \in Outcome /\ Current(t).node \in NodeIds
         /\ Current(t).success \in BOOLEAN
         /\ at[t] \in 1 .. Len(outcomes[t]) /\ Len(outcomes[t]) \in Nat
BY ListFacts DEF Typed, RecordersOK, Current

LEMMA AddedStats ==
  ASSUME NEW s \in Stats, NEW o \in Outcome
  PROVE  Add(s, o) \in Stats
BY DEF Add, Stats, Outcome

LEMMA TypedInit == Init => Typed
BY DEF Init, Typed, TypeOK, RecordersOK, RatersOK, Stats, NoStats, RecorderSteps,
       RaterSteps

\* The two halves of Typed: a step disturbs one of them.
RecorderTyped ==
  /\ stats \in [NodeIds -> Stats]
  /\ suspended \subseteq NodeIds
  /\ recorder \in [Tasks -> RecorderSteps]
  /\ outcomes \in [Tasks -> OutcomeLists \cup {<<>>}]
  /\ at \in [Tasks -> Nat]
  /\ \A t \in Tasks : at[t] <= Len(outcomes[t])
  /\ read \in [Tasks -> Stats]
  /\ RecordersOK

RaterTyped ==
  /\ ratings \in [NodeIds -> Seq(Rating)]
  /\ remembered \in [Tasks -> SUBSET NodeIds]
  /\ rated \subseteq Tasks
  /\ forgotten \subseteq NodeIds
  /\ overdue \subseteq Tasks
  /\ rater \in [Raters -> RaterSteps]
  /\ about \in [Raters -> Rating \cup {<<>>}]
  /\ unrated \in [Raters -> SUBSET NodeIds]
  /\ node \in [Raters -> NodeIds \cup {NoNode}]
  /\ RatersOK

LEMMA TypedParts == Typed <=> RecorderTyped /\ RaterTyped
BY DEF Typed, TypeOK, RecorderTyped, RaterTyped

LEMMA GoOnTyped ==
  ASSUME Typed, NEW t \in Tasks, NEW from \in {"scoring", "suspending"}, GoOn(t, from),
         stats' \in [NodeIds -> Stats], suspended' \subseteq NodeIds,
         read' \in [Tasks -> Stats], UNCHANGED outcomes,
         \A u \in Tasks \ {t} : read'[u] = read[u]
  PROVE  RecorderTyped'
<1>1. RecorderTyped
  BY TypedParts
<1>2. /\ recorder[t] = from
      /\ at[t] \in 1 .. Len(outcomes[t]) /\ Len(outcomes[t]) \in Nat
      /\ outcomes[t] \in OutcomeLists /\ DOMAIN outcomes[t] = 1 .. Len(outcomes[t])
  BY CurrentOutcome, ListFacts DEF GoOn, RecorderStep, Typed, RecordersOK
<1>3. /\ recorder' = [recorder EXCEPT ![t] =
                        IF at[t] < Len(outcomes[t]) THEN "counting" ELSE "remembering"]
      /\ at' = [at EXCEPT ![t] = IF at[t] < Len(outcomes[t]) THEN at[t] + 1 ELSE at[t]]
  BY <1>1 DEF GoOn, RecorderStep, RecorderTyped
<1>4. recorder' \in [Tasks -> RecorderSteps] /\ at' \in [Tasks -> Nat]
  BY <1>1, <1>2, <1>3 DEF RecorderTyped, RecorderSteps
<1>5. /\ at'[t] \in 1 .. Len(outcomes[t])
      /\ recorder'[t] \in {"counting", "remembering"}
      /\ \A u \in Tasks \ {t} : at'[u] = at[u] /\ recorder'[u] = recorder[u]
  BY <1>1, <1>2, <1>3 DEF RecorderTyped
<1>6. \A u \in Tasks : at'[u] <= Len(outcomes'[u])
  BY <1>1, <1>2, <1>5 DEF RecorderTyped
<1>7. RecordersOK'
  BY <1>1, <1>2, <1>5 DEF RecorderTyped, RecordersOK
<1> QED
  BY <1>1, <1>4, <1>6, <1>7 DEF RecorderTyped

LEMMA RecorderTypedStep ==
  ASSUME Typed, NEW t \in Tasks, RecorderNext(t)
  PROVE  RecorderTyped'
<1>1. RecorderTyped
  BY TypedParts
<1>2. NoStats \in Stats
  BY DEF NoStats, Stats
<1>3. ASSUME NEW list \in OutcomeLists, TaskEnds(t, list) PROVE RecorderTyped'
  <2>1. /\ recorder[t] = "idle" /\ recorder' = [recorder EXCEPT ![t] = "counting"]
        /\ outcomes' = [outcomes EXCEPT ![t] = list] /\ at' = [at EXCEPT ![t] = 1]
        /\ UNCHANGED <<stats, suspended, read>>
    BY <1>3 DEF TaskEnds, RecorderStep, keyVars
  <2>2. 1 \in DOMAIN list /\ 1 <= Len(list)
    BY ListFacts
  <2> QED
    BY <1>1, <2>1, <2>2 DEF RecorderTyped, RecordersOK, RecorderSteps
<1>4. CASE Count(t)
  <2>1. /\ recorder[t] = "counting" /\ recorder' = [recorder EXCEPT ![t] = "reading"]
        /\ stats' = [stats EXCEPT ![Current(t).node] = Add(stats[Current(t).node], Current(t))]
        /\ UNCHANGED <<suspended, outcomes, at, read>>
    BY <1>1, <1>4, CurrentOutcome DEF Count, RecorderStep, RecorderTyped
  <2>2. Current(t) \in Outcome /\ Current(t).node \in NodeIds
    BY <2>1, CurrentOutcome
  <2>3. stats' \in [NodeIds -> Stats]
    BY <1>1, <2>1, <2>2, AddedStats DEF RecorderTyped
  <2> QED
    BY <1>1, <2>1, <2>3 DEF RecorderTyped, RecordersOK, RecorderSteps
<1>5. CASE ReadTotals(t) \/ Judge(t)
  <2>1. /\ recorder[t] \in {"reading", "judging"}
        /\ \E to \in {"writing", "judging", "scoring"} :
             /\ recorder' = [recorder EXCEPT ![t] = to]
             /\ to = "writing" => stats[Current(t).node].total > 0
        /\ read' = [read EXCEPT ![t] = stats[Current(t).node]]
        /\ UNCHANGED <<stats, suspended, outcomes, at>>
    BY <1>5 DEF ReadTotals, Judge, RecorderStep, keyVars
  <2>2. stats[Current(t).node] \in Stats
    BY <1>1, <2>1, CurrentOutcome DEF RecorderTyped
  <2> QED
    BY <1>1, <2>1, <2>2 DEF RecorderTyped, RecordersOK, RecorderSteps
<1>6. CASE WriteAverage(t)
  <2> DEFINE n == Current(t).node
             average == read[t].responseTime \div read[t].total
  <2>1. /\ recorder[t] = "writing" /\ recorder' = [recorder EXCEPT ![t] = "judging"]
        /\ stats' = [stats EXCEPT ![n].average = average]
        /\ read' = [read EXCEPT ![t] = NoStats]
        /\ UNCHANGED <<suspended, outcomes, at>>
    BY <1>6 DEF WriteAverage, RecorderStep
  <2>2. read[t].responseTime \in Nat /\ read[t].total \in Nat /\ read[t].total > 0
    BY <1>1, <2>1 DEF RecorderTyped, RecordersOK, Stats
  <2>3. average \in Nat
    BY <2>2
  <2>4. n \in NodeIds
    BY <2>1, CurrentOutcome
  <2> HIDE DEF n, average
  <2>5. stats' \in [NodeIds -> Stats]
    BY <1>1, <2>1, <2>3, <2>4 DEF RecorderTyped, Stats
  <2> QED
    BY <1>1, <1>2, <2>1, <2>5 DEF RecorderTyped, RecordersOK, RecorderSteps
<1>7. CASE ScoreLow(t) \/ Remember(t)
  <2>1. /\ \/ recorder[t] = "scoring" /\ recorder' = [recorder EXCEPT ![t] = "suspending"]
           \/ recorder[t] = "remembering" /\ recorder' = [recorder EXCEPT ![t] = "done"]
        /\ read' = [read EXCEPT ![t] = NoStats] \/ read' = read
        /\ UNCHANGED <<stats, suspended, outcomes, at>>
    BY <1>7 DEF ScoreLow, Remember, RecorderStep, keyVars
  <2> QED
    BY <1>1, <1>2, <2>1 DEF RecorderTyped, RecordersOK, RecorderSteps
<1>8. CASE ScoreWell(t)
  <2>1. GoOn(t, "scoring") /\ UNCHANGED <<stats, suspended, outcomes>>
        /\ read' = [read EXCEPT ![t] = NoStats]
    BY <1>8 DEF ScoreWell, keyVars
  <2>2. read' \in [Tasks -> Stats] /\ \A u \in Tasks \ {t} : read'[u] = read[u]
    BY <1>1, <1>2, <2>1 DEF RecorderTyped
  <2> QED
    BY <1>1, <2>1, <2>2, GoOnTyped DEF RecorderTyped
<1>9. CASE Suspend(t)
  <2>1. GoOn(t, "suspending") /\ UNCHANGED <<stats, outcomes, read>>
        /\ suspended' = suspended \cup {Current(t).node}
    BY <1>9 DEF Suspend
  <2>2. Current(t).node \in NodeIds
    BY <2>1, CurrentOutcome DEF GoOn, RecorderStep
  <2> QED
    BY <1>1, <2>1, <2>2, GoOnTyped DEF RecorderTyped
<1>10. CASE RecordingRaises(t)
  <2>1. /\ recorder[t] \notin {"idle", "done", "raised"}
        /\ recorder' = [recorder EXCEPT ![t] = "raised"]
        /\ at' = [at EXCEPT ![t] = IF recorder[t] = "counting" THEN at[t] - 1 ELSE at[t]]
        /\ read' = [read EXCEPT ![t] = NoStats]
        /\ UNCHANGED <<stats, suspended, outcomes>>
    BY <1>1, <1>10 DEF RecordingRaises, keyVars, RecorderTyped
  <2>2. at[t] \in 1 .. Len(outcomes[t]) /\ Len(outcomes[t]) \in Nat
    BY <2>1, CurrentOutcome
  <2>3. /\ at' \in [Tasks -> Nat]
        /\ at'[t] <= Len(outcomes[t])
        /\ \A u \in Tasks \ {t} : at'[u] = at[u]
    BY <1>1, <2>1, <2>2 DEF RecorderTyped
  <2> QED
    BY <1>1, <1>2, <2>1, <2>3 DEF RecorderTyped, RecordersOK, RecorderSteps
<1> QED
  BY <1>3, <1>4, <1>5, <1>6, <1>7, <1>8, <1>9, <1>10 DEF RecorderNext

LEMMA RatingFields ==
  ASSUME NEW x \in Rating
  PROVE  x.task \in Tasks /\ x.by \in Accounts /\ x # <<>>
BY DEF Rating

\* ltrim keeps the first ratings of a list.
LEMMA FirstRatingsFacts ==
  ASSUME NEW list \in Seq(Rating), NEW n \in Nat
  PROVE  LET first == FirstRatings(list, n) IN
         /\ first \in Seq(Rating)
         /\ Len(first) = IF Len(list) < n THEN Len(list) ELSE n
         /\ DOMAIN first \subseteq DOMAIN list
         /\ \A i \in DOMAIN first : first[i] = list[i]
         /\ Len(list) <= n => first = list
<1> DEFINE m == IF Len(list) < n THEN Len(list) ELSE n
           first == SubSeq(list, 1, m)
<1>1. m \in 0 .. Len(list) /\ m \in Nat /\ Len(list) \in Nat
  OBVIOUS
<1>2. Len(list) <= n => m = Len(list)
  OBVIOUS
<1> HIDE DEF m
<1>3. /\ first \in Seq(Rating) /\ Len(first) = m
      /\ \A i \in 1 .. m : first[i] = list[i]
  BY <1>1
<1> HIDE DEF first
<1>4. DOMAIN first = 1 .. m /\ DOMAIN list = 1 .. Len(list)
  BY <1>3
<1>5. m = Len(list) => first = list
  BY <1>3, <1>4
<1>6. /\ first = FirstRatings(list, n)
      /\ m = IF Len(list) < n THEN Len(list) ELSE n
  BY DEF FirstRatings, m, first
<1>7. DOMAIN first \subseteq DOMAIN list /\ \A i \in DOMAIN first : first[i] = list[i]
  BY <1>1, <1>3, <1>4
<1>8. Len(list) <= n => first = list
  BY <1>2, <1>5
<1> HIDE DEF first
<1> QED
  BY <1>3, <1>6, <1>7, <1>8

\* lpush puts one rating before the others.
LEMMA PushedFacts ==
  ASSUME NEW list \in Seq(Rating), NEW x \in Rating
  PROVE  LET pushed == <<x>> \o list IN
         /\ pushed \in Seq(Rating)
         /\ Len(pushed) = Len(list) + 1
         /\ DOMAIN pushed = 1 .. Len(list) + 1
         /\ pushed[1] = x
         /\ \A i \in DOMAIN list : i + 1 \in DOMAIN pushed /\ pushed[i + 1] = list[i]
         /\ \A i \in DOMAIN pushed : i # 1 => i - 1 \in DOMAIN list /\ pushed[i] = list[i - 1]
OBVIOUS

LEMMA RaterTypedStep ==
  ASSUME Typed, NEW r \in Raters, RaterNext(r)
  PROVE  RaterTyped'
<1>1. RaterTyped
  BY TypedParts
<1>2. ASSUME NEW t \in Tasks, NEW a \in Accounts, LookUp(r, t, a) PROVE RaterTyped'
  BY <1>1, <1>2 DEF LookUp, RaterStep, keyVars, RaterTyped, RatersOK, RaterSteps, Rating
<1>3. CASE Claim(r)
  <2>1. about[r].task \in Tasks
    BY <1>1, <1>3, RatingFields DEF Claim, RaterStep, RaterTyped, RatersOK
  <2> QED
    BY <1>1, <1>3, <2>1 DEF Claim, RaterStep, RaterTyped, RatersOK, RaterSteps
<1>4. ASSUME NEW n \in NodeIds, Push(r, n) PROVE RaterTyped'
  <2>1. <<about[r]>> \o ratings[n] \in Seq(Rating)
    BY <1>1, <1>4, PushedFacts DEF Push, RaterStep, RaterTyped, RatersOK
  <2>2. ratings' = [ratings EXCEPT ![n] = <<about[r]>> \o ratings[n]]
    BY <1>1, <1>4 DEF Push, RaterTyped
  <2>3. ratings' \in [NodeIds -> Seq(Rating)]
    BY <1>1, <2>1, <2>2 DEF RaterTyped
  <2> QED
    BY <1>1, <1>4, <2>3 DEF Push, RaterStep, RaterTyped, RatersOK, RaterSteps
<1>5. CASE Trim(r)
  <2>1. node[r] \in NodeIds /\ FirstRatings(ratings[node[r]], MaxRatings) \in Seq(Rating)
    BY <1>1, <1>5, FirstRatingsFacts, ReputationAssumption
       DEF Trim, RaterStep, RaterTyped, RatersOK
  <2>2. ratings' = [ratings EXCEPT ![node[r]] = FirstRatings(ratings[node[r]], MaxRatings)]
    BY <1>1, <1>5 DEF Trim, RaterTyped
  <2>3. ratings' \in [NodeIds -> Seq(Rating)]
    BY <1>1, <2>1, <2>2 DEF RaterTyped
  <2> QED
    BY <1>1, <1>5, <2>3 DEF Trim, RaterStep, RaterTyped, RatersOK, RaterSteps
<1>6. CASE AnswerRating(r) \/ RatingRaises(r)
  BY <1>1, <1>6 DEF AnswerRating, RatingRaises, RaterStep, keyVars, RaterTyped, RatersOK,
     RaterSteps
<1> QED
  BY <1>2, <1>3, <1>4, <1>5, <1>6 DEF RaterNext

\* Neither a call of rate_task nor the end of a key touches a recorder, and a
\* recording touches no locals of such a call.
LEMMA TypedStep ==
  ASSUME Typed, [Next]_vars
  PROVE  Typed'
<1>1. RecorderTyped /\ RaterTyped
  BY TypedParts
<1>2. ASSUME NEW t \in Tasks, RecorderNext(t) PROVE Typed'
  <2>1. RecorderTyped'
    BY <1>2, RecorderTypedStep
  <2>2. UNCHANGED <<ratings, rated, forgotten, raterVars, overdue>>
    BY <1>2 DEF RecorderNext, TaskEnds, Count, ReadTotals, WriteAverage, Judge, ScoreLow,
       ScoreWell, Suspend, Remember, RecordingRaises, keyVars
  <2>3. remembered' \in [Tasks -> SUBSET NodeIds]
    <3>1. CASE Remember(t)
      <4>1. Served(t) \subseteq NodeIds
        BY <1>1, <3>1, ListFacts DEF Remember, RecorderStep, RecorderTyped, RecordersOK, Served
      <4> QED
        BY <1>1, <3>1, <4>1 DEF Remember, RaterTyped
    <3>2. CASE UNCHANGED remembered
      BY <1>1, <3>2 DEF RaterTyped
    <3> QED
      BY <1>2, <3>1, <3>2 DEF RecorderNext, TaskEnds, Count, ReadTotals, WriteAverage, Judge,
         ScoreLow, ScoreWell, Suspend, RecordingRaises, keyVars
  <2>4. RaterTyped'
    BY <1>1, <2>2, <2>3 DEF RaterTyped, RatersOK, raterVars
  <2> QED
    BY <2>1, <2>4 DEF Typed, TypeOK, RecorderTyped, RaterTyped
<1>3. ASSUME NEW r \in Raters, RaterNext(r) PROVE Typed'
  <2>1. RaterTyped'
    BY <1>3, RaterTypedStep
  <2>2. UNCHANGED <<stats, suspended, recorderVars>>
    BY <1>3 DEF RaterNext, LookUp, Claim, Push, Trim, AnswerRating, RatingRaises, keyVars
  <2>3. RecorderTyped'
    BY <1>1, <2>2 DEF RecorderTyped, RecordersOK, recorderVars
  <2> QED
    BY <2>1, <2>3 DEF Typed, TypeOK, RecorderTyped, RaterTyped
<1>4. ASSUME NEW t \in Tasks, ExpireTask(t) \/ ExpireRated(t) PROVE Typed'
  BY <1>1, <1>4 DEF ExpireTask, ExpireRated, recorderVars, raterVars, Typed, TypeOK,
     RecordersOK, RatersOK, RecorderTyped, RaterTyped
<1>5. ASSUME NEW n \in NodeIds, ForgetNode(n) \/ ExpireSuspension(n) PROVE Typed'
  <2>1. NoStats \in Stats /\ <<>> \in Seq(Rating)
    BY DEF NoStats, Stats
  <2>2. /\ stats' \in [NodeIds -> Stats] /\ ratings' \in [NodeIds -> Seq(Rating)]
        /\ suspended' \subseteq NodeIds /\ forgotten' \subseteq NodeIds
    <3>1. CASE ForgetNode(n)
      <4>1. /\ stats' = [stats EXCEPT ![n] = NoStats]
            /\ ratings' = [ratings EXCEPT ![n] = <<>>]
            /\ suspended' = suspended \ {n} /\ forgotten' = forgotten \cup {n}
        BY <3>1 DEF ForgetNode
      <4>2. stats' \in [NodeIds -> Stats]
        BY <1>1, <2>1, <4>1 DEF RecorderTyped
      <4>3. ratings' \in [NodeIds -> Seq(Rating)]
        BY <1>1, <2>1, <4>1 DEF RaterTyped
      <4> QED
        BY <1>1, <4>1, <4>2, <4>3 DEF RecorderTyped, RaterTyped
    <3>2. CASE ExpireSuspension(n)
      BY <1>1, <3>2 DEF ExpireSuspension, RecorderTyped, RaterTyped
    <3> QED
      BY <1>5, <3>1, <3>2
  <2>3. UNCHANGED <<remembered, rated, recorderVars, raterVars, overdue>>
    BY <1>5 DEF ForgetNode, ExpireSuspension
  <2>4. RecorderTyped' /\ RaterTyped'
    BY <1>1, <2>2, <2>3 DEF recorderVars, raterVars, RecordersOK, RatersOK, RecorderTyped,
       RaterTyped
  <2> QED
    BY <2>4 DEF Typed, TypeOK, RecorderTyped, RaterTyped
<1>6. CASE UNCHANGED vars
  BY <1>1, <1>6 DEF vars, keyVars, recorderVars, raterVars, Typed, TypeOK, RecordersOK,
     RatersOK, RecorderTyped, RaterTyped
<1> QED
  BY <1>2, <1>3, <1>4, <1>5, <1>6 DEF Next

LEMMA AlwaysTyped == Spec => []Typed
<1>1. Typed /\ [Next]_vars => Typed'
  BY TypedStep
<1> QED
  BY TypedInit, <1>1, PTL DEF Spec

\* Every key and every local keeps its type, whichever commands raise.
THEOREM TypeCorrect == Spec => []TypeOK
<1>1. Typed => TypeOK
  BY DEF Typed
<1> QED
  BY <1>1, AlwaysTyped, PTL

(***************************************************************************)
(* The counters of a node.  The set Counted grows by one pair with every   *)
(* Count, and in no other way: whatever else happens to a recording, with  *)
(* its failure too, CountedUpTo of its task stays as it is.                *)
(***************************************************************************)
CountsMatch == IsFiniteSet(Counted) /\ EachOutcomeCountsOnce

LEMMA CountedUpToType ==
  ASSUME Typed, NEW t \in Tasks
  PROVE  /\ CountedUpTo(t) \in Nat
         /\ recorder[t] = "idle" => CountedUpTo(t) = 0
         /\ recorder[t] # "idle" => \A i \in 1 .. CountedUpTo(t) : i \in DOMAIN outcomes[t]
<1>1. at[t] \in Nat /\ at[t] <= Len(outcomes[t])
  BY DEF Typed, TypeOK
<1>2. CASE recorder[t] = "idle"
  BY <1>2 DEF Typed, RecordersOK, CountedUpTo
<1>3. CASE recorder[t] # "idle"
  <2>1. /\ Len(outcomes[t]) \in Nat /\ DOMAIN outcomes[t] = 1 .. Len(outcomes[t])
        /\ recorder[t] = "counting" => at[t] >= 1
    BY <1>3, ListFacts DEF Typed, RecordersOK
  <2> QED
    BY <1>1, <1>3, <2>1 DEF CountedUpTo
<1> QED
  BY <1>2, <1>3

\* What a step has to leave alone for the counted outcomes to be the same.
LEMMA SameCounted ==
  ASSUME Typed,
         \A t \in Tasks :
           /\ CountedUpTo(t)' = CountedUpTo(t)
           /\ outcomes'[t] = outcomes[t] \/ CountedUpTo(t) = 0
  PROVE  /\ Counted' = Counted
         /\ \A n, success : CountedOf(n, success)' = CountedOf(n, success)
<1>1. Counted' = Counted
  BY DEF Counted
<1>2. \A p \in Counted : p[1] \in Tasks /\ p[2] \in 1 .. CountedUpTo(p[1])
  BY DEF Counted
<1>3. \A p \in Counted : outcomes'[p[1]] = outcomes[p[1]]
  BY <1>2, CountedUpToType
<1> QED
  BY <1>1, <1>3 DEF CountedOf

\* The steps of a recording that count nothing.
LEMMA RecorderCountsNothing ==
  ASSUME Typed, NEW t \in Tasks, RecorderNext(t), ~Count(t)
  PROVE  \A u \in Tasks :
           /\ CountedUpTo(u)' = CountedUpTo(u)
           /\ outcomes'[u] = outcomes[u] \/ CountedUpTo(u) = 0
<1>1. TypeOK /\ at[t] \in Nat
  BY DEF Typed, TypeOK
<1>2. ASSUME NEW list \in OutcomeLists, TaskEnds(t, list)
      PROVE  /\ CountedUpTo(t)' = 0 /\ CountedUpTo(t) = 0
             /\ \A u \in Tasks \ {t} : /\ outcomes'[u] = outcomes[u]
                                       /\ CountedUpTo(u)' = CountedUpTo(u)
  BY <1>1, <1>2 DEF TaskEnds, RecorderStep, Typed, RecordersOK, TypeOK, CountedUpTo
<1>3. ASSUME NEW from \in {"scoring", "suspending"}, GoOn(t, from)
      PROVE  \A u \in Tasks : CountedUpTo(u)' = CountedUpTo(u)
  BY <1>1, <1>3 DEF GoOn, RecorderStep, TypeOK, CountedUpTo
<1>4. ASSUME ReadTotals(t) \/ WriteAverage(t) \/ Judge(t) \/ ScoreLow(t) \/ Remember(t)
      PROVE  /\ \A u \in Tasks : CountedUpTo(u)' = CountedUpTo(u)
             /\ outcomes' = outcomes
  BY <1>1, <1>4 DEF ReadTotals, WriteAverage, Judge, ScoreLow, Remember, RecorderStep,
     TypeOK, CountedUpTo
<1>5. ASSUME RecordingRaises(t)
      PROVE  /\ \A u \in Tasks : CountedUpTo(u)' = CountedUpTo(u)
             /\ outcomes' = outcomes
  BY <1>1, <1>5 DEF RecordingRaises, TypeOK, CountedUpTo
<1> QED
  BY <1>2, <1>3, <1>4, <1>5 DEF RecorderNext, ScoreWell, Suspend

\* The sum of two counters, when one of them is incremented.
LEMMA OneMore ==
  ASSUME NEW i \in Nat, NEW j \in Nat
  PROVE  /\ i + 0 = i /\ j + 0 = j
         /\ (i + j) + 1 = (i + 1) + (j + 0)
         /\ (i + j) + 1 = (i + 0) + (j + 1)
OBVIOUS

LEMMA CountStep ==
  ASSUME Typed, CountsMatch, NEW t \in Tasks, Count(t)
  PROVE  CountsMatch'
<1> DEFINE p == <<t, at[t]>>
           o == Current(t)
<1>1. /\ recorder[t] = "counting" /\ at[t] \in Nat /\ at[t] >= 1
      /\ o \in Outcome /\ o.node \in NodeIds /\ o.success \in BOOLEAN
      /\ o = outcomes[t][at[t]]
  BY CurrentOutcome DEF Count, RecorderStep, Current
<1>2. /\ recorder' = [recorder EXCEPT ![t] = "reading"]
      /\ stats' = [stats EXCEPT ![o.node] = Add(stats[o.node], o)]
      /\ UNCHANGED <<outcomes, at, forgotten>>
  BY DEF Count, RecorderStep, Typed, TypeOK
<1>3. /\ CountedUpTo(t) = at[t] - 1 /\ CountedUpTo(t)' = at[t]
      /\ \A u \in Tasks \ {t} : CountedUpTo(u)' = CountedUpTo(u)
  BY <1>1, <1>2 DEF CountedUpTo, Typed, TypeOK
<1> HIDE DEF o
<1>4. Counted' = Counted \cup {p} /\ p \notin Counted
  <2>1. 1 .. CountedUpTo(t)' = (1 .. CountedUpTo(t)) \cup {at[t]}
    BY <1>1, <1>3
  <2>2. at[t] \notin 1 .. CountedUpTo(t)
    BY <1>1, <1>3
  <2> QED
    BY <1>3, <2>1, <2>2 DEF Counted
<1>5. IsFiniteSet(Counted) /\ IsFiniteSet(Counted')
  BY <1>4, FS_AddElement DEF CountsMatch
<1>6. \A n, success :
        CountedOf(n, success)' =
          IF o.node = n /\ o.success = success THEN CountedOf(n, success) \cup {p}
                                               ELSE CountedOf(n, success)
  BY <1>1, <1>2, <1>4 DEF CountedOf
<1>7. \A n, success :
        /\ IsFiniteSet(CountedOf(n, success))
        /\ p \notin CountedOf(n, success)
        /\ Cardinality(CountedOf(n, success)) \in Nat
        /\ Cardinality(CountedOf(n, success) \cup {p}) = Cardinality(CountedOf(n, success)) + 1
  <2>1. \A n, success : CountedOf(n, success) \subseteq Counted
    BY DEF CountedOf
  <2> QED
    BY <1>4, <1>5, <2>1, FS_Subset, FS_AddElement, FS_CardinalityType
<1>8. ASSUME NEW n \in NodeIds \ forgotten
      PROVE  /\ stats'[n].successful = Cardinality(CountedOf(n, TRUE)')
             /\ stats'[n].failed = Cardinality(CountedOf(n, FALSE)')
             /\ stats'[n].total = stats'[n].successful + stats'[n].failed
  <2>1. /\ stats[n] \in Stats
        /\ stats[n].successful = Cardinality(CountedOf(n, TRUE))
        /\ stats[n].failed = Cardinality(CountedOf(n, FALSE))
        /\ stats[n].total = stats[n].successful + stats[n].failed
    BY DEF CountsMatch, EachOutcomeCountsOnce, Typed, TypeOK
  <2>2. CASE n # o.node
    BY <1>1, <1>2, <1>6, <2>1, <2>2 DEF Typed, TypeOK
  <2>3. CASE n = o.node
    <3>1. stats'[n] = Add(stats[n], o)
      BY <1>1, <1>2, <2>3 DEF Typed, TypeOK
    <3>2. /\ Add(stats[n], o).total = stats[n].total + 1
          /\ Add(stats[n], o).successful = stats[n].successful + (IF o.success THEN 1 ELSE 0)
          /\ Add(stats[n], o).failed = stats[n].failed + (IF o.success THEN 0 ELSE 1)
      BY DEF Add
    <3>3. /\ stats[n].successful \in Nat /\ stats[n].failed \in Nat
          /\ stats[n].total \in Nat
      BY <2>1 DEF Stats
    <3> DEFINE s == stats[n].successful
               f == stats[n].failed
    <3>4. /\ (s + f) + 1 = (s + 1) + (f + 0)
          /\ (s + f) + 1 = (s + 0) + (f + 1)
      BY <3>3, OneMore, Zenon
    <3>5. CASE o.success = TRUE
      <4>1. /\ Cardinality(CountedOf(n, TRUE)') = Cardinality(CountedOf(n, TRUE)) + 1
            /\ Cardinality(CountedOf(n, FALSE)') = Cardinality(CountedOf(n, FALSE))
        BY <1>6, <1>7, <2>3, <3>5
      <4>2. /\ stats'[n].total = stats[n].total + 1
            /\ stats'[n].successful = stats[n].successful + 1
            /\ stats'[n].failed = stats[n].failed + 0
        BY <3>1, <3>2, <3>5
      <4>3. stats'[n].successful = Cardinality(CountedOf(n, TRUE)')
        BY <2>1, <3>3, <4>1, <4>2, OneMore, Zenon
      <4>4. stats'[n].failed = Cardinality(CountedOf(n, FALSE)')
        BY <2>1, <3>3, <4>1, <4>2, OneMore, Zenon
      <4>5. stats'[n].total = stats'[n].successful + stats'[n].failed
        BY <2>1, <4>2, <3>4, Zenon
      <4> QED
        BY <4>3, <4>4, <4>5
    <3>6. CASE o.success = FALSE
      <4>1. /\ Cardinality(CountedOf(n, TRUE)') = Cardinality(CountedOf(n, TRUE))
            /\ Cardinality(CountedOf(n, FALSE)') = Cardinality(CountedOf(n, FALSE)) + 1
        BY <1>6, <1>7, <2>3, <3>6
      <4>2. /\ stats'[n].total = stats[n].total + 1
            /\ stats'[n].successful = stats[n].successful + 0
            /\ stats'[n].failed = stats[n].failed + 1
        BY <3>1, <3>2, <3>6
      <4>3. stats'[n].successful = Cardinality(CountedOf(n, TRUE)')
        BY <2>1, <3>3, <4>1, <4>2, OneMore, Zenon
      <4>4. stats'[n].failed = Cardinality(CountedOf(n, FALSE)')
        BY <2>1, <3>3, <4>1, <4>2, OneMore, Zenon
      <4>5. stats'[n].total = stats'[n].successful + stats'[n].failed
        BY <2>1, <4>2, <3>4, Zenon
      <4> QED
        BY <4>3, <4>4, <4>5
    <3> QED
      BY <1>1, <3>5, <3>6
  <2> QED
    BY <2>2, <2>3
<1> QED
  BY <1>2, <1>5, <1>8 DEF CountsMatch, EachOutcomeCountsOnce

\* Steps that neither count nor reset counters.
LEMMA CountsStay ==
  ASSUME Typed, CountsMatch,
         \A t \in Tasks :
           /\ CountedUpTo(t)' = CountedUpTo(t)
           /\ outcomes'[t] = outcomes[t] \/ CountedUpTo(t) = 0,
         forgotten \subseteq forgotten',
         \A n \in NodeIds \ forgotten' :
           /\ stats'[n].total = stats[n].total
           /\ stats'[n].successful = stats[n].successful
           /\ stats'[n].failed = stats[n].failed
  PROVE  CountsMatch'
<1>1. /\ Counted' = Counted
      /\ \A n, success : CountedOf(n, success)' = CountedOf(n, success)
  BY SameCounted
<1>2. ASSUME NEW n \in NodeIds \ forgotten'
      PROVE  /\ stats'[n].successful = Cardinality(CountedOf(n, TRUE)')
             /\ stats'[n].failed = Cardinality(CountedOf(n, FALSE)')
             /\ stats'[n].total = stats'[n].successful + stats'[n].failed
  BY <1>1 DEF CountsMatch, EachOutcomeCountsOnce
<1> QED
  BY <1>1, <1>2 DEF CountsMatch, EachOutcomeCountsOnce

\* The counters of the nodes that a step of a recording leaves, Count apart.
LEMMA RecorderKeepsCounters ==
  ASSUME Typed, NEW t \in Tasks, RecorderNext(t), ~Count(t)
  PROVE  /\ forgotten' = forgotten
         /\ \A n \in NodeIds : /\ stats'[n].total = stats[n].total
                               /\ stats'[n].successful = stats[n].successful
                               /\ stats'[n].failed = stats[n].failed
<1>1. CASE WriteAverage(t)
  <2>1. stats \in [NodeIds -> Stats]
    BY DEF Typed, TypeOK
  <2>2. PICK x, y : stats' = [stats EXCEPT ![x].average = y]
    BY <1>1 DEF WriteAverage
  <2>3. forgotten' = forgotten
    BY <1>1 DEF WriteAverage
  <2>4. ASSUME NEW n \in NodeIds
        PROVE  /\ stats'[n].total = stats[n].total
               /\ stats'[n].successful = stats[n].successful
               /\ stats'[n].failed = stats[n].failed
    BY <2>1, <2>2 DEF Stats
  <2> QED
    BY <2>3, <2>4
<1>2. CASE UNCHANGED <<stats, forgotten>>
  BY <1>2
<1> QED
  BY <1>1, <1>2 DEF RecorderNext, TaskEnds, ReadTotals, Judge, ScoreLow, ScoreWell, Suspend,
     Remember, RecordingRaises, keyVars

LEMMA CountsMatchStep ==
  ASSUME Typed, CountsMatch, [Next]_vars
  PROVE  CountsMatch'
<1>1. ASSUME NEW t \in Tasks, RecorderNext(t) PROVE CountsMatch'
  <2>1. CASE Count(t)
    BY <2>1, CountStep
  <2>2. CASE ~Count(t)
    BY <1>1, <2>2, RecorderCountsNothing, RecorderKeepsCounters, CountsStay
  <2> QED
    BY <2>1, <2>2
<1>2. ASSUME UNCHANGED recorderVars, UNCHANGED stats, forgotten \subseteq forgotten'
      PROVE  CountsMatch'
  BY <1>2, CountsStay DEF recorderVars, CountedUpTo
<1>3. ASSUME NEW n \in NodeIds, ForgetNode(n) PROVE CountsMatch'
  <2>1. \A m \in NodeIds \ forgotten' : stats'[m] = stats[m]
    BY <1>3 DEF ForgetNode, Typed, TypeOK
  <2> QED
    BY <1>3, <2>1, CountsStay DEF ForgetNode, recorderVars, CountedUpTo
<1>4. ASSUME NEW r \in Raters, RaterNext(r)
      PROVE  UNCHANGED <<stats, suspended, forgotten, recorderVars>>
  BY <1>4 DEF RaterNext, LookUp, Claim, Push, Trim, AnswerRating, RatingRaises, keyVars
<1>5. CASE UNCHANGED vars
  BY <1>2, <1>5 DEF vars, keyVars
<1> QED
  BY <1>1, <1>2, <1>3, <1>4, <1>5 DEF Next, ExpireTask, ExpireRated, ExpireSuspension

LEMMA CountsMatchInit == Init => CountsMatch
<1> SUFFICES ASSUME Init PROVE CountsMatch
  OBVIOUS
<1>1. \A t \in Tasks : CountedUpTo(t) = 0
  BY DEF Init, CountedUpTo
<1>2. Counted = {}
  <2>1. 1 .. 0 = {}
    OBVIOUS
  <2> QED
    BY <1>1, <2>1 DEF Counted
<1>3. \A n, success : CountedOf(n, success) = {}
  BY <1>2 DEF CountedOf
<1>4. IsFiniteSet(Counted) /\ \A n, success : Cardinality(CountedOf(n, success)) = 0
  BY <1>2, <1>3, FS_EmptySet
<1>5. ASSUME NEW n \in NodeIds
      PROVE  stats[n].total = 0 /\ stats[n].successful = 0 /\ stats[n].failed = 0
  BY DEF Init, NoStats
<1>6. 0 = 0 + 0
  OBVIOUS
<1> QED
  BY <1>4, <1>5, <1>6, Zenon DEF CountsMatch, EachOutcomeCountsOnce

LEMMA CountsAlwaysMatch == Spec => []CountsMatch
<1>1. Typed /\ CountsMatch /\ [Next]_vars => CountsMatch'
  BY CountsMatchStep
<1> QED
  BY CountsMatchInit, <1>1, AlwaysTyped, PTL DEF Spec

\* Whatever outcomes of a node are recorded at the same time, and whichever
\* recordings Redis breaks off, each that reached the counters is in them once.
THEOREM EachCountsOnce == Spec => []EachOutcomeCountsOnce
<1>1. CountsMatch => EachOutcomeCountsOnce
  BY DEF CountsMatch
<1> QED
  BY <1>1, CountsAlwaysMatch, PTL

(***************************************************************************)
(* Suspensions.  Between the score and the suspension other recordings     *)
(* count outcomes of the node, but the counters of a node whose account    *)
(* exists only grow, so a node that was failing has failed that often      *)
(* still.                                                                  *)
(***************************************************************************)
FailingNode(n) ==
  stats[n].total > SuspendAfter /\ 8 * stats[n].failed > SuspendAfter + 1

JudgedFairly(t) ==
  Current(t).node \notin forgotten =>
    /\ recorder[t] = "scoring" => read[t].total <= stats[Current(t).node].total
    /\ recorder[t] = "suspending" => FailingNode(Current(t).node)

SuspensionsAreEarned ==
  OnlyFailingNodesAreSuspended /\ \A t \in Tasks : JudgedFairly(t)

\* A score below 35 takes 35 of the 40 points of the completion rate, and so
\* more than one failure in eight tasks.
LEMMA LowScores ==
  ASSUME NEW s \in Stats, s.total = s.successful + s.failed, s.total > SuspendAfter,
         MayScoreLow(s)
  PROVE  8 * s.failed > SuspendAfter + 1
<1>1. s.successful \in Nat /\ s.failed \in Nat /\ SuspendAfter \in Nat
  BY ReputationAssumption DEF Stats
<1>2. PICK rest \in Nat : 40 * s.successful + rest * s.total < 35 * s.total
  <2>1. PICK speed \in {0, 20}, recency \in {0, 20}, rating \in {4, 10, 20} :
          Score(s, speed, recency, rating) < 35 * s.total
    BY DEF MayScoreLow
  <2>2. s.total \in Nat /\ s.total # 0
    BY <1>1
  <2>3. Score(s, speed, recency, rating)
          = 40 * s.successful + (speed + recency + rating) * s.total
    BY <2>2 DEF Score
  <2> QED
    BY <2>1, <2>3
<1>3. ASSUME NEW good \in Nat, NEW bad \in Nat, NEW limit \in Nat, NEW points \in Nat,
             good + bad > limit, 40 * good + points < 35 * (good + bad)
      PROVE  8 * bad > limit + 1
  BY <1>3
<1>4. rest * s.total \in Nat
  BY <1>1
<1> QED
  BY <1>1, <1>2, <1>3, <1>4

LEMMA AddCounts ==
  ASSUME NEW s \in Stats, NEW o \in Outcome
  PROVE  Add(s, o).total >= s.total /\ Add(s, o).failed >= s.failed
BY DEF Add, Stats, Outcome

LEMMA CountersGrow ==
  ASSUME Typed, [Next]_vars, NEW n \in NodeIds \ forgotten'
  PROVE  /\ n \notin forgotten
         /\ stats[n].total \in Nat /\ stats'[n].total \in Nat
         /\ stats[n].failed \in Nat /\ stats'[n].failed \in Nat
         /\ stats'[n].total >= stats[n].total
         /\ stats'[n].failed >= stats[n].failed
<1>1. Typed'
  BY TypedStep
<1>2. /\ stats[n].total \in Nat /\ stats'[n].total \in Nat
      /\ stats[n].failed \in Nat /\ stats'[n].failed \in Nat
  BY <1>1 DEF Typed, TypeOK, Stats
<1>3. ASSUME NEW t \in Tasks, RecorderNext(t)
      PROVE  /\ n \notin forgotten
             /\ stats'[n].total >= stats[n].total
             /\ stats'[n].failed >= stats[n].failed
  <2>1. CASE Count(t)
    <3>1. Current(t) \in Outcome /\ stats[n] \in Stats
      BY <2>1, CurrentOutcome DEF Count, RecorderStep, Typed, TypeOK
    <3>2. stats'[n] = stats[n] \/ stats'[n] = Add(stats[n], Current(t))
      BY <2>1 DEF Count, Typed, TypeOK
    <3> QED
      BY <1>2, <2>1, <3>1, <3>2, AddCounts DEF Count
  <2>2. CASE ~Count(t)
    BY <1>2, <1>3, <2>2, RecorderKeepsCounters
  <2> QED
    BY <2>1, <2>2
<1>4. ASSUME NEW m \in NodeIds, ForgetNode(m)
      PROVE  n \notin forgotten /\ stats'[n] = stats[n]
  BY <1>4 DEF ForgetNode, Typed, TypeOK
<1>5. ASSUME NEW r \in Raters, RaterNext(r)
      PROVE  UNCHANGED <<stats, forgotten>>
  BY <1>5 DEF RaterNext, LookUp, Claim, Push, Trim, AnswerRating, RatingRaises, keyVars
<1>6. CASE UNCHANGED <<stats, forgotten>>
  BY <1>2, <1>6
<1> QED
  BY <1>2, <1>3, <1>4, <1>5, <1>6
     DEF Next, ExpireTask, ExpireRated, ExpireSuspension, vars, keyVars

LEMMA FailingForGood ==
  ASSUME Typed, [Next]_vars, NEW n \in NodeIds \ forgotten', FailingNode(n)
  PROVE  FailingNode(n)'
<1>1. SuspendAfter \in Nat
  BY ReputationAssumption
<1>2. ASSUME NEW i \in Nat, NEW j \in Nat, NEW limit \in Nat, j >= i
      PROVE  /\ i > limit => j > limit
             /\ 8 * i > limit + 1 => 8 * j > limit + 1
  BY <1>2
<1> QED
  BY <1>1, <1>2, CountersGrow DEF FailingNode

\* A recording that a step leaves where it is.
Rests(t) ==
  /\ recorder'[t] = recorder[t] /\ at'[t] = at[t]
  /\ outcomes'[t] = outcomes[t] /\ read'[t] = read[t]

LEMMA JudgedFairlyRests ==
  ASSUME Typed, [Next]_vars, NEW t \in Tasks, Rests(t), JudgedFairly(t)
  PROVE  JudgedFairly(t)'
<1> SUFFICES ASSUME Current(t).node' \notin forgotten', recorder[t] \in {"scoring", "suspending"}
             PROVE  /\ recorder[t] = "scoring" =>
                         read[t].total <= stats'[Current(t).node].total
                    /\ recorder[t] = "suspending" => FailingNode(Current(t).node)'
  BY DEF Rests, JudgedFairly, Current, FailingNode
<1>1. Current(t)' = Current(t) /\ Current(t).node \in NodeIds \ forgotten'
  BY CurrentOutcome DEF Rests, Current
<1>2. Current(t).node \notin forgotten
  BY <1>1, CountersGrow
<1>3. read[t].total \in Nat
  BY DEF Typed, TypeOK, Stats
<1>4. CASE recorder[t] = "scoring"
  BY <1>1, <1>2, <1>3, <1>4, CountersGrow DEF JudgedFairly
<1>5. CASE recorder[t] = "suspending"
  <2>1. FailingNode(Current(t).node)
    BY <1>2, <1>5 DEF JudgedFairly
  <2> QED
    BY <1>1, <1>5, <2>1, FailingForGood DEF FailingNode
<1> QED
  BY <1>4, <1>5

\* What a step of a recording does to where it is: it judges, or it finds the
\* score low, or it suspends no one next.
LEMMA RecorderJudgesFairly ==
  ASSUME Typed, CountsMatch, SuspensionsAreEarned, NEW t \in Tasks, RecorderNext(t)
  PROVE  JudgedFairly(t)'
<1>1. CASE Judge(t)
  <2>1. Current(t).node \in NodeIds /\ Current(t)' = Current(t)
    BY <1>1, CurrentOutcome DEF Judge, RecorderStep, Current
  <2>2. /\ recorder'[t] = "scoring"
        /\ read'[t] = stats[Current(t).node] /\ UNCHANGED stats
    BY <1>1 DEF Judge, RecorderStep, Typed, TypeOK, keyVars
  <2>3. stats[Current(t).node].total \in Nat
    BY <2>1 DEF Typed, TypeOK, Stats
  <2> QED
    BY <2>1, <2>2, <2>3 DEF JudgedFairly
<1>2. CASE ScoreLow(t)
  <2> DEFINE n == Current(t).node
  <2>1. n \in NodeIds /\ Current(t)' = Current(t)
    BY <1>2, CurrentOutcome DEF ScoreLow, RecorderStep, Current
  <2>2. /\ recorder[t] = "scoring" /\ recorder'[t] = "suspending"
        /\ read[t].total > SuspendAfter /\ MayScoreLow(stats[n])
        /\ UNCHANGED <<stats, forgotten>>
    BY <1>2 DEF ScoreLow, RecorderStep, Typed, TypeOK, keyVars
  <2>3. ASSUME n \notin forgotten PROVE FailingNode(n)
    <3>1. /\ stats[n] \in Stats /\ read[t].total \in Nat
          /\ stats[n].total \in Nat /\ SuspendAfter \in Nat
      BY <2>1, ReputationAssumption DEF Typed, TypeOK, Stats
    <3>2. read[t].total <= stats[n].total
      BY <2>2, <2>3 DEF SuspensionsAreEarned, JudgedFairly
    <3>3. stats[n].total > SuspendAfter
      BY <2>2, <3>1, <3>2
    <3>4. stats[n].total = stats[n].successful + stats[n].failed
      BY <2>1, <2>3 DEF CountsMatch, EachOutcomeCountsOnce
    <3> QED
      BY <2>2, <3>1, <3>3, <3>4, LowScores DEF FailingNode
  <2> QED
    BY <2>1, <2>2, <2>3 DEF JudgedFairly, FailingNode
<1>3. CASE recorder'[t] \notin {"scoring", "suspending"}
  BY <1>3 DEF JudgedFairly
<1>4. Judge(t) \/ ScoreLow(t) \/ recorder'[t] \notin {"scoring", "suspending"}
  BY DEF RecorderNext, TaskEnds, Count, ReadTotals, WriteAverage, ScoreWell, Suspend,
     Remember, RecordingRaises, GoOn, RecorderStep, Typed, TypeOK
<1> QED
  BY <1>1, <1>2, <1>3, <1>4

\* Where the recordings are after a step: one moves, by its own step, or none.
LEMMA RecordingsRest ==
  ASSUME Typed, [Next]_vars, NEW t \in Tasks
  PROVE  RecorderNext(t) \/ Rests(t)
<1>1. ASSUME NEW u \in Tasks, RecorderNext(u), u # t PROVE Rests(t)
  BY <1>1 DEF RecorderNext, TaskEnds, Count, ReadTotals, WriteAverage, Judge, ScoreLow,
     ScoreWell, Suspend, Remember, RecordingRaises, GoOn, RecorderStep, Typed, TypeOK,
     Rests
<1>2. ASSUME NEW r \in Raters, RaterNext(r) PROVE UNCHANGED recorderVars
  BY <1>2 DEF RaterNext, LookUp, Claim, Push, Trim, AnswerRating, RatingRaises
<1>3. UNCHANGED recorderVars => Rests(t)
  BY DEF recorderVars, Rests
<1> QED
  BY <1>1, <1>2, <1>3
     DEF Next, ExpireTask, ExpireRated, ForgetNode, ExpireSuspension, vars

LEMMA SuspensionsStep ==
  ASSUME Typed, CountsMatch, SuspensionsAreEarned, [Next]_vars
  PROVE  SuspensionsAreEarned'
<1>1. ASSUME NEW t \in Tasks PROVE JudgedFairly(t)'
  BY RecordingsRest, RecorderJudgesFairly, JudgedFairlyRests DEF SuspensionsAreEarned
<1>2. ASSUME NEW n \in suspended' \ forgotten' PROVE FailingNode(n)'
  <2>1. n \in NodeIds \ forgotten' /\ n \notin forgotten
    BY TypedStep, CountersGrow DEF Typed, TypeOK
  <2>2. CASE n \in suspended
    BY <2>1, <2>2, FailingForGood
       DEF SuspensionsAreEarned, OnlyFailingNodesAreSuspended, FailingNode
  <2>3. ASSUME NEW t \in Tasks, Suspend(t), n = Current(t).node PROVE FailingNode(n)'
    <3>1. FailingNode(n)
      BY <2>1, <2>3 DEF Suspend, GoOn, RecorderStep, SuspensionsAreEarned, JudgedFairly
    <3> QED
      BY <2>1, <3>1, FailingForGood
  <2>4. n \in suspended \/ \E t \in Tasks : Suspend(t) /\ n = Current(t).node
    <3>1. ASSUME NEW r \in Raters, RaterNext(r) PROVE UNCHANGED suspended
      BY <3>1 DEF RaterNext, LookUp, Claim, Push, Trim, AnswerRating, RatingRaises, keyVars
    <3>2. ASSUME NEW t \in Tasks, RecorderNext(t), ~Suspend(t) PROVE UNCHANGED suspended
      BY <3>2 DEF RecorderNext, TaskEnds, Count, ReadTotals, WriteAverage, Judge, ScoreLow,
         ScoreWell, Remember, RecordingRaises, keyVars
    <3>3. ASSUME NEW t \in Tasks, Suspend(t)
          PROVE  suspended' = suspended \cup {Current(t).node}
      BY <3>3 DEF Suspend
    <3> QED
      BY <1>2, <3>1, <3>2, <3>3
         DEF Next, ExpireTask, ExpireRated, ForgetNode, ExpireSuspension, vars, keyVars
  <2> QED
    BY <2>2, <2>3, <2>4
<1> QED
  BY <1>1, <1>2 DEF SuspensionsAreEarned, OnlyFailingNodesAreSuspended, FailingNode

\* Only a node that had failed, by then, more than one task in eight, and
\* served more than SuspendAfter, is ever suspended.
THEOREM SuspensionsAreRight == Spec => []OnlyFailingNodesAreSuspended
<1>1. Init => SuspensionsAreEarned
  BY DEF Init, SuspensionsAreEarned, OnlyFailingNodesAreSuspended, JudgedFairly
<1>2. Typed /\ CountsMatch /\ SuspensionsAreEarned /\ [Next]_vars => SuspensionsAreEarned'
  BY SuspensionsStep
<1>3. SuspensionsAreEarned => OnlyFailingNodesAreSuspended
  BY DEF SuspensionsAreEarned
<1> QED
  BY <1>1, <1>2, <1>3, AlwaysTyped, CountsAlwaysMatch, PTL DEF Spec

(***************************************************************************)
(* Where ratings come from.  A record of a task is written when the task   *)
(* is done, and from then on the nodes that served it do not change, so    *)
(* what a call of rate_task read in the record stays true while it waits.  *)
(***************************************************************************)
RecordOK(t) ==
  /\ remembered[t] \in {{}, Served(t)}
  /\ remembered[t] # {} => recorder[t] = "done"

CallOK(r) ==
  rater[r] \notin {"idle", "refused"} =>
    /\ about[r].by = RequesterOf[about[r].task]
    /\ recorder[about[r].task] = "done"
    /\ unrated[r] \subseteq Served(about[r].task)
    /\ rater[r] = "claiming" => unrated[r] = Served(about[r].task)
    /\ rater[r] = "rated" => unrated[r] = {}

RatingOK(n, x) ==
  x.by = RequesterOf[x.task] /\ n \in Served(x.task) /\ recorder[x.task] = "done"

RatingsAreSound ==
  /\ \A t \in Tasks : RecordOK(t)
  /\ \A r \in Raters : CallOK(r)
  /\ \A n \in NodeIds : \A i \in DOMAIN ratings[n] : RatingOK(n, ratings[n][i])

LEMMA DoneForGood ==
  ASSUME Typed, [Next]_vars, NEW t \in Tasks, recorder[t] = "done"
  PROVE  recorder'[t] = "done" /\ Served(t)' = Served(t)
<1>1. ~RecorderNext(t)
  BY DEF RecorderNext, TaskEnds, Count, ReadTotals, WriteAverage, Judge, ScoreLow,
     ScoreWell, Suspend, Remember, RecordingRaises, GoOn, RecorderStep
<1>2. Rests(t)
  BY <1>1, RecordingsRest
<1> QED
  BY <1>2 DEF Rests, Served

\* A call of rate_task that a step leaves where it is.
CallRests(r) ==
  /\ rater'[r] = rater[r] /\ about'[r] = about[r]
  /\ unrated'[r] = unrated[r] /\ node'[r] = node[r]

LEMMA CallsRest ==
  ASSUME Typed, [Next]_vars, NEW r \in Raters
  PROVE  RaterNext(r) \/ CallRests(r)
<1>1. ASSUME NEW s \in Raters, RaterNext(s), s # r PROVE CallRests(r)
  BY <1>1 DEF RaterNext, LookUp, Claim, Push, Trim, AnswerRating, RatingRaises, RaterStep,
     Typed, TypeOK, CallRests
<1>2. ASSUME NEW t \in Tasks, RecorderNext(t) PROVE UNCHANGED raterVars
  BY <1>2 DEF RecorderNext, TaskEnds, Count, ReadTotals, WriteAverage, Judge, ScoreLow,
     ScoreWell, Suspend, Remember, RecordingRaises
<1>3. UNCHANGED raterVars => CallRests(r)
  BY DEF raterVars, CallRests
<1> QED
  BY <1>1, <1>2, <1>3
     DEF Next, ExpireTask, ExpireRated, ForgetNode, ExpireSuspension, vars

\* The steps that change the ratings of a node.
LEMMA RatingsChange ==
  ASSUME Typed, [Next]_vars, NEW n \in NodeIds
  PROVE  \/ ratings'[n] = ratings[n]
         \/ \E r \in Raters : /\ Push(r, n) /\ about[r] \in Rating
                             /\ ratings'[n] = <<about[r]>> \o ratings[n]
         \/ \E r \in Raters : /\ Trim(r) /\ node[r] = n
                             /\ ratings'[n] = FirstRatings(ratings[n], MaxRatings)
         \/ ForgetNode(n) /\ ratings'[n] = <<>>
<1>1. ASSUME NEW t \in Tasks, RecorderNext(t) PROVE UNCHANGED ratings
  BY <1>1 DEF RecorderNext, TaskEnds, Count, ReadTotals, WriteAverage, Judge, ScoreLow,
     ScoreWell, Suspend, Remember, RecordingRaises, keyVars
<1>2. ASSUME NEW r \in Raters, NEW m \in NodeIds, Push(r, m)
      PROVE  \/ ratings'[n] = ratings[n]
             \/ m = n /\ about[r] \in Rating /\ ratings'[n] = <<about[r]>> \o ratings[n]
  BY <1>2 DEF Push, RaterStep, Typed, TypeOK, RatersOK
<1>3. ASSUME NEW r \in Raters, Trim(r)
      PROVE  \/ ratings'[n] = ratings[n]
             \/ node[r] = n /\ ratings'[n] = FirstRatings(ratings[n], MaxRatings)
  BY <1>3 DEF Trim, Typed, TypeOK
<1>4. ASSUME NEW m \in NodeIds, ForgetNode(m)
      PROVE  \/ ratings'[n] = ratings[n]
             \/ m = n /\ ratings'[n] = <<>>
  BY <1>4 DEF ForgetNode, Typed, TypeOK
<1>5. CASE UNCHANGED ratings
  BY <1>5
<1> QED
  BY <1>1, <1>2, <1>3, <1>4, <1>5
     DEF Next, RaterNext, LookUp, Claim, AnswerRating, RatingRaises, ExpireTask, ExpireRated,
         ExpireSuspension, vars, keyVars

LEMMA RecordStep ==
  ASSUME Typed, [Next]_vars, NEW t \in Tasks, RecordOK(t)
  PROVE  RecordOK(t)'
<1>1. remembered'[t] \in {remembered[t], {}, Served(t)}
      /\ (remembered'[t] # remembered[t] /\ remembered'[t] # {} => Remember(t))
  <2>1. ASSUME NEW u \in Tasks, RecorderNext(u), ~Remember(u) PROVE UNCHANGED remembered
    BY <2>1 DEF RecorderNext, TaskEnds, Count, ReadTotals, WriteAverage, Judge, ScoreLow,
       ScoreWell, Suspend, RecordingRaises, keyVars
  <2>2. ASSUME NEW u \in Tasks, Remember(u)
        PROVE  \/ remembered'[t] = remembered[t]
               \/ u = t /\ remembered'[t] = Served(t)
    BY <2>2 DEF Remember, Typed, TypeOK
  <2>3. ASSUME NEW u \in Tasks, ExpireTask(u)
        PROVE  remembered'[t] \in {remembered[t], {}}
    BY <2>3 DEF ExpireTask, Typed, TypeOK
  <2>4. ASSUME NEW r \in Raters, RaterNext(r) PROVE UNCHANGED remembered
    BY <2>4 DEF RaterNext, LookUp, Claim, Push, Trim, AnswerRating, RatingRaises, keyVars
  <2> QED
    BY <2>1, <2>2, <2>3, <2>4
       DEF Next, ExpireRated, ForgetNode, ExpireSuspension, vars, keyVars
<1>2. CASE Remember(t)
  BY <1>1, <1>2 DEF Remember, RecorderStep, Typed, TypeOK, RecordOK, Served
<1>3. CASE remembered'[t] = remembered[t]
  BY <1>3, DoneForGood DEF RecordOK
<1>4. CASE remembered'[t] = {}
  BY <1>4 DEF RecordOK
<1> QED
  BY <1>1, <1>2, <1>3, <1>4

LEMMA CallStep ==
  ASSUME Typed, RatingsAreSound, [Next]_vars, NEW r \in Raters
  PROVE  CallOK(r)'
<1>1. CASE CallRests(r)
  <2> SUFFICES ASSUME rater[r] \notin {"idle", "refused"} PROVE CallOK(r)'
    BY <1>1 DEF CallRests, CallOK
  <2>1. about[r].task \in Tasks
    BY RatingFields DEF Typed, RatersOK
  <2>2. CallOK(r) /\ recorder[about[r].task] = "done"
    BY DEF RatingsAreSound, CallOK
  <2>3. ASSUME NEW t \in Tasks, t = about[r].task PROVE CallOK(r)'
    <3>1. recorder'[t] = "done" /\ Served(t)' = Served(t)
      BY <2>2, <2>3, DoneForGood
    <3>2. about'[r].task = t /\ Served(about[r].task)' = Served(t)'
      BY <1>1, <2>3 DEF CallRests, Served
    <3> QED
      BY <1>1, <2>2, <2>3, <3>1, <3>2 DEF CallRests, CallOK
  <2> QED
    BY <2>1, <2>3
<1>2. ASSUME NEW t \in Tasks, NEW a \in Accounts, LookUp(r, t, a) PROVE CallOK(r)'
  <2>1. RecordOK(t) /\ UNCHANGED recorderVars
    BY <1>2 DEF RatingsAreSound, LookUp
  <2>2. CASE remembered[t] # {} /\ RequesterOf[t] = a
    <3>1. /\ rater'[r] = "claiming" /\ about'[r] = [task |-> t, by |-> a]
          /\ unrated'[r] = remembered[t]
      BY <1>2, <2>2 DEF LookUp, RaterStep, Typed, TypeOK
    <3>2. recorder[t] = "done" /\ remembered[t] = Served(t)
      BY <2>1, <2>2 DEF RecordOK
    <3> QED
      BY <2>1, <2>2, <3>1, <3>2 DEF CallOK, recorderVars, Served
  <2>3. CASE ~(remembered[t] # {} /\ RequesterOf[t] = a)
    BY <1>2, <2>3 DEF LookUp, RaterStep, Typed, TypeOK, CallOK
  <2> QED
    BY <2>2, <2>3
<1>3. ASSUME \/ Claim(r) \/ Trim(r) \/ AnswerRating(r) \/ RatingRaises(r)
             \/ \E n \in NodeIds : Push(r, n)
      PROVE  CallOK(r)'
  <2>1. /\ rater[r] \notin {"idle", "refused"} /\ UNCHANGED recorderVars
        /\ rater'[r] # "claiming"
        /\ \/ rater'[r] = "refused"
           \/ /\ about'[r] = about[r] /\ unrated'[r] \subseteq unrated[r]
              /\ rater'[r] = "rated" => unrated'[r] = {}
    BY <1>3 DEF Claim, Trim, AnswerRating, RatingRaises, Push, RaterStep, Typed, TypeOK
  <2>2. CallOK(r)
    BY DEF RatingsAreSound
  <2> QED
    BY <2>1, <2>2 DEF CallOK, recorderVars, Served
<1> QED
  BY <1>1, <1>2, <1>3, CallsRest DEF RaterNext

LEMMA RatingsStaySound ==
  ASSUME Typed, RatingsAreSound, [Next]_vars,
         NEW n \in NodeIds, NEW i \in DOMAIN ratings'[n]
  PROVE  RatingOK(n, ratings[n][i])'
<1>1. ratings[n] \in Seq(Rating) /\ MaxRatings \in Nat
  BY ReputationAssumption DEF Typed, TypeOK
<1>2. ASSUME NEW x \in Rating, RatingOK(n, x) PROVE RatingOK(n, x)'
  BY <1>2, RatingFields, DoneForGood DEF RatingOK
<1>3. \/ \E j \in DOMAIN ratings[n] : ratings'[n][i] = ratings[n][j]
      \/ \E r \in Raters : Push(r, n) /\ about[r] \in Rating /\ ratings'[n][i] = about[r]
  <2>1. CASE \E r \in Raters : /\ Push(r, n) /\ about[r] \in Rating
                              /\ ratings'[n] = <<about[r]>> \o ratings[n]
    BY <1>1, <2>1, PushedFacts
  <2>2. CASE ratings'[n] = FirstRatings(ratings[n], MaxRatings)
    BY <1>1, <2>2, FirstRatingsFacts
  <2>3. CASE ratings'[n] = <<>>
    BY <2>3
  <2> QED
    BY <2>1, <2>2, <2>3, RatingsChange
<1>4. CASE \E j \in DOMAIN ratings[n] : ratings'[n][i] = ratings[n][j]
  <2>1. PICK j \in DOMAIN ratings[n] : ratings'[n][i] = ratings[n][j]
    BY <1>4
  <2>2. ratings[n][j] \in Rating /\ RatingOK(n, ratings[n][j])
    BY <1>1 DEF RatingsAreSound
  <2>3. ASSUME NEW x \in Rating, x = ratings[n][j] PROVE RatingOK(n, ratings[n][i])'
    BY <1>2, <2>1, <2>2, <2>3 DEF RatingOK
  <2> QED
    BY <2>2, <2>3
<1>5. ASSUME NEW r \in Raters, Push(r, n), about[r] \in Rating, ratings'[n][i] = about[r]
      PROVE  RatingOK(n, ratings[n][i])'
  <2>1. RatingOK(n, about[r])
    BY <1>5 DEF Push, RaterStep, RatingsAreSound, CallOK, RatingOK
  <2>2. ASSUME NEW x \in Rating, x = about[r] PROVE RatingOK(n, ratings[n][i])'
    BY <1>2, <1>5, <2>1, <2>2 DEF RatingOK
  <2> QED
    BY <1>5, <2>2
<1> QED
  BY <1>3, <1>4, <1>5

LEMMA RatingsSoundStep ==
  ASSUME Typed, RatingsAreSound, [Next]_vars
  PROVE  RatingsAreSound'
<1>1. \A t \in Tasks : RecordOK(t)'
  BY RecordStep DEF RatingsAreSound
<1>2. \A r \in Raters : CallOK(r)'
  BY CallStep
<1>3. \A n \in NodeIds : \A i \in DOMAIN ratings'[n] : RatingOK(n, ratings[n][i])'
  BY RatingsStaySound
<1> QED
  BY <1>1, <1>2, <1>3 DEF RatingsAreSound

LEMMA RatingsAlwaysSound == Spec => []RatingsAreSound
<1>1. Init => RatingsAreSound
  BY DEF Init, RatingsAreSound, RecordOK, CallOK
<1>2. Typed /\ RatingsAreSound /\ [Next]_vars => RatingsAreSound'
  BY RatingsSoundStep
<1> QED
  BY <1>1, <1>2, AlwaysTyped, PTL DEF Spec

(***************************************************************************)
(* One rating of a task per node.  A task that can still be claimed was    *)
(* rated nowhere; the one call that claims it puts its rating on each node *)
(* once; and unless the task is overdue, the claim outlives the calls that *)
(* could make another.                                                     *)
(***************************************************************************)
Pushing(r) == rater[r] \in {"rating", "trimming"}

RatedOn(n, t) == \E i \in DOMAIN ratings[n] : ratings[n][i].task = t

Claimable(t) ==
  /\ t \notin rated \cup overdue
  /\ remembered[t] # {} \/ \E r \in Raters : rater[r] = "claiming" /\ about[r].task = t

Untouched(t) ==
  /\ \A r \in Raters : Pushing(r) => about[r].task # t
  /\ \A n \in NodeIds : ~RatedOn(n, t)

PushesOnce ==
  /\ \A r, s \in Raters : Pushing(r) /\ Pushing(s) /\ about[r].task = about[s].task
                          /\ about[r].task \notin overdue => r = s
  /\ \A r \in Raters : Pushing(r) /\ about[r].task \notin overdue =>
       \A n \in unrated[r] : ~RatedOn(n, about[r].task)

NoTwice(n) ==
  \A i, j \in DOMAIN ratings[n] :
    ratings[n][i].task = ratings[n][j].task /\ ratings[n][i].task \notin overdue => i = j

LEMMA OverdueForGood ==
  ASSUME [Next]_vars
  PROVE  overdue \subseteq overdue'
<1>1. ASSUME NEW t \in Tasks, RecorderNext(t) PROVE UNCHANGED overdue
  BY <1>1 DEF RecorderNext, TaskEnds, Count, ReadTotals, WriteAverage, Judge, ScoreLow,
     ScoreWell, Suspend, Remember, RecordingRaises
<1>2. ASSUME NEW r \in Raters, RaterNext(r) PROVE UNCHANGED overdue
  BY <1>2 DEF RaterNext, LookUp, Claim, Push, Trim, AnswerRating, RatingRaises
<1> QED
  BY <1>1, <1>2 DEF Next, ExpireTask, ExpireRated, ForgetNode, ExpireSuspension, vars

RatedOnce ==
  /\ \A t \in Tasks : Claimable(t) => Untouched(t)
  /\ PushesOnce
  /\ \A n \in NodeIds : NoTwice(n)

\* A node comes to have a rating of a task by lpush alone.
LEMMA NewlyRated ==
  ASSUME Typed, [Next]_vars, NEW n \in NodeIds, NEW t, RatedOn(n, t)'
  PROVE  RatedOn(n, t) \/ \E r \in Raters : Push(r, n) /\ about[r].task = t
<1>1. ratings[n] \in Seq(Rating) /\ MaxRatings \in Nat
  BY ReputationAssumption DEF Typed, TypeOK
<1>2. PICK i \in DOMAIN ratings'[n] : ratings'[n][i].task = t
  BY DEF RatedOn
<1>3. CASE \E r \in Raters : /\ Push(r, n) /\ about[r] \in Rating
                            /\ ratings'[n] = <<about[r]>> \o ratings[n]
  BY <1>1, <1>2, <1>3, PushedFacts DEF RatedOn
<1>4. CASE ratings'[n] = FirstRatings(ratings[n], MaxRatings)
  BY <1>1, <1>2, <1>4, FirstRatingsFacts DEF RatedOn
<1>5. CASE ratings'[n] = <<>>
  BY <1>2, <1>5
<1> QED
  BY <1>2, <1>3, <1>4, <1>5, RatingsChange DEF RatedOn

\* A call comes to push by its claim alone, which succeeds on a claimable task,
\* or on an overdue one.
LEMMA NewlyPushing ==
  ASSUME Typed, [Next]_vars, NEW r \in Raters, Pushing(r)'
  PROVE  /\ about'[r] = about[r] /\ unrated'[r] \subseteq unrated[r]
         /\ about[r] \in Rating
         /\ \/ Pushing(r)
            \/ /\ Claim(r)
               /\ (about[r].task \in overdue \/ Claimable(about[r].task))
               /\ about[r].task \in rated' /\ UNCHANGED ratings
<1>1. CASE CallRests(r)
  BY <1>1 DEF CallRests, Pushing, Typed, RatersOK
<1>2. CASE Claim(r)
  <2>1. /\ rater[r] = "claiming" /\ about[r].task \notin rated
        /\ UNCHANGED <<ratings, about, unrated>> /\ about[r].task \in rated'
    BY <1>2 DEF Claim, RaterStep, Pushing, Typed, TypeOK
  <2> QED
    BY <1>2, <2>1 DEF Claimable, Typed, RatersOK
<1>3. CASE Trim(r) \/ \E n \in NodeIds : Push(r, n)
  <2>1. rater[r] \in {"rating", "trimming"} /\ about'[r] = about[r]
    BY <1>3 DEF Trim, Push, RaterStep
  <2>2. unrated'[r] \subseteq unrated[r]
    BY <1>3 DEF Trim, Push, RaterStep, Typed, TypeOK
  <2> QED
    BY <2>1, <2>2 DEF Pushing, Typed, RatersOK
<1>4. CASE \/ AnswerRating(r) \/ RatingRaises(r)
           \/ \E t \in Tasks, a \in Accounts : LookUp(r, t, a)
  BY <1>4 DEF AnswerRating, RatingRaises, LookUp, RaterStep, Pushing, Typed, TypeOK
<1> QED
  BY <1>1, <1>2, <1>3, <1>4, CallsRest DEF RaterNext

\* A task comes to be claimable when its record is written, and not again.
LEMMA NewlyClaimable ==
  ASSUME Typed, RatingsAreSound, RatedOnce, [Next]_vars, NEW t \in Tasks, Claimable(t)'
  PROVE  Untouched(t)
<1>1. CASE Claimable(t)
  BY <1>1 DEF RatedOnce
<1>2. CASE recorder[t] # "done"
  <2>1. \A r \in Raters : Pushing(r) => about[r].task # t
    BY <1>2 DEF RatingsAreSound, CallOK, Pushing
  <2>2. \A n \in NodeIds : ~RatedOn(n, t)
    BY <1>2 DEF RatingsAreSound, RatingOK, RatedOn
  <2> QED
    BY <2>1, <2>2 DEF Untouched
<1>3. ASSUME remembered'[t] # {}, remembered[t] = {} PROVE recorder[t] # "done"
  <2>1. ASSUME NEW u \in Tasks, RecorderNext(u), ~Remember(u) PROVE UNCHANGED remembered
    BY <2>1 DEF RecorderNext, TaskEnds, Count, ReadTotals, WriteAverage, Judge, ScoreLow,
       ScoreWell, Suspend, RecordingRaises, keyVars
  <2>2. ASSUME NEW u \in Tasks, Remember(u) PROVE u = t /\ recorder[t] = "remembering"
    BY <1>3, <2>2 DEF Remember, RecorderStep, Typed, TypeOK
  <2>3. ASSUME NEW u \in Tasks, ExpireTask(u) PROVE FALSE
    BY <1>3, <2>3 DEF ExpireTask, Typed, TypeOK
  <2>4. ASSUME NEW r \in Raters, RaterNext(r) PROVE UNCHANGED remembered
    BY <2>4 DEF RaterNext, LookUp, Claim, Push, Trim, AnswerRating, RatingRaises, keyVars
  <2> QED
    BY <1>3, <2>1, <2>2, <2>3, <2>4
       DEF Next, ExpireRated, ForgetNode, ExpireSuspension, vars, keyVars
<1>4. ASSUME NEW r \in Raters, rater'[r] = "claiming", about'[r].task = t
      PROVE  remembered[t] # {} \/ (rater[r] = "claiming" /\ about[r].task = t)
  <2>1. CASE CallRests(r)
    BY <1>4, <2>1 DEF CallRests
  <2>2. ASSUME NEW u \in Tasks, NEW a \in Accounts, LookUp(r, u, a)
        PROVE  remembered[t] # {}
    <3>1. remembered[u] # {} /\ about'[r] = [task |-> u, by |-> a]
      BY <1>4, <2>2 DEF LookUp, RaterStep, Typed, TypeOK
    <3> QED
      BY <1>4, <3>1
  <2>3. CASE \/ Claim(r) \/ Trim(r) \/ AnswerRating(r) \/ RatingRaises(r)
             \/ \E n \in NodeIds : Push(r, n)
    BY <1>4, <2>3 DEF Claim, Trim, AnswerRating, RatingRaises, Push, RaterStep, Typed, TypeOK
  <2> QED
    BY <2>1, <2>2, <2>3, CallsRest DEF RaterNext
<1>5. ASSUME t \in rated, t \notin rated', t \notin overdue'
      PROVE  /\ remembered'[t] = {}
             /\ \A r \in Raters : rater'[r] = "claiming" => about'[r].task # t
  <2>1. ASSUME NEW u \in Tasks, RecorderNext(u) PROVE UNCHANGED rated
    BY <2>1 DEF RecorderNext, TaskEnds, Count, ReadTotals, WriteAverage, Judge, ScoreLow,
       ScoreWell, Suspend, Remember, RecordingRaises, keyVars
  <2>2. ASSUME NEW u \in Tasks, ExpireRated(u)
        PROVE  /\ remembered'[t] = {}
               /\ \A r \in Raters : rater'[r] = "claiming" => about'[r].task # t
    <3>1. u = t /\ remembered[t] = {} /\ UNCHANGED <<remembered, rater, about>>
      BY <1>5, <2>2 DEF ExpireRated, raterVars
    <3>2. \A r \in Raters : rater[r] = "claiming" => about[r].task # t
      BY <1>5, <2>2, <3>1 DEF ExpireRated
    <3> QED
      BY <3>1, <3>2
  <2>3. ASSUME NEW r \in Raters, RaterNext(r) PROVE rated \subseteq rated'
    BY <2>3 DEF RaterNext, LookUp, Claim, Push, Trim, AnswerRating, RatingRaises, keyVars
  <2>4. \E u \in Tasks : ExpireRated(u)
    BY <1>5, <2>1, <2>3
       DEF Next, ExpireTask, ForgetNode, ExpireSuspension, vars, keyVars
  <2> QED
    BY <2>2, <2>4
<1> QED
  BY <1>1, <1>2, <1>3, <1>4, <1>5, OverdueForGood DEF Claimable

LEMMA PushesOnceStep ==
  ASSUME Typed, RatedOnce, [Next]_vars
  PROVE  PushesOnce'
<1>1. ASSUME NEW r \in Raters, NEW s \in Raters, Pushing(r)', Pushing(s)',
             about'[r].task = about'[s].task, about'[r].task \notin overdue'
      PROVE  r = s
  <2>1. /\ about[r].task = about[s].task /\ about[r].task \in Tasks
        /\ about[r].task \notin overdue
    BY <1>1, NewlyPushing, RatingFields, OverdueForGood
  <2>2. CASE Pushing(r) /\ Pushing(s)
    BY <2>1, <2>2 DEF RatedOnce, PushesOnce
  <2>3. CASE Claim(r) /\ Claim(s)
    BY <1>1, <2>3 DEF Claim, RaterStep, Pushing, Typed, TypeOK
  <2>4. ~(Pushing(r) /\ Claimable(about[s].task)) /\ ~(Pushing(s) /\ Claimable(about[r].task))
    BY <2>1 DEF RatedOnce, Untouched
  <2> QED
    BY <1>1, <2>1, <2>2, <2>3, <2>4, NewlyPushing
<1>2. ASSUME NEW r \in Raters, Pushing(r)', NEW n \in unrated'[r],
             NEW t \in Tasks, about'[r].task = t, t \notin overdue', RatedOn(n, t)'
      PROVE  FALSE
  <2>1. /\ about[r].task = t /\ n \in unrated[r] /\ n \in NodeIds
        /\ t \notin overdue /\ (Pushing(r) \/ Claimable(t))
    BY <1>2, NewlyPushing, OverdueForGood DEF Typed, TypeOK
  <2>2. ~RatedOn(n, t)
    BY <2>1 DEF RatedOnce, PushesOnce, Untouched
  <2>3. PICK s \in Raters : Push(s, n) /\ about[s].task = t
    BY <1>2, <2>1, <2>2, NewlyRated
  <2>4. Pushing(s)
    BY <2>3 DEF Push, RaterStep, Pushing
  <2>5. CASE Pushing(r)
    <3>1. r = s
      BY <2>1, <2>3, <2>4, <2>5 DEF RatedOnce, PushesOnce
    <3> QED
      BY <1>2, <2>3, <3>1 DEF Push, Typed, TypeOK
  <2>6. CASE Claimable(t)
    BY <2>3, <2>4, <2>6 DEF RatedOnce, Untouched
  <2> QED
    BY <2>1, <2>5, <2>6
<1>3. ASSUME NEW r \in Raters, Pushing(r)' PROVE about'[r].task \in Tasks
  BY <1>3, NewlyPushing, RatingFields
<1>4. ASSUME NEW r \in Raters, Pushing(r)', about'[r].task \notin overdue',
             NEW n \in unrated'[r]
      PROVE  ~RatedOn(n, about[r].task)'
  <2>1. PICK t \in Tasks : about'[r].task = t
    BY <1>3, <1>4
  <2>2. ~RatedOn(n, t)'
    BY <1>2, <1>4, <2>1
  <2> QED
    BY <2>1, <2>2 DEF RatedOn
<1> QED
  BY <1>1, <1>4 DEF PushesOnce

LEMMA UntouchedStep ==
  ASSUME Typed, RatingsAreSound, RatedOnce, [Next]_vars, NEW t \in Tasks, Claimable(t)'
  PROVE  Untouched(t)'
<1>1. Untouched(t)
  BY NewlyClaimable
<1>2. ASSUME NEW r \in Raters, Pushing(r)', about'[r].task = t PROVE FALSE
  <2>1. about[r].task = t /\ (Pushing(r) \/ t \in rated')
    BY <1>2, NewlyPushing
  <2> QED
    BY <1>1, <2>1 DEF Untouched, Claimable
<1>3. ASSUME NEW n \in NodeIds, RatedOn(n, t)' PROVE FALSE
  <2>1. PICK s \in Raters : Push(s, n) /\ about[s].task = t
    BY <1>1, <1>3, NewlyRated DEF Untouched
  <2> QED
    BY <1>1, <2>1 DEF Untouched, Push, RaterStep, Pushing
<1> QED
  BY <1>2, <1>3 DEF Untouched

LEMMA NoTwiceStep ==
  ASSUME Typed, RatedOnce, [Next]_vars, NEW n \in NodeIds
  PROVE  NoTwice(n)'
<1>1. ratings[n] \in Seq(Rating) /\ MaxRatings \in Nat /\ NoTwice(n)
  BY ReputationAssumption DEF Typed, TypeOK, RatedOnce
<1>2. ASSUME NEW r \in Raters, Push(r, n), about[r] \in Rating,
             ratings'[n] = <<about[r]>> \o ratings[n]
      PROVE  NoTwice(n)'
  <2>1. about[r].task \notin overdue =>
          \A i \in DOMAIN ratings[n] : ratings[n][i].task # about[r].task
    BY <1>2 DEF Push, RaterStep, Pushing, RatedOnce, PushesOnce, RatedOn
  <2>2. /\ DOMAIN ratings'[n] = 1 .. Len(ratings[n]) + 1 /\ Len(ratings[n]) \in Nat
        /\ ratings'[n][1] = about[r]
        /\ \A i \in DOMAIN ratings'[n] :
             i # 1 => i - 1 \in DOMAIN ratings[n] /\ ratings'[n][i] = ratings[n][i - 1]
    BY <1>1, <1>2, PushedFacts
  <2>3. ASSUME NEW i \in DOMAIN ratings'[n], NEW j \in DOMAIN ratings'[n],
               ratings'[n][i].task = ratings'[n][j].task,
               ratings'[n][i].task \notin overdue
        PROVE  i = j
    <3>1. CASE i = 1 \/ j = 1
      BY <2>1, <2>2, <2>3, <3>1
    <3>2. CASE i # 1 /\ j # 1
      <4>1. /\ i - 1 \in DOMAIN ratings[n] /\ j - 1 \in DOMAIN ratings[n]
            /\ ratings[n][i - 1].task = ratings[n][j - 1].task
            /\ ratings[n][i - 1].task \notin overdue
        BY <2>2, <2>3, <3>2
      <4>2. i - 1 = j - 1
        BY <1>1, <4>1 DEF NoTwice
      <4> QED
        BY <2>2, <4>2
    <3> QED
      BY <3>1, <3>2
  <2> QED
    BY <2>3, OverdueForGood DEF NoTwice
<1>3. CASE ratings'[n] = FirstRatings(ratings[n], MaxRatings)
  BY <1>1, <1>3, FirstRatingsFacts, OverdueForGood DEF NoTwice
<1>4. CASE ratings'[n] = <<>>
  BY <1>4 DEF NoTwice
<1>5. CASE ratings'[n] = ratings[n]
  BY <1>1, <1>5, OverdueForGood DEF NoTwice
<1> QED
  BY <1>2, <1>3, <1>4, <1>5, RatingsChange

\* A rating on a node is always of a task the node served and from the account
\* that requested it; and the only one of that task, unless the task is overdue:
\* the key of its first rating expired under a call that was still to claim it.
THEOREM RatingsAreRight == Spec => []RatedOnceByRequester
<1>1. Init => RatedOnce
  BY DEF Init, RatedOnce, Claimable, PushesOnce, Pushing, NoTwice
<1>2. Typed /\ RatingsAreSound /\ RatedOnce /\ [Next]_vars => RatedOnce'
  BY PushesOnceStep, UntouchedStep, NoTwiceStep DEF RatedOnce
<1>3. RatingsAreSound /\ RatedOnce => RatedOnceByRequester
  BY DEF RatingsAreSound, RatingOK, RatedOnce, NoTwice, RatedOnceByRequester
<1> QED
  BY <1>1, <1>2, <1>3, AlwaysTyped, RatingsAlwaysSound, PTL DEF Spec

(***************************************************************************)
(* Ratings reach the nodes.                                                *)
(***************************************************************************)
Applied(n, x) ==
  \/ \E i \in DOMAIN ratings[n] : ratings[n][i] = x
  \/ Len(ratings[n]) >= MaxRatings

RatingReaches(r) ==
  rater[r] \in {"rating", "trimming", "rated"} =>
    \A n \in Served(about[r].task) \ (forgotten \cup unrated[r]) : Applied(n, about[r])

\* Other ratings push a rating back, or out; none of them makes room again.
LEMMA AppliedForGood ==
  ASSUME Typed, [Next]_vars, NEW n \in NodeIds, n \notin forgotten',
         NEW x \in Rating, Applied(n, x)
  PROVE  Applied(n, x)'
<1>1. /\ ratings[n] \in Seq(Rating) /\ MaxRatings \in Nat /\ Len(ratings[n]) \in Nat
      /\ DOMAIN ratings[n] = 1 .. Len(ratings[n])
  BY ReputationAssumption DEF Typed, TypeOK
<1>2. CASE ratings'[n] = ratings[n]
  BY <1>2 DEF Applied
<1>3. ASSUME NEW y \in Rating, ratings'[n] = <<y>> \o ratings[n] PROVE Applied(n, x)'
  <2>1. /\ Len(ratings'[n]) = Len(ratings[n]) + 1
        /\ \A i \in DOMAIN ratings[n] :
             i + 1 \in DOMAIN ratings'[n] /\ ratings'[n][i + 1] = ratings[n][i]
    BY <1>1, <1>3, PushedFacts
  <2> QED
    BY <1>1, <2>1 DEF Applied
<1>4. CASE ratings'[n] = FirstRatings(ratings[n], MaxRatings)
  <2>1. CASE Len(ratings[n]) <= MaxRatings
    BY <1>1, <1>2, <1>4, <2>1, FirstRatingsFacts
  <2>2. CASE Len(ratings[n]) > MaxRatings
    <3>1. Len(ratings'[n]) = MaxRatings
      BY <1>1, <1>4, <2>2, FirstRatingsFacts
    <3> QED
      BY <1>1, <3>1 DEF Applied
  <2> QED
    BY <1>1, <2>1, <2>2
<1>5. ~ForgetNode(n)
  BY DEF ForgetNode
<1> QED
  BY <1>2, <1>3, <1>4, <1>5, RatingsChange

\* A call visits the nodes one by one; those that it still has to visit are
\* the ones its rating has not reached.
LEMMA StillToVisit ==
  ASSUME Typed, RatingsAreSound, [Next]_vars, NEW r \in Raters,
         rater'[r] \in {"rating", "trimming", "rated"}
  PROVE  /\ about'[r] = about[r] /\ about[r] \in Rating
         /\ \/ /\ rater[r] \in {"rating", "trimming", "rated"}
               /\ \A n \in unrated[r] \ unrated'[r] : Push(r, n)
            \/ unrated'[r] = Served(about[r].task)
<1>1. CASE CallRests(r)
  BY <1>1 DEF CallRests, Typed, RatersOK
<1>2. CASE Claim(r)
  BY <1>2 DEF Claim, RaterStep, Typed, TypeOK, RatersOK, RatingsAreSound, CallOK
<1>3. ASSUME NEW n \in NodeIds, Push(r, n)
      PROVE  /\ rater[r] = "rating" /\ about' = about /\ unrated'[r] = unrated[r] \ {n}
  BY <1>3 DEF Push, RaterStep, Typed, TypeOK
<1>4. CASE Trim(r) \/ AnswerRating(r)
  BY <1>4 DEF Trim, AnswerRating, RaterStep, Typed, RatersOK
<1>5. CASE RatingRaises(r) \/ \E t \in Tasks, a \in Accounts : LookUp(r, t, a)
  BY <1>5 DEF RatingRaises, LookUp, RaterStep, Typed, TypeOK
<1>6. rater[r] = "rating" => about[r] \in Rating
  BY DEF Typed, RatersOK
<1> QED
  BY <1>1, <1>2, <1>3, <1>4, <1>5, <1>6, CallsRest DEF RaterNext

LEMMA RatingReachesStep ==
  ASSUME Typed, RatingsAreSound, [Next]_vars, NEW r \in Raters, RatingReaches(r)
  PROVE  RatingReaches(r)'
<1> SUFFICES ASSUME rater'[r] \in {"rating", "trimming", "rated"},
                    NEW n \in Served(about[r].task)', n \notin forgotten', n \notin unrated'[r]
             PROVE  Applied(n, about[r])'
  BY DEF RatingReaches
<1>1. about'[r] = about[r] /\ about[r] \in Rating
  BY StillToVisit
<1>2. PICK t \in Tasks : t = about[r].task
  BY <1>1, RatingFields
<1>3. PICK x \in Rating : x = about[r]
  BY <1>1
<1>4. recorder[t] = "done"
  <2>1. rater[r] \notin {"idle", "refused"}
    BY <1>1, RatingFields DEF Typed, RatersOK
  <2> QED
    BY <1>2, <2>1 DEF RatingsAreSound, CallOK
<1>5. Served(t)' = Served(t) /\ Served(about[r].task)' = Served(t)'
  <2>1. Served(t)' = Served(t)
    BY <1>4, DoneForGood
  <2>2. Served(about[r].task)' = Served(t)'
    BY <1>1, <1>2 DEF Served
  <2> QED
    BY <2>1, <2>2
<1>6. n \in Served(about[r].task) /\ n \in NodeIds
  <2>1. n \in Served(t)
    BY <1>5
  <2>2. Served(t) \subseteq NodeIds
    BY <1>4, ListFacts DEF Typed, RecordersOK, Served
  <2> QED
    BY <1>2, <2>1, <2>2
<1>7. Applied(n, x)'
  <2>1. CASE Push(r, n)
    <3>1. ratings'[n] = <<x>> \o ratings[n] /\ ratings[n] \in Seq(Rating)
      BY <1>3, <1>6, <2>1 DEF Push, Typed, TypeOK
    <3> QED
      BY <3>1, PushedFacts DEF Applied
  <2>2. CASE ~Push(r, n)
    <3>1. rater[r] \in {"rating", "trimming", "rated"} /\ n \notin unrated[r]
      BY <1>6, <2>2, StillToVisit
    <3>2. n \notin forgotten
      BY <1>6, CountersGrow
    <3>3. Applied(n, x)
      BY <1>3, <1>6, <3>1, <3>2 DEF RatingReaches
    <3> QED
      BY <1>6, <3>3, AppliedForGood
  <2> QED
    BY <2>1, <2>2
<1> QED
  BY <1>1, <1>3, <1>7 DEF Applied

\* A rating that was answered is at each node that served the task, or was
\* pushed out by newer ones, or the node's account was deleted.
THEOREM RatingsAreApplied == Spec => []AnsweredRatingIsApplied
<1> DEFINE Reach == \A r \in Raters : RatingReaches(r)
<1>1. Init => Reach
  BY DEF Init, RatingReaches
<1>2. Typed /\ RatingsAreSound /\ Reach /\ [Next]_vars => Reach'
  BY RatingReachesStep
<1>3. Typed /\ RatingsAreSound /\ Reach => AnsweredRatingIsApplied
  <2> SUFFICES ASSUME Typed, RatingsAreSound, Reach, NEW r \in Raters, rater[r] = "rated",
                      NEW n \in Served(about[r].task) \ forgotten
               PROVE  Applied(n, about[r])
    BY DEF AnsweredRatingIsApplied, Applied
  <2>1. unrated[r] = {}
    BY DEF RatingsAreSound, CallOK
  <2> QED
    BY <2>1 DEF RatingReaches
<1> QED
  BY <1>1, <1>2, <1>3, AlwaysTyped, RatingsAlwaysSound, PTL DEF Spec

(***************************************************************************)
(* The length of the lists.                                                *)
(***************************************************************************)
\* The calls that have pushed a rating to a node, and may not have trimmed.
Untrimmed(n) == {r \in Raters : rater[r] \in {"trimming", "raised"} /\ node[r] = n}

Bounded(n) == Len(ratings[n]) <= MaxRatings + Cardinality(Untrimmed(n))

LEMMA UntrimmedSize ==
  ASSUME NEW n
  PROVE  /\ IsFiniteSet(Untrimmed(n)) /\ IsFiniteSet(Untrimmed(n)')
         /\ Cardinality(Untrimmed(n)) \in Nat /\ Cardinality(Untrimmed(n)') \in Nat
<1>1. Untrimmed(n) \subseteq Raters /\ Untrimmed(n)' \subseteq Raters
  BY DEF Untrimmed
<1> QED
  BY <1>1, ReputationAssumption, FS_Subset, FS_CardinalityType

LEMMA UntrimmedStep ==
  ASSUME Typed, [Next]_vars, NEW n \in NodeIds,
         ~(\E r \in Raters : Trim(r) /\ node[r] = n)
  PROVE  /\ Untrimmed(n) \subseteq Untrimmed(n)'
         /\ \A r \in Raters : Push(r, n) => r \in Untrimmed(n)' /\ r \notin Untrimmed(n)
<1>1. ASSUME NEW r \in Raters, r \in Untrimmed(n) PROVE r \in Untrimmed(n)'
  <2>1. rater[r] \in {"trimming", "raised"} /\ node[r] = n
    BY <1>1 DEF Untrimmed
  <2>2. CASE CallRests(r)
    BY <2>1, <2>2 DEF CallRests, Untrimmed
  <2>3. CASE RatingRaises(r)
    BY <2>1, <2>3 DEF RatingRaises, Typed, TypeOK, Untrimmed
  <2>4. ~(\E m \in NodeIds : Push(r, m)) /\ ~Claim(r) /\ ~AnswerRating(r)
        /\ ~(\E t \in Tasks, a \in Accounts : LookUp(r, t, a))
    BY <2>1 DEF Push, Claim, AnswerRating, LookUp, RaterStep
  <2>5. ~Trim(r)
    BY <2>1
  <2> QED
    BY <2>2, <2>3, <2>4, <2>5, CallsRest DEF RaterNext
<1>2. ASSUME NEW r \in Raters, Push(r, n)
      PROVE  r \in Untrimmed(n)' /\ r \notin Untrimmed(n)
  BY <1>2 DEF Push, RaterStep, Typed, TypeOK, Untrimmed
<1>3. Untrimmed(n) \subseteq Raters
  BY DEF Untrimmed
<1> QED
  BY <1>1, <1>2, <1>3

LEMMA BoundedStep ==
  ASSUME Typed, [Next]_vars, NEW n \in NodeIds, Bounded(n)
  PROVE  Bounded(n)'
<1>1. /\ ratings[n] \in Seq(Rating) /\ Len(ratings[n]) \in Nat /\ MaxRatings \in Nat
      /\ Cardinality(Untrimmed(n)) \in Nat /\ Cardinality(Untrimmed(n)') \in Nat
      /\ IsFiniteSet(Untrimmed(n)) /\ IsFiniteSet(Untrimmed(n)')
  BY UntrimmedSize, ReputationAssumption DEF Typed, TypeOK
<1>2. CASE ratings'[n] = FirstRatings(ratings[n], MaxRatings)
  <2> DEFINE cut == FirstRatings(ratings[n], MaxRatings)
  <2>1. Len(cut) = IF Len(ratings[n]) < MaxRatings THEN Len(ratings[n]) ELSE MaxRatings
    BY <1>1, FirstRatingsFacts
  <2>2. Len(ratings[n])' = Len(cut)
    BY <1>2
  <2> HIDE DEF cut
  <2> QED
    BY <1>1, <2>1, <2>2 DEF Bounded
<1>3. CASE ratings'[n] = <<>>
  <2>1. Len(ratings'[n]) = 0
    BY <1>3
  <2> QED
    BY <1>1, <2>1 DEF Bounded
<1>4. CASE ~\E r \in Raters : Trim(r) /\ node[r] = n
  <2>1. Untrimmed(n) \subseteq Untrimmed(n)'
    BY <1>4, UntrimmedStep
  <2>2. CASE ratings'[n] = ratings[n]
    <3>1. Cardinality(Untrimmed(n)) <= Cardinality(Untrimmed(n)')
      BY <1>1, <2>1, FS_Subset
    <3> QED
      BY <1>1, <2>2, <3>1 DEF Bounded
  <2>3. ASSUME NEW r \in Raters, Push(r, n), about[r] \in Rating,
               ratings'[n] = <<about[r]>> \o ratings[n]
        PROVE  Bounded(n)'
    <3>1. Len(ratings'[n]) = Len(ratings[n]) + 1
      BY <1>1, <2>3, PushedFacts
    <3>2. r \in Untrimmed(n)' /\ r \notin Untrimmed(n)
      BY <1>4, <2>3, UntrimmedStep
    <3>3. Cardinality(Untrimmed(n) \cup {r}) = Cardinality(Untrimmed(n)) + 1
      BY <1>1, <3>2, FS_AddElement
    <3>4. Cardinality(Untrimmed(n) \cup {r}) <= Cardinality(Untrimmed(n)')
      BY <1>1, <2>1, <3>2, FS_Subset
    <3> QED
      BY <1>1, <3>1, <3>3, <3>4 DEF Bounded
  <2> QED
    BY <1>3, <1>4, <2>2, <2>3, RatingsChange
<1>5. CASE \E r \in Raters : Trim(r) /\ node[r] = n
  BY <1>2, <1>5 DEF Trim, Typed, TypeOK
<1> QED
  BY <1>4, <1>5

\* The list of a node is longer than MaxRatings by at most the calls that
\* pushed and have not trimmed, or that raised in between.
THEOREM RatingsStayBounded == Spec => []RatingsAreBounded
<1> DEFINE AllBounded == \A n \in NodeIds : Bounded(n)
<1>1. Init => AllBounded
  <2> SUFFICES ASSUME Init, NEW n \in NodeIds PROVE Bounded(n)
    OBVIOUS
  <2>1. Len(ratings[n]) = 0
    BY DEF Init
  <2> QED
    BY <2>1, UntrimmedSize, ReputationAssumption DEF Bounded
<1>2. Typed /\ AllBounded /\ [Next]_vars => AllBounded'
  BY BoundedStep
<1>3. AllBounded => RatingsAreBounded
  BY DEF Bounded, Untrimmed, RatingsAreBounded
<1> QED
  BY <1>1, <1>2, <1>3, AlwaysTyped, PTL DEF Spec
==============================================================================
