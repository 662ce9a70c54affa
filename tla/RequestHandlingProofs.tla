------------------------ MODULE RequestHandlingProofs ------------------------
(***************************************************************************)
(* Theorems about RequestHandling, for any nodes, connections, requests    *)
(* and limits.  One invariant carries the types, the shape of the table    *)
(* (TaskTrackerProofs) and what the locals of a handler hold while they    *)
(* are in use; a second one, about sessions, shows with it that every      *)
(* unfinished task has somebody left to finish it.                         *)
(***************************************************************************)
EXTENDS RequestHandling, TaskTrackerProofs

\* `choice' holds a node, and `socket' a connection, when the code uses them.
LocalsSet ==
  \A t \in TaskIds :
    /\ pc[t] = "routed" => choice[t] \in Nodes
    /\ pc[t] \in {"sending", "dropping"} => socket[t] \in Conns

Typed == TypeOK /\ LocalsSet /\ GoodTable(tasks)

USE DEF TrackerTypeOK, ConnectionsTypeOK, Table

(***************************************************************************)
(* What a step does to the table.                                          *)
(***************************************************************************)
LEMMA SameTable ==
  ASSUME Typed, UNCHANGED tasks
  PROVE  tasks' \in Table /\ GoodTable(tasks') /\ Continues(tasks', tasks)
BY DEF Typed, TypeOK, GoodTable, Continues

LEMMA SessionTableStep ==
  ASSUME Typed, SessionNext
  PROVE  tasks' \in Table /\ GoodTable(tasks') /\ Continues(tasks', tasks)
<1>1. tasks \in Table /\ GoodTable(tasks)
  BY DEF Typed, TypeOK
<1>2. \A c \in Conns :
        LET new == ConnectionFailed(tasks, c) IN
        new \in Table /\ GoodTable(new) /\ Continues(new, tasks)
  BY <1>1, ConnectionFailedTable
<1>3. ASSUME NEW c \in Conns, Attach(c) \/ HandlerDropFails(c)
      PROVE  UNCHANGED tasks
  BY <1>3 DEF Attach, HandlerDropFails
<1>4. ASSUME NEW c \in Conns, Registered(c)
      PROVE  UNCHANGED tasks \/ \E p \in Conns : tasks' = ConnectionFailed(tasks, p)
  BY <1>4 DEF Registered, Typed, TypeOK
<1>5. ASSUME NEW c \in Conns, HandlerExits(c) \/ HandlerDropped(c)
      PROVE  UNCHANGED tasks \/ \E p \in Conns : tasks' = ConnectionFailed(tasks, p)
  BY <1>5 DEF HandlerExits, HandlerDropped
<1>6. ASSUME NEW c \in Conns, NEW t \in TaskIds, NEW size \in Sizes,
             ReceiveChunk(c, t, size)
      PROVE  tasks' \in Table /\ GoodTable(tasks') /\ Continues(tasks', tasks)
  <2>1. size \in Nat /\ Accepts(tasks, t, c) /\ tasks' = ChunkAdded(tasks, t, c, size)
    BY <1>6, RequestAssumption DEF ReceiveChunk
  <2> QED
    BY <1>1, <2>1, ChunkAddedTable
<1>7. ASSUME NEW c \in Conns, NEW t \in TaskIds, NEW size \in Sizes,
             NEW ok \in BOOLEAN, ReceiveResult(c, t, size, ok)
      PROVE  tasks' \in Table /\ GoodTable(tasks') /\ Continues(tasks', tasks)
  <2>1. size \in Nat /\ Accepts(tasks, t, c) /\ tasks' = Resolved(tasks, t, c, size, ok)
    BY <1>7, RequestAssumption DEF ReceiveResult
  <2> QED
    BY <1>1, <2>1, ResolvedTable
<1> QED
  BY <1>2, <1>3, <1>4, <1>5, <1>6, <1>7, SameTable DEF SessionNext

LEMMA RequestTableStep ==
  ASSUME Typed, NEW t \in TaskIds,
         \/ \E n \in Nodes : Route(t, n)
         \/ NoNodeAvailable(t) \/ NodeIsGone(t) \/ SendSucceeds(t) \/ SendFails(t)
         \/ SendDropped(t) \/ DispatchRaises(t) \/ StartStream(t) \/ TakeChunk(t)
         \/ TakeAnswer(t) \/ TimesOut(t) \/ Answer(t) \/ RecordingRaises(t)
         \/ ClientLeaves(t) \/ StreamAbandoned(t)
  PROVE  tasks' \in Table /\ GoodTable(tasks') /\ Continues(tasks', tasks)
<1> DEFINE Done == tasks' \in Table /\ GoodTable(tasks') /\ Continues(tasks', tasks)
<1>1. tasks \in Table /\ GoodTable(tasks)
  BY DEF Typed, TypeOK
<1>2. ASSUME UNCHANGED tasks PROVE Done
  BY <1>2, SameTable
<1>3. ASSUME tasks' = Popped(tasks, t) PROVE Done
  BY <1>1, <1>3, PoppedTable
<1>4. ASSUME NEW c \in Conns, tasks' = ConnectionFailed(tasks, c) PROVE Done
  BY <1>1, <1>4, ConnectionFailedTable
<1>5. ASSUME NEW c \in Conns, tasks' = ConnectionFailed(Popped(tasks, t), c) PROVE Done
  <2> DEFINE popped == Popped(tasks, t)
  <2>1. popped \in Table /\ GoodTable(popped) /\ Continues(popped, tasks)
    BY <1>1, PoppedTable
  <2> HIDE DEF popped
  <2>2. tasks' \in Table /\ GoodTable(tasks') /\ Continues(tasks', popped)
    BY <1>5, <2>1, ConnectionFailedTable DEF popped
  <2> QED
    BY <2>1, <2>2 DEF Continues
<1>6. ASSUME HasEvent(t), tasks' = [tasks EXCEPT ![t].events = Tail(@)] PROVE Done
  BY <1>1, <1>6, TakenTable DEF HasEvent, Tracked
<1> HIDE DEF Done
<1>7. CASE (\E n \in Nodes : Route(t, n)) \/ NoNodeAvailable(t) \/ NodeIsGone(t)
           \/ SendSucceeds(t) \/ DispatchRaises(t) \/ StartStream(t) \/ TimesOut(t)
  <2>1. UNCHANGED tasks
    BY <1>7 DEF Route, NoNodeAvailable, NodeIsGone, SendSucceeds, DispatchRaises,
                StartStream, TimesOut
  <2> QED
    BY <1>2, <2>1 DEF Done
<1>8. CASE SendFails(t)
  <2>1. socket[t] \in Conns
    BY <1>8 DEF SendFails, Typed, LocalsSet
  <2>2. \/ tasks' = Popped(tasks, t)
        \/ tasks' = ConnectionFailed(Popped(tasks, t), socket[t])
    BY <1>8 DEF SendFails
  <2> QED
    BY <1>3, <1>5, <2>1, <2>2 DEF Done
<1>9. CASE SendDropped(t)
  <2>1. socket[t] \in Conns /\ tasks' = ConnectionFailed(tasks, socket[t])
    BY <1>9 DEF SendDropped, Typed, LocalsSet
  <2> QED
    BY <1>4, <2>1 DEF Done
<1>10. CASE TakeChunk(t) \/ TakeAnswer(t)
  <2>1. /\ HasEvent(t)
        /\ \/ tasks' = Popped(tasks, t)
           \/ tasks' = [tasks EXCEPT ![t].events = Tail(@)]
    BY <1>10 DEF TakeChunk, TakeAnswer
  <2> QED
    BY <1>3, <1>6, <2>1 DEF Done
<1>11. CASE Answer(t) \/ RecordingRaises(t) \/ ClientLeaves(t) \/ StreamAbandoned(t)
  <2>1. UNCHANGED tasks \/ tasks' = Popped(tasks, t)
    BY <1>11 DEF Answer, RecordingRaises, ClientLeaves, StreamAbandoned
  <2> QED
    BY <1>2, <1>3, <2>1 DEF Done
<1> QED
  BY <1>7, <1>8, <1>9, <1>10, <1>11 DEF Done

\* Assign is the one action that tracks a task.
LEMMA AssignTableStep ==
  ASSUME Typed, NEW t \in TaskIds, Assign(t)
  PROVE  /\ tasks' \in Table
         /\ GoodTable(tasks')
         /\ choice[t] \in Nodes /\ connections[choice[t]] \in Conns
         /\ tasks'[t].connection = connections[choice[t]]
         /\ \A u \in TaskIds \ {t} : tasks'[u] # NoTask => tasks'[u] = tasks[u]
<1>1. tasks \in Table /\ GoodTable(tasks)
  BY DEF Typed, TypeOK
<1>2. choice[t] \in Nodes /\ connections[choice[t]] \in Conns
  BY DEF Assign, IsOnline, Typed, LocalsSet, TypeOK
<1>3. PICK expired \in SUBSET Expired :
        tasks' = Created(tasks, t, connections[choice[t]], expired)
  BY DEF Assign
<1> QED
  BY <1>1, <1>2, <1>3, CreatedTable

(***************************************************************************)
(* Types.                                                                  *)
(***************************************************************************)
LEMMA TypedInit == Init => Typed
<1> SUFFICES ASSUME Init PROVE Typed
  OBVIOUS
<1>1. TypeOK
  BY DEF Init, TypeOK, HandlerStates, RequestStates, Verdicts
<1>2. LocalsSet
  BY DEF Init, LocalsSet
<1>3. GoodTable(tasks)
  BY DEF Init, GoodTable
<1> QED
  BY <1>1, <1>2, <1>3 DEF Typed

LEMMA TypedSessionStep ==
  ASSUME Typed, SessionNext
  PROVE  Typed'
<1>1. tasks' \in Table /\ GoodTable(tasks')
  BY SessionTableStep
<1>2. TypeOK /\ LocalsSet
  BY DEF Typed
<1>3. UNCHANGED requestVars
  BY DEF SessionNext, Attach, Registered, ReceiveChunk, ReceiveResult, HandlerExits,
         HandlerDropped, HandlerDropFails
<1>4. /\ connections' \in [Nodes -> Conns \cup {NoConn}]
      /\ handler' \in [Conns -> HandlerStates]
      /\ previous' \in [Conns -> Conns \cup {NoConn}]
  <2>1. ASSUME NEW c \in Conns, Attach(c) PROVE <1>4
    BY <1>2, <2>1, NodeOfAssumption DEF Attach, Attached, TypeOK, HandlerStates
  <2>2. ASSUME NEW c \in Conns, Registered(c) PROVE <1>4
    BY <1>2, <2>2 DEF Registered, TypeOK, HandlerStates
  <2>3. ASSUME NEW c \in Conns, HandlerExits(c) PROVE <1>4
    BY <1>2, <2>3 DEF HandlerExits, Detached, TypeOK, HandlerStates
  <2>4. ASSUME NEW c \in Conns, HandlerDropped(c) \/ HandlerDropFails(c) PROVE <1>4
    BY <1>2, <2>4 DEF HandlerDropped, HandlerDropFails, TypeOK, HandlerStates
  <2>5. ASSUME UNCHANGED nodeVars PROVE <1>4
    BY <1>2, <2>5 DEF nodeVars, TypeOK
  <2> QED
    BY <2>1, <2>2, <2>3, <2>4, <2>5 DEF SessionNext, ReceiveChunk, ReceiveResult
<1>5. TypeOK' /\ LocalsSet'
  BY <1>1, <1>2, <1>3, <1>4 DEF TypeOK, LocalsSet, requestVars
<1> QED
  BY <1>1, <1>5 DEF Typed

LEMMA TypedRequestStep ==
  ASSUME Typed, RequestNext
  PROVE  Typed'
<1>1. PICK t \in TaskIds :
        \/ \E n \in Nodes : Route(t, n)
        \/ NoNodeAvailable(t) \/ Assign(t) \/ NodeIsGone(t)
        \/ SendSucceeds(t) \/ SendFails(t) \/ SendDropped(t) \/ DispatchRaises(t)
        \/ StartStream(t) \/ TakeChunk(t) \/ TakeAnswer(t) \/ TimesOut(t)
        \/ Answer(t) \/ RecordingRaises(t) \/ ClientLeaves(t) \/ StreamAbandoned(t)
  BY DEF RequestNext
<1>2. TypeOK /\ LocalsSet
  BY DEF Typed
<1>3. tasks' \in Table /\ GoodTable(tasks')
  BY <1>1, RequestTableStep, AssignTableStep
<1>4. /\ connections' \in [Nodes -> Conns \cup {NoConn}]
      /\ UNCHANGED <<handler, previous>>
  <2>1. CASE SendFails(t)
    BY <1>2, <2>1 DEF SendFails, Detached, TypeOK
  <2>2. CASE UNCHANGED nodeVars
    BY <1>2, <2>2 DEF nodeVars, TypeOK
  <2> QED
    BY <1>1, <2>1, <2>2 DEF Route, NoNodeAvailable, Assign, NodeIsGone, SendSucceeds,
       SendDropped, DispatchRaises, StartStream, TakeChunk, TakeAnswer, TimesOut, Answer,
       RecordingRaises, ClientLeaves, StreamAbandoned
<1> DEFINE LocalsTyped ==
             /\ pc' \in [TaskIds -> RequestStates]
             /\ tried' \in [TaskIds -> SUBSET Nodes]
             /\ choice' \in [TaskIds -> Nodes \cup {NoNode}]
             /\ socket' \in [TaskIds -> Conns \cup {NoConn}]
             /\ verdict' \in [TaskIds -> Verdicts]
             /\ relayed' \in [TaskIds -> Nat]
             /\ LocalsSet'
<1>5. ASSUME NEW n \in Nodes, Route(t, n) PROVE LocalsTyped
  BY <1>2, <1>5 DEF Route, GoTo, TypeOK, RequestStates, LocalsSet
<1>6. ASSUME NoNodeAvailable(t) \/ NodeIsGone(t) PROVE LocalsTyped
  BY <1>2, <1>6 DEF NoNodeAvailable, NodeIsGone, GoTo, TypeOK, RequestStates, Verdicts,
                    LocalsSet
<1>7. ASSUME Assign(t) PROVE LocalsTyped
  BY <1>2, <1>7, AssignTableStep DEF Assign, GoTo, TypeOK, RequestStates, LocalsSet
<1>8. ASSUME SendSucceeds(t) \/ StartStream(t) PROVE LocalsTyped
  BY <1>2, <1>8 DEF SendSucceeds, StartStream, GoTo, TypeOK, RequestStates, LocalsSet
<1>9. ASSUME SendFails(t) PROVE LocalsTyped
  BY <1>2, <1>9 DEF SendFails, GoTo, TypeOK, RequestStates, LocalsSet
<1>10. ASSUME SendDropped(t) PROVE LocalsTyped
  BY <1>2, <1>10 DEF SendDropped, GoTo, TypeOK, RequestStates, LocalsSet
<1>11. ASSUME DispatchRaises(t) \/ TimesOut(t) \/ Answer(t) \/ RecordingRaises(t)
             \/ ClientLeaves(t) \/ StreamAbandoned(t)
      PROVE  LocalsTyped
  BY <1>2, <1>11 DEF DispatchRaises, TimesOut, Answer, RecordingRaises, ClientLeaves,
                     StreamAbandoned, GoTo, TypeOK, RequestStates, Verdicts, LocalsSet
<1>12. ASSUME TakeAnswer(t) PROVE LocalsTyped
  BY <1>2, <1>12 DEF TakeAnswer, GoTo, TypeOK, RequestStates, Verdicts, LocalsSet
<1>13. ASSUME TakeChunk(t) PROVE LocalsTyped
  <2>1. NextEvent(t).size \in Nat
    <3>1. tasks[t] \in PendingTask /\ tasks[t].events # <<>>
      BY <1>2, <1>13 DEF TakeChunk, HasEvent, Tracked, TypeOK
    <3>2. tasks[t].events \in Seq(Event)
      BY <3>1 DEF PendingTask
    <3>3. Head(tasks[t].events) \in Event
      BY <3>1, <3>2
    <3> QED
      BY <3>3 DEF NextEvent, Event
  <2> QED
    BY <1>2, <1>13, <2>1 DEF TakeChunk, GoTo, TypeOK, LocalsSet
<1>14. LocalsTyped
  BY <1>1, <1>5, <1>6, <1>7, <1>8, <1>9, <1>10, <1>11, <1>12, <1>13
<1>15. TypeOK'
  BY <1>2, <1>3, <1>4, <1>14 DEF TypeOK
<1> QED
  BY <1>3, <1>14, <1>15 DEF Typed

LEMMA TypedStep == Typed /\ [Next]_vars => Typed'
<1> SUFFICES ASSUME Typed, [Next]_vars PROVE Typed'
  OBVIOUS
<1>1. CASE SessionNext
  BY <1>1, TypedSessionStep
<1>2. CASE RequestNext
  BY <1>2, TypedRequestStep
<1>3. CASE UNCHANGED vars
  BY <1>3 DEF vars, nodeVars, requestVars, Typed, TypeOK, LocalsSet, GoodTable
<1> QED
  BY <1>1, <1>2, <1>3 DEF Next

LEMMA AlwaysTyped == Spec => []Typed
<1> QED
  BY TypedInit, TypedStep, PTL DEF Spec

\* Every variable keeps its type, whatever the nodes, the clients and Redis do.
THEOREM TypeCorrect == Spec => []TypeOK
<1>1. Typed => TypeOK
  BY DEF Typed
<1> QED
  BY <1>1, AlwaysTyped, PTL

(***************************************************************************)
(* Who answers, and how often.                                             *)
(***************************************************************************)
\* Only the connection a task was sent on can have queued anything for it,
\* however chunks, results, disconnections and replacements interleave.
THEOREM OnlyOwnerAnswers == Spec => []OnlyAssignedConnectionAnswers
<1>1. Typed => OnlyAssignedConnectionAnswers
  BY DEF Typed, GoodTable, GoodTask, AnsweredByOwner, OnlyAssignedConnectionAnswers, Tracked
<1> QED
  BY <1>1, AlwaysTyped, PTL

\* A task gets at most one final event, and nothing is queued behind it.
THEOREM OneFinalEvent == Spec => []FinalEventIsLast
<1>1. Typed => FinalEventIsLast
  BY DEF Typed, GoodTable, GoodTask, FinalLast, FinalEventIsLast, Tracked
<1> QED
  BY <1>1, AlwaysTyped, PTL

(***************************************************************************)
(* Somebody is left to finish every task.                                  *)
(***************************************************************************)
LEMMA SessionsUpStep ==
  ASSUME Typed, LiveSessionsAreUp, [Next]_vars
  PROVE  LiveSessionsAreUp'
<1> USE DEF LiveSessionsAreUp, IsOnline
<1>1. TypeOK
  BY DEF Typed
<1>2. ASSUME NEW c \in Conns, Attach(c) PROVE LiveSessionsAreUp'
  BY <1>1, <1>2, NodeOfAssumption, NoConnAssumption DEF Attach, Attached, TypeOK
<1>3. ASSUME NEW c \in Conns, Registered(c) PROVE LiveSessionsAreUp'
  BY <1>1, <1>3 DEF Registered, TypeOK
<1>4. ASSUME NEW c \in Conns, HandlerExits(c) PROVE LiveSessionsAreUp'
  BY <1>1, <1>4, NodeOfAssumption DEF HandlerExits, Detached, IsLive, TypeOK
<1>5. ASSUME NEW c \in Conns, HandlerDropped(c) \/ HandlerDropFails(c)
      PROVE  LiveSessionsAreUp'
  BY <1>1, <1>5 DEF HandlerDropped, HandlerDropFails, TypeOK
<1>6. ASSUME NEW t \in TaskIds, SendFails(t) PROVE LiveSessionsAreUp'
  BY <1>1, <1>6, NodeOfAssumption DEF SendFails, Detached, IsLive, TypeOK, Typed, LocalsSet
<1>7. ASSUME UNCHANGED <<connections, handler>> PROVE LiveSessionsAreUp'
  BY <1>7
<1>8. ASSUME RequestNext, \A t \in TaskIds : ~SendFails(t)
      PROVE  UNCHANGED <<connections, handler>>
  BY <1>8 DEF RequestNext, nodeVars, Route, NoNodeAvailable, Assign, NodeIsGone,
     SendSucceeds, SendDropped, DispatchRaises, StartStream, TakeChunk, TakeAnswer,
     TimesOut, Answer, RecordingRaises, ClientLeaves, StreamAbandoned
<1> QED
  BY <1>2, <1>3, <1>4, <1>5, <1>6, <1>7, <1>8
     DEF Next, SessionNext, ReceiveChunk, ReceiveResult, nodeVars, vars

\* The connection the coordinator holds for a node has a handler that is
\* still receiving from it.
THEOREM SessionsUp == Spec => []LiveSessionsAreUp
<1>1. Init => LiveSessionsAreUp
  BY DEF Init, LiveSessionsAreUp, IsOnline
<1>2. Typed /\ LiveSessionsAreUp /\ [Next]_vars => LiveSessionsAreUp'
  BY SessionsUpStep
<1> QED
  BY <1>1, <1>2, AlwaysTyped, PTL DEF Spec

LEMMA NoOrphanStep ==
  ASSUME ~RedisMayFail, Typed, LiveSessionsAreUp, NoOrphanedTask, [Next]_vars
  PROVE  NoOrphanedTask'
<1>1. TypeOK /\ tasks \in Table /\ GoodTable(tasks)
  BY DEF Typed, TypeOK
<1>2. ASSUME Continues(tasks', tasks), \A c \in Conns : handler'[c] = "closed" => handler[c] = "closed"
      PROVE  NoOrphanedTask'
  <2>1. \A t \in TaskIds : tasks[t] # NoTask => tasks[t].connection \in Conns
    BY <1>1, TrackedIsTask DEF PendingTask
  <2> QED
    BY <1>2, <2>1 DEF NoOrphanedTask, Tracked, Continues
<1>3. ASSUME NEW c \in Conns, HandlerExits(c) \/ HandlerDropped(c) PROVE NoOrphanedTask'
  <2>1. /\ Continues(tasks', tasks)
        /\ \A d \in Conns \ {c} : handler'[d] = handler[d]
    BY <1>1, <1>3, SessionTableStep DEF HandlerExits, HandlerDropped, SessionNext, TypeOK
  <2>2. CASE handler'[c] = "closed"
    <3>1. tasks' = ConnectionFailed(tasks, c)
      BY <1>1, <1>3, <2>2 DEF HandlerExits, HandlerDropped, TypeOK
    <3>2. \A t \in TaskIds :
            tasks'[t] # NoTask /\ ~tasks'[t].finished => tasks'[t].connection # c
      BY <1>1, <3>1, ConnectionFailedTable
    <3>3. \A t \in TaskIds : tasks[t] # NoTask => tasks[t].connection \in Conns
      BY <1>1, TrackedIsTask DEF PendingTask
    <3> QED
      BY <2>1, <3>2, <3>3 DEF NoOrphanedTask, Tracked, Continues
  <2>3. CASE handler'[c] # "closed"
    BY <1>2, <2>1, <2>3
  <2> QED
    BY <2>2, <2>3
<1>4. ASSUME SessionNext, \A c \in Conns : ~HandlerExits(c) /\ ~HandlerDropped(c)
      PROVE  NoOrphanedTask'
  <2>1. \A c \in Conns : handler'[c] = "closed" => handler[c] = "closed"
    BY <1>1, <1>4 DEF SessionNext, Attach, Registered, ReceiveChunk, ReceiveResult,
       HandlerDropFails, nodeVars, TypeOK
  <2> QED
    BY <1>2, <1>4, <2>1, SessionTableStep
<1>5. ASSUME NEW t \in TaskIds, Assign(t) PROVE NoOrphanedTask'
  <2>1. handler' = handler
    BY <1>5 DEF Assign, nodeVars
  <2>2. handler[connections[choice[t]]] # "closed"
    BY <1>5, AssignTableStep DEF Assign, LiveSessionsAreUp
  <2> QED
    BY <1>5, <2>1, <2>2, AssignTableStep DEF NoOrphanedTask, Tracked
<1>6. ASSUME RequestNext, \A t \in TaskIds : ~Assign(t) PROVE NoOrphanedTask'
  <2>1. PICK t \in TaskIds :
        \/ \E n \in Nodes : Route(t, n)
        \/ NoNodeAvailable(t) \/ NodeIsGone(t) \/ SendSucceeds(t) \/ SendFails(t)
        \/ SendDropped(t) \/ DispatchRaises(t) \/ StartStream(t) \/ TakeChunk(t)
        \/ TakeAnswer(t) \/ TimesOut(t) \/ Answer(t) \/ RecordingRaises(t)
        \/ ClientLeaves(t) \/ StreamAbandoned(t)
    BY <1>6 DEF RequestNext
  <2>2. handler' = handler
    BY <2>1 DEF nodeVars, Route, NoNodeAvailable, NodeIsGone, SendSucceeds, SendFails,
       SendDropped, DispatchRaises, StartStream, TakeChunk, TakeAnswer, TimesOut, Answer,
       RecordingRaises, ClientLeaves, StreamAbandoned
  <2> QED
    BY <1>2, <2>1, <2>2, RequestTableStep
<1>7. CASE UNCHANGED vars
  BY <1>7 DEF vars, nodeVars, NoOrphanedTask, Tracked
<1> QED
  BY <1>3, <1>4, <1>5, <1>6, <1>7 DEF Next

\* While Redis answers, no unfinished task is left to its timeout: the session
\* it was sent on has yet to close, and closing it finishes the task.
THEOREM NobodyIsOrphaned ==
  ASSUME ~RedisMayFail
  PROVE  Spec => []NoOrphanedTask
<1>1. Init => NoOrphanedTask
  BY DEF Init, NoOrphanedTask, Tracked
<1>2. Typed /\ LiveSessionsAreUp /\ NoOrphanedTask /\ [Next]_vars => NoOrphanedTask'
  BY NoOrphanStep
<1> QED
  BY <1>1, <1>2, AlwaysTyped, SessionsUp, PTL DEF Spec

(***************************************************************************)
(* The table holds what is being served.                                   *)
(***************************************************************************)
LEMMA TrackedStep ==
  ASSUME Typed, TrackedWhileServed, [Next]_vars
  PROVE  TrackedWhileServed'
<1> USE DEF TrackedWhileServed, Tracked
<1>1. TypeOK /\ tasks \in Table /\ GoodTable(tasks)
  BY DEF Typed, TypeOK
<1>2. CASE SessionNext
  <2>1. UNCHANGED pc
    BY <1>2 DEF SessionNext, Attach, Registered, ReceiveChunk, ReceiveResult,
       HandlerExits, HandlerDropped, HandlerDropFails, requestVars
  <2> QED
    BY <1>2, <2>1, SessionTableStep DEF Continues
<1>3. ASSUME NEW t \in TaskIds, Assign(t) PROVE TrackedWhileServed'
  BY <1>1, <1>3, AssignTableStep DEF Assign, GoTo, TypeOK
<1>4. ASSUME NEW t \in TaskIds,
             \/ \E n \in Nodes : Route(t, n)
             \/ NoNodeAvailable(t) \/ NodeIsGone(t) \/ SendSucceeds(t) \/ SendFails(t)
             \/ SendDropped(t) \/ DispatchRaises(t) \/ StartStream(t) \/ TakeChunk(t)
             \/ TakeAnswer(t) \/ TimesOut(t) \/ Answer(t) \/ RecordingRaises(t)
             \/ ClientLeaves(t) \/ StreamAbandoned(t)
      PROVE  TrackedWhileServed'
  <2>1. \A u \in TaskIds : tasks'[u] # NoTask => tasks[u] # NoTask
    BY <1>4, RequestTableStep DEF Continues
  <2>2. \A u \in TaskIds \ {t} : pc'[u] = pc[u]
    BY <1>1, <1>4 DEF Route, NoNodeAvailable, NodeIsGone, SendSucceeds, SendFails,
       SendDropped, DispatchRaises, StartStream, TakeChunk, TakeAnswer, TimesOut, Answer,
       RecordingRaises, ClientLeaves, StreamAbandoned, GoTo, TypeOK
  <2> DEFINE Served ==
               pc'[t] \in {"sending", "unstarted", "waiting", "recording", "abandoned"}
  <2>3. SUFFICES tasks'[t] # NoTask => Served
    BY <2>1, <2>2
  <2>4. ASSUME (\E n \in Nodes : Route(t, n)) \/ NoNodeAvailable(t) \/ NodeIsGone(t)
               \/ SendDropped(t) \/ DispatchRaises(t)
        PROVE  tasks'[t] = NoTask
    <3>1. pc[t] \in {"routing", "routed", "dropping"}
      BY <2>4 DEF Route, NoNodeAvailable, NodeIsGone, SendDropped, DispatchRaises
    <3> QED
      BY <2>1, <3>1
  <2>5. ASSUME SendFails(t) PROVE tasks'[t] = NoTask
    <3>1. socket[t] \in Conns
      BY <2>5 DEF SendFails, Typed, LocalsSet
    <3>2. Popped(tasks, t) \in Table /\ GoodTable(Popped(tasks, t)) /\ Popped(tasks, t)[t] = NoTask
      BY <1>1, PoppedTable
    <3>3. Continues(ConnectionFailed(Popped(tasks, t), socket[t]), Popped(tasks, t))
      BY <3>1, <3>2, ConnectionFailedTable
    <3> QED
      BY <2>5, <3>2, <3>3 DEF SendFails, Continues
  <2>6. ASSUME SendSucceeds(t) \/ StartStream(t) \/ TakeAnswer(t) \/ TimesOut(t)
               \/ StreamAbandoned(t)
        PROVE  Served
    BY <1>1, <2>6 DEF SendSucceeds, StartStream, TakeAnswer, TimesOut, StreamAbandoned,
       GoTo, TypeOK
  <2>7. ASSUME TakeChunk(t) PROVE Served
    BY <1>1, <2>7 DEF TakeChunk, HasEvent
  <2>8. ASSUME Answer(t) \/ RecordingRaises(t) \/ ClientLeaves(t) PROVE tasks'[t] = NoTask
    BY <1>1, <2>8, PoppedTable DEF Answer, RecordingRaises, ClientLeaves
  <2> QED
    BY <1>4, <2>4, <2>5, <2>6, <2>7, <2>8
<1>5. CASE UNCHANGED vars
  BY <1>5 DEF vars, requestVars
<1> QED
  BY <1>2, <1>3, <1>4, <1>5 DEF Next, RequestNext

\* The table holds nothing but requests being served and streams that were
\* abandoned before their response started, even when Redis fails: neither a
\* failed attempt, nor an answer, nor a client that leaves a stream it was
\* being sent ever leaves an entry behind.
THEOREM OnlyServedAreTracked == Spec => []TrackedWhileServed
<1>1. Init => TrackedWhileServed
  BY DEF Init, TrackedWhileServed, Tracked
<1>2. Typed /\ TrackedWhileServed /\ [Next]_vars => TrackedWhileServed'
  BY TrackedStep
<1> QED
  BY <1>1, <1>2, AlwaysTyped, PTL DEF Spec

(***************************************************************************)
(* What a stream has been sent, and the promise to the client.             *)
(*                                                                         *)
(* Neither StreamIsComplete nor the refinement is inductive: both depend   *)
(* on what is still queued.  WellServed says of one request who serves it, *)
(* that the client of a stream has nothing before its response starts,     *)
(* and that what it has been sent and what is queued for it add up to what *)
(* the node streamed.                                                      *)
(***************************************************************************)
Unsent == {"routing", "routed", "sending", "dropping", "unstarted"}

ServedByOne(t) ==
  /\ pc[t] \in {"routing", "routed"} => socket[t] = NoConn
  /\ pc[t] \in {"sending", "dropping", "unstarted", "waiting", "recording"}
       => socket[t] \in Conns

NothingSentYet(t) == t \notin Streams \/ pc[t] \in Unsent => relayed[t] = 0

VerdictGiven(t) == pc[t] = "recording" => verdict[t] \in Promise!FromNode

QueueAccounted(t) ==
  t \in Streams /\ Tracked(t) /\ pc[t] \in {"sending", "unstarted", "waiting"}
    => Accounted(tasks[t], relayed[t], Sizes)

EndAccounted(t) ==
  /\ t \in Streams /\ Tracked(t)
  /\ pc[t] = "recording" /\ verdict[t] \in {"completed", "failed"}
  => tasks[t].finished /\ relayed[t] = tasks[t].streamed

WellServed(t) ==
  /\ ServedByOne(t)
  /\ NothingSentYet(t)
  /\ VerdictGiven(t)
  /\ QueueAccounted(t)
  /\ EndAccounted(t)

AllWellServed == \A t \in TaskIds : WellServed(t)

LEMMA SessionAdvances ==
  ASSUME Typed, SessionNext
  PROVE  UNCHANGED tasks \/ Advances(tasks', tasks, Sizes)
<1>1. tasks \in Table /\ GoodTable(tasks)
  BY DEF Typed, TypeOK
<1>2. \A c \in Conns : Advances(ConnectionFailed(tasks, c), tasks, Sizes)
  BY <1>1, ConnectionFailedAdvances
<1>3. ASSUME NEW c \in Conns,
             \/ Attach(c) \/ Registered(c)
             \/ HandlerExits(c) \/ HandlerDropped(c) \/ HandlerDropFails(c)
      PROVE  UNCHANGED tasks \/ \E p \in Conns : tasks' = ConnectionFailed(tasks, p)
  BY <1>3 DEF Attach, Registered, HandlerExits, HandlerDropped, HandlerDropFails, Typed,
              TypeOK
<1>4. ASSUME NEW c \in Conns, NEW t \in TaskIds, NEW size \in Sizes,
             ReceiveChunk(c, t, size)
      PROVE  Advances(tasks', tasks, Sizes)
  <2>1. size \in Nat /\ Accepts(tasks, t, c) /\ tasks' = ChunkAdded(tasks, t, c, size)
    BY <1>4, RequestAssumption DEF ReceiveChunk
  <2> QED
    BY <1>1, <2>1, ChunkAddedAdvances
<1>5. ASSUME NEW c \in Conns, NEW t \in TaskIds, NEW size \in Sizes,
             NEW ok \in BOOLEAN, ReceiveResult(c, t, size, ok)
      PROVE  Advances(tasks', tasks, Sizes)
  <2>1. size \in Nat /\ Accepts(tasks, t, c) /\ tasks' = Resolved(tasks, t, c, size, ok)
    BY <1>5, RequestAssumption DEF ReceiveResult
  <2> QED
    BY <1>1, <2>1, ResolvedAdvances
<1> QED
  BY <1>2, <1>3, <1>4, <1>5 DEF SessionNext

\* A request whose own locals a step leaves alone.
LEMMA BystanderWellServed ==
  ASSUME Typed, NEW u \in TaskIds, WellServed(u),
         pc'[u] = pc[u], socket'[u] = socket[u], verdict'[u] = verdict[u],
         relayed'[u] = relayed[u],
         \/ tasks'[u] \in {tasks[u], NoTask}
         \/ Continues(tasks', tasks) /\ Advances(tasks', tasks, Sizes)
  PROVE  WellServed(u)'
<1>1. relayed[u] \in Nat
  BY DEF Typed, TypeOK
<1>2. tasks'[u] # NoTask =>
        /\ tasks[u] # NoTask
        /\ tasks[u].finished => tasks'[u] = tasks[u]
        /\ Accounted(tasks[u], relayed[u], Sizes) => Accounted(tasks'[u], relayed[u], Sizes)
  BY <1>1 DEF Continues, Advances
<1>3. ServedByOne(u)' /\ NothingSentYet(u)' /\ VerdictGiven(u)'
  BY DEF WellServed, ServedByOne, NothingSentYet, VerdictGiven
<1>4. QueueAccounted(u)'
  BY <1>2 DEF WellServed, QueueAccounted, Tracked
<1>5. EndAccounted(u)'
  BY <1>2 DEF WellServed, EndAccounted, Tracked
<1> QED
  BY <1>3, <1>4, <1>5 DEF WellServed

\* The other requests, in a step of one.
LEMMA OthersWellServed ==
  ASSUME Typed, AllWellServed, NEW t \in TaskIds, NEW u \in TaskIds \ {t},
         \/ \E n \in Nodes : Route(t, n)
         \/ NoNodeAvailable(t) \/ Assign(t) \/ NodeIsGone(t)
         \/ SendSucceeds(t) \/ SendFails(t) \/ SendDropped(t) \/ DispatchRaises(t)
         \/ StartStream(t) \/ TakeChunk(t) \/ TakeAnswer(t) \/ TimesOut(t)
         \/ Answer(t) \/ RecordingRaises(t) \/ ClientLeaves(t) \/ StreamAbandoned(t)
  PROVE  WellServed(u)'
<1>1. TypeOK /\ tasks \in Table /\ GoodTable(tasks) /\ WellServed(u)
  BY DEF Typed, TypeOK, AllWellServed
<1>2. /\ pc'[u] = pc[u] /\ socket'[u] = socket[u]
      /\ verdict'[u] = verdict[u] /\ relayed'[u] = relayed[u]
  BY <1>1 DEF Route, NoNodeAvailable, Assign, NodeIsGone, SendSucceeds, SendFails,
     SendDropped, DispatchRaises, StartStream, TakeChunk, TakeAnswer, TimesOut, Answer,
     RecordingRaises, ClientLeaves, StreamAbandoned, GoTo, TypeOK
<1>3. Popped(tasks, t)[u] = tasks[u]
  BY DEF Popped, Typed, TypeOK
<1>4. CASE Assign(t)
  <2>1. tasks'[u] \in {tasks[u], NoTask}
    BY <1>4, AssignTableStep
  <2> QED
    BY <1>1, <1>2, <2>1, BystanderWellServed
<1>5. CASE SendDropped(t)
  <2>1. socket[t] \in Conns /\ tasks' = ConnectionFailed(tasks, socket[t])
    BY <1>5 DEF SendDropped, Typed, LocalsSet
  <2>2. Continues(tasks', tasks) /\ Advances(tasks', tasks, Sizes)
    BY <1>1, <2>1, ConnectionFailedTable, ConnectionFailedAdvances
  <2> QED
    BY <1>1, <1>2, <2>2, BystanderWellServed
<1>6. CASE SendFails(t)
  <2>1. socket[t] \in Conns
    BY <1>6 DEF SendFails, Typed, LocalsSet
  <2>2. CASE tasks' = Popped(tasks, t)
    BY <1>1, <1>2, <1>3, <2>2, BystanderWellServed
  <2>3. CASE tasks' = ConnectionFailed(Popped(tasks, t), socket[t])
    <3> DEFINE popped == Popped(tasks, t)
    <3>1. popped \in Table /\ GoodTable(popped) /\ Continues(popped, tasks)
      BY <1>1, PoppedTable
    <3>2. Advances(popped, tasks, Sizes)
      BY <1>1, PoppedAdvances
    <3> HIDE DEF popped
    <3>3. Continues(tasks', popped) /\ Advances(tasks', popped, Sizes)
      BY <2>1, <2>3, <3>1, ConnectionFailedTable, ConnectionFailedAdvances DEF popped
    <3>4. Continues(tasks', tasks)
      BY <3>1, <3>3 DEF Continues
    <3>5. Advances(tasks', tasks, Sizes)
      BY <3>1, <3>2, <3>3 DEF Continues, Advances
    <3> QED
      BY <1>1, <1>2, <3>4, <3>5, BystanderWellServed
  <2> QED
    BY <1>6, <2>2, <2>3 DEF SendFails
<1>7. ASSUME ~Assign(t), ~SendDropped(t), ~SendFails(t)
      PROVE  tasks'[u] = tasks[u]
  BY <1>1, <1>3, <1>7 DEF Route, NoNodeAvailable, NodeIsGone, SendSucceeds,
     DispatchRaises, StartStream, TakeChunk, TakeAnswer, TimesOut, Answer,
     RecordingRaises, ClientLeaves, StreamAbandoned, Table
<1> QED
  BY <1>1, <1>2, <1>4, <1>5, <1>6, <1>7, BystanderWellServed

\* The head of the queue, for the handler that takes it.
LEMMA HeadOfQueue ==
  ASSUME Typed, NEW t \in TaskIds, HasEvent(t)
  PROVE  /\ tasks[t] \in PendingTask /\ GoodTask(tasks[t])
         /\ tasks[t].events \in Seq(Event)
         /\ NextEvent(t) \in Event
         /\ LET task == [tasks[t] EXCEPT !.events = Tail(tasks[t].events)] IN
            /\ task \in PendingTask
            /\ task.events = Tail(tasks[t].events)
            /\ task.streamed = tasks[t].streamed
            /\ task.finished = tasks[t].finished
            /\ [tasks EXCEPT ![t].events = Tail(@)][t] = task
<1> DEFINE old == tasks[t]
           task == [old EXCEPT !.events = Tail(old.events)]
<1>1. old \in PendingTask /\ GoodTask(old) /\ old.events # <<>>
  BY TrackedIsTask DEF HasEvent, Tracked, Typed, TypeOK, GoodTable
<1>2. [tasks EXCEPT ![t].events = Tail(@)][t] = task
  BY DEF Typed, TypeOK
<1> HIDE DEF old
<1>3. old.events \in Seq(Event)
  BY <1>1 DEF PendingTask
<1>4. Head(old.events) \in Event /\ Tail(old.events) \in Seq(Event)
  BY <1>1, <1>3
<1>5. /\ task \in PendingTask
      /\ task.events = Tail(old.events)
      /\ task.streamed = old.streamed
      /\ task.finished = old.finished
  BY <1>1, <1>4 DEF PendingTask
<1> QED
  BY <1>1, <1>2, <1>3, <1>4, <1>5 DEF old, NextEvent

LEMMA TakeChunkWellServed ==
  ASSUME Typed, NEW t \in TaskIds, WellServed(t), TakeChunk(t)
  PROVE  /\ WellServed(t)'
         /\ t \in Streams => /\ NextEvent(t).size \in Sizes
                             /\ relayed[t] + NextEvent(t).size <= MaxResultBytes
<1> DEFINE size == NextEvent(t).size
           task == [tasks[t] EXCEPT !.events = Tail(tasks[t].events)]
<1>1. /\ HasEvent(t) /\ pc[t] = "waiting" /\ Tracked(t)
      /\ tasks[t].events # <<>> /\ NextEvent(t).kind = "chunk"
      /\ relayed[t] \in Nat
  BY DEF TakeChunk, HasEvent, Typed, TypeOK
<1>2. /\ pc' = pc /\ socket' = socket /\ verdict' = verdict
      /\ tasks' = [tasks EXCEPT ![t].events = Tail(@)]
      /\ relayed'[t] = IF t \in Streams THEN relayed[t] + size ELSE relayed[t]
  BY DEF TakeChunk, Typed, TypeOK
<1>3. /\ tasks[t] \in PendingTask /\ NextEvent(t) \in Event
      /\ task \in PendingTask /\ task.events = Tail(tasks[t].events)
      /\ task.streamed = tasks[t].streamed /\ tasks'[t] = task
  BY <1>1, <1>2, HeadOfQueue
<1>4. ServedByOne(t)' /\ VerdictGiven(t)' /\ EndAccounted(t)'
  BY <1>1, <1>2 DEF WellServed, ServedByOne, VerdictGiven, EndAccounted
<1>5. NothingSentYet(t)'
  BY <1>1, <1>2 DEF WellServed, NothingSentYet, Unsent
<1> HIDE DEF task
<1>6. ASSUME t \in Streams
      PROVE  /\ size \in Sizes
             /\ relayed[t] + size \in 0 .. MaxResultBytes
             /\ Accounted(task, relayed[t] + size, Sizes)
  <2>1. Accounted(tasks[t], relayed[t], Sizes)
    BY <1>1, <1>6 DEF WellServed, QueueAccounted
  <2>2. Head(tasks[t].events).kind = "chunk" /\ Head(tasks[t].events).kind # "too_large"
    BY <1>1 DEF NextEvent
  <2>3. /\ relayed[t] + Head(tasks[t].events).size \in 0 .. MaxResultBytes
        /\ SizeFits(Head(tasks[t].events), Sizes)
        /\ Accounted(task, relayed[t] + Head(tasks[t].events).size, Sizes)
    BY <1>1, <1>3, <2>1, <2>2, AccountedTail
  <2> QED
    BY <2>2, <2>3 DEF NextEvent, SizeFits
<1>7. QueueAccounted(t)'
  BY <1>2, <1>3, <1>6 DEF QueueAccounted
<1>8. t \in Streams => relayed[t] + size <= MaxResultBytes
  BY <1>6, MaxResultBytesAssumption
<1> QED
  BY <1>4, <1>5, <1>6, <1>7, <1>8 DEF WellServed

LEMMA TakeAnswerWellServed ==
  ASSUME Typed, NEW t \in TaskIds, WellServed(t), TakeAnswer(t)
  PROVE  WellServed(t)'
<1> DEFINE kind == NextEvent(t).kind
           task == [tasks[t] EXCEPT !.events = Tail(tasks[t].events)]
<1>1. /\ HasEvent(t) /\ pc[t] = "waiting" /\ Tracked(t)
      /\ tasks[t].events # <<>> /\ kind \in TerminalKinds
      /\ relayed[t] \in Nat
  BY DEF TakeAnswer, HasEvent, Typed, TypeOK
<1>2. /\ pc'[t] = "recording" /\ socket' = socket /\ verdict'[t] = kind
      /\ relayed' = relayed
  BY DEF TakeAnswer, GoTo, Typed, TypeOK
<1>3. /\ tasks[t] \in PendingTask /\ FinalLast(tasks[t])
      /\ tasks[t].events \in Seq(Event)
      /\ task \in PendingTask /\ task.events = Tail(tasks[t].events)
      /\ task.streamed = tasks[t].streamed /\ task.finished = tasks[t].finished
      /\ [tasks EXCEPT ![t].events = Tail(@)][t] = task
  BY <1>1, HeadOfQueue DEF GoodTask
<1>4. ServedByOne(t)' /\ NothingSentYet(t)'
  BY <1>1, <1>2 DEF WellServed, ServedByOne, NothingSentYet, Unsent
<1>5. VerdictGiven(t)' /\ QueueAccounted(t)'
  BY <1>1, <1>2 DEF VerdictGiven, QueueAccounted, TerminalKinds, Promise!FromNode
<1>6. ASSUME t \in Streams, kind \in {"completed", "failed"}
      PROVE  tasks'[t].finished /\ relayed[t] = tasks'[t].streamed
  <2>1. tasks'[t] = task
    BY <1>3, <1>6 DEF TakeAnswer
  <2>2. Accounted(tasks[t], relayed[t], Sizes)
    BY <1>1, <1>6 DEF WellServed, QueueAccounted
  <2> DEFINE events == tasks[t].events
  <2>3. /\ events \in Seq(Event) /\ events # <<>>
        /\ 1 \in DOMAIN events /\ Head(events) = events[1]
    BY <1>1, <1>3
  <2>4. tasks[t].finished /\ Len(events) = 1
    BY <1>1, <1>3, <2>3 DEF FinalLast, NextEvent
  <2>5. Tail(events) = <<>>
    <3> DEFINE rest == Tail(events)
    <3> HIDE DEF events
    <3>1. rest \in Seq(Event) /\ Len(rest) = 0
      BY <2>3, <2>4
    <3> HIDE DEF rest
    <3>2. rest = <<>>
      BY <3>1
    <3> QED
      BY <3>2 DEF rest
  <2>6. Head(events).kind \in {"completed", "failed"}
    BY <1>6 DEF NextEvent
  <2>7. SizeFits(Head(events), Sizes) /\ relayed[t] + Head(events).size = task.streamed
    BY <1>1, <1>3, <2>2, <2>3, <2>5, <2>6, AccountedTail
  <2>8. Head(events).size = 0
    BY <2>6, <2>7 DEF SizeFits
  <2> QED
    BY <1>1, <1>3, <2>1, <2>4, <2>7, <2>8
<1>7. EndAccounted(t)'
  BY <1>2, <1>6 DEF EndAccounted
<1> QED
  BY <1>4, <1>5, <1>7 DEF WellServed

\* The request a step is about.
LEMMA ActorWellServed ==
  ASSUME Typed, NEW t \in TaskIds, WellServed(t),
         \/ \E n \in Nodes : Route(t, n)
         \/ NoNodeAvailable(t) \/ Assign(t) \/ NodeIsGone(t)
         \/ SendSucceeds(t) \/ SendFails(t) \/ SendDropped(t) \/ DispatchRaises(t)
         \/ StartStream(t) \/ TakeChunk(t) \/ TakeAnswer(t) \/ TimesOut(t)
         \/ Answer(t) \/ RecordingRaises(t) \/ ClientLeaves(t) \/ StreamAbandoned(t)
  PROVE  WellServed(t)'
<1> USE DEF WellServed, ServedByOne, NothingSentYet, VerdictGiven, QueueAccounted,
            EndAccounted
<1>1. TypeOK /\ tasks \in Table /\ GoodTable(tasks)
  BY DEF Typed, TypeOK
<1>2. ASSUME (\E n \in Nodes : Route(t, n)) \/ NodeIsGone(t) PROVE WellServed(t)'
  BY <1>1, <1>2 DEF Route, NodeIsGone, GoTo, TypeOK, Unsent
<1>3. ASSUME SendSucceeds(t) \/ StartStream(t) PROVE WellServed(t)'
  BY <1>1, <1>3 DEF SendSucceeds, StartStream, GoTo, TypeOK, Unsent, Tracked
<1>4. ASSUME SendFails(t) PROVE WellServed(t)'
  BY <1>1, <1>4 DEF SendFails, GoTo, TypeOK, Unsent
<1>5. ASSUME SendDropped(t) PROVE WellServed(t)'
  BY <1>1, <1>5 DEF SendDropped, GoTo, TypeOK, Unsent
<1>6. ASSUME TimesOut(t) PROVE WellServed(t)'
  BY <1>1, <1>6 DEF TimesOut, GoTo, TypeOK, Unsent, Promise!FromNode
<1>7. ASSUME NoNodeAvailable(t) \/ DispatchRaises(t) \/ Answer(t) \/ RecordingRaises(t)
             \/ ClientLeaves(t) \/ StreamAbandoned(t)
      PROVE  WellServed(t)'
  BY <1>1, <1>7 DEF NoNodeAvailable, DispatchRaises, Answer, RecordingRaises, ClientLeaves,
     StreamAbandoned, GoTo, TypeOK, Unsent
<1>8. ASSUME Assign(t) PROVE WellServed(t)'
  <2>1. /\ pc[t] = "routed" /\ pc'[t] = "sending"
        /\ socket'[t] = connections[choice[t]] /\ relayed' = relayed
    BY <1>1, <1>8 DEF Assign, GoTo, TypeOK
  <2>2. connections[choice[t]] \in Conns
    BY <1>8, AssignTableStep
  <2>3. PICK expired \in SUBSET Expired :
          tasks' = Created(tasks, t, connections[choice[t]], expired)
    BY <1>8 DEF Assign
  <2>4. /\ tasks'[t] \in PendingTask
        /\ tasks'[t].events = <<>> /\ tasks'[t].streamed = 0
    BY <2>2, <2>3 DEF Created, PendingTask
  <2>5. Accounted(tasks'[t], 0, Sizes)
    BY <2>4, AccountedNew
  <2>6. relayed[t] = 0
    BY <2>1 DEF Unsent
  <2> QED
    BY <2>1, <2>2, <2>5, <2>6
<1> HIDE DEF WellServed
<1> QED
  BY <1>2, <1>3, <1>4, <1>5, <1>6, <1>7, <1>8, TakeChunkWellServed, TakeAnswerWellServed

LEMMA WellServedStep ==
  ASSUME Typed, AllWellServed, [Next]_vars
  PROVE  AllWellServed'
<1>1. CASE SessionNext
  <2>1. UNCHANGED requestVars
    BY <1>1 DEF SessionNext, Attach, Registered, ReceiveChunk, ReceiveResult, HandlerExits,
           HandlerDropped, HandlerDropFails
  <2>2. \/ UNCHANGED tasks
        \/ Continues(tasks', tasks) /\ Advances(tasks', tasks, Sizes)
    BY <1>1, SessionTableStep, SessionAdvances
  <2> QED
    BY <2>1, <2>2, BystanderWellServed DEF AllWellServed, requestVars
<1>2. CASE RequestNext
  <2>1. PICK t \in TaskIds :
          \/ \E n \in Nodes : Route(t, n)
          \/ NoNodeAvailable(t) \/ Assign(t) \/ NodeIsGone(t)
          \/ SendSucceeds(t) \/ SendFails(t) \/ SendDropped(t) \/ DispatchRaises(t)
          \/ StartStream(t) \/ TakeChunk(t) \/ TakeAnswer(t) \/ TimesOut(t)
          \/ Answer(t) \/ RecordingRaises(t) \/ ClientLeaves(t) \/ StreamAbandoned(t)
    BY <1>2 DEF RequestNext
  <2>2. WellServed(t)'
    BY <2>1, ActorWellServed DEF AllWellServed
  <2>3. \A u \in TaskIds \ {t} : WellServed(u)'
    BY <2>1, OthersWellServed
  <2> QED
    BY <2>2, <2>3 DEF AllWellServed
<1>3. CASE UNCHANGED vars
  BY <1>3, BystanderWellServed DEF AllWellServed, vars, requestVars
<1> QED
  BY <1>1, <1>2, <1>3 DEF Next

LEMMA AlwaysWellServed == Spec => []AllWellServed
<1>1. Init => AllWellServed
  BY DEF Init, AllWellServed, WellServed, ServedByOne, NothingSentYet, VerdictGiven,
         QueueAccounted, EndAccounted
<1>2. Typed /\ AllWellServed /\ [Next]_vars => AllWellServed'
  BY WellServedStep
<1> QED
  BY <1>1, <1>2, AlwaysTyped, PTL DEF Spec

\* A stream that ends with the node's own answer has passed on everything the
\* node sent before it, whatever was queued while the client was slow.
THEOREM StreamsAreComplete == Spec => []StreamIsComplete
<1>1. AllWellServed => StreamIsComplete
  BY RequestAssumption DEF AllWellServed, WellServed, EndAccounted, StreamIsComplete
<1> QED
  BY <1>1, AlwaysWellServed, PTL

\* What the client has been told: the refinement's value of `answer'.
Told == [t \in TaskIds |-> IF Over(t) THEN verdict[t] ELSE "none"]

\* Ending the handler of a request gives its one answer.
LEMMA ConcludeStep ==
  ASSUME Typed, NEW t \in TaskIds, NEW a \in Verdicts, ~Over(t),
         NEW end \in {"done", "abandoned"}, GoTo(t, end),
         verdict' = [verdict EXCEPT ![t] = a]
  PROVE  Told[t] = "none" /\ Told' = [Told EXCEPT ![t] = a]
<1>1. pc' = [pc EXCEPT ![t] = end]
  BY DEF GoTo
<1> QED
  BY <1>1 DEF Typed, TypeOK, Told, Over

\* A step between two stages of serving a request tells the client nothing.
LEMMA UntoldStep ==
  ASSUME Typed, NEW t \in TaskIds, ~Over(t),
         NEW state \in RequestStates \ {"done", "abandoned"}, GoTo(t, state),
         \A u \in TaskIds \ {t} : verdict'[u] = verdict[u]
  PROVE  Told' = Told
BY DEF GoTo, Typed, TypeOK, Told, Over

LEMMA PromiseStep ==
  ASSUME Typed, AllWellServed, [Next]_vars
  PROVE  [Promise!Next]_(Promise!promiseVars)
<1> DEFINE Stutter == UNCHANGED <<socket, relayed, Told>>
<1>1. Promise!promiseVars = <<socket, relayed, Told>>
      /\ Promise!promiseVars' = <<socket', relayed', Told'>>
  BY DEF Promise!promiseVars, Told
<1>2. SUFFICES Stutter \/ Promise!Next
  BY <1>1
<1>3. TypeOK
  BY DEF Typed
<1>4. CASE SessionNext \/ UNCHANGED vars
  BY <1>4 DEF SessionNext, Attach, Registered, ReceiveChunk, ReceiveResult, HandlerExits,
         HandlerDropped, HandlerDropFails, requestVars, vars, Told, Over
<1>5. CASE RequestNext
  <2>1. PICK t \in TaskIds :
          \/ \E n \in Nodes : Route(t, n)
          \/ NoNodeAvailable(t) \/ Assign(t) \/ NodeIsGone(t)
          \/ SendSucceeds(t) \/ SendFails(t) \/ SendDropped(t) \/ DispatchRaises(t)
          \/ StartStream(t) \/ TakeChunk(t) \/ TakeAnswer(t) \/ TimesOut(t)
          \/ Answer(t) \/ RecordingRaises(t) \/ ClientLeaves(t) \/ StreamAbandoned(t)
    BY <1>5 DEF RequestNext
  <2>2. WellServed(t)
    BY DEF AllWellServed
  <2>3. ~Over(t) => Told[t] = "none"
    BY DEF Told
  <2>4. \A a \in Promise!FromNode \cup {"aborted", "unavailable", "internal_error"} :
          Promise!Conclude(t, a) => Promise!Next
    BY DEF Promise!Next
  <2>5. ASSUME \/ \E n \in Nodes : Route(t, n)
               \/ NodeIsGone(t) \/ SendSucceeds(t) \/ StartStream(t)
               \/ TakeAnswer(t) \/ TimesOut(t)
        PROVE  Stutter
    <3>1. PICK state \in RequestStates \ {"done", "abandoned"} : GoTo(t, state)
      BY <2>5 DEF Route, NodeIsGone, SendSucceeds, StartStream, TakeAnswer, TimesOut,
         RequestStates
    <3>2. /\ ~Over(t) /\ UNCHANGED <<socket, relayed>>
          /\ \A u \in TaskIds \ {t} : verdict'[u] = verdict[u]
      BY <1>3, <2>5 DEF Route, NodeIsGone, SendSucceeds, StartStream, TakeAnswer, TimesOut,
         HasEvent, TypeOK, Over
    <3> QED
      BY <3>1, <3>2, UntoldStep
  <2>6. ASSUME Assign(t) PROVE Promise!Next
    <3>1. connections[choice[t]] \in Conns
      BY <2>6, AssignTableStep
    <3>2. Told' = Told
      BY <2>6, UntoldStep DEF Assign, RequestStates, Over
    <3>3. socket[t] = NoConn /\ Told[t] = "none"
      BY <2>2, <2>3, <2>6 DEF Assign, WellServed, ServedByOne, Over
    <3>4. Promise!Serve(t, connections[choice[t]])
      BY <2>6, <3>2, <3>3 DEF Assign, Promise!Serve, Told
    <3> QED
      BY <3>1, <3>4 DEF Promise!Next
  <2>7. ASSUME SendFails(t) \/ SendDropped(t) PROVE Stutter \/ Promise!Next
    <3>1. /\ pc[t] \in {"sending", "dropping"}
          /\ GoTo(t, "routing") \/ GoTo(t, "dropping")
          /\ UNCHANGED <<verdict, relayed>>
          /\ UNCHANGED socket \/ socket' = [socket EXCEPT ![t] = NoConn]
      BY <2>7 DEF SendFails, SendDropped
    <3>2. Told' = Told
      BY <3>1, UntoldStep DEF RequestStates, Over
    <3>3. socket[t] # NoConn /\ relayed[t] = 0 /\ Told[t] = "none"
      BY <2>2, <2>3, <3>1, NoConnAssumption DEF WellServed, ServedByOne, NothingSentYet,
         Unsent, Over
    <3>4. Stutter \/ Promise!Withdraw(t)
      BY <3>1, <3>2, <3>3 DEF Promise!Withdraw, Told
    <3> QED
      BY <3>4 DEF Promise!Next
  <2>8. ASSUME TakeChunk(t) PROVE Stutter \/ Promise!Next
    <3>1. UNCHANGED <<socket, Told>> /\ pc[t] = "waiting"
      BY <2>8 DEF TakeChunk, HasEvent, Told, Over
    <3>2. CASE t \notin Streams
      BY <1>3, <2>8, <3>1, <3>2 DEF TakeChunk, TypeOK
    <3>3. CASE t \in Streams
      <4>1. /\ NextEvent(t).size \in Sizes
            /\ relayed[t] + NextEvent(t).size <= MaxResultBytes
        BY <2>2, <2>8, <3>3, TakeChunkWellServed
      <4>2. socket[t] # NoConn /\ Told[t] = "none"
        BY <2>2, <2>3, <3>1, NoConnAssumption DEF WellServed, ServedByOne, Over
      <4>3. relayed' = [relayed EXCEPT ![t] = @ + NextEvent(t).size]
        BY <2>8, <3>3 DEF TakeChunk
      <4>4. Promise!Relay(t, NextEvent(t).size)
        BY <3>1, <4>1, <4>2, <4>3 DEF Promise!Relay, Told
      <4> QED
        BY <4>1, <4>4 DEF Promise!Next
    <3> QED
      BY <3>2, <3>3
  <2>9. ASSUME NoNodeAvailable(t) PROVE Promise!Next
    <3>1. Told[t] = "none" /\ Told' = [Told EXCEPT ![t] = "unavailable"]
      BY <2>9, ConcludeStep DEF NoNodeAvailable, Verdicts, Over
    <3>2. socket[t] = NoConn /\ relayed[t] = 0
      BY <2>2, <2>9 DEF NoNodeAvailable, WellServed, ServedByOne, NothingSentYet, Unsent
    <3>3. Promise!Conclude(t, "unavailable")
      BY <2>9, <3>1, <3>2 DEF NoNodeAvailable, Promise!Conclude, Promise!FromNode, Told
    <3> QED
      BY <2>4, <3>3
  <2>10. ASSUME DispatchRaises(t) \/ RecordingRaises(t) PROVE Promise!Next
    <3>1. /\ ~Over(t) /\ GoTo(t, "done") /\ UNCHANGED <<socket, relayed>>
          /\ verdict' = [verdict EXCEPT ![t] = "internal_error"]
      BY <2>10 DEF DispatchRaises, RecordingRaises, Over
    <3>2. Told[t] = "none" /\ Told' = [Told EXCEPT ![t] = "internal_error"]
      BY <3>1, ConcludeStep DEF Verdicts
    <3>3. Promise!Conclude(t, "internal_error")
      BY <3>1, <3>2 DEF Promise!Conclude, Promise!FromNode, Told
    <3> QED
      BY <2>4, <3>3
  <2>11. ASSUME ClientLeaves(t) \/ StreamAbandoned(t) PROVE Promise!Next
    <3>1. Told[t] = "none" /\ Told' = [Told EXCEPT ![t] = "aborted"]
      BY <2>11, ConcludeStep DEF ClientLeaves, StreamAbandoned, Verdicts, Over
    <3>2. socket[t] # NoConn
      BY <2>2, <2>11, NoConnAssumption
         DEF ClientLeaves, StreamAbandoned, WellServed, ServedByOne
    <3>3. Promise!Conclude(t, "aborted")
      BY <2>11, <3>1, <3>2
         DEF ClientLeaves, StreamAbandoned, Promise!Conclude, Promise!FromNode, Told
    <3> QED
      BY <2>4, <3>3
  <2>12. ASSUME Answer(t) PROVE Promise!Next
    <3>1. /\ pc[t] = "recording" /\ GoTo(t, "done")
          /\ UNCHANGED <<socket, relayed, verdict>>
      BY <2>12 DEF Answer
    <3>2. PICK a \in Verdicts : a = verdict[t]
      BY <1>3 DEF TypeOK
    <3>3. verdict' = [verdict EXCEPT ![t] = a]
      BY <1>3, <3>1, <3>2 DEF TypeOK
    <3>4. Told[t] = "none" /\ Told' = [Told EXCEPT ![t] = a]
      BY <3>1, <3>3, ConcludeStep DEF Over
    <3>5. socket[t] # NoConn /\ a \in Promise!FromNode
      BY <2>2, <3>1, <3>2, NoConnAssumption DEF WellServed, ServedByOne, VerdictGiven
    <3>6. Promise!Conclude(t, a)
      BY <3>1, <3>4, <3>5 DEF Promise!Conclude, Promise!FromNode, Told
    <3> QED
      BY <2>4, <3>5, <3>6
  <2> QED
    BY <2>1, <2>5, <2>6, <2>7, <2>8, <2>9, <2>10, <2>11, <2>12
<1> QED
  BY <1>4, <1>5 DEF Next

\* The handlers, with their queues and the sessions that come and go, keep the
\* promise of RequestPromise: one connection at a time serves a request, it
\* moves only while the client has been sent nothing, a stream stays within
\* the limit, and there is one answer with nothing after it.
THEOREM HandlersKeepPromise == Spec => PromiseIsKept
<1>1. Init => Promise!Init
  BY DEF Init, Promise!Init, Over
<1>2. Typed /\ AllWellServed /\ [Next]_vars => [Promise!Next]_(Promise!promiseVars)
  BY PromiseStep
<1> QED
  BY <1>1, <1>2, AlwaysTyped, AlwaysWellServed, PTL DEF Spec, PromiseIsKept, Promise!Spec
==============================================================================
