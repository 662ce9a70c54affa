-------------------------- MODULE SplitRequestProofs -------------------------
(***************************************************************************)
(* Theorems about SplitRequest, for any number of parts, nodes and         *)
(* attempts.  The invariant says of every tracked part who works on it,    *)
(* and that nothing is known of any part while parts are assigned.         *)
(***************************************************************************)
EXTENDS SplitRequest, TaskTrackerProofs

\* A tracked part is on the node it was assigned to, or is being sent to.
Placed ==
  \A t \in Parts : Tracked(t) =>
    tasks[t].connection = IF assigned[t] # NoConn THEN assigned[t] ELSE socket

Assigning == {"finding", "assigning", "routed", "sending", "dropping"}

\* Until all parts are sent, none has an outcome and the later ones no node.
Unsettled ==
  step \in Assigning =>
    \A t \in Parts : outcome[t] = "none" /\ (t >= part => assigned[t] = NoConn)

Inv ==
  /\ TypeOK /\ GoodTable(tasks)
  /\ PartsAreReleased /\ OutcomesAreOfTheirNodes
  /\ Placed /\ Unsettled

USE DEF TrackerTypeOK, Table

LEMMA InvInit == Init => Inv
<1> SUFFICES ASSUME Init PROVE Inv
  OBVIOUS
<1>1. TypeOK
  <2>1. 1 \in Parts /\ 0 \in 0..Len(<<>>) /\ <<>> \in Seq(Conns)
    BY SplitAssumption DEF Parts
  <2> QED
    BY <2>1, SplitAssumption DEF Init, TypeOK, Steps, Outcomes
<1>2. GoodTable(tasks) /\ PartsAreReleased /\ Placed
  BY SplitAssumption DEF Init, GoodTable, PartsAreReleased, Placed, Tracked
<1> QED
  BY <1>1, <1>2 DEF Init, Inv, OutcomesAreOfTheirNodes, Unsettled

(***************************************************************************)
(* The table.                                                              *)
(***************************************************************************)
LEMMA ReleasedTable ==
  ASSUME Inv
  PROVE  /\ Released(tasks) \in Table /\ GoodTable(Released(tasks))
         /\ Continues(Released(tasks), tasks)
         /\ \A t \in Parts : assigned[t] # NoConn => Released(tasks)[t] = NoTask
<1>1. /\ \A t \in Parts : Released(tasks)[t] =
             IF assigned[t] # NoConn THEN NoTask ELSE tasks[t]
      /\ Released(tasks) \in Table
  BY SplitAssumption DEF Released, Inv, TypeOK
<1> QED
  BY <1>1, SplitAssumption DEF Inv, GoodTable, Continues

\* What the request does to the table while the parts are assigned and awaited:
\* nothing is tracked that was not.
LEMMA SameTable ==
  ASSUME Inv, UNCHANGED tasks
  PROVE  tasks' \in Table /\ GoodTable(tasks') /\ Continues(tasks', tasks)
BY SplitAssumption DEF Inv, TypeOK, Continues

\* A step that only takes parts out of the table, or lets them go on, and
\* changes neither where parts are assigned nor what came of them.
LEMMA StaysSettled ==
  ASSUME Inv, tasks' \in Table, GoodTable(tasks'), Continues(tasks', tasks),
         TypeOK', UNCHANGED resultVars,
         step' \in Assigning => step \in Assigning /\ part' = part,
         \A t \in Parts : Tracked(t)' =>
           /\ step' \notin {"recording", "done"}
           /\ assigned[t] # NoConn
              \/ (t = part' /\ step' = "sending" /\ socket' = socket)
  PROVE  Inv'
<1>1. PartsAreReleased'
  BY DEF PartsAreReleased, resultVars
<1>2. OutcomesAreOfTheirNodes'
  BY DEF Inv, OutcomesAreOfTheirNodes, resultVars
<1>3. Placed'
  BY SplitAssumption DEF Inv, Placed, Continues, Tracked, resultVars
<1>4. Unsettled'
  BY DEF Inv, Unsettled, resultVars
<1> QED
  BY <1>1, <1>2, <1>3, <1>4 DEF Inv

(***************************************************************************)
(* The steps.                                                              *)
(***************************************************************************)
LEMMA SessionStepKeeps ==
  ASSUME Inv, SessionNext
  PROVE  Inv'
<1>1. PICK c \in Conns :
        \/ Connect(c) \/ SessionEnds(c) \/ SessionDropped(c)
        \/ \E t \in Parts, size \in Sizes, ok \in BOOLEAN : ReceiveResult(c, t, size, ok)
  BY DEF SessionNext
<1>2. tasks' \in Table /\ GoodTable(tasks') /\ Continues(tasks', tasks)
  <2>1. tasks \in Table /\ GoodTable(tasks)
    BY DEF Inv, TypeOK
  <2>2. CASE UNCHANGED tasks
    BY <2>2, SameTable
  <2>3. CASE tasks' = ConnectionFailed(tasks, c)
    BY <2>1, <2>3, ConnectionFailedTable
  <2>4. ASSUME NEW t \in Parts, NEW size \in Sizes, NEW ok \in BOOLEAN,
               ReceiveResult(c, t, size, ok)
        PROVE  <1>2
    <3>1. /\ size \in Nat /\ t \in TaskIds /\ Accepts(tasks, t, c)
          /\ tasks' = Resolved(tasks, t, c, size, ok)
      BY <2>4, SplitAssumption DEF ReceiveResult
    <3> QED
      BY <2>1, <3>1, ResolvedTable
  <2> QED
    BY <1>1, <2>2, <2>3, <2>4 DEF Connect, SessionEnds, SessionDropped
<1>3. UNCHANGED requestVars
  BY <1>1 DEF Connect, SessionEnds, SessionDropped, ReceiveResult
<1>4. /\ session' \in [Conns -> {"none", "open", "dropping", "closed"}]
      /\ online' \subseteq {d \in Conns : session'[d] = "open"}
  BY <1>1 DEF Connect, SessionEnds, SessionDropped, ReceiveResult, sessionVars, Inv, TypeOK
<1>5. TypeOK'
  BY <1>2, <1>3, <1>4 DEF Inv, TypeOK, requestVars, choiceVars, resultVars
<1>6. \A t \in Parts : Tracked(t)' => Tracked(t)
  BY <1>2, SplitAssumption DEF Continues, Tracked
<1> QED
  BY <1>2, <1>3, <1>5, <1>6, StaysSettled
     DEF Inv, PartsAreReleased, requestVars, choiceVars, resultVars

LEMMA SelectionTyped ==
  ASSUME Inv, NEW s \in Selections
  PROVE  s \in Seq(Conns)
<1>1. PICK n \in Parts : s \in [1..n -> online]
  BY DEF Selections
<1>2. n \in Nat /\ online \subseteq Conns
  BY SplitAssumption DEF Parts, Inv, TypeOK
<1> QED
  BY <1>1, <1>2

LEMMA Forgotten ==
  ASSUME Forget
  PROVE  /\ nodes' \in Seq(Conns) /\ part' \in Parts /\ turn' \in 0..Len(nodes')
         /\ tried' \subseteq Conns /\ socket' \in Conns \cup {NoConn}
BY SplitAssumption DEF Forget, Parts

LEMMA TriedNext ==
  ASSUME Inv, TryNext
  PROVE  /\ turn' \in 0..Len(nodes') /\ socket' \in Conns \cup {NoConn}
         /\ step' = "assigning" /\ UNCHANGED <<nodes, part, tried, resultVars, verdict>>
<1>1. Len(nodes) \in Nat /\ turn \in 0..Len(nodes)
  BY DEF Inv, TypeOK
<1> QED
  BY <1>1 DEF TryNext

\* A node of the rotation is one of those found.
LEMMA TargetTyped ==
  ASSUME Inv, Rotating \/ step = "routed"
  PROVE  Target \in Conns
<1>1. CASE Rotating
  <2>1. /\ Len(nodes) \in Nat \ {0} /\ part \in Nat \ {0} /\ turn \in Nat
        /\ nodes \in [1..Len(nodes) -> Conns]
    BY <1>1, SplitAssumption DEF Rotating, Inv, TypeOK, Parts
  <2> DEFINE i == (part - 1 + turn) % Len(nodes)
  <2>2. i \in 0..(Len(nodes) - 1)
    BY <2>1
  <2> HIDE DEF i
  <2>3. nodes[i + 1] \in Conns
    BY <2>1, <2>2
  <2> QED
    BY <1>1, <2>3 DEF Target, i
<1>2. CASE ~Rotating
  BY <1>2 DEF Target, Inv, TypeOK
<1> QED
  BY <1>1, <1>2

LEMMA ChoiceStepKeeps ==
  ASSUME Inv, FindNodes \/ NodeIsGone \/ \E c \in Conns : Route(c)
  PROVE  Inv'
<1>1. /\ UNCHANGED <<tasks, sessionVars, resultVars, part, verdict>>
      /\ step \in Assigning \ {"sending"} /\ step' \in {"assigning", "routed"}
  BY TriedNext DEF FindNodes, NodeIsGone, Route, Dispatching, Rotating, Assigning, TryNext
<1>2. /\ nodes' \in Seq(Conns) /\ turn' \in 0..Len(nodes')
      /\ tried' \subseteq Conns /\ socket' \in Conns \cup {NoConn}
      /\ step' = "routed" => socket' \in Conns
  <2>1. CASE FindNodes
    <3>1. nodes' \in Seq(Conns) /\ turn' = 0 /\ UNCHANGED <<tried, socket>>
      BY <2>1, SelectionTyped DEF FindNodes
    <3> QED
      BY <2>1, <3>1 DEF FindNodes, Inv, TypeOK
  <2>2. CASE NodeIsGone
    BY <2>2, TriedNext DEF NodeIsGone, Inv, TypeOK
  <2>3. ASSUME NEW c \in Conns, Route(c) PROVE <1>2
    BY <2>3 DEF Route, Inv, TypeOK
  <2> QED
    BY <2>1, <2>2, <2>3
<1>3. TypeOK'
  BY <1>1, <1>2 DEF Inv, TypeOK, Steps, sessionVars, resultVars
<1>4. \A t \in Parts : Tracked(t)' => Tracked(t)
  BY <1>1 DEF Tracked
<1> QED
  BY <1>1, <1>3, <1>4, SameTable, StaysSettled
     DEF Inv, PartsAreReleased, Assigning, resultVars

\* Not being sent, a tracked part has been assigned.
LEMMA TrackedIsAssigned ==
  ASSUME Inv, step # "sending", NEW t \in Parts, Tracked(t)
  PROVE  assigned[t] # NoConn
BY DEF Inv, PartsAreReleased

LEMMA EndStepKeeps ==
  ASSUME Inv, NoNodeAvailable \/ RedisRaises \/ Gathered \/ Recorded
  PROVE  Inv'
<1>1. /\ step # "sending" /\ step' \in {"recording", "done"}
      /\ UNCHANGED <<sessionVars, resultVars>>
      /\ tasks' = Released(tasks) \/ (step = "recording" /\ UNCHANGED tasks)
  BY DEF NoNodeAvailable, RedisRaises, Gathered, Recorded, GiveUp, Dispatching
<1>2. /\ nodes' \in Seq(Conns) /\ part' \in Parts /\ turn' \in 0..Len(nodes')
      /\ tried' \subseteq Conns /\ socket' \in Conns \cup {NoConn}
  <2>1. CASE Forget
    BY <2>1, Forgotten
  <2>2. CASE UNCHANGED choiceVars
    BY <2>2 DEF choiceVars, Inv, TypeOK
  <2> QED
    BY <2>1, <2>2 DEF NoNodeAvailable, RedisRaises, Gathered, Recorded, GiveUp
<1>3. verdict' \in Outcomes \cup {"unavailable", "internal_error"}
  BY DEF NoNodeAvailable, RedisRaises, Gathered, Recorded, GiveUp, Inv, TypeOK
<1>4. tasks' \in Table /\ GoodTable(tasks') /\ Continues(tasks', tasks)
  BY <1>1, ReleasedTable, SameTable
<1>5. TypeOK'
  BY <1>1, <1>2, <1>3, <1>4 DEF Inv, TypeOK, Steps, sessionVars, resultVars
<1>6. ASSUME NEW t \in Parts PROVE ~Tracked(t)'
  <2>1. CASE tasks' = Released(tasks)
    <3>1. Tracked(t)' => Tracked(t)
      BY <1>4, SplitAssumption DEF Continues, Tracked
    <3> QED
      BY <2>1, <3>1, <1>1, TrackedIsAssigned, ReleasedTable DEF Tracked
  <2>2. CASE step = "recording" /\ UNCHANGED tasks
    BY <2>2 DEF Inv, PartsAreReleased, Tracked
  <2> QED
    BY <1>1, <2>1, <2>2
<1> QED
  BY <1>1, <1>4, <1>5, <1>6, StaysSettled DEF Assigning

LEMMA AssignKeeps ==
  ASSUME Inv, Assign
  PROVE  Inv'
<1>1. /\ Target \in Conns /\ step \in Assigning /\ step # "sending" /\ part \in Parts
      /\ tasks \in Table /\ GoodTable(tasks)
  BY TargetTyped DEF Assign, Rotating, Assigning, Inv, TypeOK
<1>2. /\ step' = "sending" /\ socket' = Target /\ tasks' = Created(tasks, part, Target, {})
      /\ UNCHANGED <<sessionVars, nodes, part, turn, tried, resultVars, verdict>>
  BY DEF Assign
<1>3. /\ tasks' \in Table /\ GoodTable(tasks') /\ tasks'[part].connection = Target
      /\ \A t \in Parts \ {part} : tasks'[t] # NoTask => tasks'[t] = tasks[t]
  BY <1>1, <1>2, CreatedTable, SplitAssumption
<1>4. assigned[part] = NoConn /\ \A t \in Parts : outcome[t] = "none"
  BY <1>1, SplitAssumption DEF Inv, Unsettled, Parts
<1>5. TypeOK'
  BY <1>1, <1>2, <1>3 DEF Inv, TypeOK, Steps, sessionVars, resultVars
<1>6. \A t \in Parts \ {part} : Tracked(t)' =>
        Tracked(t) /\ assigned[t] # NoConn /\ tasks'[t] = tasks[t]
  BY <1>1, <1>3, TrackedIsAssigned DEF Tracked
<1>7. PartsAreReleased'
  BY <1>2, <1>6 DEF PartsAreReleased, resultVars
<1>8. Placed'
  BY <1>2, <1>3, <1>4, <1>6 DEF Inv, Placed, Tracked, resultVars
<1> QED
  BY <1>1, <1>2, <1>3, <1>4, <1>5, <1>7, <1>8
     DEF Inv, OutcomesAreOfTheirNodes, Unsettled, resultVars

LEMMA SendSucceedsKeeps ==
  ASSUME Inv, SendSucceeds
  PROVE  Inv'
<1>1. /\ step = "sending" /\ socket \in Conns /\ part \in Parts
      /\ UNCHANGED <<tasks, sessionVars, outcome, source, verdict>>
      /\ assigned' = [assigned EXCEPT ![part] = socket]
  BY DEF SendSucceeds, Inv, TypeOK
<1>2. /\ nodes' \in Seq(Conns) /\ part' \in Parts /\ turn' \in 0..Len(nodes')
      /\ tried' \subseteq Conns /\ socket' \in Conns \cup {NoConn}
      /\ \/ step' = "assigning" /\ part' = part + 1
         \/ step' = "waiting"
  <2>1. CASE part < SplitChunks
    <3>1. /\ part' = part + 1 /\ turn' = 0 /\ UNCHANGED nodes /\ tried' = {}
          /\ socket' = NoConn /\ step' = "assigning"
      BY <2>1 DEF SendSucceeds, NextPart
    <3>2. part + 1 \in Parts
      BY <1>1, <2>1, SplitAssumption DEF Parts
    <3> QED
      BY <3>1, <3>2 DEF Inv, TypeOK
  <2>2. CASE ~(part < SplitChunks)
    BY <2>2, Forgotten DEF SendSucceeds, NextPart
  <2> QED
    BY <2>1, <2>2
<1>3. /\ assigned' \in [Parts -> Conns \cup {NoConn}]
      /\ assigned'[part] = socket /\ socket # NoConn
      /\ \A t \in Parts \ {part} : assigned'[t] = assigned[t]
  BY <1>1, SplitAssumption DEF Inv, TypeOK
<1>4. TypeOK'
  BY <1>1, <1>2, <1>3 DEF Inv, TypeOK, Steps, sessionVars
<1>5. \A t \in Parts : outcome[t] = "none" /\ (t >= part => assigned[t] = NoConn)
  BY <1>1 DEF Inv, Unsettled, Assigning
<1>6. \A t \in Parts : Tracked(t)' => assigned'[t] # NoConn
  BY <1>1, <1>3 DEF Inv, PartsAreReleased, Tracked
<1>7. PartsAreReleased'
  BY <1>2, <1>6 DEF PartsAreReleased
<1>8. Placed'
  <2>1. part >= part
    BY <1>1, SplitAssumption DEF Parts
  <2> QED
    BY <2>1, <1>1, <1>3, <1>5, <1>6 DEF Inv, Placed, PartsAreReleased, Tracked
<1>9. Unsettled'
  <2>1. \A t \in Parts : t >= part + 1 => t # part /\ t >= part
    BY <1>1, SplitAssumption DEF Parts
  <2> QED
    BY <2>1, <1>1, <1>2, <1>3, <1>5 DEF Unsettled, Assigning
<1> QED
  BY <1>1, <1>4, <1>5, <1>7, <1>8, <1>9 DEF Inv, OutcomesAreOfTheirNodes

\* The part that could not be sent is out of the table, as it had no node.
LEMMA DropKeeps ==
  ASSUME Inv, SendFails \/ SendDropped
  PROVE  Inv'
<1>1. /\ step \in {"sending", "dropping"} /\ socket \in Conns /\ part \in Parts
      /\ tasks \in Table /\ GoodTable(tasks) /\ part \in TaskIds
  BY SplitAssumption DEF SendFails, SendDropped, Inv, TypeOK
<1>2. /\ tasks' \in Table /\ GoodTable(tasks') /\ Continues(tasks', tasks)
      /\ step = "sending" => tasks'[part] = NoTask
  <2>1. /\ Popped(tasks, part) \in Table /\ GoodTable(Popped(tasks, part))
        /\ Continues(Popped(tasks, part), tasks) /\ Popped(tasks, part)[part] = NoTask
    BY <1>1, PoppedTable
  <2>2. CASE tasks' = Popped(tasks, part)
    BY <2>1, <2>2
  <2>3. CASE tasks' = ConnectionFailed(Popped(tasks, part), socket)
    <3>1. tasks' \in Table /\ GoodTable(tasks') /\ Continues(tasks', Popped(tasks, part))
      BY <1>1, <2>1, <2>3, ConnectionFailedTable
    <3> QED
      BY <1>1, <2>1, <3>1 DEF Continues
  <2>4. CASE step = "dropping" /\ tasks' = ConnectionFailed(tasks, socket)
    BY <1>1, <2>4, ConnectionFailedTable
  <2> QED
    BY <2>2, <2>3, <2>4 DEF SendFails, SendDropped
<1>3. /\ UNCHANGED <<session, nodes, part, tried, resultVars, verdict>>
      /\ online' \subseteq online
      /\ turn' \in 0..Len(nodes') /\ socket' \in Conns \cup {NoConn}
      /\ step' = "assigning" \/ (step' = "dropping" /\ socket' = socket)
  BY TriedNext
     DEF SendFails, SendDropped, sessionVars, choiceVars, resultVars, Inv, TypeOK
<1>4. TypeOK'
  BY <1>1, <1>2, <1>3 DEF Inv, TypeOK, Steps, resultVars
<1>5. \A t \in Parts : Tracked(t)' => assigned[t] # NoConn
  <2>1. \A t \in Parts : Tracked(t)' => Tracked(t) /\ (step = "sending" => t # part)
    BY <1>2, SplitAssumption DEF Continues, Tracked
  <2> QED
    BY <1>1, <2>1 DEF Inv, PartsAreReleased
<1> QED
  BY <1>1, <1>2, <1>3, <1>4, <1>5, StaysSettled DEF Assigning, resultVars

\* The first event of a part is from the node it was assigned to.
LEMMA TakeOutcomeKeeps ==
  ASSUME Inv, NEW t \in Parts, TakeOutcome(t)
  PROVE  Inv'
<1> DEFINE event == Head(tasks[t].events)
<1>1. /\ step = "waiting" /\ Tracked(t) /\ t \in TaskIds
      /\ tasks \in Table /\ GoodTable(tasks)
      /\ tasks[t].events # <<>> /\ event.kind \in TerminalKinds
      /\ outcome' = [outcome EXCEPT ![t] = event.kind]
      /\ source' = [source EXCEPT ![t] = event.from]
      /\ tasks' = [tasks EXCEPT ![t].events = Tail(@)]
      /\ UNCHANGED <<sessionVars, step, choiceVars, assigned, verdict>>
  BY SplitAssumption DEF TakeOutcome, Waits, Inv, TypeOK
<1>2. tasks' \in Table /\ GoodTable(tasks') /\ Continues(tasks', tasks)
  BY <1>1, TakenTable DEF Tracked
<1>3. event.from = assigned[t]
  <2>1. tasks[t] \in PendingTask /\ GoodTask(tasks[t])
    BY <1>1, TrackedIsTask DEF Tracked, GoodTable
  <2>2. 1 \in DOMAIN tasks[t].events /\ event = tasks[t].events[1]
    BY <1>1, <2>1 DEF PendingTask
  <2>3. event.from = tasks[t].connection
    BY <2>1, <2>2 DEF GoodTask, AnsweredByOwner
  <2> QED
    BY <1>1, <2>3, TrackedIsAssigned DEF Inv, Placed
<1>4. event.kind \in Outcomes
  BY <1>1 DEF TerminalKinds, Outcomes, Errors
<1> HIDE DEF event
<1>5. TypeOK'
  BY <1>1, <1>2, <1>3, <1>4 DEF Inv, TypeOK, sessionVars, choiceVars
<1>6. \A u \in Parts : Tracked(u)' => Tracked(u)
  BY <1>2, SplitAssumption DEF Continues, Tracked
<1>7. PartsAreReleased'
  BY <1>1, <1>6 DEF Inv, PartsAreReleased, choiceVars
<1>8. OutcomesAreOfTheirNodes'
  BY <1>1, <1>3 DEF Inv, TypeOK, OutcomesAreOfTheirNodes
<1>9. Placed'
  BY <1>1, <1>2, <1>6, SplitAssumption DEF Inv, Placed, Continues, Tracked, choiceVars
<1> QED
  BY <1>1, <1>2, <1>5, <1>7, <1>8, <1>9 DEF Inv, Unsettled, Assigning

LEMMA TimesOutKeeps ==
  ASSUME Inv, NEW t \in Parts, TimesOut(t)
  PROVE  Inv'
<1>1. /\ step = "waiting"
      /\ outcome' = [outcome EXCEPT ![t] = "timeout"]
      /\ UNCHANGED <<tasks, sessionVars, step, choiceVars, assigned, source, verdict>>
  BY DEF TimesOut, Waits
<1>2. TypeOK'
  BY <1>1 DEF Inv, TypeOK, Outcomes, Errors, sessionVars, choiceVars
<1>3. PartsAreReleased' /\ Placed'
  BY <1>1 DEF Inv, PartsAreReleased, Placed, Tracked, choiceVars
<1>4. OutcomesAreOfTheirNodes'
  BY <1>1 DEF Inv, TypeOK, OutcomesAreOfTheirNodes
<1> QED
  BY <1>1, <1>2, <1>3, <1>4 DEF Inv, Unsettled, Assigning

LEMMA InvStep == Inv /\ [Next]_vars => Inv'
<1>1. SUFFICES ASSUME Inv, [Next]_vars PROVE Inv'
  OBVIOUS
<1>2. CASE SessionNext
  BY <1>1, <1>2, SessionStepKeeps
<1>3. CASE RequestStep
  <2>1. CASE FindNodes \/ NodeIsGone \/ \E c \in Conns : Route(c)
    BY <1>1, <2>1, ChoiceStepKeeps
  <2>2. CASE NoNodeAvailable \/ RedisRaises \/ Gathered \/ Recorded
    BY <1>1, <2>2, EndStepKeeps
  <2>3. CASE Assign
    BY <1>1, <2>3, AssignKeeps
  <2>4. CASE SendSucceeds
    BY <1>1, <2>4, SendSucceedsKeeps
  <2>5. CASE SendFails \/ SendDropped
    BY <1>1, <2>5, DropKeeps
  <2> QED
    BY <1>3, <2>1, <2>2, <2>3, <2>4, <2>5 DEF RequestStep
<1>4. ASSUME NEW t \in Parts, TakeOutcome(t) \/ TimesOut(t) PROVE Inv'
  BY <1>1, <1>4, TakeOutcomeKeeps, TimesOutKeeps
<1>5. CASE UNCHANGED vars
  BY <1>1, <1>5
     DEF vars, sessionVars, choiceVars, resultVars, Inv, TypeOK, PartsAreReleased,
         OutcomesAreOfTheirNodes, Placed, Unsettled, Tracked
<1> QED
  BY <1>1, <1>2, <1>3, <1>4, <1>5 DEF Next, RequestNext

LEMMA InvAlways == Spec => []Inv
<1> QED
  BY InvInit, InvStep, PTL DEF Spec

(***************************************************************************)
(* The whole content.                                                      *)
(***************************************************************************)
LEMMA Ordered ==
  ASSUME NEW a \in Int, NEW b \in Int, a <= b, NEW size \in Nat
  PROVE  a * size <= b * size
<1>1. (b - a) * size >= 0
  BY SMT
<1>2. (b - a) * size = b * size - a * size
  BY SMT
<1> QED
  BY <1>1, <1>2

LEMMA Quotient ==
  ASSUME NEW a \in Nat, NEW b \in Nat \ {0}
  PROVE  /\ a \div b \in Nat
         /\ (a \div b) * b <= a
         /\ a < (a \div b) * b + b
BY SMT

\* split_content cuts between units and loses none of them.
LEMMA ChunksCover ==
  ASSUME NEW content \in Contents
  PROVE  /\ UNION {Chunk(content, t) : t \in Parts} = 1..Units(content)
         /\ \A t, u \in Parts : t < u =>
              \A i \in Chunk(content, t), j \in Chunk(content, u) : i < j
<1> DEFINE len == Units(content)
           n == SplitChunks
           size == len \div n
           Before(t) == (t - 1) * size
<1>1. len \in Nat /\ n \in Nat \ {0} /\ Parts = 1..n
  BY SplitAssumption DEF Contents, Units, Parts
<1>2. size \in Nat /\ size * n <= len
  BY <1>1, Quotient
<1>3. ASSUME NEW t \in Parts
      PROVE  Chunk(content, t) = Before(t) + 1 .. (IF t < n THEN Before(t + 1) ELSE len)
  <2>1. (t + 1) - 1 = t
    BY <1>1
  <2> QED
    BY <2>1 DEF Chunk
<1> HIDE DEF len, n, size
<1>4. ASSUME NEW t \in 1..n + 1, NEW u \in 1..n + 1, t <= u
      PROVE  Before(t) \in Nat /\ Before(t) <= Before(u) /\ Before(u) <= len
  <2>1. /\ 0 \in Int /\ n \in Int /\ t - 1 \in Int /\ u - 1 \in Int
        /\ 0 <= t - 1 /\ t - 1 <= u - 1 /\ u - 1 <= n
    BY <1>1, <1>4
  <2>2. 0 * size <= Before(t) /\ Before(t) <= Before(u) /\ Before(u) <= n * size
    BY <1>2, <2>1, Ordered
  <2>3. Before(t) \in Int /\ Before(u) \in Int /\ 0 * size = 0 /\ n * size = size * n
    BY <1>2, <2>1
  <2> HIDE DEF Before
  <2>4. n * size <= len
    BY <1>2, <2>3
  <2>5. n * size \in Int
    BY <1>1, <1>2
  <2> QED
    BY <1>1, <2>2, <2>3, <2>4, <2>5
<1> HIDE DEF Before
<1>5. ASSUME NEW t \in Parts, NEW i \in Chunk(content, t) PROVE i \in 1..len
  <2>1. t \in 1..n + 1 /\ t + 1 \in 1..n + 1 /\ t <= t /\ t + 1 <= t + 1
    BY <1>1
  <2>2. Before(t) \in Nat /\ Before(t + 1) \in Nat /\ Before(t + 1) <= len
    BY <1>4, <2>1
  <2> QED
    BY <1>1, <1>3, <1>5, <2>2
<1>6. ASSUME NEW i \in 1..len PROVE \E t \in Parts : i \in Chunk(content, t)
  <2>1. n \in Parts /\ Chunk(content, n) = Before(n) + 1 .. len
    BY <1>1, <1>3
  <2>2. CASE size = 0
    <3>1. Before(n) = 0
      BY <1>1, <2>2 DEF Before
    <3> QED
      BY <1>1, <2>1, <3>1
  <2>3. CASE size # 0
    <3> DEFINE q == (i - 1) \div size
    <3>1. /\ i - 1 \in Nat /\ q \in Nat /\ q * size <= i - 1 /\ i - 1 < q * size + size
      BY <1>1, <1>2, <2>3, Quotient
    <3> HIDE DEF q
    <3>2. Before(q + 1) = q * size /\ Before(q + 2) = q * size + size
      BY <1>2, <3>1 DEF Before
    <3>3. Before(q + 1) \in Int
      BY <1>2, <3>1, <3>2
    <3>4. CASE q + 1 < n
      <4>1. q + 1 \in Parts /\ (q + 1) + 1 = q + 2
        BY <1>1, <3>1, <3>4
      <4>2. Chunk(content, q + 1) = Before(q + 1) + 1 .. Before(q + 2)
        BY <1>3, <3>4, <4>1
      <4>3. Before(q + 1) + 1 <= i /\ i <= Before(q + 2)
        BY <1>1, <1>2, <3>1, <3>2, <3>3
      <4> QED
        BY <1>1, <1>2, <3>2, <3>3, <4>1, <4>2, <4>3
    <3>5. CASE ~(q + 1 < n)
      <4>1. Before(n) <= q * size
        <5>1. n - 1 \in Int /\ q \in Int /\ n - 1 <= q
          BY <1>1, <3>1, <3>5
        <5> QED
          BY <1>2, <5>1, Ordered DEF Before
      <4>2. n \in 1..n + 1 /\ n <= n
        BY <1>1
      <4>3. Before(n) \in Nat
        BY <1>4, <4>2
      <4>4. Before(n) + 1 <= i
        BY <1>1, <3>1, <3>2, <3>3, <4>1, <4>3
      <4> QED
        BY <1>1, <2>1, <4>3, <4>4
    <3> QED
      BY <3>4, <3>5
  <2> QED
    BY <2>2, <2>3
<1>7. ASSUME NEW t \in Parts, NEW u \in Parts, t < u,
             NEW i \in Chunk(content, t), NEW j \in Chunk(content, u)
      PROVE  i < j
  <2>1. t < n /\ t + 1 \in 1..n + 1 /\ u \in 1..n + 1 /\ u + 1 \in 1..n + 1
        /\ t + 1 <= u /\ u <= u + 1
    BY <1>1, <1>7
  <2>2. Before(t + 1) \in Nat /\ Before(u) \in Nat /\ Before(t + 1) <= Before(u)
        /\ Before(u + 1) \in Nat
    BY <1>4, <2>1
  <2>3. i \in Int /\ i <= Before(t + 1)
    <3>1. t \in 1..n + 1 /\ t <= t + 1
      BY <1>1
    <3>2. Before(t) \in Nat
      BY <1>4, <2>1, <3>1
    <3> QED
      BY <1>3, <1>7, <2>1, <2>2, <3>2
  <2>4. j \in Int /\ Before(u) + 1 <= j
    <3>1. j \in Before(u) + 1 .. (IF u < n THEN Before(u + 1) ELSE len)
      BY <1>3, <1>7
    <3> QED
      BY <1>1, <2>2, <3>1
  <2> QED
    BY <2>2, <2>3, <2>4
<1>8. UNION {Chunk(content, t) : t \in Parts} = 1..len
  BY <1>5, <1>6
<1> QED
  BY <1>7, <1>8 DEF len

\* Once the answer is that all went well, no part's outcome changes any more.
Completed ==
  verdict = "completed" =>
    step \in {"recording", "done"} /\ \A t \in Parts : outcome[t] = "completed"

LEMMA CompletedStep ==
  ASSUME Completed, [Next]_vars
  PROVE  Completed'
<1>1. CASE UNCHANGED vars \/ SessionNext
  BY <1>1 DEF Completed, vars, SessionNext, Connect, SessionEnds, SessionDropped,
     ReceiveResult, requestVars, resultVars
<1>2. CASE Gathered
  BY <1>2 DEF Gathered, IsAnswer, Errors, Completed, resultVars
<1>3. CASE Recorded
  BY <1>3 DEF Recorded, Completed, resultVars
<1>4. CASE NoNodeAvailable \/ RedisRaises
  BY <1>4 DEF NoNodeAvailable, RedisRaises, GiveUp, Completed
<1>5. CASE FindNodes \/ Assign \/ NodeIsGone \/ SendSucceeds \/ SendFails \/ SendDropped
           \/ \E c \in Conns : Route(c)
  BY <1>5 DEF FindNodes, Assign, NodeIsGone, SendSucceeds, SendFails, SendDropped, Route,
     TryNext, Dispatching, Rotating, Completed, resultVars
<1>6. ASSUME NEW t \in Parts, TakeOutcome(t) \/ TimesOut(t) PROVE Completed'
  BY <1>6 DEF TakeOutcome, TimesOut, Waits, Completed
<1> QED
  BY <1>1, <1>2, <1>3, <1>4, <1>5, <1>6 DEF Next, RequestNext, RequestStep

(***************************************************************************)
(* The theorems.                                                           *)
(***************************************************************************)
\* The types, among them that the part and the turn in `node_ids' stay within
\* bounds and that nothing is sent before a node is chosen.
THEOREM SplitTypeCorrect == Spec => []TypeOK
<1>1. Inv => TypeOK
  BY DEF Inv
<1> QED
  BY InvAlways, <1>1, PTL

\* Whichever way _run_split_task ends, its finally block, which knows the assigned
\* parts only, leaves no part in the tracker.
THEOREM AllPartsReleased == Spec => []PartsAreReleased
<1>1. Inv => PartsAreReleased
  BY DEF Inv
<1> QED
  BY InvAlways, <1>1, PTL

\* However often a part was retried, its outcome is from the node that the
\* outcome is recorded for.
THEOREM OutcomesFromTheirNodes == Spec => []OutcomesAreOfTheirNodes
<1>1. Inv => OutcomesAreOfTheirNodes
  BY DEF Inv
<1> QED
  BY InvAlways, <1>1, PTL

\* For any number of parts and any content: an answer that all parts completed is
\* of the whole content, each unit once and in its order.
THEOREM WholeContentAnswered == Spec => []AnswerIsOfTheWholeContent
<1>1. Init => Completed
  BY DEF Init, Completed
<1>2. Completed /\ [Next]_vars => Completed'
  BY CompletedStep
<1>3. Completed => AnswerIsOfTheWholeContent
  <2> SUFFICES ASSUME Completed, verdict = "completed", NEW content \in Contents
               PROVE  LET Answered == {t \in Parts : outcome[t] = "completed"} IN
                      /\ UNION {Chunk(content, t) : t \in Answered} = 1..Units(content)
                      /\ \A t, u \in Answered : t < u =>
                           \A i \in Chunk(content, t), j \in Chunk(content, u) : i < j
    BY DEF AnswerIsOfTheWholeContent
  <2>1. {t \in Parts : outcome[t] = "completed"} = Parts
    BY DEF Completed
  <2> QED
    BY <2>1, ChunksCover
<1> QED
  BY <1>1, <1>2, <1>3, PTL DEF Spec
==============================================================================
