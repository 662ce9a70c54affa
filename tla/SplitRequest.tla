----------------------------- MODULE SplitRequest ----------------------------
(***************************************************************************)
(* A request that the coordinator splits into parts for several nodes      *)
(* (coordinator/server.py: _run_split_task, with _assign, _dispatch and    *)
(* wait_result), while the sessions of the nodes end.                      *)
(*                                                                         *)
(* An action is what a coroutine does between two awaits.  The tasks of    *)
(* the tracker are the parts.  A node connects once, so that its           *)
(* connection stands for it: reconnection and replacement, and the drop    *)
(* that Redis interrupts, are in RequestHandling.  Redis may raise in any  *)
(* await of the request.                                                   *)
(***************************************************************************)
EXTENDS TaskTracker, FiniteSets

CONSTANTS
  SplitChunks,       \* SPLIT_CHUNKS
  DispatchAttempts,  \* DISPATCH_ATTEMPTS
  Sizes,             \* sizes of the results that nodes send
  MaxUnits           \* the most paragraphs, sentences or characters of a content

\* The parts: as many as asked for, whatever the content.
Parts == 1..SplitChunks

ASSUME SplitAssumption ==
  /\ SplitChunks \in Nat \ {0} /\ TaskIds = Parts
  /\ NoConn \notin Conns
  /\ DispatchAttempts \in Nat
  /\ Sizes \subseteq Nat /\ MaxUnits \in Nat

VARIABLES
  session,   \* how far node_websocket is with each connection
  online,    \* the connections in the connection manager's table
  step,      \* how far _run_split_task is
  nodes,     \* its local `node_ids'
  part,      \* the part that is being assigned
  turn,      \* how many of `nodes' were tried for it; after all, _dispatch is
  tried,     \* _dispatch's local `tried'
  socket,    \* the node chosen by _dispatch, or _assign's local `ws'
  assigned,  \* its local `tasks': the connection of each part's PendingTask
  outcome,   \* what wait_result returned or raised for each part
  source,    \* the connection whose message, or whose end, that was
  verdict    \* how the request will be, or was, answered

sessionVars == <<session, online>>
choiceVars == <<nodes, part, turn, tried, socket>>
resultVars == <<assigned, outcome, source>>
vars == <<tasks, sessionVars, step, choiceVars, resultVars, verdict>>

Steps == {"finding", "assigning", "routed", "sending", "dropping", "waiting",
          "recording", "done"}

Errors == {"timeout", "disconnected", "too_large"}

Outcomes == {"none", "completed", "failed"} \cup Errors

TypeOK ==
  /\ TrackerTypeOK
  /\ session \in [Conns -> {"none", "open", "dropping", "closed"}]
  /\ online \subseteq {c \in Conns : session[c] = "open"}
  /\ step \in Steps
  /\ nodes \in Seq(Conns)
  /\ part \in Parts /\ turn \in 0..Len(nodes)
  /\ tried \subseteq Conns
  /\ socket \in Conns \cup {NoConn}
  /\ step \in {"routed", "sending", "dropping"} => socket \in Conns
  /\ assigned \in [Parts -> Conns \cup {NoConn}]
  /\ outcome \in [Parts -> Outcomes]
  /\ source \in [Parts -> Conns \cup {NoConn}]
  /\ verdict \in Outcomes \cup {"unavailable", "internal_error"}

Init ==
  /\ tasks = [t \in Parts |-> NoTask]
  /\ session = [c \in Conns |-> "none"] /\ online = {}
  /\ step = "finding"
  /\ nodes = <<>> /\ part = 1 /\ turn = 0 /\ tried = {} /\ socket = NoConn
  /\ assigned = [t \in Parts |-> NoConn]
  /\ outcome = [t \in Parts |-> "none"]
  /\ source = [t \in Parts |-> NoConn]
  /\ verdict = "none"

(***************************************************************************)
(* The sessions.                                                           *)
(***************************************************************************)
requestVars == <<step, choiceVars, resultVars, verdict>>

Connect(c) ==
  /\ session[c] = "none"
  /\ session' = [session EXCEPT ![c] = "open"]
  /\ online' = online \cup {c}
  /\ UNCHANGED <<tasks, requestVars>>

ReceiveResult(c, t, size, completed) ==
  /\ session[c] = "open" /\ Accepts(tasks, t, c)
  /\ tasks' = Resolved(tasks, t, c, size, completed)
  /\ UNCHANGED <<sessionVars, requestVars>>

\* The receive loop ends, and _drop_connection runs: to unregister's awaits, or,
\* when a failed send has detached the connection, to its end.
SessionEnds(c) ==
  /\ session[c] = "open"
  /\ online' = online \ {c}
  /\ IF c \in online
     THEN session' = [session EXCEPT ![c] = "dropping"] /\ UNCHANGED tasks
     ELSE /\ session' = [session EXCEPT ![c] = "closed"]
          /\ tasks' = ConnectionFailed(tasks, c)
  /\ UNCHANGED requestVars

SessionDropped(c) ==
  /\ session[c] = "dropping"
  /\ session' = [session EXCEPT ![c] = "closed"]
  /\ tasks' = ConnectionFailed(tasks, c)
  /\ UNCHANGED <<online, requestVars>>

(***************************************************************************)
(* split_content.  A content is the numbers of paragraphs, sentences and   *)
(* characters that there are to cut between.                               *)
(***************************************************************************)
Contents == [paragraphs: 1..MaxUnits, sentences: 1..MaxUnits, characters: 1..MaxUnits]

\* What the content is cut between: the coarsest that there is enough of.
Units(content) ==
  IF content.paragraphs >= SplitChunks THEN content.paragraphs
  ELSE IF content.sentences >= SplitChunks THEN content.sentences ELSE content.characters

\* A mutant: the last part is as long as the others.
ChunkWithoutRest(content, t) ==
  LET size == Units(content) \div SplitChunks IN (t - 1) * size + 1 .. t * size

\* The units of a part: equally many for each, and the rest for the last.
Chunk(content, t) ==
  LET size == Units(content) \div SplitChunks
  IN  (t - 1) * size + 1 .. (IF t < SplitChunks THEN t * size ELSE Units(content))

(***************************************************************************)
(* Assigning the parts.                                                    *)
(***************************************************************************)
\* The nodes that find_nodes_for_split may return: online when it looked, each
\* once.  Which are eligible, and their order, is left open.
Selections ==
  {s \in UNION {[1..n -> online] : n \in Parts} :
     \A i, j \in DOMAIN s : s[i] = s[j] => i = j}

FindNodes ==
  /\ step = "finding"
  /\ nodes' \in Selections
  /\ turn' = 0 /\ step' = "assigning"
  /\ UNCHANGED <<tasks, sessionVars, part, tried, socket, resultVars, verdict>>

\* The finally block: the parts that were assigned are popped.
Released(ts) == [t \in Parts |-> IF assigned[t] # NoConn THEN NoTask ELSE ts[t]]

\* The assignment is over, and its locals with it.
Forget == nodes' = <<>> /\ part' = 1 /\ turn' = 0 /\ tried' = {} /\ socket' = NoConn

\* A mutant: the parts already assigned are left to themselves.
GiveUpQuietly(reason) ==
  /\ verdict' = reason /\ step' = "done" /\ Forget
  /\ UNCHANGED <<tasks, sessionVars, resultVars>>

GiveUp(reason) ==
  /\ verdict' = reason /\ step' = "done" /\ Forget
  /\ tasks' = Released(tasks)
  /\ UNCHANGED <<sessionVars, resultVars>>

\* The nodes found were all tried for this part, and _dispatch looks for others.
Dispatching == step = "assigning" /\ turn = Len(nodes)

NoNodeAvailable ==
  /\ step = "finding" \/ Dispatching
  /\ GiveUp("unavailable")

RedisRaises ==
  /\ step \in {"finding", "dropping"} \/ Dispatching
  /\ GiveUp("internal_error")

\* find_best_node, as in RequestHandling.
Route(c) ==
  /\ Dispatching
  /\ Cardinality(tried) < DispatchAttempts
  /\ c \in online \ tried
  /\ tried' = tried \cup {c} /\ socket' = c /\ step' = "routed"
  /\ UNCHANGED <<tasks, sessionVars, nodes, part, turn, resultVars, verdict>>

\* The nodes found, starting from another one for each part; then _dispatch's.
Rotating == step = "assigning" /\ turn < Len(nodes)

Target == IF Rotating THEN nodes[((part - 1 + turn) % Len(nodes)) + 1] ELSE socket

\* A mutant: the same node again.
TryAgain ==
  /\ step' = "assigning" /\ socket' = NoConn
  /\ UNCHANGED <<nodes, part, turn, tried, resultVars, verdict>>

\* The target cannot take the part: the next one.
TryNext ==
  /\ turn' = IF turn < Len(nodes) THEN turn + 1 ELSE turn
  /\ step' = "assigning" /\ socket' = NoConn
  /\ UNCHANGED <<nodes, part, tried, resultVars, verdict>>

Assign ==
  /\ Rotating \/ step = "routed"
  /\ Target \in online
  /\ tasks' = Created(tasks, part, Target, {})
  /\ socket' = Target /\ step' = "sending"
  /\ UNCHANGED <<sessionVars, nodes, part, turn, tried, resultVars, verdict>>

NodeIsGone ==
  /\ Rotating \/ step = "routed"
  /\ Target \notin online
  /\ TryNext
  /\ UNCHANGED <<tasks, sessionVars>>

\* The next part, or, after the last, the wait for all of them.
NextPart ==
  IF part < SplitChunks
  THEN /\ step' = "assigning" /\ part' = part + 1
       /\ turn' = 0 /\ tried' = {} /\ socket' = NoConn /\ UNCHANGED nodes
  ELSE step' = "waiting" /\ Forget

\* A mutant: the part is put down to the node it was meant for.
SendSucceedsAsPlanned ==
  /\ step = "sending"
  /\ assigned' = [assigned EXCEPT ![part] = nodes[((part - 1) % Len(nodes)) + 1]]
  /\ NextPart
  /\ UNCHANGED <<tasks, sessionVars, outcome, source, verdict>>

SendSucceeds ==
  /\ step = "sending"
  /\ assigned' = [assigned EXCEPT ![part] = socket]
  /\ NextPart
  /\ UNCHANGED <<tasks, sessionVars, outcome, source, verdict>>

\* A mutant: the connection is detached and its other parts are forgotten.
SendFailsAlone ==
  /\ step = "sending"
  /\ online' = online \ {socket}
  /\ tasks' = Popped(tasks, part)
  /\ TryNext
  /\ UNCHANGED session

\* As in RequestHandling: pop the part, and drop the connection.
SendFails ==
  /\ step = "sending"
  /\ online' = online \ {socket}
  /\ IF socket \in online
     THEN /\ tasks' = Popped(tasks, part) /\ step' = "dropping"
          /\ UNCHANGED <<choiceVars, resultVars, verdict>>
     ELSE /\ tasks' = ConnectionFailed(Popped(tasks, part), socket)
          /\ TryNext
  /\ UNCHANGED session

\* unregister returned inside that drop.
SendDropped ==
  /\ step = "dropping"
  /\ tasks' = ConnectionFailed(tasks, socket)
  /\ TryNext
  /\ UNCHANGED sessionVars

(***************************************************************************)
(* Waiting for the parts, each of them for itself.                         *)
(***************************************************************************)
Waits(t) == step = "waiting" /\ outcome[t] = "none"

TakeOutcome(t) ==
  /\ Waits(t) /\ Tracked(t) /\ tasks[t].events # <<>>
  /\ Head(tasks[t].events).kind \in TerminalKinds
  /\ outcome' = [outcome EXCEPT ![t] = Head(tasks[t].events).kind]
  /\ source' = [source EXCEPT ![t] = Head(tasks[t].events).from]
  /\ tasks' = [tasks EXCEPT ![t].events = Tail(@)]
  /\ UNCHANGED <<sessionVars, step, choiceVars, assigned, verdict>>

\* The deadline of all parts passes.
TimesOut(t) ==
  /\ Waits(t)
  /\ outcome' = [outcome EXCEPT ![t] = "timeout"]
  /\ UNCHANGED <<tasks, sessionVars, step, choiceVars, assigned, source, verdict>>

\* The error of the first part that has one, or else the status of all.
IsAnswer(v) ==
  LET Wrong == {t \in Parts : outcome[t] \in Errors} IN
  \/ \E t \in Wrong : v = outcome[t] /\ \A u \in Wrong : t <= u
  \/ /\ Wrong = {}
     /\ v = IF \A t \in Parts : outcome[t] = "completed" THEN "completed" ELSE "failed"

\* gather returns once every part has an outcome, and the parts are popped.
Gathered ==
  /\ step = "waiting" /\ \A t \in Parts : outcome[t] # "none"
  /\ tasks' = Released(tasks)
  /\ step' = "recording" /\ verdict' \in Outcomes /\ IsAnswer(verdict')
  /\ UNCHANGED <<sessionVars, choiceVars, resultVars>>

\* _record_outcome returns, or Redis raises in it.
Recorded ==
  /\ step = "recording"
  /\ step' = "done" /\ verdict' \in {verdict, "internal_error"}
  /\ UNCHANGED <<tasks, sessionVars, choiceVars, resultVars>>

(***************************************************************************)
(* The specification.                                                      *)
(***************************************************************************)
SessionNext ==
  \E c \in Conns :
    \/ Connect(c) \/ SessionEnds(c) \/ SessionDropped(c)
    \/ \E t \in Parts, size \in Sizes, ok \in BOOLEAN : ReceiveResult(c, t, size, ok)

\* What the request does by itself, and with Redis replying.
RequestStep ==
  \/ FindNodes \/ NoNodeAvailable \/ RedisRaises \/ \E c \in Conns : Route(c)
  \/ Assign \/ NodeIsGone \/ SendSucceeds \/ SendFails \/ SendDropped
  \/ Gathered \/ Recorded

RequestNext ==
  RequestStep \/ \E t \in Parts : TakeOutcome(t) \/ TimesOut(t)

Next == SessionNext \/ RequestNext

Spec == Init /\ [][Next]_vars

\* asyncio runs the coroutines, and Redis replies or raises.  No timer fires, and
\* no node answers or ends its session, unless it happens to.
FairSpec ==
  /\ Spec
  /\ WF_vars(RequestStep)
  /\ \A t \in Parts : WF_vars(TakeOutcome(t))
  /\ \A c \in Conns : WF_vars(SessionDropped(c))

(***************************************************************************)
(* Properties.                                                             *)
(***************************************************************************)
\* The tracker holds a part only while the request assigns or awaits it: whichever
\* way _run_split_task ends, with parts assigned and others not, none is left.
PartsAreReleased ==
  \A t \in Parts : Tracked(t) =>
    /\ step \notin {"recording", "done"}
    /\ assigned[t] # NoConn \/ (t = part /\ step = "sending")

\* _run_split_task records each part's outcome for `task.node_id': what came back
\* is from the node the part was given to last, not from one that an earlier
\* attempt was sent to, or from the node of another part.
OutcomesAreOfTheirNodes ==
  \A t \in Parts : outcome[t] \notin {"none", "timeout"} => source[t] = assigned[t]

\* merge_results puts the parts' results one behind the other, in the order of the
\* parts: when the request is answered as completed, they are of the whole
\* content, however many units it has and whatever these are: no unit is in no
\* completed part, or in two, and none is answered before an earlier one.
AnswerIsOfTheWholeContent ==
  verdict = "completed" => \A content \in Contents :
    LET Answered == {t \in Parts : outcome[t] = "completed"} IN
    /\ UNION {Chunk(content, t) : t \in Answered} = 1..Units(content)
    /\ \A t, u \in Answered : t < u =>
         \A i \in Chunk(content, t), j \in Chunk(content, u) : i < j

\* Parts that are on a lost connection do not wait for the deadline, although the
\* connection may be lost while other parts are assigned, or by a send of one.
LostPartsEnd ==
  \A t \in Parts :
    (assigned[t] # NoConn /\ assigned[t] \notin online)
      ~> (outcome[t] # "none" \/ step = "done")

\* Without any timer the request is either answered or waits for a part whose
\* node is still connected: neither the search for nodes, each of which may go
\* when its turn comes, nor the parts that are lost keep it busy for ever.
WaitsOnlyForNodes ==
  <>[](step = "done" \/ \E t \in Parts : Waits(t) /\ assigned[t] \in online)
==============================================================================
