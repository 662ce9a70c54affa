------------------------------- MODULE SdkNode -------------------------------
(***************************************************************************)
(* A node's connection to the coordinator, seen from the node: the SDK's   *)
(* Node class (sdk/node.py), which connects, registers, receives,          *)
(* reconnects and is stopped from another thread.  The coordinator's end   *)
(* of each connection (node_websocket) is kept to what the node sees.      *)
(*                                                                         *)
(* All processes run the same node: the same API key and name.  A          *)
(* connection is a slot that is used again when both ends are gone.  It    *)
(* may break without either end noticing for a while.                      *)
(*                                                                         *)
(* Left out: handlers and heartbeats, which only send through self._ws;    *)
(* the delays of the back-off; the rejection after the acknowledgement,    *)
(* which is in NodeSessions; Ctrl+C.                                       *)
(***************************************************************************)
EXTENDS Naturals, Sequences

CONSTANTS
  Procs,       \* processes that run the node
  Conns,       \* slots for connections
  NoProc, NoConn,
  Stoppable,   \* bound: processes that stop() is called for
  MaxFaults    \* bound: connections that break, registrations that time out
               \* or are refused

ASSUME SdkAssumption ==
  /\ NoProc \notin Procs
  /\ NoConn \notin Conns
  /\ Stoppable \subseteq Procs
  /\ MaxFaults \in Nat

VARIABLES
  pc,       \* how far _async_start is
  running,  \* self._running
  link,     \* its local `ws', the connection of the `async with'
  socket,   \* self._ws
  stopper,  \* how far stop() is, in its own thread
  closing,  \* whether stop() has scheduled the close of the connection
  conn,     \* the connections and the coordinator's sessions on them
  live,     \* the connection in the coordinator's table for this node
  faults

nodeVars == <<pc, running, link, socket, closing>>
vars == <<nodeVars, stopper, conn, live, faults>>

Over == {"stopped", "raised"}
NodeStates ==
  {"ready", "connecting", "registering", "receiving", "sleeping"} \cup Over

\* "replaced" is the close frame with code 4000; "refused" is an error followed
\* by a close frame with another code.
Messages == {"registered", "refused", "benchmark", "replaced"}

SessionStates == {"free", "opened", "attached", "serving", "ended"}

\* opener: the process that connected.  line: "shut" when the coordinator has
\* closed it, "closed" when the node has, "lost" when it is broken.  queue:
\* what the node has yet to read.  replaced: _close_replaced is to run.
Connection ==
  [session: SessionStates, opener: Procs \cup {NoProc},
   line: {"up", "shut", "closed", "lost"}, queue: Seq(Messages),
   replaced: BOOLEAN]

Quiet(session, p) ==
  [session |-> session, opener |-> p, line |-> "up", queue |-> <<>>, replaced |-> FALSE]

Unused == Quiet("free", NoProc)

TypeOK ==
  /\ pc \in [Procs -> NodeStates]
  /\ running \in [Procs -> BOOLEAN]
  /\ link \in [Procs -> Conns \cup {NoConn}]
  /\ socket \in [Procs -> Conns \cup {NoConn}]
  /\ stopper \in [Procs -> {"idle", "cleared", "done"}]
  /\ closing \in [Procs -> BOOLEAN]
  /\ conn \in [Conns -> Connection]
  /\ live \in Conns \cup {NoConn}
  /\ faults \in 0..MaxFaults
  /\ \A p \in Procs : link[p] # NoConn <=> pc[p] \in {"registering", "receiving"}

Init ==
  /\ pc = [p \in Procs |-> "ready"]
  /\ running = [p \in Procs |-> FALSE]
  /\ link = [p \in Procs |-> NoConn]
  /\ socket = [p \in Procs |-> NoConn]
  /\ stopper = [p \in Procs |-> "idle"]
  /\ closing = [p \in Procs |-> FALSE]
  /\ conn = [c \in Conns |-> Unused]
  /\ live = NoConn
  /\ faults = 0

Linked(c) == \E p \in Procs : link[p] = c

Fault == faults < MaxFaults /\ faults' = faults + 1

(***************************************************************************)
(* The node.                                                               *)
(***************************************************************************)
Start(p) ==
  /\ pc[p] = "ready"
  /\ pc' = [pc EXCEPT ![p] = "connecting"]
  /\ running' = [running EXCEPT ![p] = TRUE]
  /\ UNCHANGED <<link, socket, closing, stopper, conn, live, faults>>

\* `while self._running'.
Loops(p) ==
  /\ pc' = [pc EXCEPT ![p] = IF running[p] THEN "connecting" ELSE "stopped"]
  /\ UNCHANGED running

\* The back-off is over.
Wake(p) ==
  /\ pc[p] = "sleeping"
  /\ Loops(p)
  /\ UNCHANGED <<link, socket, closing, stopper, conn, live, faults>>

\* It does not matter which of the slots that are free it takes.
Opened(p, c) ==
  /\ pc[p] = "connecting"
  /\ conn[c] = Unused /\ c = CHOOSE d \in Conns : conn[d] = Unused
  /\ pc' = [pc EXCEPT ![p] = "registering"]
  /\ link' = [link EXCEPT ![p] = c]
  /\ conn' = [conn EXCEPT ![c] = Quiet("opened", p)]
  /\ UNCHANGED <<running, closing, stopper, live, faults>>

\* A mutant: the connection can be sent to before it is registered.
ConnectSendingEarly(p, c) ==
  /\ Opened(p, c)
  /\ socket' = [socket EXCEPT ![p] = c]

Connect(p, c) ==
  /\ Opened(p, c)
  /\ UNCHANGED socket

\* The except clause: a node that was replaced, or stopped, does not go on.
Interrupted(p, replaced) ==
  /\ running' = [running EXCEPT ![p] = @ /\ ~replaced]
  /\ pc' = [pc EXCEPT ![p] = IF running'[p] THEN "sleeping" ELSE "stopped"]

\* No coordinator, or one that refuses the handshake.
ConnectFails(p) ==
  /\ pc[p] = "connecting"
  /\ Interrupted(p, FALSE)
  /\ UNCHANGED <<link, socket, closing, stopper, conn, live, faults>>

\* A connection k that the node has left.
Left(k) ==
  IF k.session = "ended" THEN Unused
  ELSE [k EXCEPT !.line = IF k.line = "lost" THEN "lost" ELSE "closed", !.queue = <<>>]

\* The end of the `async with': the connection is closed, and what stop() still
\* wanted to close is.
Leave(p) ==
  /\ link' = [link EXCEPT ![p] = NoConn]
  /\ socket' = [socket EXCEPT ![p] = NoConn]
  /\ closing' = [closing EXCEPT ![p] = FALSE]
  /\ conn' = [conn EXCEPT ![link[p]] = Left(@)]
  /\ UNCHANGED <<stopper, live>>

\* In the given state, the next message the node reads is m.
Reads(p, state, m) ==
  /\ pc[p] = state
  /\ conn[link[p]].queue # <<>> /\ Head(conn[link[p]].queue) = m

GoesOn(p) == conn' = [conn EXCEPT ![link[p]].queue = Tail(@)]

\* _register returns, and the connection may be sent to.
ReadRegistered(p) ==
  /\ Reads(p, "registering", "registered")
  /\ GoesOn(p)
  /\ pc' = [pc EXCEPT ![p] = "receiving"]
  /\ socket' = [socket EXCEPT ![p] = link[p]]
  /\ UNCHANGED <<running, link, closing, stopper, live, faults>>

\* The coordinator refused: _register raises an error that nothing catches.
ReadRefused(p) ==
  /\ Reads(p, "registering", "refused")
  /\ Leave(p)
  /\ pc' = [pc EXCEPT ![p] = "raised"]
  /\ running' = [running EXCEPT ![p] = FALSE]
  /\ UNCHANGED faults

RegisterTimesOut(p) ==
  /\ pc[p] = "registering"
  /\ Fault
  /\ Leave(p)
  /\ Interrupted(p, FALSE)

\* A mutant: the receive loop does not look at self._running.
ReceiveAlways(p) ==
  /\ Reads(p, "receiving", "benchmark")
  /\ GoesOn(p)
  /\ UNCHANGED <<nodeVars, stopper, live, faults>>

\* The receive loop looks at self._running before each message.
Receive(p) ==
  /\ Reads(p, "receiving", "benchmark")
  /\ \/ /\ running[p]
        /\ GoesOn(p)
        /\ UNCHANGED <<nodeVars, stopper, live, faults>>
     \/ /\ ~running[p]
        /\ Leave(p)
        /\ Loops(p)
        /\ UNCHANGED faults

ReadReplaced(p) ==
  /\ Reads(p, "receiving", "replaced")
  /\ Leave(p)
  /\ Interrupted(p, TRUE)
  /\ UNCHANGED faults

\* Nothing arrives any more: a ping goes unanswered, or the socket fails.
Disconnected(p) ==
  /\ pc[p] \in {"registering", "receiving"}
  /\ conn[link[p]].line = "lost" /\ conn[link[p]].queue = <<>>
  /\ Leave(p)
  /\ Interrupted(p, FALSE)
  /\ UNCHANGED faults

\* The close that stop() scheduled runs and ends the receive loop: normally if
\* the coordinator answers the close frame, with an error if it does not.
CloseScheduled(p) ==
  /\ closing[p]
  /\ Leave(p)
  /\ IF conn[link[p]].line = "lost"
     THEN Interrupted(p, FALSE)
     ELSE Loops(p)
  /\ UNCHANGED faults

(***************************************************************************)
(* stop(), in any thread.  Bound: it is called once for each process, and  *)
(* after start(), which would undo an earlier call.                        *)
(***************************************************************************)
Stop(p) ==
  /\ p \in Stoppable /\ pc[p] # "ready" /\ stopper[p] = "idle"
  /\ stopper' = [stopper EXCEPT ![p] = "cleared"]
  /\ running' = [running EXCEPT ![p] = FALSE]
  /\ UNCHANGED <<pc, link, socket, closing, conn, live, faults>>

StopCloses(p) ==
  /\ stopper[p] = "cleared"
  /\ stopper' = [stopper EXCEPT ![p] = "done"]
  /\ closing' = [closing EXCEPT ![p] = socket[p] # NoConn]
  /\ UNCHANGED <<pc, running, link, socket, conn, live, faults>>

(***************************************************************************)
(* The coordinator: node_websocket on connection c.                        *)
(***************************************************************************)
\* What is sent on a broken line, or to a node that has left it, is gone.
With(c, m) ==
  IF Linked(c) /\ conn[c].line = "up" THEN Append(conn[c].queue, m) ELSE conn[c].queue

Refuse(c) ==
  /\ conn[c].session = "opened" /\ conn[c].line = "up"
  /\ Fault
  /\ conn' = [conn EXCEPT ![c].session = "ended", ![c].line = "shut",
                          ![c].queue = With(c, "refused")]
  /\ UNCHANGED <<nodeVars, stopper, live>>

\* The key is valid: acknowledge, attach, and see to it that the connection
\* replaced is closed.  One action, since the acknowledgement is sent faster than
\* a node gives up and connects again.  The coordinator may not know yet that the
\* line is broken.
Register(c) ==
  LET previous == live IN
  /\ conn[c].session = "opened" /\ conn[c].line # "closed"
  /\ live' = c
  /\ conn' = [d \in Conns |->
       IF d = c THEN [conn[c] EXCEPT !.session = "attached",
                                     !.queue = With(c, "registered")]
       ELSE IF d = previous THEN [conn[d] EXCEPT !.replaced = TRUE]
       ELSE conn[d]]
  /\ UNCHANGED <<nodeVars, stopper, faults>>

SendBenchmark(c) ==
  /\ conn[c].session = "attached"
  /\ conn' = [conn EXCEPT ![c].session = "serving", ![c].queue = With(c, "benchmark")]
  /\ UNCHANGED <<nodeVars, stopper, live, faults>>

\* _close_replaced: on a broken line the close frame does not arrive.
CloseReplaced(c) ==
  /\ conn[c].replaced
  /\ conn' = [conn EXCEPT ![c].line = IF @ = "up" THEN "shut" ELSE @,
                          ![c].queue = With(c, "replaced"), ![c].replaced = FALSE]
  /\ UNCHANGED <<nodeVars, stopper, live, faults>>

\* A mutant: it takes the node's entry from the table, whosever it is.
SessionEndsDetaching(c) ==
  /\ conn[c].session \in {"opened", "serving"} /\ conn[c].line # "up"
  /\ live' = NoConn
  /\ conn' = [conn EXCEPT ![c] = IF Linked(c) THEN [@ EXCEPT !.session = "ended"]
                                              ELSE Unused]
  /\ UNCHANGED <<nodeVars, stopper, faults>>

\* Sending or receiving fails, or the socket was closed: the session ends.
SessionEnds(c) ==
  /\ conn[c].session \in {"opened", "serving"} /\ conn[c].line # "up"
  /\ live' = IF live = c THEN NoConn ELSE live
  /\ conn' = [conn EXCEPT ![c] = IF Linked(c) THEN [@ EXCEPT !.session = "ended"]
                                              ELSE Unused]
  /\ UNCHANGED <<nodeVars, stopper, faults>>

\* The network loses the connection with the last of what was sent.
Break(c) ==
  /\ conn[c].session # "free" /\ conn[c].line \in {"up", "shut"}
  /\ Fault
  /\ \E n \in 0..Len(conn[c].queue) :
       conn' = [conn EXCEPT ![c].line = "lost", ![c].queue = SubSeq(@, 1, n)]
  /\ UNCHANGED <<nodeVars, stopper, live>>

(***************************************************************************)
(* The specification.                                                      *)
(***************************************************************************)
Read(p) ==
  \/ ReadRegistered(p) \/ ReadRefused(p) \/ Receive(p) \/ ReadReplaced(p)
  \/ Disconnected(p) \/ CloseScheduled(p)

SessionStep(c) ==
  \/ Register(c) \/ Refuse(c) \/ SendBenchmark(c) \/ SessionEnds(c)

Next ==
  \/ \E p \in Procs :
       \/ Start(p) \/ Wake(p) \/ ConnectFails(p) \/ Read(p)
       \/ RegisterTimesOut(p) \/ Stop(p) \/ StopCloses(p)
       \/ \E c \in Conns : Connect(p, c)
  \/ \E c \in Conns : SessionStep(c) \/ CloseReplaced(c) \/ Break(c)

Spec == Init /\ [][Next]_vars

\* Nodes and coordinator run, a stop() that has begun goes on, pings find broken
\* lines, and attempts to connect do not fail forever.
Fairness ==
  /\ \A p \in Procs :
       /\ WF_vars(Wake(p)) /\ WF_vars(Read(p)) /\ WF_vars(StopCloses(p))
       /\ SF_vars(\E c \in Conns : Connect(p, c))
  /\ \A c \in Conns : WF_vars(SessionStep(c)) /\ WF_vars(CloseReplaced(c))

FairSpec == Spec /\ Fairness

(***************************************************************************)
(* Properties.                                                             *)
(***************************************************************************)
\* Handlers that outlive a connection, and heartbeats, send through self._ws
\* whenever they are ready: it is never a connection whose first message, the
\* registration, is not yet accepted (the coordinator would refuse it, which
\* ends the node for good), nor one that the node has left.
OnlyRegisteredIsSentTo ==
  \A p \in Procs : socket[p] # NoConn =>
    /\ pc[p] = "receiving" /\ socket[p] = link[p]
    /\ conn[socket[p]].session # "opened"

\* "Stop the node; safe to call from any thread", whatever the node is doing:
\* a node that was started and then stopped, or replaced, ends.
StopIsObeyed ==
  \A p \in Procs : (pc[p] # "ready" /\ ~running[p]) ~> pc[p] \in Over

\* Once the network is quiet, every process is over, or serves on the connection
\* that the coordinator routes to: a node comes back after any disconnection, and
\* processes that run the same node do not replace each other for ever
\* ("Reconnecting would just kick the other process off again").
SystemSettles ==
  <>[](\A p \in Procs :
         \/ pc[p] \in {"ready"} \cup Over
         \/ pc[p] = "receiving" /\ link[p] = live)
==============================================================================
