---------------------------- MODULE SdkNodeProofs ----------------------------
(***************************************************************************)
(* Theorems about SdkNode, for any processes, connections and faults: the  *)
(* SDK's node sends only where it is registered.                           *)
(*                                                                         *)
(* The argument: a process is alone on its connection, so that a slot is   *)
(* not used again under it (OwnLink); nobody can have read node_registered *)
(* on a connection whose session has not sent it (NoEarlyAnswer); and what *)
(* self._ws holds is the connection being received from (SocketIsLink).    *)
(***************************************************************************)
EXTENDS SdkNode, TLAPS

OwnLink ==
  \A p \in Procs : link[p] # NoConn =>
    conn[link[p]].opener = p /\ conn[link[p]].session # "free"

NoEarlyAnswer ==
  \A c \in Conns : conn[c].session = "opened" =>
    \A i \in DOMAIN conn[c].queue : conn[c].queue[i] # "registered"

ReceivesRegistered ==
  \A p \in Procs : pc[p] = "receiving" => conn[link[p]].session # "opened"

SocketIsLink ==
  \A p \in Procs :
    /\ socket[p] # NoConn => pc[p] = "receiving" /\ socket[p] = link[p]
    /\ closing[p] => socket[p] # NoConn

Inv == TypeOK /\ OwnLink /\ NoEarlyAnswer /\ ReceivesRegistered /\ SocketIsLink

LEMMA InvInit == Init => Inv
<1> SUFFICES ASSUME Init PROVE Inv
  OBVIOUS
<1>1. Unused \in Connection
  BY DEF Unused, Quiet, Connection, SessionStates
<1>2. TypeOK
  BY <1>1, SdkAssumption DEF Init, TypeOK, NodeStates
<1> QED
  BY <1>2 DEF Init, Inv, OwnLink, NoEarlyAnswer, ReceivesRegistered, SocketIsLink, Unused, Quiet

(***************************************************************************)
(* The parts of the state that the actions share.                          *)
(***************************************************************************)
\* One connection changes, to r.
LEMMA OneChanges ==
  ASSUME TypeOK, NEW c \in Conns, NEW r \in Connection, conn' = [conn EXCEPT ![c] = r]
  PROVE  /\ conn' \in [Conns -> Connection]
         /\ conn'[c] = r
         /\ \A d \in Conns \ {c} : conn'[d] = conn[d]
BY DEF TypeOK

\* A message added, read or lost leaves the queue a sequence, and adds no
\* node_registered to it.
LEMMA QueueSteps ==
  ASSUME NEW q \in Seq(Messages), NEW m \in Messages, NEW n \in 0..Len(q)
  PROVE  /\ Append(q, m) \in Seq(Messages)
         /\ q # <<>> => Tail(q) \in Seq(Messages)
         /\ SubSeq(q, 1, n) \in Seq(Messages)
         /\ (\A i \in DOMAIN q : q[i] # "registered") =>
              /\ m # "registered" =>
                   \A i \in DOMAIN Append(q, m) : Append(q, m)[i] # "registered"
              /\ q # <<>> => \A i \in DOMAIN Tail(q) : Tail(q)[i] # "registered"
              /\ \A i \in DOMAIN SubSeq(q, 1, n) : SubSeq(q, 1, n)[i] # "registered"
<1>1. /\ Append(q, m) \in Seq(Messages)
      /\ q # <<>> => Tail(q) \in Seq(Messages)
      /\ SubSeq(q, 1, n) \in Seq(Messages)
  OBVIOUS
<1>2. ASSUME \A i \in DOMAIN q : q[i] # "registered"
      PROVE  /\ m # "registered" =>
                  \A i \in DOMAIN Append(q, m) : Append(q, m)[i] # "registered"
             /\ q # <<>> => \A i \in DOMAIN Tail(q) : Tail(q)[i] # "registered"
             /\ \A i \in DOMAIN SubSeq(q, 1, n) : SubSeq(q, 1, n)[i] # "registered"
  BY <1>2
<1> QED
  BY <1>1, <1>2

\* The processes move on alone: connections keep their owners, and no session
\* starts over.
LEMMA LinkedAlone ==
  ASSUME Inv, NEW p \in Procs, link[p] # NoConn
  PROVE  /\ link[p] \in Conns
         /\ \A q \in Procs : link[q] = link[p] => q = p
BY DEF Inv, TypeOK, OwnLink

\* A process whose connection, queue and state of receiving stay as they are.
LEMMA QuietStep ==
  ASSUME Inv, NEW p \in Procs, NEW s \in NodeStates \ {"registering", "receiving"},
         pc[p] \notin {"registering", "receiving"}, pc' = [pc EXCEPT ![p] = s],
         running' \in [Procs -> BOOLEAN],
         UNCHANGED <<link, socket, closing, stopper, conn, live, faults>>
  PROVE  Inv'
<1>1. TypeOK'
  BY DEF Inv, TypeOK
<1>2. /\ \A q \in Procs : pc'[q] = "receiving" <=> pc[q] = "receiving"
  BY DEF Inv, TypeOK
<1> QED
  BY <1>1, <1>2 DEF Inv, OwnLink, NoEarlyAnswer, ReceivesRegistered, SocketIsLink

LEMMA LeftTyped ==
  ASSUME NEW k \in Connection
  PROVE  /\ Left(k) \in Connection /\ Left(k).queue = <<>>
         /\ Left(k).session = "opened" => k.session = "opened"
<1>1. <<>> \in Seq(Messages)
  OBVIOUS
<1>2. CASE k.session = "ended"
  <2>1. Left(k) = Unused
    BY <1>2 DEF Left
  <2> QED
    BY <2>1, <1>1 DEF Connection, Unused, Quiet, SessionStates
<1>3. CASE k.session # "ended"
  <2> DEFINE line == IF k.line = "lost" THEN "lost" ELSE "closed"
  <2>1. Left(k) = [k EXCEPT !.line = line, !.queue = <<>>]
    BY <1>3 DEF Left
  <2>2. line \in {"up", "shut", "closed", "lost"}
    OBVIOUS
  <2> HIDE DEF line
  <2>3. [k EXCEPT !.line = line, !.queue = <<>>] \in Connection
    BY <1>1, <2>2 DEF Connection
  <2> QED
    BY <1>1, <2>1, <2>2, <2>3 DEF Connection
<1> QED
  BY <1>2, <1>3

\* A process that leaves its connection.
LEMMA LeaveStep ==
  ASSUME Inv, NEW p \in Procs, NEW s \in NodeStates \ {"registering", "receiving"},
         pc[p] \in {"registering", "receiving"}, pc' = [pc EXCEPT ![p] = s],
         Leave(p), running' \in [Procs -> BOOLEAN], faults' \in 0..MaxFaults
  PROVE  Inv'
<1> DEFINE c == link[p]
           r == Left(conn[c])
<1>1. c \in Conns /\ \A q \in Procs : link[q] = c => q = p
  BY LinkedAlone DEF Inv, TypeOK
<1>2. r \in Connection /\ r.queue = <<>>
      /\ (r.session = "opened" => conn[c].session = "opened")
  BY <1>1, LeftTyped DEF Inv, TypeOK
<1> HIDE DEF r
<1>3. conn' = [conn EXCEPT ![c] = r]
  BY <1>1 DEF Inv, TypeOK, Leave, r
<1>4. /\ conn' \in [Conns -> Connection] /\ conn'[c] = r
      /\ \A d \in Conns \ {c} : conn'[d] = conn[d]
  BY <1>1, <1>2, <1>3, OneChanges DEF Inv
<1>5. /\ link'[p] = NoConn /\ socket'[p] = NoConn /\ ~closing'[p] /\ pc'[p] = s
      /\ \A q \in Procs \ {p} : /\ link'[q] = link[q] /\ socket'[q] = socket[q]
                                /\ closing'[q] = closing[q] /\ pc'[q] = pc[q]
  BY DEF Inv, TypeOK, Leave
<1>6. TypeOK'
  <2>1. /\ link' \in [Procs -> Conns \cup {NoConn}] /\ socket' \in [Procs -> Conns \cup {NoConn}]
        /\ closing' \in [Procs -> BOOLEAN] /\ pc' \in [Procs -> NodeStates]
        /\ stopper' = stopper /\ live' = live
    BY DEF Inv, TypeOK, Leave
  <2> QED
    BY <2>1, <1>4, <1>5 DEF Inv, TypeOK
<1>7. OwnLink' /\ ReceivesRegistered' /\ SocketIsLink'
  BY <1>1, <1>4, <1>5 DEF Inv, TypeOK, OwnLink, ReceivesRegistered, SocketIsLink
<1>8. NoEarlyAnswer'
  BY <1>2, <1>4 DEF Inv, NoEarlyAnswer
<1> QED
  BY <1>6, <1>7, <1>8 DEF Inv

\* A connection whose session goes on, with r in place of its record.
LEMMA SessionGoesOn ==
  ASSUME Inv, NEW c \in Conns, NEW r \in Connection, conn' = [conn EXCEPT ![c] = r],
         Linked(c) => r.opener = conn[c].opener /\ r.session # "free",
         r.session = "opened" =>
           /\ conn[c].session = "opened"
           /\ \A i \in DOMAIN r.queue : r.queue[i] # "registered",
         UNCHANGED <<nodeVars, stopper>>, live' \in Conns \cup {NoConn},
         faults' \in 0..MaxFaults
  PROVE  Inv'
<1>1. /\ conn' \in [Conns -> Connection] /\ conn'[c] = r
      /\ \A d \in Conns \ {c} : conn'[d] = conn[d]
  BY OneChanges DEF Inv
<1>2. TypeOK'
  BY <1>1 DEF Inv, TypeOK, nodeVars
<1> QED
  BY <1>1, <1>2
     DEF Inv, TypeOK, nodeVars, OwnLink, NoEarlyAnswer, ReceivesRegistered, SocketIsLink, Linked

\* A message read: the rest of the queue is as good as the queue was.
LEMMA MessageRead ==
  ASSUME Inv, NEW p \in Procs, link[p] \in Conns, conn[link[p]].queue # <<>>, GoesOn(p)
  PROVE  \E r \in Connection :
           /\ conn' = [conn EXCEPT ![link[p]] = r]
           /\ r.opener = conn[link[p]].opener /\ r.session = conn[link[p]].session
           /\ r.session # "free"
           /\ r.session = "opened" => \A i \in DOMAIN r.queue : r.queue[i] # "registered"
<1> DEFINE k == conn[link[p]]
           r == [k EXCEPT !.queue = Tail(@)]
<1>1. k \in Connection /\ k.queue \in Seq(Messages) /\ k.queue # <<>> /\ k.session # "free"
  BY SdkAssumption DEF Inv, TypeOK, Connection, OwnLink
<1>2. Tail(k.queue) \in Seq(Messages)
  BY <1>1
<1>3. r \in Connection /\ r.queue = Tail(k.queue) /\ r.opener = k.opener
      /\ r.session = k.session
  BY <1>1, <1>2 DEF Connection
<1>4. k.session = "opened" => \A i \in DOMAIN k.queue : k.queue[i] # "registered"
  BY DEF Inv, NoEarlyAnswer
<1>5. k.session = "opened" => \A i \in DOMAIN r.queue : r.queue[i] # "registered"
  BY <1>1, <1>3, <1>4
<1>6. conn' = [conn EXCEPT ![link[p]] = r]
  BY DEF GoesOn
<1> HIDE DEF k, r
<1> QED
  BY <1>1, <1>3, <1>5, <1>6 DEF k

\* node_registered is read, which a session that has not answered did not send.
LEMMA RegisteredStep ==
  ASSUME Inv, NEW p \in Procs, ReadRegistered(p)
  PROVE  Inv'
<1> DEFINE c == link[p]
<1>1. /\ pc[p] = "registering" /\ c \in Conns /\ c # NoConn
      /\ conn[c].queue # <<>> /\ Head(conn[c].queue) = "registered"
  BY SdkAssumption DEF ReadRegistered, Reads, Inv, TypeOK
<1>2. conn[c].session # "opened"
  <2>1. conn[c].queue \in Seq(Messages)
    BY <1>1 DEF Inv, TypeOK, Connection
  <2>2. 1 \in DOMAIN conn[c].queue /\ conn[c].queue[1] = "registered"
    BY <1>1, <2>1
  <2> QED
    BY <1>1, <2>2 DEF Inv, NoEarlyAnswer
<1>3. PICK r \in Connection :
        /\ conn' = [conn EXCEPT ![c] = r]
        /\ r.opener = conn[c].opener /\ r.session = conn[c].session /\ r.session # "free"
        /\ r.session = "opened" => \A i \in DOMAIN r.queue : r.queue[i] # "registered"
  BY <1>1, MessageRead DEF ReadRegistered
<1>4. /\ conn' \in [Conns -> Connection] /\ conn'[c] = r
      /\ \A d \in Conns \ {c} : conn'[d] = conn[d]
  BY <1>1, <1>3, OneChanges DEF Inv
<1>5. /\ pc'[p] = "receiving" /\ socket'[p] = c
      /\ \A q \in Procs \ {p} : pc'[q] = pc[q] /\ socket'[q] = socket[q]
      /\ link' = link /\ closing' = closing
  BY DEF ReadRegistered, Inv, TypeOK
<1>6. TypeOK'
  <2>1. pc' \in [Procs -> NodeStates] /\ socket' \in [Procs -> Conns \cup {NoConn}]
    BY <1>1 DEF ReadRegistered, Inv, TypeOK, NodeStates
  <2> QED
    BY <1>1, <1>4, <1>5, <2>1 DEF ReadRegistered, Inv, TypeOK
<1> HIDE DEF c
<1>7. OwnLink' /\ ReceivesRegistered'
  BY <1>2, <1>3, <1>4, <1>5 DEF Inv, TypeOK, OwnLink, ReceivesRegistered, c
<1>8. NoEarlyAnswer' /\ SocketIsLink'
  BY <1>1, <1>2, <1>3, <1>4, <1>5 DEF Inv, NoEarlyAnswer, SocketIsLink, c
<1> QED
  BY <1>6, <1>7, <1>8 DEF Inv

(***************************************************************************)
(* The steps.                                                              *)
(***************************************************************************)
LEMMA InterruptedStates ==
  ASSUME Inv, NEW p \in Procs, NEW replaced \in BOOLEAN, Interrupted(p, replaced) \/ Loops(p)
  PROVE  /\ running' \in [Procs -> BOOLEAN]
         /\ \E s \in NodeStates \ {"registering", "receiving"} : pc' = [pc EXCEPT ![p] = s]
<1>1. CASE Interrupted(p, replaced)
  <2>1. running' \in [Procs -> BOOLEAN]
    BY <1>1 DEF Interrupted, Inv, TypeOK
  <2> QED
    BY <1>1, <2>1 DEF Interrupted, NodeStates, Over
<1>2. CASE Loops(p)
  BY <1>2 DEF Loops, Inv, TypeOK, NodeStates, Over
<1> QED
  BY <1>1, <1>2

LEMMA NodeStep ==
  ASSUME Inv, NEW p \in Procs,
         \/ Start(p) \/ Wake(p) \/ ConnectFails(p) \/ Read(p)
         \/ RegisterTimesOut(p) \/ Stop(p) \/ StopCloses(p)
  PROVE  Inv'
<1> USE SdkAssumption
<1>1. CASE Start(p)
  <2>1. running' \in [Procs -> BOOLEAN]
    BY <1>1 DEF Start, Inv, TypeOK
  <2> QED
    BY <1>1, <2>1, QuietStep DEF Start, NodeStates
<1>2. CASE Wake(p) \/ ConnectFails(p)
  BY <1>2, InterruptedStates, QuietStep DEF Wake, ConnectFails
<1>3. CASE ReadRefused(p)
  <2>1. running' \in [Procs -> BOOLEAN] /\ faults' \in 0..MaxFaults
    BY <1>3 DEF ReadRefused, Inv, TypeOK
  <2> QED
    BY <1>3, <2>1, LeaveStep DEF ReadRefused, Reads, NodeStates, Over
<1>4. CASE ReadReplaced(p) \/ Disconnected(p)
  <2>1. faults' \in 0..MaxFaults /\ Leave(p) /\ pc[p] \in {"registering", "receiving"}
    BY <1>4 DEF ReadReplaced, Disconnected, Reads, Inv, TypeOK
  <2>2. PICK replaced \in BOOLEAN : Interrupted(p, replaced)
    BY <1>4 DEF ReadReplaced, Disconnected
  <2> QED
    BY <2>1, <2>2, InterruptedStates, LeaveStep
<1>5. CASE RegisterTimesOut(p)
  <2>1. faults' \in 0..MaxFaults
    BY <1>5 DEF RegisterTimesOut, Fault, Inv, TypeOK
  <2> QED
    BY <1>5, <2>1, InterruptedStates, LeaveStep DEF RegisterTimesOut
<1>6. CASE CloseScheduled(p)
  <2>1. faults' \in 0..MaxFaults /\ pc[p] \in {"registering", "receiving"}
    BY <1>6 DEF CloseScheduled, Inv, TypeOK, SocketIsLink
  <2>2. Leave(p) /\ (Interrupted(p, FALSE) \/ Loops(p))
    BY <1>6 DEF CloseScheduled
  <2> QED
    BY <2>1, <2>2, InterruptedStates, LeaveStep
<1>7. CASE Receive(p)
  <2>1. CASE Leave(p) /\ Loops(p) /\ UNCHANGED faults
    <3>1. faults' \in 0..MaxFaults /\ pc[p] \in {"registering", "receiving"}
      BY <1>7, <2>1 DEF Receive, Reads, Inv, TypeOK
    <3> QED
      BY <2>1, <3>1, InterruptedStates, LeaveStep
  <2>2. CASE GoesOn(p) /\ UNCHANGED <<nodeVars, stopper, live, faults>>
    <3>1. link[p] \in Conns /\ conn[link[p]].queue # <<>>
      BY <1>7 DEF Receive, Reads, Inv, TypeOK
    <3> QED
      BY <2>2, <3>1, MessageRead, SessionGoesOn DEF Inv, TypeOK
  <2> QED
    BY <1>7, <2>1, <2>2 DEF Receive
<1>8. CASE ReadRegistered(p)
  BY <1>8, RegisteredStep
<1>9. CASE Stop(p)
  <2>1. TypeOK'
    BY <1>9 DEF Stop, Inv, TypeOK
  <2> QED
    BY <1>9, <2>1 DEF Stop, Inv, OwnLink, NoEarlyAnswer, ReceivesRegistered, SocketIsLink
<1>10. CASE StopCloses(p)
  <2>1. TypeOK' /\ \A q \in Procs : closing'[q] => closing[q] \/ socket[q] # NoConn
    BY <1>10 DEF StopCloses, Inv, TypeOK
  <2> QED
    BY <1>10, <2>1 DEF StopCloses, Inv, OwnLink, NoEarlyAnswer, ReceivesRegistered, SocketIsLink
<1> QED
  BY <1>1, <1>2, <1>3, <1>4, <1>5, <1>6, <1>7, <1>8, <1>9, <1>10 DEF Read

\* The slot taken is free, so that no process is on it.
LEMMA ConnectStep ==
  ASSUME Inv, NEW p \in Procs, NEW c \in Conns, Connect(p, c)
  PROVE  Inv'
<1> DEFINE r == Quiet("opened", p)
<1>1. r \in Connection /\ r.queue = <<>> /\ r.opener = p /\ r.session = "opened"
  <2>1. <<>> \in Seq(Messages)
    OBVIOUS
  <2> QED
    BY <2>1 DEF Connection, SessionStates, Quiet
<1>2. conn[c] = Unused /\ conn[c].session = "free"
  BY DEF Connect, Opened, Unused, Quiet
<1>3. conn' = [conn EXCEPT ![c] = r]
  BY DEF Connect, Opened
<1> HIDE DEF r
<1>4. /\ conn' \in [Conns -> Connection] /\ conn'[c] = r
      /\ \A d \in Conns \ {c} : conn'[d] = conn[d]
  BY <1>1, <1>3, OneChanges DEF Inv
<1>5. \A q \in Procs : link[q] # c
  BY <1>2, SdkAssumption DEF Inv, OwnLink
<1>6. /\ pc[p] = "connecting" /\ pc'[p] = "registering" /\ link'[p] = c
      /\ \A q \in Procs \ {p} : pc'[q] = pc[q] /\ link'[q] = link[q]
      /\ socket' = socket /\ closing' = closing
  BY DEF Connect, Opened, Inv, TypeOK
<1>7. TypeOK'
  <2>1. pc' \in [Procs -> NodeStates] /\ link' \in [Procs -> Conns \cup {NoConn}]
    BY DEF Connect, Opened, Inv, TypeOK, NodeStates
  <2> QED
    BY <1>4, <1>6, <2>1, SdkAssumption DEF Connect, Opened, Inv, TypeOK
<1>8. OwnLink' /\ ReceivesRegistered'
  BY <1>1, <1>4, <1>5, <1>6, SdkAssumption DEF Inv, TypeOK, OwnLink, ReceivesRegistered
<1>9. NoEarlyAnswer' /\ SocketIsLink'
  BY <1>1, <1>4, <1>6 DEF Inv, NoEarlyAnswer, SocketIsLink
<1> QED
  BY <1>7, <1>8, <1>9 DEF Inv

LEMMA FaultStep == Inv /\ Fault => faults' \in 0..MaxFaults
BY SdkAssumption DEF Inv, TypeOK, Fault

LEMMA WithTyped ==
  ASSUME Inv, NEW c \in Conns, NEW m \in Messages
  PROVE  With(c, m) \in Seq(Messages)
BY DEF Inv, TypeOK, Connection, With

\* Two connections change: the one registered and the one it replaces.
LEMMA RegisterStep ==
  ASSUME Inv, NEW c \in Conns, Register(c)
  PROVE  Inv'
<1> DEFINE r == [conn[c] EXCEPT !.session = "attached", !.queue = With(c, "registered")]
           s(d) == [conn[d] EXCEPT !.replaced = TRUE]
<1>1. /\ conn[c] \in Connection /\ r \in Connection /\ r.opener = conn[c].opener
      /\ r.session = "attached"
  BY WithTyped DEF Inv, TypeOK, Connection, SessionStates, Messages
<1>2. \A d \in Conns : /\ s(d) \in Connection /\ s(d).opener = conn[d].opener
                        /\ s(d).session = conn[d].session /\ s(d).queue = conn[d].queue
  BY DEF Inv, TypeOK, Connection
<1>3. conn' = [d \in Conns |-> IF d = c THEN r ELSE IF d = live THEN s(d) ELSE conn[d]]
  BY DEF Register
<1> HIDE DEF r, s
<1>4. /\ conn' \in [Conns -> Connection] /\ conn'[c] = r
      /\ \A d \in Conns \ {c} : /\ conn'[d].opener = conn[d].opener
                                /\ conn'[d].session = conn[d].session
                                /\ conn'[d].queue = conn[d].queue
  BY <1>1, <1>2, <1>3 DEF Inv, TypeOK
<1>5. TypeOK'
  BY <1>4 DEF Register, nodeVars, Inv, TypeOK
<1>6. NoEarlyAnswer'
  BY <1>1, <1>4 DEF Inv, NoEarlyAnswer
<1> QED
  BY <1>1, <1>4, <1>5, <1>6
     DEF Register, nodeVars, Inv, TypeOK, OwnLink, ReceivesRegistered, SocketIsLink

LEMMA SessionStepKeeps ==
  ASSUME Inv, NEW c \in Conns, SessionStep(c) \/ CloseReplaced(c) \/ Break(c)
  PROVE  Inv'
<1>0. conn[c] \in Connection /\ conn[c].queue \in Seq(Messages)
  BY DEF Inv, TypeOK, Connection
<1>1. CASE Register(c)
  BY <1>1, RegisterStep
<1>2. CASE Refuse(c)
  <2> DEFINE r == [conn[c] EXCEPT !.session = "ended", !.line = "shut",
                                  !.queue = With(c, "refused")]
  <2>1. r \in Connection /\ r.opener = conn[c].opener /\ r.session = "ended"
    BY <1>0, WithTyped DEF Connection, SessionStates, Messages
  <2>2. conn' = [conn EXCEPT ![c] = r]
    BY <1>2 DEF Refuse, Inv, TypeOK
  <2>3. faults' \in 0..MaxFaults
    BY <1>2, FaultStep DEF Refuse
  <2>4. UNCHANGED <<nodeVars, stopper>> /\ live' \in Conns \cup {NoConn}
    BY <1>2 DEF Refuse, Inv, TypeOK
  <2> HIDE DEF r
  <2> QED
    BY <2>1, <2>2, <2>3, <2>4, SessionGoesOn
<1>3. CASE SendBenchmark(c)
  <2> DEFINE q == With(c, "benchmark")
             r == [conn[c] EXCEPT !.session = "serving", !.queue = q]
  <2>1. q \in Seq(Messages)
    BY <1>0, WithTyped DEF Messages
  <2>2. conn' = [conn EXCEPT ![c] = r]
    BY <1>3 DEF SendBenchmark, Inv, TypeOK
  <2> HIDE DEF q
  <2>3. r \in Connection /\ r.opener = conn[c].opener /\ r.session = "serving"
    BY <1>0, <2>1 DEF Connection, SessionStates
  <2> HIDE DEF r
  <2> QED
    BY <1>3, <2>2, <2>3, SessionGoesOn DEF SendBenchmark, Inv, TypeOK
<1>4. CASE CloseReplaced(c)
  <2> DEFINE k == IF conn[c].line = "up" THEN "shut" ELSE conn[c].line
             r == [conn[c] EXCEPT !.line = k, !.queue = With(c, "replaced"),
                                  !.replaced = FALSE]
  <2>1. With(c, "replaced") \in Seq(Messages)
    BY WithTyped DEF Messages
  <2>2. r \in Connection /\ r.opener = conn[c].opener /\ r.session = conn[c].session
        /\ r.queue = With(c, "replaced")
    BY <1>0, <2>1 DEF Connection
  <2>3. conn' = [conn EXCEPT ![c] = r]
    BY <1>4 DEF CloseReplaced, Inv, TypeOK
  <2> HIDE DEF k, r
  <2>4. conn[c].session = "opened" =>
          \A i \in DOMAIN conn[c].queue : conn[c].queue[i] # "registered"
    BY DEF Inv, NoEarlyAnswer
  <2>5. conn[c].session = "opened" =>
          \A i \in DOMAIN With(c, "replaced") : With(c, "replaced")[i] # "registered"
    <3>1. CASE Linked(c) /\ conn[c].line = "up"
      BY <1>0, <2>4, <3>1, QueueSteps DEF With, Messages
    <3>2. CASE ~(Linked(c) /\ conn[c].line = "up")
      BY <2>4, <3>2 DEF With
    <3> QED
      BY <3>1, <3>2
  <2>6. Linked(c) => r.session # "free"
    BY <2>2, SdkAssumption DEF Linked, Inv, OwnLink, TypeOK
  <2>7. r.session = "opened" => \A i \in DOMAIN r.queue : r.queue[i] # "registered"
    BY <2>2, <2>4, <2>5
  <2>8. UNCHANGED <<nodeVars, stopper>> /\ live' \in Conns \cup {NoConn}
        /\ faults' \in 0..MaxFaults
    BY <1>4 DEF CloseReplaced, Inv, TypeOK
  <2> QED
    BY <2>2, <2>3, <2>6, <2>7, <2>8, SessionGoesOn
<1>5. CASE SessionEnds(c)
  <2> DEFINE r == IF Linked(c) THEN [conn[c] EXCEPT !.session = "ended"] ELSE Unused
  <2>1. conn' = [conn EXCEPT ![c] = r]
    BY <1>5 DEF SessionEnds, Inv, TypeOK
  <2>2. /\ r \in Connection /\ r.session # "opened"
        /\ Linked(c) => r.opener = conn[c].opener /\ r.session # "free"
    <3>1. Unused \in Connection /\ Unused.session # "opened"
      BY DEF Connection, Unused, Quiet, SessionStates
    <3>2. CASE Linked(c)
      BY <1>0, <3>2 DEF Connection, SessionStates
    <3> QED
      BY <3>1, <3>2
  <2>3. UNCHANGED <<nodeVars, stopper>> /\ live' \in Conns \cup {NoConn}
        /\ faults' \in 0..MaxFaults
    BY <1>5 DEF SessionEnds, Inv, TypeOK
  <2> HIDE DEF r
  <2> QED
    BY <2>1, <2>2, <2>3, SessionGoesOn
<1>6. CASE Break(c)
  <2>1. PICK n \in 0..Len(conn[c].queue) :
          conn' = [conn EXCEPT ![c].line = "lost", ![c].queue = SubSeq(@, 1, n)]
    BY <1>6 DEF Break
  <2> DEFINE q == SubSeq(conn[c].queue, 1, n)
             r == [conn[c] EXCEPT !.line = "lost", !.queue = q]
  <2>2. conn' = [conn EXCEPT ![c] = r]
    BY <2>1 DEF Inv, TypeOK
  <2>3. /\ q \in Seq(Messages)
        /\ (\A i \in DOMAIN conn[c].queue : conn[c].queue[i] # "registered") =>
             \A i \in DOMAIN q : q[i] # "registered"
    BY <1>0
  <2> HIDE DEF q
  <2>4. r \in Connection /\ r.opener = conn[c].opener /\ r.session = conn[c].session
        /\ r.queue = q
    BY <1>0, <2>3 DEF Connection
  <2> HIDE DEF r
  <2>5. conn[c].session = "opened" => \A i \in DOMAIN r.queue : r.queue[i] # "registered"
    BY <2>3, <2>4 DEF Inv, NoEarlyAnswer
  <2>6. conn[c].session # "free" /\ faults' \in 0..MaxFaults
    BY <1>6, FaultStep DEF Break
  <2>7. UNCHANGED <<nodeVars, stopper>> /\ live' \in Conns \cup {NoConn}
    BY <1>6 DEF Break, Inv, TypeOK
  <2> QED
    BY <2>2, <2>4, <2>5, <2>6, <2>7, SessionGoesOn
<1> QED
  BY <1>1, <1>2, <1>3, <1>4, <1>5, <1>6 DEF SessionStep

LEMMA InvStep == Inv /\ [Next]_vars => Inv'
<1> SUFFICES ASSUME Inv, [Next]_vars PROVE Inv'
  OBVIOUS
<1>1. CASE UNCHANGED vars
  BY <1>1 DEF vars, nodeVars, Inv, TypeOK, OwnLink, NoEarlyAnswer, ReceivesRegistered,
              SocketIsLink
<1>2. CASE Next
  BY <1>2, NodeStep, ConnectStep, SessionStepKeeps DEF Next
<1> QED
  BY <1>1, <1>2

(***************************************************************************)
(* The theorems.                                                           *)
(***************************************************************************)
\* The variables keep their types, and a process has a connection exactly while
\* it registers on it or receives from it.
THEOREM NodeTypeCorrect == Spec => []TypeOK
<1>1. Inv => TypeOK
  BY DEF Inv
<1> QED
  BY <1>1, InvInit, InvStep, PTL DEF Spec

\* Whatever handlers and heartbeats send, with any number of processes and
\* however often connections break, reaches a session that has registered, on the
\* connection the process receives from.
THEOREM OnlyRegisteredAreSentTo == Spec => []OnlyRegisteredIsSentTo
<1>1. Inv => OnlyRegisteredIsSentTo
  BY DEF Inv, OnlyRegisteredIsSentTo, ReceivesRegistered, SocketIsLink
<1> QED
  BY <1>1, InvInit, InvStep, PTL DEF Spec
==============================================================================
