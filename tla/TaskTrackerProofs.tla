-------------------------- MODULE TaskTrackerProofs --------------------------
(***************************************************************************)
(* What the operations of the tracker preserve, for any table: its types,  *)
(* and the two facts about every entry that RequestHandlingProofs rests    *)
(* on.  The facts are about one entry, so each operation is a lemma about  *)
(* the entry it writes.                                                    *)
(***************************************************************************)
EXTENDS TaskTracker, TLAPS

Table == [TaskIds -> PendingTask \cup {NoTask}]

\* Every event of the task was produced by its connection.
AnsweredByOwner(task) ==
  \A i \in DOMAIN task.events : task.events[i].from = task.connection

\* Only the last event is final, and only a finished task has one.
FinalLast(task) ==
  \A i \in DOMAIN task.events :
    task.events[i].kind \in TerminalKinds => task.finished /\ i = Len(task.events)

GoodTask(task) == AnsweredByOwner(task) /\ FinalLast(task)

GoodTable(ts) == \A t \in TaskIds : ts[t] # NoTask => GoodTask(ts[t])

\* What no operation but create does: track a task, move a task to another
\* connection, or reopen one that is finished.
Continues(new, ts) ==
  \A t \in TaskIds : new[t] # NoTask =>
    /\ ts[t] # NoTask
    /\ new[t].connection = ts[t].connection
    /\ ts[t].finished => new[t].finished

\* Put appends one event and changes nothing else.
LEMMA PutEvent ==
  ASSUME NEW task \in PendingTask, NEW kind \in TerminalKinds \cup {"chunk"},
         NEW c \in Conns, NEW size \in Nat
  PROVE  LET ev == [kind |-> kind, from |-> c, size |-> size] IN
         /\ ev \in Event
         /\ Put(task, kind, c, size) \in PendingTask
         /\ Put(task, kind, c, size).connection = task.connection
         /\ Put(task, kind, c, size).finished = task.finished
         /\ Put(task, kind, c, size).streamed = task.streamed
         /\ Put(task, kind, c, size).events = Append(task.events, ev)
<1> DEFINE ev == [kind |-> kind, from |-> c, size |-> size]
<1>1. ev \in Event
  BY DEF Event
<1>2. Put(task, kind, c, size) = [task EXCEPT !.events = Append(task.events, ev)]
  BY DEF Put
<1> HIDE DEF ev
<1>3. Append(task.events, ev) \in Seq(Event)
  BY <1>1 DEF PendingTask
<1>4. /\ Put(task, kind, c, size) \in PendingTask
      /\ Put(task, kind, c, size).connection = task.connection
      /\ Put(task, kind, c, size).finished = task.finished
      /\ Put(task, kind, c, size).streamed = task.streamed
      /\ Put(task, kind, c, size).events = Append(task.events, ev)
  BY <1>2, <1>3 DEF PendingTask
<1> QED
  BY <1>1, <1>4 DEF ev

\* A good task stays good when its own connection adds an event behind which
\* it is finished, or a chunk.
LEMMA AppendKeepsGood ==
  ASSUME NEW task \in PendingTask, ~task.finished, GoodTask(task),
         NEW new \in PendingTask, NEW ev \in Event,
         new.connection = task.connection,
         new.events = Append(task.events, ev),
         ev.from = task.connection,
         ev.kind \in TerminalKinds => new.finished
  PROVE  GoodTask(new)
<1>1. task.events \in Seq(Event)
  BY DEF PendingTask
<1>2. \A i \in DOMAIN new.events :
        \/ i \in DOMAIN task.events /\ new.events[i] = task.events[i]
        \/ new.events[i] = ev /\ i = Len(new.events)
  BY <1>1
<1>3. AnsweredByOwner(new)
  BY <1>2 DEF GoodTask, AnsweredByOwner
<1>4. FinalLast(new)
  BY <1>2 DEF GoodTask, FinalLast
<1> QED
  BY <1>3, <1>4 DEF GoodTask

\* Queueing a chunk on an unfinished task, by its own connection.
LEMMA PutChunk ==
  ASSUME NEW task \in PendingTask, ~task.finished, GoodTask(task), NEW size \in Nat
  PROVE  LET new == Put(task, "chunk", task.connection, size) IN
         /\ new \in PendingTask
         /\ new.connection = task.connection
         /\ GoodTask(new)
<1> DEFINE new == Put(task, "chunk", task.connection, size)
           ev == [kind |-> "chunk", from |-> task.connection, size |-> size]
<1>1. task.connection \in Conns
  BY DEF PendingTask
<1>2. /\ ev \in Event
      /\ new \in PendingTask
      /\ new.connection = task.connection
      /\ new.events = Append(task.events, ev)
  BY <1>1, PutEvent
<1>3. ev.from = task.connection /\ ev.kind \notin TerminalKinds
  BY DEF TerminalKinds
<1> HIDE DEF new, ev
<1>4. GoodTask(new)
  BY <1>2, <1>3, AppendKeepsGood
<1> QED
  BY <1>2, <1>4 DEF new

\* Finishing an unfinished task on behalf of its own connection.
LEMMA FinishTask ==
  ASSUME NEW task \in PendingTask, ~task.finished, GoodTask(task),
         NEW kind \in TerminalKinds
  PROVE  LET new == Finish(task, kind, task.connection) IN
         /\ new \in PendingTask
         /\ new.connection = task.connection
         /\ new.finished
         /\ GoodTask(new)
<1> DEFINE put == Put(task, kind, task.connection, 0)
           new == Finish(task, kind, task.connection)
           ev == [kind |-> kind, from |-> task.connection, size |-> 0]
<1>1. task.connection \in Conns
  BY DEF PendingTask
<1>2. /\ ev \in Event
      /\ put \in PendingTask
      /\ put.connection = task.connection
      /\ put.events = Append(task.events, ev)
  BY <1>1, PutEvent
<1>3. ev.from = task.connection
  OBVIOUS
<1>4. new = [put EXCEPT !.finished = TRUE]
  BY DEF Finish
<1> HIDE DEF put, new, ev
<1>5. /\ new \in PendingTask
      /\ new.finished = TRUE
      /\ new.connection = put.connection
      /\ new.events = put.events
  BY <1>2, <1>4 DEF PendingTask
<1>6. GoodTask(new)
  BY <1>2, <1>3, <1>5, AppendKeepsGood
<1> QED
  BY <1>2, <1>5, <1>6 DEF new

(***************************************************************************)
(* The operations on the table.                                            *)
(***************************************************************************)
\* An entry that is in the table is a task.
LEMMA TrackedIsTask ==
  ASSUME NEW ts \in Table, NEW t \in TaskIds, ts[t] # NoTask
  PROVE  ts[t] \in PendingTask
BY DEF Table

\* Overwriting a tracked entry with a good task of the same connection that
\* is finished if the entry was.
LEMMA UpdateTable ==
  ASSUME NEW ts \in Table, GoodTable(ts),
         NEW id \in TaskIds, ts[id] # NoTask,
         NEW task \in PendingTask, GoodTask(task),
         task.connection = ts[id].connection,
         ts[id].finished => task.finished
  PROVE  LET new == [ts EXCEPT ![id] = task] IN
         new \in Table /\ GoodTable(new) /\ Continues(new, ts)
<1> DEFINE new == [ts EXCEPT ![id] = task]
<1>1. new \in Table
  BY DEF Table
<1>2. /\ new[id] = task
      /\ \A t \in TaskIds : t # id => new[t] = ts[t]
  BY DEF Table
<1> HIDE DEF new
<1>3. GoodTable(new)
  BY <1>2 DEF GoodTable
<1>4. Continues(new, ts)
  BY <1>2 DEF Continues
<1> QED
  BY <1>1, <1>3, <1>4 DEF new

LEMMA CreatedTable ==
  ASSUME NEW ts \in Table, GoodTable(ts),
         NEW id \in TaskIds, NEW c \in Conns, NEW expired
  PROVE  LET new == Created(ts, id, c, expired) IN
         /\ new \in Table
         /\ GoodTable(new)
         /\ new[id] # NoTask /\ new[id].connection = c
         /\ \A t \in TaskIds \ {id} : new[t] # NoTask => new[t] = ts[t]
<1> DEFINE new == Created(ts, id, c, expired)
           task == [connection |-> c, finished |-> FALSE, streamed |-> 0, events |-> <<>>]
<1>1. task \in PendingTask
  BY DEF PendingTask
<1>2. task.connection = c /\ task.events = <<>>
  OBVIOUS
<1>3. GoodTask(task)
  BY <1>2 DEF GoodTask, AnsweredByOwner, FinalLast
<1>4. new = [t \in TaskIds |->
               IF t = id THEN task ELSE IF t \in expired THEN NoTask ELSE ts[t]]
  BY DEF Created
<1> HIDE DEF new, task
<1>5. new \in Table
  BY <1>1, <1>4 DEF Table
<1>6. /\ new[id] = task
      /\ \A t \in TaskIds \ {id} : new[t] # NoTask => new[t] = ts[t]
  BY <1>4
<1>7. task # NoTask
  BY <1>1, NoTaskAssumption
<1>8. GoodTable(new)
  BY <1>3, <1>6 DEF GoodTable
<1> QED
  BY <1>2, <1>5, <1>6, <1>7, <1>8 DEF new

LEMMA PoppedTable ==
  ASSUME NEW ts \in Table, GoodTable(ts), NEW id \in TaskIds
  PROVE  LET new == Popped(ts, id) IN
         /\ new \in Table
         /\ GoodTable(new)
         /\ Continues(new, ts)
         /\ new[id] = NoTask
<1> DEFINE new == Popped(ts, id)
<1>1. new \in Table
  BY DEF Popped, Table
<1>2. new[id] = NoTask /\ \A t \in TaskIds : t # id => new[t] = ts[t]
  BY DEF Popped, Table
<1> HIDE DEF new
<1>3. GoodTable(new) /\ Continues(new, ts)
  BY <1>2 DEF GoodTable, Continues
<1> QED
  BY <1>1, <1>2, <1>3 DEF new

\* Taking the first event off a queue.
LEMMA TakenTable ==
  ASSUME NEW ts \in Table, GoodTable(ts), NEW id \in TaskIds, ts[id] # NoTask,
         ts[id].events # <<>>
  PROVE  LET new == [ts EXCEPT ![id].events = Tail(@)] IN
         new \in Table /\ GoodTable(new) /\ Continues(new, ts)
<1> DEFINE old == ts[id]
           task == [old EXCEPT !.events = Tail(old.events)]
<1>1. old \in PendingTask /\ GoodTask(old) /\ old.events # <<>>
  BY TrackedIsTask DEF GoodTable
<1>2. [ts EXCEPT ![id].events = Tail(@)] = [ts EXCEPT ![id] = task]
  BY DEF Table
<1> HIDE DEF old
<1>3. Tail(old.events) \in Seq(Event)
  BY <1>1 DEF PendingTask
<1>4. /\ task \in PendingTask
      /\ task.connection = old.connection
      /\ task.finished = old.finished
      /\ task.events = Tail(old.events)
  BY <1>1, <1>3 DEF PendingTask
<1> HIDE DEF task
<1>5. old.events \in Seq(Event)
  BY <1>1 DEF PendingTask
<1>6. \A i \in DOMAIN task.events :
        /\ i + 1 \in DOMAIN old.events
        /\ task.events[i] = old.events[i + 1]
        /\ i = Len(task.events) <=> i + 1 = Len(old.events)
  BY <1>1, <1>4, <1>5
<1>7. GoodTask(task)
  BY <1>1, <1>4, <1>6 DEF GoodTask, AnsweredByOwner, FinalLast
<1>8. task.connection = ts[id].connection /\ (ts[id].finished => task.finished)
  BY <1>4 DEF old
<1> QED
  BY <1>2, <1>4, <1>7, <1>8, UpdateTable

LEMMA ChunkAddedTable ==
  ASSUME NEW ts \in Table, GoodTable(ts), NEW id \in TaskIds, NEW c \in Conns,
         Accepts(ts, id, c), NEW size \in Nat
  PROVE  LET new == ChunkAdded(ts, id, c, size) IN
         new \in Table /\ GoodTable(new) /\ Continues(new, ts)
<1> DEFINE old == ts[id]
           task == [old EXCEPT !.streamed = old.streamed + size]
           next == IF TooLarge(task.streamed) THEN Finish(task, "too_large", c)
                                              ELSE Put(task, "chunk", c, size)
<1>1. /\ old # NoTask /\ ~old.finished /\ old.connection = c
      /\ old \in PendingTask /\ GoodTask(old)
  BY TrackedIsTask DEF Accepts, Owned, GoodTable
<1>2. ChunkAdded(ts, id, c, size) = [ts EXCEPT ![id] = next]
  BY DEF ChunkAdded
<1> HIDE DEF old
<1>3. /\ task \in PendingTask
      /\ task.connection = c
      /\ task.finished = FALSE
      /\ task.events = old.events
  BY <1>1 DEF PendingTask
<1> HIDE DEF task
<1>4. GoodTask(task)
  BY <1>1, <1>3 DEF GoodTask, AnsweredByOwner, FinalLast
<1>5. next \in PendingTask /\ next.connection = c /\ GoodTask(next)
  BY <1>3, <1>4, PutChunk, FinishTask DEF TerminalKinds
<1> HIDE DEF next
<1> QED
  BY <1>1, <1>2, <1>5, UpdateTable DEF old

LEMMA ResolvedTable ==
  ASSUME NEW ts \in Table, GoodTable(ts), NEW id \in TaskIds, NEW c \in Conns,
         Accepts(ts, id, c), NEW size \in Nat, NEW completed \in BOOLEAN
  PROVE  LET new == Resolved(ts, id, c, size, completed) IN
         new \in Table /\ GoodTable(new) /\ Continues(new, ts)
<1> DEFINE kind == IF TooLarge(size) THEN "too_large"
                   ELSE IF completed THEN "completed" ELSE "failed"
           next == Finish(ts[id], kind, c)
<1>1. /\ ts[id] # NoTask /\ ~ts[id].finished /\ ts[id].connection = c
      /\ ts[id] \in PendingTask /\ GoodTask(ts[id])
  BY TrackedIsTask DEF Accepts, Owned, GoodTable
<1>2. kind \in TerminalKinds
  BY DEF TerminalKinds
<1>3. Resolved(ts, id, c, size, completed) = [ts EXCEPT ![id] = next]
  BY DEF Resolved
<1> HIDE DEF kind
<1>4. next \in PendingTask /\ next.connection = c /\ GoodTask(next)
  BY <1>1, <1>2, FinishTask
<1> HIDE DEF next
<1> QED
  BY <1>1, <1>3, <1>4, UpdateTable

\* No task of the connection is left unfinished.
LEMMA ConnectionFailedTable ==
  ASSUME NEW ts \in Table, GoodTable(ts), NEW c \in Conns
  PROVE  LET new == ConnectionFailed(ts, c) IN
         /\ new \in Table
         /\ GoodTable(new)
         /\ Continues(new, ts)
         /\ \A t \in TaskIds :
              new[t] # NoTask /\ ~new[t].finished => new[t].connection # c
<1> DEFINE new == ConnectionFailed(ts, c)
           failed(t) == Finish(ts[t], "disconnected", c)
<1>1. \A t \in TaskIds : new[t] = IF Accepts(ts, t, c) THEN failed(t) ELSE ts[t]
  BY DEF ConnectionFailed
<1>2. \A t \in TaskIds : Accepts(ts, t, c) =>
        /\ ts[t] # NoTask /\ ts[t].connection = c
        /\ failed(t) \in PendingTask
        /\ failed(t).connection = c
        /\ failed(t).finished
        /\ GoodTask(failed(t))
  <2>1. SUFFICES ASSUME NEW t \in TaskIds, Accepts(ts, t, c)
                 PROVE  /\ ts[t] # NoTask /\ ts[t].connection = c
                        /\ failed(t) \in PendingTask
                        /\ failed(t).connection = c
                        /\ failed(t).finished
                        /\ GoodTask(failed(t))
    OBVIOUS
  <2>2. /\ ts[t] # NoTask /\ ~ts[t].finished /\ ts[t].connection = c
        /\ ts[t] \in PendingTask /\ GoodTask(ts[t])
    BY <2>1, TrackedIsTask DEF Accepts, Owned, GoodTable
  <2>3. "disconnected" \in TerminalKinds
    BY DEF TerminalKinds
  <2> QED
    BY <2>2, <2>3, FinishTask
<1>3. new = [t \in TaskIds |-> IF Accepts(ts, t, c) THEN failed(t) ELSE ts[t]]
  BY DEF ConnectionFailed
<1> HIDE DEF new, failed
<1>4. new \in Table
  BY <1>2, <1>3 DEF Table
<1>5. GoodTable(new)
  BY <1>1, <1>2 DEF GoodTable
<1>6. Continues(new, ts)
  BY <1>1, <1>2 DEF Continues
<1>7. \A t \in TaskIds :
        new[t] # NoTask /\ ~new[t].finished => new[t].connection # c
  BY <1>1, <1>2 DEF Accepts, Owned
<1> QED
  BY <1>4, <1>5, <1>6, <1>7 DEF new

(***************************************************************************)
(* What the queue of a stream adds up to.  With r units sent on, the       *)
(* events that are left bring the total, one by one and within the limit,  *)
(* to all that the node has streamed; unless the last event is the one     *)
(* that says the limit was passed.  A running total takes the place of a   *)
(* recursive sum: it is a witness that each operation extends or shifts.   *)
(* Only chunks have a size, one of the sizes that nodes send.              *)
(***************************************************************************)
SizeFits(ev, sizes) == IF ev.kind = "chunk" THEN ev.size \in sizes ELSE ev.size = 0

Accounted(task, r, sizes) ==
  /\ \A i \in DOMAIN task.events : SizeFits(task.events[i], sizes)
  /\ \E total \in [0 .. Len(task.events) -> 0 .. MaxResultBytes] :
       /\ total[0] = r
       /\ \A i \in DOMAIN task.events :
            total[i] = total[i - 1] + task.events[i].size
       /\ \/ total[Len(task.events)] = task.streamed
          \/ task.events # <<>> /\ task.events[Len(task.events)].kind = "too_large"

\* What every operation but create and taking an event does to the entries.
Advances(new, ts, sizes) ==
  \A t \in TaskIds : new[t] # NoTask =>
    /\ ts[t].finished => new[t] = ts[t]
    /\ \A r \in Nat : Accounted(ts[t], r, sizes) => Accounted(new[t], r, sizes)

LEMMA AccountedNew ==
  ASSUME NEW task \in PendingTask, task.events = <<>>, task.streamed = 0, NEW sizes
  PROVE  Accounted(task, 0, sizes)
<1> DEFINE total == [i \in {0} |-> 0]
<1>1. Len(task.events) = 0 /\ DOMAIN task.events = {}
  OBVIOUS
<1>2. total \in [0 .. Len(task.events) -> 0 .. MaxResultBytes] /\ total[0] = 0
  BY <1>1, MaxResultBytesAssumption
<1> HIDE DEF total
<1> QED
  BY <1>1, <1>2 DEF Accounted

\* Queueing an event that carries the total to what is now streamed, or the
\* event that says that the limit was passed.
LEMMA AccountedAppend ==
  ASSUME NEW task \in PendingTask, ~task.finished, FinalLast(task),
         NEW r \in Nat, NEW sizes, Accounted(task, r, sizes),
         NEW new \in PendingTask, NEW ev \in Event,
         new.events = Append(task.events, ev),
         SizeFits(ev, sizes),
         \/ ev.kind = "too_large" /\ ev.size = 0
         \/ /\ new.streamed = task.streamed + ev.size
            /\ ev.size = 0 \/ new.streamed <= MaxResultBytes
  PROVE  Accounted(new, r, sizes)
<1> DEFINE n == Len(task.events)
<1>1. /\ task.events \in Seq(Event)
      /\ n \in Nat /\ Len(task.events) = n /\ DOMAIN task.events = 1 .. n
  BY DEF PendingTask
<1> HIDE DEF n
<1>2. /\ Len(new.events) = n + 1
      /\ DOMAIN new.events = 1 .. n + 1
      /\ new.events # <<>> /\ new.events[n + 1] = ev
      /\ \A i \in 1 .. n : new.events[i] = task.events[i]
  BY <1>1
<1>3. PICK total \in [0 .. n -> 0 .. MaxResultBytes] :
        /\ total[0] = r
        /\ \A i \in 1 .. n : total[i] = total[i - 1] + task.events[i].size
        /\ \/ total[n] = task.streamed
           \/ task.events # <<>> /\ task.events[n].kind = "too_large"
  BY <1>1 DEF Accounted
<1>4. total[n] = task.streamed
  <2>1. ASSUME task.events # <<>> PROVE task.events[n].kind # "too_large"
    <3>1. n \in DOMAIN task.events
      BY <1>1, <2>1
    <3> QED
      BY <3>1 DEF FinalLast, TerminalKinds
  <2> QED
    BY <1>3, <2>1
<1> DEFINE longer == [i \in 0 .. n + 1 |-> IF i = n + 1 THEN total[n] + ev.size ELSE total[i]]
<1>5. ev.size \in Nat /\ total[n] \in 0 .. MaxResultBytes
  BY <1>1, <1>3 DEF Event
<1>6. total[n] + ev.size \in 0 .. MaxResultBytes
  BY <1>4, <1>5, MaxResultBytesAssumption
<1>7. longer \in [0 .. n + 1 -> 0 .. MaxResultBytes]
  BY <1>1, <1>3, <1>6
<1>8. /\ longer[0] = r
      /\ longer[n + 1] = total[n] + ev.size
      /\ \A i \in 0 .. n : longer[i] = total[i]
  BY <1>1, <1>3
<1> HIDE DEF longer
<1>9. \A i \in 1 .. n + 1 : longer[i] = longer[i - 1] + new.events[i].size
  <2>1. \A i \in 1 .. n : i \in 0 .. n /\ i - 1 \in 0 .. n
    BY <1>1
  <2>2. \A i \in 1 .. n + 1 : i \in 1 .. n \/ i = n + 1
    BY <1>1
  <2>3. n \in 0 .. n /\ (n + 1) - 1 = n
    BY <1>1
  <2> QED
    BY <1>2, <1>3, <1>8, <2>1, <2>2, <2>3
<1>10. \/ longer[n + 1] = new.streamed
       \/ new.events # <<>> /\ new.events[n + 1].kind = "too_large"
  BY <1>1, <1>2, <1>4, <1>8
<1>11. \A i \in 1 .. n + 1 : SizeFits(new.events[i], sizes)
  <2>1. \A i \in 1 .. n : SizeFits(task.events[i], sizes)
    BY <1>1 DEF Accounted
  <2>2. \A i \in 1 .. n + 1 : i \in 1 .. n \/ i = n + 1
    BY <1>1
  <2> QED
    BY <1>2, <2>1, <2>2
<1> QED
  BY <1>2, <1>7, <1>8, <1>9, <1>10, <1>11 DEF Accounted

\* Taking the first event, one that does not say the limit was passed.
LEMMA AccountedTail ==
  ASSUME NEW task \in PendingTask, task.events # <<>>,
         Head(task.events).kind # "too_large",
         NEW r \in Nat, NEW sizes, Accounted(task, r, sizes),
         NEW new \in PendingTask,
         new.events = Tail(task.events), new.streamed = task.streamed
  PROVE  /\ r + Head(task.events).size \in 0 .. MaxResultBytes
         /\ SizeFits(Head(task.events), sizes)
         /\ Accounted(new, r + Head(task.events).size, sizes)
         /\ new.events = <<>> => r + Head(task.events).size = new.streamed
<1> DEFINE n == Len(task.events)
           head == Head(task.events)
<1>1. /\ task.events \in Seq(Event) /\ head = task.events[1]
      /\ n \in Nat /\ n >= 1 /\ Len(task.events) = n /\ DOMAIN task.events = 1 .. n
  BY DEF PendingTask
<1> HIDE DEF n
<1>2. /\ Len(new.events) = n - 1
      /\ DOMAIN new.events = 1 .. n - 1
      /\ new.events = <<>> <=> n = 1
      /\ \A i \in 1 .. n - 1 : new.events[i] = task.events[i + 1]
  <2> DEFINE rest == Tail(task.events)
  <2>1. /\ rest \in Seq(Event) /\ Len(rest) = n - 1
        /\ \A i \in 1 .. n - 1 : rest[i] = task.events[i + 1]
    BY <1>1
  <2>2. new.events = rest
    OBVIOUS
  <2> HIDE DEF rest
  <2>3. DOMAIN rest = 1 .. n - 1 /\ (rest = <<>> <=> n = 1)
    BY <1>1, <2>1
  <2> QED
    BY <2>1, <2>2, <2>3
<1>3. PICK total \in [0 .. n -> 0 .. MaxResultBytes] :
        /\ total[0] = r
        /\ \A i \in 1 .. n : total[i] = total[i - 1] + task.events[i].size
        /\ \/ total[n] = task.streamed
           \/ task.events # <<>> /\ task.events[n].kind = "too_large"
  BY <1>1 DEF Accounted
<1>4. head.kind # "too_large"
  OBVIOUS
<1>5. \A i \in 1 .. n : SizeFits(task.events[i], sizes)
  BY <1>1 DEF Accounted
<1> HIDE DEF head
<1> DEFINE shorter == [i \in 0 .. n - 1 |-> total[i + 1]]
<1>6. total[1] = r + head.size /\ total[1] \in 0 .. MaxResultBytes
  BY <1>1, <1>3
<1>7. shorter \in [0 .. n - 1 -> 0 .. MaxResultBytes]
  BY <1>1, <1>3
<1>8. \A i \in 0 .. n - 1 : shorter[i] = total[i + 1]
  OBVIOUS
<1> HIDE DEF shorter
<1>9. shorter[0] = r + head.size /\ shorter[n - 1] = total[n]
  BY <1>1, <1>6, <1>8
<1>10. \A i \in 1 .. n - 1 : shorter[i] = shorter[i - 1] + new.events[i].size
  <2>1. \A i \in 1 .. n - 1 : /\ i \in 0 .. n - 1 /\ i - 1 \in 0 .. n - 1
                              /\ i + 1 \in 1 .. n /\ (i + 1) - 1 = i /\ (i - 1) + 1 = i
    BY <1>1
  <2> QED
    BY <1>2, <1>3, <1>8, <2>1
<1>11. n = 1 => total[n] = task.streamed
  BY <1>1, <1>3, <1>4
<1>12. n # 1 => new.events # <<>> /\ new.events[n - 1] = task.events[n]
  BY <1>1, <1>2
<1>13. \/ shorter[n - 1] = new.streamed
       \/ new.events # <<>> /\ new.events[n - 1].kind = "too_large"
  BY <1>3, <1>9, <1>11, <1>12
<1>14. \A i \in 1 .. n - 1 : SizeFits(new.events[i], sizes)
  <2>1. \A i \in 1 .. n - 1 : i + 1 \in 1 .. n
    BY <1>1
  <2> QED
    BY <1>2, <1>5, <2>1
<1>15. Accounted(new, r + head.size, sizes)
  BY <1>2, <1>7, <1>9, <1>10, <1>13, <1>14 DEF Accounted
<1>16. SizeFits(head, sizes)
  BY <1>1, <1>5
<1>17. new.events = <<>> => r + head.size = new.streamed
  BY <1>1, <1>6, <1>11, <1>12
<1> QED
  BY <1>6, <1>15, <1>16, <1>17 DEF head

\* Finishing a task whose total is as before, or was found too large.
LEMMA FinishAccounted ==
  ASSUME NEW old \in PendingTask, ~old.finished, FinalLast(old),
         NEW r \in Nat, NEW sizes, Accounted(old, r, sizes),
         NEW task \in PendingTask, task.events = old.events,
         NEW kind \in TerminalKinds, NEW c \in Conns,
         kind = "too_large" \/ task.streamed = old.streamed
  PROVE  Accounted(Finish(task, kind, c), r, sizes)
<1> DEFINE put == Put(task, kind, c, 0)
           new == Finish(task, kind, c)
           ev == [kind |-> kind, from |-> c, size |-> 0]
<1>1. /\ ev \in Event /\ put \in PendingTask
      /\ put.events = Append(task.events, ev) /\ put.streamed = task.streamed
  BY PutEvent
<1>2. ev.kind = kind /\ ev.size = 0 /\ SizeFits(ev, sizes)
  BY DEF TerminalKinds, SizeFits
<1>3. new = [put EXCEPT !.finished = TRUE]
  BY DEF Finish
<1> HIDE DEF put, new, ev
<1>4. /\ new \in PendingTask
      /\ new.events = Append(old.events, ev)
      /\ new.streamed = task.streamed
  BY <1>1, <1>3 DEF PendingTask
<1>5. \/ ev.kind = "too_large" /\ ev.size = 0
      \/ new.streamed = old.streamed + ev.size
  BY <1>2, <1>4 DEF PendingTask
<1>6. Accounted(new, r, sizes)
  BY <1>1, <1>2, <1>4, <1>5, AccountedAppend
<1> QED
  BY <1>6 DEF new

\* Queueing a chunk that has been added to the total and found within the limit.
LEMMA ChunkAccounted ==
  ASSUME NEW old \in PendingTask, ~old.finished, FinalLast(old),
         NEW r \in Nat, NEW sizes, Accounted(old, r, sizes),
         NEW task \in PendingTask, task.events = old.events,
         NEW size \in Nat, size \in sizes, NEW c \in Conns,
         task.streamed = old.streamed + size, task.streamed <= MaxResultBytes
  PROVE  Accounted(Put(task, "chunk", c, size), r, sizes)
<1> DEFINE new == Put(task, "chunk", c, size)
           ev == [kind |-> "chunk", from |-> c, size |-> size]
<1>1. /\ ev \in Event /\ new \in PendingTask
      /\ new.events = Append(old.events, ev) /\ new.streamed = task.streamed
  BY PutEvent
<1>2. ev.size = size /\ SizeFits(ev, sizes)
  BY DEF SizeFits
<1> HIDE DEF new, ev
<1>3. Accounted(new, r, sizes)
  BY <1>1, <1>2, AccountedAppend
<1> QED
  BY <1>3 DEF new

LEMMA PoppedAdvances ==
  ASSUME NEW ts \in Table, NEW id \in TaskIds, NEW sizes
  PROVE  Advances(Popped(ts, id), ts, sizes)
BY DEF Advances, Popped, Table

LEMMA ChunkAddedAdvances ==
  ASSUME NEW ts \in Table, GoodTable(ts), NEW id \in TaskIds, NEW c \in Conns,
         Accepts(ts, id, c), NEW size \in Nat, NEW sizes, size \in sizes
  PROVE  Advances(ChunkAdded(ts, id, c, size), ts, sizes)
<1> DEFINE old == ts[id]
           task == [old EXCEPT !.streamed = old.streamed + size]
           next == IF TooLarge(task.streamed) THEN Finish(task, "too_large", c)
                                              ELSE Put(task, "chunk", c, size)
           new == ChunkAdded(ts, id, c, size)
<1>1. ~old.finished /\ old \in PendingTask /\ FinalLast(old)
  BY TrackedIsTask DEF Accepts, Owned, GoodTable, GoodTask
<1>2. new = [ts EXCEPT ![id] = next]
  BY DEF ChunkAdded
<1>3. new[id] = next /\ \A t \in TaskIds \ {id} : new[t] = ts[t]
  BY <1>2 DEF Table
<1> HIDE DEF old, new
<1>4. /\ task \in PendingTask
      /\ task.streamed = old.streamed + size
      /\ task.events = old.events
  BY <1>1 DEF PendingTask
<1>5. TooLarge(task.streamed) \/ task.streamed <= MaxResultBytes
  BY <1>4, MaxResultBytesAssumption DEF TooLarge, PendingTask
<1> HIDE DEF task
<1>6. ASSUME NEW r \in Nat, Accounted(old, r, sizes)
      PROVE  Accounted(next, r, sizes)
  BY <1>1, <1>4, <1>5, <1>6, FinishAccounted, ChunkAccounted DEF TerminalKinds
<1> HIDE DEF next
<1> QED
  BY <1>1, <1>3, <1>6 DEF Advances, old, new

LEMMA ResolvedAdvances ==
  ASSUME NEW ts \in Table, GoodTable(ts), NEW id \in TaskIds, NEW c \in Conns,
         Accepts(ts, id, c), NEW size \in Nat, NEW completed \in BOOLEAN, NEW sizes
  PROVE  Advances(Resolved(ts, id, c, size, completed), ts, sizes)
<1> DEFINE old == ts[id]
           kind == IF TooLarge(size) THEN "too_large"
                   ELSE IF completed THEN "completed" ELSE "failed"
           next == Finish(old, kind, c)
           new == Resolved(ts, id, c, size, completed)
<1>1. ~old.finished /\ old \in PendingTask /\ FinalLast(old)
  BY TrackedIsTask DEF Accepts, Owned, GoodTable, GoodTask
<1>2. kind \in TerminalKinds
  BY DEF TerminalKinds
<1>3. new = [ts EXCEPT ![id] = next]
  BY DEF Resolved
<1>4. new[id] = next /\ \A t \in TaskIds \ {id} : new[t] = ts[t]
  BY <1>3 DEF Table
<1> HIDE DEF old, new, kind
<1>5. ASSUME NEW r \in Nat, Accounted(old, r, sizes)
      PROVE  Accounted(next, r, sizes)
  BY <1>1, <1>2, <1>5, FinishAccounted
<1> HIDE DEF next
<1> QED
  BY <1>1, <1>4, <1>5 DEF Advances, old, new

LEMMA ConnectionFailedAdvances ==
  ASSUME NEW ts \in Table, GoodTable(ts), NEW c \in Conns, NEW sizes
  PROVE  Advances(ConnectionFailed(ts, c), ts, sizes)
<1> DEFINE new == ConnectionFailed(ts, c)
           failed(t) == Finish(ts[t], "disconnected", c)
<1>1. \A t \in TaskIds : new[t] = IF Accepts(ts, t, c) THEN failed(t) ELSE ts[t]
  BY DEF ConnectionFailed
<1>2. ASSUME NEW t \in TaskIds, Accepts(ts, t, c), NEW r \in Nat,
             Accounted(ts[t], r, sizes)
      PROVE  Accounted(failed(t), r, sizes)
  <2>1. ~ts[t].finished /\ ts[t] \in PendingTask /\ FinalLast(ts[t])
    BY <1>2, TrackedIsTask DEF Accepts, Owned, GoodTable, GoodTask
  <2>2. "disconnected" \in TerminalKinds
    BY DEF TerminalKinds
  <2> QED
    BY <1>2, <2>1, <2>2, FinishAccounted
<1>3. \A t \in TaskIds : Accepts(ts, t, c) => ~ts[t].finished
  BY DEF Accepts
<1> HIDE DEF new, failed
<1>4. Advances(new, ts, sizes)
  BY <1>1, <1>2, <1>3 DEF Advances
<1> QED
  BY <1>4 DEF new
==============================================================================
