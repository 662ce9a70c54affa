----------------------------- MODULE TaskTracker -----------------------------
(***************************************************************************)
(* coordinator/tasks.py: the table of in-flight tasks that joins the HTTP  *)
(* requests waiting for an answer to the node connections that produce it. *)
(*                                                                         *)
(* The table is the variable `tasks'.  The class's methods are given as    *)
(* operators on a value of the table, because every caller makes several   *)
(* of these calls between two awaits and the whole of that is one step.    *)
(* Sizes are counted in units; text is abstracted to its size.             *)
(***************************************************************************)
EXTENDS Integers, Sequences, Sockets

CONSTANTS
  TaskIds,          \* task ids handed out by the request handlers
  NoTask,           \* tasks[id] when _tasks has no entry for id
  MaxResultBytes    \* TaskTracker.max_result_bytes

ASSUME MaxResultBytesAssumption == MaxResultBytes \in Nat

VARIABLE tasks      \* TaskTracker._tasks

(***************************************************************************)
(* Types.  An event is the (kind, value) pair put on PendingTask.events;   *)
(* `from' records the connection whose message, or whose end, produced it. *)
(***************************************************************************)
TerminalKinds == {"completed", "failed", "disconnected", "too_large"}

Event == [kind: TerminalKinds \cup {"chunk"}, from: Conns, size: Nat]

PendingTask ==
  [connection: Conns, finished: BOOLEAN, streamed: Nat, events: Seq(Event)]

ASSUME NoTaskAssumption == NoTask \notin PendingTask

TrackerTypeOK == tasks \in [TaskIds -> PendingTask \cup {NoTask}]

Tracked(id) == tasks[id] # NoTask

(***************************************************************************)
(* Helpers of the class.                                                   *)
(***************************************************************************)
TooLarge(size) == size > MaxResultBytes

\* A mutant: any connection may answer any task.
OwnedByAnyone(ts, id, c) == ts[id] # NoTask

Owned(ts, id, c) == ts[id] # NoTask /\ ts[id].connection = c

\* A mutant: events after the final one are still taken.
AcceptsLate(ts, id, c) == Owned(ts, id, c)

\* The early return that add_chunk, resolve and fail_connection share.
Accepts(ts, id, c) == Owned(ts, id, c) /\ ~ts[id].finished

Put(task, kind, c, size) ==
  [task EXCEPT !.events =
     Append(task.events, [kind |-> kind, from |-> c, size |-> size])]

\* A mutant: the final event overtakes the chunks that are still queued.
FinishFirst(task, kind, c) ==
  [task EXCEPT !.events = <<[kind |-> kind, from |-> c, size |-> 0]>> \o task.events,
               !.finished = TRUE]

\* finished_at is set and the last event of the task is queued.
Finish(task, kind, c) == [Put(task, kind, c, 0) EXCEPT !.finished = TRUE]

(***************************************************************************)
(* The operations, as functions of the table ts.                           *)
(***************************************************************************)
\* create: the expired entries go first, then the new one goes in.
Created(ts, id, c, expired) ==
  [i \in TaskIds |->
     IF i = id
     THEN [connection |-> c, finished |-> FALSE, streamed |-> 0, events |-> <<>>]
     ELSE IF i \in expired THEN NoTask ELSE ts[i]]

Popped(ts, id) == [ts EXCEPT ![id] = NoTask]

\* A mutant: the limit is applied to each chunk, not to their total.
ChunkAddedLimitEach(ts, id, c, size) ==
  LET task == [ts[id] EXCEPT !.streamed = @ + size] IN
  [ts EXCEPT ![id] = IF TooLarge(size) THEN Finish(task, "too_large", c)
                                       ELSE Put(task, "chunk", c, size)]

ChunkAdded(ts, id, c, size) ==
  LET task == [ts[id] EXCEPT !.streamed = @ + size] IN
  [ts EXCEPT ![id] = IF TooLarge(task.streamed) THEN Finish(task, "too_large", c)
                                                ELSE Put(task, "chunk", c, size)]

Resolved(ts, id, c, size, completed) ==
  [ts EXCEPT ![id] =
     Finish(ts[id], IF TooLarge(size) THEN "too_large"
                    ELSE IF completed THEN "completed" ELSE "failed", c)]

\* fail_connection: every unfinished task that was sent on the connection.
ConnectionFailed(ts, c) ==
  [i \in TaskIds |->
     IF Accepts(ts, i, c) THEN Finish(ts[i], "disconnected", c) ELSE ts[i]]
==============================================================================
