--------------------------- MODULE RequestPromise ----------------------------
(***************************************************************************)
(* What a client is promised for its requests, with no tracker, no queues  *)
(* and no node sessions (docs/api_reference.md; docstring of _stream_task):*)
(* a request is served by one node connection at a time; it can move to    *)
(* another only while the client has been sent nothing; a stream never     *)
(* carries more than the limit; and the request gets one answer, after     *)
(* which the client is sent nothing more.                                  *)
(***************************************************************************)
EXTENDS Integers

CONSTANTS TaskIds, Conns, NoConn, MaxResultBytes, Sizes

VARIABLES
  serving,   \* the connection that serves the request, if any
  relayed,   \* how much of its answer was streamed to the client
  answer     \* the one final answer, "none" before it

promiseVars == <<serving, relayed, answer>>

FromNode == {"completed", "failed", "disconnected", "too_large", "timeout"}

Init ==
  /\ serving = [t \in TaskIds |-> NoConn]
  /\ relayed = [t \in TaskIds |-> 0]
  /\ answer = [t \in TaskIds |-> "none"]

Serve(t, c) ==
  /\ answer[t] = "none" /\ serving[t] = NoConn
  /\ serving' = [serving EXCEPT ![t] = c]
  /\ UNCHANGED <<relayed, answer>>

Withdraw(t) ==
  /\ answer[t] = "none" /\ serving[t] # NoConn /\ relayed[t] = 0
  /\ serving' = [serving EXCEPT ![t] = NoConn]
  /\ UNCHANGED <<relayed, answer>>

Relay(t, size) ==
  /\ answer[t] = "none" /\ serving[t] # NoConn
  /\ relayed[t] + size <= MaxResultBytes
  /\ relayed' = [relayed EXCEPT ![t] = @ + size]
  /\ UNCHANGED <<serving, answer>>

\* "aborted": the client left; "internal_error": the coordinator failed.
Conclude(t, a) ==
  /\ answer[t] = "none"
  /\ a \in FromNode \cup {"aborted"} => serving[t] # NoConn
  /\ a = "unavailable" => serving[t] = NoConn /\ relayed[t] = 0
  /\ answer' = [answer EXCEPT ![t] = a]
  /\ UNCHANGED <<serving, relayed>>

Next ==
  \E t \in TaskIds :
    \/ \E c \in Conns : Serve(t, c)
    \/ Withdraw(t)
    \/ \E size \in Sizes : Relay(t, size)
    \/ \E a \in FromNode \cup {"aborted", "unavailable", "internal_error"} :
         Conclude(t, a)

Spec == Init /\ [][Next]_promiseVars
==============================================================================
