---------------------------- MODULE NodeSessions -----------------------------
(***************************************************************************)
(* The life of a node session (coordinator/server.py: node_websocket,      *)
(* _drop_connection) and the deletion of its account (delete_account),     *)
(* over the connection pool in memory and the node registry in Redis.      *)
(*                                                                         *)
(* Every await is a place where other coroutines run, so each Redis        *)
(* command is an action of its own, and where Redis may fail each of them  *)
(* may raise instead.  A command that takes effect and whose reply is lost *)
(* is the command followed by an error at the next one; the two commands   *)
(* behind which something else comes first say so.  A request that fails   *)
(* to send to a connection drops it as well; requests are otherwise left   *)
(* to RequestHandling.                                                     *)
(***************************************************************************)
EXTENDS ConnectionManager, NodeRegistry, Integers, FiniteSets

CONSTANTS
  NoNode,
  Accounts,
  AccountOf,             \* the account each node identity belongs to
  MaxNodesPerAccount,    \* MAX_NODES_PER_ACCOUNT
  AccountsMayBeDeleted,  \* whether delete_account is called
  RedisMayFail           \* whether a call to Redis may raise

ASSUME SessionAssumption ==
  /\ IsFiniteSet(Nodes)
  /\ NoNode \notin Nodes
  /\ AccountOf \in [Nodes -> Accounts]
  /\ MaxNodesPerAccount \in Nat
  /\ AccountsMayBeDeleted \in BOOLEAN
  /\ RedisMayFail \in BOOLEAN

VARIABLES
  handler,      \* how far node_websocket is with each connection
  previous,     \* its local `previous', until the old connection is dealt with
  seen,         \* the entry update_heartbeat read and is about to write back
  ended,        \* sockets the coordinator closed or failed to send to
  sender,       \* a request's _drop_connection of each connection
  keys,         \* accounts that still have an API key in the database
  accountNodes, \* gn:account_nodes:<account>
  deletion      \* delete_account of each account: how far it is, and its locals

handlerVars == <<handler, previous, seen, ended>>
accountVars == <<keys, accountNodes, deletion>>
vars == <<connections, registryVars, handlerVars, sender, accountVars>>

HandlerStates ==
  {"new", "validated", "acking", "setting", "adding", "recording", "serving",
   "beating", "resetting", "readding", "deleting", "removing", "closed"}

DropStates == {"idle", "deleting", "removing"}

DeletionSteps ==
  {"idle", "keys_deleted", "dropping", "drop_deleting", "drop_removing",
   "forgetting", "forget_removing", "deleted", "failed"}

\* todo: the nodes its loop still has to visit; node, websocket: its locals.
Deletion == [step: DeletionSteps, todo: SUBSET Nodes, node: Nodes \cup {NoNode},
             websocket: Conns \cup {NoConn}]

TypeOK ==
  /\ ConnectionsTypeOK
  /\ RegistryTypeOK
  /\ handler \in [Conns -> HandlerStates]
  /\ previous \in [Conns -> Conns \cup {NoConn}]
  /\ seen \in [Conns -> Conns \cup {NoConn}]
  /\ ended \subseteq Conns
  /\ sender \in [Conns -> DropStates]
  /\ keys \subseteq Accounts
  /\ accountNodes \in [Accounts -> SUBSET Nodes]
  /\ deletion \in [Accounts -> Deletion]

Init ==
  /\ connections = [n \in Nodes |-> NoConn]
  /\ RegistryInit
  /\ handler = [c \in Conns |-> "new"]
  /\ previous = [c \in Conns |-> NoConn]
  /\ seen = [c \in Conns |-> NoConn]
  /\ ended = {}
  /\ sender = [c \in Conns |-> "idle"]
  /\ keys = Accounts
  /\ accountNodes = [a \in Accounts |-> {}]
  /\ deletion = [a \in Accounts |->
       [step |-> "idle", todo |-> {}, node |-> NoNode, websocket |-> NoConn]]

(***************************************************************************)
(* The node limit (ws_manager.account_nodes, exceeds_node_limit), for a    *)
(* value conns of the connection table.                                    *)
(***************************************************************************)
AccountNodes(conns, a) == {n \in Nodes : conns[n] # NoConn /\ AccountOf[n] = a}

ExceedsNodeLimit(conns, n) ==
  Cardinality(AccountNodes(conns, AccountOf[n]) \ {n}) >= MaxNodesPerAccount

(***************************************************************************)
(* Registration.                                                           *)
(***************************************************************************)
Step(c, from, to) ==
  /\ handler[c] = from
  /\ handler' = [handler EXCEPT ![c] = to]

\* APIKeyManager.validate: the database has the key of c's registration.
KeyIsValid(c) == AccountOf[NodeOf[c]] \in keys

\* A registration arrives and its key is looked up; none in time, or one that
\* cannot be read, ends the session like a key that is not valid.
Validate(c) ==
  /\ \/ KeyIsValid(c) /\ Step(c, "new", "validated")
     \/ Step(c, "new", "closed")
  /\ UNCHANGED <<connections, registryVars, previous, seen, ended, sender, accountVars>>

\* Back on the loop: refuse a node over the limit, otherwise acknowledge.
CheckLimit(c) ==
  /\ Step(c, "validated",
          IF ExceedsNodeLimit(connections, NodeOf[c]) THEN "closed" ELSE "acking")
  /\ UNCHANGED <<connections, registryVars, previous, seen, ended, sender, accountVars>>

\* The acknowledgement could not be sent.
AcknowledgeFails(c) ==
  /\ Step(c, "acking", "closed")
  /\ UNCHANGED <<connections, registryVars, previous, seen, ended, sender, accountVars>>

\* A mutant: the limit is not looked at again after the await.
AttachUnchecked(c) ==
  /\ Step(c, "acking", "setting")
  /\ connections' = Attached(c)
  /\ previous' = [previous EXCEPT ![c] = connections[NodeOf[c]]]
  /\ UNCHANGED <<registryVars, seen, ended, sender, accountVars>>

\* Acknowledged: attach, look at the limit again, and detach if it is exceeded.
Attach(c) ==
  LET rejected == ExceedsNodeLimit(Attached(c), NodeOf[c]) IN
  /\ Step(c, "acking", IF rejected THEN "closed" ELSE "setting")
  /\ connections' = IF rejected THEN [connections EXCEPT ![NodeOf[c]] = NoConn]
                                ELSE Attached(c)
  /\ previous' = [previous EXCEPT ![c] = IF rejected THEN NoConn
                                                     ELSE connections[NodeOf[c]]]
  /\ UNCHANGED <<registryVars, seen, ended, sender, accountVars>>

\* register, when a node registers and when a heartbeat found no entry.
RegisterSet(c) ==
  /\ \/ Step(c, "setting", "adding")
     \/ Step(c, "resetting", "readding")
  /\ SetEntry(NodeOf[c], c)
  /\ UNCHANGED <<connections, previous, seen, ended, sender, accountVars>>

RegisterAdd(c) ==
  /\ \/ Step(c, "adding", "recording")
     \/ Step(c, "readding", "serving")
  /\ AddOnline(NodeOf[c])
  /\ UNCHANGED <<connections, previous, seen, ended, sender, accountVars>>

\* A mutant: the connection that was replaced is left open.
RecordLeavingPrevious(c) ==
  /\ Step(c, "recording", "serving")
  /\ accountNodes' = [accountNodes EXCEPT ![AccountOf[NodeOf[c]]] = @ \cup {NodeOf[c]}]
  /\ previous' = [previous EXCEPT ![c] = NoConn]
  /\ UNCHANGED <<connections, registryVars, seen, ended, sender, keys, deletion>>

\* The account's node set, then the close of the connection that was replaced.
\* (Its tasks fail here too: RequestHandling, Registered.)
Record(c) ==
  /\ Step(c, "recording", "serving")
  /\ accountNodes' = [accountNodes EXCEPT ![AccountOf[NodeOf[c]]] = @ \cup {NodeOf[c]}]
  /\ ended' = ended \cup ({previous[c]} \ {NoConn})
  /\ previous' = [previous EXCEPT ![c] = NoConn]
  /\ UNCHANGED <<connections, registryVars, seen, sender, keys, deletion>>

(***************************************************************************)
(* The receive loop: heartbeats, and the end of the session.               *)
(***************************************************************************)
\* The finally block begins _drop_connection: up to the await on unregister
\* if c is live, to its end if not.
BeginDrop(c) ==
  /\ handler' = [handler EXCEPT ![c] = IF IsLive(c) THEN "deleting" ELSE "closed"]
  /\ connections' = Detached(c)

\* A mutant: an entry that is gone is not put back.
HeartbeatGetOnly(c) ==
  /\ Step(c, "serving", IF HasEntry(NodeOf[c]) THEN "beating" ELSE "serving")
  /\ seen' = [seen EXCEPT ![c] = entry[NodeOf[c]]]
  /\ UNCHANGED <<connections, registryVars, previous, ended, sender, accountVars>>

HeartbeatGet(c) ==
  /\ Step(c, "serving", IF HasEntry(NodeOf[c]) THEN "beating" ELSE "resetting")
  /\ seen' = [seen EXCEPT ![c] = entry[NodeOf[c]]]
  /\ UNCHANGED <<connections, registryVars, previous, ended, sender, accountVars>>

\* The load is merged into what was read, and that is written back.
HeartbeatSet(c) ==
  /\ Step(c, "beating", "serving")
  /\ SetEntry(NodeOf[c], seen[c])
  /\ seen' = [seen EXCEPT ![c] = NoConn]
  /\ UNCHANGED <<connections, previous, ended, sender, accountVars>>

\* The entry outlives its 120 s, or Redis loses it.
Expire(n) ==
  /\ HasEntry(n)
  /\ DeleteEntry(n)
  /\ UNCHANGED <<connections, handlerVars, sender, accountVars>>

\* A mutant: the end of any session takes its node offline.
DisconnectAlways(c) ==
  /\ Step(c, "serving", "deleting")
  /\ connections' = [connections EXCEPT ![NodeOf[c]] = NoConn]
  /\ UNCHANGED <<registryVars, previous, seen, ended, sender, accountVars>>

\* The receive loop ends, as it does when the read of a heartbeat raises.
Disconnect(c) ==
  /\ handler[c] = "serving"
  /\ BeginDrop(c)
  /\ UNCHANGED <<registryVars, previous, seen, ended, sender, accountVars>>

\* A command of the registration or of a heartbeat raises.  The session is
\* dropped at once; what a registration had still to do, above all for the
\* connection it replaced, is not done, and `previous' is a local of a
\* handler that only drops its own connection now.
SessionRaises(c) ==
  /\ RedisMayFail
  /\ handler[c] \in {"setting", "adding", "recording", "beating", "resetting", "readding"}
  /\ BeginDrop(c)
  /\ seen' = [seen EXCEPT ![c] = NoConn]
  /\ \/ UNCHANGED accountNodes
     \/ /\ handler[c] = "recording"
        /\ accountNodes' =
             [accountNodes EXCEPT ![AccountOf[NodeOf[c]]] = @ \cup {NodeOf[c]}]
  /\ UNCHANGED <<registryVars, previous, ended, sender, keys, deletion>>

DisconnectDelete(c) ==
  /\ Step(c, "deleting", "removing")
  /\ DeleteEntry(NodeOf[c])
  /\ UNCHANGED <<connections, previous, seen, ended, sender, accountVars>>

DisconnectRemove(c) ==
  /\ Step(c, "removing", "closed")
  /\ RemoveOnline(NodeOf[c])
  /\ UNCHANGED <<connections, previous, seen, ended, sender, accountVars>>

\* unregister raises in the finally block, and the handler is over.
DropRaises(c) ==
  /\ RedisMayFail
  /\ handler[c] \in {"deleting", "removing"}
  /\ handler' = [handler EXCEPT ![c] = "closed"]
  /\ UNCHANGED <<connections, registryVars, previous, seen, ended, sender, accountVars>>

\* A request fails to send to the live connection c and drops it (_assign).
SendFails(c) ==
  /\ IsLive(c) /\ sender[c] = "idle"
  /\ connections' = Detached(c)
  /\ sender' = [sender EXCEPT ![c] = "deleting"]
  /\ ended' = ended \cup {c}
  /\ UNCHANGED <<registryVars, handler, previous, seen, accountVars>>

SenderDelete(c) ==
  /\ sender[c] = "deleting"
  /\ sender' = [sender EXCEPT ![c] = "removing"]
  /\ DeleteEntry(NodeOf[c])
  /\ UNCHANGED <<connections, handlerVars, accountVars>>

SenderRemove(c) ==
  /\ sender[c] = "removing"
  /\ sender' = [sender EXCEPT ![c] = "idle"]
  /\ RemoveOnline(NodeOf[c])
  /\ UNCHANGED <<connections, handlerVars, accountVars>>

\* unregister raises in the request, which ends with a server error.
SenderDropRaises(c) ==
  /\ RedisMayFail
  /\ sender[c] # "idle"
  /\ sender' = [sender EXCEPT ![c] = "idle"]
  /\ UNCHANGED <<connections, registryVars, handlerVars, accountVars>>

(***************************************************************************)
(* delete_account.                                                         *)
(***************************************************************************)
DeletionStep(a, from, to) ==
  /\ deletion[a].step = from
  /\ deletion' = [deletion EXCEPT ![a].step = to]

DeleteKeys(a) ==
  /\ AccountsMayBeDeleted
  /\ DeletionStep(a, "idle", "keys_deleted")
  /\ keys' = keys \ {a}
  /\ UNCHANGED <<connections, registryVars, handlerVars, sender, accountNodes>>

\* Back on the loop: the list of online nodes that is then gone through.
ListNodes(a) ==
  /\ deletion[a].step = "keys_deleted"
  /\ deletion' = [deletion EXCEPT ![a] =
       [step |-> "dropping", todo |-> AccountNodes(connections, a), node |-> NoNode,
        websocket |-> NoConn]]
  /\ UNCHANGED <<connections, registryVars, handlerVars, sender, keys, accountNodes>>

\* get, then _drop_connection up to its first await.  detach returns True for
\* a node that has gone since (None is its live connection and its argument).
DropNode(a, n) ==
  /\ deletion[a].step = "dropping" /\ n \in deletion[a].todo
  /\ deletion' = [deletion EXCEPT ![a] =
       [step |-> "drop_deleting", todo |-> @.todo \ {n}, node |-> n,
        websocket |-> connections[n]]]
  /\ connections' = [connections EXCEPT ![n] = NoConn]
  /\ UNCHANGED <<registryVars, handlerVars, sender, keys, accountNodes>>

DropDelete(a) ==
  /\ DeletionStep(a, "drop_deleting", "drop_removing")
  /\ DeleteEntry(deletion[a].node)
  /\ UNCHANGED <<connections, handlerVars, sender, keys, accountNodes>>

\* A mutant: the connections are dropped but left open.
DropRemoveNoClose(a) ==
  /\ DeletionStep(a, "drop_removing", "dropping")
  /\ RemoveOnline(deletion[a].node)
  /\ UNCHANGED <<connections, handlerVars, sender, keys, accountNodes>>

\* The drop ends and the close is spawned.
DropRemove(a) ==
  /\ DeletionStep(a, "drop_removing", "dropping")
  /\ RemoveOnline(deletion[a].node)
  /\ ended' = ended \cup ({deletion[a].websocket} \ {NoConn})
  /\ UNCHANGED <<connections, handler, previous, seen, sender, keys, accountNodes>>

\* The nodes the account ever had.
ReadNodes(a) ==
  /\ deletion[a].step = "dropping" /\ deletion[a].todo = {}
  /\ deletion' = [deletion EXCEPT ![a] =
       [step |-> "forgetting", todo |-> accountNodes[a], node |-> NoNode,
        websocket |-> NoConn]]
  /\ UNCHANGED <<connections, registryVars, handlerVars, sender, keys, accountNodes>>

\* forget_node and the first command of unregister; then its last one.
ForgetNode(a, n) ==
  /\ deletion[a].step = "forgetting" /\ n \in deletion[a].todo
  /\ deletion' = [deletion EXCEPT ![a] =
       [step |-> "forget_removing", todo |-> @.todo \ {n}, node |-> n,
        websocket |-> NoConn]]
  /\ DeleteEntry(n)
  /\ UNCHANGED <<connections, handlerVars, sender, keys, accountNodes>>

ForgetRemove(a) ==
  /\ DeletionStep(a, "forget_removing", "forgetting")
  /\ RemoveOnline(deletion[a].node)
  /\ UNCHANGED <<connections, handlerVars, sender, keys, accountNodes>>

DeletionEnds(a) ==
  /\ deletion[a].todo = {}
  /\ DeletionStep(a, "forgetting", "deleted")
  /\ accountNodes' = [accountNodes EXCEPT ![a] = {}]
  /\ UNCHANGED <<connections, registryVars, handlerVars, sender, keys>>

\* A command raises and the deletion ends with a server error: the socket it
\* was about to close stays open, the nodes it had not come to stay online,
\* and with the keys gone no second call can finish the work.
DeletionRaises(a) ==
  LET step == deletion[a].step IN
  /\ RedisMayFail
  /\ \/ step \in {"drop_deleting", "drop_removing", "forgetting", "forget_removing"}
     \/ step = "dropping" /\ deletion[a].todo = {}
  /\ DeletionStep(a, step, "failed")
  /\ \/ UNCHANGED registryVars
     \/ step = "drop_removing" /\ RemoveOnline(deletion[a].node)
  /\ UNCHANGED <<connections, handlerVars, sender, keys, accountNodes>>

(***************************************************************************)
(* The specification.                                                      *)
(***************************************************************************)
RegistrationNext(c) ==
  \/ Validate(c) \/ CheckLimit(c) \/ AcknowledgeFails(c) \/ Attach(c)
  \/ RegisterSet(c) \/ RegisterAdd(c) \/ Record(c)

ServingNext(c) ==
  \/ HeartbeatGet(c) \/ HeartbeatSet(c)
  \/ SessionRaises(c)
  \/ Disconnect(c) \/ DisconnectDelete(c) \/ DisconnectRemove(c) \/ DropRaises(c)

SenderNext(c) ==
  SendFails(c) \/ SenderDelete(c) \/ SenderRemove(c) \/ SenderDropRaises(c)

DeletionNext(a) ==
  \/ DeleteKeys(a) \/ ListNodes(a) \/ ReadNodes(a) \/ DeletionEnds(a)
  \/ \E n \in Nodes : DropNode(a, n) \/ ForgetNode(a, n)
  \/ DropDelete(a) \/ DropRemove(a) \/ ForgetRemove(a) \/ DeletionRaises(a)

Next ==
  \/ \E c \in Conns : RegistrationNext(c) \/ ServingNext(c) \/ SenderNext(c)
  \/ \E n \in Nodes : Expire(n)
  \/ \E a \in Accounts : DeletionNext(a)

Spec == Init /\ [][Next]_vars

\* What a session and a deletion do of themselves: in each of these states
\* one step is enabled, and stays so until it is taken or the await before it
\* raises.
SessionGoesOn(c) ==
  /\ handler[c] \notin {"new", "validated", "acking", "closed"}
  /\ \/ HeartbeatGet(c) \/ HeartbeatSet(c)
     \/ RegisterSet(c) \/ RegisterAdd(c) \/ Record(c)
     \/ DisconnectDelete(c) \/ DisconnectRemove(c)

DeletionGoesOn(a) ==
  deletion[a].step \notin {"idle", "deleted", "failed"} /\ DeletionNext(a)

\* Redis replies or raises, so a session or a deletion that waits goes on; a
\* node sends heartbeats; and on a socket that was closed or is broken the
\* receive loop ends, however many heartbeats were still to be read from it.
\* (Each loop ends once, so one strong fairness condition is enough for all;
\* the subscripts name what every such step changes.)
FairSpec ==
  /\ Spec
  /\ SF_handler(\E c \in ended : Disconnect(c))
  /\ \A c \in Conns : WF_handler(SessionGoesOn(c))
  /\ \A a \in Accounts : WF_deletion(DeletionGoesOn(a))

(***************************************************************************)
(* Safety.                                                                 *)
(***************************************************************************)
\* docs/design/security-hardening.md 2.2: the limit is checked again right
\* after attaching, so concurrent registrations cannot overshoot it.
NodeLimitHolds ==
  \A a \in Accounts : Cardinality(AccountNodes(connections, a)) <= MaxNodesPerAccount

\* ws_manager.py, detach: "a replaced connection never tears down its
\* successor's state".  A node goes offline only when its live connection
\* ends, when a request fails to send to it, or when its account is deleted:
\* never because an old connection ends, and never because another
\* registration runs into the node limit after attaching.
OnlyDropsTakeNodesOffline ==
  [][\A n \in Nodes : IsOnline(n) /\ ~IsOnline(n)' =>
       \/ handler'[connections[n]] = "deleting"
       \/ sender'[connections[n]] = "deleting"
       \/ deletion'[AccountOf[n]].step = "drop_deleting"]_vars

(***************************************************************************)
(* Liveness.                                                               *)
(***************************************************************************)
\* The connection c was replaced, but the registration that replaced it was
\* dropped before it had closed c: Redis raised in it.
Stranded(c) ==
  \E d \in Conns : previous[d] = c /\ handler[d] \in {"deleting", "removing", "closed"}

\* docs/architecture.md: "the newer connection replaces the older one": the
\* connection a registration replaced is closed in the end, unless Redis
\* raised in that very registration.
ReplacedConnectionsClose ==
  \A c \in Conns :
    (\E d \in Conns : previous[d] = c) ~> handler[c] = "closed" \/ Stranded(c)

\* An entry that expired under a connected node is put back by its heartbeat.
ExpiredEntryIsRestored ==
  \A c \in Conns :
    IsLive(c) /\ handler[c] = "serving" /\ ~HasEntry(NodeOf[c])
      ~> HasEntry(NodeOf[c]) \/ ~IsLive(c)

\* A session that is up when its account's keys are deleted is ended, unless
\* the deletion was answered with a server error, or the session was replaced
\* meanwhile by a registration in which Redis raised.
DeletionEndsSessions ==
  \A c \in Conns :
    LET step == deletion[AccountOf[NodeOf[c]]].step IN
    step = "keys_deleted" /\ IsLive(c)
      ~> handler[c] = "closed" \/ step = "failed" \/ Stranded(c)

\* server.py, the heartbeat branch: "put it back so routing can find it
\* again": a connected node is not left out of the registry for ever.
ConnectedNodeIsListed ==
  \A c \in Conns :
    IsLive(c) /\ handler[c] = "serving" ~> Listed(NodeOf[c]) \/ ~IsLive(c)
==============================================================================
