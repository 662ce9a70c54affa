-------------------------- MODULE ConnectionManager --------------------------
(***************************************************************************)
(* coordinator/ws_manager.py: which WebSocket is the live connection of    *)
(* each node identity.  Its three dictionaries (connections, node_info,    *)
(* node_account) are always written together, so one variable stands for   *)
(* them; the node a connection registers as follows from its API key and   *)
(* node name (derive_node_id) and is the constant NodeOf.                  *)
(***************************************************************************)
EXTENDS Sockets

CONSTANT
  NodeOf     \* the identity each connection registers as

ASSUME NodeOfAssumption == NodeOf \in [Conns -> Nodes]

VARIABLE connections   \* WSConnectionManager.connections

ConnectionsTypeOK == connections \in [Nodes -> Conns \cup {NoConn}]

IsOnline(n) == connections[n] # NoConn

IsLive(c) == connections[NodeOf[c]] = c

\* attach: c takes over from whatever connection the node had.
Attached(c) == [connections EXCEPT ![NodeOf[c]] = c]

\* A mutant of detach: its identity test is inverted.
DetachedInverted(c) ==
  IF IsLive(c) THEN connections ELSE [connections EXCEPT ![NodeOf[c]] = NoConn]

\* detach: forgets the node only while c is its live connection.
Detached(c) ==
  IF IsLive(c) THEN [connections EXCEPT ![NodeOf[c]] = NoConn] ELSE connections
==============================================================================
