------------------------------- MODULE Sockets -------------------------------
(***************************************************************************)
(* The node identities, and the WebSockets that nodes open to the          *)
(* coordinator.  A WebSocket carries one session and is never reused; the  *)
(* components know it by identity.                                         *)
(***************************************************************************)
CONSTANTS
  Nodes,    \* node identities (derive_node_id)
  Conns,    \* node WebSockets
  NoConn    \* None, where the code has a WebSocket or None

ASSUME NoConnAssumption == NoConn \notin Conns
==============================================================================
