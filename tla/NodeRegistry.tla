---------------------------- MODULE NodeRegistry -----------------------------
(***************************************************************************)
(* coordinator/registry.py: what Redis holds about the nodes.  Each await  *)
(* of NodeRegistry is one Redis command, atomic by itself, and commands of *)
(* different coroutines interleave; register is SetEntry then AddOnline,   *)
(* unregister is DeleteEntry (with the load key) then RemoveOnline, and    *)
(* update_heartbeat reads the entry and then writes it back.               *)
(*                                                                         *)
(* An entry is abstracted to the connection whose registration message it  *)
(* was made from: that is what its capabilities and model come from.       *)
(***************************************************************************)
EXTENDS Sockets

VARIABLES
  entry,         \* gn:node:<id>, NoConn when the key does not exist
  onlineNodes    \* gn:online_nodes

registryVars == <<entry, onlineNodes>>

RegistryTypeOK ==
  /\ entry \in [Nodes -> Conns \cup {NoConn}]
  /\ onlineNodes \subseteq Nodes

RegistryInit ==
  /\ entry = [n \in Nodes |-> NoConn]
  /\ onlineNodes = {}

HasEntry(n) == entry[n] # NoConn

\* get_online_nodes returns n: it is a member of the set and has an entry.
Listed(n) == n \in onlineNodes /\ HasEntry(n)

SetEntry(n, info) ==
  /\ entry' = [entry EXCEPT ![n] = info]
  /\ UNCHANGED onlineNodes

AddOnline(n) ==
  /\ onlineNodes' = onlineNodes \cup {n}
  /\ UNCHANGED entry

DeleteEntry(n) ==
  /\ entry' = [entry EXCEPT ![n] = NoConn]
  /\ UNCHANGED onlineNodes

RemoveOnline(n) ==
  /\ onlineNodes' = onlineNodes \ {n}
  /\ UNCHANGED entry
==============================================================================
