------------------------- MODULE NodeSessionsProofs --------------------------
(***************************************************************************)
(* Theorems about NodeSessions, for any nodes, connections, accounts and   *)
(* limit: the limit on an account's nodes, and what may take a node        *)
(* offline.  The second needs the first: a registration that finds the     *)
(* limit exceeded after attaching detaches itself, and only the limit that *)
(* held before says that its node was not online.                          *)
(***************************************************************************)
EXTENDS NodeSessions, FiniteSetTheorems, TLAPS

\* While delete_account drops nodes, those it has left are the account's.
DropsOwnNodes ==
  \A a \in Accounts :
    deletion[a].step \in {"dropping", "drop_deleting", "drop_removing"}
      => \A n \in deletion[a].todo : AccountOf[n] = a

USE DEF ConnectionsTypeOK, RegistryTypeOK, registryVars, handlerVars, accountVars

(***************************************************************************)
(* Types.                                                                  *)
(***************************************************************************)
LEMMA TypedInit == Init => TypeOK /\ DropsOwnNodes
BY SessionAssumption
   DEF Init, TypeOK, DropsOwnNodes, RegistryInit, HandlerStates, DropStates, Deletion,
       DeletionSteps

LEMMA TypedConnStep ==
  ASSUME TypeOK, NEW c \in Conns,
         RegistrationNext(c) \/ ServingNext(c) \/ SenderNext(c)
  PROVE  TypeOK' /\ UNCHANGED deletion
<1> USE NodeOfAssumption, SessionAssumption DEF TypeOK, HandlerStates
<1>1. CASE Validate(c) \/ CheckLimit(c) \/ AcknowledgeFails(c)
  BY <1>1 DEF Validate, KeyIsValid, CheckLimit, AcknowledgeFails, Step
<1>2. CASE Attach(c)
  BY <1>2 DEF Attach, Step, Attached
<1>3. CASE RegisterSet(c) \/ RegisterAdd(c)
  BY <1>3 DEF RegisterSet, RegisterAdd, Step, SetEntry, AddOnline
<1>4. CASE Record(c)
  <2>1. accountNodes' \in [Accounts -> SUBSET Nodes]
    BY <1>4 DEF Record
  <2> QED
    BY <1>4, <2>1 DEF Record, Step
<1>5. CASE HeartbeatGet(c) \/ HeartbeatSet(c)
  BY <1>5 DEF HeartbeatGet, HeartbeatSet, Step, SetEntry
<1>6. CASE Disconnect(c)
  BY <1>6 DEF Disconnect, BeginDrop, Detached
<1>7. CASE SessionRaises(c)
  <2>1. accountNodes' \in [Accounts -> SUBSET Nodes]
    BY <1>7 DEF SessionRaises
  <2> QED
    BY <1>7, <2>1 DEF SessionRaises, BeginDrop, Detached
<1>8. CASE DisconnectDelete(c) \/ DisconnectRemove(c) \/ DropRaises(c)
  BY <1>8 DEF DisconnectDelete, DisconnectRemove, DropRaises, Step, DeleteEntry, RemoveOnline
<1>9. CASE SendFails(c)
  BY <1>9 DEF SendFails, Detached, DropStates
<1>10. CASE SenderDelete(c) \/ SenderRemove(c) \/ SenderDropRaises(c)
  BY <1>10 DEF SenderDelete, SenderRemove, SenderDropRaises, DropStates, DeleteEntry,
               RemoveOnline
<1> QED
  BY <1>1, <1>2, <1>3, <1>4, <1>5, <1>6, <1>7, <1>8, <1>9, <1>10
     DEF RegistrationNext, ServingNext, SenderNext

\* A deletion that moves on to another step keeps its locals.
LEMMA DeletionStepTyped ==
  ASSUME TypeOK, NEW a \in Accounts, NEW from, NEW to \in DeletionSteps,
         DeletionStep(a, from, to)
  PROVE  /\ deletion' \in [Accounts -> Deletion]
         /\ deletion[a].step = from
         /\ deletion'[a].step = to /\ deletion'[a].todo = deletion[a].todo
         /\ \A b \in Accounts \ {a} : deletion'[b] = deletion[b]
<1> DEFINE new == [deletion[a] EXCEPT !.step = to]
<1>1. deletion \in [Accounts -> Deletion]
  BY DEF TypeOK
<1>2. deletion' = [deletion EXCEPT ![a] = new]
  BY <1>1 DEF DeletionStep
<1>3. new \in Deletion /\ new.step = to /\ new.todo = deletion[a].todo
  BY <1>1 DEF Deletion
<1> HIDE DEF new
<1> QED
  BY <1>1, <1>2, <1>3 DEF DeletionStep

LEMMA TypedDeletionStep ==
  ASSUME TypeOK, DropsOwnNodes, NEW a \in Accounts, DeletionNext(a)
  PROVE  TypeOK' /\ DropsOwnNodes'
<1> USE SessionAssumption
<1> DEFINE Others == \A b \in Accounts \ {a} : deletion'[b] = deletion[b]
           Dropping == {"dropping", "drop_deleting", "drop_removing"}
<1>1. ASSUME \/ DeleteKeys(a) \/ DropDelete(a) \/ DropRemove(a) \/ ForgetRemove(a)
             \/ DeletionEnds(a) \/ DeletionRaises(a)
      PROVE  /\ deletion' \in [Accounts -> Deletion]
             /\ Others
             /\ deletion'[a].todo = deletion[a].todo
             /\ deletion'[a].step \in Dropping => deletion[a].step \in Dropping
  <2>1. \E from, to \in DeletionSteps :
          /\ DeletionStep(a, from, to)
          /\ to \in Dropping => from \in Dropping
    BY <1>1 DEF DeleteKeys, DropDelete, DropRemove, ForgetRemove, DeletionEnds,
                DeletionRaises, DeletionSteps
  <2> QED
    BY <2>1, DeletionStepTyped
<1>2. ASSUME NEW n \in Nodes, DropNode(a, n)
      PROVE  /\ deletion' \in [Accounts -> Deletion]
             /\ Others
             /\ deletion'[a].todo \subseteq deletion[a].todo
             /\ deletion[a].step \in Dropping
  BY <1>2 DEF DropNode, TypeOK, Deletion, DeletionSteps
<1>3. ASSUME NEW n \in Nodes, ForgetNode(a, n)
      PROVE  deletion' \in [Accounts -> Deletion] /\ Others /\ deletion'[a].step \notin Dropping
  BY <1>3 DEF ForgetNode, TypeOK, Deletion, DeletionSteps
<1>4. ASSUME ReadNodes(a)
      PROVE  deletion' \in [Accounts -> Deletion] /\ Others /\ deletion'[a].step \notin Dropping
  BY <1>4 DEF ReadNodes, TypeOK, Deletion, DeletionSteps
<1>5. ASSUME ListNodes(a)
      PROVE  /\ deletion' \in [Accounts -> Deletion]
             /\ Others
             /\ \A n \in deletion'[a].todo : AccountOf[n] = a
  BY <1>5 DEF ListNodes, AccountNodes, TypeOK, Deletion, DeletionSteps
<1>6. deletion' \in [Accounts -> Deletion] /\ DropsOwnNodes'
  <2>1. deletion' \in [Accounts -> Deletion] /\ Others
    BY <1>1, <1>2, <1>3, <1>4, <1>5 DEF DeletionNext
  <2>2. deletion'[a].step \in Dropping => \A n \in deletion'[a].todo : AccountOf[n] = a
    BY <1>1, <1>2, <1>3, <1>4, <1>5 DEF DeletionNext, DropsOwnNodes
  <2> QED
    BY <2>1, <2>2 DEF DropsOwnNodes
<1>7. TypeOK'
  <2>1. CASE DeleteKeys(a) \/ ListNodes(a) \/ ReadNodes(a)
    BY <1>6, <2>1 DEF DeleteKeys, ListNodes, ReadNodes, TypeOK
  <2>2. CASE DeletionEnds(a)
    BY <1>6, <2>2 DEF DeletionEnds, TypeOK
  <2>3. ASSUME NEW n \in Nodes, DropNode(a, n) PROVE TypeOK'
    BY <1>6, <2>3 DEF DropNode, TypeOK
  <2>4. ASSUME NEW n \in Nodes, ForgetNode(a, n) PROVE TypeOK'
    BY <1>6, <2>4 DEF ForgetNode, DeleteEntry, TypeOK
  <2>5. CASE DropDelete(a) \/ ForgetRemove(a)
    BY <1>6, <2>5 DEF DropDelete, ForgetRemove, DeleteEntry, RemoveOnline, TypeOK
  <2>6. CASE DropRemove(a)
    <3>1. {deletion[a].websocket} \ {NoConn} \subseteq Conns
      BY DEF TypeOK, Deletion
    <3> QED
      BY <1>6, <2>6, <3>1 DEF DropRemove, RemoveOnline, TypeOK
  <2>7. CASE DeletionRaises(a)
    BY <1>6, <2>7 DEF DeletionRaises, RemoveOnline, TypeOK
  <2> QED
    BY <2>1, <2>2, <2>3, <2>4, <2>5, <2>6, <2>7 DEF DeletionNext
<1> QED
  BY <1>6, <1>7

LEMMA TypedStep == TypeOK /\ DropsOwnNodes /\ [Next]_vars => TypeOK' /\ DropsOwnNodes'
<1> SUFFICES ASSUME TypeOK, DropsOwnNodes, [Next]_vars
             PROVE  TypeOK' /\ DropsOwnNodes'
  OBVIOUS
<1>1. ASSUME NEW c \in Conns, RegistrationNext(c) \/ ServingNext(c) \/ SenderNext(c)
      PROVE  TypeOK' /\ DropsOwnNodes'
  BY <1>1, TypedConnStep DEF DropsOwnNodes
<1>2. ASSUME NEW n \in Nodes, Expire(n) PROVE TypeOK' /\ DropsOwnNodes'
  BY <1>2 DEF Expire, DeleteEntry, TypeOK, DropsOwnNodes
<1>3. ASSUME NEW a \in Accounts, DeletionNext(a) PROVE TypeOK' /\ DropsOwnNodes'
  BY <1>3, TypedDeletionStep
<1>4. CASE UNCHANGED vars
  BY <1>4 DEF vars, TypeOK, DropsOwnNodes
<1> QED
  BY <1>1, <1>2, <1>3, <1>4 DEF Next

\* Every variable keeps its type.
THEOREM TypeCorrect == Spec => []TypeOK
<1> QED
  BY TypedInit, TypedStep, PTL DEF Spec

(***************************************************************************)
(* The limit on an account's nodes.                                        *)
(***************************************************************************)
LEMMA FewNodes ==
  ASSUME NEW conns, NEW a
  PROVE  /\ IsFiniteSet(AccountNodes(conns, a))
         /\ Cardinality(AccountNodes(conns, a)) \in Nat
BY SessionAssumption, FS_Subset, FS_CardinalityType DEF AccountNodes

\* A connection table with fewer nodes online keeps the limit.
LEMMA FewerNodes ==
  ASSUME NodeLimitHolds, NEW a \in Accounts,
         AccountNodes(connections', a) \subseteq AccountNodes(connections, a)
  PROVE  Cardinality(AccountNodes(connections', a)) <= MaxNodesPerAccount
<1>1. Cardinality(AccountNodes(connections, a)) <= MaxNodesPerAccount
  BY DEF NodeLimitHolds
<1>2. Cardinality(AccountNodes(connections', a)) <= Cardinality(AccountNodes(connections, a))
  BY FewNodes, FS_Subset
<1> QED
  BY <1>1, <1>2, FewNodes, SessionAssumption

LEMMA AttachKeepsLimit ==
  ASSUME TypeOK, NodeLimitHolds, NEW c \in Conns, Attach(c)
  PROVE  NodeLimitHolds'
<1> DEFINE n == NodeOf[c]
           rejected == ExceedsNodeLimit(Attached(c), n)
<1>1. n \in Nodes /\ connections \in [Nodes -> Conns \cup {NoConn}]
  BY NodeOfAssumption DEF TypeOK
<1> SUFFICES ASSUME NEW a \in Accounts
             PROVE  Cardinality(AccountNodes(connections', a)) <= MaxNodesPerAccount
  BY DEF NodeLimitHolds
<1>2. CASE rejected
  <2>1. connections' = [connections EXCEPT ![n] = NoConn]
    BY <1>2 DEF Attach
  <2> QED
    BY <1>1, <2>1, FewerNodes DEF AccountNodes
<1>3. CASE ~rejected /\ AccountOf[n] # a
  <2>1. connections' = [connections EXCEPT ![n] = c]
    BY <1>3 DEF Attach, Attached
  <2> QED
    BY <1>1, <1>3, <2>1, FewerNodes DEF AccountNodes
<1>4. CASE ~rejected /\ AccountOf[n] = a
  <2> DEFINE all == AccountNodes(connections', a)
  <2>1. connections' = Attached(c)
    BY <1>4 DEF Attach
  <2>2. ~(Cardinality(all \ {n}) >= MaxNodesPerAccount)
    BY <1>4, <2>1 DEF ExceedsNodeLimit
  <2>3. IsFiniteSet(all) /\ Cardinality(all) \in Nat
    BY FewNodes
  <2> HIDE DEF all
  <2>4. Cardinality(all \ {n}) = IF n \in all THEN Cardinality(all) - 1
                                              ELSE Cardinality(all)
    BY <2>3, FS_RemoveElement
  <2>5. Cardinality(all) <= MaxNodesPerAccount
    BY <2>2, <2>3, <2>4, SessionAssumption
  <2> QED
    BY <2>5 DEF all
<1> QED
  BY <1>2, <1>3, <1>4

LEMMA LimitStep == TypeOK /\ NodeLimitHolds /\ [Next]_vars => NodeLimitHolds'
<1> SUFFICES ASSUME TypeOK, NodeLimitHolds, [Next]_vars PROVE NodeLimitHolds'
  OBVIOUS
<1>1. ASSUME NEW c \in Conns, Attach(c) PROVE NodeLimitHolds'
  BY <1>1, AttachKeepsLimit
<1>2. ASSUME \A n \in Nodes : connections'[n] # NoConn => connections[n] # NoConn
      PROVE  NodeLimitHolds'
  <2>1. \A a \in Accounts :
          AccountNodes(connections', a) \subseteq AccountNodes(connections, a)
    BY <1>2 DEF AccountNodes
  <2> QED
    BY <2>1, FewerNodes DEF NodeLimitHolds
<1>3. ASSUME NEW c \in Conns, Disconnect(c) \/ SessionRaises(c) \/ SendFails(c)
      PROVE  \A n \in Nodes : connections'[n] # NoConn => connections[n] # NoConn
  BY <1>3, NodeOfAssumption DEF Disconnect, SessionRaises, BeginDrop, SendFails, Detached,
     TypeOK
<1>4. ASSUME NEW a \in Accounts, NEW n \in Nodes, DropNode(a, n)
      PROVE  \A m \in Nodes : connections'[m] # NoConn => connections[m] # NoConn
  BY <1>4 DEF DropNode, TypeOK
<1>5. ASSUME NEW c \in Conns,
             \/ Validate(c) \/ CheckLimit(c) \/ AcknowledgeFails(c)
             \/ RegisterSet(c) \/ RegisterAdd(c) \/ Record(c)
             \/ HeartbeatGet(c) \/ HeartbeatSet(c)
             \/ DisconnectDelete(c) \/ DisconnectRemove(c) \/ DropRaises(c)
             \/ SenderDelete(c) \/ SenderRemove(c) \/ SenderDropRaises(c)
      PROVE  UNCHANGED connections
  BY <1>5 DEF Validate, CheckLimit, AcknowledgeFails, RegisterSet, RegisterAdd, Record,
     HeartbeatGet, HeartbeatSet, DisconnectDelete, DisconnectRemove, DropRaises,
     SenderDelete, SenderRemove, SenderDropRaises
<1>6. ASSUME NEW a \in Accounts, DeletionNext(a), \A n \in Nodes : ~DropNode(a, n)
      PROVE  UNCHANGED connections
  BY <1>6 DEF DeletionNext, DeleteKeys, ListNodes, ReadNodes, DeletionEnds, ForgetNode,
     DropDelete, DropRemove, ForgetRemove, DeletionRaises
<1>7. ASSUME NEW n \in Nodes, Expire(n) PROVE UNCHANGED connections
  BY <1>7 DEF Expire
<1>8. CASE UNCHANGED vars
  BY <1>2, <1>8 DEF vars
<1> QED
  BY <1>1, <1>2, <1>3, <1>4, <1>5, <1>6, <1>7, <1>8
     DEF Next, RegistrationNext, ServingNext, SenderNext

\* However many registrations of one account wait for their acknowledgement
\* at the same time, the account never has more nodes online than the limit.
THEOREM LimitIsKept == Spec => []NodeLimitHolds
<1>1. Init => NodeLimitHolds
  <2> SUFFICES ASSUME Init, NEW a \in Accounts
               PROVE  Cardinality(AccountNodes(connections, a)) <= MaxNodesPerAccount
    BY DEF NodeLimitHolds
  <2>1. AccountNodes(connections, a) = {}
    BY DEF Init, AccountNodes
  <2> QED
    BY <2>1, FS_EmptySet, SessionAssumption
<1>2. Spec => []TypeOK
  BY TypeCorrect
<1> QED
  BY <1>1, <1>2, LimitStep, PTL DEF Spec

(***************************************************************************)
(* What takes a node offline.                                              *)
(***************************************************************************)
DroppedBySomebody(n) ==
  \/ handler'[connections[n]] = "deleting"
  \/ sender'[connections[n]] = "deleting"
  \/ deletion'[AccountOf[n]].step = "drop_deleting"

\* An online node that attaches again is counted already, so the limit that
\* held before cannot reject it.
LEMMA OnlineNodeIsNotRejected ==
  ASSUME TypeOK, NodeLimitHolds, NEW c \in Conns, Attach(c), IsOnline(NodeOf[c])
  PROVE  connections' = Attached(c)
<1> DEFINE n == NodeOf[c]
           a == AccountOf[n]
           before == AccountNodes(connections, a)
<1>1. /\ n \in Nodes /\ a \in Accounts
      /\ connections \in [Nodes -> Conns \cup {NoConn}]
  BY NodeOfAssumption, SessionAssumption DEF TypeOK
<1>2. AccountNodes(Attached(c), a) \ {n} = before \ {n}
  BY <1>1 DEF AccountNodes, Attached
<1>3. n \in before /\ IsFiniteSet(before) /\ Cardinality(before) \in Nat
  BY <1>1, FewNodes DEF AccountNodes, IsOnline
<1>4. Cardinality(before) <= MaxNodesPerAccount
  BY <1>1 DEF NodeLimitHolds
<1>5. Cardinality(before \ {n}) = Cardinality(before) - 1
  BY <1>3, FS_RemoveElement
<1>6. ~(Cardinality(before \ {n}) >= MaxNodesPerAccount)
  <2> HIDE DEF before
  <2> QED
    BY <1>3, <1>4, <1>5, SessionAssumption
<1>7. ~ExceedsNodeLimit(Attached(c), NodeOf[c])
  BY <1>2, <1>6 DEF ExceedsNodeLimit
<1> QED
  BY <1>7 DEF Attach

LEMMA OfflineStep ==
  ASSUME TypeOK, DropsOwnNodes, NodeLimitHolds, [Next]_vars,
         NEW n \in Nodes, IsOnline(n), ~IsOnline(n)'
  PROVE  DroppedBySomebody(n)
<1> USE NodeOfAssumption DEF IsOnline
<1>1. connections \in [Nodes -> Conns \cup {NoConn}]
  BY DEF TypeOK
<1>2. ASSUME NEW c \in Conns, Attach(c) PROVE FALSE
  <2>1. NodeOf[c] = n
    BY <1>1, <1>2 DEF Attach, Attached
  <2>2. connections'[n] = c
    BY <1>1, <1>2, <2>1, OnlineNodeIsNotRejected DEF Attached
  <2> QED
    BY <2>2, NoConnAssumption
<1>3. ASSUME NEW c \in Conns, Disconnect(c) \/ SessionRaises(c)
      PROVE  DroppedBySomebody(n)
  <2>1. BeginDrop(c)
    BY <1>3 DEF Disconnect, SessionRaises
  <2> QED
    BY <1>1, <2>1 DEF BeginDrop, Detached, IsLive, DroppedBySomebody, TypeOK
<1>4. ASSUME NEW c \in Conns, SendFails(c) PROVE DroppedBySomebody(n)
  BY <1>1, <1>4 DEF SendFails, Detached, IsLive, DroppedBySomebody, TypeOK
<1>5. ASSUME NEW a \in Accounts, NEW m \in Nodes, DropNode(a, m)
      PROVE  DroppedBySomebody(n)
  <2>1. m = n /\ AccountOf[n] = a
    BY <1>1, <1>5 DEF DropNode, DropsOwnNodes
  <2>2. deletion'[a].step = "drop_deleting"
    BY <1>5 DEF DropNode, TypeOK
  <2> QED
    BY <2>1, <2>2 DEF DroppedBySomebody
<1>6. ASSUME NEW c \in Conns,
             \/ Validate(c) \/ CheckLimit(c) \/ AcknowledgeFails(c)
             \/ RegisterSet(c) \/ RegisterAdd(c) \/ Record(c)
             \/ HeartbeatGet(c) \/ HeartbeatSet(c)
             \/ DisconnectDelete(c) \/ DisconnectRemove(c) \/ DropRaises(c)
             \/ SenderDelete(c) \/ SenderRemove(c) \/ SenderDropRaises(c)
      PROVE  UNCHANGED connections
  BY <1>6 DEF Validate, CheckLimit, AcknowledgeFails, RegisterSet, RegisterAdd, Record,
     HeartbeatGet, HeartbeatSet, DisconnectDelete, DisconnectRemove, DropRaises,
     SenderDelete, SenderRemove, SenderDropRaises
<1>7. ASSUME NEW a \in Accounts, DeletionNext(a), \A m \in Nodes : ~DropNode(a, m)
      PROVE  UNCHANGED connections
  BY <1>7 DEF DeletionNext, DeleteKeys, ListNodes, ReadNodes, DeletionEnds, ForgetNode,
     DropDelete, DropRemove, ForgetRemove, DeletionRaises
<1>8. ASSUME NEW m \in Nodes, Expire(m) PROVE UNCHANGED connections
  BY <1>8 DEF Expire
<1>9. ~UNCHANGED connections
  OBVIOUS
<1> QED
  BY <1>2, <1>3, <1>4, <1>5, <1>6, <1>7, <1>8, <1>9
     DEF Next, RegistrationNext, ServingNext, SenderNext, vars

\* A node goes offline only with its own live connection, a failed send to
\* it or the deletion of its account: neither an old connection that ends nor
\* the limit check after another attach takes it down.
THEOREM OnlyDropsDo == Spec => OnlyDropsTakeNodesOffline
<1>1. TypeOK /\ DropsOwnNodes /\ NodeLimitHolds /\ [Next]_vars
        => [\A n \in Nodes : IsOnline(n) /\ ~IsOnline(n)' =>
              \/ handler'[connections[n]] = "deleting"
              \/ sender'[connections[n]] = "deleting"
              \/ deletion'[AccountOf[n]].step = "drop_deleting"]_vars
  BY OfflineStep DEF DroppedBySomebody
<1>2. Spec => [](TypeOK /\ DropsOwnNodes)
  BY TypedInit, TypedStep, PTL DEF Spec
<1> QED
  BY <1>1, <1>2, LimitIsKept, PTL DEF Spec, OnlyDropsTakeNodesOffline
==============================================================================
