--------------------- MODULE SimulationController_proofs ---------------------
(***************************************************************************)
(* Theorems about SimulationController, for every set of configurations,   *)
(* every number of ids and without the bounds of the runs.                 *)
(*                                                                         *)
(* TypeCorrect, TablesCovered and TablesDisjoint hold whatever threads     *)
(* fail.  The other theorems are about node threads that live until they   *)
(* are told to end; they rest on one inductive invariant, Consistent,      *)
(* because each of them needs the others: a handler keeps links symmetric  *)
(* only when both ends are alive and in the tables.                        *)
(***************************************************************************)
EXTENDS SimulationController, TLAPS

USE ControllerAssumption

-----------------------------------------------------------------------------
(* Facts about the operators *)

LEMMA ConfigurationFacts ==
  ASSUME NEW c \in DOMAIN Configurations
  PROVE  /\ NodesOf(c) \subseteq Id
         /\ Configurations[c].edges \subseteq Id \X Id
         /\ GoodEdges(c) \subseteq Configurations[c].edges
         /\ \A e \in GoodEdges(c) : {e[1], e[2]} \subseteq NodesOf(c)
BY DEF NodesOf, GoodEdges

\* The pairs of a set of links.
LEMMA BothWaysFacts ==
  ASSUME NEW edges
  PROVE  \A a, b : <<a, b>> \in UNION {BothWays(e[1], e[2]) : e \in edges} <=>
                     \E e \in edges : \/ a = e[1] /\ b = e[2]
                                      \/ a = e[2] /\ b = e[1]
BY DEF BothWays

LEMMA BuildType ==
  ASSUME TypeOK, NEW c \in DOMAIN Configurations,
         NEW ids \in SUBSET NodesOf(c), NEW edges \in SUBSET GoodEdges(c),
         Build(c, ids, edges)
  PROVE  /\ drones' \subseteq Id /\ servers' \subseteq Id /\ clients' \subseteq Id
         /\ neighbours' \subseteq Id \X Id
         /\ packet_channels' \subseteq Id
         /\ incarnation' \in [Id -> Nat]
         /\ senders' \subseteq Id \X Id \X Nat
<1>1. ids \subseteq Id /\ edges \subseteq Id \X Id
  BY ConfigurationFacts
<1>2. incarnation' \in [Id -> Nat]
  BY DEF Build, TypeOK
<1>3. neighbours' \subseteq Id \X Id
  BY <1>1 DEF Build, BothWays
<1>4. \A e \in edges : e[1] \in Id /\ e[2] \in Id
  BY <1>1
<1>5. senders' \subseteq Id \X Id \X Nat
  <2> SUFFICES ASSUME NEW s \in senders'
               PROVE  s \in Id \X Id \X Nat
    OBVIOUS
  <2>1. PICK e \in edges : s \in {<<e[1], e[2], incarnation'[e[2]]>>,
                                 <<e[2], e[1], incarnation'[e[1]]>>}
    BY DEF Build
  <2>2. incarnation'[e[1]] \in Nat /\ incarnation'[e[2]] \in Nat
    BY <1>2, <1>4
  <2> QED
    BY <1>4, <2>1, <2>2
<1> QED
  BY <1>1, <1>2, <1>3, <1>5 DEF Build

-----------------------------------------------------------------------------
(* Type correctness *)

LEMMA TypeInit == Init => TypeOK
<1> SUFFICES ASSUME Init PROVE TypeOK
  OBVIOUS
<1> DEFINE c == InitialConfiguration
<1>1. NodesOf(c) \subseteq Id /\ GoodEdges(c) \subseteq Id \X Id
  BY ConfigurationFacts
<1>2. neighbours \subseteq Id \X Id
  BY <1>1 DEF Init, BothWays
<1>3. senders \subseteq Id \X Id \X Nat
  BY <1>2 DEF Init
<1>4. incarnation \in [Id -> Nat]
  BY DEF Init
<1> QED
  BY <1>1, <1>2, <1>3, <1>4 DEF Init, TypeOK, NodesOf

LEMMA TypeNext == TypeOK /\ [Next]_vars => TypeOK'
<1> SUFFICES ASSUME TypeOK, [Next]_vars
             PROVE  TypeOK'
  OBVIOUS
<1>1. ASSUME NEW id \in Id, AddNode(id)
      PROVE  TypeOK'
  <2>1. incarnation' \in [Id -> Nat]
    BY <1>1 DEF AddNode, TypeOK
  <2> QED
    BY <1>1, <2>1 DEF AddNode, ChannelsWith, Fault, TypeOK
<1>2. ASSUME NEW id \in Id, DeleteNode(id)
      PROVE  TypeOK'
  BY <1>2 DEF DeleteNode, ChannelsWithout, NeighboursWithout, SendersWithout,
              TypeOK
<1>3. ASSUME NEW a \in Id, NEW b \in Id, AddEdge(a, b)
      PROVE  TypeOK'
  <2>1. NewSenders(a, b) \subseteq Id \X Id \X Nat
    BY DEF NewSenders, TypeOK
  <2>2. senders' \subseteq Id \X Id \X Nat
    BY <1>3, <2>1 DEF AddEdge, Given, TypeOK
  <2> QED
    BY <1>3, <2>2 DEF AddEdge, BothWays, TypeOK
<1>4. ASSUME NEW a \in Id, NEW b \in Id, DeleteEdge(a, b)
      PROVE  TypeOK'
  BY <1>4 DEF DeleteEdge, TypeOK
<1>5. CASE DestroyFails
  BY <1>5 DEF DestroyFails, KeepOnly, Fault, TypeOK
<1>6. CASE ConfigurationMissing
  BY <1>6 DEF ConfigurationMissing, KeepOnly, TypeOK
<1>7. ASSUME NEW c \in DOMAIN Configurations, LoadConfiguration(c)
      PROVE  TypeOK'
  <2>1. Build(c, NodesOf(c), GoodEdges(c))
    BY <1>7 DEF LoadConfiguration
  <2> QED
    BY <1>7, <2>1, BuildType, ConfigurationFacts DEF LoadConfiguration, TypeOK
<1>8. ASSUME NEW c \in DOMAIN Configurations, LoadStops(c)
      PROVE  TypeOK'
  <2>1. PICK ids \in SUBSET NodesOf(c), edges \in SUBSET GoodEdges(c) :
          Build(c, ids, edges)
    BY <1>8 DEF LoadStops
  <2>2. alive' \subseteq Id /\ faults' \in Nat
    BY <1>8, ConfigurationFacts DEF LoadStops, Fault, TypeOK
  <2> QED
    BY <1>8, <2>1, <2>2, BuildType DEF LoadStops, TypeOK
<1>9. ASSUME NEW how \in {"lost", "misconfigured"}, Poison(how),
             Fault \/ UNCHANGED faults
      PROVE  TypeOK'
  BY <1>9 DEF Poison, Fault, tables, TypeOK
<1>10. ASSUME NEW id \in Id, ThreadDies(id)
       PROVE  TypeOK'
  BY <1>10 DEF ThreadDies, Fault, tables, TypeOK
<1>11. CASE UNCHANGED vars
  BY <1>11 DEF vars, TypeOK
<1> QED
  BY <1>1, <1>2, <1>3, <1>4, <1>5, <1>6, <1>7, <1>8, <1>9, <1>10, <1>11
     DEF Next, ChangeConfiguration, DeleteNodePanics, GetNodeDataPanics,
         AddNodeOverflows, AddEdgePanics, DeleteEdgePanics, LoadPanics,
         GetTopologyPanics, MainFilePanics, UnknownKindPanics, Panic

\* The state keeps its shape.
THEOREM TypeCorrect == Spec => []TypeOK
BY TypeInit, TypeNext, PTL DEF Spec

-----------------------------------------------------------------------------
(* Threads may die *)

NodesHaveChannels == NodeIds \subseteq packet_channels

\* Every node has a packet channel, whatever dies and whatever fails halfway:
\* no table is extended, and no channel removed, on its own.
LEMMA TablesCovered == Spec => []NodesHaveChannels
<1>1. Init => NodesHaveChannels
  BY DEF Init, NodesHaveChannels, NodeIds, NodesOf
<1>2. NodesHaveChannels /\ [Next]_vars => NodesHaveChannels'
  <2> SUFFICES ASSUME NodesHaveChannels, [Next]_vars
               PROVE  NodesHaveChannels'
    OBVIOUS
  <2>1. ASSUME NEW id \in Id, AddNode(id)
        PROVE  NodesHaveChannels'
    BY <2>1 DEF AddNode, ChannelsWith, NodesHaveChannels, NodeIds
  <2>2. ASSUME NEW id \in Id, DeleteNode(id)
        PROVE  NodesHaveChannels'
    BY <2>2 DEF DeleteNode, ChannelsWithout, NodesHaveChannels, NodeIds
  <2>3. ASSUME NEW a \in Id, NEW b \in Id, AddEdge(a, b) \/ DeleteEdge(a, b)
        PROVE  NodesHaveChannels'
    BY <2>3 DEF AddEdge, DeleteEdge, NodesHaveChannels, NodeIds
  <2>4. CASE DestroyFails
    BY <2>4 DEF DestroyFails, NodesHaveChannels, NodeIds
  <2>5. CASE ConfigurationMissing
    BY <2>5 DEF ConfigurationMissing, NodesHaveChannels, NodeIds
  <2>6. ASSUME NEW c \in DOMAIN Configurations,
               LoadConfiguration(c) \/ LoadStops(c)
        PROVE  NodesHaveChannels'
    <3>1. PICK ids, edges : Build(c, ids, edges)
      BY <2>6 DEF LoadConfiguration, LoadStops
    <3> QED
      BY <3>1 DEF Build, NodesHaveChannels, NodeIds
  <2>7. ASSUME NEW how, Poison(how)
        PROVE  NodesHaveChannels'
    BY <2>7 DEF Poison, tables, NodesHaveChannels, NodeIds
  <2>8. ASSUME NEW id \in Id, ThreadDies(id)
        PROVE  NodesHaveChannels'
    BY <2>8 DEF ThreadDies, tables, NodesHaveChannels, NodeIds
  <2>9. CASE UNCHANGED vars
    BY <2>9 DEF vars, NodesHaveChannels, NodeIds
  <2> QED
    BY <2>1, <2>2, <2>3, <2>4, <2>5, <2>6, <2>7, <2>8, <2>9
       DEF Next, ChangeConfiguration, DeleteNodePanics, GetNodeDataPanics,
           AddNodeOverflows, AddEdgePanics, DeleteEdgePanics, LoadPanics,
           GetTopologyPanics, MainFilePanics, UnknownKindPanics, Panic
<1> QED
  BY <1>1, <1>2, PTL DEF Spec

\* One id is never in two tables, whatever threads die: a configuration file
\* that names an id once leads to one node with that id.
THEOREM TablesDisjoint ==
  ASSUME \A c \in DOMAIN Configurations :
           /\ Configurations[c].drones \cap Configurations[c].servers = {}
           /\ Configurations[c].drones \cap Configurations[c].clients = {}
           /\ Configurations[c].servers \cap Configurations[c].clients = {}
  PROVE  Spec => []OneTableEach
<1>1. Init => OneTableEach
  BY ControllerAssumption DEF Init, OneTableEach
<1>2. ASSUME OneTableEach, [Next]_vars
      PROVE  OneTableEach'
  <2>1. ASSUME NEW id \in Id, AddNode(id)
        PROVE  OneTableEach'
    <3>1. id \notin drones /\ id \notin servers /\ id \notin clients
      BY <2>1 DEF AddNode, FreeId, NodeIds
    <3> QED
      BY <1>2, <2>1, <3>1 DEF AddNode, OneTableEach
  <2>2. ASSUME NEW id \in Id, DeleteNode(id)
        PROVE  OneTableEach'
    BY <1>2, <2>2 DEF DeleteNode, OneTableEach
  <2>3. ASSUME NEW a \in Id, NEW b \in Id, AddEdge(a, b) \/ DeleteEdge(a, b)
        PROVE  OneTableEach'
    BY <1>2, <2>3 DEF AddEdge, DeleteEdge, OneTableEach
  <2>4. ASSUME DestroyFails \/ ConfigurationMissing
        PROVE  OneTableEach'
    BY <1>2, <2>4 DEF DestroyFails, ConfigurationMissing, OneTableEach
  <2>5. ASSUME NEW c \in DOMAIN Configurations,
               LoadConfiguration(c) \/ LoadStops(c)
        PROVE  OneTableEach'
    <3>1. PICK ids, edges : Build(c, ids, edges)
      BY <2>5 DEF LoadConfiguration, LoadStops
    <3> QED
      BY <3>1 DEF Build, OneTableEach
  <2>6. ASSUME (\E how : Poison(how)) \/ \E id \in Id : ThreadDies(id)
        PROVE  OneTableEach'
    BY <1>2, <2>6 DEF Poison, ThreadDies, tables, OneTableEach
  <2>7. CASE UNCHANGED vars
    BY <1>2, <2>7 DEF vars, OneTableEach
  <2> QED
    BY <1>2, <2>1, <2>2, <2>3, <2>4, <2>5, <2>6, <2>7
       DEF Next, ChangeConfiguration, DeleteNodePanics, GetNodeDataPanics,
           AddNodeOverflows, AddEdgePanics, DeleteEdgePanics, LoadPanics,
           GetTopologyPanics, MainFilePanics, UnknownKindPanics, Panic
<1> QED
  BY <1>1, <1>2, PTL DEF Spec

-----------------------------------------------------------------------------
(* Threads live until they are told to end *)

Matched == Undisturbed => packet_channels = NodeIds

Consistent ==
  /\ TypeOK
  /\ Matched
  /\ Undisturbed => alive = NodeIds
  /\ EdgesBidirectional
  /\ NeighboursExist
  /\ SendersAreCurrent

\* The Senders are current after a step if they are triple by triple.
LEMMA NextSendersPointwise ==
  ASSUME TypeOK',
         \A a, b \in Id : \A n \in Nat :
           <<a, b, n>> \in senders' <=>
             (<<a, b>> \in neighbours' /\ n = incarnation'[b])
  PROVE  SendersAreCurrent'
<1> DEFINE S == {<<p[1], p[2], incarnation'[p[2]]>> : p \in neighbours'}
<1>1. /\ senders' \in SUBSET (Id \X Id \X Nat)
      /\ neighbours' \in SUBSET (Id \X Id)
      /\ incarnation' \in [Id -> Nat]
  BY DEF TypeOK
<1>2. ASSUME NEW s \in senders'
      PROVE  s \in S
  <2>1. PICK a \in Id, b \in Id, n \in Nat : s = <<a, b, n>>
    BY <1>1
  <2>2. <<a, b>> \in neighbours' /\ n = incarnation'[b]
    BY <1>2, <2>1
  <2> QED
    BY <2>1, <2>2
<1>3. ASSUME NEW s \in S
      PROVE  s \in senders'
  <2>1. PICK p \in neighbours' : s = <<p[1], p[2], incarnation'[p[2]]>>
    OBVIOUS
  <2>2. p[1] \in Id /\ p[2] \in Id /\ p = <<p[1], p[2]>>
    BY <1>1
  <2>3. incarnation'[p[2]] \in Nat
    BY <1>1, <2>2
  <2> QED
    BY <2>1, <2>2, <2>3
<1>4. senders' = S
  BY <1>2, <1>3
<1> QED
  BY <1>4 DEF SendersAreCurrent

LEMMA SendersPointwise ==
  ASSUME TypeOK, Undisturbed, SendersAreCurrent
  PROVE  \A a, b \in Id : \A n \in Nat :
           <<a, b, n>> \in senders <=>
             (<<a, b>> \in neighbours /\ n = incarnation[b])
<1> SUFFICES ASSUME NEW a \in Id, NEW b \in Id, NEW n \in Nat
             PROVE  <<a, b, n>> \in senders <=>
                      (<<a, b>> \in neighbours /\ n = incarnation[b])
  OBVIOUS
<1>1. ASSUME <<a, b, n>> \in senders
      PROVE  <<a, b>> \in neighbours /\ n = incarnation[b]
  <2>1. PICK p \in neighbours : <<a, b, n>> = <<p[1], p[2], incarnation[p[2]]>>
    BY <1>1 DEF SendersAreCurrent
  <2>2. p = <<p[1], p[2]>>
    BY DEF TypeOK
  <2> QED
    BY <2>1, <2>2
<1>2. ASSUME <<a, b>> \in neighbours, n = incarnation[b]
      PROVE  <<a, b, n>> \in senders
  BY <1>2 DEF SendersAreCurrent
<1> QED
  BY <1>1, <1>2

\* The network of a configuration, or as much of it as was built.
LEMMA BuildConsistent ==
  ASSUME TypeOK, TypeOK', NEW c \in DOMAIN Configurations,
         NEW edges \in SUBSET GoodEdges(c), Build(c, NodesOf(c), edges),
         alive' = NodesOf(c)
  PROVE  Consistent'
<1>1. NodeIds' = NodesOf(c)
  BY DEF Build, NodeIds, NodesOf
<1>2. \A a, b : <<a, b>> \in neighbours' <=>
                  \E e \in edges : \/ a = e[1] /\ b = e[2]
                                   \/ a = e[2] /\ b = e[1]
  <2>1. neighbours' = UNION {BothWays(e[1], e[2]) : e \in edges}
    BY DEF Build
  <2>2. \A p : p \in neighbours' <=> \E e \in edges : p \in BothWays(e[1], e[2])
    BY <2>1
  <2> QED
    BY <2>2 DEF BothWays
<1>3. \A e \in edges : /\ e[1] \in NodesOf(c) /\ e[2] \in NodesOf(c)
                       /\ e[1] \in Id /\ e[2] \in Id
  BY ConfigurationFacts
<1>4. EdgesBidirectional' /\ NeighboursExist'
  BY <1>1, <1>2, <1>3 DEF EdgesBidirectional, NeighboursExist
<1>5. SendersAreCurrent'
  <2>1. \A a, b \in Id : \A n \in Nat :
          <<a, b, n>> \in senders' <=>
            (<<a, b>> \in neighbours' /\ n = incarnation'[b])
    <3> SUFFICES ASSUME NEW a \in Id, NEW b \in Id, NEW n \in Nat
                 PROVE  <<a, b, n>> \in senders' <=>
                          (<<a, b>> \in neighbours' /\ n = incarnation'[b])
      OBVIOUS
    <3>1. <<a, b, n>> \in senders' <=>
            \E e \in edges : \/ <<a, b, n>> = <<e[1], e[2], incarnation'[e[2]]>>
                             \/ <<a, b, n>> = <<e[2], e[1], incarnation'[e[1]]>>
      <4> DEFINE two(e) == {<<e[1], e[2], incarnation'[e[2]]>>,
                            <<e[2], e[1], incarnation'[e[1]]>>}
      <4>1. senders' = UNION {two(e) : e \in edges}
        BY DEF Build
      <4>2. \A s : s \in senders' <=> \E e \in edges : s \in two(e)
        <5> HIDE DEF two
        <5> QED
          BY <4>1
      <4> QED
        BY <4>2
    <3> QED
      BY <1>2, <3>1
  <2> QED
    BY <2>1, NextSendersPointwise
<1>6. Matched' /\ (Undisturbed => alive = NodeIds)'
  BY <1>1 DEF Build, Matched
<1> QED
  BY <1>4, <1>5, <1>6 DEF Consistent

LEMMA ConsistentInit == Init => Consistent
<1> SUFFICES ASSUME Init PROVE Consistent
  OBVIOUS
<1> DEFINE c == InitialConfiguration
<1>1. TypeOK
  BY TypeInit
<1>2. NodeIds = NodesOf(c)
  BY DEF Init, NodeIds, NodesOf
<1>3. \A a, b : <<a, b>> \in neighbours <=>
                  \E e \in GoodEdges(c) : \/ a = e[1] /\ b = e[2]
                                          \/ a = e[2] /\ b = e[1]
  <2>1. neighbours = UNION {BothWays(e[1], e[2]) : e \in GoodEdges(c)}
    BY DEF Init
  <2> QED
    BY <2>1, BothWaysFacts
<1>4. \A e \in GoodEdges(c) : e[1] \in NodesOf(c) /\ e[2] \in NodesOf(c)
  BY ConfigurationFacts
<1>5. /\ EdgesBidirectional /\ NeighboursExist
      /\ Undisturbed
  BY <1>2, <1>3, <1>4
     DEF Init, Undisturbed, EdgesBidirectional, NeighboursExist
<1>6. \A p \in neighbours : incarnation[p[2]] = 1
  <2> SUFFICES ASSUME NEW p \in neighbours
               PROVE  incarnation[p[2]] = 1
    OBVIOUS
  <2>1. p = <<p[1], p[2]>> /\ p[1] \in Id /\ p[2] \in Id
    BY <1>1 DEF TypeOK
  <2>2. p[2] \in NodesOf(c)
    BY <1>2, <1>5, <2>1 DEF NeighboursExist
  <2> QED
    BY <2>1, <2>2 DEF Init
<1>7. SendersAreCurrent
  BY <1>6 DEF Init, SendersAreCurrent
<1> QED
  BY <1>1, <1>2, <1>5, <1>7 DEF Init, Consistent, Matched

LEMMA ConsistentAddNode ==
  ASSUME Consistent, Undisturbed, TypeOK', NEW id \in Id, AddNode(id),
         UNCHANGED faults
  PROVE  Consistent'
<1>1. NodeIds' = NodeIds \cup {id} /\ id \notin NodeIds
  BY DEF AddNode, FreeId, NodeIds
<1>2. EdgesBidirectional' /\ NeighboursExist'
  BY <1>1 DEF AddNode, Consistent, EdgesBidirectional, NeighboursExist
<1>3. \A p \in neighbours : incarnation'[p[2]] = incarnation[p[2]]
  <2> SUFFICES ASSUME NEW p \in neighbours
               PROVE  incarnation'[p[2]] = incarnation[p[2]]
    OBVIOUS
  <2>1. p = <<p[1], p[2]>> /\ p[1] \in Id /\ p[2] \in Id
    BY DEF Consistent, TypeOK
  <2>2. p[2] # id
    BY <1>1, <2>1 DEF Consistent, NeighboursExist
  <2> QED
    BY <2>1, <2>2 DEF AddNode, Consistent, TypeOK
<1>4. SendersAreCurrent'
  BY <1>3 DEF AddNode, Consistent, SendersAreCurrent
<1>5. alive' = alive \cup {id}
  BY DEF AddNode, Fault, Consistent, TypeOK
<1> QED
  BY <1>1, <1>2, <1>4, <1>5
     DEF AddNode, ChannelsWith, Consistent, Matched

\* Every neighbour of id is alive, exists and lists id: all of them drop it.
LEMMA ConsistentDeleteNode ==
  ASSUME Consistent, Undisturbed, TypeOK', NEW id \in Id, DeleteNode(id)
  PROVE  Consistent'
<1>1. NodeIds' = NodeIds \ {id}
  BY DEF DeleteNode, NodeIds
<1>2. \A a \in Id : <<a, id>> \in neighbours => a \in Dropping(id)
  BY DEF Consistent, EdgesBidirectional, NeighboursExist, Dropping, NeighboursOf
<1>3. \A a, b \in Id : <<a, b>> \in neighbours' <=>
                         <<a, b>> \in neighbours /\ a # id /\ b # id
  BY <1>2 DEF DeleteNode, NeighboursWithout
<1>4. EdgesBidirectional' /\ NeighboursExist'
  BY <1>1, <1>3 DEF Consistent, EdgesBidirectional, NeighboursExist
<1>5. \A a, b \in Id : \A n \in Nat :
        <<a, b, n>> \in senders' <=>
          (<<a, b>> \in neighbours' /\ n = incarnation'[b])
  <2> SUFFICES ASSUME NEW a \in Id, NEW b \in Id, NEW n \in Nat
               PROVE  <<a, b, n>> \in senders' <=>
                        (<<a, b>> \in neighbours' /\ n = incarnation'[b])
    OBVIOUS
  <2>1. <<a, b, n>> \in senders <=> (<<a, b>> \in neighbours /\ n = incarnation[b])
    BY SendersPointwise DEF Consistent
  <2>2. <<a, b, n>> \in senders' <=>
          /\ <<a, b, n>> \in senders
          /\ a # id
          /\ ~ (b = id /\ a \in Dropping(id))
    BY DEF DeleteNode, SendersWithout
  <2> QED
    BY <1>2, <1>3, <2>1, <2>2 DEF DeleteNode
<1>6. SendersAreCurrent'
  BY <1>5, NextSendersPointwise
<1> QED
  BY <1>1, <1>4, <1>6
     DEF DeleteNode, ChannelsWithout, Consistent, Matched

LEMMA ConsistentAddEdge ==
  ASSUME Consistent, Undisturbed, TypeOK', NEW a \in Id, NEW b \in Id, AddEdge(a, b)
  PROVE  Consistent'
<1>1. NodeIds' = NodeIds /\ a # b /\ a \in NodeIds /\ b \in NodeIds
  BY DEF AddEdge, NodeIds
<1>2. \A x, y \in Id : <<x, y>> \in neighbours' <=>
                         \/ <<x, y>> \in neighbours
                         \/ x = a /\ y = b
                         \/ x = b /\ y = a
  BY DEF AddEdge, BothWays
<1>3. EdgesBidirectional' /\ NeighboursExist'
  BY <1>1, <1>2 DEF Consistent, EdgesBidirectional, NeighboursExist
<1>4. \A x, y \in Id : \A n \in Nat :
        <<x, y, n>> \in senders' <=>
          (<<x, y>> \in neighbours' /\ n = incarnation'[y])
  <2> SUFFICES ASSUME NEW x \in Id, NEW y \in Id, NEW n \in Nat
               PROVE  <<x, y, n>> \in senders' <=>
                        (<<x, y>> \in neighbours' /\ n = incarnation'[y])
    OBVIOUS
  <2>1. <<x, y, n>> \in senders <=> (<<x, y>> \in neighbours /\ n = incarnation[y])
    BY SendersPointwise DEF Consistent
  <2>2. <<x, y, n>> \in senders' <=>
          \/ /\ <<x, y, n>> \in senders
             /\ ~ (x = a /\ y = b) /\ ~ (x = b /\ y = a)
          \/ x = a /\ y = b /\ n = incarnation[b]
          \/ x = b /\ y = a /\ n = incarnation[a]
    BY DEF AddEdge, Given, NewSenders
  <2> QED
    BY <1>2, <2>1, <2>2 DEF AddEdge
<1>5. SendersAreCurrent'
  BY <1>4, NextSendersPointwise
<1> QED
  BY <1>1, <1>3, <1>5 DEF AddEdge, Consistent, Matched

LEMMA ConsistentDeleteEdge ==
  ASSUME Consistent, Undisturbed, TypeOK', NEW a \in Id, NEW b \in Id, DeleteEdge(a, b)
  PROVE  Consistent'
<1>1. NodeIds' = NodeIds
  BY DEF DeleteEdge, NodeIds
<1>2. \A x, y \in Id : <<x, y>> \in neighbours' <=>
                         /\ <<x, y>> \in neighbours
                         /\ ~ (x = a /\ y = b)
                         /\ ~ (x = b /\ y = a)
  BY DEF DeleteEdge, BothWays
<1>3. EdgesBidirectional' /\ NeighboursExist'
  BY <1>1, <1>2 DEF Consistent, EdgesBidirectional, NeighboursExist
<1>4. \A x, y \in Id : \A n \in Nat :
        <<x, y, n>> \in senders' <=>
          (<<x, y>> \in neighbours' /\ n = incarnation'[y])
  <2> SUFFICES ASSUME NEW x \in Id, NEW y \in Id, NEW n \in Nat
               PROVE  <<x, y, n>> \in senders' <=>
                        (<<x, y>> \in neighbours' /\ n = incarnation'[y])
    OBVIOUS
  <2>1. <<x, y, n>> \in senders <=> (<<x, y>> \in neighbours /\ n = incarnation[y])
    BY SendersPointwise DEF Consistent
  <2>2. <<x, y, n>> \in senders' <=>
          /\ <<x, y, n>> \in senders
          /\ ~ (<<x, y>> \in BothWays(a, b) /\ <<x, y>> \in neighbours)
    BY DEF DeleteEdge
  <2>3. <<x, y>> \in BothWays(a, b) <=> (x = a /\ y = b) \/ (x = b /\ y = a)
    BY DEF BothWays
  <2> QED
    BY <1>2, <2>1, <2>2, <2>3 DEF DeleteEdge
<1>5. SendersAreCurrent'
  BY <1>4, NextSendersPointwise
<1> QED
  BY <1>1, <1>3, <1>5 DEF DeleteEdge, Consistent, Matched

\* A fault is counted, and never forgotten.
LEMMA StillUndisturbed ==
  ASSUME TypeOK, [Next]_vars, Undisturbed'
  PROVE  Undisturbed /\ UNCHANGED faults
<1>1. ASSUME Fault
      PROVE  FALSE
  BY <1>1 DEF Fault, Undisturbed, TypeOK
<1>2. UNCHANGED faults
  BY <1>1
     DEF Next, vars, AddNode, DeleteNode, AddEdge, DeleteEdge, ThreadDies,
         ChangeConfiguration, DestroyFails, ConfigurationMissing,
         LoadConfiguration, LoadStops, LoadPanics, DeleteNodePanics,
         GetNodeDataPanics, AddNodeOverflows, AddEdgePanics, DeleteEdgePanics,
         GetTopologyPanics, MainFilePanics, UnknownKindPanics, Panic
<1> QED
  BY <1>2 DEF Undisturbed

LEMMA NextUndisturbed ==
  ASSUME Consistent, Undisturbed, UNCHANGED faults, TypeOK', [Next]_vars
  PROVE  Consistent'
<1>1. ~ Fault
  BY DEF Fault, Consistent, TypeOK
<1>2. ASSUME NEW how, Poison(how)
      PROVE  Consistent'
  BY <1>2 DEF Poison, tables, Consistent, Matched, NodeIds,
              EdgesBidirectional, NeighboursExist, SendersAreCurrent
<1>3. ~ DestroyFails
  BY <1>1 DEF DestroyFails, Consistent, NodeIds
<1>4. CASE ConfigurationMissing
  BY <1>4 DEF ConfigurationMissing, KeepOnly, Consistent, Matched,
              NodeIds, EdgesBidirectional, NeighboursExist, SendersAreCurrent
<1>5. ASSUME NEW c \in DOMAIN Configurations,
             LoadConfiguration(c) \/ LoadStops(c)
      PROVE  Consistent'
  <2>1. PICK edges \in SUBSET GoodEdges(c) :
          Build(c, NodesOf(c), edges) /\ alive' = NodesOf(c)
    BY <1>1, <1>5 DEF LoadConfiguration, LoadStops
  <2> QED
    BY <2>1, BuildConsistent DEF Consistent
<1>6. ASSUME NEW id \in Id
      PROVE  ~ ThreadDies(id)
  BY <1>1 DEF ThreadDies
<1>7. ASSUME NEW c
      PROVE  ~ LoadPanics(c)
  BY <1>1 DEF LoadPanics
<1>8. CASE UNCHANGED vars
  BY <1>8 DEF vars, Consistent, Matched, NodeIds, EdgesBidirectional,
              NeighboursExist, SendersAreCurrent, Undisturbed
<1> QED
  BY <1>2, <1>3, <1>4, <1>5, <1>6, <1>7, <1>8, ConsistentAddNode,
     ConsistentDeleteNode, ConsistentAddEdge, ConsistentDeleteEdge
     DEF Next, ChangeConfiguration, DeleteNodePanics, GetNodeDataPanics,
         AddNodeOverflows, AddEdgePanics, DeleteEdgePanics, GetTopologyPanics,
         MainFilePanics, UnknownKindPanics, Panic

LEMMA ConsistentNext ==
  ASSUME Consistent, TypeOK', [Next]_vars
  PROVE  Consistent'
<1>1. CASE Undisturbed'
  <2>1. Undisturbed /\ UNCHANGED faults
    BY <1>1, StillUndisturbed DEF Consistent
  <2> QED
    BY <2>1, NextUndisturbed
<1>2. CASE ~ Undisturbed'
  BY <1>2 DEF Consistent, Matched, EdgesBidirectional,
              NeighboursExist, SendersAreCurrent
<1> QED
  BY <1>1, <1>2

LEMMA ConsistentInvariant == Spec => []Consistent
BY ConsistentInit, ConsistentNext, TypeCorrect, PTL DEF Spec

\* get_topology never meets a link that is recorded at one end only.
THEOREM Bidirectional == Spec => []EdgesBidirectional
<1>1. Consistent => EdgesBidirectional
  BY DEF Consistent
<1> QED
  BY <1>1, ConsistentInvariant, PTL

\* get_node_data never meets a neighbour that does not exist.
THEOREM NoDanglingNeighbour == Spec => []NeighboursExist
<1>1. Consistent => NeighboursExist
  BY DEF Consistent
<1> QED
  BY <1>1, ConsistentInvariant, PTL

\* add_edge never meets a channel without a node, as long as no thread failed;
\* a node without a channel it never meets.
THEOREM ChannelsMatch == Spec => []ChannelsAreNodes
<1>1. Consistent /\ NodesHaveChannels => ChannelsAreNodes
  BY DEF Consistent, Matched, NodesHaveChannels, ChannelsAreNodes
<1> QED
  BY <1>1, ConsistentInvariant, TablesCovered, PTL

\* No node is left with a channel of an earlier node that had the same id.
THEOREM SendersCurrent == Spec => []SendersAreCurrent
<1>1. Consistent => SendersAreCurrent
  BY DEF Consistent
<1> QED
  BY <1>1, ConsistentInvariant, PTL

\* Nothing happens any more once the mutex is lost, but that threads end.
LEMMA LockedForGood ==
  ASSUME lock # "free", [Next]_vars
  PROVE  UNCHANGED <<drones, servers, clients, lock>>
BY DEF Next, vars, tables, AddNode, DeleteNode, AddEdge, DeleteEdge, ThreadDies,
       ChangeConfiguration, DestroyFails, DestroySucceeds, ConfigurationMissing,
       LoadConfiguration, LoadStops, LoadPanics, DeleteNodePanics,
       GetNodeDataPanics, AddNodeOverflows, AddEdgePanics, DeleteEdgePanics,
       GetTopologyPanics, MainFilePanics, UnknownKindPanics

\* Nothing a handler asserts or unwraps fails, as long as threads live until
\* they are told to end, except that the ids run out or that a configuration
\* file is missing or malformed: the tables and the links give no cause for it.
THEOREM LockStaysUsable == Spec => []LockUsable
<1>1. Init => LockUsable
  BY DEF Init, LockUsable
<1>2. ASSUME Consistent, LockUsable, [Next]_vars
      PROVE  LockUsable'
  <2> SUFFICES ASSUME Undisturbed'
               PROVE  (lock # "lost" \/ NodeIds = Id)'
    BY DEF LockUsable
  <2>1. Undisturbed /\ UNCHANGED faults
    BY <1>2, StillUndisturbed DEF Consistent
  <2>2. CASE lock # "free"
    BY <1>2, <2>1, <2>2, LockedForGood DEF LockUsable, NodeIds
  <2>3. CASE AddNodeOverflows
    BY <2>3 DEF AddNodeOverflows, Panic, Poison, tables, NodeIds
  <2>4. \A p \in neighbours : /\ p[1] \in alive /\ p[2] \in alive
                              /\ <<p[2], p[1]>> \in neighbours
    <3> SUFFICES ASSUME NEW p \in neighbours
                 PROVE  /\ p[1] \in alive /\ p[2] \in alive
                        /\ <<p[2], p[1]>> \in neighbours
      OBVIOUS
    <3>1. p = <<p[1], p[2]>> /\ p[1] \in Id /\ p[2] \in Id
      BY <1>2 DEF Consistent, TypeOK
    <3> QED
      BY <1>2, <2>1, <3>1 DEF Consistent, NeighboursExist, EdgesBidirectional
  <2>5. ASSUME NEW id \in Id
        PROVE  ~ DeleteNodePanics(id) /\ ~ GetNodeDataPanics(id)
    <3>1. \A b \in NeighboursOf(id) : b \in alive
      BY <1>2, <2>1 DEF Consistent, NeighboursOf, NeighboursExist
    <3> QED
      BY <1>2, <2>1, <3>1
         DEF Consistent, DeleteNodePanics, GetNodeDataPanics, Dropping
  <2>6. \A a, b \in Id : ~ AddEdgePanics(a, b) /\ ~ DeleteEdgePanics(a, b)
    <3>1. \A a, b \in Id : ~ AddEdgePanics(a, b)
      BY <1>2, <2>1 DEF Consistent, AddEdgePanics, Matched
    <3>2. \A a, b \in Id : ~ DeleteEdgePanics(a, b)
      BY <2>4 DEF DeleteEdgePanics
    <3> QED
      BY <3>1, <3>2
  <2>7. ~ GetTopologyPanics
    BY <2>4 DEF GetTopologyPanics
  <2>8. ASSUME ChangeConfiguration
        PROVE  UNCHANGED lock \/ lock' = "misconfigured"
    <3>1. ~ Fault
      BY <1>2, <2>1 DEF Fault, Consistent, TypeOK
    <3> QED
      BY <2>8, <3>1 DEF ChangeConfiguration, DestroyFails, LoadStops,
                        ConfigurationMissing, LoadConfiguration, LoadPanics,
                        UnknownKindPanics, Poison
  <2>9. ASSUME NEW id \in Id, AddNode(id) \/ DeleteNode(id) \/ ThreadDies(id)
        PROVE  UNCHANGED lock
    BY <2>9 DEF AddNode, DeleteNode, ThreadDies
  <2>10. ASSUME NEW a \in Id, NEW b \in Id, AddEdge(a, b) \/ DeleteEdge(a, b)
         PROVE  UNCHANGED lock
    BY <2>10 DEF AddEdge, DeleteEdge
  <2>11. ASSUME MainFilePanics
         PROVE  lock' = "misconfigured"
    BY <2>11 DEF MainFilePanics, Poison
  <2> QED
    BY <1>2, <2>2, <2>3, <2>5, <2>6, <2>7, <2>8, <2>9, <2>10, <2>11
       DEF Next, vars
<1> QED
  BY <1>1, <1>2, ConsistentInvariant, PTL DEF Spec
=============================================================================
