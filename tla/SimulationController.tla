------------------------ MODULE SimulationController ------------------------
(***************************************************************************)
(* The simulation controller (simulation_controller/main.rs and            *)
(* network_object.rs) behind the one mutex that the HTTP handlers of       *)
(* main.rs share.  A handler runs alone; what it races with is the life of *)
(* the node threads: a thread that ended has dropped its command receiver, *)
(* and then sending it a command fails, with an Err in some places and     *)
(* with a panic (`unwrap`), which poisons the mutex, in others.            *)
(*                                                                         *)
(* A request that is refused before anything is changed is a stutter and   *)
(* has no action here.  After a panic nobody can lock the controller, so   *)
(* the half-done changes of the handler that panicked are not represented. *)
(***************************************************************************)
EXTENDS Naturals

CONSTANTS
  MaxId,           \* the largest node id (255: u8)
  Configurations,  \* the configuration files, by id
  Requested,       \* configuration ids that clients of the API ask for
  InitialConfiguration,
  None,
  MaxFaults,       \* bound: node threads that end unasked, or fail to start
  MaxIncarnation   \* bound: how often one id is given out

Id == 0 .. MaxId

\* The nodes of a file have distinct ids, each link joins two ids.
ASSUME ControllerAssumption ==
  /\ MaxId \in Nat /\ MaxIncarnation \in Nat
  /\ MaxFaults \in Nat
  /\ \A c \in DOMAIN Configurations :
       /\ Configurations[c].drones \subseteq Id
       /\ Configurations[c].servers \subseteq Id
       /\ Configurations[c].clients \subseteq Id
       /\ Configurations[c].edges \subseteq Id \X Id
  /\ InitialConfiguration \in DOMAIN Configurations
  /\ None \notin DOMAIN Configurations

VARIABLES
  drones, servers, clients,  \* the keys of the three node tables
  neighbours,       \* pairs <<a, b>>: b is in the neighbour set of a's object
  packet_channels,  \* ids with a packet channel
  incarnation,      \* how often an id was given out: which channel it has
  senders,          \* <<a, b, n>>: once a has processed its commands it can
                    \* send into the n-th channel that id b had
  alive,            \* ids whose node thread still receives commands
  active_configuration,
  faults,           \* history: how many threads ended unasked or did not start
  lock              \* "free", or "lost": poisoned, or never released; or
                    \* "misconfigured": lost to a configuration file

tables == <<drones, servers, clients, neighbours, packet_channels, senders>>
vars == <<drones, servers, clients, neighbours, packet_channels, incarnation,
          senders, alive, active_configuration, faults, lock>>

NodeIds == drones \cup servers \cup clients

\* A thread fails; the other actions need and change no such thing.
Fault == faults < MaxFaults /\ faults' = faults + 1

NeighboursOf(a) == {b \in Id : <<a, b>> \in neighbours}

\* A handler panics while it holds the mutex.
Poison(how) ==
  /\ lock' = how
  /\ UNCHANGED <<tables, incarnation, alive, active_configuration>>

Panic == Poison("lost") /\ UNCHANGED faults

-----------------------------------------------------------------------------
(* Nodes *)

\* get_id: the first unused id.
\* Mutant: only the drone table is searched.
FreeIdAmongDrones == {i \in Id \ drones : \A j \in 0 .. i - 1 : j \in drones}

FreeId == {i \in Id \ NodeIds : \A j \in 0 .. i - 1 : j \in NodeIds}

ChannelsWith(id) == packet_channels \cup {id}

\* add_drone, add_server, add_client: the three differ in the table only.  The
\* node is entered before its thread is started, which may fail.
AddNode(id) ==
  /\ lock = "free"
  /\ id \in FreeId
  /\ incarnation[id] < MaxIncarnation
  /\ \/ drones' = drones \cup {id} /\ UNCHANGED <<servers, clients>>
     \/ servers' = servers \cup {id} /\ UNCHANGED <<drones, clients>>
     \/ clients' = clients \cup {id} /\ UNCHANGED <<drones, servers>>
  /\ packet_channels' = ChannelsWith(id)
  /\ incarnation' = [incarnation EXCEPT ![id] = @ + 1]
  /\ \/ alive' = alive \cup {id} /\ UNCHANGED faults
     \/ Fault /\ UNCHANGED alive
  /\ UNCHANGED <<neighbours, senders, active_configuration, lock>>

\* get_id when every id is taken: `id += 1` overflows and panics in a debug
\* build; in a release build it wraps and searches forever.
AddNodeOverflows ==
  /\ lock = "free"
  /\ NodeIds = Id
  /\ Panic

\* The neighbours of id that drop it; the others do not list it.
Dropping(id) ==
  {b \in NeighboursOf(id) \cap NodeIds : <<b, id>> \in neighbours}

\* Mutant: the neighbours are not told.
NeighboursWithoutOwnOnly(id) == {p \in neighbours : p[1] # id}

NeighboursWithout(id) ==
  {p \in neighbours : p[1] # id /\ ~ (p[2] = id /\ p[1] \in Dropping(id))}

SendersWithout(id) ==
  {s \in senders : s[1] # id /\ ~ (s[2] = id /\ s[1] \in Dropping(id))}

\* Mutant: the channel stays behind.
ChannelsUnchanged(id) == packet_channels

ChannelsWithout(id) == packet_channels \ {id}

\* delete_node: the channel goes first, whether the node exists or not.  The
\* final Crash or Quit may fail, which changes only the answer.
DeleteNode(id) ==
  /\ lock = "free"
  /\ Dropping(id) \subseteq alive
  /\ packet_channels' = ChannelsWithout(id)
  /\ drones' = drones \ {id}
  /\ servers' = servers \ {id}
  /\ clients' = clients \ {id}
  /\ neighbours' = NeighboursWithout(id)
  /\ senders' = SendersWithout(id)
  /\ alive' = alive \ {id}
  /\ UNCHANGED <<incarnation, active_configuration, faults, lock>>

DeleteNodePanics(id) ==
  /\ lock = "free"
  /\ ~ (Dropping(id) \subseteq alive)
  /\ Panic

-----------------------------------------------------------------------------
(* Links *)

\* Mutant: the link is recorded on one side.
OneWay(a, b) == {<<a, b>>}

BothWays(a, b) == {<<a, b>>, <<b, a>>}

\* Mutant: each end is given its own channel.
OwnSenders(a, b) == {<<a, b, incarnation[a]>>, <<b, a, incarnation[b]>>}

\* The channel of each end is what the other end is given.
NewSenders(a, b) == {<<a, b, incarnation[b]>>, <<b, a, incarnation[a]>>}

\* What a node's map holds after the commands: one sender per neighbour.
Given(held, new) ==
  {s \in held : ~ \E t \in new : t[1] = s[1] /\ t[2] = s[2]} \cup new

\* add_edge: two get_net_obj_from_id_mut(..).unwrap() and two send(..).unwrap().
AddEdge(a, b) ==
  /\ lock = "free"
  /\ a # b
  /\ {a, b} \subseteq packet_channels
  /\ {a, b} \subseteq NodeIds \cap alive
  /\ neighbours' = neighbours \cup BothWays(a, b)
  /\ senders' = Given(senders, NewSenders(a, b))
  /\ UNCHANGED <<drones, servers, clients, packet_channels, incarnation, alive,
                 active_configuration, faults, lock>>

AddEdgePanics(a, b) ==
  /\ lock = "free"
  /\ a # b
  /\ {a, b} \subseteq packet_channels
  /\ ~ ({a, b} \subseteq NodeIds \cap alive)
  /\ Panic

\* delete_edge: each end that lists the other drops it.
DeleteEdge(a, b) ==
  /\ lock = "free"
  /\ a # b
  /\ <<a, b>> \in neighbours => a \in alive
  /\ <<b, a>> \in neighbours => b \in alive
  /\ neighbours' = neighbours \ BothWays(a, b)
  /\ senders' = {s \in senders : <<s[1], s[2]>> \notin
                                   BothWays(a, b) \cap neighbours}
  /\ UNCHANGED <<drones, servers, clients, packet_channels, incarnation, alive,
                 active_configuration, faults, lock>>

DeleteEdgePanics(a, b) ==
  /\ lock = "free"
  /\ a # b
  /\ \E p \in BothWays(a, b) \cap neighbours : p[1] \notin alive
  /\ Panic

-----------------------------------------------------------------------------
(* Configurations *)

\* The nodes left in the tables keep their neighbours, the others' are gone.
KeepOnly(ids) ==
  /\ neighbours' = {p \in neighbours : p[1] \in ids}
  /\ senders' = {s \in senders : s[1] \in ids}
  /\ alive' = alive \cap ids

\* destroy_network returns in the middle: the table it was draining is empty
\* (mem::take), later tables and all channels are as they were.  A drone is
\* sent Crash twice; it should run on until its packet channel, which the
\* controller holds, is closed, but may be gone when the second one is sent.
DestroyFails ==
  /\ lock = "free"
  /\ UNCHANGED <<packet_channels, incarnation, active_configuration, lock>>
  /\ \/ /\ drones # {}
        /\ Fault \/ (~ (drones \subseteq alive) /\ UNCHANGED faults)
        /\ drones' = {}
        /\ UNCHANGED <<servers, clients>>
        /\ KeepOnly(servers \cup clients)
     \/ /\ drones \subseteq alive /\ ~ (servers \subseteq alive)
        /\ drones' = {} /\ servers' = {}
        /\ UNCHANGED <<clients, faults>>
        /\ KeepOnly(clients)
     \/ /\ drones \cup servers \subseteq alive /\ ~ (clients \subseteq alive)
        /\ drones' = {} /\ servers' = {} /\ clients' = {}
        /\ KeepOnly({})
        /\ UNCHANGED faults

DestroySucceeds == lock = "free" /\ NodeIds \subseteq alive

\* Mutant: no configuration is active any more.
ConfigurationMissingCleared ==
  /\ DestroySucceeds
  /\ drones' = {} /\ servers' = {} /\ clients' = {}
  /\ packet_channels' = {}
  /\ KeepOnly({})
  /\ active_configuration' = None
  /\ UNCHANGED <<incarnation, faults, lock>>

\* spawn_network_from_config for an id that the main file does not list, or
\* that it lists with a file that cannot be read or parsed: an error, found out
\* after the network was destroyed.
ConfigurationMissing ==
  /\ DestroySucceeds
  /\ drones' = {} /\ servers' = {} /\ clients' = {}
  /\ packet_channels' = {}
  /\ KeepOnly({})
  /\ UNCHANGED <<incarnation, active_configuration, faults, lock>>

NodesOf(c) == Configurations[c].drones \cup Configurations[c].servers
                \cup Configurations[c].clients

\* Links add_edge accepts.
GoodEdges(c) ==
  {e \in Configurations[c].edges : e[1] # e[2] /\ {e[1], e[2]} \subseteq NodesOf(c)}

\* The tables with the given nodes and links of configuration c.  Whoever
\* uses it says which threads run.
Build(c, ids, edges) ==
  /\ drones' = Configurations[c].drones \cap ids
  /\ servers' = Configurations[c].servers \cap ids
  /\ clients' = Configurations[c].clients \cap ids
  /\ packet_channels' = ids
  /\ incarnation' = [i \in Id |-> IF i \in ids THEN incarnation[i] + 1
                                  ELSE incarnation[i]]
  /\ neighbours' = UNION {BothWays(e[1], e[2]) : e \in edges}
  /\ senders' = UNION {{<<e[1], e[2], incarnation'[e[2]]>>,
                        <<e[2], e[1], incarnation'[e[1]]>>} : e \in edges}

CanBuild(c) == \A i \in NodesOf(c) : incarnation[i] < MaxIncarnation

LoadConfiguration(c) ==
  /\ DestroySucceeds
  /\ CanBuild(c)
  /\ GoodEdges(c) = Configurations[c].edges
  /\ Build(c, NodesOf(c), Configurations[c].edges)
  /\ alive' = NodesOf(c)
  /\ active_configuration' = c
  /\ UNCHANGED <<faults, lock>>

\* A link is refused, after some of the others, in no fixed order; or a thread
\* cannot be started, that of the last node which was entered.
LoadStops(c) ==
  /\ DestroySucceeds
  /\ CanBuild(c)
  /\ \/ /\ GoodEdges(c) # Configurations[c].edges
        /\ \E edges \in SUBSET GoodEdges(c) : Build(c, NodesOf(c), edges)
        /\ alive' = NodesOf(c)
        /\ UNCHANGED faults
     \/ \E ids \in SUBSET NodesOf(c) :
          /\ Fault
          /\ Build(c, ids, {})
          /\ \E last \in ids : alive' = ids \ {last}
  /\ UNCHANGED <<active_configuration, lock>>

\* A node has ended before the links are added: add_edge panics.
LoadPanics(c) ==
  /\ DestroySucceeds
  /\ Configurations[c].edges # {}
  /\ Fault
  /\ Poison("lost")

\* get_available_configurations, of which both handlers of configurations make
\* use: panic! when the main file cannot be read, or not be parsed.
MainFilePanics ==
  /\ lock = "free"
  /\ Poison("misconfigured")
  /\ UNCHANGED faults

\* panic! when a configuration names a kind of server or client that does not
\* exist: the other nodes may have been started.
UnknownKindPanics ==
  /\ DestroySucceeds
  /\ Poison("misconfigured")
  /\ UNCHANGED faults

ChangeConfiguration ==
  \/ DestroyFails
  \/ UnknownKindPanics
  \/ \E c \in Requested \ DOMAIN Configurations : ConfigurationMissing
  \/ \E c \in Requested \cap DOMAIN Configurations :
       LoadConfiguration(c) \/ LoadStops(c) \/ LoadPanics(c)

-----------------------------------------------------------------------------
(* Readers that panic *)

\* panic!("Edge from {} to {} exists but not the reverse")
GetTopologyPanics ==
  /\ lock = "free"
  /\ \E p \in neighbours : <<p[2], p[1]>> \notin neighbours
  /\ Panic

\* get_net_obj_from_id(..).unwrap()
GetNodeDataPanics(id) ==
  /\ lock = "free"
  /\ id \in NodeIds
  /\ ~ (NeighboursOf(id) \subseteq NodeIds)
  /\ Panic

-----------------------------------------------------------------------------

\* A node thread ends unasked: a host panics, a drone of another team stops.
ThreadDies(id) ==
  /\ Fault
  /\ id \in alive
  /\ alive' = alive \ {id}
  /\ UNCHANGED <<tables, incarnation, active_configuration, lock>>

\* SimulationController::new, which main does not survive failing.
Init ==
  /\ drones = Configurations[InitialConfiguration].drones
  /\ servers = Configurations[InitialConfiguration].servers
  /\ clients = Configurations[InitialConfiguration].clients
  /\ packet_channels = NodesOf(InitialConfiguration)
  /\ incarnation = [i \in Id |-> IF i \in NodesOf(InitialConfiguration)
                                 THEN 1 ELSE 0]
  /\ alive = NodesOf(InitialConfiguration)
  /\ neighbours = UNION {BothWays(e[1], e[2]) : e \in GoodEdges(InitialConfiguration)}
  /\ senders = {<<p[1], p[2], 1>> : p \in neighbours}
  /\ active_configuration = InitialConfiguration
  /\ faults = 0
  /\ lock = "free"

Next ==
  \/ \E id \in Id :
       \/ AddNode(id) \/ DeleteNode(id) \/ DeleteNodePanics(id)
       \/ GetNodeDataPanics(id) \/ ThreadDies(id)
  \/ AddNodeOverflows
  \/ \E a, b \in Id :
       \/ AddEdge(a, b) \/ AddEdgePanics(a, b)
       \/ DeleteEdge(a, b) \/ DeleteEdgePanics(a, b)
  \/ ChangeConfiguration
  \/ MainFilePanics
  \/ GetTopologyPanics

Spec == Init /\ [][Next]_vars

-----------------------------------------------------------------------------
(* Properties *)

TypeOK ==
  /\ drones \subseteq Id /\ servers \subseteq Id /\ clients \subseteq Id
  /\ neighbours \subseteq Id \X Id
  /\ packet_channels \subseteq Id /\ alive \subseteq Id
  /\ incarnation \in [Id -> Nat]
  /\ senders \subseteq Id \X Id \X Nat
  /\ active_configuration \in DOMAIN Configurations
  /\ faults \in Nat
  /\ lock \in {"free", "lost", "misconfigured"}

\* While threads live until they are told to end.
Undisturbed == faults = 0

\* get_topology asserts it: every link is recorded at both ends.
EdgesBidirectional ==
  Undisturbed =>
    \A a, b \in Id : <<a, b>> \in neighbours => <<b, a>> \in neighbours

\* get_node_data unwraps on it: whatever a node lists as neighbour exists.
NeighboursExist ==
  Undisturbed =>
    \A a, b \in Id : <<a, b>> \in neighbours => {a, b} \subseteq NodeIds

\* add_edge unwraps on it: an id with a packet channel is a node's, and a node
\* has one, even when threads die and handlers return in the middle.
ChannelsAreNodes ==
  /\ NodeIds \subseteq packet_channels
  /\ Undisturbed => packet_channels = NodeIds

\* One id is never in two tables, although ids are reused and threads die.
OneTableEach ==
  /\ drones \cap servers = {}
  /\ drones \cap clients = {}
  /\ servers \cap clients = {}

\* The neighbour map of each node, once its commands are processed, reaches
\* exactly the listed neighbours, through the channel each has now and not
\* one of an earlier node that had the id.
SendersAreCurrent ==
  Undisturbed =>
    senders = {<<p[1], p[2], incarnation[p[2]]>> : p \in neighbours}

\* Every handler begins with lock().unwrap().  Whatever was added, removed and
\* loaded before, none panics while it holds the mutex, or holds it for ever,
\* but for two reasons: it asks for an id when all are taken, or a configuration
\* file is missing or malformed where the code does not return an error.
LockUsable ==
  Undisturbed => lock # "lost" \/ NodeIds = Id
=============================================================================
