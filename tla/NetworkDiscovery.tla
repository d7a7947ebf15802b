-------------------------- MODULE NetworkDiscovery --------------------------
(***************************************************************************)
(* Network discovery: one host (Self) floods the network and rebuilds its  *)
(* topology from the path traces that come back (NetDiscovery, and the     *)
(* flood packets of Node and PacketSender), while the controller adds and  *)
(* removes links.  The drones are crates of other teams; they follow the   *)
(* flooding rules of assets/spec/AP-protocol.md.  What the threads of the  *)
(* host do to each other meanwhile is in HostNode.                         *)
(*                                                                         *)
(* A link change at the host itself is the command that reports it: the    *)
(* other end, and packets under way, know nothing of it.  Packets may be   *)
(* delayed for ever, which includes loss.  Flood ids are drawn at random   *)
(* in the code: here they are numbered in the order they are drawn.        *)
(***************************************************************************)
EXTENDS Naturals, Sequences

CONSTANTS
  Drone, Host,
  Self,          \* the host whose discoveries are followed
  InitialLinks,  \* pairs of nodes, both directions
  Link,          \* the links the controller may add or remove, one direction
  MaxFloods,     \* bound: discoveries
  MaxChanges     \* bound: links added or removed

Node == Drone \cup Host

ASSUME DiscoveryAssumption ==
  /\ Drone \cap Host = {}
  /\ Self \in Host
  /\ InitialLinks \subseteq Node \X Node
  /\ \A l \in InitialLinks : <<l[2], l[1]>> \in InitialLinks
  /\ Link \subseteq Node \X Node
  /\ MaxFloods \in Nat /\ MaxChanges \in Nat

VARIABLES
  links,     \* the network: pairs, both directions
  \* the host
  last_id, ongoing, responses,
  network_topology,  \* pairs <<a, b>>: b is in the list of a
  outbox,    \* flood requests the sender thread has yet to send
  \* the network
  requests,  \* flood requests under way
  replies,   \* flood responses under way to Self
  seen,      \* floods each drone has seen
  \* history
  changes,   \* links added or removed
  existed,   \* links there were at some time since the discovery began
  still,     \* whether they have stayed as they were then
  parsed,    \* the responses that the topology was parsed from
  allowed,   \* what `existed` was when it was parsed
  settled    \* whether they were all there were, in a network that stood still

hostVars == <<last_id, ongoing, responses, network_topology, parsed, allowed,
              settled>>
vars == <<links, last_id, ongoing, responses, network_topology, outbox,
          requests, replies, seen, changes, existed, still, parsed,
          allowed, settled>>

Both(a, b) == {<<a, b>>, <<b, a>>}

NeighboursOf(n) == {m \in Node : <<n, m>> \in links}

\* A flood request on its way to a node, and a response to it; path_trace is
\* reduced to the identifiers.
Request(id, path, to) == [flood_id |-> id, path_trace |-> path, to |-> to]
Reply(id, path) == [flood_id |-> id, path_trace |-> path]

LastOf(path) == path[Len(path)]

-----------------------------------------------------------------------------
(* NetDiscovery *)

\* Mutant: only the next hop is recorded.
LinksOfForward(path) == {<<path[i], path[i + 1]>> : i \in 1 .. Len(path) - 1}

\* What one path trace tells: every two nodes next to each other are linked.
LinksOf(path) ==
  UNION {Both(path[i], path[i + 1]) : i \in 1 .. Len(path) - 1}

\* parse_network
ParseNetwork(rs) ==
  UNION {LinksOf(rs[i].path_trace) : i \in DOMAIN rs}

\* Mutant: the responses of the discovery before are kept.
InitDiscoveryKeeping ==
  /\ last_id < MaxFloods
  /\ last_id' = last_id + 1
  /\ ongoing' = TRUE
  /\ UNCHANGED responses

\* init
InitDiscovery ==
  /\ last_id < MaxFloods
  /\ last_id' = last_id + 1
  /\ ongoing' = TRUE
  /\ responses' = <<>>

-----------------------------------------------------------------------------
(* The host *)

\* trigger_network_discovery, for the links that there are now.
Trigger(now) ==
  /\ InitDiscovery
  /\ outbox' = Append(outbox, last_id + 1)
  /\ existed' = now
  /\ still' = TRUE

\* At the start, for a Nack, or because the sender thread has no route.
TriggerDiscovery ==
  /\ Trigger(links)
  /\ UNCHANGED <<links, network_topology, requests, replies, seen, changes,
                 parsed, allowed, settled>>

\* flood_network_with_request
SendRequest ==
  /\ outbox # <<>>
  /\ outbox' = Tail(outbox)
  /\ requests' = requests \cup
       {Request(Head(outbox), <<Self>>, n) : n \in NeighboursOf(Self)}
  /\ UNCHANGED <<links, hostVars, replies, seen, changes, existed, still>>

\* Mutant: the id is not compared.
IsCurrentAlways(r) == TRUE

IsCurrent(r) == r.flood_id = last_id

\* A response with another id changes nothing; one that comes after the end
\* of its discovery is stored all the same.
ReceiveResponse ==
  /\ \E r \in replies :
       /\ replies' = replies \ {r}
       /\ responses' = IF IsCurrent(r) THEN Append(responses, r) ELSE responses
  /\ UNCHANGED <<links, last_id, ongoing, network_topology, outbox, requests,
                 seen, changes, existed, still, parsed, allowed, settled>>

\* Nothing of the current flood is under way.
NothingUnderWay ==
  /\ outbox = <<>>
  /\ \A r \in requests \cup replies : r.flood_id # last_id

\* The 50 ms are over.
EndDiscovery ==
  /\ ongoing
  /\ ongoing' = FALSE
  /\ network_topology' = ParseNetwork(responses)
  /\ responses' = <<>>
  /\ parsed' = responses
  /\ allowed' = existed
  /\ settled' = (NothingUnderWay /\ still)
  /\ UNCHANGED <<links, last_id, outbox, requests, replies, seen, changes,
                 existed, still>>

-----------------------------------------------------------------------------
(* A flood request reaches a node *)

\* Node h answers, if the node it has the request from is still a neighbour.
Answer(r, h) ==
  replies' = IF LastOf(r.path_trace) \in NeighboursOf(h)
             THEN replies \cup {Reply(r.flood_id, Append(r.path_trace, h))}
             ELSE replies

\* handle_flood_request with response_to_flood_request: a host always answers,
\* Self included, and never forwards.
HostAnswers(h) ==
  /\ \E r \in requests :
       /\ r.to = h
       /\ requests' = requests \ {r}
       /\ Answer(r, h)
  /\ UNCHANGED <<links, hostVars, outbox, seen, changes, existed, still>>

\* The neighbours a drone passes a request on to.
Onward(r, d) == NeighboursOf(d) \ {LastOf(r.path_trace)}

DroneForwards(d) ==
  /\ \E r \in requests :
       /\ r.to = d
       /\ r.flood_id \notin seen[d]
       /\ Onward(r, d) # {}
       /\ requests' = (requests \ {r}) \cup
            {Request(r.flood_id, Append(r.path_trace, d), n) : n \in Onward(r, d)}
       /\ seen' = [seen EXCEPT ![d] = @ \cup {r.flood_id}]
  /\ UNCHANGED <<links, hostVars, outbox, replies, changes, existed, still>>

DroneAnswers(d) ==
  /\ \E r \in requests :
       /\ r.to = d
       /\ r.flood_id \in seen[d] \/ Onward(r, d) = {}
       /\ requests' = requests \ {r}
       /\ seen' = [seen EXCEPT ![d] = @ \cup {r.flood_id}]
       /\ Answer(r, d)
  /\ UNCHANGED <<links, hostVars, outbox, changes, existed, still>>

-----------------------------------------------------------------------------
(* The controller *)

Changed(l) == IF l \in links THEN links \ Both(l[1], l[2])
              ELSE links \cup Both(l[1], l[2])

\* add_edge or delete_edge between two other nodes: the host is not told.
ChangeElsewhere ==
  /\ changes < MaxChanges
  /\ \E l \in Link :
       /\ Self \notin {l[1], l[2]}
       /\ links' = Changed(l)
  /\ changes' = changes + 1
  /\ existed' = existed \cup links'
  /\ still' = FALSE
  /\ UNCHANGED <<hostVars, outbox, requests, replies, seen>>

\* AddNeighbour or RemoveNeighbour: a discovery follows.
ChangeOwnLink ==
  /\ changes < MaxChanges
  /\ \E l \in Link :
       /\ Self \in {l[1], l[2]}
       /\ links' = Changed(l)
  /\ changes' = changes + 1
  /\ Trigger(links')
  /\ UNCHANGED <<network_topology, requests, replies, seen, parsed, allowed,
                 settled>>

Init ==
  /\ links = InitialLinks
  /\ last_id = 0 /\ ongoing = FALSE /\ responses = <<>>
  /\ network_topology = {}
  /\ outbox = <<>> /\ requests = {} /\ replies = {}
  /\ seen = [d \in Drone |-> {}]
  /\ changes = 0 /\ existed = InitialLinks /\ still = TRUE
  /\ parsed = <<>> /\ allowed = {} /\ settled = FALSE

Next ==
  \/ TriggerDiscovery \/ SendRequest \/ ReceiveResponse \/ EndDiscovery
  \/ \E h \in Host : HostAnswers(h)
  \/ \E d \in Drone : DroneForwards(d) \/ DroneAnswers(d)
  \/ ChangeElsewhere \/ ChangeOwnLink

Spec == Init /\ [][Next]_vars

-----------------------------------------------------------------------------
(* Properties *)

Path == Seq(Node)

TypeOK ==
  /\ links \subseteq Node \X Node
  /\ last_id \in Nat /\ ongoing \in BOOLEAN /\ settled \in BOOLEAN /\ still \in BOOLEAN
  /\ responses \in Seq([flood_id : {last_id}, path_trace : Path])
  /\ network_topology \subseteq Node \X Node
  /\ outbox \in Seq(Nat)
  /\ requests \subseteq [flood_id : Nat, path_trace : Path, to : Node]
  /\ replies \subseteq [flood_id : Nat, path_trace : Path]
  /\ seen \in [Drone -> SUBSET Nat]
  /\ changes \in Nat
  /\ existed \subseteq Node \X Node /\ allowed \subseteq Node \X Node
  /\ parsed \in Seq([flood_id : Nat, path_trace : Path])

\* Links of the past do not come back: every link of the topology was in the
\* network at some time after the discovery that found it began, whatever
\* responses of earlier floods arrived in between (init, and the comparison
\* of ids in handle_packet).
TopologyIsRecent == network_topology \subseteq allowed

\* The drones that a flood gets to, the links being `pairs` all the while: in
\* every set that has, with each of its nodes and Self, the drones next to it.
Spread(pairs, S) ==
  \A n \in S \cup {Self} : \A d \in Drone : <<n, d>> \in pairs => d \in S

WithinReach(pairs) ==
  {d \in Drone : \A S \in SUBSET Drone : Spread(pairs, S) => d \in S}

\* What a flood can find: the links of the nodes that pass it on, so all that
\* it gets to except those between two hosts of which neither is Self.
Discoverable ==
  LET forwarding == WithinReach(allowed) \cup {Self}
  IN  {l \in allowed : l[1] \in forwarding \/ l[2] \in forwarding}

\* When nothing was lost, late or changed, the topology is all that can be
\* found: the flood of the drones, the answers of the hosts and parse_network
\* leave no link out, in whatever order requests and responses come.
CompleteWhenSettled == settled => network_topology = Discoverable
=============================================================================
