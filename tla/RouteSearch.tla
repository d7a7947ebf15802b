----------------------------- MODULE RouteSearch -----------------------------
(***************************************************************************)
(* What a host makes of its discoveries: parse_network with the lists it   *)
(* builds, in the order it builds them, and get_route_to_peer, the         *)
(* breadth-first search that route_packet does in them for every packet.   *)
(* Both are compared with definitions that speak of sets and distances, on *)
(* every topology that NetworkDiscovery reaches.                           *)
(*                                                                         *)
(* A loop is a function from the number of its rounds to what the          *)
(* variables of the code are after them.                                   *)
(***************************************************************************)
EXTENDS NetworkDiscovery, SequencesExt

\* Identifiers are bytes.
ASSUME FiniteAssumption == IsFiniteSet(Node)

-----------------------------------------------------------------------------
(* parse_network *)

\* insert_hop
InsertHop(config, node, hop) ==
  [config EXCEPT ![node] =
     IF hop \in ToSet(config[node]) THEN config[node] ELSE Append(config[node], hop)]

\* One element of a path trace: the next hop first, then the one before.
InsertHops(config, path, i) ==
  LET forth == IF i < Len(path) THEN InsertHop(config, path[i], path[i + 1])
               ELSE config
  IN  IF i > 1 THEN InsertHop(forth, path[i], path[i - 1]) ELSE forth

InsertPath(config, path) ==
  LET after[i \in 0 .. Len(path)] ==
        IF i = 0 THEN config ELSE InsertHops(after[i - 1], path, i)
  IN  after[Len(path)]

\* For each node the list of those next to it (the empty list stands for a
\* node that is not in the map).
AdjacencyLists(rs) ==
  LET after[k \in 0 .. Len(rs)] ==
        IF k = 0 THEN [n \in Node |-> <<>>]
        ELSE InsertPath(after[k - 1], rs[k].path_trace)
  IN  after[Len(rs)]

-----------------------------------------------------------------------------
(* get_route_to_peer *)

\* A neighbour of the last node of a path, if it was not found before.
Visit(search, path, neighbour) ==
  IF neighbour \in search.visited THEN search
  ELSE [queue |-> Append(search.queue, Append(path, neighbour)),
        visited |-> search.visited \cup {neighbour}]

VisitAll(search, path, neighbours) ==
  LET after[i \in 0 .. Len(neighbours)] ==
        IF i = 0 THEN search ELSE Visit(after[i - 1], path, neighbours[i])
  IN  after[Len(neighbours)]

\* The search is over when the queue is empty or its first path gets there.
Over(search, peer) ==
  search.queue = <<>> \/ LastOf(Head(search.queue)) = peer

\* Mutant: nodes are marked when they are taken from the queue, and the last
\* one found goes first.
RoundDepthFirst(lists, peer, search) ==
  IF Over(search, peer) THEN search
  ELSE LET path == Head(search.queue)
           marked == search.visited \cup {LastOf(path)}
           found == SelectSeq(lists[LastOf(path)], LAMBDA n : n \notin marked)
       IN  [queue |-> [i \in DOMAIN found |-> Append(path, found[i])]
                        \o Tail(search.queue),
            visited |-> marked]

\* One round of the loop.
Round(lists, peer, search) ==
  IF Over(search, peer) THEN search
  ELSE LET path == Head(search.queue)
       IN  VisitAll([search EXCEPT !.queue = Tail(@)], path, lists[LastOf(path)])

Start == [queue |-> <<<<Self>>>>, visited |-> {Self}]

\* Each round takes the path to another node from the queue, so there are no
\* more rounds than nodes.
MaxRounds == Cardinality(Node)

Search(lists, peer) ==
  LET after[k \in 0 .. MaxRounds] ==
        IF k = 0 THEN Start ELSE Round(lists, peer, after[k - 1])
  IN  after[MaxRounds]

\* <<>> is None.
GetRouteToPeer(lists, peer) ==
  LET queue == Search(lists, peer).queue
  IN  IF queue = <<>> THEN <<>> ELSE Head(queue)

-----------------------------------------------------------------------------
(* Properties *)

\* The nodes at most k links away from Self.
Balls(pairs) ==
  LET ball[k \in 0 .. MaxRounds] ==
        IF k = 0 THEN {Self}
        ELSE LET near == ball[k - 1]
             IN  near \cup {m \in Node : \E n \in near : <<n, m>> \in pairs}
  IN  ball

\* The topology that the lists stand for.
PairsOf(lists) == {l \in Node \X Node : l[2] \in ToSet(lists[l[1]])}

\* A route to the peer without loops, over the links and as short as possible,
\* or <<>> if there is none.
Shortest(pairs, peer, route) ==
  IF route = <<>> THEN peer \notin Balls(pairs)[MaxRounds]
  ELSE /\ route[1] = Self /\ LastOf(route) = peer
       /\ \A i \in 1 .. Len(route) - 1 : <<route[i], route[i + 1]>> \in pairs
       /\ IsInjective(route)
       /\ Len(route) = 1 \/ peer \notin Balls(pairs)[Len(route) - 2]

\* The search finds a route whenever there is one, without loops, over links
\* of the topology and as short as possible; the lists it searches are the
\* topology, whatever the order of the responses.
RoutesAreShortest ==
  LET lists == AdjacencyLists(parsed)
  IN  /\ PairsOf(lists) = network_topology
      /\ \A peer \in Node :
           Shortest(network_topology, peer, GetRouteToPeer(lists, peer))
=============================================================================
