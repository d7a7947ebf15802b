-------------------------- MODULE RouteSearch_proofs --------------------------
(***************************************************************************)
(* Theorems about NetworkDiscovery and RouteSearch, for every network, any *)
(* number of discoveries and any sequence of link changes.  The first part *)
(* is about the discoveries, the second about what the host makes of them: *)
(* its loops are functions of the number of rounds, so what a loop keeps   *)
(* is proved by induction over a set of numbers.                           *)
(***************************************************************************)
EXTENDS RouteSearch, NaturalsInduction, WellFoundedInduction,
        FiniteSetTheorems, TLAPS

-----------------------------------------------------------------------------
(* The invariants *)

Symmetric(S) == \A a, b \in Node : <<a, b>> \in S => <<b, a>> \in S

\* A path whose links were all there since the discovery began.
Known(path) ==
  \A i \in 1 .. Len(path) - 1 : <<path[i], path[i + 1]>> \in existed

LinksInv ==
  /\ Symmetric(links) /\ Symmetric(existed)
  /\ links \subseteq existed

\* No packet has an id that was not drawn yet.
IdsInv ==
  /\ \A i \in DOMAIN outbox : outbox[i] <= last_id
  /\ \A r \in requests \cup replies : r.flood_id <= last_id

\* What packets of the latest flood tell, and what the host has kept of it.
TracesInv ==
  /\ \A r \in requests : r.flood_id = last_id =>
       /\ Len(r.path_trace) > 0 /\ Known(r.path_trace)
       /\ <<LastOf(r.path_trace), r.to>> \in existed
  /\ \A r \in replies : r.flood_id = last_id => Known(r.path_trace)
  /\ \A i \in DOMAIN responses : Known(responses[i].path_trace)

RecentInv == LinksInv /\ IdsInv /\ TracesInv /\ TopologyIsRecent

-----------------------------------------------------------------------------
(* Type correctness *)

LEMMA TailType ==
  ASSUME NEW S, NEW s \in Seq(S), s # <<>>
  PROVE  /\ Head(s) \in S /\ Tail(s) \in Seq(S)
         /\ \E i \in DOMAIN s : Head(s) = s[i]
         /\ \A i \in DOMAIN Tail(s) : \E j \in DOMAIN s : Tail(s)[i] = s[j]
<1>1. /\ DOMAIN s = 1 .. Len(s) /\ Len(s) \in Nat /\ Len(s) > 0
      /\ DOMAIN Tail(s) = 1 .. Len(s) - 1
      /\ \A i \in 1 .. Len(s) - 1 : Tail(s)[i] = s[i + 1]
      /\ Head(s) = s[1]
      /\ Head(s) \in S /\ Tail(s) \in Seq(S)
  OBVIOUS
<1>2. \A i \in 1 .. Len(s) - 1 : i + 1 \in 1 .. Len(s)
  BY <1>1
<1> QED
  BY <1>1, <1>2

LEMMA AppendType ==
  ASSUME NEW S, NEW s \in Seq(S), NEW e \in S
  PROVE  /\ Append(s, e) \in Seq(S)
         /\ Len(Append(s, e)) = Len(s) + 1
         /\ \A i \in 1 .. Len(s) : Append(s, e)[i] = s[i]
         /\ Append(s, e)[Len(s) + 1] = e
         /\ DOMAIN Append(s, e) = 1 .. Len(s) + 1
         /\ DOMAIN s = 1 .. Len(s) /\ Len(s) \in Nat
OBVIOUS

LEMMA ElementType ==
  ASSUME NEW S, NEW s \in Seq(S), NEW i \in DOMAIN s
  PROVE  s[i] \in S
OBVIOUS

LEMMA Subsequence ==
  ASSUME NEW S, NEW T, S \subseteq T
  PROVE  Seq(S) \subseteq Seq(T)
OBVIOUS

LEMMA ReplyType ==
  ASSUME NEW ids, NEW id \in ids, NEW path \in Path
  PROVE  Reply(id, path) \in [flood_id : ids, path_trace : Path]
BY DEF Reply

LEMMA RequestType ==
  ASSUME NEW id \in Nat, NEW path \in Path, NEW n \in Node
  PROVE  Request(id, path, n) \in [flood_id : Nat, path_trace : Path, to : Node]
BY DEF Request

LEMMA LongerPath ==
  ASSUME NEW path \in Path, NEW n \in Node
  PROVE  Append(path, n) \in Path
BY AppendType DEF Path

\* A topology is made of links between nodes.
LEMMA ParsedIsLinks ==
  ASSUME NEW rs \in Seq([flood_id : Nat, path_trace : Path])
  PROVE  ParseNetwork(rs) \subseteq Node \X Node
<1>1. ASSUME NEW path \in Path
      PROVE  LinksOf(path) \subseteq Node \X Node
  <2>1. ASSUME NEW i \in 1 .. Len(path) - 1
        PROVE  path[i] \in Node /\ path[i + 1] \in Node
    BY DEF Path
  <2> QED
    BY <2>1 DEF LinksOf, Both
<1>2. ASSUME NEW k \in DOMAIN rs
      PROVE  rs[k].path_trace \in Path
  <2>1. rs[k] \in [flood_id : Nat, path_trace : Path]
    BY ElementType
  <2> QED
    BY <2>1
<1> QED
  BY <1>1, <1>2 DEF ParseNetwork

LEMMA ChangedLinks ==
  ASSUME links \subseteq Node \X Node, NEW l \in Link
  PROVE  /\ Changed(l) \subseteq Node \X Node
         /\ Symmetric(links) => Symmetric(Changed(l))
<1>1. PICK a \in Node, b \in Node : l = <<a, b>>
  BY DiscoveryAssumption DEF DiscoveryAssumption
<1>2. Changed(l) = links \ {<<a, b>>, <<b, a>>}
        \/ Changed(l) = links \cup {<<a, b>>, <<b, a>>}
  BY <1>1 DEF Changed, Both
<1> QED
  BY <1>1, <1>2 DEF Symmetric

\* The parts of TypeOK, by the kind of data.
LinkTypes ==
  /\ links \subseteq Node \X Node /\ existed \subseteq Node \X Node
  /\ network_topology \subseteq Node \X Node /\ allowed \subseteq Node \X Node

PlainTypes ==
  /\ last_id \in Nat /\ changes \in Nat
  /\ ongoing \in BOOLEAN /\ settled \in BOOLEAN /\ still \in BOOLEAN
  /\ outbox \in Seq(Nat)
  /\ seen \in [Drone -> SUBSET Nat]

PacketTypes ==
  /\ requests \subseteq [flood_id : Nat, path_trace : Path, to : Node]
  /\ replies \subseteq [flood_id : Nat, path_trace : Path]

StoredTypes ==
  /\ responses \in Seq([flood_id : {last_id}, path_trace : Path])
  /\ parsed \in Seq([flood_id : Nat, path_trace : Path])

LEMMA TypeParts ==
  TypeOK <=> LinkTypes /\ PlainTypes /\ PacketTypes /\ StoredTypes
BY DEF TypeOK, LinkTypes, PlainTypes, PacketTypes, StoredTypes

LEMMA NodeTypes ==
  /\ Self \in Node /\ Host \subseteq Node /\ Drone \subseteq Node
  /\ <<Self>> \in Path
BY DiscoveryAssumption DEF DiscoveryAssumption, Node, Path

LEMMA StoredAsParsed ==
  ASSUME StoredTypes, last_id \in Nat
  PROVE  responses \in Seq([flood_id : Nat, path_trace : Path])
<1> DEFINE A == [flood_id : {last_id}, path_trace : Path]
           B == [flood_id : Nat, path_trace : Path]
<1>1. A \subseteq B /\ responses \in Seq(A)
  BY DEF StoredTypes
<1> HIDE DEF A, B
<1>2. responses \in Seq(B)
  BY <1>1, Subsequence
<1> QED
  BY <1>2 DEF B

LEMMA LinkTypesNext ==
  ASSUME TypeOK, [Next]_vars
  PROVE  LinkTypes'
<1> DEFINE Pairs == Node \X Node
<1>1. LinkTypes
  BY TypeParts
<1>2. \A l \in Link : Changed(l) \subseteq Pairs
  BY <1>1, ChangedLinks DEF LinkTypes
<1>3. ParseNetwork(responses) \subseteq Pairs
  BY TypeParts, StoredAsParsed, ParsedIsLinks DEF PlainTypes
<1> USE <1>1 DEF LinkTypes
<1> HIDE DEF Pairs
<1>4. /\ links \subseteq Pairs /\ existed \subseteq Pairs
      /\ network_topology \subseteq Pairs /\ allowed \subseteq Pairs
  BY DEF Pairs
<1>5. links' \subseteq Pairs
  BY <1>2, <1>4 DEF Next, vars, TriggerDiscovery, SendRequest, ReceiveResponse,
     EndDiscovery, HostAnswers, DroneForwards, DroneAnswers, ChangeElsewhere,
     ChangeOwnLink
<1>6. UNCHANGED existed \/ existed' = links \/ existed' = existed \cup links'
        \/ existed' = links'
  BY DEF Next, vars, TriggerDiscovery, Trigger, SendRequest, ReceiveResponse,
     EndDiscovery, HostAnswers, DroneForwards, DroneAnswers, ChangeElsewhere,
     ChangeOwnLink
<1>7. \/ UNCHANGED <<network_topology, allowed>>
      \/ network_topology' = ParseNetwork(responses) /\ allowed' = existed
  BY DEF Next, vars, hostVars, TriggerDiscovery, SendRequest, ReceiveResponse,
     EndDiscovery, HostAnswers, DroneForwards, DroneAnswers, ChangeElsewhere,
     ChangeOwnLink
<1> QED
  BY <1>3, <1>4, <1>5, <1>6, <1>7 DEF Pairs

LEMMA PlainTypesNext ==
  ASSUME TypeOK, [Next]_vars
  PROVE  PlainTypes'
<1>1. PlainTypes /\ PacketTypes
  BY TypeParts
<1>2. \/ UNCHANGED <<last_id, ongoing>>
      \/ last_id' = last_id + 1 /\ ongoing' = TRUE
      \/ UNCHANGED last_id /\ ongoing' = FALSE
  BY DEF Next, vars, hostVars, TriggerDiscovery, Trigger, InitDiscovery,
     SendRequest, ReceiveResponse, EndDiscovery, HostAnswers, DroneForwards,
     DroneAnswers, ChangeElsewhere, ChangeOwnLink
<1>3. last_id' \in Nat
  BY <1>1, <1>2 DEF PlainTypes
<1>4. ongoing' \in BOOLEAN
  BY <1>1, <1>2, Zenon DEF PlainTypes
<1>5. changes' \in Nat
  BY <1>1 DEF PlainTypes, Next, vars, TriggerDiscovery, SendRequest,
     ReceiveResponse, EndDiscovery, HostAnswers, DroneForwards, DroneAnswers,
     ChangeElsewhere, ChangeOwnLink
<1>6. \/ UNCHANGED settled
       \/ settled' = (NothingUnderWay /\ still)
  BY DEF Next, vars, hostVars, TriggerDiscovery, SendRequest, ReceiveResponse,
     EndDiscovery, HostAnswers, DroneForwards, DroneAnswers, ChangeElsewhere,
     ChangeOwnLink
<1>7. UNCHANGED still \/ still' = TRUE \/ still' = FALSE
  BY DEF Next, vars, TriggerDiscovery, Trigger, SendRequest, ReceiveResponse,
     EndDiscovery, HostAnswers, DroneForwards, DroneAnswers, ChangeElsewhere,
     ChangeOwnLink
<1>8. settled' \in BOOLEAN /\ still' \in BOOLEAN
  BY <1>1, <1>6, <1>7, Zenon DEF PlainTypes
<1>9. \/ UNCHANGED outbox \/ outbox' = Append(outbox, last_id + 1)
      \/ outbox # <<>> /\ outbox' = Tail(outbox)
  BY DEF Next, vars, hostVars, TriggerDiscovery, Trigger, SendRequest,
     ReceiveResponse, EndDiscovery, HostAnswers, DroneForwards, DroneAnswers,
     ChangeElsewhere, ChangeOwnLink
<1>10. outbox' \in Seq(Nat)
  <2>1. outbox \in Seq(Nat) /\ last_id + 1 \in Nat
    BY <1>1 DEF PlainTypes
  <2>2. /\ outbox # <<>> => Tail(outbox) \in Seq(Nat)
        /\ Append(outbox, last_id + 1) \in Seq(Nat)
    BY <2>1, AppendType, TailType
  <2> QED
    BY <1>9, <2>1, <2>2
<1>11. \/ UNCHANGED seen
      \/ \E r \in requests, d \in Drone :
           seen' = [seen EXCEPT ![d] = @ \cup {r.flood_id}]
  BY DEF Next, vars, hostVars, TriggerDiscovery, SendRequest, ReceiveResponse,
     EndDiscovery, HostAnswers, DroneForwards, DroneAnswers, ChangeElsewhere,
     ChangeOwnLink
<1>12. seen' \in [Drone -> SUBSET Nat]
  BY <1>1, <1>11 DEF PlainTypes, PacketTypes
<1> QED
  BY <1>3, <1>4, <1>10, <1>12, <1>5, <1>8, Zenon DEF PlainTypes

\* The packets that a step puts on the wire.
LEMMA RequestSent ==
  ASSUME TypeOK, [Next]_vars, NEW q \in requests' \ requests
  PROVE  \/ /\ SendRequest
            /\ \E n \in NeighboursOf(Self) : q = Request(Head(outbox), <<Self>>, n)
         \/ \E d \in Drone : DroneForwards(d) /\ \E r \in requests :
              /\ r.to = d
              /\ \E n \in Onward(r, d) :
                   q = Request(r.flood_id, Append(r.path_trace, d), n)
BY DEF Next, vars, TriggerDiscovery, SendRequest, ReceiveResponse, EndDiscovery,
   HostAnswers, DroneForwards, DroneAnswers, ChangeElsewhere, ChangeOwnLink

LEMMA ReplySent ==
  ASSUME TypeOK, [Next]_vars, NEW q \in replies' \ replies
  PROVE  \E r \in requests : r.to \in Node /\
           q = Reply(r.flood_id, Append(r.path_trace, r.to))
BY NodeTypes DEF Next, vars, TriggerDiscovery, SendRequest, ReceiveResponse,
   EndDiscovery, HostAnswers, DroneForwards, DroneAnswers, Answer,
   ChangeElsewhere, ChangeOwnLink

LEMMA PacketTypesNext ==
  ASSUME TypeOK, [Next]_vars
  PROVE  PacketTypes'
<1>1. PlainTypes /\ PacketTypes
  BY TypeParts
<1>2. ASSUME NEW r \in requests
      PROVE  r.flood_id \in Nat /\ r.path_trace \in Path
  BY <1>1 DEF PacketTypes
<1>3. ASSUME NEW q \in requests' \ requests
      PROVE  q \in [flood_id : Nat, path_trace : Path, to : Node]
  <2>1. CASE /\ SendRequest
             /\ \E n \in NeighboursOf(Self) :
                  q = Request(Head(outbox), <<Self>>, n)
    <3>1. Head(outbox) \in Nat
      BY <1>1, <2>1, TailType DEF SendRequest, PlainTypes
    <3> QED
      BY <2>1, <3>1, NodeTypes, RequestType DEF NeighboursOf
  <2>2. ASSUME NEW d \in Drone, NEW r \in requests, NEW n \in Onward(r, d),
               q = Request(r.flood_id, Append(r.path_trace, d), n)
        PROVE  q \in [flood_id : Nat, path_trace : Path, to : Node]
    <3>1. n \in Node /\ Append(r.path_trace, d) \in Path
      BY <1>2, NodeTypes, LongerPath DEF Onward, NeighboursOf
    <3> QED
      BY <1>2, <2>2, <3>1, RequestType
  <2> QED
    BY <1>3, <2>1, <2>2, RequestSent
<1>4. ASSUME NEW q \in replies' \ replies
      PROVE  q \in [flood_id : Nat, path_trace : Path]
  <2>1. PICK r \in requests :
          r.to \in Node /\ q = Reply(r.flood_id, Append(r.path_trace, r.to))
    BY <1>4, ReplySent
  <2>2. Append(r.path_trace, r.to) \in Path
    BY <1>2, <2>1, LongerPath
  <2> QED
    BY <1>2, <2>1, <2>2, ReplyType
<1> QED
  BY <1>1, <1>3, <1>4 DEF PacketTypes

\* What becomes of the responses of the latest flood.
LEMMA ResponsesStored ==
  ASSUME [Next]_vars
  PROVE  \/ UNCHANGED <<responses, last_id, parsed>>
         \/ responses' = <<>> /\ UNCHANGED parsed
         \/ /\ UNCHANGED <<last_id, parsed>>
            /\ \E r \in replies :
                 IsCurrent(r) /\ responses' = Append(responses, r)
         \/ responses' = <<>> /\ parsed' = responses /\ UNCHANGED last_id
BY DEF Next, vars, hostVars, TriggerDiscovery, Trigger, InitDiscovery,
   SendRequest, ReceiveResponse, EndDiscovery, HostAnswers, DroneForwards,
   DroneAnswers, ChangeElsewhere, ChangeOwnLink

LEMMA StoredTypesNext ==
  ASSUME TypeOK, [Next]_vars
  PROVE  StoredTypes'
<1>1. StoredTypes /\ PacketTypes /\ last_id \in Nat
  BY TypeParts DEF PlainTypes
<1>2. /\ responses \in Seq([flood_id : Nat, path_trace : Path])
      /\ parsed \in Seq([flood_id : Nat, path_trace : Path])
      /\ responses \in Seq([flood_id : {last_id}, path_trace : Path])
      /\ <<>> \in Seq([flood_id : {last_id'}, path_trace : Path])
  BY <1>1, StoredAsParsed DEF StoredTypes
<1>3. ASSUME NEW r \in replies, IsCurrent(r)
      PROVE  Append(responses, r) \in Seq([flood_id : {last_id}, path_trace : Path])
  <2>1. r \in [flood_id : {last_id}, path_trace : Path]
    BY <1>1, <1>3 DEF PacketTypes, IsCurrent
  <2> QED
    BY <1>2, <2>1, AppendType
<1> QED
  BY <1>2, <1>3, ResponsesStored DEF StoredTypes

LEMMA TypeNext ==
  ASSUME TypeOK, [Next]_vars
  PROVE  TypeOK'
<1>1. LinkTypes' /\ PlainTypes' /\ PacketTypes' /\ StoredTypes'
  BY LinkTypesNext, PlainTypesNext, PacketTypesNext, StoredTypesNext
<1> QED
  BY <1>1 DEF TypeOK, LinkTypes, PlainTypes, PacketTypes, StoredTypes

\* Paths are paths, ids are numbers, and the host keeps responses of the
\* latest flood only.
THEOREM TypeCorrect == Spec => []TypeOK
<1>1. ASSUME Init
      PROVE  TypeOK
  <2> USE <1>1, DiscoveryAssumption DEF DiscoveryAssumption, Init
  <2>1. LinkTypes
    BY DEF LinkTypes
  <2>2. /\ last_id \in Nat /\ changes \in Nat /\ outbox \in Seq(Nat)
        /\ seen \in [Drone -> SUBSET Nat]
    OBVIOUS
  <2>3. ongoing \in BOOLEAN /\ settled \in BOOLEAN /\ still \in BOOLEAN
    BY Zenon
  <2>4. PacketTypes /\ StoredTypes
    BY DEF PacketTypes, StoredTypes
  <2>5. PlainTypes
    BY <2>2, <2>3, Zenon DEF PlainTypes
  <2> QED
    BY <2>1, <2>4, <2>5, TypeParts
<1>2. TypeOK /\ [Next]_vars => TypeOK'
  BY TypeNext
<1> QED
  BY <1>1, <1>2, PTL DEF Spec

-----------------------------------------------------------------------------
(* The topology is recent *)

\* A discovery starts over, or goes on with links that were there, all of them.
LEMMA DiscoverySteps ==
  ASSUME [Next]_vars
  PROVE  \/ /\ last_id' = last_id + 1 /\ existed' = links'
            /\ responses' = <<>> /\ UNCHANGED <<requests, replies>>
            /\ outbox' = Append(outbox, last_id')
         \/ /\ UNCHANGED last_id
            /\ UNCHANGED existed \/ existed' = existed \cup links'
            /\ \/ UNCHANGED outbox
               \/ outbox # <<>> /\ outbox' = Tail(outbox)
BY DEF Next, vars, hostVars, TriggerDiscovery, Trigger, InitDiscovery,
   SendRequest, ReceiveResponse, EndDiscovery, HostAnswers, DroneForwards,
   DroneAnswers, ChangeElsewhere, ChangeOwnLink

LEMMA LinksNext ==
  ASSUME TypeOK, LinksInv, [Next]_vars
  PROVE  LinksInv'
<1>1. UNCHANGED links \/ \E l \in Link : links' = Changed(l)
  BY DEF Next, vars, TriggerDiscovery, SendRequest, ReceiveResponse,
     EndDiscovery, HostAnswers, DroneForwards, DroneAnswers, ChangeElsewhere,
     ChangeOwnLink
<1>2. Symmetric(links')
  BY <1>1, ChangedLinks, TypeParts DEF LinkTypes, LinksInv
<1>3. \/ existed' = existed /\ links' = links
      \/ existed' = links'
      \/ existed' = existed \cup links'
  BY DEF Next, vars, TriggerDiscovery, Trigger, SendRequest, ReceiveResponse,
     EndDiscovery, HostAnswers, DroneForwards, DroneAnswers, ChangeElsewhere,
     ChangeOwnLink
<1>4. Symmetric(existed')
  BY <1>2, <1>3 DEF LinksInv, Symmetric
<1>5. links' \subseteq existed'
  BY <1>3 DEF LinksInv
<1> QED
  BY <1>2, <1>4, <1>5 DEF LinksInv, Symmetric

LEMMA IdsNext ==
  ASSUME TypeOK, IdsInv, [Next]_vars
  PROVE  IdsInv'
<1>1. /\ last_id \in Nat /\ outbox \in Seq(Nat)
      /\ \A r \in requests \cup replies : r.flood_id \in Nat
  BY TypeParts DEF PlainTypes, PacketTypes
<1>2. last_id' \in Nat /\ last_id <= last_id'
  BY <1>1, DiscoverySteps
<1>3. ASSUME NEW i \in DOMAIN outbox'
      PROVE  outbox'[i] <= last_id'
  <2>1. CASE outbox' = Append(outbox, last_id')
    BY <1>1, <1>2, <2>1, AppendType DEF IdsInv
  <2>2. CASE UNCHANGED outbox
    BY <1>1, <1>2, <2>2, ElementType DEF IdsInv
  <2>3. CASE outbox # <<>> /\ outbox' = Tail(outbox)
    <3>1. PICK j \in DOMAIN outbox : outbox'[i] = outbox[j]
      BY <1>1, <1>3, <2>3, TailType
    <3> QED
      BY <1>1, <1>2, <3>1, ElementType DEF IdsInv
  <2> QED
    BY <2>1, <2>2, <2>3, DiscoverySteps
<1>4. ASSUME NEW r \in requests \cup replies
      PROVE  r.flood_id <= last_id'
  BY <1>1, <1>2 DEF IdsInv
<1>5. ASSUME NEW q \in requests' \ requests
      PROVE  q.flood_id <= last_id'
  <2>1. CASE /\ SendRequest
             /\ \E n \in NeighboursOf(Self) :
                  q = Request(Head(outbox), <<Self>>, n)
    <3>1. PICK j \in DOMAIN outbox : Head(outbox) = outbox[j]
      BY <1>1, <2>1, TailType DEF SendRequest
    <3>2. q.flood_id = outbox[j] /\ outbox[j] \in Nat
      BY <1>1, <2>1, <3>1, ElementType DEF Request
    <3> QED
      BY <1>1, <1>2, <3>2 DEF IdsInv
  <2> QED
    BY <1>4, <1>5, <2>1, RequestSent DEF Request
<1>6. ASSUME NEW q \in replies' \ replies
      PROVE  q.flood_id <= last_id'
  BY <1>4, <1>6, ReplySent DEF Reply
<1> QED
  BY <1>3, <1>4, <1>5, <1>6 DEF IdsInv

\* One node more, next to the last.
LEMMA KnownLonger ==
  ASSUME NEW path \in Path, Len(path) > 0, Known(path), NEW n \in Node,
         <<LastOf(path), n>> \in existed
  PROVE  Known(Append(path, n)) /\ LastOf(Append(path, n)) = n
<1>1. /\ Len(path) \in Nat /\ Len(Append(path, n)) = Len(path) + 1
      /\ \A i \in 1 .. Len(path) : Append(path, n)[i] = path[i]
      /\ Append(path, n)[Len(path) + 1] = n
  BY AppendType DEF Path
<1>2. ASSUME NEW i \in 1 .. Len(path)
      PROVE  <<Append(path, n)[i], Append(path, n)[i + 1]>> \in existed
  <2>1. CASE i = Len(path)
    BY <1>1, <2>1 DEF LastOf
  <2>2. CASE i # Len(path)
    <3>1. i \in 1 .. Len(path) - 1 /\ i + 1 \in 1 .. Len(path)
      BY <1>1, <2>2
    <3> QED
      BY <1>1, <3>1 DEF Known
  <2> QED
    BY <2>1, <2>2
<1> QED
  BY <1>1, <1>2 DEF Known, LastOf

\* As long as a discovery lasts, what was known of it stays known.
LEMMA KnownStays ==
  ASSUME [Next]_vars, UNCHANGED last_id, last_id \in Nat, NEW path, Known(path)
  PROVE  existed \subseteq existed' /\ Known(path)'
<1>1. existed \subseteq existed'
  BY DiscoverySteps
<1> QED
  BY <1>1 DEF Known

\* A request that travels on, and the answer to it, tell what was known and
\* the link over which it came.
LEMMA OnwardKnown ==
  ASSUME TypeOK, TracesInv, NEW r \in requests, r.flood_id = last_id
  PROVE  LET path == Append(r.path_trace, r.to)
         IN  Known(path) /\ LastOf(path) = r.to /\ Len(path) > 0
<1>1. /\ r.path_trace \in Path /\ r.to \in Node
      /\ Len(r.path_trace) > 0 /\ Known(r.path_trace)
      /\ <<LastOf(r.path_trace), r.to>> \in existed
  BY TypeParts DEF PacketTypes, TracesInv
<1>2. Len(Append(r.path_trace, r.to)) > 0
  BY <1>1, AppendType DEF Path
<1> QED
  BY <1>1, <1>2, KnownLonger

LEMMA RequestsNext ==
  ASSUME TypeOK, LinksInv, TracesInv, [Next]_vars, UNCHANGED last_id,
         NEW q \in requests', q.flood_id = last_id
  PROVE  /\ Len(q.path_trace) > 0 /\ Known(q.path_trace)'
         /\ <<LastOf(q.path_trace), q.to>> \in existed'
<1>1. last_id \in Nat
  BY TypeParts DEF PlainTypes
<1>2. ASSUME Len(q.path_trace) > 0, Known(q.path_trace),
             <<LastOf(q.path_trace), q.to>> \in existed
      PROVE  /\ Len(q.path_trace) > 0 /\ Known(q.path_trace)'
             /\ <<LastOf(q.path_trace), q.to>> \in existed'
  BY <1>1, <1>2, KnownStays
<1>3. CASE q \in requests
  BY <1>2, <1>3 DEF TracesInv
<1>4. ASSUME NEW n \in NeighboursOf(Self), q = Request(Head(outbox), <<Self>>, n)
      PROVE  /\ Len(q.path_trace) > 0 /\ Known(q.path_trace)
             /\ <<LastOf(q.path_trace), q.to>> \in existed
  <2>1. q.path_trace = <<Self>> /\ q.to = n
    BY <1>4 DEF Request
  <2>2. <<Self, n>> \in existed
    BY DEF NeighboursOf, LinksInv
  <2> QED
    BY <2>1, <2>2 DEF Known, LastOf
<1>5. ASSUME NEW r \in requests, NEW n \in Onward(r, r.to),
             q = Request(r.flood_id, Append(r.path_trace, r.to), n)
      PROVE  /\ Len(q.path_trace) > 0 /\ Known(q.path_trace)
             /\ <<LastOf(q.path_trace), q.to>> \in existed
  <2>1. /\ q.path_trace = Append(r.path_trace, r.to) /\ q.to = n
        /\ r.flood_id = last_id
    BY <1>5 DEF Request
  <2>2. <<r.to, n>> \in existed
    BY DEF Onward, NeighboursOf, LinksInv
  <2> QED
    BY <2>1, <2>2, OnwardKnown
<1> QED
  BY <1>2, <1>3, <1>4, <1>5, RequestSent

LEMMA RepliesNext ==
  ASSUME TypeOK, TracesInv, [Next]_vars, UNCHANGED last_id,
         NEW q \in replies', q.flood_id = last_id
  PROVE  Known(q.path_trace)'
<1>1. last_id \in Nat
  BY TypeParts DEF PlainTypes
<1>2. CASE q \in replies
  BY <1>1, <1>2, KnownStays DEF TracesInv
<1>3. CASE q \notin replies
  <2>1. PICK r \in requests : q = Reply(r.flood_id, Append(r.path_trace, r.to))
    BY <1>3, ReplySent
  <2>2. r.flood_id = last_id /\ q.path_trace = Append(r.path_trace, r.to)
    BY <2>1 DEF Reply
  <2> QED
    BY <1>1, <2>2, OnwardKnown, KnownStays
<1> QED
  BY <1>2, <1>3

LEMMA ResponsesNext ==
  ASSUME TypeOK, TracesInv, [Next]_vars, UNCHANGED last_id,
         NEW i \in DOMAIN responses', NEW path, path = responses'[i].path_trace
  PROVE  Known(path)'
<1>1. last_id \in Nat
  BY TypeParts DEF PlainTypes
<1>2. CASE UNCHANGED responses
  <2>1. Known(path)
    BY <1>2 DEF TracesInv
  <2> QED
    BY <1>1, <2>1, KnownStays
<1>3. CASE responses' = <<>>
  BY <1>3
<1>4. ASSUME NEW r \in replies, IsCurrent(r), responses' = Append(responses, r)
      PROVE  Known(path)'
  <2>1. /\ responses \in Seq([flood_id : Nat, path_trace : Path])
        /\ r \in [flood_id : Nat, path_trace : Path]
    BY <1>1, TypeParts, StoredAsParsed DEF PacketTypes
  <2>2. \/ responses'[i] = r
        \/ i \in DOMAIN responses /\ responses'[i] = responses[i]
    BY <1>4, <2>1, AppendType
  <2>3. Known(r.path_trace)
    BY <1>4 DEF IsCurrent, TracesInv
  <2>4. Known(path)
    BY <2>2, <2>3 DEF TracesInv
  <2> QED
    BY <1>1, <2>4, KnownStays
<1> QED
  BY <1>2, <1>3, <1>4, ResponsesStored

LEMMA TracesNext ==
  ASSUME TypeOK, LinksInv, IdsInv, TracesInv, [Next]_vars
  PROVE  TracesInv'
<1>1. last_id \in Nat /\ \A r \in requests \cup replies : r.flood_id \in Nat
  BY TypeParts DEF PlainTypes, PacketTypes
<1>2. CASE /\ last_id' = last_id + 1 /\ responses' = <<>>
           /\ UNCHANGED <<requests, replies>>
  <2>1. \A r \in requests \cup replies : r.flood_id # last_id'
    BY <1>1, <1>2 DEF IdsInv
  <2> QED
    BY <1>2, <2>1 DEF TracesInv
<1>3. CASE UNCHANGED last_id
  <2>1. ASSUME NEW q \in requests', q.flood_id = last_id'
        PROVE  /\ Len(q.path_trace) > 0 /\ Known(q.path_trace)'
               /\ <<LastOf(q.path_trace), q.to>> \in existed'
    BY <1>3, <2>1, RequestsNext
  <2>2. ASSUME NEW q \in replies', q.flood_id = last_id'
        PROVE  Known(q.path_trace)'
    BY <1>3, <2>2, RepliesNext
  <2>3. \A i \in DOMAIN responses' : Known(responses[i].path_trace)'
    BY <1>3, ResponsesNext DEF Known
  <2> QED
    BY <2>1, <2>2, <2>3 DEF TracesInv
<1> QED
  BY <1>2, <1>3, DiscoverySteps

LEMMA ParsedIsKnown ==
  ASSUME TypeOK, LinksInv, TracesInv
  PROVE  ParseNetwork(responses) \subseteq existed
<1>1. /\ last_id \in Nat
      /\ responses \in Seq([flood_id : Nat, path_trace : Path])
  BY TypeParts, StoredAsParsed DEF PlainTypes
<1>2. ASSUME NEW k \in DOMAIN responses
      PROVE  LinksOf(responses[k].path_trace) \subseteq existed
  <2> DEFINE path == responses[k].path_trace
  <2>1. responses[k] \in [flood_id : Nat, path_trace : Path]
    BY <1>1, ElementType
  <2>2. path \in Seq(Node) /\ Known(path)
    BY <2>1 DEF TracesInv, Path
  <2> HIDE DEF path
  <2>3. ASSUME NEW i \in 1 .. Len(path) - 1
        PROVE  Both(path[i], path[i + 1]) \subseteq existed
    <3>1. path[i] \in Node /\ path[i + 1] \in Node
      BY <2>2
    <3>2. <<path[i], path[i + 1]>> \in existed
      BY <2>2 DEF Known
    <3> QED
      BY <3>1, <3>2 DEF Both, LinksInv, Symmetric
  <2> QED
    BY <2>3 DEF LinksOf, path
<1> QED
  BY <1>2 DEF ParseNetwork

LEMMA TopologyNext ==
  ASSUME TypeOK, LinksInv, TracesInv, TopologyIsRecent, [Next]_vars
  PROVE  TopologyIsRecent'
<1>1. \/ UNCHANGED <<network_topology, allowed>>
      \/ network_topology' = ParseNetwork(responses) /\ allowed' = existed
  BY DEF Next, vars, hostVars, TriggerDiscovery, SendRequest, ReceiveResponse,
     EndDiscovery, HostAnswers, DroneForwards, DroneAnswers, ChangeElsewhere,
     ChangeOwnLink
<1> QED
  BY <1>1, ParsedIsKnown DEF TopologyIsRecent

\* Whatever floods overlap, and whichever links come and go meanwhile, a
\* topology holds only links that were there since its discovery began.
THEOREM TopologyStaysRecent == Spec => []TopologyIsRecent
<1>1. Init => RecentInv
  BY DiscoveryAssumption DEF DiscoveryAssumption, Init, RecentInv, LinksInv,
     Symmetric, IdsInv, TracesInv, TopologyIsRecent
<1>2. TypeOK /\ RecentInv /\ [Next]_vars => RecentInv'
  BY LinksNext, IdsNext, TracesNext, TopologyNext DEF RecentInv
<1>3. RecentInv => TopologyIsRecent
  BY DEF RecentInv
<1> QED
  BY <1>1, <1>2, <1>3, TypeCorrect, PTL DEF Spec

-----------------------------------------------------------------------------
(* The topology is complete if nothing disturbed the discovery *)

\* The trails of the latest flood: where its requests were and are going to,
\* what its answers tell and what was stored of them.
Trail(p) ==
  \/ \E r \in requests : r.flood_id = last_id /\ p = Append(r.path_trace, r.to)
  \/ \E r \in replies : r.flood_id = last_id /\ p = r.path_trace
  \/ \E i \in DOMAIN responses : p = responses[i].path_trace

Told(a, b) == \E p \in Path : Trail(p) /\ <<a, b>> \in LinksOf(p)

\* The latest flood was sent, by the host or on by a drone.
Flooded(n) ==
  \/ n = Self /\ \A i \in DOMAIN outbox : outbox[i] # last_id
  \/ n \in Drone /\ last_id \in seen[n]

Awaited(d) == \E r \in requests : r.flood_id = last_id /\ r.to = d

SeenInv == \A d \in Drone : \A id \in seen[d] : id <= last_id

StillInv == still => existed = links

\* A request was sent by the host or passed on by a drone.
PassedOn ==
  \A r \in requests : r.flood_id = last_id =>
    \/ LastOf(r.path_trace) = Self
    \/ LastOf(r.path_trace) \in Drone /\ last_id \in seen[LastOf(r.path_trace)]

\* Nothing is forgotten: each link of a node that has sent the flood is told of
\* in some trail, and each drone next to it has the flood or will.
Spreading ==
  \A n \in Drone \cup {Self} : Flooded(n) => \A m \in NeighboursOf(n) :
    /\ Told(n, m)
    /\ m \in Drone => Flooded(m) \/ Awaited(m)

\* Nothing else is told.
WithinTrails ==
  \A p \in Path : Trail(p) =>
    \A i \in 1 .. Len(p) - 1 : p[i] \in WithinReach(links) \cup {Self}

FloodInv ==
  /\ SeenInv /\ StillInv
  /\ ongoing /\ still => PassedOn /\ Spreading /\ WithinTrails
  /\ CompleteWhenSettled

\* The drones within reach are the least set that a flood can spread to.
LEMMA ReachFacts ==
  ASSUME NEW pairs
  PROVE  /\ WithinReach(pairs) \subseteq Drone
         /\ Spread(pairs, WithinReach(pairs))
         /\ \A S \in SUBSET Drone : Spread(pairs, S) => WithinReach(pairs) \subseteq S
<1>1. /\ WithinReach(pairs) \subseteq Drone
      /\ \A S \in SUBSET Drone : Spread(pairs, S) => WithinReach(pairs) \subseteq S
  BY DEF WithinReach
<1>2. ASSUME NEW n \in WithinReach(pairs) \cup {Self}, NEW d \in Drone,
             <<n, d>> \in pairs, NEW S \in SUBSET Drone, Spread(pairs, S)
      PROVE  d \in S
  <2>1. n \in S \cup {Self}
    BY <1>1, <1>2
  <2> QED
    BY <1>2, <2>1 DEF Spread
<1>3. Spread(pairs, WithinReach(pairs))
  <2> SUFFICES ASSUME NEW n \in WithinReach(pairs) \cup {Self}, NEW d \in Drone,
                      <<n, d>> \in pairs
               PROVE  d \in WithinReach(pairs)
    BY DEF Spread
  <2> QED
    BY <1>2 DEF WithinReach
<1> QED
  BY <1>1, <1>3

\* A longer trail tells more.
LEMMA LongerTells ==
  ASSUME NEW path \in Path, NEW n \in Node
  PROVE  /\ LinksOf(path) \subseteq LinksOf(Append(path, n))
         /\ Len(path) > 0 =>
              /\ <<LastOf(path), n>> \in LinksOf(Append(path, n))
              /\ <<n, LastOf(path)>> \in LinksOf(Append(path, n))
<1> DEFINE long == Append(path, n)
<1>1. /\ Len(path) \in Nat /\ Len(long) = Len(path) + 1
      /\ \A i \in 1 .. Len(path) : long[i] = path[i]
      /\ long[Len(path) + 1] = n
  BY AppendType DEF Path
<1> HIDE DEF long
<1>2. ASSUME NEW i \in 1 .. Len(path) - 1
      PROVE  /\ i \in 1 .. Len(long) - 1
             /\ Both(path[i], path[i + 1]) = Both(long[i], long[i + 1])
  <2>1. i \in 1 .. Len(path) /\ i + 1 \in 1 .. Len(path)
    BY <1>1
  <2> QED
    BY <1>1, <2>1
<1>3. LinksOf(path) \subseteq LinksOf(long)
  BY <1>2 DEF LinksOf
<1>4. ASSUME Len(path) > 0
      PROVE  Both(LastOf(path), n) \subseteq LinksOf(long)
  <2>1. /\ Len(path) \in 1 .. Len(long) - 1
        /\ long[Len(path)] = LastOf(path) /\ long[Len(path) + 1] = n
    BY <1>1, <1>4 DEF LastOf
  <2> QED
    BY <2>1 DEF LinksOf
<1> QED
  BY <1>3, <1>4 DEF Both, long

LEMMA TrailType ==
  ASSUME TypeOK, NEW p, Trail(p)
  PROVE  p \in Path
<1>1. PacketTypes /\ responses \in Seq([flood_id : Nat, path_trace : Path])
  BY TypeParts, StoredAsParsed DEF PlainTypes
<1>2. ASSUME NEW r \in requests
      PROVE  Append(r.path_trace, r.to) \in Path
  BY <1>1, LongerPath DEF PacketTypes
<1>3. ASSUME NEW i \in DOMAIN responses
      PROVE  responses[i].path_trace \in Path
  <2>1. responses[i] \in [flood_id : Nat, path_trace : Path]
    BY <1>1, ElementType
  <2> QED
    BY <2>1
<1> QED
  BY <1>1, <1>2, <1>3 DEF Trail, PacketTypes

\* A discovery that nothing disturbs: it has just begun, or goes on over the
\* links that there were.
FloodStep ==
  \/ SendRequest \/ ReceiveResponse \/ \E h \in Host : HostAnswers(h)
  \/ \E d \in Drone : DroneForwards(d) \/ DroneAnswers(d)
  \/ UNCHANGED <<outbox, requests, replies, responses, seen>>

LEMMA QuietSteps ==
  ASSUME [Next]_vars, ongoing', still'
  PROVE  \/ /\ last_id' = last_id + 1 /\ outbox' = Append(outbox, last_id')
            /\ responses' = <<>> /\ UNCHANGED <<requests, replies, seen>>
         \/ /\ ongoing /\ still /\ UNCHANGED <<last_id, links, existed>>
            /\ FloodStep
BY DEF Next, vars, hostVars, TriggerDiscovery, Trigger, InitDiscovery,
   SendRequest, ReceiveResponse, EndDiscovery, HostAnswers, DroneForwards,
   DroneAnswers, ChangeElsewhere, ChangeOwnLink, FloodStep

\* A request came over a link that is still there, and can be answered.
LEMMA LinkBack ==
  ASSUME TypeOK, RecentInv, existed = links,
         NEW r \in requests, r.flood_id = last_id
  PROVE  /\ LastOf(r.path_trace) \in NeighboursOf(r.to)
         /\ r.to \in NeighboursOf(LastOf(r.path_trace))
         /\ Len(r.path_trace) > 0 /\ r.path_trace \in Path /\ r.to \in Node
<1>1. /\ r.path_trace \in Path /\ r.to \in Node /\ Len(r.path_trace) > 0
      /\ <<LastOf(r.path_trace), r.to>> \in links
  BY TypeParts DEF PacketTypes, RecentInv, TracesInv
<1>2. LastOf(r.path_trace) \in Node
  BY <1>1 DEF LastOf, Path
<1> QED
  BY <1>1, <1>2 DEF RecentInv, LinksInv, Symmetric, NeighboursOf

\* An answer tells what the request would have.
LEMMA AnswerKeepsTrail ==
  ASSUME TypeOK, RecentInv, existed = links, UNCHANGED last_id,
         NEW r \in requests, r.flood_id = last_id, Answer(r, r.to)
  PROVE  Trail(Append(r.path_trace, r.to))'
<1> DEFINE q == Reply(r.flood_id, Append(r.path_trace, r.to))
<1>1. q \in replies'
  BY LinkBack DEF Answer
<1>2. q.flood_id = last_id' /\ q.path_trace = Append(r.path_trace, r.to)
  BY DEF Reply
<1> HIDE DEF q
<1> QED
  BY <1>1, <1>2 DEF Trail

LEMMA AnsweredTrails ==
  ASSUME TypeOK, RecentInv, existed = links, UNCHANGED <<last_id, responses>>,
         NEW r \in requests, requests' = requests \ {r}, Answer(r, r.to),
         NEW p, Trail(p)
  PROVE  Trail(p)'
<1>1. replies \subseteq replies'
  BY DEF Answer
<1>2. CASE r.flood_id = last_id /\ p = Append(r.path_trace, r.to)
  BY <1>2, AnswerKeepsTrail
<1>3. CASE ~(r.flood_id = last_id /\ p = Append(r.path_trace, r.to))
  BY <1>1, <1>3 DEF Trail
<1> QED
  BY <1>2, <1>3

\* A drone that passes a request on makes its trail longer.
LEMMA ForwardedTrails ==
  ASSUME TypeOK, UNCHANGED <<last_id, responses, replies>>,
         NEW r \in requests,
         requests' = (requests \ {r}) \cup
           {Request(r.flood_id, Append(r.path_trace, r.to), n) : n \in Onward(r, r.to)},
         NEW n \in Onward(r, r.to), NEW p, Trail(p)
  PROVE  Trail(p)' \/ Trail(Append(p, n))'
<1> DEFINE q == Request(r.flood_id, Append(r.path_trace, r.to), n)
<1>1. /\ q \in requests' /\ q.flood_id = r.flood_id /\ q.to = n
      /\ q.path_trace = Append(r.path_trace, r.to)
  BY DEF Request
<1> HIDE DEF q
<1>2. CASE r.flood_id = last_id /\ p = Append(r.path_trace, r.to)
  BY <1>1, <1>2 DEF Trail
<1>3. CASE ~(r.flood_id = last_id /\ p = Append(r.path_trace, r.to))
  BY <1>3 DEF Trail
<1> QED
  BY <1>2, <1>3

LEMMA StoredTrails ==
  ASSUME TypeOK, ReceiveResponse, NEW p, Trail(p)
  PROVE  Trail(p)'
<1>1. PICK r \in replies :
        /\ replies' = replies \ {r}
        /\ responses' = IF IsCurrent(r) THEN Append(responses, r) ELSE responses
  BY DEF ReceiveResponse
<1>2. UNCHANGED <<last_id, requests>>
  BY DEF ReceiveResponse
<1>3. CASE IsCurrent(r)
  <2>1. /\ responses \in Seq([flood_id : Nat, path_trace : Path])
        /\ r \in [flood_id : Nat, path_trace : Path]
    BY TypeParts, StoredAsParsed DEF PacketTypes, PlainTypes
  <2>2. /\ responses' = Append(responses, r)
        /\ \A i \in DOMAIN responses :
             i \in DOMAIN responses' /\ responses'[i] = responses[i]
        /\ \E i \in DOMAIN responses' : responses'[i] = r
    BY <1>1, <1>3, <2>1, AppendType
  <2> QED
    BY <1>1, <1>2, <2>2 DEF Trail
<1>4. CASE ~IsCurrent(r)
  BY <1>1, <1>2, <1>4 DEF Trail, IsCurrent
<1> QED
  BY <1>3, <1>4

\* No trail ends before it is stored: it stays or grows.
LEMMA TrailKept ==
  ASSUME TypeOK, RecentInv, existed = links, UNCHANGED last_id, FloodStep,
         NEW p, Trail(p)
  PROVE  Trail(p)' \/ \E n \in Node : Trail(Append(p, n))'
<1>1. CASE UNCHANGED <<outbox, requests, replies, responses, seen>>
  BY <1>1 DEF Trail
<1>2. CASE SendRequest
  BY <1>2 DEF Trail, SendRequest, hostVars
<1>3. CASE ReceiveResponse
  BY <1>3, StoredTrails
<1>4. ASSUME NEW h \in Host, HostAnswers(h)
      PROVE  Trail(p)'
  BY <1>4, AnsweredTrails DEF HostAnswers, hostVars
<1>5. ASSUME NEW d \in Drone, DroneAnswers(d)
      PROVE  Trail(p)'
  BY <1>5, AnsweredTrails DEF DroneAnswers, hostVars
<1>6. ASSUME NEW d \in Drone, DroneForwards(d)
      PROVE  Trail(p)' \/ \E n \in Node : Trail(Append(p, n))'
  <2>1. PICK r \in requests :
          /\ r.to = d /\ Onward(r, d) # {}
          /\ requests' = (requests \ {r}) \cup
               {Request(r.flood_id, Append(r.path_trace, d), n) : n \in Onward(r, d)}
    BY <1>6 DEF DroneForwards
  <2>2. PICK n \in Node : n \in Onward(r, d)
    BY <2>1 DEF Onward, NeighboursOf
  <2>3. UNCHANGED <<last_id, responses, replies>>
    BY <1>6 DEF DroneForwards, hostVars
  <2> QED
    BY <2>1, <2>2, <2>3, ForwardedTrails
<1> QED
  BY <1>1, <1>2, <1>3, <1>4, <1>5, <1>6 DEF FloodStep

LEMMA ToldStays ==
  ASSUME TypeOK, TypeOK', RecentInv, existed = links, UNCHANGED last_id, FloodStep,
         NEW a, NEW b, Told(a, b)
  PROVE  Told(a, b)'
<1>1. PICK p \in Path : Trail(p) /\ <<a, b>> \in LinksOf(p)
  BY DEF Told
<1>2. CASE Trail(p)'
  BY <1>1, <1>2 DEF Told
<1>3. ASSUME NEW n \in Node, Trail(Append(p, n))'
      PROVE  Told(a, b)'
  <2>1. Append(p, n) \in Path /\ <<a, b>> \in LinksOf(Append(p, n))
    BY <1>1, LongerPath, LongerTells
  <2> QED
    BY <1>3, <2>1 DEF Told
<1> QED
  BY <1>1, <1>2, <1>3, TrailKept

\* A node that has sent the flood has sent it for good.
LEMMA FloodedStays ==
  ASSUME TypeOK, UNCHANGED last_id, FloodStep, NEW n, Flooded(n)
  PROVE  Flooded(n)'
<1>1. \/ UNCHANGED outbox
      \/ outbox # <<>> /\ outbox' = Tail(outbox)
  BY DEF FloodStep, SendRequest, ReceiveResponse, HostAnswers, DroneForwards,
     DroneAnswers
<1>2. CASE n = Self /\ \A i \in DOMAIN outbox : outbox[i] # last_id
  <2>1. outbox # <<>> => \A i \in DOMAIN Tail(outbox) : Tail(outbox)[i] # last_id
    BY <1>2, TypeParts, TailType DEF PlainTypes
  <2> QED
    BY <1>1, <1>2, <2>1 DEF Flooded
<1>3. \/ UNCHANGED seen
      \/ \E r \in requests, d \in Drone :
           seen' = [seen EXCEPT ![d] = @ \cup {r.flood_id}]
  BY DEF FloodStep, SendRequest, ReceiveResponse, HostAnswers, DroneForwards,
     DroneAnswers
<1>4. CASE n \in Drone /\ last_id \in seen[n]
  BY <1>3, <1>4, TypeParts DEF Flooded, PlainTypes
<1> QED
  BY <1>2, <1>4 DEF Flooded

\* What a node that sends the flood for the first time does.
Sends(n) ==
  \/ /\ n = Self /\ SendRequest /\ Head(outbox) = last_id
  \/ \E r \in requests :
       /\ n \in Drone /\ r.to = n /\ r.flood_id = last_id
       /\ DroneForwards(n) \/ DroneAnswers(n)
       /\ \/ requests' = (requests \ {r}) \cup
               {Request(r.flood_id, Append(r.path_trace, n), m) : m \in Onward(r, n)}
          \/ /\ Onward(r, n) = {} /\ requests' = requests \ {r} /\ Answer(r, n)

LEMMA NewlyFlooded ==
  ASSUME TypeOK, UNCHANGED last_id, FloodStep, NEW n, Flooded(n)', ~Flooded(n)
  PROVE  Sends(n)
<1>1. PlainTypes
  BY TypeParts
<1>2. CASE n = Self /\ \A i \in DOMAIN outbox' : outbox'[i] # last_id
  <2>1. PICK i \in DOMAIN outbox : outbox[i] = last_id
    BY <1>2 DEF Flooded
  <2>2. outbox # <<>> /\ outbox' = Tail(outbox) /\ SendRequest
    BY <1>2, <2>1 DEF FloodStep, SendRequest, ReceiveResponse, HostAnswers,
       DroneForwards, DroneAnswers
  <2>3. Head(outbox) = last_id
    <3>1. /\ DOMAIN outbox = 1 .. Len(outbox) /\ Len(outbox) \in Nat
          /\ DOMAIN Tail(outbox) = 1 .. Len(outbox) - 1
          /\ \A j \in 1 .. Len(outbox) - 1 : Tail(outbox)[j] = outbox[j + 1]
          /\ Head(outbox) = outbox[1]
      BY <1>1, <2>2 DEF PlainTypes
    <3>2. CASE i # 1
      <4>1. i - 1 \in 1 .. Len(outbox) - 1 /\ (i - 1) + 1 = i
        BY <2>1, <3>1, <3>2
      <4>2. Tail(outbox)[i - 1] = last_id
        BY <2>1, <3>1, <4>1
      <4> QED
        BY <1>2, <2>2, <3>1, <4>1, <4>2
    <3> QED
      BY <2>1, <3>1, <3>2
  <2> QED
    BY <1>2, <2>2, <2>3 DEF Sends
<1>3. CASE n \in Drone /\ last_id \in seen'[n]
  <2>1. last_id \notin seen[n]
    BY <1>3 DEF Flooded
  <2>2. PICK d \in Drone : DroneForwards(d) \/ DroneAnswers(d)
    BY <1>3, <2>1 DEF FloodStep, SendRequest, ReceiveResponse, HostAnswers
  <2>3. PICK r \in requests :
          /\ r.to = d
          /\ seen' = [seen EXCEPT ![d] = @ \cup {r.flood_id}]
          /\ \/ requests' = (requests \ {r}) \cup
                  {Request(r.flood_id, Append(r.path_trace, d), m) : m \in Onward(r, d)}
             \/ /\ r.flood_id \in seen[d] \/ Onward(r, d) = {}
                /\ requests' = requests \ {r} /\ Answer(r, d)
    BY <2>2 DEF DroneForwards, DroneAnswers
  <2>4. d = n /\ r.flood_id = last_id
    BY <1>1, <1>3, <2>1, <2>3 DEF PlainTypes
  <2> QED
    BY <1>3, <2>1, <2>2, <2>3, <2>4 DEF Sends
<1> QED
  BY <1>2, <1>3 DEF Flooded

\* It tells of all its links, and each drone next to it has the flood or will.
LEMMA SendsSpread ==
  ASSUME TypeOK, TypeOK', RecentInv, existed = links, PassedOn,
         UNCHANGED <<last_id, links>>, FloodStep,
         NEW n, Sends(n), NEW m \in NeighboursOf(n)
  PROVE  /\ Told(n, m)'
         /\ m \in Drone => Flooded(m)' \/ Awaited(m)'
<1>1. ASSUME NEW q \in requests', q.flood_id = last_id, q.to = m, n \in Node,
             NEW path \in Path, q.path_trace = Append(path, n)
      PROVE  Told(n, m)' /\ Awaited(m)'
  <2>1. Append(path, n) \in Path /\ m \in Node
    BY <1>1, LongerPath DEF NeighboursOf
  <2>2. /\ Append(Append(path, n), m) \in Path
        /\ <<n, m>> \in LinksOf(Append(Append(path, n), m))
    <3>1. Len(Append(path, n)) > 0 /\ LastOf(Append(path, n)) = n
      BY <1>1, AppendType DEF Path, LastOf
    <3> QED
      BY <2>1, <3>1, LongerPath, LongerTells
  <2>3. Trail(Append(Append(path, n), m))'
    BY <1>1 DEF Trail
  <2> QED
    BY <1>1, <2>2, <2>3 DEF Told, Awaited
<1>2. CASE n = Self /\ SendRequest /\ Head(outbox) = last_id
  <2> DEFINE q == Request(Head(outbox), <<Self>>, m)
  <2>1. q \in requests'
    BY <1>2 DEF SendRequest
  <2>2. /\ q.flood_id = last_id /\ q.to = m /\ q.path_trace = Append(<<>>, n)
        /\ <<>> \in Path /\ n \in Node
    BY <1>2, NodeTypes DEF Request, Path
  <2> HIDE DEF q
  <2> QED
    BY <1>1, <2>1, <2>2
<1>3. ASSUME NEW r \in requests, n \in Drone, r.to = n, r.flood_id = last_id
      PROVE  /\ Told(n, LastOf(r.path_trace))'
             /\ LastOf(r.path_trace) \in Drone => Flooded(LastOf(r.path_trace))'
  <2>1. /\ Append(r.path_trace, n) \in Path
        /\ <<n, LastOf(r.path_trace)>> \in LinksOf(Append(r.path_trace, n))
    BY <1>3, LinkBack, LongerPath, LongerTells
  <2>2. Told(n, LastOf(r.path_trace))
    BY <1>3, <2>1 DEF Told, Trail
  <2>3. LastOf(r.path_trace) \in Drone => Flooded(LastOf(r.path_trace))
    BY <1>3, DiscoveryAssumption DEF PassedOn, Flooded, DiscoveryAssumption
  <2> QED
    BY <2>2, <2>3, ToldStays, FloodedStays
<1>4. ASSUME NEW r \in requests, n \in Drone, r.to = n, r.flood_id = last_id,
             requests' = (requests \ {r}) \cup
               {Request(r.flood_id, Append(r.path_trace, n), k) : k \in Onward(r, n)}
      PROVE  /\ Told(n, m)'
             /\ m \in Drone => Flooded(m)' \/ Awaited(m)'
  <2>1. CASE m = LastOf(r.path_trace)
    BY <1>3, <1>4, <2>1
  <2>2. CASE m # LastOf(r.path_trace)
    <3> DEFINE q == Request(r.flood_id, Append(r.path_trace, n), m)
    <3>1. q \in requests'
      BY <1>4, <2>2 DEF Onward
    <3>2. /\ q.flood_id = last_id /\ q.to = m
          /\ q.path_trace = Append(r.path_trace, n)
          /\ r.path_trace \in Path /\ n \in Node
      BY <1>4, LinkBack DEF Request
    <3> HIDE DEF q
    <3> QED
      BY <1>1, <3>1, <3>2
  <2> QED
    BY <2>1, <2>2
<1>5. ASSUME NEW r \in requests, n \in Drone, r.to = n, r.flood_id = last_id,
             Onward(r, n) = {}
      PROVE  /\ Told(n, m)'
             /\ m \in Drone => Flooded(m)' \/ Awaited(m)'
  <2>1. m = LastOf(r.path_trace)
    BY <1>5 DEF Onward
  <2> QED
    BY <1>3, <1>5, <2>1
<1> QED
  BY <1>2, <1>4, <1>5 DEF Sends

LEMMA SpreadingNext ==
  ASSUME TypeOK, TypeOK', RecentInv, existed = links, PassedOn, Spreading,
         UNCHANGED <<last_id, links>>, FloodStep
  PROVE  Spreading'
<1>1. \A n : NeighboursOf(n)' = NeighboursOf(n)
  BY DEF NeighboursOf
<1>2. ASSUME NEW d \in Drone, Awaited(d)
      PROVE  Flooded(d)' \/ Awaited(d)'
  <2>1. PICK r \in requests : r.flood_id = last_id /\ r.to = d
    BY <1>2 DEF Awaited
  <2>2. CASE r \in requests'
    BY <2>1, <2>2 DEF Awaited
  <2>3. CASE r \notin requests'
    <3>1. PICK e \in Drone : DroneForwards(e) \/ DroneAnswers(e)
      BY <2>1, <2>3, DiscoveryAssumption DEF DiscoveryAssumption, FloodStep,
         SendRequest, ReceiveResponse, HostAnswers
    <3>2. e = d /\ seen' = [seen EXCEPT ![e] = @ \cup {last_id}]
      BY <2>1, <2>3, <3>1 DEF DroneForwards, DroneAnswers
    <3> QED
      BY <3>2, TypeParts DEF PlainTypes, Flooded
  <2> QED
    BY <2>2, <2>3
<1>3. ASSUME NEW n \in Drone \cup {Self}, Flooded(n)', NEW m \in NeighboursOf(n)
      PROVE  /\ Told(n, m)'
             /\ m \in Drone => Flooded(m)' \/ Awaited(m)'
  <2>1. CASE Flooded(n)
    <3>1. Told(n, m) /\ (m \in Drone => Flooded(m) \/ Awaited(m))
      BY <1>3, <2>1 DEF Spreading
    <3> QED
      BY <1>2, <3>1, ToldStays, FloodedStays
  <2>2. CASE ~Flooded(n)
    BY <1>3, <2>2, NewlyFlooded, SendsSpread
  <2> QED
    BY <2>1, <2>2
<1> QED
  BY <1>1, <1>3 DEF Spreading

\* The requests and answers of the latest flood that a step makes.
LEMMA NewRequest ==
  ASSUME TypeOK, FloodStep, UNCHANGED last_id,
         NEW q \in requests' \ requests, q.flood_id = last_id
  PROVE  \/ /\ SendRequest /\ Head(outbox) = last_id
            /\ q.path_trace = <<Self>> /\ q.to \in NeighboursOf(Self)
         \/ \E r \in requests :
              /\ r.to \in Drone /\ DroneForwards(r.to) /\ r.flood_id = last_id
              /\ seen' = [seen EXCEPT ![r.to] = @ \cup {last_id}]
              /\ q.path_trace = Append(r.path_trace, r.to)
              /\ q.to \in NeighboursOf(r.to)
<1>1. CASE SendRequest
  BY <1>1 DEF SendRequest, Request
<1>2. ASSUME NEW d \in Drone, DroneForwards(d)
      PROVE  \E r \in requests :
               /\ r.to \in Drone /\ DroneForwards(r.to) /\ r.flood_id = last_id
               /\ seen' = [seen EXCEPT ![r.to] = @ \cup {last_id}]
               /\ q.path_trace = Append(r.path_trace, r.to)
               /\ q.to \in NeighboursOf(r.to)
  <2>1. PICK r \in requests :
          /\ r.to = d
          /\ requests' = (requests \ {r}) \cup
               {Request(r.flood_id, Append(r.path_trace, d), n) : n \in Onward(r, d)}
          /\ seen' = [seen EXCEPT ![d] = @ \cup {r.flood_id}]
    BY <1>2 DEF DroneForwards
  <2>2. PICK n \in Onward(r, d) : q = Request(r.flood_id, Append(r.path_trace, d), n)
    BY <2>1
  <2>3. /\ r.flood_id = last_id /\ q.path_trace = Append(r.path_trace, d)
        /\ q.to \in NeighboursOf(d)
    BY <2>2 DEF Request, Onward
  <2> QED
    BY <1>2, <2>1, <2>3
<1>3. \/ SendRequest \/ \E d \in Drone : DroneForwards(d)
  BY DEF FloodStep, ReceiveResponse, HostAnswers, DroneAnswers
<1> QED
  BY <1>1, <1>2, <1>3

LEMMA NewAnswer ==
  ASSUME TypeOK, FloodStep, NEW q \in replies' \ replies
  PROVE  \E r \in requests :
           q = Reply(r.flood_id, Append(r.path_trace, r.to))
BY DEF FloodStep, SendRequest, ReceiveResponse, HostAnswers, DroneForwards,
   DroneAnswers, Answer

LEMMA PassedOnNext ==
  ASSUME TypeOK, TypeOK', RecentInv, existed = links, PassedOn,
         UNCHANGED <<last_id, links>>, FloodStep
  PROVE  PassedOn'
<1>1. ASSUME NEW n \in Drone, last_id \in seen[n]
      PROVE  last_id \in seen'[n]
  BY <1>1, FloodedStays, DiscoveryAssumption DEF Flooded, DiscoveryAssumption
<1>2. ASSUME NEW q \in requests', q.flood_id = last_id
      PROVE  \/ LastOf(q.path_trace) = Self
             \/ /\ LastOf(q.path_trace) \in Drone
                /\ last_id \in seen'[LastOf(q.path_trace)]
  <2>1. CASE q \in requests
    BY <1>1, <1>2, <2>1 DEF PassedOn
  <2>2. CASE q.path_trace = <<Self>>
    BY <2>2 DEF LastOf
  <2>3. ASSUME NEW r \in requests, r.to \in Drone, r.flood_id = last_id,
               seen' = [seen EXCEPT ![r.to] = @ \cup {last_id}],
               q.path_trace = Append(r.path_trace, r.to)
        PROVE  /\ LastOf(q.path_trace) \in Drone
               /\ last_id \in seen'[LastOf(q.path_trace)]
    <3>1. LastOf(q.path_trace) = r.to
      BY <2>3, LinkBack, AppendType DEF LastOf, Path
    <3> QED
      BY <2>3, <3>1, TypeParts DEF PlainTypes
  <2> QED
    BY <1>2, <2>1, <2>2, <2>3, NewRequest
<1> QED
  BY <1>2 DEF PassedOn

\* The nodes of a path but the last one pass the flood on.
Forwarding(p) ==
  \A i \in 1 .. Len(p) - 1 : p[i] \in WithinReach(links) \cup {Self}

\* Each trail is one that there was, or one of those made one node longer.
LEMMA TrailOrigin ==
  ASSUME TypeOK, TypeOK', RecentInv, existed = links, UNCHANGED last_id, FloodStep,
         NEW p, Trail(p)'
  PROVE  \/ Trail(p)
         \/ \E n \in Node : p = Append(<<Self>>, n)
         \/ \E r \in requests : \E n :
              /\ r.to \in Drone /\ r.flood_id = last_id
              /\ p = Append(Append(r.path_trace, r.to), n)
<1>1. ASSUME NEW q \in requests', q.flood_id = last_id,
             p = Append(q.path_trace, q.to)
      PROVE  \/ Trail(p)
             \/ \E n \in Node : p = Append(<<Self>>, n)
             \/ \E r \in requests : \E n :
                  /\ r.to \in Drone /\ r.flood_id = last_id
                  /\ p = Append(Append(r.path_trace, r.to), n)
  <2>1. CASE q \in requests
    BY <1>1, <2>1 DEF Trail
  <2>2. CASE q.path_trace = <<Self>>
    <3>1. q.to \in Node
      BY <1>1 DEF TypeOK
    <3> QED
      BY <1>1, <2>2, <3>1
  <2> QED
    BY <1>1, <2>1, <2>2, NewRequest
<1>2. ASSUME NEW q \in replies', q.flood_id = last_id, p = q.path_trace
      PROVE  Trail(p)
  <2>1. CASE q \in replies
    BY <1>2, <2>1 DEF Trail
  <2>2. CASE q \notin replies
    <3>1. PICK r \in requests : q = Reply(r.flood_id, Append(r.path_trace, r.to))
      BY <2>2, NewAnswer
    <3>2. r.flood_id = last_id /\ p = Append(r.path_trace, r.to)
      BY <1>2, <3>1 DEF Reply
    <3> QED
      BY <3>2 DEF Trail
  <2> QED
    BY <2>1, <2>2
<1>3. ASSUME NEW i \in DOMAIN responses', p = responses'[i].path_trace
      PROVE  Trail(p)
  <2>1. CASE UNCHANGED responses
    BY <1>3, <2>1 DEF Trail
  <2>2. ASSUME NEW r \in replies, IsCurrent(r), responses' = Append(responses, r)
        PROVE  Trail(p)
    <3>1. /\ responses \in Seq([flood_id : Nat, path_trace : Path])
          /\ r \in [flood_id : Nat, path_trace : Path]
      BY TypeParts, StoredAsParsed DEF PacketTypes, PlainTypes
    <3>2. \/ responses'[i] = r
          \/ i \in DOMAIN responses /\ responses'[i] = responses[i]
      BY <1>3, <2>2, <3>1, AppendType
    <3> QED
      BY <1>3, <2>2, <3>2 DEF Trail, IsCurrent
  <2> QED
    BY <2>1, <2>2 DEF FloodStep, SendRequest, ReceiveResponse, HostAnswers,
       DroneForwards, DroneAnswers, hostVars
<1> QED
  BY <1>1, <1>2, <1>3 DEF Trail

LEMMA WithinTrailsNext ==
  ASSUME TypeOK, TypeOK', RecentInv, existed = links, WithinTrails,
         UNCHANGED <<last_id, links>>, FloodStep
  PROVE  WithinTrails'
<1>1. ASSUME NEW p \in Path, Trail(p)'
      PROVE  Forwarding(p)
  <2>1. CASE Trail(p)
    BY <2>1 DEF WithinTrails, Forwarding
  <2>2. ASSUME NEW n \in Node, p = Append(<<Self>>, n)
        PROVE  Forwarding(p)
    <3>1. Len(<<Self>>) = 1 /\ <<Self>>[1] = Self
      OBVIOUS
    <3>2. Len(p) = 2 /\ p[1] = Self
      BY <2>2, <3>1, NodeTypes, AppendType DEF Path
    <3> QED
      BY <3>2 DEF Forwarding
  <2>3. ASSUME NEW r \in requests, NEW n, r.to \in Drone, r.flood_id = last_id,
               p = Append(Append(r.path_trace, r.to), n)
        PROVE  Forwarding(p)
    <3> DEFINE path == r.path_trace
               long == Append(path, r.to)
    <3>1. /\ path \in Path /\ Len(path) > 0 /\ r.to \in Node
          /\ <<LastOf(path), r.to>> \in links
      BY <2>3, LinkBack DEF NeighboursOf
    <3>2. long \in Path /\ Trail(long)
      BY <2>3, <3>1, LongerPath DEF Trail
    <3>3. \A i \in 1 .. Len(long) - 1 : long[i] \in WithinReach(links) \cup {Self}
      BY <3>2 DEF WithinTrails
    <3>4. /\ Len(path) \in Nat /\ Len(long) = Len(path) + 1
          /\ long[Len(path)] = path[Len(path)] /\ long[Len(path) + 1] = r.to
      BY <3>1, AppendType DEF Path
    <3>5. LastOf(path) \in WithinReach(links) \cup {Self}
      <4>1. Len(path) \in 1 .. Len(long) - 1
        BY <3>1, <3>4
      <4> QED
        BY <3>3, <3>4, <4>1 DEF LastOf
    <3>6. r.to \in WithinReach(links)
      BY <2>3, <3>1, <3>5, ReachFacts DEF Spread
    <3>7. /\ Len(p) = Len(long) + 1
          /\ \A i \in 1 .. Len(long) : p[i] = long[i]
      <4> HIDE DEF long
      <4>1. p = Append(long, n) /\ long \in Seq(Node)
        BY <2>3, <3>2 DEF long, Path
      <4> QED
        BY <4>1
    <3>8. \A i \in 1 .. Len(p) - 1 :
            i \in 1 .. Len(long) /\ (i \in 1 .. Len(long) - 1 \/ i = Len(path) + 1)
      BY <3>4, <3>7
    <3> HIDE DEF long, path
    <3> QED
      BY <3>3, <3>4, <3>6, <3>7, <3>8 DEF Forwarding
  <2> QED
    BY <1>1, <2>1, <2>2, <2>3, TrailOrigin
<1>2. WithinReach(links)' = WithinReach(links)
  BY DEF WithinReach, Spread
<1> QED
  BY <1>1, <1>2 DEF WithinTrails, Forwarding

LEMMA DisturbanceNext ==
  ASSUME TypeOK, SeenInv, IdsInv, StillInv, [Next]_vars
  PROVE  SeenInv' /\ StillInv'
<1>1. PlainTypes /\ PacketTypes
  BY TypeParts
<1>2. last_id \in Nat /\ last_id' \in Nat /\ last_id <= last_id'
  BY <1>1, DiscoverySteps DEF PlainTypes
<1>3. \/ UNCHANGED seen
      \/ \E r \in requests, d \in Drone :
           seen' = [seen EXCEPT ![d] = @ \cup {r.flood_id}]
  BY DEF Next, vars, hostVars, TriggerDiscovery, SendRequest, ReceiveResponse,
     EndDiscovery, HostAnswers, DroneForwards, DroneAnswers, ChangeElsewhere,
     ChangeOwnLink
<1>4. \A r \in requests : r.flood_id \in Nat /\ r.flood_id <= last_id
  BY <1>1 DEF PacketTypes, IdsInv
<1>5. ASSUME NEW d \in Drone, NEW id \in seen'[d]
      PROVE  id <= last_id'
  <2>1. id \in Nat /\ id <= last_id
    <3>1. CASE id \in seen[d]
      BY <1>1, <3>1 DEF PlainTypes, SeenInv
    <3>2. CASE id \notin seen[d]
      BY <1>1, <1>3, <1>4, <1>5, <3>2 DEF PlainTypes
    <3> QED
      BY <3>1, <3>2
  <2> QED
    BY <1>2, <2>1
<1>6. \/ UNCHANGED <<still, existed, links>> \/ existed' = links' \/ still' = FALSE
  BY DEF Next, vars, hostVars, TriggerDiscovery, Trigger, SendRequest,
     ReceiveResponse, EndDiscovery, HostAnswers, DroneForwards, DroneAnswers,
     ChangeElsewhere, ChangeOwnLink
<1> QED
  BY <1>5, <1>6 DEF SeenInv, StillInv

\* A flood that has just been drawn is nowhere yet.
LEMMA FreshFlood ==
  ASSUME TypeOK, TypeOK', IdsInv, SeenInv, last_id' = last_id + 1,
         outbox' = Append(outbox, last_id'), responses' = <<>>,
         UNCHANGED <<requests, replies, seen>>
  PROVE  PassedOn' /\ Spreading' /\ WithinTrails'
<1>1. /\ PlainTypes /\ PacketTypes /\ last_id \in Nat
      /\ \A r \in requests \cup replies : r.flood_id \in Nat
  BY TypeParts DEF PlainTypes, PacketTypes
<1>2. \A r \in requests \cup replies : r.flood_id # last_id'
  BY <1>1 DEF IdsInv
<1>3. \A p : ~Trail(p)'
  BY <1>2 DEF Trail
<1>4. \A n : ~Flooded(n)'
  <2>1. \A d \in Drone : last_id' \notin seen'[d]
    BY <1>1 DEF PlainTypes, SeenInv
  <2>2. \E i \in DOMAIN outbox' : outbox'[i] = last_id'
    <3>1. last_id' \in Nat /\ outbox \in Seq(Nat)
      BY <1>1 DEF PlainTypes
    <3>2. /\ DOMAIN Append(outbox, last_id') = 1 .. Len(outbox) + 1
          /\ Append(outbox, last_id')[Len(outbox) + 1] = last_id'
          /\ Len(outbox) \in Nat
      BY <3>1, AppendType
    <3> QED
      BY <3>2
  <2> QED
    BY <2>1, <2>2 DEF Flooded
<1> QED
  BY <1>2, <1>3, <1>4 DEF PassedOn, Spreading, WithinTrails

LEMMA FloodNext ==
  ASSUME TypeOK, TypeOK', RecentInv, FloodInv, [Next]_vars
  PROVE  (ongoing /\ still => PassedOn /\ Spreading /\ WithinTrails)'
<1>1. SUFFICES ASSUME ongoing', still'
               PROVE  PassedOn' /\ Spreading' /\ WithinTrails'
  OBVIOUS
<1>2. CASE /\ last_id' = last_id + 1 /\ outbox' = Append(outbox, last_id')
           /\ responses' = <<>> /\ UNCHANGED <<requests, replies, seen>>
  BY <1>2, FreshFlood DEF RecentInv, FloodInv
<1>3. CASE /\ ongoing /\ still /\ UNCHANGED <<last_id, links, existed>>
           /\ FloodStep
  <2>1. existed = links /\ PassedOn /\ Spreading /\ WithinTrails
    BY <1>3 DEF FloodInv, StillInv
  <2> QED
    BY <1>3, <2>1, PassedOnNext, SpreadingNext, WithinTrailsNext
<1> QED
  BY <1>1, <1>2, <1>3, QuietSteps

\* A flood of which nothing is under way has got to all drones within reach.
LEMMA FloodSpent ==
  ASSUME RecentInv, Spreading, NothingUnderWay
  PROVE  \A n \in WithinReach(links) \cup {Self} : Flooded(n)
<1> DEFINE S == {d \in Drone : Flooded(d)}
<1>1. Flooded(Self)
  <2>1. outbox = <<>>
    BY DEF NothingUnderWay
  <2>2. DOMAIN outbox = {}
    BY <2>1
  <2> QED
    BY <2>2 DEF Flooded
<1>2. \A d : ~Awaited(d)
  BY DEF Awaited, NothingUnderWay
<1>3. Spread(links, S)
  <2> SUFFICES ASSUME NEW n \in S \cup {Self}, NEW d \in Drone, <<n, d>> \in links
               PROVE  d \in S
    BY DEF Spread
  <2>1. n \in Drone \cup {Self} /\ Flooded(n)
    BY <1>1
  <2>2. d \in NeighboursOf(n)
    BY DEF NeighboursOf, Node
  <2>3. Flooded(d) \/ Awaited(d)
    BY <2>1, <2>2 DEF Spreading
  <2> QED
    BY <1>2, <2>3
<1>4. S \subseteq Drone
  OBVIOUS
<1>5. WithinReach(links) \subseteq S
  <2> HIDE DEF S
  <2> QED
    BY <1>3, <1>4, ReachFacts
<1> QED
  BY <1>1, <1>5

\* What is told of it is in the topology, and what the topology has was told.
LEMMA ParsedIsTold ==
  ASSUME TypeOK, NothingUnderWay, NEW a, NEW b
  PROVE  <<a, b>> \in ParseNetwork(responses) <=> Told(a, b)
<1>1. \A p : Trail(p) <=> \E i \in DOMAIN responses : p = responses[i].path_trace
  BY DEF Trail, NothingUnderWay
<1>2. <<a, b>> \in ParseNetwork(responses)
        <=> \E i \in DOMAIN responses : <<a, b>> \in LinksOf(responses[i].path_trace)
  BY DEF ParseNetwork
<1> QED
  BY <1>1, <1>2, TrailType DEF Told

LEMMA ToldBothWays ==
  ASSUME NEW a, NEW b, Told(a, b)
  PROVE  Told(b, a)
<1>1. PICK p \in Path : Trail(p) /\ <<a, b>> \in LinksOf(p)
  BY DEF Told
<1>2. <<b, a>> \in LinksOf(p)
  BY <1>1 DEF LinksOf, Both
<1> QED
  BY <1>1, <1>2 DEF Told

\* The nodes that pass a flood on, and the links that it finds.
Found(pairs) ==
  {l \in pairs : \/ l[1] \in WithinReach(pairs) \cup {Self}
                 \/ l[2] \in WithinReach(pairs) \cup {Self}}

LEMMA ParsedIsFound ==
  ASSUME TypeOK, RecentInv, existed = links, Spreading, WithinTrails,
         NothingUnderWay
  PROVE  ParseNetwork(responses) = Found(links)
<1>1. links \subseteq Node \X Node /\ Symmetric(links)
  BY TypeParts DEF LinkTypes, RecentInv, LinksInv
<1>2. ASSUME NEW a \in Node, NEW b \in Node, <<a, b>> \in links,
             a \in WithinReach(links) \cup {Self}
      PROVE  Told(a, b)
  <2>1. Flooded(a) /\ a \in Drone \cup {Self} /\ b \in NeighboursOf(a)
    BY <1>2, FloodSpent, ReachFacts DEF NeighboursOf
  <2> QED
    BY <2>1 DEF Spreading
<1>3. ASSUME NEW l \in Found(links)
      PROVE  l \in ParseNetwork(responses)
  <2>1. PICK a \in Node, b \in Node : l = <<a, b>>
    BY <1>1, <1>3 DEF Found
  <2>2. <<a, b>> \in links /\ <<b, a>> \in links
    BY <1>1, <1>3, <2>1 DEF Found, Symmetric
  <2>3. \/ a \in WithinReach(links) \cup {Self}
        \/ b \in WithinReach(links) \cup {Self}
    BY <1>3, <2>1 DEF Found
  <2>4. Told(a, b)
    BY <1>2, <2>2, <2>3, ToldBothWays
  <2> QED
    BY <2>1, <2>4, ParsedIsTold
<1>4. ASSUME NEW l \in ParseNetwork(responses)
      PROVE  l \in Found(links)
  <2>1. l \in links
    BY <1>4, ParsedIsKnown DEF RecentInv
  <2>2. PICK a \in Node, b \in Node : l = <<a, b>>
    BY <1>1, <2>1
  <2>3. PICK p \in Path : Trail(p) /\ <<a, b>> \in LinksOf(p)
    BY <1>4, <2>2, ParsedIsTold DEF Told
  <2>4. PICK i \in 1 .. Len(p) - 1 : <<a, b>> \in Both(p[i], p[i + 1])
    BY <2>3 DEF LinksOf
  <2>5. p[i] \in WithinReach(links) \cup {Self}
    BY <2>3 DEF WithinTrails
  <2>6. a = p[i] \/ b = p[i]
    BY <2>4 DEF Both
  <2> QED
    BY <2>1, <2>2, <2>5, <2>6 DEF Found
<1> QED
  BY <1>3, <1>4

LEMMA CompleteNext ==
  ASSUME TypeOK, RecentInv, FloodInv, [Next]_vars
  PROVE  CompleteWhenSettled'
<1>1. \/ UNCHANGED <<network_topology, allowed, settled>>
      \/ /\ ongoing /\ network_topology' = ParseNetwork(responses)
         /\ allowed' = existed /\ settled' = (NothingUnderWay /\ still)
  BY DEF Next, vars, hostVars, TriggerDiscovery, SendRequest, ReceiveResponse,
     EndDiscovery, HostAnswers, DroneForwards, DroneAnswers, ChangeElsewhere,
     ChangeOwnLink
<1>2. CASE UNCHANGED <<network_topology, allowed, settled>>
  BY <1>2 DEF FloodInv, CompleteWhenSettled, Discoverable, WithinReach, Spread
<1>3. CASE /\ ongoing /\ network_topology' = ParseNetwork(responses)
           /\ allowed' = existed /\ settled' = (NothingUnderWay /\ still)
  <2>1. SUFFICES ASSUME NothingUnderWay, still
                 PROVE  network_topology' = Discoverable'
    BY <1>3 DEF CompleteWhenSettled
  <2>2. existed = links /\ Spreading /\ WithinTrails
    BY <1>3, <2>1 DEF FloodInv, StillInv
  <2>3. network_topology' = Found(links) /\ allowed' = links
    BY <1>3, <2>1, <2>2, ParsedIsFound
  <2> QED
    BY <2>3 DEF Discoverable, Found, WithinReach, Spread
<1> QED
  BY <1>1, <1>2, <1>3

\* When nothing was lost, late or changed while a discovery lasted, the
\* topology it leaves has every link that a flood can find, and no other.
THEOREM SettledIsComplete == Spec => []CompleteWhenSettled
<1>1. Init => RecentInv /\ FloodInv
  BY DiscoveryAssumption DEF DiscoveryAssumption, Init, RecentInv, LinksInv,
     Symmetric, IdsInv, TracesInv, TopologyIsRecent, FloodInv, SeenInv, StillInv,
     CompleteWhenSettled
<1>2. TypeOK /\ TypeOK' /\ RecentInv /\ FloodInv /\ [Next]_vars
        => RecentInv' /\ FloodInv'
  <2> SUFFICES ASSUME TypeOK, TypeOK', RecentInv, FloodInv, [Next]_vars
               PROVE  RecentInv' /\ FloodInv'
    OBVIOUS
  <2>1. RecentInv'
    BY LinksNext, IdsNext, TracesNext, TopologyNext DEF RecentInv
  <2>2. SeenInv' /\ StillInv'
    BY DisturbanceNext DEF RecentInv, FloodInv
  <2>3. (ongoing /\ still => PassedOn /\ Spreading /\ WithinTrails)'
    BY FloodNext
  <2>4. CompleteWhenSettled'
    BY CompleteNext
  <2> QED
    BY <2>1, <2>2, <2>3, <2>4 DEF FloodInv
<1>3. FloodInv => CompleteWhenSettled
  BY DEF FloodInv
<1> QED
  BY <1>1, <1>2, <1>3, TypeCorrect, PTL DEF Spec

-----------------------------------------------------------------------------
(* Loops *)

\* The library's fact about <, as a set of pairs.
LEMMA LessWellFounded == IsWellFoundedOn({p \in Nat \X Nat : p[1] < p[2]}, Nat)
<1>1. {p \in Nat \X Nat : p[1] < p[2]} = OpToRel(<, Nat)
  BY DEF OpToRel
<1> QED
  BY <1>1, NatLessThanWellFounded

\* Induction, for a set and not for a predicate.
LEMMA AllNat ==
  ASSUME NEW T \in SUBSET Nat, 0 \in T, \A n \in T : n + 1 \in T
  PROVE  T = Nat
<1> DEFINE Less == {p \in Nat \X Nat : p[1] < p[2]}
           Rest == Nat \ T
<1>1. SUFFICES ASSUME Rest # {}
               PROVE  FALSE
  OBVIOUS
<1>2. IsWellFoundedOn(Less, Nat)
  BY LessWellFounded
<1>3. Rest \subseteq Nat
  OBVIOUS
<1>4. PICK n \in Rest : \A m \in Rest : ~(<<m, n>> \in Less)
  <2> HIDE DEF Less, Rest
  <2> QED
    BY <1>1, <1>2, <1>3, WFMin
<1>5. n \in Nat /\ n # 0
  BY <1>4
<1>6. n - 1 \in Nat /\ n - 1 < n /\ (n - 1) + 1 = n
  BY <1>5
<1>7. n - 1 \in T
  BY <1>4, <1>5, <1>6
<1> QED
  BY <1>4, <1>6, <1>7

\* A loop of n rounds, of which round i does step[i], and what S holds after
\* each of them.
IsBody(step, n, S) == step \in [1 .. n -> [S -> S]]

IsLoop(f, step, n, first, S) ==
  /\ f \in [0 .. n -> S] /\ f[0] = first
  /\ \A i \in 1 .. n : f[i] = step[i][f[i - 1]]

\* Such a loop has values, each of them in S.
LEMMA LoopExists ==
  ASSUME NEW S, NEW n \in Nat, NEW step, IsBody(step, n, S), NEW first \in S
  PROVE  \E f : IsLoop(f, step, n, first, S)
<1> USE DEF IsBody
<1> DEFINE Goes(f, m) ==
             f[0] = first /\ \A i \in 1 .. m : f[i] = step[i][f[i - 1]]
           T == {m \in Nat : m <= n => \E f \in [0 .. m -> S] : Goes(f, m)}
<1>1. 0 \in T
  <2>1. [i \in 0 .. 0 |-> first] \in [0 .. 0 -> S]
    OBVIOUS
  <2>2. Goes([i \in 0 .. 0 |-> first], 0)
    OBVIOUS
  <2> QED
    BY <2>1, <2>2
<1>2. ASSUME NEW m \in T
      PROVE  m + 1 \in T
  <2>1. SUFFICES ASSUME m + 1 <= n
                 PROVE  \E f \in [0 .. m + 1 -> S] : Goes(f, m + 1)
    <3>1. m + 1 \in Nat
      OBVIOUS
    <3> HIDE DEF Goes
    <3> QED
      BY <3>1
  <2>2. PICK f \in [0 .. m -> S] : Goes(f, m)
    BY <2>1
  <2>6. m \in Nat
    OBVIOUS
  <2> DEFINE next == step[m + 1][f[m]]
             g == [i \in 0 .. m + 1 |-> IF i = m + 1 THEN next ELSE f[i]]
  <2>3. next \in S
    <3>1. m + 1 \in 1 .. n /\ m \in 0 .. m
      BY <2>1
    <3> QED
      BY <2>2, <3>1
  <2>4. g \in [0 .. m + 1 -> S]
    <3>1. \A i \in 0 .. m + 1 : i # m + 1 => i \in 0 .. m
      BY <2>6
    <3> HIDE DEF next
    <3> QED
      BY <2>2, <2>3, <3>1
  <2>5. Goes(g, m + 1)
    <3>1. g[0] = first
      BY <2>2
    <3>2. ASSUME NEW i \in 1 .. m + 1
          PROVE  g[i] = step[i][g[i - 1]]
      <4>1. i \in 0 .. m + 1 /\ i - 1 \in 0 .. m + 1 /\ i - 1 # m + 1
        OBVIOUS
      <4>2. g[i - 1] = f[i - 1]
        BY <4>1
      <4>3. CASE i = m + 1
        BY <4>1, <4>2, <4>3
      <4>4. CASE i # m + 1
        <5>1. i \in 1 .. m
          BY <4>4
        <5> QED
          BY <2>2, <4>1, <4>2, <4>4, <5>1
      <4> QED
        BY <4>3, <4>4
    <3> QED
      BY <3>1, <3>2
  <2> QED
    BY <2>4, <2>5
<1>3. T = Nat
  <2> HIDE DEF T
  <2>1. T \subseteq Nat
    BY DEF T
  <2> QED
    BY <1>1, <1>2, <2>1, AllNat
<1>4. \E f \in [0 .. n -> S] : Goes(f, n)
  BY <1>3
<1> QED
  BY <1>4 DEF IsLoop

\* What holds before a loop and is kept by its rounds holds after each.
LEMMA AllRounds ==
  ASSUME NEW n \in Nat, NEW T, 0 \in T, \A i \in 1 .. n : i - 1 \in T => i \in T
  PROVE  0 .. n \subseteq T
<1> DEFINE U == {m \in Nat : m <= n => m \in T}
<1>1. 0 \in U /\ U \subseteq Nat
  OBVIOUS
<1>2. ASSUME NEW m \in U
      PROVE  m + 1 \in U
  <2>1. CASE m + 1 <= n
    <3>1. m \in T /\ m + 1 \in 1 .. n /\ (m + 1) - 1 = m
      BY <2>1
    <3> QED
      BY <3>1
  <2> QED
    BY <2>1
<1>3. U = Nat
  <2> HIDE DEF U
  <2> QED
    BY <1>1, <1>2, AllNat
<1> QED
  BY <1>3

-----------------------------------------------------------------------------
(* The lists are the topology *)

\* Lists of nodes, none of them twice in a list.
Lists == {l \in [Node -> Seq(Node)] : \A n \in Node : IsInjective(l[n])}

\* A list without repetitions that gets a new node.
LEMMA InjectiveAppend ==
  ASSUME NEW s \in Seq(Node), IsInjective(s), NEW e \in Node, e \notin ToSet(s)
  PROVE  /\ Append(s, e) \in Seq(Node) /\ IsInjective(Append(s, e))
         /\ ToSet(Append(s, e)) = ToSet(s) \cup {e}
<1> DEFINE t == Append(s, e)
<1>1. /\ t \in Seq(Node) /\ Len(t) = Len(s) + 1 /\ Len(s) \in Nat
      /\ DOMAIN t = 1 .. Len(s) + 1 /\ DOMAIN s = 1 .. Len(s)
      /\ \A i \in 1 .. Len(s) : t[i] = s[i]
      /\ t[Len(s) + 1] = e
  BY AppendType
<1> HIDE DEF t
<1>2. \A i \in 1 .. Len(s) : t[i] # e
  BY <1>1 DEF ToSet
<1>3. \A i \in 1 .. Len(s) + 1 : i = Len(s) + 1 \/ i \in 1 .. Len(s)
  BY <1>1
<1>4. IsInjective(t)
  BY <1>1, <1>2, <1>3 DEF IsInjective
<1>5. ToSet(t) = ToSet(s) \cup {e}
  BY <1>1, <1>3 DEF ToSet
<1> QED
  BY <1>1, <1>4, <1>5 DEF t

\* insert_hop adds one pair and repeats none.
LEMMA InsertHopFacts ==
  ASSUME NEW config \in Lists, NEW node \in Node, NEW hop \in Node
  PROVE  /\ InsertHop(config, node, hop) \in Lists
         /\ PairsOf(InsertHop(config, node, hop)) = PairsOf(config) \cup {<<node, hop>>}
<1> DEFINE list == IF hop \in ToSet(config[node]) THEN config[node]
                   ELSE Append(config[node], hop)
           new == [config EXCEPT ![node] = list]
<1>1. /\ config \in [Node -> Seq(Node)]
      /\ \A n \in Node : config[n] \in Seq(Node) /\ IsInjective(config[n])
  BY DEF Lists
<1>2. /\ list \in Seq(Node) /\ IsInjective(list)
      /\ ToSet(list) = ToSet(config[node]) \cup {hop}
  <2>1. CASE hop \in ToSet(config[node])
    BY <1>1, <2>1
  <2>2. CASE hop \notin ToSet(config[node])
    BY <1>1, <2>2, InjectiveAppend
  <2> QED
    BY <2>1, <2>2
<1> HIDE DEF list
<1>3. /\ new \in [Node -> Seq(Node)]
      /\ \A n \in Node : new[n] = IF n = node THEN list ELSE config[n]
  BY <1>1, <1>2
<1>4. InsertHop(config, node, hop) = new
  BY DEF InsertHop, list
<1> HIDE DEF new
<1>5. new \in Lists
  BY <1>1, <1>2, <1>3 DEF Lists
<1>6. \A a, b \in Node : b \in ToSet(new[a])
        <=> b \in ToSet(config[a]) \/ (a = node /\ b = hop)
  BY <1>2, <1>3
<1>7. PairsOf(new) = PairsOf(config) \cup {<<node, hop>>}
  BY <1>6 DEF PairsOf
<1> QED
  BY <1>4, <1>5, <1>7

\* The pairs of an element of a path and those next to it.
Around(path, i) == {<<path[i], path[j]>> : j \in {i - 1, i + 1} \cap 1 .. Len(path)}

\* One round of the loop over a path trace.
LEMMA InsertHopsFacts ==
  ASSUME NEW config \in Lists, NEW path \in Path, NEW i \in 1 .. Len(path)
  PROVE  /\ InsertHops(config, path, i) \in Lists
         /\ PairsOf(InsertHops(config, path, i)) = PairsOf(config) \cup Around(path, i)
<1>1. /\ Len(path) \in Nat /\ i \in Nat
      /\ \A j \in 1 .. Len(path) : path[j] \in Node
  BY DEF Path
<1> DEFINE forth == IF i < Len(path) THEN InsertHop(config, path[i], path[i + 1])
                    ELSE config
           next == IF i < Len(path) THEN {<<path[i], path[i + 1]>>} ELSE {}
           prev == IF i > 1 THEN {<<path[i], path[i - 1]>>} ELSE {}
<1>2. forth \in Lists /\ PairsOf(forth) = PairsOf(config) \cup next
  <2>1. CASE i < Len(path)
    <3>1. i + 1 \in 1 .. Len(path)
      BY <1>1, <2>1
    <3> QED
      BY <1>1, <2>1, <3>1, InsertHopFacts
  <2> QED
    BY <2>1
<1> HIDE DEF forth
<1>3. /\ InsertHops(config, path, i) \in Lists
      /\ PairsOf(InsertHops(config, path, i)) = PairsOf(forth) \cup prev
  <2>1. InsertHops(config, path, i)
          = IF i > 1 THEN InsertHop(forth, path[i], path[i - 1]) ELSE forth
    BY DEF InsertHops, forth
  <2>2. CASE i > 1
    <3>1. i - 1 \in 1 .. Len(path)
      BY <1>1, <2>2
    <3> QED
      BY <1>1, <1>2, <2>1, <2>2, <3>1, InsertHopFacts
  <2> QED
    BY <1>2, <2>1, <2>2
<1>4. Around(path, i) = next \cup prev
  <2>1. i + 1 \in 1 .. Len(path) <=> i < Len(path)
    BY <1>1
  <2>2. i - 1 \in 1 .. Len(path) <=> i > 1
    BY <1>1
  <2> QED
    BY <2>1, <2>2 DEF Around
<1> QED
  BY <1>2, <1>3, <1>4

\* What the pairs around all elements are.
LEMMA AroundAll ==
  ASSUME NEW path \in Path
  PROVE  UNION {Around(path, i) : i \in 1 .. Len(path)} = LinksOf(path)
<1>1. Len(path) \in Nat
  BY DEF Path
<1>2. ASSUME NEW i \in 1 .. Len(path), NEW l \in Around(path, i)
      PROVE  l \in LinksOf(path)
  <2>1. PICK j \in {i - 1, i + 1} \cap 1 .. Len(path) : l = <<path[i], path[j]>>
    BY <1>2 DEF Around
  <2>2. CASE j = i + 1
    <3>1. i \in 1 .. Len(path) - 1
      BY <1>1, <2>2
    <3>2. l \in Both(path[i], path[i + 1])
      BY <2>1, <2>2 DEF Both
    <3> QED
      BY <3>1, <3>2 DEF LinksOf
  <2>3. CASE j = i - 1
    <3>1. j \in 1 .. Len(path) - 1 /\ j + 1 = i
      BY <1>1, <2>3
    <3>2. l \in Both(path[j], path[j + 1])
      BY <2>1, <3>1 DEF Both
    <3> QED
      BY <3>1, <3>2 DEF LinksOf
  <2> QED
    BY <2>1, <2>2, <2>3
<1>3. ASSUME NEW l \in LinksOf(path)
      PROVE  \E i \in 1 .. Len(path) : l \in Around(path, i)
  <2>1. PICK i \in 1 .. Len(path) - 1 : l \in Both(path[i], path[i + 1])
    BY <1>3 DEF LinksOf
  <2>2. /\ i \in 1 .. Len(path) /\ i + 1 \in 1 .. Len(path)
        /\ i \in {(i + 1) - 1, (i + 1) + 1}
    BY <1>1, <2>1
  <2>3. <<path[i], path[i + 1]>> \in Around(path, i)
    BY <2>2 DEF Around
  <2>4. <<path[i + 1], path[i]>> \in Around(path, i + 1)
    BY <2>2 DEF Around
  <2> QED
    BY <2>1, <2>2, <2>3, <2>4 DEF Both
<1> QED
  BY <1>2, <1>3

\* The lists after each element of a path trace.
LEMMA InsertPathLoop ==
  ASSUME NEW config \in Lists, NEW path \in Path
  PROVE  \E f : /\ f[0] = config
                /\ \A i \in 1 .. Len(path) : f[i] = InsertHops(f[i - 1], path, i)
                /\ InsertPath(config, path) = f[Len(path)]
<1> DEFINE n == Len(path)
           Looped(f) == f = [i \in 0 .. n |-> IF i = 0 THEN config
                                              ELSE InsertHops(f[i - 1], path, i)]
           step == [i \in 1 .. n |-> [c \in Lists |-> InsertHops(c, path, i)]]
           after == CHOOSE f : Looped(f)
<1>1. n \in Nat
  BY DEF Path
<1>2. IsBody(step, n, Lists)
  BY InsertHopsFacts DEF IsBody
<1>3. \E f : Looped(f)
  <2> HIDE DEF step, n
  <2>1. PICK f : IsLoop(f, step, n, config, Lists)
    BY <1>1, <1>2, LoopExists
  <2>2. ASSUME NEW i \in 1 .. n
        PROVE  f[i] = InsertHops(f[i - 1], path, i)
    <3>1. i - 1 \in 0 .. n
      BY <1>1
    <3>2. f[i - 1] \in Lists
      BY <2>1, <3>1 DEF IsLoop
    <3> QED
      BY <2>1, <3>2 DEF step, IsLoop
  <2>3. \A i \in 0 .. n : i = 0 \/ i \in 1 .. n
    BY <1>1
  <2>4. Looped(f)
    BY <2>1, <2>2, <2>3 DEF IsLoop
  <2> QED
    BY <2>4
<1>4. Looped(after)
  <2> HIDE DEF Looped
  <2> QED
    BY <1>3
<1>5. InsertPath(config, path) = after[n]
  BY DEF InsertPath
<1>6. /\ 0 \in 0 .. n /\ \A i \in 1 .. n : i \in 0 .. n /\ i # 0
  BY <1>1
<1> HIDE DEF after, n
<1>7. after[0] = config /\ \A i \in 1 .. n : after[i] = InsertHops(after[i - 1], path, i)
  BY <1>4, <1>6
<1> QED
  BY <1>5, <1>7 DEF n

\* A path trace adds the links it tells of.
LEMMA InsertPathFacts ==
  ASSUME NEW config \in Lists, NEW path \in Path
  PROVE  /\ InsertPath(config, path) \in Lists
         /\ PairsOf(InsertPath(config, path)) = PairsOf(config) \cup LinksOf(path)
<1>1. PICK f : /\ f[0] = config
               /\ \A i \in 1 .. Len(path) : f[i] = InsertHops(f[i - 1], path, i)
               /\ InsertPath(config, path) = f[Len(path)]
  BY InsertPathLoop
<1> DEFINE SoFar(i) == UNION {Around(path, j) : j \in 1 .. i}
           T == {i \in 0 .. Len(path) :
                   f[i] \in Lists /\ PairsOf(f[i]) = PairsOf(config) \cup SoFar(i)}
<1>2. Len(path) \in Nat
  BY DEF Path
<1>3. 0 \in T
  <2>1. SoFar(0) = {}
    OBVIOUS
  <2> QED
    BY <1>1, <1>2, <2>1
<1>4. ASSUME NEW i \in 1 .. Len(path), i - 1 \in T
      PROVE  i \in T
  <2>1. f[i] \in Lists /\ PairsOf(f[i]) = PairsOf(f[i - 1]) \cup Around(path, i)
    BY <1>1, <1>4, InsertHopsFacts
  <2>2. \A j : j \in 1 .. i <=> j \in 1 .. i - 1 \/ j = i
    BY <1>2
  <2>3. SoFar(i) = SoFar(i - 1) \cup Around(path, i)
    BY <2>2
  <2>4. i \in 0 .. Len(path)
    BY <1>2
  <2> HIDE DEF SoFar
  <2> QED
    BY <1>4, <2>1, <2>3, <2>4
<1>5. Len(path) \in T
  <2> HIDE DEF T
  <2>1. 0 .. Len(path) \subseteq T
    BY <1>2, <1>3, <1>4, AllRounds
  <2> QED
    BY <1>2, <2>1
<1> QED
  BY <1>1, <1>5, AroundAll

\* The lists after each response.
LEMMA AdjacencyLoop ==
  ASSUME NEW rs \in Seq([flood_id : Nat, path_trace : Path])
  PROVE  \E f : /\ f[0] = [n \in Node |-> <<>>]
                /\ \A k \in 1 .. Len(rs) :
                     f[k] = InsertPath(f[k - 1], rs[k].path_trace)
                /\ AdjacencyLists(rs) = f[Len(rs)]
<1> DEFINE n == Len(rs)
           none == [m \in Node |-> <<>>]
           Looped(f) == f = [k \in 0 .. n |-> IF k = 0 THEN none
                               ELSE InsertPath(f[k - 1], rs[k].path_trace)]
           step == [k \in 1 .. n |->
                      [c \in Lists |-> InsertPath(c, rs[k].path_trace)]]
           after == CHOOSE f : Looped(f)
<1>1. n \in Nat
  OBVIOUS
<1>2. IsBody(step, n, Lists)
  <2>1. ASSUME NEW k \in 1 .. n
        PROVE  rs[k].path_trace \in Path
    <3>1. k \in DOMAIN rs
      BY <2>1
    <3>2. rs[k] \in [flood_id : Nat, path_trace : Path]
      BY <3>1, ElementType
    <3> QED
      BY <3>2
  <2> QED
    BY <2>1, InsertPathFacts DEF IsBody
<1>3. none \in Lists
  BY DEF Lists, IsInjective
<1>4. \E f : Looped(f)
  <2> HIDE DEF step, n, none
  <2>1. PICK f : IsLoop(f, step, n, none, Lists)
    BY <1>1, <1>2, <1>3, LoopExists
  <2>2. ASSUME NEW i \in 1 .. n
        PROVE  f[i] = InsertPath(f[i - 1], rs[i].path_trace)
    <3>1. i - 1 \in 0 .. n
      BY <1>1
    <3>2. f[i - 1] \in Lists
      BY <2>1, <3>1 DEF IsLoop
    <3> QED
      BY <2>1, <3>2 DEF step, IsLoop
  <2>3. \A i \in 0 .. n : i = 0 \/ i \in 1 .. n
    BY <1>1
  <2>4. Looped(f)
    BY <2>1, <2>2, <2>3 DEF IsLoop
  <2> QED
    BY <2>4
<1>5. Looped(after)
  <2> HIDE DEF Looped
  <2> QED
    BY <1>4
<1>6. AdjacencyLists(rs) = after[n]
  BY DEF AdjacencyLists
<1>7. /\ 0 \in 0 .. n /\ \A i \in 1 .. n : i \in 0 .. n /\ i # 0
  BY <1>1
<1> HIDE DEF after, n
<1>8. after[0] = none /\ \A i \in 1 .. n : after[i] = InsertPath(after[i - 1], rs[i].path_trace)
  BY <1>5, <1>7
<1> QED
  BY <1>6, <1>8 DEF n

\* The lists of parse_network hold the links that all responses tell of.
LEMMA ListsAreParsed ==
  ASSUME NEW rs \in Seq([flood_id : Nat, path_trace : Path])
  PROVE  /\ AdjacencyLists(rs) \in Lists
         /\ PairsOf(AdjacencyLists(rs)) = ParseNetwork(rs)
<1>1. PICK f : /\ f[0] = [n \in Node |-> <<>>]
               /\ \A k \in 1 .. Len(rs) :
                    f[k] = InsertPath(f[k - 1], rs[k].path_trace)
               /\ AdjacencyLists(rs) = f[Len(rs)]
  BY AdjacencyLoop
<1> DEFINE SoFar(k) == UNION {LinksOf(rs[j].path_trace) : j \in 1 .. k}
           T == {k \in 0 .. Len(rs) : f[k] \in Lists /\ PairsOf(f[k]) = SoFar(k)}
<1>2. Len(rs) \in Nat /\ DOMAIN rs = 1 .. Len(rs)
  OBVIOUS
<1>3. 0 \in T
  <2>1. SoFar(0) = {}
    OBVIOUS
  <2>2. f[0] \in Lists
    BY <1>1 DEF Lists, IsInjective
  <2>3. PairsOf(f[0]) = {}
    BY <1>1 DEF PairsOf, ToSet
  <2> QED
    BY <1>2, <2>1, <2>2, <2>3
<1>4. ASSUME NEW k \in 1 .. Len(rs), k - 1 \in T
      PROVE  k \in T
  <2>1. rs[k] \in [flood_id : Nat, path_trace : Path]
    BY <1>2, ElementType
  <2>2. /\ f[k] \in Lists
        /\ PairsOf(f[k]) = PairsOf(f[k - 1]) \cup LinksOf(rs[k].path_trace)
    BY <1>1, <1>4, <2>1, InsertPathFacts
  <2>3. \A j : j \in 1 .. k <=> j \in 1 .. k - 1 \/ j = k
    BY <1>2
  <2>4. SoFar(k) = SoFar(k - 1) \cup LinksOf(rs[k].path_trace)
    BY <2>3
  <2>5. k \in 0 .. Len(rs)
    BY <1>2
  <2> HIDE DEF SoFar
  <2> QED
    BY <1>4, <2>2, <2>4, <2>5
<1>5. Len(rs) \in T
  <2> HIDE DEF T
  <2>1. 0 .. Len(rs) \subseteq T
    BY <1>2, <1>3, <1>4, AllRounds
  <2> QED
    BY <1>2, <2>1
<1> QED
  BY <1>1, <1>2, <1>5 DEF ParseNetwork

-----------------------------------------------------------------------------
(* Distances *)

\* The nodes of S and those next to one of them.
Near(pairs, S) == S \cup {m \in Node : \E n \in S : <<n, m>> \in pairs}

\* Each ball from the one before.
LEMMA BallsLoop ==
  ASSUME NEW pairs
  PROVE  /\ MaxRounds \in Nat
         /\ Balls(pairs)[0] = {Self}
         /\ \A k \in 1 .. MaxRounds :
              Balls(pairs)[k] = Near(pairs, Balls(pairs)[k - 1])
<1> DEFINE S == SUBSET Node
           n == MaxRounds
           Looped(f) == f = [k \in 0 .. n |->
                               IF k = 0 THEN {Self}
                               ELSE f[k - 1] \cup
                                 {m \in Node : \E x \in f[k - 1] : <<x, m>> \in pairs}]
           step == [k \in 1 .. n |-> [near \in S |-> Near(pairs, near)]]
           after == CHOOSE f : Looped(f)
<1>1. n \in Nat
  BY FiniteAssumption, FS_CardinalityType DEF FiniteAssumption, MaxRounds
<1>2. {Self} \in S
  BY NodeTypes
<1>3. IsBody(step, n, S)
  BY DEF IsBody, Near
<1>4. \E f : Looped(f)
  <2> HIDE DEF step, n, S
  <2>1. PICK f : IsLoop(f, step, n, {Self}, S)
    BY <1>1, <1>2, <1>3, LoopExists
  <2>2. ASSUME NEW k \in 1 .. n
        PROVE  f[k] = Near(pairs, f[k - 1])
    <3>1. k - 1 \in 0 .. n
      BY <1>1
    <3>2. f[k - 1] \in S
      BY <2>1, <3>1 DEF IsLoop
    <3> QED
      BY <2>1, <3>2 DEF step, IsLoop
  <2>3. \A k \in 0 .. n : k = 0 \/ k \in 1 .. n
    BY <1>1
  <2>4. Looped(f)
    BY <2>1, <2>2, <2>3 DEF IsLoop, Near
  <2> QED
    BY <2>4
<1>5. Looped(after)
  <2> HIDE DEF Looped
  <2> QED
    BY <1>4
<1>6. Balls(pairs) = after
  BY DEF Balls
<1>7. 0 \in 0 .. n /\ \A k \in 1 .. n : k \in 0 .. n /\ k # 0
  BY <1>1
<1> HIDE DEF after, n
<1>8. after[0] = {Self} /\ \A k \in 1 .. n : after[k] = Near(pairs, after[k - 1])
  BY <1>5, <1>7 DEF Near
<1> QED
  BY <1>1, <1>6, <1>8 DEF n

\* Balls grow, and a set that is closed and holds Self holds them all.
LEMMA BallsWithin ==
  ASSUME NEW pairs, NEW S, Self \in S,
         \A n \in S, m \in Node : <<n, m>> \in pairs => m \in S
  PROVE  \A k \in 0 .. MaxRounds : Balls(pairs)[k] \subseteq S
<1> DEFINE T == {k \in 0 .. MaxRounds : Balls(pairs)[k] \subseteq S}
<1>1. MaxRounds \in Nat
  BY BallsLoop
<1>2. 0 \in T
  BY <1>1, BallsLoop
<1>3. ASSUME NEW k \in 1 .. MaxRounds, k - 1 \in T
      PROVE  k \in T
  <2>1. Balls(pairs)[k] = Near(pairs, Balls(pairs)[k - 1])
    BY BallsLoop
  <2>2. Balls(pairs)[k - 1] \subseteq S
    BY <1>3
  <2>3. k \in 0 .. MaxRounds
    BY <1>1
  <2> QED
    BY <2>1, <2>2, <2>3 DEF Near
<1>4. 0 .. MaxRounds \subseteq T
  <2> HIDE DEF T
  <2> QED
    BY <1>1, <1>2, <1>3, AllRounds
<1> QED
  BY <1>4

-----------------------------------------------------------------------------
(* The search *)

\* A route without loops over the links of the lists.
Route(lists, p) ==
  /\ p \in Path /\ Len(p) > 0 /\ p[1] = Self /\ IsInjective(p)
  /\ \A i \in 1 .. Len(p) - 1 : <<p[i], p[i + 1]>> \in PairsOf(lists)

\* No route to where it leads is shorter.
Nearest(lists, p) ==
  /\ LastOf(p) \in Balls(PairsOf(lists))[Len(p) - 1]
  /\ Len(p) = 1 \/ LastOf(p) \notin Balls(PairsOf(lists))[Len(p) - 2]

\* The types of a search.
SearchState == [queue : Seq(Path), visited : SUBSET Node]

\* The queue has routes of length l, then of length l + 1.
Ordered(queue, l) ==
  \A i, j \in DOMAIN queue : i <= j =>
    l <= Len(queue[i]) /\ Len(queue[i]) <= Len(queue[j]) /\ Len(queue[j]) <= l + 1

\* A search that looks on from routes of length l.
Good(lists, s, l) ==
  /\ s \in SearchState /\ Self \in s.visited
  /\ \A i \in DOMAIN s.queue :
       /\ Route(lists, s.queue[i]) /\ Nearest(lists, s.queue[i])
       /\ ToSet(s.queue[i]) \subseteq s.visited
  /\ Ordered(s.queue, l)
  /\ Balls(PairsOf(lists))[l - 1] \subseteq s.visited

\* A node that was found waits for its turn or has had it.
Settled(lists, peer, s, v) ==
  \/ v # peer /\ ToSet(lists[v]) \subseteq s.visited
  \/ \E i \in DOMAIN s.queue : LastOf(s.queue[i]) = v

\* So many nodes have had their turn.
Counted(s, k) == Cardinality(s.visited) = Len(s.queue) + k

\* The invariant of the loop.
SearchInv(lists, peer, s) ==
  /\ \A v \in s.visited : Settled(lists, peer, s, v)
  /\ \E l \in 1 .. MaxRounds :
       Good(lists, s, l) /\ (s.queue # <<>> => l = Len(Head(s.queue)))

\* What t has more than s was found and waits.
Grown(s, t) ==
  /\ s.visited \subseteq t.visited
  /\ \A i \in DOMAIN s.queue : i \in DOMAIN t.queue /\ t.queue[i] = s.queue[i]
  /\ \A v \in t.visited \ s.visited : \E i \in DOMAIN t.queue : LastOf(t.queue[i]) = v

\* A route has no more nodes than there are.
LEMMA RouteLength ==
  ASSUME NEW lists, NEW p, Route(lists, p)
  PROVE  Len(p) \in 1 .. MaxRounds
<1>1. p \in [1 .. Len(p) -> Node] /\ Len(p) \in Nat /\ Len(p) > 0
  BY DEF Route, Path
<1>2. p \in Injection(1 .. Len(p), Node)
  BY <1>1 DEF Route, Injection, IsInjective
<1>3. IsFiniteSet(Node)
  BY FiniteAssumption
<1>4. Cardinality(1 .. Len(p)) <= Cardinality(Node)
  BY <1>2, <1>3, FS_Injection
<1>5. Cardinality(1 .. Len(p)) = Len(p)
  BY <1>1, FS_Interval
<1> QED
  BY <1>1, <1>4, <1>5, BallsLoop DEF MaxRounds

\* A neighbour that was not found before is one link farther away.
LEMMA LongerRoute ==
  ASSUME NEW lists \in Lists, NEW p, Route(lists, p), Nearest(lists, p),
         NEW n \in ToSet(lists[LastOf(p)]), n \notin ToSet(p),
         n \notin Balls(PairsOf(lists))[Len(p) - 1]
  PROVE  /\ Route(lists, Append(p, n)) /\ Nearest(lists, Append(p, n))
         /\ LastOf(Append(p, n)) = n /\ n \in Node
         /\ ToSet(Append(p, n)) = ToSet(p) \cup {n}
<1> DEFINE q == Append(p, n)
<1>1. /\ p \in Seq(Node) /\ Len(p) \in Nat /\ Len(p) > 0 /\ IsInjective(p)
      /\ LastOf(p) \in Node
  BY DEF Route, Path, LastOf
<1>2. lists[LastOf(p)] \in Seq(Node)
  BY <1>1 DEF Lists
<1>3. n \in Node
  <2> DEFINE list == lists[LastOf(p)]
  <2>1. PICK i \in DOMAIN list : n = list[i]
    BY DEF ToSet
  <2> HIDE DEF list
  <2> QED
    BY <1>2, <2>1, ElementType DEF list
<1>4. /\ q \in Seq(Node) /\ IsInjective(q) /\ ToSet(q) = ToSet(p) \cup {n}
      /\ Len(q) = Len(p) + 1 /\ q[Len(p) + 1] = n
      /\ \A i \in 1 .. Len(p) : q[i] = p[i]
  BY <1>1, <1>3, InjectiveAppend, AppendType
<1> HIDE DEF q
<1>5. LastOf(q) = n
  BY <1>4 DEF LastOf
<1>6. <<LastOf(p), n>> \in PairsOf(lists)
  BY <1>1, <1>3 DEF PairsOf
<1>7. Route(lists, q)
  <2>1. ASSUME NEW i \in 1 .. Len(q) - 1
        PROVE  <<q[i], q[i + 1]>> \in PairsOf(lists)
    <3>1. CASE i = Len(p)
      BY <1>1, <1>4, <1>6, <3>1 DEF LastOf
    <3>2. CASE i # Len(p)
      <4>1. i \in 1 .. Len(p) - 1 /\ i \in 1 .. Len(p) /\ i + 1 \in 1 .. Len(p)
        BY <1>1, <1>4, <3>2
      <4> QED
        BY <1>4, <4>1 DEF Route
    <3> QED
      BY <3>1, <3>2
  <2>2. q[1] = Self
    BY <1>1, <1>4 DEF Route
  <2> QED
    BY <1>1, <1>4, <2>1, <2>2 DEF Route, Path
<1>8. Len(p) \in 1 .. MaxRounds
  BY RouteLength
<1>9. n \in Balls(PairsOf(lists))[Len(p)]
  <2>1. LastOf(p) \in Balls(PairsOf(lists))[Len(p) - 1]
    BY DEF Nearest
  <2>2. Balls(PairsOf(lists))[Len(p)]
          = Near(PairsOf(lists), Balls(PairsOf(lists))[Len(p) - 1])
    BY <1>8, BallsLoop
  <2> QED
    BY <1>3, <1>6, <2>1, <2>2 DEF Near
<1>10. Len(q) - 1 = Len(p) /\ Len(q) - 2 = Len(p) - 1
  BY <1>1, <1>4
<1>11. Nearest(lists, q)
  BY <1>5, <1>9, <1>10 DEF Nearest
<1> QED
  BY <1>3, <1>4, <1>5, <1>7, <1>11 DEF q

\* What a round does to a search that has taken the route p from its queue.
Expands(lists, p, s) ==
  /\ Good(lists, s, Len(p)) /\ Route(lists, p) /\ Nearest(lists, p)
  /\ ToSet(p) \subseteq s.visited

\* Growing is transitive.
LEMMA GrownTwice ==
  ASSUME NEW s, NEW t, NEW u, Grown(s, t), Grown(t, u)
  PROVE  Grown(s, u)
<1>1. ASSUME NEW v \in u.visited \ s.visited
      PROVE  \E i \in DOMAIN u.queue : LastOf(u.queue[i]) = v
  BY DEF Grown
<1> QED
  BY <1>1 DEF Grown

\* The cardinality of what was found, and what waits.
LEMMA CountedVisit ==
  ASSUME NEW s \in SearchState, NEW p \in Path, NEW n \in Node,
         n \notin s.visited, NEW k \in Nat, Counted(s, k)
  PROVE  Counted(Visit(s, p, n), k)
<1>1. /\ s.queue \in Seq(Path) /\ s.visited \subseteq Node
      /\ Append(p, n) \in Path
  BY LongerPath DEF SearchState
<1>2. IsFiniteSet(s.visited)
  BY <1>1, FiniteAssumption, FS_Subset DEF FiniteAssumption
<1>3. /\ Cardinality(s.visited \cup {n}) = Cardinality(s.visited) + 1
      /\ Cardinality(s.visited) \in Nat
  BY <1>2, FS_AddElement, FS_CardinalityType
<1>4. Len(Append(s.queue, Append(p, n))) = Len(s.queue) + 1 /\ Len(s.queue) \in Nat
  BY <1>1, AppendType
<1>5. /\ Visit(s, p, n).queue = Append(s.queue, Append(p, n))
      /\ Visit(s, p, n).visited = s.visited \cup {n}
  BY DEF Visit
<1> QED
  BY <1>3, <1>4, <1>5 DEF Counted

\* A neighbour leaves the search well typed.
LEMMA VisitType ==
  ASSUME NEW s \in SearchState, NEW p \in Path, NEW n \in Node
  PROVE  Visit(s, p, n) \in SearchState
<1>1. /\ s.queue \in Seq(Path) /\ s.visited \subseteq Node
      /\ Append(p, n) \in Path
  BY LongerPath DEF SearchState
<1>2. Append(s.queue, Append(p, n)) \in Seq(Path)
  BY <1>1, AppendType
<1> QED
  BY <1>1, <1>2 DEF Visit, SearchState

\* One neighbour keeps the search as it should be.
LEMMA VisitFacts ==
  ASSUME NEW lists \in Lists, NEW p, NEW s, Expands(lists, p, s),
         NEW n \in ToSet(lists[LastOf(p)])
  PROVE  /\ Expands(lists, p, Visit(s, p, n)) /\ Grown(s, Visit(s, p, n))
         /\ n \in Visit(s, p, n).visited
         /\ \A k \in Nat : Counted(s, k) => Counted(Visit(s, p, n), k)
<1> DEFINE t == Visit(s, p, n)
           l == Len(p)
<1>1. /\ s \in SearchState /\ Self \in s.visited /\ Ordered(s.queue, l)
      /\ Route(lists, p) /\ Nearest(lists, p) /\ ToSet(p) \subseteq s.visited
      /\ l \in Nat
  BY DEF Expands, Good, Route, Path
<1>2. CASE n \in s.visited
  <2>1. t = s
    BY <1>2 DEF Visit
  <2> QED
    BY <1>2, <2>1 DEF Grown
<1>3. CASE n \notin s.visited
  <2> DEFINE q == Append(p, n)
  <2>1. n \notin ToSet(p) /\ n \notin Balls(PairsOf(lists))[l - 1]
    BY <1>1, <1>3 DEF Expands, Good
  <2>2. /\ Route(lists, q) /\ Nearest(lists, q) /\ LastOf(q) = n
        /\ n \in Node /\ ToSet(q) = ToSet(p) \cup {n}
    BY <1>1, <2>1, LongerRoute
  <2>3. q \in Path /\ Len(q) = l + 1
    BY <1>1, <2>2, AppendType, LongerPath DEF Route, Path
  <2> HIDE DEF q
  <2>4. t.queue = Append(s.queue, q) /\ t.visited = s.visited \cup {n}
    BY <1>3 DEF Visit, q
  <2>5. t \in SearchState
    BY <1>1, <2>2, VisitType DEF Route
  <2>6. /\ \A i \in DOMAIN s.queue : i \in DOMAIN t.queue /\ t.queue[i] = s.queue[i]
        /\ \A i \in DOMAIN t.queue : i \in DOMAIN s.queue \/ t.queue[i] = q
        /\ Len(s.queue) + 1 \in DOMAIN t.queue /\ t.queue[Len(s.queue) + 1] = q
        /\ DOMAIN t.queue = 1 .. Len(s.queue) + 1
        /\ DOMAIN s.queue = 1 .. Len(s.queue) /\ Len(s.queue) \in Nat
    <3>1. s.queue \in Seq(Path)
      BY <1>1 DEF SearchState
    <3> QED
      BY <2>3, <2>4, <3>1, AppendType
  <2> HIDE DEF t
  <2>7. Ordered(t.queue, l)
    <3> SUFFICES ASSUME NEW i \in DOMAIN t.queue, NEW j \in DOMAIN t.queue, i <= j
                 PROVE  /\ l <= Len(t.queue[i]) /\ Len(t.queue[i]) <= Len(t.queue[j])
                        /\ Len(t.queue[j]) <= l + 1
      BY DEF Ordered
    <3>1. CASE j \in DOMAIN s.queue
      <4>1. i \in DOMAIN s.queue
        BY <2>6, <3>1
      <4> QED
        BY <1>1, <2>6, <3>1, <4>1 DEF Ordered
    <3>2. CASE j = Len(s.queue) + 1
      <4>1. Len(t.queue[j]) = l + 1
        BY <2>3, <2>6, <3>2
      <4>2. CASE i \in DOMAIN s.queue
        <5>1. Len(s.queue[i]) \in Nat
          <6>1. s.queue[i] \in Path
            BY <1>1, <4>2, ElementType DEF SearchState
          <6> QED
            BY <6>1 DEF Path
        <5>2. l <= Len(s.queue[i]) /\ Len(s.queue[i]) <= l + 1
          BY <1>1, <4>2, <2>6 DEF Ordered
        <5> QED
          BY <1>1, <2>6, <4>1, <4>2, <5>1, <5>2
      <4>3. CASE i = Len(s.queue) + 1
        BY <1>1, <3>2, <4>1, <4>3
      <4> QED
        BY <2>6, <4>2, <4>3
    <3> QED
      BY <2>6, <3>1, <3>2
  <2>8. ASSUME NEW i \in DOMAIN t.queue
        PROVE  /\ Route(lists, t.queue[i]) /\ Nearest(lists, t.queue[i])
               /\ ToSet(t.queue[i]) \subseteq t.visited
    <3>1. CASE i \in DOMAIN s.queue
      BY <2>4, <2>6, <3>1 DEF Expands, Good
    <3>2. CASE t.queue[i] = q
      BY <1>1, <2>2, <2>4, <3>2
    <3> QED
      BY <2>6, <3>1, <3>2
  <2>9. Expands(lists, p, t)
    BY <1>1, <2>4, <2>5, <2>7, <2>8 DEF Expands, Good
  <2>10. Grown(s, t)
    BY <2>2, <2>4, <2>6 DEF Grown
  <2>11. \A k \in Nat : Counted(s, k) => Counted(t, k)
    BY <1>1, <1>3, <2>2, CountedVisit DEF Route, t
  <2> QED
    BY <2>4, <2>9, <2>10, <2>11 DEF t
<1> QED
  BY <1>2, <1>3

\* The search after each neighbour.
LEMMA VisitAllLoop ==
  ASSUME NEW s \in SearchState, NEW p \in Path, NEW list \in Seq(Node)
  PROVE  \E f : /\ f[0] = s
                /\ \A i \in 1 .. Len(list) : f[i] = Visit(f[i - 1], p, list[i])
                /\ VisitAll(s, p, list) = f[Len(list)]
<1> DEFINE n == Len(list)
           Looped(f) == f = [i \in 0 .. n |->
                               IF i = 0 THEN s ELSE Visit(f[i - 1], p, list[i])]
           step == [i \in 1 .. n |-> [t \in SearchState |-> Visit(t, p, list[i])]]
           after == CHOOSE f : Looped(f)
<1>1. n \in Nat
  OBVIOUS
<1>2. IsBody(step, n, SearchState)
  <2>1. \A i \in 1 .. n : list[i] \in Node
    OBVIOUS
  <2> QED
    BY <2>1, VisitType DEF IsBody
<1>3. \E f : Looped(f)
  <2> HIDE DEF step, n
  <2>1. PICK f : IsLoop(f, step, n, s, SearchState)
    BY <1>1, <1>2, LoopExists
  <2>2. ASSUME NEW i \in 1 .. n
        PROVE  f[i] = Visit(f[i - 1], p, list[i])
    <3>1. i - 1 \in 0 .. n
      BY <1>1
    <3>2. f[i - 1] \in SearchState
      BY <2>1, <3>1 DEF IsLoop
    <3> QED
      BY <2>1, <3>2 DEF step, IsLoop
  <2>3. \A i \in 0 .. n : i = 0 \/ i \in 1 .. n
    BY <1>1
  <2>4. Looped(f)
    BY <2>1, <2>2, <2>3 DEF IsLoop
  <2> QED
    BY <2>4
<1>4. Looped(after)
  <2> HIDE DEF Looped
  <2> QED
    BY <1>3
<1>5. VisitAll(s, p, list) = after[n]
  BY DEF VisitAll
<1>6. 0 \in 0 .. n /\ \A i \in 1 .. n : i \in 0 .. n /\ i # 0
  BY <1>1
<1> HIDE DEF after, n
<1>7. after[0] = s /\ \A i \in 1 .. n : after[i] = Visit(after[i - 1], p, list[i])
  BY <1>4, <1>6
<1> QED
  BY <1>5, <1>7 DEF n

\* Nothing is lost, and all neighbours have been found.
LEMMA VisitAllFacts ==
  ASSUME NEW lists \in Lists, NEW p, NEW s, Expands(lists, p, s),
         NEW t, t = VisitAll(s, p, lists[LastOf(p)])
  PROVE  /\ Expands(lists, p, t) /\ Grown(s, t)
         /\ ToSet(lists[LastOf(p)]) \subseteq t.visited
         /\ \A k \in Nat : Counted(s, k) => Counted(t, k)
<1> DEFINE list == lists[LastOf(p)]
<1>1. p \in Path /\ s \in SearchState /\ LastOf(p) \in Node
  BY DEF Expands, Good, Route, Path, LastOf
<1>2. list \in Seq(Node)
  BY <1>1 DEF Lists
<1>3. PICK f : /\ f[0] = s
               /\ \A i \in 1 .. Len(list) : f[i] = Visit(f[i - 1], p, list[i])
               /\ t = f[Len(list)]
  BY <1>1, <1>2, VisitAllLoop
<1> DEFINE Done(i) ==
             /\ Expands(lists, p, f[i]) /\ Grown(s, f[i])
             /\ \A j \in 1 .. i : list[j] \in f[i].visited
             /\ \A k \in Nat : Counted(s, k) => Counted(f[i], k)
           T == {i \in 0 .. Len(list) : Done(i)}
<1>4. Len(list) \in Nat /\ DOMAIN list = 1 .. Len(list)
  BY <1>2
<1>5. 0 \in T
  <2>1. Grown(s, s)
    BY DEF Grown
  <2> QED
    BY <1>3, <1>4, <2>1
<1>6. ASSUME NEW i \in 1 .. Len(list), i - 1 \in T
      PROVE  i \in T
  <2>1. list[i] \in ToSet(list) /\ Done(i - 1) /\ f[i] = Visit(f[i - 1], p, list[i])
    BY <1>3, <1>4, <1>6 DEF ToSet
  <2>2. /\ Expands(lists, p, f[i]) /\ Grown(f[i - 1], f[i]) /\ list[i] \in f[i].visited
        /\ \A k \in Nat : Counted(f[i - 1], k) => Counted(f[i], k)
    BY <2>1, VisitFacts
  <2>3. Grown(s, f[i])
    BY <2>1, <2>2, GrownTwice
  <2>4. \A j \in 1 .. i : list[j] \in f[i].visited
    <3>1. \A j \in 1 .. i : j \in 1 .. i - 1 \/ j = i
      BY <1>4
    <3> QED
      BY <2>1, <2>2, <3>1 DEF Grown
  <2>5. i \in 0 .. Len(list)
    BY <1>4
  <2> QED
    BY <2>1, <2>2, <2>3, <2>4, <2>5
<1>7. Len(list) \in T
  <2> HIDE DEF T
  <2>1. 0 .. Len(list) \subseteq T
    BY <1>4, <1>5, <1>6, AllRounds
  <2> QED
    BY <1>4, <2>1
<1>8. ToSet(list) \subseteq t.visited
  BY <1>3, <1>4, <1>7 DEF ToSet
<1> QED
  BY <1>3, <1>7, <1>8

\* The first route and the others.
LEMMA QueueFacts ==
  ASSUME NEW queue \in Seq(Path), queue # <<>>
  PROVE  /\ 1 \in DOMAIN queue /\ Head(queue) = queue[1] /\ Head(queue) \in Path
         /\ Tail(queue) \in Seq(Path) /\ Len(Tail(queue)) = Len(queue) - 1
         /\ \A i \in DOMAIN Tail(queue) : i \in Nat /\ i + 1 \in DOMAIN queue
                                          /\ Tail(queue)[i] = queue[i + 1]
         /\ \A i \in DOMAIN queue : i # 1 => i - 1 \in DOMAIN Tail(queue)
                                              /\ Tail(queue)[i - 1] = queue[i]
<1>1. /\ DOMAIN queue = 1 .. Len(queue) /\ Len(queue) \in Nat /\ Len(queue) > 0
      /\ DOMAIN Tail(queue) = 1 .. Len(queue) - 1
      /\ \A i \in 1 .. Len(queue) - 1 : Tail(queue)[i] = queue[i + 1]
      /\ Head(queue) = queue[1] /\ Head(queue) \in Path
      /\ Tail(queue) \in Seq(Path) /\ Len(Tail(queue)) = Len(queue) - 1
  OBVIOUS
<1>2. \A i \in 1 .. Len(queue) - 1 : i \in Nat /\ i + 1 \in 1 .. Len(queue)
  BY <1>1
<1>3. \A i \in 1 .. Len(queue) : i # 1 =>
        i - 1 \in 1 .. Len(queue) - 1 /\ (i - 1) + 1 = i
  BY <1>1
<1> QED
  BY <1>1, <1>2, <1>3

\* What the search looks like when a route has been taken from the queue.
LEMMA Popped ==
  ASSUME NEW lists \in Lists, NEW peer, NEW s, SearchInv(lists, peer, s),
         s.queue # <<>>, NEW p, p = Head(s.queue),
         NEW t, t = [s EXCEPT !.queue = Tail(@)]
  PROVE  /\ Expands(lists, p, t)
         /\ \A v \in t.visited : v # LastOf(p) => Settled(lists, peer, t, v)
         /\ \A k \in Nat : Counted(s, k) => Counted(t, k + 1)
<1>1. PICK l \in 1 .. MaxRounds : Good(lists, s, l) /\ l = Len(p)
  BY DEF SearchInv
<1>2. /\ s \in SearchState /\ s.queue \in Seq(Path) /\ s.visited \subseteq Node
  BY <1>1 DEF Good, SearchState
<1>3. /\ 1 \in DOMAIN s.queue /\ p = s.queue[1] /\ p \in Path
      /\ Tail(s.queue) \in Seq(Path) /\ Len(Tail(s.queue)) = Len(s.queue) - 1
      /\ \A i \in DOMAIN Tail(s.queue) : i \in Nat /\ i + 1 \in DOMAIN s.queue
                                          /\ Tail(s.queue)[i] = s.queue[i + 1]
      /\ \A i \in DOMAIN s.queue : i # 1 => i - 1 \in DOMAIN Tail(s.queue)
                                             /\ Tail(s.queue)[i - 1] = s.queue[i]
  BY <1>2, QueueFacts
<1>4. t.queue = Tail(s.queue) /\ t.visited = s.visited /\ t \in SearchState
  BY <1>2, <1>3 DEF SearchState
<1>5. Ordered(t.queue, l)
  <2> SUFFICES ASSUME NEW i \in DOMAIN t.queue, NEW j \in DOMAIN t.queue, i <= j
               PROVE  /\ l <= Len(t.queue[i]) /\ Len(t.queue[i]) <= Len(t.queue[j])
                      /\ Len(t.queue[j]) <= l + 1
    BY DEF Ordered
  <2>1. /\ i + 1 \in DOMAIN s.queue /\ j + 1 \in DOMAIN s.queue
        /\ t.queue[i] = s.queue[i + 1] /\ t.queue[j] = s.queue[j + 1]
        /\ i + 1 <= j + 1
    BY <1>3, <1>4
  <2> QED
    BY <1>1, <2>1 DEF Good, Ordered
<1>6. Expands(lists, p, t)
  <2>1. /\ Route(lists, p) /\ Nearest(lists, p) /\ ToSet(p) \subseteq t.visited
    BY <1>1, <1>3, <1>4 DEF Good
  <2>2. ASSUME NEW i \in DOMAIN t.queue
        PROVE  /\ Route(lists, t.queue[i]) /\ Nearest(lists, t.queue[i])
               /\ ToSet(t.queue[i]) \subseteq t.visited
    <3>1. i + 1 \in DOMAIN s.queue /\ t.queue[i] = s.queue[i + 1]
      BY <1>3, <1>4
    <3> QED
      BY <1>1, <1>4, <3>1 DEF Good
  <2> QED
    BY <1>1, <1>4, <1>5, <2>1, <2>2 DEF Expands, Good
<1>7. ASSUME NEW v \in t.visited, v # LastOf(p)
      PROVE  Settled(lists, peer, t, v)
  <2>1. Settled(lists, peer, s, v)
    BY <1>4 DEF SearchInv
  <2>2. ASSUME NEW i \in DOMAIN s.queue, LastOf(s.queue[i]) = v
        PROVE  \E j \in DOMAIN t.queue : LastOf(t.queue[j]) = v
    <3>1. i # 1
      BY <1>3, <1>7, <2>2
    <3> QED
      BY <1>3, <1>4, <2>2, <3>1
  <2> QED
    BY <1>4, <2>1, <2>2 DEF Settled
<1>8. \A k \in Nat : Counted(s, k) => Counted(t, k + 1)
  <2>1. Len(s.queue) \in Nat
    BY <1>2
  <2> QED
    BY <1>3, <1>4, <2>1 DEF Counted
<1> QED
  BY <1>6, <1>7, <1>8

\* The search may look on from longer routes when no others are left.
LEMMA NextLength ==
  ASSUME NEW lists \in Lists, NEW peer, NEW l \in 1 .. MaxRounds, NEW s,
         Good(lists, s, l), \A v \in s.visited : Settled(lists, peer, s, v)
  PROVE  SearchInv(lists, peer, s)
<1>1. CASE s.queue = <<>>
  BY <1>1 DEF SearchInv
<1>2. CASE s.queue # <<>>
  <2> DEFINE p == Head(s.queue)
             pairs == PairsOf(lists)
  <2>1. s.queue \in Seq(Path)
    BY DEF Good, SearchState
  <2>2. 1 \in DOMAIN s.queue /\ p = s.queue[1] /\ p \in Path
    BY <1>2, <2>1, QueueFacts
  <2>3. Route(lists, p) /\ Len(p) \in 1 .. MaxRounds
    BY <2>2, RouteLength DEF Good
  <2>4. MaxRounds \in Nat /\ l \in Nat /\ l > 0 /\ Len(p) \in Nat
    BY <2>3, BallsLoop
  <2>5. /\ l <= Len(p) /\ Len(p) <= l + 1
        /\ \A i \in DOMAIN s.queue : Len(p) <= Len(s.queue[i]) /\ Len(s.queue[i]) <= l + 1
    <3>1. \A i \in DOMAIN s.queue : 1 <= i
      BY <2>1
    <3> QED
      BY <2>2, <3>1 DEF Good, Ordered
  <2> HIDE DEF p
  <2>6. CASE Len(p) = l
    BY <2>6 DEF SearchInv, p
  <2>7. CASE Len(p) = l + 1
    <3>1. Ordered(s.queue, l + 1)
      <4> SUFFICES ASSUME NEW i \in DOMAIN s.queue, NEW j \in DOMAIN s.queue, i <= j
                   PROVE  /\ l + 1 <= Len(s.queue[i])
                          /\ Len(s.queue[i]) <= Len(s.queue[j])
                          /\ Len(s.queue[j]) <= (l + 1) + 1
        BY DEF Ordered
      <4>1. Len(s.queue[i]) <= Len(s.queue[j])
        BY DEF Good, Ordered
      <4>2. Len(s.queue[j]) \in Nat
        <5>1. s.queue[j] \in Path
          BY <2>1, ElementType
        <5> QED
          BY <5>1 DEF Path
      <4> QED
        BY <2>4, <2>5, <2>7, <4>1, <4>2
    <3>2. ASSUME NEW x \in Balls(pairs)[l]
          PROVE  x \in s.visited
      <4>1. Balls(pairs)[l] = Near(pairs, Balls(pairs)[l - 1])
        BY <2>4, BallsLoop
      <4>2. CASE x \in Balls(pairs)[l - 1]
        BY <4>2 DEF Good
      <4>3. CASE x \notin Balls(pairs)[l - 1]
        <5>1. PICK n \in Balls(pairs)[l - 1] : <<n, x>> \in pairs
          BY <3>2, <4>1, <4>3 DEF Near
        <5>2. n \in s.visited /\ x \in ToSet(lists[n])
          BY <5>1 DEF Good, PairsOf
        <5>3. ASSUME NEW i \in DOMAIN s.queue, LastOf(s.queue[i]) = n
              PROVE  FALSE
          <6>1. Len(s.queue[i]) = l + 1
            <7>1. s.queue[i] \in Path
              BY <2>1, ElementType
            <7>2. Len(s.queue[i]) \in Nat
              BY <7>1 DEF Path
            <7> QED
              BY <2>4, <2>5, <2>7, <7>2
          <6>2. Nearest(lists, s.queue[i])
            BY DEF Good
          <6>3. Len(s.queue[i]) # 1 /\ Len(s.queue[i]) - 2 = l - 1
            BY <2>4, <6>1
          <6> QED
            BY <5>1, <5>3, <6>2, <6>3 DEF Nearest
        <5> QED
          BY <5>2, <5>3 DEF Settled
      <4> QED
        BY <4>2, <4>3
    <3>3. (l + 1) - 1 = l
      BY <2>4
    <3>4. Good(lists, s, l + 1)
      BY <3>1, <3>2, <3>3 DEF Good
    <3>5. l + 1 \in 1 .. MaxRounds
      BY <2>3, <2>7
    <3> QED
      BY <2>7, <3>4, <3>5 DEF SearchInv, p
  <2> QED
    BY <2>4, <2>5, <2>6, <2>7
<1> QED
  BY <1>1, <1>2

\* One round keeps the invariant of the loop.
LEMMA RoundFacts ==
  ASSUME NEW lists \in Lists, NEW peer, NEW s, SearchInv(lists, peer, s),
         ~Over(s, peer)
  PROVE  /\ SearchInv(lists, peer, Round(lists, peer, s))
         /\ \A k \in Nat : Counted(s, k) => Counted(Round(lists, peer, s), k + 1)
<1> DEFINE p == Head(s.queue)
           t == [s EXCEPT !.queue = Tail(@)]
           u == VisitAll(t, p, lists[LastOf(p)])
<1>1. s.queue # <<>> /\ LastOf(p) # peer
  BY DEF Over
<1>2. Round(lists, peer, s) = u
  BY DEF Round
<1>3. /\ Expands(lists, p, t)
      /\ \A v \in t.visited : v # LastOf(p) => Settled(lists, peer, t, v)
      /\ \A k \in Nat : Counted(s, k) => Counted(t, k + 1)
  <2> HIDE DEF p, t
  <2>1. p = Head(s.queue) /\ t = [s EXCEPT !.queue = Tail(@)]
    BY DEF p, t
  <2> QED
    BY <1>1, <2>1, Popped
<1> HIDE DEF t, p
<1>4. /\ Expands(lists, p, u) /\ Grown(t, u)
      /\ ToSet(lists[LastOf(p)]) \subseteq u.visited
      /\ \A k \in Nat : Counted(t, k) => Counted(u, k)
  BY <1>3, VisitAllFacts
<1> HIDE DEF u
<1>5. ASSUME NEW v \in u.visited
      PROVE  Settled(lists, peer, u, v)
  <2>1. CASE v \notin t.visited
    BY <1>4, <2>1 DEF Grown, Settled
  <2>2. CASE v = LastOf(p)
    BY <1>1, <1>4, <2>2 DEF Settled
  <2>3. CASE v \in t.visited /\ v # LastOf(p)
    <3>1. Settled(lists, peer, t, v)
      BY <1>3, <2>3
    <3> QED
      BY <1>4, <3>1 DEF Grown, Settled
  <2> QED
    BY <2>1, <2>2, <2>3
<1>6. Good(lists, u, Len(p)) /\ Len(p) \in 1 .. MaxRounds
  BY <1>4, RouteLength DEF Expands
<1>7. SearchInv(lists, peer, u)
  BY <1>5, <1>6, NextLength
<1>8. \A k \in Nat : Counted(s, k) => Counted(u, k + 1)
  BY <1>3, <1>4
<1> QED
  BY <1>2, <1>7, <1>8

\* The invariant holds before the loop.
LEMMA StartFacts ==
  ASSUME NEW lists \in Lists, NEW peer
  PROVE  SearchInv(lists, peer, Start) /\ Counted(Start, 0)
<1> DEFINE p == <<Self>>
<1>1. /\ p \in Path /\ Len(p) = 1 /\ p[1] = Self /\ LastOf(p) = Self
      /\ ToSet(p) = {Self} /\ IsInjective(p)
  BY NodeTypes DEF LastOf, ToSet, IsInjective
<1>2. Route(lists, p)
  BY <1>1 DEF Route
<1>3. Nearest(lists, p)
  BY <1>1, BallsLoop DEF Nearest
<1>4. 1 \in 1 .. MaxRounds
  BY <1>1, <1>2, RouteLength
<1> HIDE DEF p
<1>5. /\ Start.queue = <<p>> /\ Start.visited = {Self}
      /\ <<p>> \in Seq(Path) /\ DOMAIN <<p>> = {1} /\ <<p>>[1] = p
      /\ <<p>> # <<>> /\ Head(<<p>>) = p /\ Len(<<p>>) = 1
  BY <1>1 DEF Start, p
<1>6. Start \in SearchState
  BY <1>5, NodeTypes DEF SearchState, Start, p
<1>7. Good(lists, Start, 1)
  <2>1. Ordered(Start.queue, 1)
    <3>1. ASSUME NEW i \in DOMAIN Start.queue
          PROVE  Len(Start.queue[i]) = 1
      BY <1>1, <1>5
    <3> DEFINE q == Start.queue
    <3>2. ASSUME NEW i \in DOMAIN q, NEW j \in DOMAIN q
          PROVE  /\ 1 =< Len(q[i]) /\ Len(q[i]) =< Len(q[j])
                 /\ Len(q[j]) =< 1 + 1
      <4>1. Len(q[i]) = 1 /\ Len(q[j]) = 1
        BY <3>1
      <4> HIDE DEF q
      <4> QED
        BY <4>1
    <3> HIDE DEF q
    <3>3. Ordered(q, 1)
      BY <3>2 DEF Ordered
    <3> QED
      BY <3>3 DEF q
  <2>2. Balls(PairsOf(lists))[1 - 1] \subseteq Start.visited
    BY <1>5, BallsLoop
  <2> QED
    BY <1>1, <1>2, <1>3, <1>5, <1>6, <2>1, <2>2 DEF Good
<1>8. SearchInv(lists, peer, Start)
  BY <1>1, <1>4, <1>5, <1>7 DEF SearchInv, Settled
<1>9. Counted(Start, 0)
  <2>1. Cardinality({Self}) = 1
    BY FS_Singleton
  <2>2. Len(Start.queue) = 1
    BY <1>5
  <2> QED
    BY <1>5, <2>1, <2>2 DEF Counted
<1> QED
  BY <1>8, <1>9

\* The search after each round.
LEMMA SearchLoop ==
  ASSUME NEW lists \in Lists, NEW peer
  PROVE  \E f : /\ f[0] = Start
                /\ \A k \in 1 .. MaxRounds : f[k] = Round(lists, peer, f[k - 1])
                /\ Search(lists, peer) = f[MaxRounds]
<1> DEFINE n == MaxRounds
           S == {s \in SearchState : SearchInv(lists, peer, s)}
           Looped(f) == f = [k \in 0 .. n |->
                               IF k = 0 THEN Start ELSE Round(lists, peer, f[k - 1])]
           step == [k \in 1 .. n |-> [s \in S |-> Round(lists, peer, s)]]
           after == CHOOSE f : Looped(f)
<1>1. n \in Nat
  BY BallsLoop
<1>2. ASSUME NEW s, SearchInv(lists, peer, s)
      PROVE  s \in S
  BY <1>2 DEF SearchInv, Good
<1>3. Start \in S
  BY <1>2, StartFacts
<1>4. ASSUME NEW s \in S
      PROVE  Round(lists, peer, s) \in S
  <2>1. CASE Over(s, peer)
    BY <2>1 DEF Round
  <2>2. CASE ~Over(s, peer)
    BY <1>2, <2>2, RoundFacts
  <2> QED
    BY <2>1, <2>2
<1>5. IsBody(step, n, S)
  <2> HIDE DEF S
  <2> QED
    BY <1>4 DEF IsBody
<1>6. \E f : Looped(f)
  <2> HIDE DEF step, n, S
  <2>1. PICK f : IsLoop(f, step, n, Start, S)
    BY <1>1, <1>3, <1>5, LoopExists
  <2>2. ASSUME NEW k \in 1 .. n
        PROVE  f[k] = Round(lists, peer, f[k - 1])
    <3>1. k - 1 \in 0 .. n
      BY <1>1
    <3>2. f[k - 1] \in S
      BY <2>1, <3>1 DEF IsLoop
    <3> QED
      BY <2>1, <3>2 DEF step, IsLoop
  <2>3. \A k \in 0 .. n : k = 0 \/ k \in 1 .. n
    BY <1>1
  <2>4. Looped(f)
    BY <2>1, <2>2, <2>3 DEF IsLoop
  <2> QED
    BY <2>4
<1>7. Looped(after)
  <2> HIDE DEF Looped
  <2> QED
    BY <1>6
<1>8. Search(lists, peer) = after[n]
  BY DEF Search
<1>9. 0 \in 0 .. n /\ \A k \in 1 .. n : k \in 0 .. n /\ k # 0
  BY <1>1
<1> HIDE DEF after, n
<1>10. after[0] = Start /\ \A k \in 1 .. n : after[k] = Round(lists, peer, after[k - 1])
  BY <1>7, <1>9
<1> QED
  BY <1>8, <1>10 DEF n

\* The search is over after as many rounds as there are nodes, since each
\* takes the route to another node from the queue.
LEMMA SearchEnds ==
  ASSUME NEW lists \in Lists, NEW peer
  PROVE  SearchInv(lists, peer, Search(lists, peer)) /\ Over(Search(lists, peer), peer)
<1>1. PICK f : /\ f[0] = Start
               /\ \A k \in 1 .. MaxRounds : f[k] = Round(lists, peer, f[k - 1])
               /\ Search(lists, peer) = f[MaxRounds]
  BY SearchLoop
<1> DEFINE T == {k \in 0 .. MaxRounds : /\ SearchInv(lists, peer, f[k])
                                        /\ Over(f[k], peer) \/ Counted(f[k], k)}
<1>2. MaxRounds \in Nat
  BY BallsLoop
<1>3. 0 \in T
  BY <1>1, <1>2, StartFacts
<1>4. ASSUME NEW k \in 1 .. MaxRounds, k - 1 \in T
      PROVE  k \in T
  <2>1. f[k] = Round(lists, peer, f[k - 1]) /\ k \in 0 .. MaxRounds
    BY <1>1, <1>2
  <2>2. CASE Over(f[k - 1], peer)
    <3>1. f[k] = f[k - 1]
      BY <2>1, <2>2 DEF Round
    <3> QED
      BY <1>4, <2>1, <2>2, <3>1
  <2>3. CASE ~Over(f[k - 1], peer)
    <3>1. k - 1 \in Nat /\ (k - 1) + 1 = k
      BY <1>2
    <3>2. Counted(f[k - 1], k - 1) /\ SearchInv(lists, peer, f[k - 1])
      BY <1>4, <2>3
    <3>3. SearchInv(lists, peer, f[k]) /\ Counted(f[k], k)
      BY <2>1, <2>3, <3>1, <3>2, RoundFacts
    <3> QED
      BY <2>1, <3>3
  <2> QED
    BY <2>2, <2>3
<1>5. MaxRounds \in T
  <2> HIDE DEF T
  <2>1. 0 .. MaxRounds \subseteq T
    BY <1>2, <1>3, <1>4, AllRounds
  <2> QED
    BY <1>2, <2>1
<1> DEFINE s == f[MaxRounds]
<1>6. SearchInv(lists, peer, s) /\ (Over(s, peer) \/ Counted(s, MaxRounds))
  BY <1>5
<1> HIDE DEF s, T
<1>7. ASSUME Counted(s, MaxRounds)
      PROVE  s.queue = <<>>
  <2>1. s.queue \in Seq(Path) /\ s.visited \in SUBSET Node
    BY <1>6 DEF SearchInv, Good, SearchState
  <2>2. IsFiniteSet(Node)
    BY FiniteAssumption
  <2>3. Cardinality(s.visited) <= MaxRounds /\ Cardinality(s.visited) \in Nat
    BY <2>1, <2>2, FS_Subset, FS_CardinalityType DEF MaxRounds
  <2>4. Len(s.queue) \in Nat
    BY <2>1
  <2>5. Len(s.queue) = 0
    BY <1>2, <1>7, <2>3, <2>4 DEF Counted
  <2> QED
    BY <2>1, <2>5
<1>8. Over(s, peer)
  BY <1>6, <1>7 DEF Over
<1> QED
  BY <1>1, <1>6, <1>8 DEF s

\* The route that the search finds is the shortest, and it finds one if
\* there is one.
LEMMA SearchFinds ==
  ASSUME NEW lists \in Lists, NEW peer \in Node
  PROVE  Shortest(PairsOf(lists), peer, GetRouteToPeer(lists, peer))
<1> DEFINE s == Search(lists, peer)
           route == GetRouteToPeer(lists, peer)
<1>1. SearchInv(lists, peer, s) /\ Over(s, peer)
  BY SearchEnds
<1>2. route = IF s.queue = <<>> THEN <<>> ELSE Head(s.queue)
  BY DEF GetRouteToPeer
<1> HIDE DEF s, route
<1>3. PICK l \in 1 .. MaxRounds : Good(lists, s, l)
  BY <1>1 DEF SearchInv
<1>4. CASE s.queue = <<>>
  <2>1. \A v \in s.visited : v # peer /\ ToSet(lists[v]) \subseteq s.visited
    <3>1. DOMAIN s.queue = {}
      BY <1>4
    <3> QED
      BY <1>1, <3>1 DEF SearchInv, Settled
  <2>2. Self \in s.visited
    BY <1>3 DEF Good
  <2>3. \A n \in s.visited, m \in Node : <<n, m>> \in PairsOf(lists) => m \in s.visited
    BY <2>1 DEF PairsOf
  <2>4. Balls(PairsOf(lists))[MaxRounds] \subseteq s.visited
    <3>1. MaxRounds \in 0 .. MaxRounds
      BY BallsLoop
    <3> QED
      BY <2>2, <2>3, <3>1, BallsWithin
  <2> QED
    BY <1>2, <1>4, <2>1, <2>4 DEF Shortest, route
<1>5. CASE s.queue # <<>>
  <2>1. s.queue \in Seq(Path)
    BY <1>3 DEF Good, SearchState
  <2>2. route = s.queue[1] /\ 1 \in DOMAIN s.queue
    BY <1>2, <1>5, <2>1, QueueFacts
  <2>3. Route(lists, route) /\ Nearest(lists, route)
    BY <1>3, <2>2 DEF Good
  <2>4. LastOf(route) = peer
    BY <1>1, <1>2, <1>5 DEF Over
  <2>5. route # <<>>
    BY <2>3 DEF Route
  <2> QED
    BY <2>3, <2>4, <2>5 DEF Shortest, Route, Nearest, route
<1> QED
  BY <1>4, <1>5

\* The topology is what the responses told that it was parsed from.
ParsedInv == network_topology = ParseNetwork(parsed)

\* Over every topology that discoveries leave, for every peer: the search has
\* a route if there is one, without loops, over links and as short as possible.
THEOREM SearchIsShortest == Spec => []RoutesAreShortest
<1>1. Init => ParsedInv
  BY DEF Init, ParsedInv, ParseNetwork
<1>2. ParsedInv /\ [Next]_vars => ParsedInv'
  <2> SUFFICES ASSUME ParsedInv, [Next]_vars
               PROVE  ParsedInv'
    OBVIOUS
  <2>1. \/ UNCHANGED <<network_topology, parsed>>
        \/ network_topology' = ParseNetwork(responses) /\ parsed' = responses
    BY DEF Next, vars, hostVars, TriggerDiscovery, Trigger, InitDiscovery,
       SendRequest, ReceiveResponse, EndDiscovery, HostAnswers, DroneForwards,
       DroneAnswers, ChangeElsewhere, ChangeOwnLink
  <2> QED
    BY <2>1 DEF ParsedInv, ParseNetwork
<1>3. TypeOK /\ ParsedInv => RoutesAreShortest
  <2> SUFFICES ASSUME TypeOK, ParsedInv
               PROVE  RoutesAreShortest
    OBVIOUS
  <2>1. /\ AdjacencyLists(parsed) \in Lists
        /\ PairsOf(AdjacencyLists(parsed)) = network_topology
    BY TypeParts, ListsAreParsed DEF StoredTypes, ParsedInv
  <2> QED
    BY <2>1, SearchFinds DEF RoutesAreShortest
<1> QED
  BY <1>1, <1>2, <1>3, TypeCorrect, PTL DEF Spec
=============================================================================
