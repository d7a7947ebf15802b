---------------------------- MODULE PacketSender ----------------------------
(***************************************************************************)
(* The sender thread of a host (network/packet_sender.rs).  It receives    *)
(* duty messages from the node thread, keeps three queues, and on every    *)
(* pass of its loop resends what is due.  It shares the neighbour map, the *)
(* topology and the discovery flag with the node thread.  Routing one      *)
(* packet holds the lock of the map and takes that of the topology: one    *)
(* step.  The flag is a relaxed load of its own, once for a whole pass.    *)
(*                                                                         *)
(* The topology is reduced to what route_packet makes of it: the pairs     *)
(* <<h, p>> such that a path to peer p begins with hop h.  Which of        *)
(* several such paths the breadth-first search returns is left open.       *)
(*                                                                         *)
(* A fragment is in the queue of those that await an Ack once at most, and *)
(* what becomes of it does not depend on the others there: that queue is a *)
(* function, and a pass over it takes the fragments in any order.          *)
(***************************************************************************)
EXTENDS Naturals, Sequences

CONSTANTS
  Hop,         \* nodes that can be neighbours of this host
  Peer,        \* hosts at the other end
  Fragment,    \* the message fragments this host is asked to send
  Incoming,    \* the fragments it receives, named by the Ack they call for
  DestOf,      \* the peer a fragment or an Ack goes to
  PACKET_RESEND_MAX_RETRIES,
  MaxTriggers  \* bound: discovery triggers waiting for the node thread

ASSUME SenderAssumption ==
  /\ Fragment \cap Incoming = {}
  /\ DestOf \in [Fragment \cup Incoming -> Peer]
  /\ PACKET_RESEND_MAX_RETRIES \in Nat \ {0}
  /\ MaxTriggers \in Nat \ {0}

VARIABLES
  \* shared with the node thread
  duty,             \* channel of PacketSenderDutyMessage
  triggers,         \* channel of TriggerNetworkDiscovery: its length
  neighbors,        \* hops with a channel in the neighbour map
  network_topology, \* pairs <<first hop, peer>>
  ongoing,          \* network_discovery_ongoing
  \* owned by the sender thread
  spc,              \* where the thread is in run / process_queue
  packet_send_queue, flood_packets_queue,
  ackable_packet_send_queue,  \* a function of the fragments in it
  batch,            \* the packets of packet_send_queue still to be routed
  unvisited,        \* the fragments that this pass has yet to look at
  \* the network next to the host
  gone,             \* hops whose receiver no longer exists
  flooded,          \* hops that were sent the latest flood request
  \* history
  attempts,         \* attempts made, by fragment
  transmitted,      \* copies put on the wire, by fragment
  acked,            \* fragments removed because of an Ack
  given_up,         \* fragments dropped after too many attempts
  acks_out,         \* Acks put on the wire
  acks_lost,        \* Acks dropped by the sender
  answered          \* flood requests of other nodes that were answered

sharedVars == <<neighbors, network_topology, ongoing>>
senderHistory == <<attempts, transmitted, acked, given_up, acks_out, acks_lost,
                   answered>>
senderVars == <<duty, triggers, neighbors, network_topology, ongoing, spc,
                packet_send_queue, ackable_packet_send_queue,
                flood_packets_queue, batch, unvisited, gone, flooded,
                attempts, transmitted, acked, given_up, acks_out, acks_lost,
                answered>>

SenderFinished == spc \in {"stopped", "panicked"}

Duty(kind, x) == [kind |-> kind, of |-> x]

Request == Duty("request", "self")

IsIn(x, s) == \E i \in DOMAIN s : s[i] = x

\* The request just taken is the latest one: none was issued after it.
IsLatest(rest) == ~ IsIn(Request, rest) /\ ~ IsIn(Request, duty)

-----------------------------------------------------------------------------
(* route_packet *)

Routes(p) == {h \in Hop : <<h, p>> \in network_topology}

\* What route_packet can answer for a packet to peer p.
Outcomes(p) ==
  IF Routes(p) = {} THEN {"NoRouteFound"}
  ELSE {IF h \in neighbors \ gone THEN "Ok" ELSE "SendError" : h \in Routes(p)}

-----------------------------------------------------------------------------
(* run: one duty message, or the timeout, and then process_queue *)

\* The back-off counts as over.
NewItem == [ready |-> TRUE, retries |-> 0]

\* The queue with f in it, and what is left of it.
QueueWith(f) ==
  [g \in DOMAIN ackable_packet_send_queue \cup {f} |->
     IF g = f THEN NewItem ELSE ackable_packet_send_queue[g]]
Keeping(S) == [g \in S |-> ackable_packet_send_queue[g]]

\* Mutants: every fragment is dropped, whatever its index; none is dropped.
UnackedIgnoringIndex(f) == Keeping({})
UnackedKeepingAll(f) == ackable_packet_send_queue

Unacked(f) == Keeping(DOMAIN ackable_packet_send_queue \ {f})

\* handle_new_packet
HandleNewPacket(m) ==
  /\ \/ /\ m.kind = "fragment"
        /\ ackable_packet_send_queue' = QueueWith(m.of)
        /\ UNCHANGED <<packet_send_queue, flood_packets_queue>>
     \/ /\ m.kind \in {"request", "response"}
        /\ flood_packets_queue' = Append(flood_packets_queue, m)
        /\ UNCHANGED <<packet_send_queue, ackable_packet_send_queue>>
     \/ /\ m.kind = "ack"
        /\ packet_send_queue' = Append(packet_send_queue, m.of)
        /\ UNCHANGED <<ackable_packet_send_queue, flood_packets_queue>>
  /\ spc' = "process"
  /\ UNCHANGED acked

\* retain_acked_fragments
RetainAcked(m) ==
  /\ m.kind = "acked"
  /\ ackable_packet_send_queue' = Unacked(m.of)
  /\ acked' = acked \cup ({m.of} \cap DOMAIN ackable_packet_send_queue)
  /\ spc' = "process"
  /\ UNCHANGED <<packet_send_queue, flood_packets_queue>>

StopSender(m) ==
  /\ m.kind = "quit"
  /\ spc' = "stopped"
  /\ UNCHANGED <<packet_send_queue, ackable_packet_send_queue,
                 flood_packets_queue, acked>>

ReceiveDuty ==
  /\ spc = "select"
  /\ duty # <<>>
  /\ duty' = Tail(duty)
  /\ \/ HandleNewPacket(Head(duty))
     \/ RetainAcked(Head(duty))
     \/ StopSender(Head(duty))
  /\ UNCHANGED <<sharedVars, triggers, batch, unvisited, gone, flooded,
                 attempts, transmitted, given_up, acks_out, acks_lost,
                 answered>>

\* The select is biased: the timeout (0 or 25 ms) fires on an empty channel.
DutyTimeout ==
  /\ spc = "select"
  /\ duty = <<>>
  /\ spc' = "process"
  /\ UNCHANGED <<duty, sharedVars, triggers, packet_send_queue,
                 ackable_packet_send_queue, flood_packets_queue, batch, unvisited,
                 gone, flooded, senderHistory>>

-----------------------------------------------------------------------------
(* process_queue *)

\* Mutant: one attempt too many.
HasRetriesLeftOffByOne(f) ==
  ackable_packet_send_queue[f].retries <= PACKET_RESEND_MAX_RETRIES

HasRetriesLeft(f) ==
  ackable_packet_send_queue[f].retries < PACKET_RESEND_MAX_RETRIES

Retained == {f \in DOMAIN ackable_packet_send_queue : HasRetriesLeft(f)}

\* Drop what was tried too often; load the flag, once for the whole pass.
BeginPass ==
  /\ spc = "process"
  /\ ackable_packet_send_queue' = Keeping(Retained)
  /\ given_up' =
       given_up \cup (DOMAIN ackable_packet_send_queue \ Retained)
  /\ IF ongoing
     THEN /\ spc' = "flood"
          /\ UNCHANGED <<batch, unvisited, packet_send_queue>>
     ELSE /\ spc' = "route"
          /\ batch' = packet_send_queue
          /\ packet_send_queue' = <<>>
          /\ unvisited' = Retained
  /\ UNCHANGED <<duty, sharedVars, triggers, flood_packets_queue, gone, flooded,
                 attempts, transmitted, acked, acks_out, acks_lost,
                 answered>>

\* The channel is unbounded; its messages are all alike, and those beyond
\* the bound are merged with the ones that wait.
AskForDiscovery ==
  triggers' = IF triggers < MaxTriggers THEN triggers + 1 ELSE triggers

\* Mutant: the packet is forgotten.
RequeuedNot(a) == packet_send_queue

Requeued(a) == Append(packet_send_queue, a)

\* One packet of the batch.  Without a route it is queued again and the node
\* thread is asked for a discovery; after any other error it is forgotten.
RoutePacket ==
  /\ spc = "route"
  /\ batch # <<>>
  /\ batch' = Tail(batch)
  /\ LET a == Head(batch) IN
       \/ /\ "Ok" \in Outcomes(DestOf[a])
          /\ acks_out' = acks_out \cup {a}
          /\ UNCHANGED <<packet_send_queue, triggers, acks_lost>>
       \/ /\ "SendError" \in Outcomes(DestOf[a])
          /\ acks_lost' = acks_lost \cup {a}
          /\ UNCHANGED <<packet_send_queue, triggers, acks_out>>
       \/ /\ "NoRouteFound" \in Outcomes(DestOf[a])
          /\ packet_send_queue' = Requeued(a)
          /\ AskForDiscovery
          /\ UNCHANGED <<acks_out, acks_lost>>
  /\ UNCHANGED <<duty, sharedVars, spc, ackable_packet_send_queue,
                 flood_packets_queue, unvisited, gone, flooded, attempts,
                 transmitted, acked, given_up, answered>>

BatchDone ==
  /\ spc = "route"
  /\ batch = <<>>
  /\ spc' = "resend"
  /\ UNCHANGED <<duty, sharedVars, triggers, packet_send_queue,
                 ackable_packet_send_queue, flood_packets_queue, batch, unvisited,
                 gone, flooded, senderHistory>>

Attempted(item) == [ready |-> FALSE, retries |-> item.retries + 1]

\* One fragment whose back-off has elapsed.  Every attempt counts, also one
\* that found no route.
ResendFragment(f) ==
  /\ spc = "resend"
  /\ f \in unvisited
  /\ ackable_packet_send_queue[f].ready
  /\ \/ /\ "Ok" \in Outcomes(DestOf[f])
        /\ transmitted' = [transmitted EXCEPT ![f] = @ + 1]
        /\ UNCHANGED triggers
     \/ /\ "SendError" \in Outcomes(DestOf[f])
        /\ UNCHANGED <<transmitted, triggers>>
     \/ /\ "NoRouteFound" \in Outcomes(DestOf[f])
        /\ AskForDiscovery
        /\ UNCHANGED transmitted
  /\ ackable_packet_send_queue' =
       [ackable_packet_send_queue EXCEPT ![f] = Attempted(@)]
  /\ attempts' = [attempts EXCEPT ![f] = @ + 1]
  /\ unvisited' = unvisited \ {f}
  /\ UNCHANGED <<duty, sharedVars, spc, packet_send_queue, flood_packets_queue,
                 batch, gone, flooded, acked, given_up, acks_out, acks_lost,
                 answered>>

SkipFragment(f) ==
  /\ spc = "resend"
  /\ f \in unvisited
  /\ ~ ackable_packet_send_queue[f].ready
  /\ unvisited' = unvisited \ {f}
  /\ UNCHANGED <<duty, sharedVars, triggers, spc, packet_send_queue,
                 ackable_packet_send_queue, flood_packets_queue, batch, gone,
                 flooded, senderHistory>>

ResendDone ==
  /\ spc = "resend"
  /\ unvisited = {}
  /\ spc' = "flood"
  /\ UNCHANGED <<duty, sharedVars, triggers, packet_send_queue,
                 ackable_packet_send_queue, flood_packets_queue, batch, unvisited,
                 gone, flooded, senderHistory>>

\* flood_network_with_request: to every neighbour, holding the map's lock.
FloodRequest ==
  /\ spc = "flood"
  /\ flood_packets_queue # <<>>
  /\ Head(flood_packets_queue) = Request
  /\ neighbors \cap gone = {}
  /\ flood_packets_queue' = Tail(flood_packets_queue)
  /\ flooded' = IF IsLatest(Tail(flood_packets_queue)) THEN neighbors
                ELSE flooded
  /\ UNCHANGED <<duty, sharedVars, triggers, spc, packet_send_queue,
                 ackable_packet_send_queue, batch, unvisited, gone,
                 senderHistory>>

\* The same, with a neighbour that has dropped its receiver: `expect` panics
\* and poisons the lock; any of the other neighbours may have been reached.
FloodPanics ==
  /\ spc = "flood"
  /\ flood_packets_queue # <<>>
  /\ Head(flood_packets_queue) = Request
  /\ neighbors \cap gone # {}
  /\ flooded' \in IF IsLatest(Tail(flood_packets_queue))
                  THEN SUBSET (neighbors \ gone) ELSE {flooded}
  /\ spc' = "panicked"
  /\ UNCHANGED <<duty, sharedVars, triggers, packet_send_queue,
                 ackable_packet_send_queue, flood_packets_queue, batch, unvisited,
                 gone, senderHistory>>

\* response_to_flood_request: sent back, or dropped when that hop is no longer a
\* neighbour: the request is done with either way.
AnswerFlood ==
  /\ spc = "flood"
  /\ flood_packets_queue # <<>>
  /\ Head(flood_packets_queue).kind = "response"
  /\ flood_packets_queue' = Tail(flood_packets_queue)
  /\ answered' = answered + 1
  /\ UNCHANGED <<duty, sharedVars, triggers, spc, packet_send_queue,
                 ackable_packet_send_queue, batch, unvisited, gone, flooded,
                 attempts, transmitted, acked, given_up, acks_out, acks_lost>>

EndPass ==
  /\ spc = "flood"
  /\ flood_packets_queue = <<>>
  /\ spc' = "select"
  /\ UNCHANGED <<duty, sharedVars, triggers, packet_send_queue,
                 ackable_packet_send_queue, flood_packets_queue, batch, unvisited,
                 gone, flooded, senderHistory>>

SenderStep ==
  \/ ReceiveDuty \/ DutyTimeout \/ BeginPass
  \/ RoutePacket \/ BatchDone
  \/ \E f \in Fragment : ResendFragment(f) \/ SkipFragment(f)
  \/ ResendDone
  \/ FloodRequest \/ FloodPanics \/ AnswerFlood \/ EndPass

\* PACKET_RESEND_BACK_OFF_TIME has passed since the last attempt.
BackOffElapses ==
  /\ \E f \in DOMAIN ackable_packet_send_queue :
       /\ ~ ackable_packet_send_queue[f].ready
       /\ ackable_packet_send_queue' =
            [ackable_packet_send_queue EXCEPT
               ![f] = [ready |-> TRUE, retries |-> @.retries]]
  /\ UNCHANGED <<duty, sharedVars, triggers, spc, packet_send_queue,
                 flood_packets_queue, batch, unvisited, gone, flooded,
                 senderHistory>>

SenderInit ==
  /\ duty = <<>> /\ triggers = 0
  /\ network_topology = {} /\ ongoing = FALSE
  /\ spc = "select"
  /\ packet_send_queue = <<>> /\ flood_packets_queue = <<>> /\ batch = <<>>
  /\ ackable_packet_send_queue = [f \in {} |-> NewItem] /\ unvisited = {}
  /\ gone = {} /\ flooded = {}
  /\ attempts = [f \in Fragment |-> 0]
  /\ transmitted = [f \in Fragment |-> 0]
  /\ acked = {} /\ given_up = {} /\ acks_out = {} /\ acks_lost = {}
  /\ answered = 0
=============================================================================
