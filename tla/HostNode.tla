------------------------------ MODULE HostNode ------------------------------
(***************************************************************************)
(* A host: the node thread (Node::run in network/main.rs with the          *)
(* NetDiscovery it owns) next to its sender thread (PacketSender), between *)
(* a controller that sends commands and a network that loses, delays and   *)
(* repeats packets.  Reassembly and the application are elsewhere          *)
(* (FragmentReassembly, CommunicationServer): here a fragment that arrives *)
(* is an Ack to send and, when it completes a request, a response as well. *)
(* That the buffer can be deserialized (WholeWhenAlone) is taken as given. *)
(*                                                                         *)
(* Time is abstract: a timer may fire at any moment after it was started.  *)
(* The discovery id is random in the code; what matters is only whether a  *)
(* flood request is the latest one (`flooded` and IsLatest).               *)
(***************************************************************************)
EXTENDS PacketSender, FiniteSets

CONSTANTS
  Command,       \* the commands the controller may issue, each once
  InitialNeighbors,
  HostHops,      \* hops that are hosts: they drop their receiver on Quit
  Reach,         \* what the network can answer: pairs <<first hop, peer>>
  AnswerTo,      \* the fragments of the response that an incoming fragment
                 \* calls for, if it completes a request; <<>> otherwise
  MaxNacks,      \* bound: Nacks that report a routing error
  MaxForeign,    \* bound: flood requests of other nodes
  MaxAcks        \* bound: Acks received for one fragment

\* A "send" command stands for the fragments of one message, in order;
\* "close" for the end of the channel: the controller dropped its sender, as
\* destroy_network does with the nodes it did not reach when it fails.
ASSUME HostAssumption ==
  /\ \A c \in Command :
       \/ c.kind = "send" /\ c.of \in Seq(Fragment)
       \/ c.kind \in {"add", "remove"} /\ c.of \in Hop
       \/ c.kind \in {"quit", "close"}
  /\ InitialNeighbors \subseteq Hop /\ HostHops \subseteq Hop
  /\ Reach \subseteq Hop \X Peer
  /\ AnswerTo \in [Incoming -> Seq(Fragment)]
  /\ MaxNacks \in Nat /\ MaxForeign \in Nat /\ MaxAcks \in Nat

Members(s) == {s[i] : i \in DOMAIN s}

Distinct(s) == \A i, j \in DOMAIN s : s[i] = s[j] => i = j

SendCommands == {c \in Command : c.kind = "send"}

\* send_data_message cuts up one message and makes its fragments: none is part
\* of two messages, or of one message twice.
ASSUME FreshAssumption ==
  /\ \A c \in SendCommands : Distinct(c.of)
  /\ \A a \in Incoming : Distinct(AnswerTo[a])
  /\ \A c, d \in SendCommands : c # d => Members(c.of) \cap Members(d.of) = {}
  /\ \A a, b \in Incoming :
       a # b => Members(AnswerTo[a]) \cap Members(AnswerTo[b]) = {}
  /\ \A c \in SendCommands, a \in Incoming :
       Members(c.of) \cap Members(AnswerTo[a]) = {}

VARIABLES
  npc,        \* where the node thread is in run
  commands,   \* channel of NodeCommand
  responses,  \* what the flood responses of this discovery say
  elapsed,    \* MAX_WAIT_FLOOD_RESPONSE has passed since the last init
  \* history and bounds
  issued,     \* the commands issued so far
  submitted,  \* the fragments handed to the sender thread
  received,   \* fragments that arrived here
  acks_in,    \* Acks received, by fragment
  nacks,      \* Nacks received
  asked,      \* flood requests of other nodes received
  saved,      \* the application's stop() has run
  cut_off     \* "early" ("late"): nobody holds a sender of the packet channel
              \* any more since before (after) Quit was issued; else "no"

nodeVars == <<npc, commands, responses, elapsed, issued, submitted, received,
              acks_in, nacks, asked, saved, cut_off>>
vars == <<senderVars, nodeVars>>

\* What the node thread never touches.
senderPrivate == <<spc, packet_send_queue, ackable_packet_send_queue,
                   flood_packets_queue, batch, unvisited, gone, senderHistory>>

NodeFinished == npc \in {"stopped", "panicked"}

-----------------------------------------------------------------------------
(* NetDiscovery *)

\* Mutants: init forgets to clear the responses; the request is not sent.
TriggerDiscoveryKeepingResponses ==
  /\ ongoing' = TRUE
  /\ elapsed' = FALSE
  /\ UNCHANGED responses
  /\ flooded' = {}
  /\ IF SenderFinished
     THEN npc' = "panicked" /\ UNCHANGED duty
     ELSE npc' = "loop" /\ duty' = Append(duty, Request)

TriggerDiscoveryWithoutRequest ==
  /\ ongoing' = TRUE /\ elapsed' = FALSE
  /\ responses' = {} /\ flooded' = {}
  /\ npc' = "loop"
  /\ UNCHANGED duty

\* trigger_network_discovery: NetDiscovery::init and the flood request.  The
\* channel is closed once the sender thread has ended: `expect` panics.
TriggerDiscovery ==
  /\ ongoing' = TRUE
  /\ elapsed' = FALSE
  /\ responses' = {}
  /\ flooded' = {}
  /\ IF SenderFinished
     THEN npc' = "panicked" /\ UNCHANGED duty
     ELSE npc' = "loop" /\ duty' = Append(duty, Request)

-----------------------------------------------------------------------------
(* The loop of run *)

\* Before the loop: the first discovery.
Start ==
  /\ npc = "start"
  /\ TriggerDiscovery
  /\ UNCHANGED <<senderPrivate, triggers, neighbors, network_topology,
                 commands, issued, submitted, received, acks_in, nacks, asked,
                 saved, cut_off>>

\* is_finished: the loop ends, and the application is not stopped.
NoticeSenderEnd ==
  /\ npc = "loop"
  /\ SenderFinished
  /\ npc' = "ending"
  /\ UNCHANGED <<senderVars, commands, responses, elapsed, issued, submitted,
                 received, acks_in, nacks, asked, saved, cut_off>>

\* Mutant: the flag stays up.
EndDiscoveryKeepingFlag ==
  /\ npc = "loop"
  /\ ~ SenderFinished
  /\ ongoing /\ elapsed
  /\ npc' = "publish"
  /\ UNCHANGED <<senderVars, commands, responses, elapsed, issued, submitted,
                 received, acks_in, nacks, asked, saved, cut_off>>

\* The flag falls before the new topology is in place.
EndDiscovery ==
  /\ npc = "loop"
  /\ ~ SenderFinished
  /\ ongoing /\ elapsed
  /\ ongoing' = FALSE
  /\ npc' = "publish"
  /\ UNCHANGED <<senderPrivate, duty, triggers, neighbors, network_topology,
                 flooded, commands, responses, elapsed, issued, submitted,
                 received, acks_in, nacks, asked, saved, cut_off>>

\* parse_network
PublishTopology ==
  /\ npc = "publish"
  /\ network_topology' = responses
  /\ responses' = {}
  /\ npc' = "select"
  /\ UNCHANGED <<senderPrivate, duty, triggers, neighbors, ongoing, flooded,
                 commands, elapsed, issued, submitted, received, acks_in,
                 nacks, asked, saved, cut_off>>

ReachSelect ==
  /\ npc = "loop"
  /\ ~ SenderFinished
  /\ ~ (ongoing /\ elapsed)
  /\ npc' = "select"
  /\ UNCHANGED <<senderVars, commands, responses, elapsed, issued, submitted,
                 received, acks_in, nacks, asked, saved, cut_off>>

\* Mutant: the select never times out.
SelectWithoutTimeout == FALSE

\* The select has a timeout only while a discovery is under way.
SelectTimeout ==
  /\ npc = "select"
  /\ commands = <<>> /\ triggers = 0
  /\ ongoing /\ elapsed
  /\ npc' = "loop"
  /\ UNCHANGED <<senderVars, commands, responses, elapsed, issued, submitted,
                 received, acks_in, nacks, asked, saved, cut_off>>

-----------------------------------------------------------------------------
(* Commands come first in the biased select *)

TakeCommand(kind) ==
  /\ npc = "select"
  /\ commands # <<>>
  /\ Head(commands).kind = kind
  /\ commands' = Tail(commands)

\* AddNeighbour and RemoveNeighbour change the map, then trigger; a poisoned
\* lock panics.
ChangeNeighbours(kind) ==
  /\ TakeCommand(kind)
  /\ IF spc = "panicked"
     THEN npc' = "panicked" /\ UNCHANGED neighbors
     ELSE /\ npc' = "trigger"
          /\ neighbors' = IF kind = "add"
                          THEN neighbors \cup {Head(commands).of}
                          ELSE neighbors \ {Head(commands).of}
  /\ UNCHANGED <<senderPrivate, duty, triggers, network_topology, ongoing,
                 flooded, responses, elapsed, issued, submitted, received,
                 acks_in, nacks, asked, saved, cut_off>>

TriggerAfterChange ==
  /\ npc = "trigger"
  /\ TriggerDiscovery
  /\ UNCHANGED <<senderPrivate, triggers, neighbors, network_topology,
                 commands, issued, submitted, received, acks_in, nacks, asked,
                 saved, cut_off>>

FragmentDuties(fragments) ==
  [i \in DOMAIN fragments |-> Duty("fragment", fragments[i])]

\* send_data_message; on a closed channel it gives up silently.
SendMessage ==
  /\ TakeCommand("send")
  /\ npc' = "loop"
  /\ IF SenderFinished
     THEN UNCHANGED <<duty, submitted>>
     ELSE LET fragments == Head(commands).of IN
          /\ duty' = duty \o FragmentDuties(fragments)
          /\ submitted' = submitted \cup Members(fragments)
  /\ UNCHANGED <<senderPrivate, triggers, neighbors, network_topology, ongoing,
                 flooded, responses, elapsed, issued, received, acks_in, nacks,
                 asked, saved, cut_off>>

\* Quit: stop the application, then (QuitSender) the sender thread.
Quit ==
  /\ TakeCommand("quit")
  /\ saved' = TRUE
  /\ npc' = "ending"
  /\ UNCHANGED <<senderVars, responses, elapsed, issued, submitted, received,
                 acks_in, nacks, asked, cut_off>>

\* recv fails: the loop ends, and the application is not stopped.
CommandsClosed ==
  /\ TakeCommand("close")
  /\ npc' = "ending"
  /\ UNCHANGED <<senderVars, responses, elapsed, issued, submitted, received,
                 acks_in, nacks, asked, saved, cut_off>>

-----------------------------------------------------------------------------
(* Then triggers *)

TakeTrigger ==
  /\ npc = "select"
  /\ commands = <<>>
  /\ triggers > 0
  /\ triggers' = triggers - 1
  /\ TriggerDiscovery
  /\ UNCHANGED <<senderPrivate, neighbors, network_topology, commands, issued,
                 submitted, received, acks_in, nacks, asked, saved, cut_off>>

SenderChannelClosed ==
  /\ npc = "select"
  /\ commands = <<>> /\ triggers = 0
  /\ SenderFinished
  /\ npc' = "ending"
  /\ UNCHANGED <<senderVars, commands, responses, elapsed, issued, submitted,
                 received, acks_in, nacks, asked, saved, cut_off>>

-----------------------------------------------------------------------------
(* Then packets: handle_packet *)

TakePacket ==
  /\ npc = "select"
  /\ commands = <<>> /\ triggers = 0 /\ ~ SenderFinished
  /\ npc' = "loop"

\* handle_fragment: the Ack, then the response if there is one, all through
\* the sender thread.
ReceiveFragment(a) ==
  /\ a \notin received
  /\ received' = received \cup {a}
  /\ duty' = Append(duty, Duty("ack", a)) \o FragmentDuties(AnswerTo[a])
  /\ submitted' = submitted \cup Members(AnswerTo[a])
  /\ UNCHANGED <<ongoing, flooded, responses, elapsed, acks_in, nacks, asked>>

\* An Ack answers a copy that was transmitted; it may come late, or twice.
ReceiveAck(f) ==
  /\ acks_in[f] < transmitted[f] /\ acks_in[f] < MaxAcks
  /\ acks_in' = [acks_in EXCEPT ![f] = @ + 1]
  /\ duty' = Append(duty, Duty("acked", f))
  /\ UNCHANGED <<ongoing, flooded, responses, elapsed, submitted, received,
                 nacks, asked>>

\* Mutant: requests are ignored, as a busy host might.
ReceiveFloodRequestIgnoring ==
  /\ asked < MaxForeign
  /\ asked' = asked + 1
  /\ UNCHANGED <<duty, ongoing, flooded, responses, elapsed, submitted,
                 received, acks_in, nacks>>

ReceiveFloodRequest ==
  /\ asked < MaxForeign
  /\ asked' = asked + 1
  /\ duty' = Append(duty, Duty("response", "other"))
  /\ UNCHANGED <<ongoing, flooded, responses, elapsed, submitted, received,
                 acks_in, nacks>>

\* A response to the latest request; any other has the wrong id and changes
\* nothing.  It is kept even when the discovery is over.
ReceiveFloodResponse(link) ==
  /\ link[1] \in flooded
  /\ link \notin responses
  /\ responses' = responses \cup {link}
  /\ UNCHANGED <<duty, ongoing, flooded, elapsed, submitted, received, acks_in,
                 nacks, asked>>

\* UnexpectedRecipient, DestinationIsDrone or ErrorInRouting; a Dropped Nack
\* changes nothing: the fragment waits for its back-off.
ReceiveNack ==
  /\ nacks < MaxNacks
  /\ acks_out # {} \/ \E f \in Fragment : transmitted[f] > 0
  /\ nacks' = nacks + 1
  /\ TriggerDiscovery
  /\ UNCHANGED <<submitted, received, acks_in, asked>>

\* Mutant: packets before commands, as in a select that is not biased.
PacketsClosedUnbiased ==
  /\ npc = "select"
  /\ cut_off # "no"
  /\ npc' = "ending"
  /\ UNCHANGED <<senderVars, commands, responses, elapsed, issued, submitted,
                 received, acks_in, nacks, asked, saved, cut_off>>

\* recv fails once the channel is empty and its last sender is gone: the loop
\* ends, and the application is not stopped.
PacketsClosed ==
  /\ npc = "select"
  /\ commands = <<>> /\ triggers = 0 /\ ~ SenderFinished
  /\ cut_off # "no"
  /\ npc' = "ending"
  /\ UNCHANGED <<senderVars, commands, responses, elapsed, issued, submitted,
                 received, acks_in, nacks, asked, saved, cut_off>>

HandlePacket ==
  /\ TakePacket
  /\ \/ \E a \in Incoming : ReceiveFragment(a)
     \/ \E f \in Fragment : ReceiveAck(f)
     \/ ReceiveFloodRequest
     \/ \E link \in Reach : ReceiveFloodResponse(link)
     \/ ReceiveNack
  /\ UNCHANGED <<senderPrivate, triggers, neighbors, network_topology,
                 commands, issued, saved, cut_off>>

-----------------------------------------------------------------------------
(* After the loop *)

\* Mutant: the sender thread is not told to quit.
QuitSenderSilently ==
  /\ npc = "ending"
  /\ npc' = IF SenderFinished THEN "panicked" ELSE "join"
  /\ UNCHANGED <<senderVars, commands, responses, elapsed, issued, submitted,
                 received, acks_in, nacks, asked, saved, cut_off>>

\* send(Quit).unwrap() fails when the sender thread is gone already.
QuitSender ==
  /\ npc = "ending"
  /\ IF SenderFinished
     THEN npc' = "panicked" /\ UNCHANGED duty
     ELSE npc' = "join" /\ duty' = Append(duty, Duty("quit", "self"))
  /\ UNCHANGED <<senderPrivate, triggers, neighbors, network_topology, ongoing,
                 flooded, commands, responses, elapsed, issued, submitted,
                 received, acks_in, nacks, asked, saved, cut_off>>

\* Mutant: wait for a regular end.
JoinSenderStopped ==
  /\ npc = "join"
  /\ spc = "stopped"
  /\ npc' = "stopped"
  /\ UNCHANGED <<senderVars, commands, responses, elapsed, issued, submitted,
                 received, acks_in, nacks, asked, saved, cut_off>>

JoinSender ==
  /\ npc = "join"
  /\ SenderFinished
  /\ npc' = IF spc = "stopped" THEN "stopped" ELSE "panicked"
  /\ UNCHANGED <<senderVars, commands, responses, elapsed, issued, submitted,
                 received, acks_in, nacks, asked, saved, cut_off>>

\* What the node thread does of itself; packets depend on the network.
NodeStep ==
  \/ Start \/ NoticeSenderEnd \/ EndDiscovery \/ PublishTopology
  \/ ReachSelect \/ SelectTimeout
  \/ ChangeNeighbours("add") \/ ChangeNeighbours("remove")
  \/ TriggerAfterChange \/ SendMessage \/ Quit \/ CommandsClosed
  \/ TakeTrigger \/ SenderChannelClosed \/ PacketsClosed
  \/ QuitSender \/ JoinSender

-----------------------------------------------------------------------------
(* The environment *)

DiscoveryTimeElapses ==
  /\ ongoing /\ ~ elapsed
  /\ elapsed' = TRUE
  /\ UNCHANGED <<senderVars, npc, commands, responses, issued, submitted,
                 received, acks_in, nacks, asked, saved, cut_off>>

QuitIssued == \E c \in issued : c.kind = "quit"

\* After Quit the controller drops its sender; between cutting off a host and
\* its Quit, delete_node issues nothing (it holds the lock).
IssueCommand ==
  /\ ~ NodeFinished
  /\ \A c \in issued : c.kind \notin {"quit", "close"}
  /\ \E c \in Command \ issued :
       /\ cut_off = "no" \/ c.kind = "quit"
       /\ commands' = Append(commands, c)
       /\ issued' = issued \cup {c}
  /\ UNCHANGED <<senderVars, npc, responses, elapsed, submitted, received,
                 acks_in, nacks, asked, saved, cut_off>>

\* delete_node: the controller drops its sender of the packet channel, and the
\* neighbours theirs, at the command they get before this host gets its Quit;
\* those that are slow drop it afterwards.  Packets may remain.
CutOff ==
  /\ ~ NodeFinished
  /\ cut_off = "no"
  /\ \E c \in Command : c.kind = "quit"
  /\ \A c \in issued : c.kind # "close"
  /\ cut_off' = IF QuitIssued THEN "late" ELSE "early"
  /\ UNCHANGED <<senderVars, npc, commands, responses, elapsed, issued,
                 submitted, received, acks_in, nacks, asked, saved>>

\* A neighbour that is a host ends and drops its receiver.
HopQuits ==
  /\ \E h \in HostHops \ gone : gone' = gone \cup {h}
  /\ UNCHANGED <<duty, triggers, sharedVars, spc, packet_send_queue,
                 ackable_packet_send_queue, flood_packets_queue, batch, unvisited,
                 flooded, senderHistory, nodeVars>>

Init ==
  /\ SenderInit
  /\ neighbors = InitialNeighbors
  /\ npc = "start"
  /\ commands = <<>> /\ responses = {} /\ elapsed = FALSE
  /\ issued = {} /\ submitted = {} /\ received = {}
  /\ acks_in = [f \in Fragment |-> 0]
  /\ nacks = 0 /\ asked = 0
  /\ saved = FALSE
  /\ cut_off = "no"

Next ==
  \/ SenderStep /\ UNCHANGED nodeVars
  \/ BackOffElapses /\ UNCHANGED nodeVars
  \/ NodeStep
  \/ HandlePacket
  \/ DiscoveryTimeElapses
  \/ IssueCommand
  \/ CutOff
  \/ HopQuits

Spec == Init /\ [][Next]_vars

\* Both threads are scheduled, and time passes.
Fairness ==
  /\ WF_vars(SenderStep /\ UNCHANGED nodeVars)
  /\ WF_vars(NodeStep)
  /\ WF_vars(DiscoveryTimeElapses)
  /\ WF_vars(BackOffElapses /\ UNCHANGED nodeVars)

FairSpec == Spec /\ Fairness

-----------------------------------------------------------------------------
(* Properties *)

InQueue(f) == f \in DOMAIN ackable_packet_send_queue

\* x is in s once at most.
Once(x, s) == \A i, j \in DOMAIN s : s[i] = x /\ s[j] = x => i = j

\* What the node thread may hand to the sender thread.
DutyMessage ==
  [kind : {"fragment", "acked"}, of : Fragment]
    \cup [kind : {"ack"}, of : Incoming]
    \cup {Request, Duty("response", "other"), Duty("quit", "self")}

TypeOK ==
  /\ duty \in Seq(DutyMessage) /\ commands \in Seq(Command)
  /\ neighbors \subseteq Hop /\ network_topology \subseteq Hop \X Peer
  /\ ongoing \in BOOLEAN /\ elapsed \in BOOLEAN /\ saved \in BOOLEAN
  /\ triggers \in 0 .. MaxTriggers
  /\ spc \in {"select", "process", "route", "resend", "flood", "stopped",
              "panicked"}
  /\ npc \in {"start", "loop", "publish", "select", "trigger", "ending",
              "join", "stopped", "panicked"}
  /\ packet_send_queue \in Seq(Incoming) /\ batch \in Seq(Incoming)
  /\ DOMAIN ackable_packet_send_queue \subseteq Fragment
  /\ \A f \in DOMAIN ackable_packet_send_queue :
       ackable_packet_send_queue[f] \in
         [ready : BOOLEAN, retries : 0 .. PACKET_RESEND_MAX_RETRIES]
  /\ unvisited \subseteq DOMAIN ackable_packet_send_queue
  /\ flood_packets_queue \in Seq({Request, Duty("response", "other")})
  /\ responses \subseteq Reach /\ flooded \subseteq Hop /\ gone \subseteq HostHops
  /\ attempts \in [Fragment -> Nat] /\ transmitted \in [Fragment -> Nat]
  /\ acked \subseteq Fragment /\ given_up \subseteq Fragment
  /\ submitted \subseteq Fragment
  /\ acks_out \subseteq Incoming /\ acks_lost \subseteq Incoming
  /\ received \subseteq Incoming /\ issued \subseteq Command
  /\ acks_in \in [Fragment -> 0 .. MaxAcks]
  /\ nacks \in 0 .. MaxNacks /\ asked \in 0 .. MaxForeign /\ answered \in Nat
  /\ cut_off \in {"no", "early", "late"}

\* A fragment handed to the sender thread is in exactly one place, and there
\* once: on its way to the queue, in the queue, acknowledged, or given up; and
\* it is given up after PACKET_RESEND_MAX_RETRIES attempts, no more and no less.
FragmentConserved ==
  \A f \in Fragment :
    LET coming == IsIn(Duty("fragment", f), duty)
        settled == f \in acked \cup given_up
    IN  /\ f \in submitted <=> coming \/ InQueue(f) \/ settled
        /\ Once(Duty("fragment", f), duty)
        /\ coming => ~ (InQueue(f) \/ settled)
        /\ InQueue(f) => ~ settled
        /\ ~ (f \in acked /\ f \in given_up)
        /\ f \in given_up => attempts[f] = PACKET_RESEND_MAX_RETRIES
        /\ attempts[f] <= PACKET_RESEND_MAX_RETRIES

\* Between discoveries every route begins with a current neighbour: a stale
\* topology, whose packets route_packet drops without asking for a new
\* discovery, is only ever used until the discovery under way ends.
RoutesUseNeighbours ==
  (~ ongoing /\ npc \in {"loop", "select"}) =>
    \A link \in network_topology : link[1] \in neighbors

\* What FragmentDelivery calls the stage of a fragment.
Stage ==
  [f \in Fragment |->
     CASE f \in acked -> "acked"
       [] f \in given_up -> "given_up"
       [] f \in submitted \ (acked \cup given_up) -> "waiting"
       [] OTHER -> "new"]

Delivery == INSTANCE FragmentDelivery
              WITH stage <- Stage, Retries <- PACKET_RESEND_MAX_RETRIES

\* A host sends fragments as FragmentDelivery says: a fragment is tried at most
\* PACKET_RESEND_MAX_RETRIES times, given up only then, settled once, and never
\* on the wire again once it is settled.
DeliverySpec == Delivery!Spec

\* Neither thread ends before the controller asks for it (given that messages
\* can be deserialized), and then the application has been stopped (which is
\* when it saves its state); unless the controller drops the host without a
\* word, or a neighbour has dropped its receiver, or all who could send packets
\* were gone before Quit was issued.  After that it is too late: however fast
\* the neighbours are, Quit comes first in the biased select.
EndsSaved ==
  (SenderFinished \/ NodeFinished) =>
    \/ saved \/ gone # {} \/ cut_off = "early"
    \/ \E c \in issued : c.kind = "close"

\* The Ack for a fragment that was received is in exactly one of five places,
\* and there once: on its way to the sender thread, waiting for a route, in the
\* batch that is being routed, sent, or dropped; and it is dropped only when the
\* neighbours changed under the topology in use, or one of them ended.
AckConserved ==
  \A a \in Incoming :
    LET duties == IsIn(Duty("ack", a), duty)
        queued == IsIn(a, packet_send_queue)
        routed == IsIn(a, batch)
        out == a \in acks_out
        lost == a \in acks_lost
    IN  /\ a \in received <=> duties \/ queued \/ routed \/ out \/ lost
        /\ Once(Duty("ack", a), duty)
        /\ Once(a, packet_send_queue) /\ Once(a, batch)
        /\ duties => ~ (queued \/ routed \/ out \/ lost)
        /\ queued => ~ (routed \/ out \/ lost)
        /\ routed => ~ (out \/ lost)
        /\ ~ (out /\ lost)
        /\ lost => gone # {} \/ \E c \in issued : c.kind = "remove"

\* packet_sender.rs: expect("Failed to send packet").
SenderNeverPanics == spc # "panicked"

\* Every discovery ends, or the host does.
DiscoveryEnds == ongoing ~> (~ ongoing \/ NodeFinished \/ npc = "join")

\* A fragment handed to the sender thread does not stay in the queue forever,
\* whatever discoveries and unroutable Acks come in between.
FragmentSettles ==
  \A f \in Fragment :
    (f \in submitted) ~> (f \in acked \cup given_up \/ SenderFinished)

\* A host is never left half alive: when the sender thread panics, so does
\* the node thread (in `expect` or in `unwrap`), without saving.
PanicEndsHost == (spc = "panicked") ~> NodeFinished

\* Quit ends both threads.
QuitEnds == (npc = "ending") ~> (npc \in {"stopped", "panicked"})

\* A discovery that was started gets its flood request out, late perhaps, or
\* a newer one does.
DiscoveryFloods ==
  (ongoing /\ flooded = {}) ~> (flooded # {} \/ SenderFinished \/ neighbors = {})

\* Flood requests of other nodes are dealt with, also during a discovery.
FloodAnswered ==
  \A n \in 1 .. MaxForeign : (asked >= n) ~> (answered >= n \/ SenderFinished)
=============================================================================
