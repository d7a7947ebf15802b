------------------------------ MODULE Transport ------------------------------
(***************************************************************************)
(* One request of a client and the responses of the server, through both   *)
(* hosts and the network between them: each host sends as FragmentDelivery *)
(* says (HostNode implements it) and receives as FragmentReassembly does.  *)
(* The network loses, delays and reorders packets of all kinds; it does    *)
(* not copy them: copies come from the sender's attempts.  An attempt that *)
(* fails is no different from a copy that is lost, and not represented.    *)
(*                                                                         *)
(* The two hosts draw session ids at random for each request, and key all  *)
(* they keep by peer and session: exchanges with other ids do not meet.    *)
(* Within one, the server answers each execution of the request in the     *)
(* session of the request (handle_data_message).                           *)
(***************************************************************************)
EXTENDS Naturals, FiniteSets

CONSTANTS
  Request, Session,
  RequestLength,    \* in bytes
  ResponseLengths,  \* the lengths a response may have: what is asked for can
                    \* have changed between two executions
  FRAGMENT_DSIZE,
  ClientRetries, ServerRetries,  \* PACKET_RESEND_MAX_RETRIES, of either host
  Empty

\* Every fragment is transmitted at most ClientRetries times, so no request is
\* executed more often (shown by ChannelSpec).
Execution == 1 .. ClientRetries

Response == [execution : Execution, length : ResponseLengths]

ASSUME TransportAssumption ==
  /\ ClientRetries \in Nat \ {0} /\ ServerRetries \in Nat \ {0}
  /\ FRAGMENT_DSIZE \in Nat \ {0} /\ RequestLength \in Nat \ {0}
  /\ ResponseLengths \subseteq Nat \ {0} /\ ResponseLengths # {}

VARIABLES
  \* the sender of each host (FragmentDelivery)
  client_stage, client_attempts, client_transmitted,
  server_stage, server_attempts, server_transmitted,
  \* the fragment_constructors of each host (FragmentReassembly)
  server_constructors, server_acked, server_buffers, server_handed,
  server_arrived,
  client_constructors, client_acked, client_buffers, client_handed,
  client_arrived,
  \* the network: Acks under way to the server, by fragment index
  acks

clientSending == <<client_stage, client_attempts, client_transmitted>>
serverSending == <<server_stage, server_attempts, server_transmitted>>
serverReceiving == <<server_constructors, server_acked, server_buffers,
                     server_handed, server_arrived>>
clientReceiving == <<client_constructors, client_acked, client_buffers,
                     client_handed, client_arrived>>
vars == <<clientSending, serverSending, serverReceiving, clientReceiving,
          acks>>

ServerReceiver == INSTANCE FragmentReassembly WITH
  Message <- {Request}, Session <- {Session},
  SessionOf <- [m \in {Request} |-> Session],
  DataLen <- [m \in {Request} |-> RequestLength], MaxCopies <- ClientRetries,
  fragment_constructors <- server_constructors, acked <- server_acked,
  buffers <- server_buffers, handed <- server_handed, arrived <- server_arrived

ClientReceiver == INSTANCE FragmentReassembly WITH
  Message <- Response, Session <- {Session},
  SessionOf <- [m \in Response |-> Session],
  DataLen <- [m \in Response |-> m.length], MaxCopies <- ServerRetries,
  fragment_constructors <- client_constructors, acked <- client_acked,
  buffers <- client_buffers, handed <- client_handed, arrived <- client_arrived

RequestFragment == ServerReceiver!Fragment
ResponseFragment == ClientReceiver!Fragment

\* An unfilled slot (Option::None) is no fragment.
ASSUME EmptyAssumption == Empty \notin RequestFragment \cup ResponseFragment

ClientSender == INSTANCE FragmentDelivery WITH
  Fragment <- RequestFragment, Retries <- ClientRetries, stage <- client_stage,
  attempts <- client_attempts, transmitted <- client_transmitted

ServerSender == INSTANCE FragmentDelivery WITH
  Fragment <- ResponseFragment, Retries <- ServerRetries, stage <- server_stage,
  attempts <- server_attempts, transmitted <- server_transmitted

Index(fragments) == {f.index : f \in fragments}

\* How often the server has executed the request.
executions == server_handed[Session]

-----------------------------------------------------------------------------
(* The client's sender, and the request on its way *)

\* send_data_message, for a SendMessage command.
SendRequest ==
  /\ ClientSender!Submit(RequestFragment)
  /\ UNCHANGED <<serverSending, serverReceiving, clientReceiving, acks>>

ClientSends ==
  /\ \/ \E f \in RequestFragment : ClientSender!Transmit(f)
     \/ \E f \in RequestFragment : ClientSender!GiveUp({f})
  /\ UNCHANGED <<serverSending, serverReceiving, clientReceiving, acks>>

\* handle_data_message: the request is executed, whether it was before or
\* not, and answered in its session.
Answer ==
  \E n \in ResponseLengths :
    ServerSender!Submit(
      ClientReceiver!FragmentsOf([execution |-> executions + 1, length |-> n]))

\* A copy of f that was transmitted and neither lost nor received yet.
RequestArrives(f) ==
  /\ server_arrived[f] < client_transmitted[f]
  /\ \/ ServerReceiver!StoreFragment(f) /\ UNCHANGED serverSending
     \/ ServerReceiver!CompleteMessage(f) /\ Answer
  /\ UNCHANGED <<clientSending, clientReceiving, acks>>

\* Mutant: the Ack settles the whole message.
MatchingAny(waiting, i) == waiting

\* retain_acked_fragments: what waits with that peer, session and index.
Matching(waiting, i) == {f \in waiting : f.index = i}

\* An Ack that was sent reaches the client: at some time, perhaps never; a
\* second one for the same fragment settles nothing.
AckReachesClient(f) ==
  /\ f \in server_acked
  /\ ClientSender!Acknowledge(Matching(ClientSender!Waiting, f.index))
  /\ UNCHANGED <<serverSending, serverReceiving, clientReceiving, acks>>

-----------------------------------------------------------------------------
(* The server's sender, and the responses on their way *)

ServerSends ==
  /\ \/ \E f \in ResponseFragment : ServerSender!Transmit(f)
     \/ \E f \in ResponseFragment : ServerSender!GiveUp({f})
  /\ UNCHANGED <<clientSending, serverReceiving, clientReceiving, acks>>

\* The client application only passes a response on; it answers nothing.  A
\* fragment beyond the length that the first one of the session announced is
\* rejected, with the constructor, and not acknowledged.
ResponseArrives(f) ==
  /\ client_arrived[f] < server_transmitted[f]
  /\ \/ /\ ClientReceiver!StoreFragment(f) \/ ClientReceiver!CompleteMessage(f)
        /\ acks' = [acks EXCEPT ![f.index] = @ + 1]
     \/ ClientReceiver!RejectFragment(f) /\ UNCHANGED acks
  /\ UNCHANGED <<clientSending, serverSending, serverReceiving>>

AckReachesServer(i) ==
  /\ acks[i] > 0
  /\ acks' = [acks EXCEPT ![i] = @ - 1]
  /\ LET S == Matching(ServerSender!Waiting, i)
     IN  IF S = {} THEN UNCHANGED serverSending ELSE ServerSender!Acknowledge(S)
  /\ UNCHANGED <<clientSending, serverReceiving, clientReceiving>>

Init ==
  /\ ClientSender!Init /\ ServerSender!Init
  /\ ServerReceiver!Init /\ ClientReceiver!Init
  /\ acks = [i \in Index(ResponseFragment) |-> 0]

Next ==
  \/ SendRequest \/ ClientSends \/ ServerSends
  \/ \E f \in RequestFragment : RequestArrives(f) \/ AckReachesClient(f)
  \/ \E f \in ResponseFragment : ResponseArrives(f)
  \/ \E i \in Index(ResponseFragment) : AckReachesServer(i)

Spec == Init /\ [][Next]_vars

-----------------------------------------------------------------------------
(* Properties *)

Stages == {client_stage[f] : f \in RequestFragment}

Status ==
  CASE "given_up" \in Stages -> "abandoned"
    [] "given_up" \notin Stages /\ "waiting" \in Stages -> "open"
    [] Stages = {"acked"} -> "confirmed"
    [] Stages = {"new"} -> "idle"

\* The executions that a buffer of the client has fragments of.
Sources(b) ==
  {b.parts[i].msg.execution : i \in {j \in DOMAIN b.parts : b.parts[j] # Empty}}

Channel == INSTANCE RequestChannel WITH
  Request <- {Request}, MaxExecutions <- ClientRetries, MaxReplies <- ServerRetries,
  status <- [r \in {Request} |-> Status],
  executions <- [r \in {Request} |-> executions],
  replies <- [r \in {Request} |-> client_handed[Session]],
  content <- [r \in {Request} |-> {Sources(b) : b \in client_buffers}]

\* Lost, late and repeated packets do not show: the two hosts are a channel
\* on which a request is executed at most Retries times, surely once if all its
\* fragments were acknowledged, and replies follow executions.
ChannelSpec == Channel!Spec

AllAcked ==
  /\ executions > 0
  /\ \A f \in ResponseFragment : server_stage[f] \in {"new", "acked"}

\* The responses submitted so far.
Submitted == {f.msg : f \in {g \in ResponseFragment : server_stage[g] # "new"}}

\* assets/spec/AP-protocol.md: "Once that the client or server has received
\* all fragments [...] then it has reassembled the whole message and sends back
\* an Ack": with every fragment of the responses settled, one was handed over.
AnsweredIfAcked == AllAcked => client_handed[Session] > 0

\* A response that was settled reached the client: if every fragment the
\* server submitted was acknowledged, the client has been handed a reply,
\* although one Ack settles the fragments of all responses with its index, and
\* their fragments meet in one constructor; provided that the responses to
\* repeated executions are equally long.
AnsweredIfAlike ==
  (AllAcked /\ \A m, n \in Submitted : m.length = n.length)
    => client_handed[Session] > 0
=============================================================================
